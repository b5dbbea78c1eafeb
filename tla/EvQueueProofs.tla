--------------------------- MODULE EvQueueProofs ---------------------------
EXTENDS EvQueue, TLAPS

\* Two positions of the ring add up to less than twice its size, where the
\* remainder of the code's `% q->cap' is a conditional subtraction.
LEMMA Wrap ==
    ASSUME NEW a \in 0 .. Cap, NEW k \in 0 .. Cap, a + k < Cap + Cap
    PROVE  /\ (a + k) % Cap = IF a + k < Cap THEN a + k ELSE a + k - Cap
           /\ (a + k) % Cap \in 0 .. Cap - 1
  <1>1. (a + k) % Cap = IF a + k < Cap THEN a + k ELSE a + k - Cap
    BY SMT, CapAssumption
  <1> QED BY <1>1, CapAssumption

\* Two byte strings of one length that agree on every byte are the same.
LEMMA SameBytes ==
    ASSUME NEW x \in Seq(Byte), NEW y \in Seq(Byte), Len(x) = Len(y),
           \A k \in 1 .. Len(y) : x[k] = y[k]
    PROVE  x = y
  OBVIOUS

\* Writing a length into a frame header and reading it back gives the length.
LEMMA HeaderRoundTrip ==
    ASSUME NEW n \in Nat, n < 256 * 256 * 256
    PROVE  /\ Header(n) \in Seq(Byte)
           /\ Len(Header(n)) = 4
           /\ FrameLen(Header(n)) = n
  <1> DEFINE n1 == n \div 256
             n2 == n1 \div 256
             n3 == n2 \div 256
  <1>1. /\ n \in Nat /\ n1 \in Nat
        /\ n % 256 \in Byte
        /\ n = 256 * n1 + (n % 256)
    BY DEF Byte
  <1>2. /\ n2 \in Nat
        /\ n1 % 256 \in Byte
        /\ n1 = 256 * n2 + (n1 % 256)
    <2> HIDE DEF n1
    <2> QED BY <1>1 DEF Byte
  <1>3. /\ n3 \in Nat
        /\ n2 % 256 \in Byte /\ n3 % 256 \in Byte
        /\ n2 = 256 * n3 + (n2 % 256)
    <2> HIDE DEF n2
    <2> QED BY <1>2 DEF Byte
  <1>4. n3 = n3 % 256
    <2> HIDE DEF n1, n2, n3
    <2>1. n1 < 256 * 256
      BY <1>1 DEF Byte
    <2>2. n2 < 256
      BY <2>1, <1>2 DEF Byte
    <2>3. n3 = 0
      BY <2>2, <1>3 DEF Byte
    <2> QED BY <2>3
  <1>5. Header(n) = <<n % 256, n1 % 256, n2 % 256, n3 % 256>>
    BY DEF Header
  <1> HIDE DEF n1, n2, n3
  <1>6. FrameLen(Header(n)) = n
    <2>1. FrameLen(Header(n)) = (n % 256) + 256 * ((n1 % 256) + 256 * ((n2 % 256) + 256 * (n3 % 256)))
      BY <1>5 DEF FrameLen
    <2>2. (n2 % 256) + 256 * (n3 % 256) = n2
      BY <1>3, <1>4 DEF Byte
    <2>3. (n1 % 256) + 256 * n2 = n1
      BY <1>2 DEF Byte
    <2>4. (n % 256) + 256 * n1 = n
      BY <1>1 DEF Byte
    <2> QED BY <2>1, <2>2, <2>3, <2>4
  <1> QED BY <1>1, <1>2, <1>3, <1>5, <1>6

-----------------------------------------------------------------------------
(* The ring arithmetic.                                                    *)

\* Advancing a position keeps it in the ring, and what lies k bytes further is
\* the same byte whether it is reached in one step or in two.
LEMMA StepWraps ==
    ASSUME NEW at \in 0 .. Cap - 1, NEW n \in 0 .. Cap
    PROVE  /\ Step(at, n) \in 0 .. Cap - 1
           /\ \A k \in 0 .. Cap - n :
                (Step(at, n) + k) % Cap = (at + (n + k)) % Cap
  <1>1. Step(at, n) = IF at + n < Cap THEN at + n ELSE at + n - Cap
    BY Wrap, CapAssumption DEF Step
  <1>2. Step(at, n) \in 0 .. Cap - 1
    BY Wrap, CapAssumption DEF Step
  <1>3. ASSUME NEW k \in 0 .. Cap - n
        PROVE  (Step(at, n) + k) % Cap = (at + (n + k)) % Cap
    <2> DEFINE s == Step(at, n)
               m == n + k
    <2>1. s \in 0 .. Cap - 1 /\ k \in 0 .. Cap /\ s + k < Cap + Cap
      BY <1>2, CapAssumption
    <2>2. m \in 0 .. Cap /\ at + m < Cap + Cap
      BY CapAssumption
    <2>3. s = IF at + n < Cap THEN at + n ELSE at + n - Cap
      BY <1>1
    <2>4. m = n + k
      OBVIOUS
    <2> HIDE DEF s, m
    <2>5. (s + k) % Cap = IF s + k < Cap THEN s + k ELSE s + k - Cap
      BY <2>1, Wrap, CapAssumption
    <2>6. (at + m) % Cap = IF at + m < Cap THEN at + m ELSE at + m - Cap
      BY <2>2, Wrap, CapAssumption
    <2>7. (s + k) % Cap = (at + m) % Cap
      BY <2>1, <2>2, <2>3, <2>4, <2>5, <2>6, CapAssumption
    <2> QED BY <2>7 DEF s, m
  <1> QED BY <1>2, <1>3

\* Seen from a position that has advanced by n, the byte k < n behind the old
\* position lies Cap - n + k further on, around the ring.
LEMMA AroundWraps ==
    ASSUME NEW at \in 0 .. Cap - 1, NEW n \in 0 .. Cap, NEW k \in Nat, NEW j \in Nat
    PROVE  k < n /\ j + n = Cap + k => (Step(at, n) + j) % Cap = (at + k) % Cap
  <1>0. SUFFICES ASSUME k < n, j + n = Cap + k
                 PROVE  (Step(at, n) + j) % Cap = (at + k) % Cap
    OBVIOUS
  <1> DEFINE s == Step(at, n)
  <1>1. s = IF at + n < Cap THEN at + n ELSE at + n - Cap
    BY Wrap, CapAssumption DEF Step
  <1>2. s \in 0 .. Cap - 1
    BY Wrap, CapAssumption DEF Step
  <1> HIDE DEF s
  <1>3. k \in 0 .. Cap /\ j \in 0 .. Cap /\ j < Cap
    BY <1>0, CapAssumption
  <1>4. s + j < Cap + Cap /\ at + k < Cap + Cap
    BY <1>2, <1>3, CapAssumption
  <1>5. (s + j) % Cap = IF s + j < Cap THEN s + j ELSE s + j - Cap
    BY <1>2, <1>3, <1>4, Wrap, CapAssumption
  <1>6. (at + k) % Cap = IF at + k < Cap THEN at + k ELSE at + k - Cap
    BY <1>3, <1>4, Wrap, CapAssumption
  <1>7. (s + j) % Cap = (at + k) % Cap
    BY <1>0, <1>1, <1>2, <1>3, <1>5, <1>6, CapAssumption
  <1> QED BY <1>7 DEF s

\* q_in writes src to the Len(src) ring positions from `at' on, wrapping, and
\* leaves the others alone.
LEMMA QInWrites ==
    ASSUME NEW b \in [0 .. Cap - 1 -> Byte], NEW at \in 0 .. Cap - 1,
           NEW src \in Seq(Byte), Len(src) <= Cap
    PROVE  /\ q_in(b, at, src) \in [0 .. Cap - 1 -> Byte]
           /\ \A k \in 0 .. Len(src) - 1 : q_in(b, at, src)[(at + k) % Cap] = src[k + 1]
           /\ \A k \in Len(src) .. Cap - 1 :
                q_in(b, at, src)[(at + k) % Cap] = b[(at + k) % Cap]
  <1> DEFINE n == Len(src)
             f == Fit(Cap - at, n)
  <1>1. n \in Nat /\ f \in 0 .. n /\ f = IF Cap - at > n THEN n ELSE Cap - at
    BY CapAssumption DEF Fit
  <1>2. q_in(b, at, src) = [i \in 0 .. Cap - 1 |->
            IF i < n - f THEN src[f + i + 1]
            ELSE IF at <= i /\ i < at + f THEN src[i - at + 1]
            ELSE b[i]]
    BY DEF q_in
  <1> HIDE DEF f
  <1>3. q_in(b, at, src) \in [0 .. Cap - 1 -> Byte]
    BY <1>1, <1>2, CapAssumption
  <1>4. ASSUME NEW k \in 0 .. Cap - 1
        PROVE  /\ (at + k) % Cap = IF at + k < Cap THEN at + k ELSE at + k - Cap
               /\ (at + k) % Cap \in 0 .. Cap - 1
    BY Wrap, CapAssumption
  <1>5. ASSUME NEW k \in 0 .. n - 1
        PROVE  q_in(b, at, src)[(at + k) % Cap] = src[k + 1]
    <2> DEFINE i == (at + k) % Cap
    <2>1. k \in 0 .. Cap - 1
      BY <1>1, CapAssumption
    <2>2. i \in 0 .. Cap - 1 /\ i = IF at + k < Cap THEN at + k ELSE at + k - Cap
      BY <2>1, <1>4
    <2> HIDE DEF i
    <2>3. q_in(b, at, src)[i] = IF i < n - f THEN src[f + i + 1]
                                ELSE IF at <= i /\ i < at + f THEN src[i - at + 1]
                                ELSE b[i]
      BY <1>2, <2>2, SMTT(90)
    <2>4. CASE at + k < Cap
      <3>1. ~(i < n - f) /\ at <= i /\ i < at + f /\ i - at + 1 = k + 1
        BY <2>4, <2>1, <2>2, <1>1, CapAssumption
      <3> QED BY <3>1, <2>3 DEF i
    <2>5. CASE ~(at + k < Cap)
      <3>1. i < n - f /\ f + i + 1 = k + 1
        BY <2>5, <2>1, <2>2, <1>1, CapAssumption
      <3> QED BY <3>1, <2>3 DEF i
    <2> QED BY <2>4, <2>5
  <1>6. ASSUME NEW k \in n .. Cap - 1
        PROVE  q_in(b, at, src)[(at + k) % Cap] = b[(at + k) % Cap]
    <2> DEFINE i == (at + k) % Cap
    <2>1. k \in 0 .. Cap - 1
      BY <1>1, CapAssumption
    <2>2. i \in 0 .. Cap - 1 /\ i = IF at + k < Cap THEN at + k ELSE at + k - Cap
      BY <2>1, <1>4
    <2> HIDE DEF i
    <2>3. q_in(b, at, src)[i] = IF i < n - f THEN src[f + i + 1]
                                ELSE IF at <= i /\ i < at + f THEN src[i - at + 1]
                                ELSE b[i]
      BY <1>2, <2>2
    <2>4. ~(i < n - f) /\ ~(at <= i /\ i < at + f)
      BY <2>1, <2>2, <1>1, CapAssumption
    <2> QED BY <2>3, <2>4 DEF i
  <1> QED BY <1>3, <1>5, <1>6

\* q_out reads the n bytes from `at' on, wrapping.
LEMMA QOutReads ==
    ASSUME NEW b \in [0 .. Cap - 1 -> Byte], NEW at \in 0 .. Cap - 1,
           NEW n \in 0 .. Cap
    PROVE  /\ q_out(b, at, n) \in Seq(Byte)
           /\ Len(q_out(b, at, n)) = n
           /\ \A k \in 1 .. n : q_out(b, at, n)[k] = b[(at + (k - 1)) % Cap]
  <1> DEFINE f == Fit(Cap - at, n)
  <1>1. n \in Nat /\ f \in 0 .. n /\ f = IF Cap - at > n THEN n ELSE Cap - at
    BY CapAssumption DEF Fit
  <1>2. q_out(b, at, n) = [k \in 1 .. n |-> IF k <= f THEN b[at + k - 1] ELSE b[k - f - 1]]
    BY DEF q_out
  <1> HIDE DEF f
  <1>3. q_out(b, at, n) \in [1 .. n -> Byte]
    BY <1>1, <1>2, CapAssumption
  <1>4. ASSUME NEW k \in 1 .. n
        PROVE  q_out(b, at, n)[k] = b[(at + (k - 1)) % Cap]
    <2> DEFINE m == k - 1
    <2>1. m \in 0 .. Cap - 1 /\ k = m + 1 /\ at + m < Cap + Cap
      BY <1>1, CapAssumption
    <2> HIDE DEF m
    <2>2. (at + m) % Cap = IF at + m < Cap THEN at + m ELSE at + m - Cap
      BY <2>1, Wrap, CapAssumption
    <2>3. q_out(b, at, n)[k] = IF k <= f THEN b[at + m] ELSE b[m - f]
      <3>1. q_out(b, at, n)[k] = IF k <= f THEN b[at + k - 1] ELSE b[k - f - 1]
        BY <1>2
      <3>2. at \in Int /\ f \in Int /\ m \in Int /\ k = m + 1
        BY <2>1, <1>1, CapAssumption
      <3>3. at + k - 1 = at + m
        BY <3>2
      <3>4. k - f - 1 = m - f
        BY <3>2
      <3> QED BY <3>1, <3>3, <3>4
    <2>4. q_out(b, at, n)[k] = b[(at + m) % Cap]
      BY <2>1, <2>2, <2>3, <1>1, CapAssumption
    <2> QED BY <2>4 DEF m
  <1>5. q_out(b, at, n) \in Seq(Byte) /\ Len(q_out(b, at, n)) = n
    BY <1>1, <1>3
  <1> QED BY <1>4, <1>5

-----------------------------------------------------------------------------
(* The framing.                                                            *)

Ring == [0 .. Cap - 1 -> Byte]

\* A framed ring that holds bytes holds a record, and what the pop loop reads is
\* that record: its length from the header, its bytes from behind the header.
LEMMA FirstFrame ==
    ASSUME NEW b \in Ring, NEW t \in 0 .. Cap - 1, NEW u \in 0 .. Cap,
           NEW q \in Seq(Recs), Framing(b, t, u, q), u # 0
    PROVE  /\ Len(q) \in Nat \ {0}
           /\ q[1] \in Recs
           /\ q[1] \in Seq(Byte)
           /\ FrameLen(q_out(b, t, 4)) = Len(q[1])
           /\ Len(q[1]) \in Nat
           /\ 4 + Len(q[1]) <= u
           /\ q_out(b, Step(t, 4), Len(q[1])) = q[1]
  <1>1. PICK off \in [1 .. Len(q) + 1 -> 0 .. u] : FramedBy(b, t, u, q, off)
    BY DEF Framing
  <1>2. Len(q) \in Nat \ {0}
    BY <1>1 DEF FramedBy
  <1> DEFINE r == q[1]
             L == Len(r)
  <1>3. r \in Recs /\ r \in Seq(Byte) /\ L \in Nat /\ L < 256 * 256 * 256
    BY <1>2, RecsAssumption
  <1>4. off[2] = 4 + L /\ FrameAt(b, t, r, 0) /\ off[2] \in 0 .. u
    <2>1. 1 \in 1 .. Len(q) /\ 2 \in 1 .. Len(q) + 1 /\ 1 + 1 = 2
      BY <1>2
    <2>2. off[1 + 1] = off[1] + (4 + Len(q[1])) /\ FrameAt(b, t, q[1], off[1]) /\ off[1] = 0
      BY <1>1, <2>1 DEF FramedBy
    <2>3. off[2] = 0 + (4 + L) /\ FrameAt(b, t, r, 0)
      BY <2>1, <2>2
    <2>4. off[2] = 4 + L
      BY <2>3, <1>3
    <2> QED BY <2>1, <2>3, <2>4, <1>1, SMTT(90)
  <1>5. 4 + L <= u /\ 4 + L <= Cap /\ L \in 0 .. Cap /\ 4 \in 0 .. Cap
    BY <1>3, <1>4, CapAssumption
  <1> HIDE DEF r, L
  <1>6. FrameLen(q_out(b, t, 4)) = L
    <2>1. /\ q_out(b, t, 4) \in Seq(Byte)
          /\ Len(q_out(b, t, 4)) = 4
          /\ \A k \in 1 .. 4 : q_out(b, t, 4)[k] = b[(t + (k - 1)) % Cap]
      BY <1>5, QOutReads, Zenon DEF Ring
    <2>2. Header(L) \in Seq(Byte) /\ Len(Header(L)) = 4 /\ FrameLen(Header(L)) = L
      BY <1>3, HeaderRoundTrip
    <2>3. \A k \in 0 .. 3 : b[(t + (0 + k)) % Cap] = Header(L)[k + 1]
      BY <1>4 DEF FrameAt, L
    <2>4. \A k \in 1 .. 4 : q_out(b, t, 4)[k] = Header(L)[k]
      <3> SUFFICES ASSUME NEW k \in 1 .. 4
                   PROVE  q_out(b, t, 4)[k] = Header(L)[k]
        OBVIOUS
      <3>1. k - 1 \in 0 .. 3 /\ 0 + (k - 1) = k - 1 /\ (k - 1) + 1 = k
        OBVIOUS
      <3> QED BY <3>1, <2>1, <2>3, SMTT(90)
    <2>5. q_out(b, t, 4) \in Seq(Byte) /\ Len(q_out(b, t, 4)) = 4
      BY <2>1
    <2>6. q_out(b, t, 4) = Header(L)
      BY <2>2, <2>4, <2>5, SameBytes, Zenon
    <2> QED BY <2>2, <2>6
  <1>7. q_out(b, Step(t, 4), L) = r
    <2> DEFINE s == Step(t, 4)
    <2>1. /\ s \in 0 .. Cap - 1
          /\ \A k \in 0 .. Cap - 4 : (s + k) % Cap = (t + (4 + k)) % Cap
      BY <1>5, StepWraps
    <2> HIDE DEF s
    <2>2. /\ q_out(b, s, L) \in Seq(Byte)
          /\ Len(q_out(b, s, L)) = L
          /\ \A k \in 1 .. L : q_out(b, s, L)[k] = b[(s + (k - 1)) % Cap]
      BY <1>5, <2>1, QOutReads, Zenon DEF Ring
    <2>3. \A k \in 1 .. L : b[(t + (0 + (3 + k))) % Cap] = r[k]
      BY <1>4 DEF FrameAt, L
    <2>4. ASSUME NEW k \in 1 .. L
          PROVE  q_out(b, s, L)[k] = r[k]
      <3>1. k - 1 \in 0 .. Cap - 4
        BY <1>3, <1>5, CapAssumption
      <3>2. (s + (k - 1)) % Cap = (t + (4 + (k - 1))) % Cap
        BY <3>1, <2>1
      <3>3. 4 + (k - 1) = 0 + (3 + k)
        BY <1>3
      <3> QED BY <3>2, <3>3, <2>2, <2>3
    <2>5. Len(r) = L
      BY DEF L
    <2>6. q_out(b, s, L) = r
      BY <1>3, <2>2, <2>4, <2>5, SameBytes
    <2> QED BY <2>6 DEF s
  <1> QED BY <1>2, <1>3, <1>5, <1>6, <1>7 DEF r, L

\* The arithmetic of the proof below, apart from the sequences it is about.
LEMMA IndexShift ==
    ASSUME NEW N \in Nat, NEW i \in 1 .. N - 1
    PROVE  /\ i \in 1 .. N /\ i + 1 \in 1 .. N /\ i + 2 \in 1 .. N + 1
           /\ (i + 1) + 1 = i + 2
           /\ \A j \in i + 1 .. N : j \in 1 .. N /\ j + 1 \in i + 2 .. N + 1
  OBVIOUS

\* Two offsets that differ by a frame still do when both are moved by n.
LEMMA OffsetShift ==
    \A c, y, n, F \in Nat : (c + n) + F = y + n => y = c + F
  OBVIOUS

\* Two offsets keep their order when both are moved.
LEMMA OffsetOrder ==
    ASSUME NEW y \in Nat, NEW x \in Nat, NEW n \in Nat, y + n <= x + n
    PROVE  y <= x
  OBVIOUS

\* A byte of a later frame is the same byte when its offset is counted from the
\* position behind the first frame.
LEMMA ByteShift ==
    \A c, n, F, k \in Nat : \A u \in 0 .. Cap :
       (c + n) + F <= u /\ k < F =>
       (c + n) + k = n + (c + k) /\ c + k \in 0 .. Cap - n
  BY CapAssumption

\* What is left when the first frame, n bytes with the header, is consumed.
RestFramed(b, t, u, q, L, n, m) ==
    /\ Framing(b, Step(t, n), m, Tail(q))
    /\ Step(t, n) \in 0 .. Cap - 1
    /\ (Step(t, n) + m) % Cap = (t + u) % Cap
    /\ Step(t, n) = Step(Step(t, 4), L)

\* Consuming the first frame (delivered or skipped) leaves the rest framed.
LEMMA PopKeepsFraming ==
    ASSUME NEW b \in Ring, NEW t \in 0 .. Cap - 1, NEW u \in 0 .. Cap,
           NEW q \in Seq(Recs),
           NEW L \in Nat, NEW n \in Nat, NEW m \in Nat
    PROVE  Framing(b, t, u, q) /\ u # 0 /\ L = Len(q[1]) /\ n = 4 + L /\ u = n + m =>
           RestFramed(b, t, u, q, L, n, m)
  <1>0. SUFFICES ASSUME Framing(b, t, u, q), u # 0, L = Len(q[1]), n = 4 + L, u = n + m
                 PROVE  RestFramed(b, t, u, q, L, n, m)
    OBVIOUS
  <1> DEFINE N == Len(q)
             q2 == Tail(q)
             t2 == Step(t, n)
  <1>1. /\ N \in Nat /\ 1 \in 1 .. N /\ 1 + 1 = 2
    BY <1>0, FirstFrame
  <1>2. n \in 0 .. Cap /\ 4 \in 0 .. Cap /\ L \in 0 .. Cap - 4 /\ m \in 0 .. Cap - n
    BY <1>0, CapAssumption
  <1>3. /\ t2 \in 0 .. Cap - 1
        /\ \A k \in 0 .. Cap - n : (t2 + k) % Cap = (t + (n + k)) % Cap
    BY <1>2, StepWraps
  <1>4. t2 = Step(Step(t, 4), L)
    <2>1. (Step(t, 4) + L) % Cap = (t + (4 + L)) % Cap
      BY <1>2, StepWraps
    <2> QED BY <1>0, <2>1 DEF Step
  <1>5. (t2 + m) % Cap = (t + u) % Cap
    BY <1>0, <1>2, <1>3
  <1>6. /\ q2 \in Seq(Recs) /\ Len(q2) = N - 1 /\ Len(q2) + 1 = N
        /\ \A i \in 1 .. Len(q2) : q2[i] = q[i + 1]
    BY <1>1
  <1>7. PICK off \in [1 .. Len(q) + 1 -> 0 .. u] : FramedBy(b, t, u, q, off)
    BY <1>0 DEF Framing
  <1>8. /\ off[1] = 0 /\ off[N + 1] = u
        /\ \A i \in 1 .. N :
             /\ off[i + 1] = off[i] + (4 + Len(q[i]))
             /\ FrameAt(b, t, q[i], off[i])
             /\ \A j \in i + 1 .. N + 1 : off[i + 1] <= off[j]
    BY <1>7 DEF FramedBy
  <1>9. off[2] = n
    <2>1. off[2] = 0 + (4 + Len(q[1]))
      BY <1>1, <1>8
    <2>2. off[2] = 0 + (4 + L)
      BY <1>0, <2>1
    <2> QED BY <1>0, <2>2
  <1> DEFINE new == [i \in 1 .. N |-> off[i + 1] - n]
  <1> HIDE DEF N, q2, t2
  <1>10. \A i \in 1 .. N : off[i + 1] \in Nat /\ n <= off[i + 1] /\ off[i + 1] <= u
    <2> SUFFICES ASSUME NEW i \in 1 .. N
                 PROVE  off[i + 1] \in Nat /\ n <= off[i + 1] /\ off[i + 1] <= u
      OBVIOUS
    <2>1. i + 1 \in 2 .. N + 1 /\ i + 1 \in 1 .. N + 1
      BY <1>1
    <2>2. off[2] <= off[i + 1]
      BY <2>1, <1>1, <1>8, Zenon
    <2>3. off[i + 1] \in 0 .. u
      BY <2>1, <1>7 DEF N
    <2> QED BY <2>2, <2>3, <1>9
  <1>11. \A i \in 1 .. N : new[i] \in 0 .. m /\ off[i + 1] = new[i] + n
    <2> SUFFICES ASSUME NEW i \in 1 .. N
                 PROVE  new[i] \in 0 .. m /\ off[i + 1] = new[i] + n
      OBVIOUS
    <2> DEFINE x == off[i + 1]
    <2>1. x \in Nat /\ n <= x /\ x <= u
      BY <1>10
    <2>2. new[i] = x - n
      OBVIOUS
    <2> HIDE DEF x, new
    <2>3. new[i] \in 0 .. m /\ x = new[i] + n
      BY <1>0, <2>1, <2>2
    <2> QED BY <2>3 DEF x
  <1>12. new \in [1 .. Len(q2) + 1 -> 0 .. m]
    <2>1. DOMAIN new = 1 .. N /\ new = [i \in 1 .. N |-> new[i]]
      OBVIOUS
    <2> HIDE DEF new
    <2> QED BY <2>1, <1>6, <1>11
  <1> HIDE DEF new
  <1>15. 1 .. Len(q2) = 1 .. N - 1
    BY <1>6
  <1>13. ASSUME NEW i \in 1 .. Len(q2)
         PROVE  /\ new[i + 1] = new[i] + (4 + Len(q2[i]))
                /\ FrameAt(b, t2, q2[i], new[i])
                /\ \A j \in i + 1 .. Len(q2) + 1 : new[i + 1] <= new[j]
    <2> DEFINE r == q[i + 1]
               F == 4 + Len(r)
               a == off[i + 1]
               z == off[i + 2]
               c == new[i]
               y == new[i + 1]
    <2>1. /\ i \in 1 .. N /\ i + 1 \in 1 .. N /\ i + 2 \in 1 .. N + 1
          /\ (i + 1) + 1 = i + 2
      BY <1>1, <1>15, IndexShift
    <2>2. /\ z = a + F /\ FrameAt(b, t, r, a)
          /\ \A j \in i + 2 .. N + 1 : z <= off[j]
      BY <1>8, <2>1, SMTT(90)
    <2>3. r \in Seq(Byte) /\ Len(r) \in Nat /\ F \in Nat
      BY <2>1, RecsAssumption, SMTT(90) DEF N
    <2>4. /\ a \in Nat /\ a = c + n /\ c \in Nat
          /\ z \in Nat /\ z <= u
      <3>1. a \in Nat /\ a = c + n /\ c \in Nat
        BY <2>1, <1>10, <1>11
      <3>2. z \in Nat /\ z <= u
        BY <2>1, <1>10
      <3> QED BY <3>1, <3>2
    <2>5. y \in Nat /\ z = y + n
      BY <2>1, <1>11
    <2>6. q2[i] = r
      BY <1>6
    <2>7. 4 + Len(r) = F /\ new[i] = c /\ new[i + 1] = y
      OBVIOUS
    <2> HIDE DEF r, F, a, z, c, y
    <2>8. y = c + F
      <3>1. (c + n) + F = y + n
        BY <2>2, <2>4, <2>5, Zenon
      <3> QED BY <3>1, <2>3, <2>4, <2>5, OffsetShift
    <2>9. \A j \in i + 1 .. Len(q2) + 1 : new[i + 1] <= new[j]
      <3> SUFFICES ASSUME NEW j \in i + 1 .. Len(q2) + 1
                   PROVE  new[i + 1] <= new[j]
        OBVIOUS
      <3>1. j \in 1 .. N /\ j + 1 \in i + 2 .. N + 1
        BY <1>1, <1>6, <1>15, IndexShift
      <3>2. new[j] \in Nat /\ off[j + 1] = new[j] + n
        BY <3>1, <1>11
      <3>3. z <= off[j + 1]
        BY <3>1, <2>2, SMTT(90)
      <3> QED BY <3>2, <3>3, <2>5, <2>7, OffsetOrder, ZenonT(120)
    <2>10. ASSUME NEW k \in Nat, k < F
           PROVE  b[(t2 + (c + k)) % Cap] = b[(t + (a + k)) % Cap]
      <3> DEFINE d == c + k
      <3>1. a + k = n + d /\ d \in 0 .. Cap - n
        <4>1. (c + n) + F <= u
          BY <2>2, <2>4, Zenon
        <4>2. (c + n) + k = n + d /\ d \in 0 .. Cap - n
          BY <4>1, <2>3, <2>4, <2>10, ByteShift, Zenon
        <4> QED BY <4>2, <2>4, Zenon
      <3> HIDE DEF d
      <3>2. (t2 + d) % Cap = (t + (n + d)) % Cap
        BY <3>1, <1>3
      <3> QED BY <3>1, <3>2 DEF d
    <2>11. FrameAt(b, t2, r, c)
      <3>1. /\ \A k \in 0 .. 3 : b[(t + (a + k)) % Cap] = Header(Len(r))[k + 1]
            /\ \A k \in 1 .. Len(r) : b[(t + (a + (3 + k))) % Cap] = r[k]
        BY <2>2 DEF FrameAt
      <3>2. ASSUME NEW k \in 0 .. 3
            PROVE  b[(t2 + (c + k)) % Cap] = Header(Len(r))[k + 1]
        <4>1. k \in Nat /\ k < F
          BY <2>3, <2>7
        <4> QED BY <4>1, <3>1, <2>10, SMTT(90)
      <3>3. ASSUME NEW k \in 1 .. Len(r)
            PROVE  b[(t2 + (c + (3 + k))) % Cap] = r[k]
        <4>1. 3 + k \in Nat /\ 3 + k < F
          BY <2>3, <2>7
        <4>2. b[(t + (a + (3 + k))) % Cap] = r[k]
          BY <3>1
        <4> QED BY <4>1, <4>2, <2>10, SMTT(90)
      <3> QED BY <3>2, <3>3 DEF FrameAt
    <2> QED BY <2>6, <2>7, <2>8, <2>9, <2>11
  <1>14. FramedBy(b, t2, m, q2, new)
    <2>1. new[1] = 0
      <3>1. off[2] = new[1] + n /\ new[1] \in Nat
        BY <1>1, <1>11
      <3> QED BY <3>1, <1>9
    <2>2. new[Len(q2) + 1] = m
      <3>1. N \in 1 .. N
        BY <1>1
      <3>2. u = new[N] + n /\ new[N] \in Nat
        BY <3>1, <1>8, <1>11, SMTT(90)
      <3>3. new[N] = m
        BY <1>0, <3>2, SMTT(90)
      <3> QED BY <3>3, <1>6
    <2> QED BY <2>1, <2>2, <1>13 DEF FramedBy
  <1>16. Framing(b, t2, m, q2)
    BY <1>12, <1>14 DEF Framing
  <1> QED BY <1>3, <1>4, <1>5, <1>16 DEF t2, q2, RestFramed

\* b2 is ring b with the frame of r, whose length is L, written from h on: the
\* header, the payload behind it, and nothing else.
Written(b, h, r, L, b2) ==
    /\ b2 \in Ring
    /\ \A k \in 0 .. 3 : b2[(h + k) % Cap] = Header(L)[k + 1]
    /\ \A k \in 0 .. L - 1 : b2[(h + (4 + k)) % Cap] = r[k + 1]
    /\ \A k \in 4 + L .. Cap - 1 : b2[(h + k) % Cap] = b[(h + k) % Cap]

\* The two q_in of anubee_evq_push write one frame.
LEMMA PushWrites ==
    ASSUME NEW b \in Ring, NEW h \in 0 .. Cap - 1, NEW r \in Recs,
           NEW L \in Nat, NEW b2
    PROVE  L = Len(r) /\ 4 + L <= Cap
              /\ b2 = q_in(q_in(b, h, Header(L)), Step(h, 4), r) =>
           Written(b, h, r, L, b2)
  <1>0. SUFFICES ASSUME L = Len(r), 4 + L <= Cap,
                        b2 = q_in(q_in(b, h, Header(L)), Step(h, 4), r)
                 PROVE  Written(b, h, r, L, b2)
    OBVIOUS
  <1> DEFINE hd == Header(L)
             b1 == q_in(b, h, hd)
             s == Step(h, 4)
  <1>1. hd \in Seq(Byte) /\ Len(hd) = 4 /\ r \in Seq(Byte)
    BY <1>0, HeaderRoundTrip, RecsAssumption
  <1>2. 4 \in 0 .. Cap /\ 4 <= Cap /\ L <= Cap /\ Cap \in Nat
    BY <1>0, CapAssumption
  <1>3. /\ s \in 0 .. Cap - 1
        /\ \A k \in 0 .. Cap - 4 : (s + k) % Cap = (h + (4 + k)) % Cap
    BY <1>2, StepWraps
  <1>4. ASSUME NEW k \in Nat, NEW j \in Nat, k < 4, j + 4 = Cap + k
        PROVE  (s + j) % Cap = (h + k) % Cap
    <2>1. h \in 0 .. Cap - 1 /\ 4 \in 0 .. Cap /\ k \in Nat /\ j \in Nat
      BY <1>2, <1>4, Zenon
    <2>2. k < 4 /\ j + 4 = Cap + k
      BY <1>4, Zenon
    <2>3. k < 4 /\ j + 4 = Cap + k => (Step(h, 4) + j) % Cap = (h + k) % Cap
      BY <2>1, AroundWraps, ZenonT(120)
    <2> QED BY <2>2, <2>3, Zenon
  <1> HIDE DEF s, hd
  <1>5. /\ b1 \in Ring
        /\ \A k \in 0 .. 4 - 1 : b1[(h + k) % Cap] = hd[k + 1]
        /\ \A k \in 4 .. Cap - 1 : b1[(h + k) % Cap] = b[(h + k) % Cap]
    <2>1. Len(hd) = 4 /\ Len(hd) <= Cap /\ hd \in Seq(Byte)
      BY <1>1, <1>2
    <2>2. /\ b1 \in Ring
          /\ \A k \in 0 .. Len(hd) - 1 : b1[(h + k) % Cap] = hd[k + 1]
          /\ \A k \in Len(hd) .. Cap - 1 : b1[(h + k) % Cap] = b[(h + k) % Cap]
      BY <2>1, QInWrites, Zenon DEF Ring
    <2> HIDE DEF b1
    <2> QED BY <2>1, <2>2
  <1>6. b2 = q_in(b1, s, r)
    BY <1>0 DEF hd, s
  <1> HIDE DEF b1
  <1>7. /\ b2 \in Ring
        /\ \A k \in 0 .. L - 1 : b2[(s + k) % Cap] = r[k + 1]
        /\ \A k \in L .. Cap - 1 : b2[(s + k) % Cap] = b1[(s + k) % Cap]
    <2>1. Len(r) = L /\ Len(r) <= Cap /\ r \in Seq(Byte)
      BY <1>0, <1>1, <1>2
    <2> QED BY <2>1, <1>3, <1>5, <1>6, QInWrites, ZenonT(120) DEF Ring
  <1>8. ASSUME NEW k \in 0 .. 3
        PROVE  b2[(h + k) % Cap] = hd[k + 1]
    <2>1. PICK j \in Nat : j + 4 = Cap + k
      <3>1. (Cap - 4) + k \in Nat /\ ((Cap - 4) + k) + 4 = Cap + k
        BY <1>2
      <3> QED BY <3>1
    <2>2. j \in L .. Cap - 1 /\ k \in Nat /\ k < 4 /\ k \in 0 .. 4 - 1
      BY <1>0, <1>2, <2>1
    <2>3. (s + j) % Cap = (h + k) % Cap
      BY <2>1, <2>2, <1>4
    <2> QED BY <2>2, <2>3, <1>5, <1>7
  <1>9. ASSUME NEW k \in 0 .. L - 1
        PROVE  b2[(h + (4 + k)) % Cap] = r[k + 1]
    <2>1. k \in 0 .. Cap - 4
      BY <1>0, <1>2
    <2> QED BY <2>1, <1>3, <1>7
  <1>10. ASSUME NEW k \in 4 + L .. Cap - 1
         PROVE  b2[(h + k) % Cap] = b[(h + k) % Cap]
    <2>1. PICK j \in Nat : 4 + j = k
      <3>1. k - 4 \in Nat /\ 4 + (k - 4) = k
        BY <1>2
      <3> QED BY <3>1
    <2>2. j \in L .. Cap - 1 /\ j \in 0 .. Cap - 4 /\ k \in 4 .. Cap - 1
      BY <1>2, <2>1
    <2>3. (s + j) % Cap = (h + k) % Cap
      BY <2>1, <2>2, <1>3
    <2> QED BY <2>2, <2>3, <1>5, <1>7
  <1> QED BY <1>7, <1>8, <1>9, <1>10 DEF hd, Written

\* Pushing a record behind the frames of the others frames it too, and leaves
\* theirs as they were.
LEMMA PushKeepsFraming ==
    ASSUME NEW b \in Ring, NEW t \in 0 .. Cap - 1, NEW u \in 0 .. Cap,
           NEW q \in Seq(Recs), NEW r \in Recs, NEW h \in 0 .. Cap - 1,
           NEW L \in Nat, NEW v \in 0 .. Cap, NEW b2
    PROVE  Framing(b, t, u, q) /\ h = (t + u) % Cap /\ L = Len(r) /\ v = u + (4 + L)
              /\ b2 = q_in(q_in(b, h, Header(L)), Step(h, 4), r) =>
           /\ b2 \in Ring
           /\ Framing(b2, t, v, Append(q, r))
           /\ Step(Step(h, 4), L) \in 0 .. Cap - 1
           /\ Step(Step(h, 4), L) = (t + v) % Cap
  <1>0. SUFFICES ASSUME Framing(b, t, u, q), h = (t + u) % Cap, L = Len(r),
                        v = u + (4 + L),
                        b2 = q_in(q_in(b, h, Header(L)), Step(h, 4), r)
                 PROVE  /\ b2 \in Ring
                        /\ Framing(b2, t, v, Append(q, r))
                        /\ Step(Step(h, 4), L) \in 0 .. Cap - 1
                        /\ Step(Step(h, 4), L) = (t + v) % Cap
    OBVIOUS
  <1> DEFINE N == Len(q)
             q2 == Append(q, r)
             F == 4 + L
  <1>1. /\ r \in Seq(Byte) /\ L < 256 * 256 * 256 /\ L \in Nat
        /\ N \in Nat /\ q2 \in Seq(Recs) /\ Len(q2) = N + 1 /\ q2[N + 1] = r
        /\ \A i \in 1 .. N : q2[i] = q[i]
    BY <1>0, RecsAssumption
  <1>2. /\ F \in Nat /\ F \in 0 .. Cap - u /\ F <= Cap /\ v = u + F
        /\ 4 \in 0 .. Cap /\ L \in 0 .. Cap /\ L \in 0 .. Cap - 4
    BY <1>0, CapAssumption
  <1>3. /\ h = Step(t, u)
        /\ \A k \in 0 .. Cap - u : (h + k) % Cap = (t + (u + k)) % Cap
    BY <1>0, StepWraps, SMTT(90) DEF Step
  <1>4. /\ b2 \in Ring
        /\ \A k \in 0 .. 3 : b2[(h + k) % Cap] = Header(L)[k + 1]
        /\ \A k \in 0 .. L - 1 : b2[(h + (4 + k)) % Cap] = r[k + 1]
        /\ \A k \in F .. Cap - 1 : b2[(h + k) % Cap] = b[(h + k) % Cap]
    <2>1. L = Len(r) /\ 4 + L <= Cap
      BY <1>0, <1>2
    <2>2. b2 = q_in(q_in(b, h, Header(L)), Step(h, 4), r)
      BY <1>0
    <2>3. Written(b, h, r, L, b2)
      BY <2>1, <2>2, PushWrites
    <2> QED BY <2>3 DEF Written
  <1>5. /\ Step(Step(h, 4), L) \in 0 .. Cap - 1
        /\ Step(Step(h, 4), L) = (t + v) % Cap
    <2>1. Step(h, 4) \in 0 .. Cap - 1 /\ (Step(h, 4) + L) % Cap = (h + (4 + L)) % Cap
      BY <1>2, StepWraps
    <2>2. (h + F) % Cap = (t + (u + F)) % Cap
      BY <1>2, <1>3
    <2>3. Step(Step(h, 4), L) \in 0 .. Cap - 1
      BY <2>1, <1>2, StepWraps, Zenon
    <2> QED BY <2>1, <2>2, <2>3, <1>2 DEF Step
  <1>6. \A k \in 0 .. u - 1 : b2[(t + k) % Cap] = b[(t + k) % Cap]
    <2> SUFFICES ASSUME NEW k \in 0 .. u - 1
                 PROVE  b2[(t + k) % Cap] = b[(t + k) % Cap]
      OBVIOUS
    <2> HIDE DEF F
    <2>1. PICK j \in Nat : j + u = Cap + k
      <3>1. (Cap - u) + k \in Nat /\ ((Cap - u) + k) + u = Cap + k
        BY CapAssumption
      <3> QED BY <3>1
    <2>2. j \in F .. Cap - 1 /\ k \in Nat /\ k < u
      BY <2>1, <1>2, CapAssumption
    <2>3. (h + j) % Cap = (t + k) % Cap
      BY <2>1, <2>2, <1>3, AroundWraps, SMTT(90)
    <2> QED BY <2>2, <2>3, <1>4
  <1>7. FrameAt(b2, t, r, u)
    <2>1. ASSUME NEW k \in 0 .. 3
          PROVE  b2[(t + (u + k)) % Cap] = Header(Len(r))[k + 1]
      <3>1. k \in 0 .. Cap - u
        BY <1>2, CapAssumption
      <3>2. (h + k) % Cap = (t + (u + k)) % Cap
        BY <3>1, <1>3
      <3> QED BY <3>2, <1>0, <1>4, Zenon
    <2>2. ASSUME NEW k \in 1 .. Len(r)
          PROVE  b2[(t + (u + (3 + k))) % Cap] = r[k]
      <3>1. k - 1 \in 0 .. L - 1 /\ (k - 1) + 1 = k /\ 4 + (k - 1) = 3 + k
        BY <1>0, <1>1
      <3>2. 3 + k \in 0 .. Cap - u
        BY <1>0, <1>1, <1>2, CapAssumption, SMTT(90)
      <3>3. (h + (3 + k)) % Cap = (t + (u + (3 + k))) % Cap
        BY <3>2, <1>3
      <3>4. b2[(h + (4 + (k - 1))) % Cap] = r[(k - 1) + 1]
        BY <3>1, <1>4, Zenon
      <3> QED BY <3>1, <3>3, <3>4
    <2> QED BY <2>1, <2>2, Zenon DEF FrameAt
  <1>8. PICK off \in [1 .. Len(q) + 1 -> 0 .. u] : FramedBy(b, t, u, q, off)
    BY <1>0, SMTT(90) DEF Framing
  <1>9. /\ off[1] = 0 /\ off[N + 1] = u
        /\ \A i \in 1 .. N :
             /\ off[i + 1] = off[i] + (4 + Len(q[i]))
             /\ FrameAt(b, t, q[i], off[i])
             /\ \A j \in i + 1 .. N + 1 : off[i + 1] <= off[j]
    BY <1>8 DEF FramedBy
  <1>10. \A i \in 1 .. N : q[i] \in Seq(Byte) /\ Len(q[i]) \in Nat
    BY RecsAssumption, SMTT(90)
  <1>11. \A i \in 1 .. N + 1 : off[i] \in Nat /\ off[i] <= u
    BY <1>8
  <1> DEFINE new == [i \in 1 .. N + 2 |-> IF i <= N + 1 THEN off[i] ELSE v]
  <1> HIDE DEF N, q2, F
  <1>12. /\ \A i \in 1 .. N + 1 : new[i] = off[i]
         /\ new[N + 2] = v
         /\ \A i \in 1 .. N + 2 : new[i] \in 0 .. v
         /\ DOMAIN new = 1 .. N + 2
    <2>1. \A i \in 1 .. N + 1 : i \in 1 .. N + 2 /\ i <= N + 1
      BY <1>1
    <2>2. N + 2 \in 1 .. N + 2 /\ ~(N + 2 <= N + 1)
      BY <1>1
    <2>3. \A i \in 1 .. N + 1 : new[i] = off[i]
      BY <2>1
    <2>4. new[N + 2] = v
      BY <2>2
    <2>5. DOMAIN new = 1 .. N + 2
      OBVIOUS
    <2> HIDE DEF new
    <2>6. ASSUME NEW i \in 1 .. N + 2
          PROVE  new[i] \in 0 .. v
      <3>1. CASE i = N + 2
        BY <3>1, <2>4
      <3>2. CASE i # N + 2
        <4>1. i \in 1 .. N + 1
          BY <3>2, <1>1
        <4>2. new[i] \in Nat /\ new[i] <= u
          BY <4>1, <2>3, <1>11
        <4> QED BY <4>2, <1>2, SMTT(90)
      <3> QED BY <3>1, <3>2
    <2> QED BY <2>3, <2>4, <2>5, <2>6
  <1>13. new \in [1 .. Len(q2) + 1 -> 0 .. v]
    <2>1. Len(q2) + 1 = N + 2
      BY <1>1
    <2>2. new = [i \in 1 .. N + 2 |-> new[i]]
      OBVIOUS
    <2> HIDE DEF new
    <2> QED BY <2>1, <2>2, <1>12
  <1> HIDE DEF new
  <1>14. ASSUME NEW i \in 1 .. N
         PROVE  /\ new[i + 1] = new[i] + (4 + Len(q2[i]))
                /\ FrameAt(b2, t, q2[i], new[i])
                /\ \A j \in i + 1 .. N + 2 : new[i + 1] <= new[j]
    <2> DEFINE w == q[i]
               a == off[i]
               z == off[i + 1]
    <2>1. /\ i \in 1 .. N + 1 /\ i + 1 \in 1 .. N + 1
      BY <1>1
    <2>2. /\ z = a + (4 + Len(w)) /\ FrameAt(b, t, w, a)
          /\ \A j \in i + 1 .. N + 1 : z <= off[j]
      BY <1>9
    <2>3. w \in Seq(Byte) /\ Len(w) \in Nat
      BY <1>10
    <2>4. a \in Nat /\ z \in Nat /\ z <= u
      BY <2>1, <1>11
    <2>5. new[i] = a /\ new[i + 1] = z /\ q2[i] = w
      BY <2>1, <1>1, <1>12, SMTT(90)
    <2> HIDE DEF w, a, z
    <2>6. \A j \in i + 1 .. N + 2 : z <= new[j]
      <3> SUFFICES ASSUME NEW j \in i + 1 .. N + 2
                   PROVE  z <= new[j]
        OBVIOUS
      <3>1. CASE j = N + 2
        BY <3>1, <1>2, <1>12, <2>4
      <3>2. CASE j # N + 2
        <4>1. j \in i + 1 .. N + 1 /\ j \in 1 .. N + 1
          BY <3>2, <1>1, SMTT(90)
        <4> QED BY <4>1, <2>2, <1>12, SMTT(90)
      <3> QED BY <3>1, <3>2
    <2>7. ASSUME NEW k \in Nat, k < 4 + Len(w)
          PROVE  b2[(t + (a + k)) % Cap] = b[(t + (a + k)) % Cap]
      <3>1. a + k \in 0 .. u - 1
        BY <2>2, <2>3, <2>4, <2>7, SMTT(90)
      <3> QED BY <3>1, <1>6, Zenon
    <2>8. FrameAt(b2, t, w, a)
      <3>1. /\ \A k \in 0 .. 3 : b[(t + (a + k)) % Cap] = Header(Len(w))[k + 1]
            /\ \A k \in 1 .. Len(w) : b[(t + (a + (3 + k))) % Cap] = w[k]
        BY <2>2 DEF FrameAt
      <3>2. ASSUME NEW k \in 0 .. 3
            PROVE  b2[(t + (a + k)) % Cap] = Header(Len(w))[k + 1]
        <4>1. k \in Nat /\ k < 4 + Len(w)
          BY <2>3
        <4> QED BY <4>1, <3>1, <2>7, SMTT(90)
      <3>3. ASSUME NEW k \in 1 .. Len(w)
            PROVE  b2[(t + (a + (3 + k))) % Cap] = w[k]
        <4>1. 3 + k \in Nat /\ 3 + k < 4 + Len(w)
          BY <2>3
        <4>2. b[(t + (a + (3 + k))) % Cap] = w[k]
          BY <3>1, Zenon
        <4> QED BY <4>1, <4>2, <2>7
      <3> QED BY <3>2, <3>3 DEF FrameAt
    <2> QED BY <2>2, <2>5, <2>6, <2>8
  <1>15. /\ new[(N + 1) + 1] = new[N + 1] + (4 + Len(q2[N + 1]))
         /\ FrameAt(b2, t, q2[N + 1], new[N + 1])
         /\ \A j \in (N + 1) + 1 .. N + 2 : new[(N + 1) + 1] <= new[j]
    <2>1. N + 1 \in 1 .. N + 1 /\ (N + 1) + 1 = N + 2
      BY <1>1, SMTT(90)
    <2>2. new[N + 1] = u /\ new[N + 2] = v /\ q2[N + 1] = r
      BY <2>1, <1>1, <1>9, <1>12, SMTT(90)
    <2>3. v = u + (4 + Len(r))
      BY <1>0
    <2>4. \A j \in N + 2 .. N + 2 : new[N + 2] <= new[j]
      <3>1. \A j \in N + 2 .. N + 2 : j = N + 2
        BY <1>1
      <3>2. new[N + 2] <= new[N + 2]
        BY <2>2
      <3> QED BY <3>1, <3>2
    <2> QED BY <2>1, <2>2, <2>3, <2>4, <1>7, SMTT(90)
  <1>16. FramedBy(b2, t, v, q2, new)
    <2>1. Len(q2) = N + 1 /\ Len(q2) + 1 = N + 2 /\ 1 \in 1 .. N + 1
      BY <1>1
    <2>2. new[1] = 0 /\ new[N + 2] = v
      BY <2>1, <1>9, <1>12
    <2>3. \A i \in 1 .. N + 1 : i \in 1 .. N \/ i = N + 1
      BY <1>1, SMTT(90)
    <2>4. \A i \in 1 .. N + 1 :
             /\ new[i + 1] = new[i] + (4 + Len(q2[i]))
             /\ FrameAt(b2, t, q2[i], new[i])
             /\ \A j \in i + 1 .. N + 2 : new[i + 1] <= new[j]
      BY <2>3, <1>14, <1>15, SMTT(90)
    <2> QED BY <2>1, <2>2, <2>4 DEF FramedBy
  <1>17. Framing(b2, t, v, q2)
    BY <1>13, <1>16 DEF Framing
  <1> QED BY <1>4, <1>5, <1>17 DEF q2

\* No bytes, no records.
LEMMA EmptyFraming ==
    ASSUME NEW b \in Ring, NEW t \in 0 .. Cap - 1, NEW u, NEW q \in Seq(Recs),
           Framing(b, t, u, q)
    PROVE  (u = 0 => q = <<>>) /\ (q = <<>> => u = 0)
  <1>1. PICK off \in [1 .. Len(q) + 1 -> 0 .. u] : FramedBy(b, t, u, q, off)
    BY DEF Framing
  <1>2. /\ off[1] = 0 /\ off[Len(q) + 1] = u
        /\ \A i \in 1 .. Len(q) : off[i + 1] = off[i] + (4 + Len(q[i]))
    BY <1>1 DEF FramedBy
  <1>3. ASSUME q = <<>> PROVE u = 0
    <2>1. Len(q) + 1 = 1
      BY <1>3
    <2> QED BY <2>1, <1>2
  <1>4. ASSUME u = 0, q # <<>> PROVE FALSE
    <2>1. 1 \in 1 .. Len(q) /\ 2 \in 1 .. Len(q) + 1 /\ 1 + 1 = 2
      BY <1>4
    <2>2. off[2] = 0 + (4 + Len(q[1])) /\ Len(q[1]) \in Nat
      BY <2>1, <1>2, RecsAssumption
    <2>3. off[2] \in 0 .. u
      BY <2>1, <1>1
    <2> QED BY <2>2, <2>3, <1>4
  <1> QED BY <1>3, <1>4

-----------------------------------------------------------------------------
(* The inductive invariant.                                                *)

\* What DrainExact needs from one step to the next: a record counted as popped
\* was pushed, nothing is pushed after the freeze, and the progress loop hands
\* over to the join only on an empty queue.
DrainInv ==
    /\ popped + Len(fifo) <= pushed
    /\ td \in {"close", "drain", "join", "over"} =>
          /\ used <= total_bytes
          /\ popped0 <= popped
          /\ total_recs + popped0 = pushed
    /\ td \in {"join", "over"} => used = 0

IInv == TypeOK /\ Framed /\ EveryEventAccounted /\ DrainInv

\* The percentage drain_progress_join computes is one.
LEMMA PctInRange ==
    ASSUME NEW total \in Nat, NEW u \in Nat
    PROVE  drain_pct(total, u) \in 0 .. 100
  <1>1. CASE total = 0
    BY <1>1 DEF drain_pct
  <1>2. CASE total # 0
    <2> DEFINE x == total - Fit(total, u)
               p == (x * 100) \div total
    <2>1. x \in 0 .. total
      BY DEF Fit
    <2> HIDE DEF x
    <2>2. p \in Int /\ total * p <= x * 100 /\ x * 100 < total * (p + 1)
      BY <1>2, <2>1
    <2>3. p = drain_pct(total, u)
      BY <1>2 DEF drain_pct, x
    <2> HIDE DEF p
    <2>4. 0 <= p
      BY <1>2, <2>1, <2>2
    <2>5. p <= 100
      BY <1>2, <2>1, <2>2
    <2>6. p \in Int
      BY <2>2
    <2>7. p \in 0 .. 100
      BY <2>4, <2>5, <2>6
    <2> QED BY <2>3, <2>7
  <1> QED BY <1>1, <1>2

\* The empty queue of anubee_evq_init satisfies the invariant.
LEMMA InitIInv == Init => IInv
  <1> SUFFICES ASSUME Init PROVE IInv
    OBVIOUS
  <1>1. TypeOK
    <2>1. buf \in [0 .. Cap - 1 -> Byte] /\ 0 \in 0 .. Cap - 1 /\ 0 \in 0 .. Cap
      BY CapAssumption DEF Init, evq_init, Byte
    <2>2. fifo \in Seq(Recs) /\ got \in Seq(Seq(Byte))
      BY DEF Init
    <2>3. done \in BOOLEAN /\ Threads
      BY Zenon DEF Init, evq_init, Threads
    <2>4. /\ head \in 0 .. Cap - 1 /\ tail \in 0 .. Cap - 1 /\ used \in 0 .. Cap
          /\ dropped \in Nat /\ pushed \in Nat /\ popped \in Nat /\ calls \in Nat
          /\ total_bytes \in Nat /\ total_recs \in Nat /\ popped0 \in Nat
          /\ pct \in 0 .. 100
      BY <2>1 DEF Init, evq_init
    <2> QED BY <2>1, <2>2, <2>3, <2>4 DEF TypeOK
  <1>2. Framed
    <2>1. head = (tail + used) % Cap
      <3>1. 0 \in 0 .. Cap /\ 0 + 0 < Cap + Cap /\ 0 + 0 = 0
        BY CapAssumption
      <3>2. (0 + 0) % Cap = 0
        BY <3>1, Wrap, CapAssumption
      <3> QED BY <3>2 DEF Init, evq_init
    <2>2. FramedBy(buf, tail, 0, <<>>, [i \in 1 .. 1 |-> 0])
      <3> DEFINE o == [i \in 1 .. 1 |-> 0]
      <3>1. o[1] = 0 /\ Len(<<>>) + 1 = 1 /\ 1 .. Len(<<>>) = {}
        OBVIOUS
      <3> HIDE DEF o
      <3>2. FramedBy(buf, tail, 0, <<>>, o)
        BY <3>1 DEF FramedBy
      <3> QED BY <3>2 DEF o
    <2>3. [i \in 1 .. 1 |-> 0] \in [1 .. Len(<<>>) + 1 -> 0 .. 0]
      OBVIOUS
    <2>4. Framing(buf, tail, 0, <<>>)
      BY <2>2, <2>3 DEF Framing
    <2> QED BY <2>1, <2>4 DEF Framed, Init, evq_init
  <1>3. EveryEventAccounted
    BY DEF Init, evq_init, EveryEventAccounted
  <1>4. DrainInv
    BY DEF Init, evq_init, DrainInv
  <1> QED BY <1>1, <1>2, <1>3, <1>4 DEF IInv

-----------------------------------------------------------------------------
(* The steps.                                                              *)

\* A push that fits appends a frame, one that does not is counted.
LEMMA PushIInv ==
    ASSUME IInv, NEW r \in Recs, evq_push(r)
    PROVE  IInv'
  <1>1. TypeOK /\ Framed /\ EveryEventAccounted /\ DrainInv
    BY DEF IInv
  <1>2. td = "poll" /\ Push(r)
    BY DEF evq_push
  <1>3. r \in Seq(Byte) /\ Len(r) \in Nat
    BY RecsAssumption
  <1>4. CASE Full(r)
    <2>1. /\ dropped' = dropped + 1 /\ calls' = calls + 1
          /\ UNCHANGED <<buf, head, tail, used, done, pushed, popped, worker, td,
                         total_bytes, total_recs, popped0, pct, fifo, got>>
      BY <1>2, <1>4 DEF Push, ring, progress
    <2>2. TypeOK'
      BY <1>1, <2>1 DEF TypeOK, Threads
    <2>3. Framed'
      BY <1>1, <2>1 DEF Framed
    <2>4. EveryEventAccounted'
      BY <1>1, <2>1, SMTT(90) DEF EveryEventAccounted, TypeOK
    <2>5. DrainInv'
      BY <1>1, <2>1 DEF DrainInv
    <2> QED BY <2>2, <2>3, <2>4, <2>5 DEF IInv
  <1>5. CASE ~Full(r)
    <2>1. /\ buf' = q_in(q_in(buf, head, Header(Len(r))), Step(head, 4), r)
          /\ head' = Step(Step(head, 4), Len(r))
          /\ used' = used + 4 + Len(r)
          /\ pushed' = pushed + 1
          /\ fifo' = Append(fifo, r)
          /\ calls' = calls + 1
          /\ worker' = IF worker = "waiting" THEN "pop" ELSE worker
          /\ UNCHANGED <<tail, dropped, popped, done, td,
                         total_bytes, total_recs, popped0, pct, got>>
      BY <1>2, <1>5 DEF Push, progress, Signal
    <2>2. used' = used + (4 + Len(r)) /\ used' \in 0 .. Cap
      BY <1>1, <1>3, <1>5, <2>1, CapAssumption, SMTT(90) DEF Full, TypeOK
    <2>3. /\ buf \in Ring /\ tail \in 0 .. Cap - 1 /\ used \in 0 .. Cap
          /\ fifo \in Seq(Recs) /\ head \in 0 .. Cap - 1
          /\ Framing(buf, tail, used, fifo) /\ head = (tail + used) % Cap
      BY <1>1 DEF TypeOK, Framed, Ring
    <2>4. /\ buf' \in Ring
          /\ Framing(buf', tail, used', Append(fifo, r))
          /\ head' \in 0 .. Cap - 1
          /\ head' = (tail + used') % Cap
      BY <1>3, <2>1, <2>2, <2>3, PushKeepsFraming, SMTT(90)
    <2>5. fifo' \in Seq(Recs) /\ Len(fifo') = Len(fifo) + 1
      BY <2>1, <2>3
    <2>6. TypeOK'
      <3>1. Threads'
        BY <1>1, <2>1 DEF TypeOK, Threads
      <3> QED BY <1>1, <2>1, <2>2, <2>4, <2>5, <3>1, SMTT(90) DEF TypeOK, Ring
    <2>7. Framed'
      BY <2>1, <2>4 DEF Framed
    <2>8. EveryEventAccounted'
      <3>1. /\ calls = popped + dropped + Len(fifo) /\ popped = Len(got)
            /\ popped \in Nat /\ dropped \in Nat /\ Len(fifo) \in Nat
        BY <1>1, <2>3 DEF EveryEventAccounted, TypeOK
      <3>2. /\ calls' = calls + 1 /\ popped' = popped /\ dropped' = dropped
            /\ got' = got
        BY <2>1
      <3>3. Len(fifo') = Len(fifo) + 1
        BY <2>5
      <3>4. calls' = popped' + dropped' + Len(fifo')
        BY <3>1, <3>2, <3>3, SMTT(90)
      <3> QED BY <3>1, <3>2, <3>4, SMTT(90) DEF EveryEventAccounted
    <2>9. DrainInv'
      <3>1. td' = "poll"
        BY <1>2, <2>1
      <3>2. popped' + Len(fifo') <= pushed'
        BY <1>1, <2>1, <2>3, <2>5, SMTT(90) DEF DrainInv, TypeOK
      <3> QED BY <3>1, <3>2 DEF DrainInv
    <2> QED BY <2>6, <2>7, <2>8, <2>9 DEF IInv
  <1> QED BY <1>4, <1>5

\* A pop reads the first frame whole and leaves the others framed; the facts
\* both of its outcomes share.
LEMMA PopFacts ==
    ASSUME IInv, used # 0
    PROVE  /\ fifo # <<>> /\ Head(fifo) = fifo[1] /\ fifo[1] \in Recs
           /\ Tail(fifo) \in Seq(Recs) /\ Len(Tail(fifo)) = Len(fifo) - 1
           /\ NextLen = Len(fifo[1]) /\ NextLen \in Nat
           /\ q_out(buf, Step(tail, 4), NextLen) = fifo[1]
           /\ used - 4 - NextLen \in 0 .. used
           /\ Step(Step(tail, 4), NextLen) \in 0 .. Cap - 1
           /\ Framing(buf, Step(Step(tail, 4), NextLen), used - 4 - NextLen, Tail(fifo))
           /\ head = (Step(Step(tail, 4), NextLen) + (used - 4 - NextLen)) % Cap
  <1>1. /\ buf \in Ring /\ tail \in 0 .. Cap - 1 /\ used \in 0 .. Cap
        /\ fifo \in Seq(Recs)
        /\ Framing(buf, tail, used, fifo) /\ head = (tail + used) % Cap
    BY DEF IInv, TypeOK, Framed, Ring
  <1>2. /\ Len(fifo) \in Nat \ {0}
        /\ fifo[1] \in Recs
        /\ NextLen = Len(fifo[1])
        /\ Len(fifo[1]) \in Nat
        /\ 4 + Len(fifo[1]) <= used
        /\ q_out(buf, Step(tail, 4), Len(fifo[1])) = fifo[1]
    BY <1>1, FirstFrame DEF NextLen
  <1> DEFINE L == NextLen
             n == 4 + L
             m == used - 4 - L
  <1>3. L \in Nat /\ n \in Nat /\ m \in Nat /\ n = 4 + L /\ used = n + m /\ m \in 0 .. used
    BY <1>1, <1>2, SMTT(90)
  <1>4. /\ Framing(buf, Step(tail, n), m, Tail(fifo))
        /\ Step(tail, n) \in 0 .. Cap - 1
        /\ (Step(tail, n) + m) % Cap = (tail + used) % Cap
        /\ Step(tail, n) = Step(Step(tail, 4), L)
    <2> HIDE DEF L, n, m
    <2>1. L = Len(fifo[1])
      BY <1>2 DEF L
    <2>2. /\ Framing(buf, tail, used, fifo) /\ used # 0 /\ L = Len(fifo[1])
          /\ n = 4 + L /\ used = n + m
      BY <1>1, <1>3, <2>1
    <2>3. L \in Nat /\ n \in Nat /\ m \in Nat
      BY <1>3
    <2>4. RestFramed(buf, tail, used, fifo, L, n, m)
      BY <1>1, <2>2, <2>3, PopKeepsFraming, Zenon
    <2> QED BY <2>4 DEF RestFramed
  <1>5. /\ fifo # <<>> /\ Head(fifo) = fifo[1]
        /\ Tail(fifo) \in Seq(Recs) /\ Len(Tail(fifo)) = Len(fifo) - 1
    BY <1>1, <1>2
  <1> QED BY <1>1, <1>2, <1>3, <1>4, <1>5, Zenon

\* Delivering a record moves it from the ring to the worker.
LEMMA DeliverIInv ==
    ASSUME IInv, PopDeliver
    PROVE  IInv'
  <1>1. TypeOK /\ Framed /\ EveryEventAccounted /\ DrainInv
    BY DEF IInv
  <1>2. /\ used # 0
        /\ got' = Append(got, q_out(buf, Step(tail, 4), NextLen))
        /\ tail' = Step(Step(tail, 4), NextLen)
        /\ used' = used - 4 - NextLen
        /\ popped' = popped + 1
        /\ fifo' = Tail(fifo)
        /\ worker' = "busy"
        /\ UNCHANGED <<buf, head, dropped, pushed, done, td,
                       total_bytes, total_recs, popped0, pct, calls>>
    BY SMTT(90) DEF PopDeliver, progress
  <1>3. /\ fifo' \in Seq(Recs) /\ Len(fifo') = Len(fifo) - 1 /\ Len(fifo) \in Nat
        /\ used' \in 0 .. used /\ tail' \in 0 .. Cap - 1
        /\ Framing(buf, tail', used', fifo')
        /\ head = (tail' + used') % Cap
    BY <1>1, <1>2, PopFacts, SMTT(90) DEF TypeOK
  <1>4. got' \in Seq(Seq(Byte)) /\ Len(got') = Len(got) + 1
    <2>1. q_out(buf, Step(tail, 4), NextLen) \in Seq(Byte)
      BY <1>2, PopFacts, RecsAssumption, SMTT(90)
    <2> QED BY <1>1, <1>2, <2>1 DEF TypeOK
  <1>5. TypeOK'
    <2>1. Threads'
      BY <1>1, <1>2 DEF TypeOK, Threads
    <2>2. used' \in 0 .. Cap
      BY <1>1, <1>3, CapAssumption DEF TypeOK
    <2> QED BY <1>1, <1>2, <1>3, <1>4, <2>1, <2>2, SMTT(90) DEF TypeOK
  <1>6. Framed'
    BY <1>2, <1>3 DEF Framed
  <1>7. EveryEventAccounted'
    <2>1. /\ calls = popped + dropped + Len(fifo) /\ popped = Len(got)
          /\ popped \in Nat /\ dropped \in Nat /\ Len(fifo) \in Nat
      BY <1>1, <1>3 DEF EveryEventAccounted, TypeOK
    <2>2. calls' = calls /\ popped' = popped + 1 /\ dropped' = dropped
      BY <1>2
    <2>3. Len(fifo') = Len(fifo) - 1
      BY <1>3
    <2>4. calls' = popped' + dropped' + Len(fifo')
      BY <2>1, <2>2, <2>3
    <2> QED BY <2>1, <2>2, <2>4, <1>4, Zenon DEF EveryEventAccounted
  <1>8. DrainInv'
    <2>1. /\ popped \in Nat /\ pushed \in Nat /\ popped0 \in Nat /\ used \in Nat
          /\ total_bytes \in Nat /\ used' \in Nat /\ used' <= used
      BY <1>1, <1>3, CapAssumption DEF TypeOK
    <2>2. popped' + Len(fifo') <= pushed'
      <3>1. popped + Len(fifo) <= pushed /\ pushed' = pushed
        BY <1>1, <1>2 DEF DrainInv
      <3> QED BY <3>1, <2>1, <1>2, <1>3
    <2>3. td' = td /\ td \notin {"join", "over"}
      BY <1>1, <1>2 DEF DrainInv
    <2>4. ASSUME td \in {"close", "drain", "join", "over"}
          PROVE  /\ used' <= total_bytes'
                 /\ popped0' <= popped'
                 /\ total_recs' + popped0' = pushed'
      <3>1. used <= total_bytes /\ popped0 <= popped /\ total_recs + popped0 = pushed
        BY <1>1, <2>4 DEF DrainInv
      <3>2. /\ total_bytes' = total_bytes /\ popped0' = popped0 /\ popped' = popped + 1
            /\ total_recs' = total_recs /\ pushed' = pushed
        BY <1>2
      <3> QED BY <3>1, <3>2, <2>1
    <2> QED BY <2>2, <2>3, <2>4 DEF DrainInv
  <1> QED BY <1>5, <1>6, <1>7, <1>8 DEF IInv

\* Skipping an oversized record moves it from the ring to the drop count.
LEMMA SkipIInv ==
    ASSUME IInv, PopSkip
    PROVE  IInv'
  <1>1. TypeOK /\ Framed /\ EveryEventAccounted /\ DrainInv
    BY DEF IInv
  <1>2. /\ used # 0
        /\ tail' = Step(Step(tail, 4), NextLen)
        /\ used' = used - 4 - NextLen
        /\ dropped' = dropped + 1
        /\ fifo' = Tail(fifo)
        /\ worker' = "locked"
        /\ UNCHANGED <<buf, head, popped, pushed, done, td, got,
                       total_bytes, total_recs, popped0, pct, calls>>
    BY DEF PopSkip, progress
  <1>3. /\ fifo' \in Seq(Recs) /\ Len(fifo') = Len(fifo) - 1 /\ Len(fifo) \in Nat
        /\ used' \in 0 .. used /\ tail' \in 0 .. Cap - 1
        /\ Framing(buf, tail', used', fifo')
        /\ head = (tail' + used') % Cap
    BY <1>1, <1>2, PopFacts, SMTT(90) DEF TypeOK
  <1>4. TypeOK'
    <2>1. Threads'
      BY <1>1, <1>2 DEF TypeOK, Threads
    <2>2. used' \in 0 .. Cap
      BY <1>1, <1>3, CapAssumption DEF TypeOK
    <2> QED BY <1>1, <1>2, <1>3, <2>1, <2>2, SMTT(90) DEF TypeOK
  <1>5. Framed'
    BY <1>2, <1>3 DEF Framed
  <1>6. EveryEventAccounted'
    <2>1. /\ calls = popped + dropped + Len(fifo) /\ popped = Len(got)
          /\ popped \in Nat /\ dropped \in Nat /\ Len(fifo) \in Nat
      BY <1>1, <1>3 DEF EveryEventAccounted, TypeOK
    <2>2. calls' = calls /\ dropped' = dropped + 1 /\ popped' = popped /\ got' = got
      BY <1>2
    <2>3. Len(fifo') = Len(fifo) - 1
      BY <1>3
    <2>4. calls' = popped' + dropped' + Len(fifo')
      BY <2>1, <2>2, <2>3
    <2> QED BY <2>1, <2>2, <2>4 DEF EveryEventAccounted
  <1>7. DrainInv'
    <2>1. /\ popped \in Nat /\ pushed \in Nat /\ popped0 \in Nat /\ used \in Nat
          /\ total_bytes \in Nat /\ used' \in Nat /\ used' <= used
      BY <1>1, <1>3, CapAssumption DEF TypeOK
    <2>2. popped' + Len(fifo') <= pushed'
      <3>1. popped + Len(fifo) <= pushed /\ pushed' = pushed
        BY <1>1, <1>2 DEF DrainInv
      <3> QED BY <3>1, <2>1, <1>2, <1>3
    <2>3. td' = td /\ td \notin {"join", "over"}
      BY <1>1, <1>2 DEF DrainInv
    <2>4. ASSUME td \in {"close", "drain", "join", "over"}
          PROVE  /\ used' <= total_bytes'
                 /\ popped0' <= popped'
                 /\ total_recs' + popped0' = pushed'
      <3>1. used <= total_bytes /\ popped0 <= popped /\ total_recs + popped0 = pushed
        BY <1>1, <2>4 DEF DrainInv
      <3>2. /\ total_bytes' = total_bytes /\ popped0' = popped0 /\ popped' = popped
            /\ total_recs' = total_recs /\ pushed' = pushed
        BY <1>2
      <3> QED BY <3>1, <3>2, <2>1
    <2> QED BY <2>2, <2>3, <2>4 DEF DrainInv
  <1> QED BY <1>4, <1>5, <1>6, <1>7 DEF IInv

\* A step that leaves the ring and the counters alone.
LEMMA QuietIInv ==
    ASSUME IInv,
           UNCHANGED <<buf, head, tail, used, dropped, pushed, popped, fifo, got, calls>>,
           Threads', done' \in BOOLEAN, pct' \in 0 .. 100,
           total_bytes' \in Nat, total_recs' \in Nat, popped0' \in Nat,
           DrainInv'
    PROVE  IInv'
  <1>1. TypeOK'
    BY DEF IInv, TypeOK
  <1>2. Framed'
    BY DEF IInv, Framed
  <1>3. EveryEventAccounted'
    BY SMTT(90) DEF IInv, EveryEventAccounted
  <1> QED BY <1>1, <1>2, <1>3 DEF IInv

\* A step of the worker alone.
LEMMA WorkerIInv ==
    ASSUME IInv, worker' \in {"pop", "locked", "waiting", "busy", "exited"},
           UNCHANGED <<ring, counters, done, td, progress, fifo, got, calls>>
    PROVE  IInv'
  <1>1. UNCHANGED <<buf, head, tail, used, dropped, pushed, popped, done, td,
                    total_bytes, total_recs, popped0, pct, fifo, got, calls>>
    BY DEF ring, counters, progress
  <1>2. DrainInv'
    BY <1>1 DEF IInv, DrainInv
  <1>3. Threads'
    BY <1>1 DEF IInv, TypeOK, Threads
  <1> QED BY <1>1, <1>2, <1>3, QuietIInv DEF IInv, TypeOK

\* drain_progress_begin freezes a backlog that the counters vouch for.
LEMMA BeginIInv ==
    ASSUME IInv, drain_progress_begin
    PROVE  IInv'
  <1>1. /\ td = "begin" /\ td' = "close"
        /\ total_bytes' = used /\ popped0' = popped /\ total_recs' = pushed - popped
        /\ UNCHANGED <<buf, head, tail, used, dropped, pushed, popped, done, worker,
                       pct, fifo, got, calls>>
    BY DEF drain_progress_begin, ring, counters
  <1>2. /\ used \in Nat /\ popped \in Nat /\ pushed \in Nat /\ Len(fifo) \in Nat
        /\ popped + Len(fifo) <= pushed
    BY CapAssumption DEF IInv, TypeOK, DrainInv
  <1>3. total_recs' \in Nat /\ total_recs' + popped0' = pushed'
    BY <1>1, <1>2
  <1>4. DrainInv'
    BY <1>1, <1>2, <1>3 DEF DrainInv
  <1>5. Threads' /\ done' \in BOOLEAN /\ pct' \in 0 .. 100
    BY <1>1 DEF IInv, TypeOK, Threads
  <1> QED BY <1>1, <1>2, <1>3, <1>4, <1>5, QuietIInv

\* Setting `done' and signalling moves no bytes and no counters.
LEMMA SetDoneIInv ==
    ASSUME IInv, SetDone
    PROVE  IInv'
  <1>1. /\ td = "close" /\ td' = "drain" /\ done' = TRUE
        /\ worker' = IF worker = "waiting" THEN "pop" ELSE worker
        /\ UNCHANGED <<buf, head, tail, used, dropped, pushed, popped,
                       total_bytes, total_recs, popped0, pct, fifo, got, calls>>
    BY DEF SetDone, Signal, ring, counters, progress
  <1>2. DrainInv'
    BY <1>1 DEF IInv, DrainInv
  <1>3. Threads'
    BY <1>1 DEF IInv, TypeOK, Threads
  <1>4. /\ pct' \in 0 .. 100 /\ total_bytes' \in Nat
        /\ total_recs' \in Nat /\ popped0' \in Nat
    BY <1>1 DEF IInv, TypeOK
  <1>5. done' \in BOOLEAN
    BY <1>1, ZenonT(120)
  <1> QED BY <1>1, <1>2, <1>3, <1>4, <1>5, QuietIInv

\* The progress loop leaves for the join only when it has seen an empty queue.
LEMMA TickIInv ==
    ASSUME IInv, DrainTick
    PROVE  IInv'
  <1>1. /\ td = "drain"
        /\ UNCHANGED <<buf, head, tail, used, dropped, pushed, popped, done, worker,
                       total_bytes, total_recs, popped0, fifo, got, calls>>
    BY DEF DrainTick, ring, counters
  <1>2. /\ td' \in {"drain", "join"} /\ (td' = "join" => used = 0)
        /\ (pct' = pct \/ pct' = drain_pct(total_bytes, used))
    BY <1>1 DEF DrainTick
  <1>3. pct' \in 0 .. 100
    <2>1. total_bytes \in Nat /\ used \in Nat /\ pct \in 0 .. 100
      BY CapAssumption DEF IInv, TypeOK
    <2> QED BY <2>1, <1>2, PctInRange, Zenon
  <1>4. DrainInv'
    BY <1>1, <1>2 DEF IInv, DrainInv
  <1>5. Threads'
    BY <1>1, <1>2 DEF IInv, TypeOK, Threads
  <1> QED BY <1>1, <1>3, <1>4, <1>5, QuietIInv DEF IInv, TypeOK

\* Every step of either thread preserves the invariant.
LEMMA NextIInv == IInv /\ [Next]_vars => IInv'
  <1> SUFFICES ASSUME IInv, [Next]_vars PROVE IInv'
    OBVIOUS
  <1>1. ASSUME NEW r \in Recs, evq_push(r) PROVE IInv'
    BY <1>1, PushIInv
  <1>2. CASE PopWait
    BY <1>2, WorkerIInv DEF PopWait
  <1>3. CASE SpuriousWakeup
    BY <1>3, WorkerIInv DEF SpuriousWakeup
  <1>4. CASE PopExit
    BY <1>4, WorkerIInv DEF PopExit
  <1>5. CASE PopDeliver
    BY <1>5, DeliverIInv
  <1>6. CASE PopSkip
    BY <1>6, SkipIInv
  <1>7. CASE ProcessEvent
    BY <1>7, WorkerIInv, SMTT(90) DEF ProcessEvent
  <1>8. CASE PollEnds \/ Join
    <2>1. /\ (td = "poll" /\ td' = "begin") \/ (td = "join" /\ td' = "over")
          /\ UNCHANGED <<buf, head, tail, used, dropped, pushed, popped, done, worker,
                         total_bytes, total_recs, popped0, pct, fifo, got, calls>>
      BY <1>8 DEF PollEnds, Join, ring, counters, progress
    <2>2. DrainInv'
      BY <2>1 DEF IInv, DrainInv
    <2>3. Threads'
      BY <2>1 DEF IInv, TypeOK, Threads
    <2> QED BY <2>1, <2>2, <2>3, QuietIInv DEF IInv, TypeOK
  <1>9. CASE drain_progress_begin
    BY <1>9, BeginIInv
  <1>10. CASE SetDone
    BY <1>10, SetDoneIInv
  <1>11. CASE DrainTick
    BY <1>11, TickIInv
  <1>12. CASE Over \/ UNCHANGED vars
    <2>1. UNCHANGED vars
      BY <1>12 DEF Over
    <2> QED BY <2>1, ZenonT(120) DEF vars, IInv, TypeOK, Threads, Framed, EveryEventAccounted, DrainInv
  <1> QED BY <1>1, <1>2, <1>3, <1>4, <1>5, <1>6, <1>7, <1>8, <1>9, <1>10, <1>11, <1>12
          DEF Next

-----------------------------------------------------------------------------
(* The theorems.                                                           *)

\* For every ring size, record buffer and set of records, every reachable state
\* of the queue and its two threads satisfies the invariant.
THEOREM Invariance == Safe => []IInv
  <1>1. Init => IInv
    BY InitIInv
  <1>2. IInv /\ [Next]_vars => IInv'
    BY NextIInv
  <1> QED BY <1>1, <1>2, PTL DEF Safe

\* head, tail, used, the counters and the percentage stay in range.
THEOREM TypeCorrect == Safe => []TypeOK
  <1>1. IInv => TypeOK
    BY DEF IInv
  <1> QED BY <1>1, Invariance, PTL

\* The bytes of the ring always parse into the records accepted and not consumed.
THEOREM FramingNeverDesyncs == Safe => []Framed
  <1>1. IInv => Framed
    BY DEF IInv
  <1> QED BY <1>1, Invariance, PTL

\* No event handed to the queue disappears without being counted.
THEOREM EventsAccounted == Safe => []EveryEventAccounted
  <1>1. IInv => EveryEventAccounted
    BY DEF IInv
  <1> QED BY <1>1, Invariance, PTL

\* The frozen backlog bounds the drain, and the joined worker leaves nothing.
THEOREM DrainIsExact == Safe => []DrainExact
  <1>1. IInv => DrainExact
    <2> SUFFICES ASSUME IInv PROVE DrainExact
      OBVIOUS
    <2>1. /\ popped \in Nat /\ pushed \in Nat /\ popped0 \in Nat /\ total_recs \in Nat
          /\ Len(fifo) \in Nat /\ popped + Len(fifo) <= pushed
      BY DEF IInv, TypeOK, DrainInv
    <2>2. ASSUME td \in {"close", "drain", "join", "over"}
          PROVE  /\ used <= total_bytes
                 /\ popped0 <= popped
                 /\ popped - popped0 <= total_recs
      <3>1. used <= total_bytes /\ popped0 <= popped /\ total_recs + popped0 = pushed
        BY <2>2 DEF IInv, DrainInv
      <3> QED BY <3>1, <2>1
    <2>3. ASSUME td = "over" PROVE used = 0 /\ fifo = <<>>
      <3>1. used = 0
        BY <2>3 DEF IInv, DrainInv
      <3> QED BY <3>1, EmptyFraming DEF IInv, TypeOK, Framed, Ring
    <2> QED BY <2>2, <2>3 DEF DrainExact
  <1> QED BY <1>1, Invariance, PTL

\* A shorter backlog is a percentage that is no lower.
LEMMA PctMonotone ==
    ASSUME NEW total \in Nat, NEW u \in Nat, NEW v \in Nat, v <= u
    PROVE  drain_pct(total, u) <= drain_pct(total, v)
  <1>1. CASE total = 0
    BY <1>1 DEF drain_pct
  <1>2. CASE total # 0
    <2> DEFINE x == total - Fit(total, u)
               y == total - Fit(total, v)
               p == (x * 100) \div total
               q == (y * 100) \div total
    <2>1. x \in 0 .. total /\ y \in 0 .. total /\ x <= y
      BY DEF Fit
    <2>2. p = drain_pct(total, u) /\ q = drain_pct(total, v)
      BY <1>2 DEF drain_pct
    <2> HIDE DEF x, y
    <2>3. /\ p \in Int /\ total * p <= x * 100 /\ q \in Int
          /\ y * 100 < total * (q + 1)
      BY <1>2, <2>1
    <2> HIDE DEF p, q
    <2>4. total * p < total * (q + 1)
      BY <2>1, <2>3
    <2>5. p < q + 1
      BY <1>2, <2>3, <2>4
    <2> QED BY <2>2, <2>3, <2>5
  <1> QED BY <1>1, <1>2

\* What the progress loop has shown is no more than what it would show now, as
\* nothing is pushed once the backlog is frozen.
Shown ==
    /\ td \in {"poll", "begin"} => pct = 0
    /\ td \in {"close", "drain"} => pct <= drain_pct(total_bytes, used)

\* Every step keeps it, and shows no less than before.
LEMMA ShownStep ==
    ASSUME IInv, Shown, [Next]_vars
    PROVE  Shown' /\ pct' >= pct
  <1>1. /\ total_bytes \in Nat /\ used \in Nat /\ pct \in 0 .. 100
        /\ drain_pct(total_bytes, used) \in 0 .. 100
    <2>1. total_bytes \in Nat /\ used \in Nat /\ pct \in 0 .. 100
      BY CapAssumption DEF IInv, TypeOK
    <2> QED BY <2>1, PctInRange, Zenon
  <1>2. CASE td' = td /\ pct' = pct /\ total_bytes' = total_bytes /\ used' = used
    BY <1>1, <1>2 DEF Shown
  <1>3. CASE \E r \in Recs : evq_push(r)
    <2>1. td = "poll" /\ td' = td /\ pct' = pct
      BY <1>3, Zenon DEF evq_push, Push, progress
    <2> QED BY <1>1, <2>1 DEF Shown
  <1>4. CASE PopDeliver \/ PopSkip
    <2>1. /\ used # 0 /\ td' = td /\ pct' = pct /\ total_bytes' = total_bytes
          /\ used' = used - 4 - NextLen
      BY <1>4, Zenon DEF PopDeliver, PopSkip, progress
    <2>2. used - 4 - NextLen \in 0 .. used
      BY <2>1, PopFacts, Zenon
    <2>3. used' \in Nat /\ used' <= used
      BY <1>1, <2>1, <2>2
    <2>4. drain_pct(total_bytes, used) <= drain_pct(total_bytes, used')
      BY <1>1, <2>3, PctMonotone
    <2>5. drain_pct(total_bytes, used') \in 0 .. 100
      BY <1>1, <2>3, PctInRange, SMTT(90)
    <2>6. td \in {"close", "drain"} => pct <= drain_pct(total_bytes, used')
      BY <1>1, <2>4, <2>5 DEF Shown
    <2> QED BY <1>1, <2>1, <2>6 DEF Shown
  <1>5. CASE PollEnds
    <2>1. td = "poll" /\ td' = "begin" /\ pct' = pct
      BY <1>5 DEF PollEnds, progress
    <2> QED BY <1>1, <2>1 DEF Shown
  <1>6. CASE drain_progress_begin
    <2>1. td = "begin" /\ td' = "close" /\ pct' = pct /\ total_bytes' = used /\ used' = used
      BY <1>6 DEF drain_progress_begin, ring
    <2>2. drain_pct(used, used) \in 0 .. 100
      BY <1>1, PctInRange, SMTT(90)
    <2> QED BY <1>1, <2>1, <2>2 DEF Shown
  <1>7. CASE SetDone
    <2>1. td = "close" /\ td' = "drain" /\ pct' = pct /\ total_bytes' = total_bytes /\ used' = used
      BY <1>7 DEF SetDone, progress, ring
    <2> QED BY <1>1, <2>1 DEF Shown
  <1>8. CASE DrainTick
    <2>1. td = "drain" /\ total_bytes' = total_bytes /\ used' = used
      BY <1>8 DEF DrainTick, ring
    <2>2. CASE td' = "join" /\ pct' = pct
      BY <1>1, <2>2 DEF Shown
    <2>3. CASE td' = td /\ pct' = drain_pct(total_bytes, used)
      BY <1>1, <2>1, <2>3 DEF Shown
    <2> QED BY <1>8, <2>2, <2>3, Zenon DEF DrainTick
  <1>9. CASE Join
    <2>1. td' = "over" /\ pct' = pct
      BY <1>9 DEF Join, progress
    <2> QED BY <1>1, <2>1 DEF Shown
  <1>10. CASE PopWait \/ SpuriousWakeup \/ PopExit \/ ProcessEvent \/ Over \/ UNCHANGED vars
    BY <1>2, <1>10, Zenon DEF PopWait, SpuriousWakeup, PopExit, ProcessEvent, Over, vars,
                              progress, ring
  <1> QED BY <1>3, <1>4, <1>5, <1>6, <1>7, <1>8, <1>9, <1>10, Zenon DEF Next

\* The percentage that drain_progress_join shows never falls, whatever the worker
\* pops between two of its turns.
THEOREM ProgressIsMonotone == Safe => ProgressNeverFalls
  <1>1. Init => Shown
    BY DEF Init, Shown
  <1>2. IInv /\ Shown /\ [Next]_vars => Shown'
    BY ShownStep
  <1>3. IInv /\ Shown /\ [Next]_vars => [pct' >= pct]_pct
    BY ShownStep
  <1> QED BY <1>1, <1>2, <1>3, Invariance, PTL DEF Safe, ProgressNeverFalls

-----------------------------------------------------------------------------
(* The byte queue implements the abstract one.                             *)

\* The worker can see `done' only after the poll loop has ended.
DoneLate == done => td \in {"drain", "join", "over"}

\* syscalls_teardown sets `done' after the poll loop, so in every reachable state.
LEMMA DoneIsLate == Safe => []DoneLate
  <1>1. Init => DoneLate
    BY DEF Init, evq_init, DoneLate
  <1>2. DoneLate /\ [Next]_vars => DoneLate'
    <2> SUFFICES ASSUME DoneLate, [Next]_vars PROVE DoneLate'
      OBVIOUS
    <2>1. CASE SetDone
      BY <2>1 DEF SetDone, DoneLate
    <2>2. CASE done' = done /\ td' = td
      BY <2>2 DEF DoneLate
    <2>3. CASE PollEnds \/ drain_progress_begin \/ DrainTick \/ Join
      BY <2>3, Zenon DEF PollEnds, drain_progress_begin, DrainTick, Join, DoneLate
    <2>4. CASE \E r \in Recs : evq_push(r)
      BY <2>4, <2>2, SMTT(90) DEF evq_push, Push
    <2>5. CASE PopWait \/ SpuriousWakeup \/ PopExit \/ PopDeliver \/ PopSkip
                 \/ ProcessEvent \/ Over \/ UNCHANGED vars
      BY <2>5, <2>2, SMTT(90) DEF PopWait, SpuriousWakeup, PopExit, PopDeliver, PopSkip,
                        ProcessEvent, Over, vars
    <2> QED BY <2>1, <2>3, <2>4, <2>5 DEF Next
  <1> QED BY <1>1, <1>2, PTL DEF Safe

\* The empty queue is the abstract queue's initial state.
LEMMA RefineInit == Init => Fifo!FifoInit
  BY Zenon DEF Init, evq_init, Fifo!FifoInit

\* Every step of the queue is a step of the abstract queue or a stutter.
LEMMA RefineNext == IInv /\ DoneLate /\ [Next]_vars => [Fifo!FifoNext]_(Fifo!fvars)
  <1> SUFFICES ASSUME IInv, DoneLate, [Next]_vars
               PROVE  Fifo!FifoNext \/ UNCHANGED Fifo!fvars
    OBVIOUS
  <1>1. ASSUME UNCHANGED <<fifo, got, dropped, td>>,
               (worker' = "exited") = (worker = "exited")
        PROVE  UNCHANGED Fifo!fvars
    BY <1>1 DEF Fifo!fvars
  <1>2. ASSUME NEW r \in Recs, evq_push(r)
        PROVE  Fifo!Accept(r) \/ Fifo!Refuse
    <2>1. /\ ~(td # "poll") /\ UNCHANGED <<got, td>>
          /\ \/ dropped' = dropped + 1 /\ UNCHANGED <<worker, fifo>>
             \/ /\ fifo' = Append(fifo, r) /\ UNCHANGED dropped
                /\ worker' = IF worker = "waiting" THEN "pop" ELSE worker
      BY <1>2 DEF evq_push, Push, Signal, progress
    <2>2. (worker' = "exited") = (worker = "exited")
      BY <2>1
    <2> QED BY <2>1, <2>2 DEF Fifo!Accept, Fifo!Refuse
  <1>3. CASE PopWait \/ SpuriousWakeup \/ ProcessEvent
    <2>1. /\ UNCHANGED <<fifo, got, dropped, td>>
          /\ worker # "exited" /\ worker' # "exited"
      BY <1>3 DEF PopWait, SpuriousWakeup, ProcessEvent, Popping, counters
    <2> QED BY <2>1, <1>1
  <1>4. CASE PopExit
    <2>1. /\ UNCHANGED <<fifo, got, dropped, td>> /\ used = 0 /\ done
          /\ worker # "exited" /\ worker' = "exited"
      BY <1>4 DEF PopExit, Popping, counters
    <2>2. td # "poll"
      BY <2>1 DEF DoneLate
    <2>3. fifo = <<>>
      BY <2>1, EmptyFraming DEF IInv, TypeOK, Framed, Ring
    <2> QED BY <2>1, <2>2, <2>3 DEF Fifo!Leave, Fifo!FifoNext
  <1>5. CASE PopDeliver
    <2>1. /\ used # 0 /\ NextLen <= OutCap /\ fifo' = Tail(fifo)
          /\ got' = Append(got, q_out(buf, Step(tail, 4), NextLen))
          /\ UNCHANGED <<dropped, td>> /\ worker # "exited" /\ worker' # "exited"
      BY <1>5 DEF PopDeliver, Popping
    <2>2. /\ fifo # <<>> /\ Head(fifo) = fifo[1] /\ NextLen = Len(fifo[1])
          /\ q_out(buf, Step(tail, 4), NextLen) = fifo[1]
      BY <2>1, PopFacts
    <2>3. Fifo!Take
      BY <2>1, <2>2 DEF Fifo!Take
    <2> QED BY <2>3 DEF Fifo!FifoNext
  <1>6. CASE PopSkip
    <2>1. /\ used # 0 /\ NextLen > OutCap /\ fifo' = Tail(fifo)
          /\ dropped' = dropped + 1
          /\ UNCHANGED <<got, td>> /\ worker # "exited" /\ worker' # "exited"
      BY <1>6 DEF PopSkip, Popping
    <2>2. /\ fifo # <<>> /\ Head(fifo) = fifo[1] /\ NextLen = Len(fifo[1])
      BY <2>1, PopFacts
    <2>3. Fifo!Discard
      BY <2>1, <2>2 DEF Fifo!Discard
    <2> QED BY <2>3 DEF Fifo!FifoNext
  <1>7. CASE PollEnds
    <2>1. /\ td = "poll" /\ td' # "poll" /\ UNCHANGED <<fifo, got, dropped, worker>>
      BY <1>7 DEF PollEnds, counters
    <2> QED BY <2>1 DEF Fifo!Close, Fifo!FifoNext
  <1>8. CASE drain_progress_begin \/ SetDone \/ DrainTick \/ Join
    <2>1. /\ td # "poll" /\ td' # "poll" /\ UNCHANGED <<fifo, got, dropped>>
          /\ (worker' = worker \/ (worker = "waiting" /\ worker' = "pop"))
      BY <1>8 DEF drain_progress_begin, SetDone, Signal, DrainTick, Join, counters
    <2> QED BY <2>1 DEF Fifo!fvars
  <1>9. CASE Over \/ UNCHANGED vars
    BY <1>9, <1>1 DEF Over, vars
  <1> QED BY <1>2, <1>3, <1>4, <1>5, <1>6, <1>7, <1>8, <1>9 DEF Next, Fifo!FifoNext

\* The ring, the mutex and the condition variable keep the promise of the
\* abstract queue: records reach the worker whole, in order, at most once, and
\* the worker leaves only an empty, closed queue.
THEOREM ImplementsFifoSafety == Safe => Fifo!FifoSafe
  <1>1. Init => Fifo!FifoInit
    BY RefineInit
  <1>2. IInv /\ DoneLate /\ [Next]_vars => [Fifo!FifoNext]_(Fifo!fvars)
    BY RefineNext
  <1> QED BY <1>1, <1>2, Invariance, DoneIsLate, PTL DEF Safe, Fifo!FifoSafe
=============================================================================
