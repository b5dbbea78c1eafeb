--------------------------- MODULE SyscallProofs ----------------------------
(***************************************************************************)
(* Proofs about SyscallTrace, for any threads, system calls, filters and   *)
(* sizes of the ring, the queue and the map `pending'.                     *)
(***************************************************************************)
EXTENDS SyscallTrace, TLAPS

-----------------------------------------------------------------------------
(* The records of one thread in a queue *)

(* An entry or return event of thread t; and, for a queue s, that it holds *)
(* none, that record k is its first or last, and that j and k are two in   *)
(* a row.                                                                  *)
Own(e, t) == e.type \in {"SYSCALL", "RETURN"} /\ e.tid = t

Absent(s, t) == \A k \in DOMAIN s : ~Own(s[k], t)

IsFirst(s, t, k) == Own(s[k], t) /\ \A l \in DOMAIN s : l < k => ~Own(s[l], t)

IsLast(s, t, k) == Own(s[k], t) /\ \A l \in DOMAIN s : k < l => ~Own(s[l], t)

NextTo(s, t, j, k) ==
    /\ j < k /\ Own(s[j], t) /\ Own(s[k], t)
    /\ \A l \in DOMAIN s : j < l /\ l < k => ~Own(s[l], t)

(* Every return of t in s follows its own entry, where p is the entry held *)
(* for t before s and m the mark that lets a return follow s.              *)
Paired(s, t, p, m) ==
    /\ \A j, k \in DOMAIN s : NextTo(s, t, j, k) /\ s[k].type = "RETURN"
                              => s[j].type = "SYSCALL" /\ s[j].inst = s[k].inst
    /\ \A k \in DOMAIN s : IsFirst(s, t, k) /\ s[k].type = "RETURN" => p \in {None, s[k].inst}
    /\ m # None => /\ \A k \in DOMAIN s : IsLast(s, t, k) => s[k].type = "SYSCALL" /\ s[k].inst = m
                   /\ Absent(s, t) => p \in {None, m}

(* Every entry of t, held or in s, is followed by a return, unless it is   *)
(* the last: then a return is due.                                         *)
Answered(s, t, p, due) ==
    /\ \A j, k \in DOMAIN s : NextTo(s, t, j, k) /\ s[j].type = "SYSCALL" => s[k].type = "RETURN"
    /\ \A k \in DOMAIN s : IsFirst(s, t, k) /\ p # None => s[k].type = "RETURN"
    /\ \A k \in DOMAIN s : IsLast(s, t, k) /\ s[k].type = "SYSCALL" => due
    /\ Absent(s, t) /\ p # None => due

(* How the three positions move when a record is appended. *)
LEMMA AppendOwn ==
    ASSUME NEW s \in Seq(Event), NEW e \in Event, NEW t, NEW z, z = Append(s, e)
    PROVE  /\ DOMAIN s = 1 .. Len(s) /\ DOMAIN z = 1 .. (Len(s) + 1) /\ z[Len(s) + 1] = e
           /\ Len(s) \in Nat /\ \A k \in DOMAIN s : z[k] = s[k]
           /\ \A k \in DOMAIN s : IsFirst(z, t, k) => IsFirst(s, t, k)
           /\ \A j, k \in DOMAIN s : NextTo(z, t, j, k) => NextTo(s, t, j, k)
           /\ \A k \in DOMAIN s : IsLast(z, t, k) => IsLast(s, t, k) /\ ~Own(e, t)
           /\ IsFirst(z, t, Len(s) + 1) => Absent(s, t)
           /\ \A j \in DOMAIN s : NextTo(z, t, j, Len(s) + 1) => IsLast(s, t, j)
           /\ Own(e, t) <=> IsLast(z, t, Len(s) + 1)
           /\ Absent(z, t) <=> Absent(s, t) /\ ~Own(e, t)
<1>1. /\ Len(s) \in Nat /\ DOMAIN s = 1 .. Len(s)
      /\ DOMAIN z = 1 .. (Len(s) + 1) /\ z[Len(s) + 1] = e
      /\ \A k \in 1 .. Len(s) : z[k] = s[k]
  OBVIOUS
<1>2. \A k \in DOMAIN s : z[k] = s[k] /\ k \in DOMAIN z /\ k < Len(s) + 1 /\ k \in Int
  BY <1>1
<1>3. Len(s) + 1 \in DOMAIN z /\ \A k \in DOMAIN z : k \in DOMAIN s \/ k = Len(s) + 1
  BY <1>1
<1>4. \A k \in DOMAIN s : IsFirst(z, t, k) => IsFirst(s, t, k)
  BY <1>2 DEF IsFirst
<1>5. \A j, k \in DOMAIN s : NextTo(z, t, j, k) => NextTo(s, t, j, k)
  BY <1>2 DEF NextTo
<1>6. \A k \in DOMAIN s : IsLast(z, t, k) => IsLast(s, t, k) /\ ~Own(e, t)
  BY <1>1, <1>2, <1>3 DEF IsLast
<1>7. IsFirst(z, t, Len(s) + 1) => Absent(s, t)
  BY <1>1, <1>2 DEF IsFirst, Absent
<1>8. \A j \in DOMAIN s : NextTo(z, t, j, Len(s) + 1) => IsLast(s, t, j)
  BY <1>1, <1>2 DEF IsLast, NextTo
<1>9. Own(e, t) <=> IsLast(z, t, Len(s) + 1)
  BY <1>1, <1>2, <1>3 DEF IsLast
<1>10. Absent(z, t) <=> Absent(s, t) /\ ~Own(e, t)
  BY <1>1, <1>2, <1>3 DEF Absent
<1> QED
  BY <1>1, <1>2, <1>4, <1>5, <1>6, <1>7, <1>8, <1>9, <1>10

(* And when the first one is taken off. *)
LEMMA TailOwn ==
    ASSUME NEW s \in Seq(Event), s # <<>>, NEW t, NEW z, z = Tail(s)
    PROVE  /\ \A k \in DOMAIN z : k + 1 \in DOMAIN s /\ z[k] = s[k + 1]
           /\ 1 \in DOMAIN s /\ s[1] = Head(s)
           /\ \A j, k \in DOMAIN z : NextTo(z, t, j, k) => NextTo(s, t, j + 1, k + 1)
           /\ \A k \in DOMAIN z : IsLast(z, t, k) => IsLast(s, t, k + 1)
           /\ \A k \in DOMAIN z : IsFirst(z, t, k) =>
                 IF Own(Head(s), t) THEN NextTo(s, t, 1, k + 1) ELSE IsFirst(s, t, k + 1)
           /\ Absent(z, t) => IF Own(Head(s), t) THEN IsLast(s, t, 1) ELSE Absent(s, t)
           /\ Own(Head(s), t) => IsFirst(s, t, 1)
<1> DEFINE e == Head(s)
<1>1. /\ Len(s) \in Nat \ {0} /\ DOMAIN s = 1 .. Len(s)
      /\ DOMAIN z = 1 .. (Len(s) - 1) /\ e = s[1]
      /\ \A k \in 1 .. (Len(s) - 1) : z[k] = s[k + 1]
  OBVIOUS
<1> HIDE DEF e
<1>2. /\ \A k \in DOMAIN z : k + 1 \in DOMAIN s /\ z[k] = s[k + 1] /\ k \in Int /\ 1 < k + 1
      /\ 1 \in DOMAIN s
  BY <1>1
<1>3. \A l \in DOMAIN s : l \in Int /\ (l = 1 \/ (l - 1 \in DOMAIN z /\ s[l] = z[l - 1]))
  BY <1>1
<1>4. ASSUME NEW j \in DOMAIN z, NEW k \in DOMAIN z, NextTo(z, t, j, k) PROVE NextTo(s, t, j + 1, k + 1)
  <2>1. j + 1 < k + 1 /\ Own(s[j + 1], t) /\ Own(s[k + 1], t)
    BY <1>2, <1>4 DEF NextTo
  <2>2. ASSUME NEW l \in DOMAIN s, j + 1 < l, l < k + 1 PROVE ~Own(s[l], t)
    <3>1. l - 1 \in DOMAIN z /\ s[l] = z[l - 1] /\ j < l - 1 /\ l - 1 < k
      BY <1>1, <2>2
    <3> QED
      BY <1>4, <3>1 DEF NextTo
  <2> QED
    BY <2>1, <2>2 DEF NextTo
<1>5. ASSUME NEW k \in DOMAIN z, IsLast(z, t, k) PROVE IsLast(s, t, k + 1)
  <2>1. Own(s[k + 1], t)
    BY <1>2, <1>5 DEF IsLast
  <2>2. ASSUME NEW l \in DOMAIN s, k + 1 < l PROVE ~Own(s[l], t)
    <3>1. l - 1 \in DOMAIN z /\ s[l] = z[l - 1] /\ k < l - 1
      BY <1>1, <2>2
    <3> QED
      BY <1>5, <3>1 DEF IsLast
  <2> QED
    BY <2>1, <2>2 DEF IsLast
<1>6. ASSUME NEW k \in DOMAIN z, IsFirst(z, t, k)
      PROVE  IF Own(e, t) THEN NextTo(s, t, 1, k + 1) ELSE IsFirst(s, t, k + 1)
  <2>1. Own(s[k + 1], t) /\ 1 < k + 1
    BY <1>2, <1>6 DEF IsFirst
  <2>2. ASSUME NEW l \in DOMAIN s, 1 < l, l < k + 1 PROVE ~Own(s[l], t)
    <3>1. l - 1 \in DOMAIN z /\ s[l] = z[l - 1] /\ l - 1 < k
      BY <1>1, <2>2
    <3> QED
      BY <1>6, <3>1 DEF IsFirst
  <2>3. CASE Own(e, t)
    BY <1>1, <2>1, <2>2, <2>3 DEF NextTo
  <2>4. CASE ~Own(e, t)
    <3>1. ASSUME NEW l \in DOMAIN s, l < k + 1 PROVE ~Own(s[l], t)
      BY <1>1, <2>2, <2>4, <3>1
    <3> QED
      BY <2>1, <2>4, <3>1 DEF IsFirst
  <2> QED
    BY <2>3, <2>4
<1>7. ASSUME Absent(z, t) PROVE IF Own(e, t) THEN IsLast(s, t, 1) ELSE Absent(s, t)
  <2>1. ASSUME NEW l \in DOMAIN s, l # 1 PROVE ~Own(s[l], t)
    BY <1>3, <1>7, <2>1, SMTT(90) DEF Absent
  <2>2. CASE Own(e, t)
    BY <1>1, <2>1, <2>2 DEF IsLast
  <2>3. CASE ~Own(e, t)
    BY <1>1, <2>1, <2>3 DEF Absent
  <2> QED
    BY <2>2, <2>3
<1>8. Own(e, t) => IsFirst(s, t, 1)
  BY <1>1 DEF IsFirst
<1> QED
  BY <1>1, <1>2, <1>4, <1>5, <1>6, <1>7, <1>8 DEF e

(* A record that is not the thread's changes nothing for it. *)
LEMMA OtherAppended ==
    ASSUME NEW s \in Seq(Event), NEW e \in Event, NEW t, ~Own(e, t), NEW p, NEW m, NEW due
    PROVE  /\ Paired(s, t, p, m) => Paired(Append(s, e), t, p, m)
           /\ Answered(s, t, p, due) => Answered(Append(s, e), t, p, due)
<1> DEFINE z == Append(s, e)
           n == Len(s) + 1
<1>1. /\ DOMAIN s = 1 .. Len(s) /\ DOMAIN z = 1 .. n /\ z[n] = e
      /\ Len(s) \in Nat /\ \A k \in DOMAIN s : z[k] = s[k]
      /\ \A k \in DOMAIN s : IsFirst(z, t, k) => IsFirst(s, t, k)
      /\ \A j, k \in DOMAIN s : NextTo(z, t, j, k) => NextTo(s, t, j, k)
      /\ \A k \in DOMAIN s : IsLast(z, t, k) => IsLast(s, t, k)
      /\ Absent(z, t) => Absent(s, t)
  BY AppendOwn, Zenon
<1> HIDE DEF z
<1>2. /\ \A k \in DOMAIN z : IsFirst(z, t, k) \/ IsLast(z, t, k) => k \in DOMAIN s
      /\ \A j, k \in DOMAIN z : NextTo(z, t, j, k) => j \in DOMAIN s /\ k \in DOMAIN s
  BY <1>1 DEF IsFirst, IsLast, NextTo
<1>3. Paired(s, t, p, m) => Paired(z, t, p, m)
  BY <1>1, <1>2 DEF Paired
<1>4. Answered(s, t, p, due) => Answered(z, t, p, due)
  BY <1>1, <1>2 DEF Answered
<1> QED
  BY <1>3, <1>4 DEF z

(* z is s with one more record e, its last, which is a record of t. *)
Longer(s, z, e, t, x) ==
    /\ \A k \in DOMAIN z : k \in DOMAIN s \/ k = x
    /\ z[x] = e /\ \A k \in DOMAIN s : z[k] = s[k]
    /\ \A k \in DOMAIN s : IsFirst(z, t, k) => IsFirst(s, t, k)
    /\ \A j, k \in DOMAIN s : NextTo(z, t, j, k) => NextTo(s, t, j, k)
    /\ \A k \in DOMAIN s : ~IsLast(z, t, k)
    /\ IsFirst(z, t, x) => Absent(s, t)
    /\ \A j, k \in DOMAIN z : NextTo(z, t, j, k) => j \in DOMAIN s
    /\ \A j \in DOMAIN s : NextTo(z, t, j, x) => IsLast(s, t, j)
    /\ ~Absent(z, t)

(* A record of the thread is its last one once appended. *)
LEMMA OwnAppended ==
    ASSUME NEW s \in Seq(Event), NEW e \in Event, NEW t, Own(e, t), NEW z, z = Append(s, e),
           NEW x, x = Len(s) + 1
    PROVE  Longer(s, z, e, t, x)
<1>1. /\ DOMAIN s = 1 .. Len(s) /\ DOMAIN z = 1 .. x /\ Len(s) \in Nat
      /\ z[x] = e /\ \A k \in DOMAIN s : z[k] = s[k]
  BY AppendOwn
<1>4. /\ \A k \in DOMAIN s : IsFirst(z, t, k) => IsFirst(s, t, k)
      /\ \A j, k \in DOMAIN s : NextTo(z, t, j, k) => NextTo(s, t, j, k)
  BY AppendOwn, Zenon
<1>5. \A k \in DOMAIN s : ~IsLast(z, t, k)
  BY AppendOwn, Zenon
<1>6. IsFirst(z, t, x) => Absent(s, t)
  BY AppendOwn, Zenon
<1>7. \A j \in DOMAIN s : NextTo(z, t, j, x) => IsLast(s, t, j)
  BY AppendOwn, Zenon
<1>8. ~Absent(z, t)
  BY AppendOwn, Zenon
<1>2. \A k \in DOMAIN z : k \in DOMAIN s \/ k = x
  BY <1>1
<1>3. \A j, k \in DOMAIN z : NextTo(z, t, j, k) => j \in DOMAIN s
  BY <1>1 DEF NextTo
<1> QED
  BY <1>1, <1>2, <1>3, <1>4, <1>5, <1>6, <1>7, <1>8 DEF Longer

(* An entry is appended, with its mark or without. *)
LEMMA EntryAppended ==
    ASSUME NEW s \in Seq(Event), NEW e \in Event, NEW t, Own(e, t), e.type = "SYSCALL",
           NEW p, NEW m, NEW n \in {None, e.inst}
    PROVE  /\ Paired(s, t, p, m) => Paired(Append(s, e), t, p, n)
           /\ Answered(s, t, p, FALSE) => Answered(Append(s, e), t, p, TRUE)
<1> DEFINE z == Append(s, e)
           x == Len(s) + 1
<1>0. z = Append(s, e) /\ x = Len(s) + 1
  OBVIOUS
<1> HIDE DEF z, x
<1>1. Longer(s, z, e, t, x)
  BY <1>0, OwnAppended, Zenon
<1>4. Paired(s, t, p, m) => Paired(z, t, p, n)
  BY <1>1 DEF Paired, Longer
<1>5. Answered(s, t, p, FALSE) => Answered(z, t, p, TRUE)
  BY <1>1 DEF Answered, Longer
<1> QED
  BY <1>4, <1>5, Zenon DEF z

(* The return of the marked entry is appended; the mark goes. *)
LEMMA ReturnAppended ==
    ASSUME NEW s \in Seq(Event), NEW e \in Event, NEW t, Own(e, t), e.type = "RETURN", e.inst # None,
           NEW p, NEW due, NEW due2
    PROVE  /\ Paired(s, t, p, e.inst) => Paired(Append(s, e), t, p, None)
           /\ Answered(s, t, p, due) => Answered(Append(s, e), t, p, due2)
<1> DEFINE z == Append(s, e)
           x == Len(s) + 1
<1>0. z = Append(s, e) /\ x = Len(s) + 1
  OBVIOUS
<1> HIDE DEF z, x
<1>1. Longer(s, z, e, t, x)
  BY <1>0, OwnAppended, Zenon
<1>4. Paired(s, t, p, e.inst) => Paired(z, t, p, None)
  BY <1>1 DEF Paired, Longer
<1>5. Answered(s, t, p, due) => Answered(z, t, p, due2)
  BY <1>1 DEF Answered, Longer
<1> QED
  BY <1>4, <1>5 DEF z

(* A record of another thread, or a stack, is taken off. *)
LEMMA OtherTaken ==
    ASSUME NEW s \in Seq(Event), s # <<>>, NEW t, ~Own(Head(s), t), NEW p, NEW m, NEW due
    PROVE  /\ Paired(s, t, p, m) => Paired(Tail(s), t, p, m)
           /\ Answered(s, t, p, due) => Answered(Tail(s), t, p, due)
<1> DEFINE z == Tail(s)
<1>1. /\ \A k \in DOMAIN z : k + 1 \in DOMAIN s /\ z[k] = s[k + 1]
      /\ \A j, k \in DOMAIN z : NextTo(z, t, j, k) => NextTo(s, t, j + 1, k + 1)
      /\ \A k \in DOMAIN z : IsLast(z, t, k) => IsLast(s, t, k + 1)
      /\ \A k \in DOMAIN z : IsFirst(z, t, k) => IsFirst(s, t, k + 1)
      /\ Absent(z, t) => Absent(s, t)
  BY TailOwn, Zenon
<1> HIDE DEF z
<1>2. Paired(s, t, p, m) => Paired(z, t, p, m)
  BY <1>1 DEF Paired
<1>3. Answered(s, t, p, due) => Answered(z, t, p, due)
  BY <1>1 DEF Answered
<1> QED
  BY <1>2, <1>3 DEF z

(* The worker takes an entry off, and holds it or not. *)
LEMMA EntryTaken ==
    ASSUME NEW s \in Seq(Event), s # <<>>, NEW t, Own(Head(s), t), Head(s).type = "SYSCALL",
           NEW p, NEW m, NEW due, NEW q \in {None, Head(s).inst}
    PROVE  /\ Paired(s, t, p, m) => Paired(Tail(s), t, q, m)
           /\ Answered(s, t, p, due) => Answered(Tail(s), t, q, due)
<1> DEFINE z == Tail(s)
           e == Head(s)
<1>1. /\ \A k \in DOMAIN z : k + 1 \in DOMAIN s /\ z[k] = s[k + 1]
      /\ 1 \in DOMAIN s /\ s[1] = e
      /\ \A j, k \in DOMAIN z : NextTo(z, t, j, k) => NextTo(s, t, j + 1, k + 1)
      /\ \A k \in DOMAIN z : IsLast(z, t, k) => IsLast(s, t, k + 1)
      /\ \A k \in DOMAIN z : IsFirst(z, t, k) => NextTo(s, t, 1, k + 1)
      /\ Absent(z, t) => IsLast(s, t, 1)
  BY TailOwn, Zenon
<1> HIDE DEF z, e
<1>2. Paired(s, t, p, m) => Paired(z, t, q, m)
  BY <1>1 DEF Paired, e
<1>3. Answered(s, t, p, due) => Answered(z, t, q, due)
  BY <1>1 DEF Answered, e
<1> QED
  BY <1>2, <1>3 DEF z

(* The worker takes a return off, and holds nothing for the thread then. *)
LEMMA ReturnTaken ==
    ASSUME NEW s \in Seq(Event), s # <<>>, NEW t, Own(Head(s), t), Head(s).type = "RETURN",
           NEW p, NEW m, NEW due
    PROVE  /\ Paired(s, t, p, m) => Paired(Tail(s), t, None, m) /\ p \in {None, Head(s).inst}
           /\ Answered(s, t, p, due) => Answered(Tail(s), t, None, due)
<1> DEFINE z == Tail(s)
           e == Head(s)
<1>1. /\ \A k \in DOMAIN z : k + 1 \in DOMAIN s /\ z[k] = s[k + 1]
      /\ 1 \in DOMAIN s /\ s[1] = e /\ IsFirst(s, t, 1)
      /\ \A j, k \in DOMAIN z : NextTo(z, t, j, k) => NextTo(s, t, j + 1, k + 1)
      /\ \A k \in DOMAIN z : IsLast(z, t, k) => IsLast(s, t, k + 1)
      /\ \A k \in DOMAIN z : IsFirst(z, t, k) => NextTo(s, t, 1, k + 1)
      /\ Absent(z, t) => IsLast(s, t, 1)
  BY TailOwn, Zenon
<1> HIDE DEF z, e
<1>2. Paired(s, t, p, m) => Paired(z, t, None, m) /\ p \in {None, e.inst}
  BY <1>1 DEF Paired, e
<1>3. Answered(s, t, p, due) => Answered(z, t, None, due)
  BY <1>1 DEF Answered, e
<1> QED
  BY <1>2, <1>3 DEF z, e

(* When the poll loop ends, what is left in the ring does not count. *)
LEMMA RingCut ==
    ASSUME NEW q \in Seq(Event), NEW r \in Seq(Event), NEW t, NEW p, NEW m, NEW due
    PROVE  /\ Paired(q \o r, t, p, m) => Paired(q, t, p, None)
           /\ Answered(q \o r, t, p, due) => Answered(q, t, p, TRUE)
<1> DEFINE z == q \o r
<1>1. /\ Len(q) \in Nat /\ Len(r) \in Nat /\ DOMAIN q = 1 .. Len(q)
      /\ DOMAIN z = 1 .. (Len(q) + Len(r)) /\ \A k \in DOMAIN q : z[k] = q[k]
  OBVIOUS
<1> HIDE DEF z
<1>2. \A k \in DOMAIN q : k \in DOMAIN z /\ z[k] = q[k]
  BY <1>1
<1>3. \A k \in DOMAIN q : \A l \in DOMAIN z : l < k => l \in DOMAIN q
  BY <1>1
<1>4. \A k \in DOMAIN q : IsFirst(q, t, k) => IsFirst(z, t, k)
  BY <1>2, <1>3 DEF IsFirst
<1>5. \A j, k \in DOMAIN q : NextTo(q, t, j, k) => NextTo(z, t, j, k)
  BY <1>2, <1>3 DEF NextTo
<1>6. Paired(z, t, p, m) => Paired(q, t, p, None)
  BY <1>2, <1>4, <1>5 DEF Paired
<1>7. Answered(z, t, p, due) => Answered(q, t, p, TRUE)
  BY <1>2, <1>4, <1>5 DEF Answered
<1> QED
  BY <1>6, <1>7, Zenon DEF z

(* What the worker is still going to see; nothing of the ring once the     *)
(* An empty queue, with nothing pending. *)
LEMMA EmptyPaired ==
    ASSUME NEW t
    PROVE  Paired(<<>>, t, None, None) /\ \A due : Answered(<<>>, t, None, due)
  BY DEF Paired, Answered

(* The worker takes the queue's head, and so the head of what it is still  *)
(* going to see.                                                           *)
LEMMA TailConcat ==
    ASSUME NEW q \in Seq(Event), NEW r \in Seq(Event), q # <<>>
    PROVE  /\ q \o r \in Seq(Event) /\ q \o r # <<>>
           /\ Head(q \o r) = Head(q) /\ Tail(q \o r) = Tail(q) \o r
<1>1. Len(q) \in Nat \ {0} /\ Len(r) \in Nat /\ q \o r \in Seq(Event)
  OBVIOUS
<1>2. Len(q \o r) = Len(q) + Len(r)
  OBVIOUS
<1>3. q \o r # <<>>
  BY <1>1, <1>2
<1>4. Head(q \o r) = Head(q)
  BY <1>1, <1>3
<1>5. Tail(q \o r) = Tail(q) \o r
  BY <1>1, <1>3
<1> QED
  BY <1>1, <1>3, <1>4, <1>5

-----------------------------------------------------------------------------
(* Entries reported once *)

(* The system calls whose entry events a queue holds. *)
In(q) == {q[k].inst : k \in {j \in DOMAIN q : q[j].type = "SYSCALL"}}

(* None of them twice. *)
Once(q) ==
    \A k, l \in DOMAIN q :
       q[k].type = "SYSCALL" /\ q[l].type = "SYSCALL" /\ q[k].inst = q[l].inst => k = l

Busy == [at : {"mark", "snap"}, call : {c \in Call : c.stack \in Stacks}]
        \cup [at : {"emit", "kernel"}, call : Call]

(* The thread is in the entry probe and its event is still to come. *)
Ahead(t) == th[t].at \in {"mark", "snap", "emit"}

Typed ==
    /\ th \in [Tids -> {Idle} \cup Busy]
    /\ ring \in Seq(Event) /\ queue \in Seq(Event)
    /\ pend \in [Tids -> Insts \cup {None}]
    /\ json \in [Insts -> Seq(Insts \cup {None})]
    /\ handled \subseteq Insts /\ calls \in 0 .. MaxCalls

(* A system call has one entry event: it is about to be emitted by its     *)
(* thread, in the ring, in the queue, or has been handled.                 *)
OnePlace ==
    /\ Once(ring) /\ Once(queue) /\ In(ring) \cap In(queue) = {}
    /\ (In(ring) \cup In(queue)) \cap handled = {}
    /\ \A t \in Tids : Ahead(t) => th[t].call.inst \notin In(ring) \cup In(queue) \cup handled
    /\ \A t, u \in Tids : Ahead(t) /\ Ahead(u) /\ th[t].call.inst = th[u].call.inst => t = u

(* Later calls have later numbers. *)
Numbered ==
    /\ In(ring) \cup In(queue) \cup handled \subseteq 1 .. calls
    /\ \A t \in Tids : Ahead(t) => th[t].call.inst \in 1 .. calls

(* An entry is held for one thread. *)
HeldOnce == \A t, u \in Tids : pend[t] = pend[u] /\ pend[t] # None => t = u

Inv == Typed /\ OnePlace /\ Numbered /\ HeldOnce /\ ReportedOnce

(* The bound on the calls is a number, and None is no call. *)
LEMMA ConstantFacts == MaxCalls \in Nat /\ None \notin Insts
<1>1. MaxCalls \in Nat
  BY BoundsAssumption
<1> QED
  BY <1>1, NoneAssumption DEF Insts

(* Every field of an entry event. *)
LEMMA EntryFields ==
    ASSUME NEW e \in Event, e.type = "SYSCALL"
    PROVE  e.inst \in Insts /\ e.tid \in Tids
  BY DEF Event

(* And of a return event. *)
LEMMA ReturnFields ==
    ASSUME NEW e \in Event, e.type = "RETURN"
    PROVE  e.inst \in Insts /\ e.tid \in Tids
  BY DEF Event

(* What a queue holds after a record is appended. *)
LEMMA AppendIn ==
    ASSUME NEW q \in Seq(Event), NEW e \in Event
    PROVE  /\ Append(q, e) \in Seq(Event)
           /\ In(Append(q, e)) = In(q) \cup (IF e.type = "SYSCALL" THEN {e.inst} ELSE {})
           /\ Once(q) /\ (e.type = "SYSCALL" => e.inst \notin In(q)) => Once(Append(q, e))
<1> DEFINE z == Append(q, e)
<1>1. /\ z \in Seq(Event) /\ Len(q) \in Nat /\ DOMAIN q = 1 .. Len(q)
      /\ DOMAIN z = 1 .. (Len(q) + 1) /\ z[Len(q) + 1] = e
      /\ \A k \in 1 .. Len(q) : z[k] = q[k]
  OBVIOUS
<1> HIDE DEF z
<1>2. In(z) = In(q) \cup (IF e.type = "SYSCALL" THEN {e.inst} ELSE {})
  BY <1>1 DEF In
<1>3. ASSUME Once(q), e.type = "SYSCALL" => e.inst \notin In(q) PROVE Once(z)
  <2> SUFFICES ASSUME NEW k \in DOMAIN z, NEW l \in DOMAIN z,
                      z[k].type = "SYSCALL", z[l].type = "SYSCALL", z[k].inst = z[l].inst
               PROVE  k = l
    BY DEF Once
  <2>1. CASE k \in DOMAIN q /\ l \in DOMAIN q
    BY <1>1, <1>3, <2>1 DEF Once
  <2>2. CASE k = Len(q) + 1 \/ l = Len(q) + 1
    BY <1>1, <1>3, <2>2 DEF In
  <2> QED
    BY <1>1, <2>1, <2>2
<1> QED
  BY <1>1, <1>2, <1>3 DEF z

(* And after the first is taken off. *)
LEMMA TailIn ==
    ASSUME NEW q \in Seq(Event), q # <<>>, Once(q)
    PROVE  /\ Tail(q) \in Seq(Event) /\ Head(q) \in Event
           /\ In(q) = In(Tail(q)) \cup (IF Head(q).type = "SYSCALL" THEN {Head(q).inst} ELSE {})
           /\ Once(Tail(q))
           /\ Head(q).type = "SYSCALL" => Head(q).inst \notin In(Tail(q))
<1> DEFINE z == Tail(q)
           e == Head(q)
<1>1. /\ z \in Seq(Event) /\ e \in Event /\ Len(q) \in Nat \ {0} /\ DOMAIN q = 1 .. Len(q)
      /\ DOMAIN z = 1 .. (Len(q) - 1) /\ e = q[1]
      /\ \A k \in 1 .. (Len(q) - 1) : z[k] = q[k + 1]
  OBVIOUS
<1> HIDE DEF z, e
<1>2. \A k \in DOMAIN q : k = 1 \/ (k - 1 \in DOMAIN z /\ q[k] = z[k - 1])
  BY <1>1
<1>3. In(q) = In(z) \cup (IF e.type = "SYSCALL" THEN {e.inst} ELSE {})
  <2>1. In(q) \subseteq In(z) \cup (IF e.type = "SYSCALL" THEN {e.inst} ELSE {})
    BY <1>1, <1>2 DEF In
  <2>2. In(z) \subseteq In(q)
    <3> SUFFICES ASSUME NEW k \in DOMAIN z, z[k].type = "SYSCALL" PROVE z[k].inst \in In(q)
      BY DEF In
    <3>1. k + 1 \in DOMAIN q /\ q[k + 1] = z[k]
      BY <1>1
    <3> QED
      BY <3>1 DEF In
  <2>3. e.type = "SYSCALL" => e.inst \in In(q)
    BY <1>1 DEF In
  <2> QED
    BY <2>1, <2>2, <2>3
<1>4. Once(z)
  <2> SUFFICES ASSUME NEW k \in DOMAIN z, NEW l \in DOMAIN z,
                      z[k].type = "SYSCALL", z[l].type = "SYSCALL", z[k].inst = z[l].inst
               PROVE  k = l
    BY DEF Once
  <2>1. k + 1 \in DOMAIN q /\ l + 1 \in DOMAIN q /\ q[k + 1] = z[k] /\ q[l + 1] = z[l]
    BY <1>1
  <2>2. k + 1 = l + 1
    BY <2>1 DEF Once
  <2> QED
    BY <1>1, <2>2
<1>5. ASSUME e.type = "SYSCALL", e.inst \in In(z) PROVE FALSE
  <2>1. PICK k \in DOMAIN z : z[k].type = "SYSCALL" /\ z[k].inst = e.inst
    BY <1>5 DEF In
  <2>2. k + 1 \in DOMAIN q /\ q[k + 1] = z[k] /\ 1 \in DOMAIN q
    BY <1>1
  <2>3. k + 1 = 1
    BY <1>1, <1>5, <2>1, <2>2 DEF Once
  <2> QED
    BY <1>1, <2>3
<1> QED
  BY <1>1, <1>3, <1>4, <1>5 DEF z, e

-----------------------------------------------------------------------------
(* The traced threads *)

(* A thread moves on; the ring may get its entry event, which it then no   *)
(* longer has ahead of it.                                                 *)
LEMMA ThreadStep ==
    ASSUME Inv, NEW t \in Tids, th' \in [Tids -> {Idle} \cup Busy], ring' \in Seq(Event),
           \A u \in Tids \ {t} : th'[u] = th[u],
           UNCHANGED <<queue, pend, json, handled, calls>>, Once(ring'),
           Ahead(t)' => Ahead(t) /\ th'[t].call = th[t].call,
           \A i \in In(ring') : i \in In(ring) \/ (Ahead(t) /\ ~Ahead(t)' /\ i = th[t].call.inst)
    PROVE  Inv'
<1>1. In(queue') = In(queue) /\ Once(queue') /\ Typed /\ OnePlace /\ Numbered
  BY DEF Inv, OnePlace
<1>2. Typed'
  BY <1>1 DEF Typed
<1>3. HeldOnce' /\ ReportedOnce'
  BY DEF Inv, HeldOnce, ReportedOnce
<1>4. ASSUME NEW u \in Tids, Ahead(u)' PROVE Ahead(u) /\ th'[u].call = th[u].call /\ (u = t => Ahead(t)')
  BY <1>4, SMTT(90) DEF Ahead
<1>5. Numbered'
  BY <1>1, <1>4 DEF Numbered
<1>6. In(ring') \cap In(queue') = {} /\ (In(ring') \cup In(queue')) \cap handled' = {}
  BY <1>1 DEF OnePlace
<1>7. ASSUME NEW u \in Tids, Ahead(u)' PROVE th'[u].call.inst \notin In(ring') \cup In(queue') \cup handled'
  <2>1. /\ Ahead(u) /\ th'[u].call = th[u].call
        /\ th[u].call.inst \notin In(ring) \cup In(queue) \cup handled
    BY <1>1, <1>4, <1>7 DEF OnePlace
  <2>2. ~(Ahead(t) /\ ~Ahead(t)' /\ th[u].call.inst = th[t].call.inst)
    BY <1>1, <1>4, <1>7, <2>1 DEF OnePlace
  <2> QED
    BY <1>1, <2>1, <2>2
<1>8. ASSUME NEW u \in Tids, NEW v \in Tids, Ahead(u)', Ahead(v)', th'[u].call.inst = th'[v].call.inst
      PROVE  u = v
  BY <1>1, <1>4, <1>8 DEF OnePlace
<1>9. OnePlace'
  BY <1>1, <1>6, <1>7, <1>8 DEF OnePlace
<1> QED
  BY <1>2, <1>3, <1>5, <1>9 DEF Inv

(* on_svc_enter gives the call the next number. *)
LEMMA EnterInv ==
    ASSUME Inv, NEW t \in Tids, NEW nr \in Nrs, NEW s \in Stacks \cup {None}, NEW hit,
           on_svc_enter(t, nr, s, hit)
    PROVE  Inv'
<1> DEFINE i == calls + 1
           c == [nr |-> nr, inst |-> i, stack |-> s]
<1>1. /\ UNCHANGED <<ring, queue, pend, json, handled>> /\ calls' = i
      /\ \E a \in {"mark", "emit", "kernel"} : /\ a = "mark" => s # None
                                               /\ th' = [th EXCEPT ![t] = [at |-> a, call |-> c]]
      /\ calls < MaxCalls
  BY Zenon DEF on_svc_enter, kvars, uvars
<1>2. PICK a \in {"mark", "emit", "kernel"} : /\ a = "mark" => s # None
                                              /\ th' = [th EXCEPT ![t] = [at |-> a, call |-> c]]
  BY <1>1, Zenon
<1>3. Typed /\ OnePlace /\ Numbered /\ calls \in Nat /\ i \in Insts /\ c \in Call /\ c.inst = i
      /\ c.stack = s
  BY <1>1, ConstantFacts, SMTT(90) DEF Inv, Typed, Insts, Call
<1> HIDE DEF c
<1>4. /\ th' \in [Tids -> {Idle} \cup Busy] /\ th'[t].call = c
      /\ \A u \in Tids \ {t} : th'[u] = th[u]
  <2>1. [at |-> a, call |-> c] \in Busy /\ [at |-> a, call |-> c].call = c
    BY <1>2, <1>3 DEF Busy
  <2> QED
    BY <1>2, <1>3, <2>1 DEF Typed
<1>5. In(ring') = In(ring) /\ In(queue') = In(queue) /\ Once(ring') /\ Once(queue')
  BY <1>1, <1>3, ZenonT(120) DEF OnePlace
<1>6. i \notin In(ring) \cup In(queue) \cup handled /\ 1 .. calls \subseteq 1 .. i
  BY <1>3, SMTT(90) DEF Numbered
<1>7. \A u \in Tids \ {t} : (Ahead(u)' <=> Ahead(u)) /\ th'[u] = th[u] /\ (Ahead(u) => th[u].call.inst # i)
  <2>1. \A u \in Tids \ {t} : (Ahead(u)' <=> Ahead(u)) /\ th'[u] = th[u]
    BY <1>4, ZenonT(120) DEF Ahead
  <2>2. \A u \in Tids : Ahead(u) => th[u].call.inst \in 1 .. calls
    BY <1>3 DEF Numbered
  <2> QED
    BY <1>3, <2>1, <2>2, SMTT(90)
<1>8. Typed'
  BY <1>1, <1>3, <1>4, ConstantFacts, SMTT(90) DEF Typed
<1>9. HeldOnce' /\ ReportedOnce'
  BY <1>1, SMTT(90) DEF Inv, HeldOnce, ReportedOnce
<1>10. Numbered'
  <2>1. i \in 1 .. i
    BY <1>3, SMTT(90)
  <2> QED
    BY <1>1, <1>3, <1>4, <1>5, <1>6, <1>7, <2>1 DEF Numbered
<1>11. OnePlace'
  <2>1. ASSUME NEW u \in Tids, Ahead(u)' PROVE th'[u].call.inst \notin In(ring) \cup In(queue) \cup handled
    BY <1>3, <1>4, <1>6, <1>7, <2>1, ZenonT(120) DEF OnePlace
  <2>2. ASSUME NEW u \in Tids, NEW v \in Tids, Ahead(u)', Ahead(v)', th'[u].call.inst = th'[v].call.inst
        PROVE  u = v
    BY <1>3, <1>4, <1>7, <2>2, ZenonT(120) DEF OnePlace
  <2> QED
    BY <1>1, <1>3, <1>5, <2>1, <2>2, Zenon DEF OnePlace
<1> QED
  BY <1>8, <1>9, <1>10, <1>11 DEF Inv

(* Emit leaves the ring alone or appends. *)
LEMMA EmitIn ==
    ASSUME ring \in Seq(Event), Once(ring), NEW e \in Event, Emit(e),
           e.type = "SYSCALL" => e.inst \notin In(ring)
    PROVE  /\ ring' \in Seq(Event) /\ Once(ring')
           /\ \A i \in In(ring') : i \in In(ring) \/ (e.type = "SYSCALL" /\ i = e.inst)
<1>1. CASE ring' = ring
  BY <1>1
<1>2. CASE ring' = Append(ring, e)
  BY <1>2, AppendIn
<1> QED
  BY <1>1, <1>2 DEF Emit

(* The steps of a thread inside a system call. *)
LEMMA ThreadInv ==
    ASSUME Inv, NEW t \in Tids,
           \/ MarkStack(t) \/ emit_stack_snapshot(t) \/ EmitEntry(t) \/ EmitCompat(t)
           \/ \E fires : SyscallReturns(t, fires)
    PROVE  Inv'
<1>1. /\ Typed /\ OnePlace /\ UNCHANGED <<queue, pend, json, handled, calls>>
      /\ ring \in Seq(Event) /\ Once(ring) /\ th[t] \in {Idle} \cup Busy
  BY Zenon DEF Inv, Typed, OnePlace, MarkStack, emit_stack_snapshot, EmitEntry, EmitCompat,
        SyscallReturns, uvars
<1>2. ASSUME th[t].at \in {"mark", "snap", "emit", "kernel"}
      PROVE  /\ th[t] \in Busy /\ th[t].call \in Call
             /\ th[t].call.inst \in Insts /\ th[t].call.nr \in Nrs
             /\ th[t].call.stack \in Stacks \cup {None}
             /\ th[t].at # "emit" /\ th[t].at # "kernel" => th[t].call.stack \in Stacks
  <2>1. th[t] # Idle
    BY <1>2 DEF Idle
  <2> QED
    BY <1>1, <2>1, ZenonT(120) DEF Busy, Call
<1>3. ASSUME NEW a \in {"snap", "emit", "kernel"}, th[t].at \in {"mark", "snap", "emit"},
             a = "snap" => th[t].at = "mark", th' = [th EXCEPT ![t].at = a]
      PROVE  /\ th' \in [Tids -> {Idle} \cup Busy] /\ \A u \in Tids \ {t} : th'[u] = th[u]
             /\ th'[t].at = a /\ th'[t].call = th[t].call /\ Ahead(t)
  <2>1. th[t] \in Busy
    BY <1>2, <1>3
  <2>2. [th[t] EXCEPT !.at = a] \in Busy /\ [th[t] EXCEPT !.at = a].at = a
        /\ [th[t] EXCEPT !.at = a].call = th[t].call
    BY <2>1, <1>3 DEF Busy
  <2>3. th' = [th EXCEPT ![t] = [th[t] EXCEPT !.at = a]]
    BY <1>1, <1>3 DEF Typed
  <2> QED
    BY <1>1, <1>3, <2>2, <2>3 DEF Typed, Ahead
<1>4. CASE MarkStack(t)
  <2>1. th[t].at = "mark" /\ th' = [th EXCEPT ![t].at = "snap"] /\ ring' = ring
    BY <1>4 DEF MarkStack
  <2> QED
    BY <1>1, <1>3, <2>1, ThreadStep, SMTT(90)
<1>5. CASE emit_stack_snapshot(t)
  <2> DEFINE e == [type |-> "STACK", stack |-> th[t].call.stack]
  <2>1. th[t].at = "snap" /\ th' = [th EXCEPT ![t].at = "emit"] /\ Emit(e)
    BY <1>5 DEF emit_stack_snapshot
  <2>2. e \in Event /\ e.type # "SYSCALL"
    BY <1>2, <2>1 DEF Event
  <2> HIDE DEF e
  <2>3. ring' \in Seq(Event) /\ Once(ring') /\ \A i \in In(ring') : i \in In(ring)
    BY <1>1, <2>1, <2>2, EmitIn, SMTT(90)
  <2> QED
    BY <1>1, <1>3, <2>1, <2>3, ThreadStep
<1>6. CASE EmitEntry(t) \/ EmitCompat(t)
  <2> DEFINE e == EntryEvent(t)
  <2>1. th[t].at = "emit" /\ th' = [th EXCEPT ![t].at = "kernel"] /\ Emit(e)
    BY <1>6 DEF EmitEntry, EmitCompat
  <2>2. e \in Event /\ e.type = "SYSCALL" /\ e.inst = th[t].call.inst
    BY <1>2, <2>1 DEF EntryEvent, Event
  <2> HIDE DEF e
  <2>3. Ahead(t) /\ th[t].call.inst \notin In(ring)
    BY <1>1, <2>1 DEF Ahead, OnePlace
  <2>4. /\ ring' \in Seq(Event) /\ Once(ring')
        /\ \A i \in In(ring') : i \in In(ring) \/ i = th[t].call.inst
    BY <1>1, <2>1, <2>2, <2>3, EmitIn
  <2>5. ~Ahead(t)' /\ th' \in [Tids -> {Idle} \cup Busy] /\ \A u \in Tids \ {t} : th'[u] = th[u]
    BY <1>3, <2>1, SMTT(90) DEF Ahead
  <2> QED
    BY <1>1, <2>3, <2>4, <2>5, ThreadStep
<1>7. CASE \E fires : SyscallReturns(t, fires)
  <2> DEFINE e == [type |-> "RETURN", tid |-> t, inst |-> th[t].call.inst]
  <2>1. th[t].at = "kernel" /\ th' = [th EXCEPT ![t] = Idle] /\ (ring' = ring \/ Emit(e))
    BY <1>7 DEF SyscallReturns, on_sys_exit
  <2>2. e \in Event /\ e.type # "SYSCALL"
    BY <1>2, <2>1, Zenon DEF Event
  <2> HIDE DEF e
  <2>3. ring' \in Seq(Event) /\ Once(ring') /\ \A i \in In(ring') : i \in In(ring)
    BY <1>1, <2>1, <2>2, EmitIn
  <2>4. ~Ahead(t)' /\ th' \in [Tids -> {Idle} \cup Busy] /\ \A u \in Tids \ {t} : th'[u] = th[u]
    BY <1>1, <2>1 DEF Ahead, Typed, Idle
  <2> QED
    BY <1>1, <2>3, <2>4, ThreadStep, SMTT(90)
<1> QED
  BY <1>4, <1>5, <1>6, <1>7

-----------------------------------------------------------------------------
(* The poll thread and the worker *)

(* enqueue_event moves a record or loses it. *)
LEMMA EnqueueInv == ASSUME Inv, enqueue_event PROVE Inv'
<1> DEFINE e == Head(ring)
           E == IF e.type = "SYSCALL" THEN {e.inst} ELSE {}
<1>1. /\ Typed /\ OnePlace /\ Numbered /\ ring # <<>> /\ ring' = Tail(ring)
      /\ queue' = queue \/ queue' = Append(queue, e)
      /\ UNCHANGED <<th, pend, json, handled, calls>>
  BY ZenonT(120) DEF Inv, enqueue_event
<1>2. /\ ring' \in Seq(Event) /\ e \in Event /\ In(ring) = In(ring') \cup E /\ Once(ring')
      /\ E \cap In(ring') = {}
  BY <1>1, TailIn DEF Typed, OnePlace
<1>3. queue' \in Seq(Event) /\ Once(queue') /\ In(queue') \subseteq In(queue) \cup E
  <2>1. e.type = "SYSCALL" => e.inst \notin In(queue)
    BY <1>1, <1>2 DEF OnePlace
  <2>2. queue \in Seq(Event) /\ Once(queue)
    BY <1>1 DEF Typed, OnePlace
  <2>3. CASE queue' = queue
    BY <2>2, <2>3
  <2>4. CASE queue' = Append(queue, e)
    <3> HIDE DEF e
    <3> QED
      BY <1>2, <2>1, <2>2, <2>4, AppendIn
  <2> QED
    BY <1>1, <2>3, <2>4, ZenonT(120)
<1> HIDE DEF e, E
<1>4. Typed'
  BY <1>1, <1>2, <1>3 DEF Typed
<1>5. \A t \in Tids : (Ahead(t)' <=> Ahead(t)) /\ th'[t] = th[t]
  BY <1>1, ZenonT(120) DEF Ahead
<1>6. OnePlace'
  BY <1>1, <1>2, <1>3, <1>5, SMTT(90) DEF OnePlace
<1>7. Numbered'
  BY <1>1, <1>2, <1>3, <1>5 DEF Numbered
<1> QED
  BY <1>1, <1>4, <1>6, <1>7 DEF Inv, HeldOnce, ReportedOnce

(* Nothing of OnePlace and Numbered changes. *)
LEMMA SamePlaces ==
    ASSUME OnePlace, Numbered, UNCHANGED <<th, ring, queue, handled, calls>>
    PROVE  OnePlace' /\ Numbered'
<1>1. /\ In(ring') = In(ring) /\ In(queue') = In(queue)
      /\ (Once(ring') <=> Once(ring)) /\ (Once(queue') <=> Once(queue))
  OBVIOUS
<1>2. \A t \in Tids : (Ahead(t)' <=> Ahead(t)) /\ th'[t] = th[t]
  BY Zenon DEF Ahead
<1>3. OnePlace'
  BY <1>1, <1>2 DEF OnePlace
<1>4. Numbered'
  BY <1>1, <1>2 DEF Numbered
<1> QED
  BY <1>3, <1>4

(* The worker takes a record off the queue; what it took on is `new'. *)
LEMMA WorkerStep ==
    ASSUME Inv, queue # <<>>, queue' = Tail(queue), UNCHANGED <<th, ring, calls>>,
           \/ handled' = handled
           \/ Head(queue).type = "SYSCALL" /\ handled' = handled \cup {Head(queue).inst}
    PROVE  queue' \in Seq(Event) /\ handled' \subseteq Insts /\ OnePlace' /\ Numbered'
<1> DEFINE e == Head(queue)
           E == IF e.type = "SYSCALL" THEN {e.inst} ELSE {}
<1>1. Typed /\ OnePlace /\ Numbered
  BY ZenonT(120) DEF Inv
<1>2. /\ queue' \in Seq(Event) /\ e \in Event /\ In(queue) = In(queue') \cup E /\ Once(queue')
      /\ E \cap In(queue') = {}
  BY <1>1, TailIn, SMTT(90) DEF Typed, OnePlace
<1>3. handled' \subseteq handled \cup E /\ handled' \subseteq Insts
  BY <1>1, <1>2, EntryFields DEF Typed
<1> HIDE DEF e, E
<1>4. \A t \in Tids : (Ahead(t)' <=> Ahead(t)) /\ th'[t] = th[t]
  BY Zenon DEF Ahead
<1>5. OnePlace'
  BY <1>1, <1>2, <1>3, <1>4, ZenonT(120) DEF OnePlace
<1>6. Numbered'
  BY <1>1, <1>2, <1>3, <1>4 DEF Numbered
<1> QED
  BY <1>2, <1>3, <1>5, <1>6

(* Writing one record. *)
LEMMA EmitOne ==
    ASSUME Typed, NEW i \in Insts, NEW r \in Insts \cup {None}, json' = json_emit(json, i, r)
    PROVE  /\ json' \in [Insts -> Seq(Insts \cup {None})] /\ Len(json'[i]) = Len(json[i]) + 1
           /\ \A j \in Insts \ {i} : json'[j] = json[j]
  BY SMTT(90) DEF Typed, json_emit

(* pend_store: the entry the new one replaces is written, and no other. *)
LEMMA StoreInv ==
    ASSUME Inv, NEW e \in Event, e.type = "SYSCALL", e.inst \notin handled, pend_store(e)
    PROVE  /\ pend' \in [Tids -> Insts \cup {None}] /\ json' \in [Insts -> Seq(Insts \cup {None})]
           /\ HeldOnce' /\ ReportedOnce'
<1> DEFINE i == e.inst
           t == e.tid
           o == pend[t]
<1>1. /\ Typed /\ HeldOnce /\ ReportedOnce /\ i \in Insts /\ t \in Tids /\ i \notin handled
      /\ pend' = [pend EXCEPT ![t] = i] /\ handled' = handled \cup {i}
      /\ json' = IF o # None THEN json_emit(json, o, None) ELSE json
      /\ o \in Insts \cup {None} /\ None \notin Insts
  BY EntryFields, ConstantFacts DEF Inv, pend_store, Typed
<1> HIDE DEF i, t
<1>2. /\ pend' \in [Tids -> Insts \cup {None}] /\ pend'[t] = i
      /\ \A u \in Tids \ {t} : pend'[u] = pend[u]
  BY <1>1, Zenon DEF Typed
<1>3. json[i] = <<>> /\ \A u \in Tids : pend[u] # i
  BY <1>1, Zenon DEF ReportedOnce
<1>4. HeldOnce'
  BY <1>2, <1>3, <1>1, ZenonT(120) DEF HeldOnce
<1>5. /\ json' \in [Insts -> Seq(Insts \cup {None})]
      /\ \A j \in Insts \ {o} : json'[j] = json[j]
      /\ o # None => o \in handled /\ o # i /\ Len(json'[o]) = 1 /\ \A u \in Tids \ {t} : pend[u] # o
  <2>1. CASE o = None
    BY <1>1, <2>1 DEF Typed
  <2>2. CASE o # None
    <3>1. o \in Insts /\ json' = json_emit(json, o, None)
      BY <1>1, <2>2, Zenon
    <3>2. o \in handled /\ Len(json[o]) = 0 /\ o # i
      BY <1>1, <3>1 DEF ReportedOnce
    <3>3. \A u \in Tids \ {t} : pend[u] # o
      BY <1>1, <2>2 DEF HeldOnce
    <3>4. /\ json' \in [Insts -> Seq(Insts \cup {None})] /\ Len(json'[o]) = Len(json[o]) + 1
          /\ \A j \in Insts \ {o} : json'[j] = json[j]
      BY <1>1, <3>1, EmitOne, Zenon
    <3> QED
      BY <3>2, <3>3, <3>4
  <2> QED
    BY <2>1, <2>2, SMTT(90)
<1>6. ASSUME NEW j \in Insts
      PROVE  IF j \in handled' THEN Len(json'[j]) = (IF \E u \in Tids : pend'[u] = j THEN 0 ELSE 1)
                               ELSE json'[j] = <<>> /\ ~\E u \in Tids : pend'[u] = j
  <2>1. CASE j = i
    <3>1. json'[j] = <<>> /\ j \in handled' /\ pend'[t] = j
      BY <1>1, <1>2, <1>3, <1>5, <2>1
    <3>2. Len(json'[j]) = 0
      BY <3>1
    <3> QED
      BY <1>1, <3>1, <3>2
  <2>2. CASE j = o /\ o # None
    BY <1>1, <1>2, <1>5, <2>2, ZenonT(120)
  <2>3. CASE j # i /\ j # o
    <3>1. json'[j] = json[j] /\ (j \in handled' <=> j \in handled)
          /\ ((\E u \in Tids : pend'[u] = j) <=> (\E u \in Tids : pend[u] = j))
      BY <1>1, <1>2, <1>5, <2>3
    <3> QED
      BY <1>1, <3>1 DEF ReportedOnce
  <2> QED
    BY <1>1, <2>1, <2>2, <2>3, ZenonT(120)
<1>7. ReportedOnce'
  BY <1>6, Zenon DEF ReportedOnce
<1> QED
  BY <1>2, <1>4, <1>5, <1>7, ZenonT(120)

(* handle_return: the entry that was held is written, and no other. *)
LEMMA ReturnInv ==
    ASSUME Inv, NEW e \in Event, e.type = "RETURN", pend[e.tid] # None, UNCHANGED handled,
           json' = json_emit(json, pend[e.tid], e.inst), pend' = [pend EXCEPT ![e.tid] = None]
    PROVE  /\ pend' \in [Tids -> Insts \cup {None}] /\ json' \in [Insts -> Seq(Insts \cup {None})]
           /\ HeldOnce' /\ ReportedOnce'
<1> DEFINE r == e.inst
           t == e.tid
           o == pend[t]
<1>1. /\ Typed /\ HeldOnce /\ ReportedOnce /\ r \in Insts /\ t \in Tids
      /\ pend' = [pend EXCEPT ![t] = None] /\ handled' = handled
      /\ json' = json_emit(json, o, r) /\ o \in Insts /\ None \notin Insts
  BY ReturnFields, ConstantFacts, Zenon DEF Inv, Typed
<1> HIDE DEF r, t
<1>2. /\ pend' \in [Tids -> Insts \cup {None}] /\ pend'[t] = None
      /\ \A u \in Tids \ {t} : pend'[u] = pend[u]
  BY <1>1, ZenonT(120) DEF Typed
<1>3. HeldOnce'
  BY <1>1, <1>2, SMTT(90) DEF HeldOnce
<1>4. o \in handled /\ Len(json[o]) = 0 /\ \A u \in Tids \ {t} : pend[u] # o
  BY <1>1, ZenonT(120) DEF ReportedOnce, HeldOnce
<1>5. /\ json' \in [Insts -> Seq(Insts \cup {None})] /\ Len(json'[o]) = 1
      /\ \A j \in Insts \ {o} : json'[j] = json[j]
  <2> HIDE DEF o
  <2>1. /\ json' \in [Insts -> Seq(Insts \cup {None})] /\ Len(json'[o]) = Len(json[o]) + 1
        /\ \A j \in Insts \ {o} : json'[j] = json[j]
    BY <1>1, EmitOne, Zenon
  <2> QED
    BY <1>4, <2>1, SMTT(90)
<1>6. ASSUME NEW j \in Insts
      PROVE  IF j \in handled' THEN Len(json'[j]) = (IF \E u \in Tids : pend'[u] = j THEN 0 ELSE 1)
                               ELSE json'[j] = <<>> /\ ~\E u \in Tids : pend'[u] = j
  <2>1. CASE j = o
    BY <1>1, <1>2, <1>4, <1>5, <2>1, SMTT(90)
  <2>2. CASE j # o
    <3>1. json'[j] = json[j] /\ handled' = handled
          /\ ((\E u \in Tids : pend'[u] = j) <=> (\E u \in Tids : pend[u] = j))
      BY <1>1, <1>2, <1>5, <2>2, SMTT(90)
    <3> QED
      BY <1>1, <3>1, ZenonT(120) DEF ReportedOnce
  <2> QED
    BY <2>1, <2>2
<1>7. ReportedOnce'
  BY <1>6 DEF ReportedOnce
<1> QED
  BY <1>2, <1>3, <1>5, <1>7, Zenon

(* The steps of the worker. *)
LEMMA WorkerInv ==
    ASSUME Inv, (\E b \in BOOLEAN : handle_syscall(b)) \/ handle_return \/ json_emit_stack
    PROVE  Inv'
<1> DEFINE e == Head(queue)
<1>1. /\ Typed /\ OnePlace /\ queue # <<>> /\ queue' = Tail(queue) /\ UNCHANGED <<th, ring, calls>>
      /\ HeldOnce /\ ReportedOnce /\ th' \in [Tids -> {Idle} \cup Busy]
  BY DEF Inv, Typed, handle_syscall, handle_return, json_emit_stack, Popped, kvars
<1>2. e \in Event /\ (e.type = "SYSCALL" => e.inst \in In(queue) /\ e.inst \notin handled)
  BY <1>1, TailIn, Zenon DEF Typed, OnePlace
<1>3. \/ UNCHANGED <<pend, json, handled>>
      \/ e.type = "SYSCALL" /\ pend_store(e)
      \/ /\ e.type = "RETURN" /\ pend[e.tid] # None /\ UNCHANGED handled
         /\ json' = json_emit(json, pend[e.tid], e.inst) /\ pend' = [pend EXCEPT ![e.tid] = None]
  BY Zenon DEF handle_syscall, handle_return, json_emit_stack, Popped
<1>4. \/ handled' = handled
      \/ e.type = "SYSCALL" /\ handled' = handled \cup {e.inst}
  BY <1>3, Zenon DEF pend_store
<1>5. queue' \in Seq(Event) /\ handled' \subseteq Insts /\ OnePlace' /\ Numbered'
  BY <1>1, <1>4, WorkerStep
<1> HIDE DEF e
<1>6. /\ pend' \in [Tids -> Insts \cup {None}] /\ json' \in [Insts -> Seq(Insts \cup {None})]
      /\ HeldOnce' /\ ReportedOnce'
  <2>1. CASE UNCHANGED <<pend, json, handled>>
    BY <1>1, <2>1 DEF Typed, HeldOnce, ReportedOnce
  <2>2. CASE e.type = "SYSCALL" /\ pend_store(e)
    BY <1>2, <2>2, StoreInv
  <2>3. CASE /\ e.type = "RETURN" /\ pend[e.tid] # None /\ UNCHANGED handled
             /\ json' = json_emit(json, pend[e.tid], e.inst) /\ pend' = [pend EXCEPT ![e.tid] = None]
    BY <1>2, <2>3, ReturnInv, Zenon
  <2> QED
    BY <1>3, <2>1, <2>2, <2>3, Zenon
<1> QED
  BY <1>1, <1>5, <1>6, ZenonT(120) DEF Inv, Typed

(* What is still held at the end is written once. *)
LEMMA TeardownInv == ASSUME Inv, syscalls_teardown PROVE Inv'
<1>1. /\ Typed /\ OnePlace /\ Numbered /\ ReportedOnce
      /\ json' = [i \in Insts |-> IF \E t \in Tids : pend[t] = i THEN Append(json[i], None) ELSE json[i]]
      /\ pend' = [t \in Tids |-> None] /\ UNCHANGED <<th, ring, calls, queue, handled>>
      /\ None \notin Insts
  BY ConstantFacts DEF Inv, syscalls_teardown, pend_flush_all, kvars
<1>2. Typed'
  BY <1>1 DEF Typed
<1>3. OnePlace' /\ Numbered'
  BY <1>1, SamePlaces
<1>4. HeldOnce'
  BY <1>1 DEF HeldOnce
<1>5. ASSUME NEW j \in Insts
      PROVE  IF j \in handled' THEN Len(json'[j]) = (IF \E u \in Tids : pend'[u] = j THEN 0 ELSE 1)
                               ELSE json'[j] = <<>> /\ ~\E u \in Tids : pend'[u] = j
  <2>1. ~\E u \in Tids : pend'[u] = j
    BY <1>1
  <2>2. json[j] \in Seq(Insts \cup {None}) /\ Len(Append(json[j], None)) = Len(json[j]) + 1
    BY <1>1, SMTT(90) DEF Typed
  <2>3. CASE \E u \in Tids : pend[u] = j
    <3>1. j \in handled /\ Len(json[j]) = 0 /\ json'[j] = Append(json[j], None)
      BY <1>1, <2>3 DEF ReportedOnce
    <3> QED
      BY <1>1, <2>1, <2>2, <3>1
  <2>4. CASE ~\E u \in Tids : pend[u] = j
    <3>1. json'[j] = json[j] /\ handled' = handled
      BY <1>1, <2>4
    <3> QED
      BY <1>1, <2>1, <2>4, <3>1, Zenon DEF ReportedOnce
  <2> QED
    BY <2>3, <2>4
<1>6. ReportedOnce'
  BY <1>5 DEF ReportedOnce
<1> QED
  BY <1>2, <1>3, <1>4, <1>6 DEF Inv

(* At the start nothing is in flight. *)
LEMMA InitInv == Init => Inv
<1> SUFFICES ASSUME Init PROVE Inv
  OBVIOUS
<1>1. /\ th = [t \in Tids |-> Idle] /\ ring = <<>> /\ queue = <<>> /\ calls = 0 /\ handled = {}
      /\ pend = [t \in Tids |-> None] /\ json = [i \in Insts |-> <<>>]
      /\ MaxCalls \in Nat /\ None \notin Insts
  BY ConstantFacts DEF Init
<1>2. In(ring) = {} /\ In(queue) = {} /\ Once(ring) /\ Once(queue)
  BY <1>1 DEF In, Once
<1>3. \A t \in Tids : ~Ahead(t)
  BY <1>1 DEF Ahead, Idle
<1>4. Typed
  BY <1>1, SMTT(90) DEF Typed
<1>5. OnePlace /\ Numbered
  BY <1>1, <1>2, <1>3 DEF OnePlace, Numbered
<1>6. HeldOnce /\ ReportedOnce
  BY <1>1 DEF HeldOnce, ReportedOnce
<1> QED
  BY <1>4, <1>5, <1>6 DEF Inv

(* Every step keeps the invariant. *)
LEMMA NextInv == Inv /\ [Next]_vars => Inv'
<1> SUFFICES ASSUME Inv, [Next]_vars PROVE Inv'
  OBVIOUS
<1>1. ASSUME UNCHANGED <<th, ring, queue, pend, json, handled, calls>> PROVE Inv'
  <2>1. OnePlace' /\ Numbered'
    BY <1>1, SamePlaces DEF Inv
  <2>2. Typed'
    BY <1>1, Zenon DEF Inv, Typed
  <2>3. HeldOnce' /\ ReportedOnce'
    BY <1>1, Zenon DEF Inv, HeldOnce, ReportedOnce
  <2> QED
    BY <2>1, <2>2, <2>3 DEF Inv
<1>2. CASE (\E s \in Stacks : Evict(s)) \/ Stop \/ PollEnds \/ UNCHANGED vars
  BY <1>1, <1>2 DEF Evict, Stop, PollEnds, vars, kvars, uvars
<1>3. ASSUME NEW t \in Tids, Kernel(t) PROVE Inv'
  BY <1>3, EnterInv, ThreadInv, Zenon DEF Kernel
<1> QED
  BY <1>2, <1>3, EnqueueInv, WorkerInv, TeardownInv DEF Next

(* However the entry probes of several threads, the two queues, lost and   *)
(* late returns, a failed allocation and the teardown interleave, an entry *)
(* the worker took on is held for its return or written, and written once. *)
THEOREM EntriesReportedOnce == Spec => []ReportedOnce
<1>1. Inv => ReportedOnce
  BY DEF Inv
<1> QED
  BY <1>1, InitInv, NextInv, PTL DEF Spec

-----------------------------------------------------------------------------
(* Pairing by thread *)

(* poll loop has ended.                                                    *)
Stream == IF td = "poll" THEN queue \o ring ELSE queue

(* The mark that lets a return reach the worker. *)
Marked(t) == IF td = "poll" THEN pending[t] ELSE None

Due(t) == td # "poll" \/ pending[t] # None

Lossless ==
    /\ queue_drops = 0
    /\ \/ KeptAreProbed /\ (scoped_out => ring_drops = 0 /\ MarksFit)
       \/ KeepsAll /\ ~scoped_out /\ ring_drops = 0

Unfailing == KeptAreProbed /\ MarksFit /\ queue_drops = 0 /\ ring_drops = 0

(* What the marks say about the call a thread is in: where every kept call *)
(* has its return probe, a mark is that of the current call; where every   *)
(* call is kept, it is so at the return.                                   *)
MarkOf(t) ==
    /\ t \in CompatTids => pending[t] = None
    /\ Ahead(t) /\ t \notin CompatTids => th[t].call.nr \in Wanted
    /\ KeptAreProbed /\ pending[t] # None =>
          th[t].at = "kernel" /\ th[t].call.inst = pending[t] /\ th[t].call.nr \in RetProbed
    /\ KeepsAll /\ ring_drops = 0 /\ th[t].at = "kernel" => pending[t] \in {None, th[t].call.inst}

NoCompat(s) == \A k \in DOMAIN s : s[k].type = "RETURN" => s[k].tid \notin CompatTids

Counted == ring_drops \in Nat /\ queue_drops \in Nat /\ bailed \in Nat

PairTyped ==
    /\ Inv /\ Counted /\ pending \in [Tids -> Insts \cup {None}] /\ scoped_out \in BOOLEAN
    /\ NoCompat(queue) /\ NoCompat(ring) /\ \A t \in Tids : MarkOf(t)

StreamInv ==
    /\ Lossless => \A t \in Tids : Paired(Stream, t, pend[t], Marked(t))
    /\ Unfailing => \A t \in Tids \ CompatTids : Answered(Stream, t, pend[t], Due(t))

PairInv == PairTyped /\ StreamInv /\ PairingExact

(* A mark that is gone asks for less. *)
LEMMA Unmarked == ASSUME NEW s, NEW t, NEW p, NEW m, Paired(s, t, p, m) PROVE Paired(s, t, p, None)
  BY Zenon DEF Paired

(* The stream is a sequence of events, and what is emitted goes to its end *)
(* while the poll loop runs.                                               *)
LEMMA StreamEmit ==
    ASSUME Inv, NEW e \in Event, ring' = Append(ring, e), UNCHANGED <<queue, td>>
    PROVE  /\ Stream \in Seq(Event)
           /\ Stream' = IF td = "poll" THEN Append(Stream, e) ELSE Stream
<1>1. queue \in Seq(Event) /\ ring \in Seq(Event)
  BY DEF Inv, Typed
<1>2. queue \o ring \in Seq(Event)
  BY <1>1
<1>3. queue \o Append(ring, e) = Append(queue \o ring, e)
  BY <1>1
<1> QED
  BY <1>1, <1>2, <1>3 DEF Stream

(* The counters only grow and a scope once applied stays so. *)
LEMMA LossesStay ==
    ASSUME Counted, ring_drops' = ring_drops \/ ring_drops' = ring_drops + 1,
           queue_drops' = queue_drops \/ queue_drops' = queue_drops + 1, scoped_out => scoped_out'
    PROVE  /\ Lossless' => Lossless /\ queue_drops' = queue_drops
           /\ Unfailing' => Unfailing /\ ring_drops' = ring_drops
<1>1. (queue_drops' = 0 => queue_drops = 0) /\ (ring_drops' = 0 => ring_drops = 0)
  BY SMTT(90) DEF Counted
<1> QED
  BY <1>1 DEF Lossless, Unfailing, KeptAreProbed, KeepsAll, MarksFit

(* Nothing of the stream changes. *)
LEMMA StreamSame ==
    ASSUME StreamInv, Lossless' => Lossless, Unfailing' => Unfailing,
           UNCHANGED <<queue, ring, td, pend, pending>>
    PROVE  StreamInv'
<1>1. Stream' = Stream /\ \A t \in Tids : (Marked(t)' = Marked(t)) /\ (Due(t)' = Due(t)) /\ pend'[t] = pend[t]
  BY DEF Stream, Marked, Due
<1> QED
  BY <1>1, Zenon DEF StreamInv

(* One more record, which is thread t's if any's: what has to be shown for *)
(* the others.                                                             *)
LEMMA EmitStep ==
    ASSUME PairTyped, StreamInv, Lossless' => Lossless, Unfailing' => Unfailing,
           NEW e \in Event, ring' = Append(ring, e), UNCHANGED <<queue, td, pend>>, NEW t \in Tids,
           \A u \in Tids \ {t} : ~Own(e, u) /\ pending'[u] = pending[u],
           td = "poll" /\ Lossless' /\ Paired(Stream, t, pend[t], pending[t])
               => Paired(Append(Stream, e), t, pend[t], pending'[t]),
           td = "poll" /\ Unfailing' /\ t \notin CompatTids /\ Answered(Stream, t, pend[t], pending[t] # None)
               => Answered(Append(Stream, e), t, pend[t], pending'[t] # None)
    PROVE  StreamInv'
<1>1. /\ Stream \in Seq(Event) /\ td' = td /\ pend' = pend
      /\ Stream' = IF td = "poll" THEN Append(Stream, e) ELSE Stream
  BY StreamEmit DEF PairTyped
<1>2. CASE td # "poll"
  <2>1. Stream' = Stream /\ \A u \in Tids : (Marked(u)' = Marked(u)) /\ (Due(u)' = Due(u)) /\ pend'[u] = pend[u]
    BY <1>1, <1>2, Zenon DEF Marked, Due
  <2> QED
    BY <2>1, Zenon DEF StreamInv
<1>3. CASE td = "poll"
  <2>1. /\ Stream' = Append(Stream, e)
        /\ \A u \in Tids : (Marked(u)' = pending'[u]) /\ (Due(u)' <=> pending'[u] # None) /\ pend'[u] = pend[u]
        /\ \A u \in Tids : (Marked(u) = pending[u]) /\ (Due(u) <=> pending[u] # None)
    BY <1>1, <1>3, ZenonT(120) DEF Marked, Due
  <2>2. ASSUME Lossless', NEW u \in Tids PROVE Paired(Append(Stream, e), u, pend[u], pending'[u])
    <3>1. Paired(Stream, u, pend[u], pending[u])
      BY <2>1, <2>2, Zenon DEF StreamInv
    <3>2. CASE u = t
      BY <1>3, <2>2, <3>1, <3>2, Zenon
    <3>3. CASE u # t
      <4>1. ~Own(e, u) /\ pending'[u] = pending[u]
        BY <3>3, ZenonT(120)
      <4> QED
        BY <1>1, <3>1, <4>1, OtherAppended, ZenonT(120)
    <3> QED
      BY <3>2, <3>3, Zenon
  <2>3. ASSUME Unfailing', NEW u \in Tids \ CompatTids
        PROVE  Answered(Append(Stream, e), u, pend[u], pending'[u] # None)
    <3>1. Answered(Stream, u, pend[u], pending[u] # None)
      <4>1. Answered(Stream, u, pend[u], Due(u)) /\ (Due(u) = (pending[u] # None))
        BY <2>1, <2>3, Zenon DEF StreamInv, Due
      <4> QED
        BY <4>1, Zenon
    <3>2. CASE u = t
      BY <1>3, <2>3, <3>1, <3>2, Zenon
    <3>3. CASE u # t
      <4>1. ~Own(e, u) /\ pending'[u] = pending[u]
        BY <3>3, ZenonT(120)
      <4> QED
        BY <1>1, <3>1, <4>1, OtherAppended, Zenon
    <3> QED
      BY <3>2, <3>3, Zenon
  <2>4. \A u \in Tids : Due(u)' = (pending'[u] # None)
    BY <1>1, <1>3, Zenon DEF Due
  <2> QED
    BY <2>1, <2>2, <2>3, <2>4, Zenon DEF StreamInv
<1> QED
  BY <1>2, <1>3, ZenonT(120)

(* A mark has room in `pending' when the map is as large as the threads    *)
(* are many.                                                               *)
LEMMA MarkFits ==
    ASSUME pending \in [Tids -> Insts \cup {None}], NEW t \in Tids, NEW i \in Insts
    PROVE  /\ Mark(t, i) \in [Tids -> Insts \cup {None}]
           /\ Mark(t, i)[t] \in {None, i}
           /\ \A u \in Tids \ {t} : Mark(t, i)[u] = pending[u]
           /\ MarksFit => Mark(t, i)[t] = i
<1>1. ASSUME MarksFit, pending[t] = None
      PROVE  Cardinality({u \in Tids : pending[u] # None}) < PendingCap
  <2>1. {u \in Tids : pending[u] # None} \in SUBSET (Tids \ {t})
    BY <1>1, Zenon
  <2> QED
    BY <1>1, <2>1 DEF MarksFit
<1> QED
  BY <1>1 DEF Mark

(* The threads of a step that one thread takes, and the marks. *)
LEMMA OthersMarked ==
    ASSUME NEW t \in Tids, \A u \in Tids : MarkOf(u), ring_drops' = 0 => ring_drops = 0,
           \A u \in Tids \ {t} : th'[u] = th[u] /\ pending'[u] = pending[u],
           MarkOf(t)'
    PROVE  \A u \in Tids : MarkOf(u)'
<1> SUFFICES ASSUME NEW u \in Tids \ {t} PROVE MarkOf(u)'
  BY Zenon
<1> QED
  BY ZenonT(120) DEF MarkOf, Ahead, KeptAreProbed, KeepsAll

(* on_svc_enter: the thread had no mark, if every kept call is probed. *)
LEMMA EnterPair ==
    ASSUME PairTyped, NEW t \in Tids, NEW nr \in Nrs, NEW s \in Stacks \cup {None}, NEW hit,
           on_svc_enter(t, nr, s, hit)
    PROVE  \A u \in Tids : MarkOf(u)'
<1> DEFINE c == [nr |-> nr, inst |-> calls + 1, stack |-> s]
<1>1. /\ th[t] = Idle /\ UNCHANGED <<pending, ring_drops>>
      /\ \E a \in {"mark", "emit", "kernel"} :
            /\ a = "kernel" <=> ~Kept(t, nr, hit)
            /\ th' = [th EXCEPT ![t] = [at |-> a, call |-> c]]
  BY Zenon DEF on_svc_enter, kvars
<1>2. th \in [Tids -> {Idle} \cup Busy] /\ \A u \in Tids : MarkOf(u)
  BY Zenon DEF PairTyped, Inv, Typed
<1>3. /\ \A u \in Tids \ {t} : th'[u] = th[u]
      /\ th'[t].call.nr = nr /\ (th'[t].at = "kernel" <=> ~Kept(t, nr, hit))
  BY <1>1, <1>2, SMTT(90)
<1>4. th[t].at # "kernel" /\ MarkOf(t)
  BY <1>1, <1>2, SMTT(90) DEF Idle
<1>5. (KeptAreProbed => pending[t] = None) /\ (t \in CompatTids => pending[t] = None)
  BY <1>4, Zenon DEF MarkOf
<1>6. /\ Ahead(t)' /\ t \notin CompatTids => nr \in Wanted
      /\ KeepsAll => th'[t].at # "kernel"
  BY <1>3 DEF Kept, KeepsAll, Ahead
<1>7. MarkOf(t)'
  BY <1>1, <1>3, <1>5, <1>6, Zenon DEF MarkOf, KeptAreProbed, KeepsAll
<1> QED
  BY <1>1, <1>2, <1>3, <1>7, OthersMarked

(* What all steps of a thread leave alone. *)
LEMMA KernelLeaves ==
    ASSUME PairTyped, NEW t \in Tids, Kernel(t)
    PROVE  /\ UNCHANGED <<queue, queue_drops, pend, td, json, scoped_out>>
           /\ ring_drops' = ring_drops \/ ring_drops' = ring_drops + 1
           /\ Lossless' => Lossless
           /\ Unfailing' => Unfailing /\ ring_drops' = ring_drops
           /\ ring_drops' = 0 => ring_drops = 0
           /\ PairingExact => PairingExact'
           /\ Inv'
<1>1. UNCHANGED <<queue, queue_drops, pend, td, json, scoped_out>>
  BY Zenon DEF Kernel, on_svc_enter, MarkStack, emit_stack_snapshot, EmitEntry, EmitCompat,
        SyscallReturns, uvars
<1>2. ring_drops' = ring_drops \/ ring_drops' = ring_drops + 1
  BY Zenon DEF Kernel, on_svc_enter, MarkStack, emit_stack_snapshot, EmitEntry, EmitCompat,
        SyscallReturns, on_sys_exit, Emit, kvars
<1>3. (Lossless' => Lossless) /\ (Unfailing' => Unfailing /\ ring_drops' = ring_drops)
  BY <1>1, <1>2, LossesStay DEF PairTyped
<1>4. Inv'
  BY NextInv DEF Next, PairTyped
<1>5. ReturnsPaired' <=> ReturnsPaired
  BY <1>1 DEF ReturnsPaired
<1>6. (PairingExact <=> (Lossless => ReturnsPaired)) /\ (PairingExact' <=> (Lossless' => ReturnsPaired'))
  BY DEF PairingExact, Lossless
<1>7. ring_drops' = 0 => ring_drops = 0
  BY <1>2 DEF PairTyped, Counted
<1> QED
  BY <1>1, <1>2, <1>3, <1>4, <1>5, <1>6, <1>7

(* One more record keeps 32-bit threads without returns. *)
LEMMA AppendNoCompat ==
    ASSUME NEW s \in Seq(Event), NEW e \in Event, NoCompat(s),
           e.type = "RETURN" => e.tid \notin CompatTids
    PROVE  NoCompat(Append(s, e))
<1> DEFINE z == Append(s, e)
<1>1. /\ Len(s) \in Nat /\ DOMAIN s = 1 .. Len(s)
      /\ DOMAIN z = 1 .. (Len(s) + 1) /\ z[Len(s) + 1] = e
      /\ \A k \in 1 .. Len(s) : z[k] = s[k]
  BY SMTT(90)
<1> HIDE DEF z
<1>2. NoCompat(z)
  BY <1>1 DEF NoCompat
<1> QED
  BY <1>2 DEF z

(* And one less. *)
LEMMA TailNoCompat ==
    ASSUME NEW s \in Seq(Event), s # <<>>, NoCompat(s)
    PROVE  /\ NoCompat(Tail(s))
           /\ Head(s).type = "RETURN" => Head(s).tid \notin CompatTids
<1>1. /\ \A k \in DOMAIN Tail(s) : k + 1 \in DOMAIN s /\ Tail(s)[k] = s[k + 1]
      /\ 1 \in DOMAIN s /\ s[1] = Head(s)
  OBVIOUS
<1> QED
  BY <1>1 DEF NoCompat

(* The call of a thread that is in the kernel, and its next place there. *)
LEMMA ThreadMoves ==
    ASSUME Typed, NEW t \in Tids, th[t].at \in {"mark", "snap", "emit", "kernel"}
    PROVE  /\ th[t].call \in Call /\ th[t].call.inst \in Insts
           /\ th[t].at = "snap" => th[t].call.stack \in Stacks
           /\ \A a : th' = [th EXCEPT ![t].at = a] =>
                 /\ \A u \in Tids \ {t} : th'[u] = th[u]
                 /\ th'[t].at = a /\ th'[t].call = th[t].call
           /\ th' = [th EXCEPT ![t] = Idle] =>
                 (\A u \in Tids \ {t} : th'[u] = th[u]) /\ th'[t].at = "user"
<1>1. th[t] # Idle /\ th \in [Tids -> {Idle} \cup Busy]
  BY DEF Idle, Typed
<1>2. th[t] \in Busy
  BY <1>1
<1>3. th[t].call \in Call /\ (th[t].at = "snap" => th[t].call.stack \in Stacks)
  BY <1>2 DEF Busy
<1>4. th[t].call.inst \in Insts
  BY <1>3 DEF Call
<1>5. ASSUME NEW a, th' = [th EXCEPT ![t].at = a]
      PROVE  (\A u \in Tids \ {t} : th'[u] = th[u]) /\ th'[t].at = a /\ th'[t].call = th[t].call
  <2>1. [th[t] EXCEPT !.at = a].at = a /\ [th[t] EXCEPT !.at = a].call = th[t].call
    BY <1>2 DEF Busy
  <2>2. th' = [th EXCEPT ![t] = [th[t] EXCEPT !.at = a]]
    BY <1>1, <1>5
  <2> QED
    BY <1>1, <2>1, <2>2
<1>6. ASSUME th' = [th EXCEPT ![t] = Idle]
      PROVE  (\A u \in Tids \ {t} : th'[u] = th[u]) /\ th'[t].at = "user"
  BY <1>1, <1>6 DEF Idle
<1> QED
  BY <1>3, <1>4, <1>5, <1>6

(* MarkStack and emit_stack_snapshot. *)
LEMMA SnapPair ==
    ASSUME PairInv, NEW t \in Tids, Kernel(t), MarkStack(t) \/ emit_stack_snapshot(t)
    PROVE  PairInv'
<1> DEFINE e == [type |-> "STACK", stack |-> th[t].call.stack]
<1>1. /\ UNCHANGED <<queue, queue_drops, pend, td, json, scoped_out>>
      /\ Lossless' => Lossless
      /\ Unfailing' => Unfailing
      /\ ring_drops' = 0 => ring_drops = 0
      /\ PairingExact' /\ Inv' /\ PairTyped /\ StreamInv /\ Typed
      /\ ring_drops' = ring_drops \/ ring_drops' = ring_drops + 1
  BY KernelLeaves DEF PairInv, PairTyped, Inv
<1>2. /\ \/ th[t].at = "mark" /\ th' = [th EXCEPT ![t].at = "snap"] /\ ring' = ring
         \/ th[t].at = "snap" /\ th' = [th EXCEPT ![t].at = "emit"] /\ Emit(e)
      /\ pending' = pending
      /\ bailed' = bailed
  BY DEF MarkStack, emit_stack_snapshot, uvars
<1>3. /\ th[t].at \in {"mark", "snap"} /\ th'[t].at \in {"snap", "emit"}
      /\ \A u \in Tids \ {t} : th'[u] = th[u]
      /\ th'[t].call = th[t].call /\ (th[t].at = "snap" => e \in Event /\ e.type = "STACK")
  BY <1>1, <1>2, ThreadMoves, SMTT(90) DEF Event
<1> HIDE DEF e
<1>4. MarkOf(t)
  BY <1>1 DEF PairTyped
<1>5. MarkOf(t)'
  BY <1>1, <1>2, <1>3, <1>4 DEF MarkOf, Ahead, KeptAreProbed, KeepsAll
<1>6. \A u \in Tids : MarkOf(u)'
  BY <1>1, <1>2, <1>3, <1>5, OthersMarked DEF PairTyped
<1>7. ring' = ring \/ (e \in Event /\ e.type = "STACK" /\ ring' = Append(ring, e))
  BY <1>2, <1>3 DEF Emit
<1>8. NoCompat(ring') /\ NoCompat(queue')
  BY <1>1, <1>7, AppendNoCompat, Zenon DEF PairTyped, Typed
<1>9. StreamInv'
  <2>1. CASE ring' = ring
    BY <1>1, <1>2, <2>1, StreamSame
  <2>2. CASE e \in Event /\ e.type = "STACK" /\ ring' = Append(ring, e)
    <3>1. \A u \in Tids : ~Own(e, u) /\ pending'[u] = pending[u]
      BY <1>2, <2>2 DEF Own
    <3>2. Stream \in Seq(Event)
      BY <1>1, <2>2, StreamEmit DEF PairTyped
    <3>3. /\ Paired(Stream, t, pend[t], pending[t]) => Paired(Append(Stream, e), t, pend[t], pending'[t])
          /\ Answered(Stream, t, pend[t], pending[t] # None)
                => Answered(Append(Stream, e), t, pend[t], pending'[t] # None)
      BY <2>2, <3>1, <3>2, OtherAppended, Zenon
    <3> QED
      BY <1>1, <2>2, <3>1, <3>3, EmitStep, Zenon
  <2> QED
    BY <1>7, <2>1, <2>2
<1> QED
  BY <1>1, <1>2, <1>6, <1>8, <1>9, SMTT(90) DEF PairInv, PairTyped, Counted

(* The entry event: with its mark, without (the map is full, the call is   *)
(* 32-bit), or dropped.                                                    *)
LEMMA EntryPair ==
    ASSUME PairInv, NEW t \in Tids, Kernel(t), EmitEntry(t) \/ EmitCompat(t)
    PROVE  PairInv'
<1> DEFINE e == EntryEvent(t)
           i == th[t].call.inst
<1>1. /\ UNCHANGED <<queue, queue_drops, pend, td, json, scoped_out>>
      /\ Lossless' => Lossless
      /\ Unfailing' => Unfailing /\ ring_drops' = ring_drops
      /\ ring_drops' = 0 => ring_drops = 0
      /\ PairingExact' /\ Inv' /\ PairTyped /\ StreamInv /\ Typed
      /\ ring_drops' = ring_drops \/ ring_drops' = ring_drops + 1
      /\ ring_drops \in Nat /\ pending \in [Tids -> Insts \cup {None}] /\ None \notin Insts
  BY KernelLeaves, ConstantFacts DEF PairInv, PairTyped, Inv, Counted
<1>2. /\ th[t].at = "emit" /\ th' = [th EXCEPT ![t].at = "kernel"] /\ bailed' = bailed
      /\ \/ ring' = ring /\ ring_drops' = ring_drops + 1 /\ pending' = pending
         \/ ring' = Append(ring, e) /\ pending' = Mark(t, i) /\ t \notin CompatTids
         \/ ring' = Append(ring, e) /\ pending' = pending /\ t \in CompatTids
  BY DEF EmitEntry, EmitCompat, Emit, uvars
<1>3. /\ th'[t].at = "kernel" /\ \A u \in Tids \ {t} : th'[u] = th[u]
      /\ th'[t].call = th[t].call /\ th[t].call \in Call /\ i \in Insts
  BY <1>1, <1>2, ThreadMoves, Zenon
<1>4. e \in Event /\ e.type = "SYSCALL" /\ e.inst = i /\ e.tid = t
  BY <1>3, Zenon DEF EntryEvent, Event, Call
<1> HIDE DEF e, i
<1>5. /\ Mark(t, i) \in [Tids -> Insts \cup {None}]
      /\ Mark(t, i)[t] \in {None, i}
      /\ \A u \in Tids \ {t} : Mark(t, i)[u] = pending[u]
      /\ MarksFit => Mark(t, i)[t] = i
  BY <1>1, <1>3, MarkFits, Zenon
<1>6. /\ MarkOf(t) /\ Ahead(t) /\ ~Ahead(t)' /\ th[t].at # "kernel" /\ th'[t].call.inst = i
  BY <1>1, <1>2, <1>3 DEF PairTyped, Ahead, i
<1>7. /\ pending' \in [Tids -> Insts \cup {None}] /\ \A u \in Tids \ {t} : pending'[u] = pending[u]
      /\ pending'[t] = pending[t] \/ (t \notin CompatTids /\ pending'[t] \in {None, i})
  BY <1>1, <1>2, <1>5
<1>8. /\ t \in CompatTids => pending[t] = None
      /\ KeptAreProbed => pending[t] = None
      /\ KeptAreProbed /\ t \notin CompatTids => th[t].call.nr \in RetProbed
  BY <1>6, Zenon DEF MarkOf, KeptAreProbed
<1>9. ring_drops' = 0 => pending'[t] \in {None, i}
  BY <1>1, <1>2, <1>5, <1>8
<1>10. MarkOf(t)'
  BY <1>1, <1>3, <1>6, <1>7, <1>8, <1>9, Zenon DEF MarkOf, KeptAreProbed, KeepsAll
<1>11. \A u \in Tids : MarkOf(u)'
  BY <1>1, <1>3, <1>7, <1>10, OthersMarked, Zenon DEF PairTyped
<1>12. NoCompat(ring') /\ NoCompat(queue')
  BY <1>1, <1>2, <1>4, AppendNoCompat, ZenonT(120) DEF PairTyped, Typed
<1>13. StreamInv'
  <2>1. CASE ring' = ring /\ pending' = pending
    BY <1>1, <2>1, StreamSame
  <2>2. CASE ring' = Append(ring, e) /\ (pending' = Mark(t, i) \/ (pending' = pending /\ t \in CompatTids))
    <3>1. Own(e, t) /\ \A u \in Tids \ {t} : ~Own(e, u) /\ pending'[u] = pending[u]
      BY <1>4, <1>7, Zenon DEF Own
    <3>2. Stream \in Seq(Event)
      BY <1>1, <1>4, <2>2, StreamEmit, Zenon DEF PairTyped
    <3>3. pending'[t] \in {None, i}
      BY <1>5, <1>8, <2>2
    <3>4. Paired(Stream, t, pend[t], pending[t]) => Paired(Append(Stream, e), t, pend[t], pending'[t])
      BY <1>4, <3>1, <3>2, <3>3, EntryAppended, Zenon
    <3>5. ASSUME Unfailing', t \notin CompatTids, Answered(Stream, t, pend[t], pending[t] # None)
          PROVE  Answered(Append(Stream, e), t, pend[t], pending'[t] # None)
      <4>1. MarksFit /\ KeptAreProbed
        BY <1>1, <3>5 DEF Unfailing
      <4>2. pending[t] = None /\ pending'[t] # None
        BY <1>1, <1>3, <1>5, <1>8, <2>2, <3>5, <4>1, Zenon
      <4>3. (pending[t] # None) = FALSE /\ (pending'[t] # None) = TRUE
        BY <4>2
      <4>4. Answered(Stream, t, pend[t], FALSE)
        BY <3>5, <4>3, Zenon
      <4>5. Answered(Append(Stream, e), t, pend[t], TRUE)
        BY <1>4, <3>1, <3>2, <4>4, EntryAppended, ZenonT(120)
      <4> QED
        BY <4>3, <4>5, Zenon
    <3> QED
      BY <1>1, <1>4, <2>2, <3>1, <3>4, <3>5, EmitStep, ZenonT(120)
  <2> QED
    BY <1>2, <2>1, <2>2
<1> QED
  BY <1>1, <1>2, <1>7, <1>11, <1>12, <1>13, SMTT(90) DEF PairInv, PairTyped, Counted

(* The return: the probe takes the mark and emits the return of the call   *)
(* that is marked; otherwise nothing is emitted and no mark is left that   *)
(* could be taken by another call.                                         *)
LEMMA ReturnPair ==
    ASSUME PairInv, NEW t \in Tids, Kernel(t),
           NEW fires \in {TRUE} \cup (IF ProbeMayMiss THEN {FALSE} ELSE {}), SyscallReturns(t, fires)
    PROVE  PairInv'
<1> DEFINE i == th[t].call.inst
           e == [type |-> "RETURN", tid |-> t, inst |-> i]
           probed == fires /\ t \notin CompatTids /\ th[t].call.nr \in RetProbed
<1>1. /\ UNCHANGED <<queue, queue_drops, pend, td, json, scoped_out>>
      /\ Lossless' => Lossless
      /\ Unfailing' => Unfailing /\ ring_drops' = ring_drops
      /\ ring_drops' = 0 => ring_drops = 0
      /\ PairingExact' /\ Inv' /\ PairTyped /\ StreamInv /\ Typed
      /\ ring_drops' = ring_drops \/ ring_drops' = ring_drops + 1
      /\ ring_drops \in Nat /\ pending \in [Tids -> Insts \cup {None}] /\ None \notin Insts
  BY KernelLeaves, ConstantFacts, ZenonT(120) DEF PairInv, PairTyped, Inv, Counted
<1>2. /\ th[t].at = "kernel" /\ th' = [th EXCEPT ![t] = Idle] /\ bailed' = bailed
      /\ \/ /\ pending[t] # None /\ probed /\ pending' = [pending EXCEPT ![t] = None]
            /\ \/ ring' = ring /\ ring_drops' = ring_drops + 1
               \/ ring' = Append(ring, e)
         \/ (probed => pending[t] = None) /\ pending' = pending /\ ring' = ring
  BY DEF SyscallReturns, on_sys_exit, Emit, uvars
<1>3. /\ th'[t].at = "user" /\ \A u \in Tids \ {t} : th'[u] = th[u]
      /\ i \in Insts
  BY <1>1, <1>2, ThreadMoves, Zenon
<1>4. e \in Event /\ e.type = "RETURN" /\ e.inst = i /\ e.tid = t
  BY <1>3, Zenon DEF Event
<1>5. MarkOf(t) /\ ~Ahead(t)'
  BY <1>1, <1>3, Zenon DEF PairTyped, Ahead
<1>6. KeptAreProbed => fires
  BY Zenon DEF KeptAreProbed
<1>7. /\ pending' \in [Tids -> Insts \cup {None}] /\ \A u \in Tids \ {t} : pending'[u] = pending[u]
      /\ pending'[t] = None \/ (pending'[t] = pending[t] /\ ~probed)
  BY <1>1, <1>2, Zenon
<1>8. KeptAreProbed => pending'[t] = None
  BY <1>5, <1>6, <1>7, Zenon DEF MarkOf
<1>9. t \in CompatTids => pending'[t] = None
  BY <1>5, <1>7, Zenon DEF MarkOf
<1> HIDE DEF e, i
<1>10. MarkOf(t)'
  BY <1>3, <1>5, <1>8, <1>9, Zenon DEF MarkOf, KeptAreProbed, KeepsAll
<1>11. \A u \in Tids : MarkOf(u)'
  BY <1>1, <1>3, <1>7, <1>10, OthersMarked, Zenon DEF PairTyped
<1>12. NoCompat(ring') /\ NoCompat(queue')
  <2>1. ring' = ring \/ (ring' = Append(ring, e) /\ t \notin CompatTids)
    BY <1>2, Zenon
  <2>2. NoCompat(ring) /\ NoCompat(queue) /\ ring \in Seq(Event)
    BY <1>1 DEF PairTyped, Typed
  <2> QED
    BY <1>1, <1>4, <2>1, <2>2, AppendNoCompat, Zenon
<1>13. ASSUME Lossless', pending[t] # None PROVE pending[t] = i
  <2>1. KeptAreProbed \/ (KeepsAll /\ ring_drops = 0)
    BY <1>1, <1>13, Zenon DEF Lossless
  <2> QED
    BY <1>2, <1>5, <1>13, <2>1, Zenon DEF MarkOf, i
<1>14. StreamInv'
  <2>1. CASE ring' = ring /\ pending' = pending
    BY <1>1, <2>1, StreamSame, Zenon
  <2>2. CASE ring' = ring /\ ring_drops' = ring_drops + 1 /\ pending' = [pending EXCEPT ![t] = None]
    <3>1. ~Unfailing' /\ Stream' = Stream
      BY <1>1, <2>2, SMTT(90) DEF Stream
    <3>2. ASSUME Lossless', NEW u \in Tids PROVE Paired(Stream, u, pend[u], Marked(u)')
      <4>1. Paired(Stream, u, pend[u], Marked(u))
        BY <1>1, <3>2, SMTT(90) DEF StreamInv
      <4>2. Marked(u)' \in {None, Marked(u)}
        BY <1>1, <2>2 DEF Marked
      <4> QED
        BY <4>1, <4>2, Unmarked, ZenonT(120)
    <3> QED
      BY <1>1, <3>1, <3>2, Zenon DEF StreamInv
  <2>3. CASE ring' = Append(ring, e) /\ pending[t] # None /\ pending' = [pending EXCEPT ![t] = None]
    <3>1. Own(e, t) /\ \A u \in Tids \ {t} : ~Own(e, u) /\ pending'[u] = pending[u]
      BY <1>4, <1>7, ZenonT(120) DEF Own
    <3>2. Stream \in Seq(Event) /\ pending'[t] = None /\ e.inst # None
      BY <1>1, <1>3, <1>4, <2>3, StreamEmit, ZenonT(120) DEF PairTyped
    <3>3. ASSUME Lossless', Paired(Stream, t, pend[t], pending[t])
          PROVE  Paired(Append(Stream, e), t, pend[t], pending'[t])
      <4>1. Paired(Stream, t, pend[t], e.inst)
        BY <1>4, <1>13, <2>3, <3>3, Zenon
      <4> QED
        BY <1>4, <3>1, <3>2, <4>1, ReturnAppended, ZenonT(120)
    <3>4. Answered(Stream, t, pend[t], pending[t] # None)
            => Answered(Append(Stream, e), t, pend[t], pending'[t] # None)
      BY <1>4, <3>1, <3>2, ReturnAppended, ZenonT(120)
    <3> QED
      BY <1>1, <1>4, <2>3, <3>1, <3>3, <3>4, EmitStep, ZenonT(120)
  <2> QED
    BY <1>2, <2>1, <2>2, <2>3, Zenon
<1> QED
  BY <1>1, <1>2, <1>7, <1>11, <1>12, <1>14, SMTT(90) DEF PairInv, PairTyped, Counted

(* Every step of a traced thread. *)
LEMMA KernelPair == ASSUME PairInv, NEW t \in Tids, Kernel(t) PROVE PairInv'
<1>1. ASSUME NEW nr \in Nrs, NEW s \in Stacks \cup {None}, NEW hit \in BOOLEAN, on_svc_enter(t, nr, s, hit)
      PROVE  PairInv'
  <2>1. /\ UNCHANGED <<queue, queue_drops, pend, td, json, scoped_out>>
        /\ Lossless' => Lossless
        /\ Unfailing' => Unfailing
        /\ PairingExact' /\ Inv' /\ PairTyped /\ StreamInv
    BY KernelLeaves, ZenonT(120) DEF PairInv
  <2>2. UNCHANGED <<pending, ring, ring_drops, bailed>>
    BY <1>1 DEF on_svc_enter, kvars, uvars
  <2>3. \A u \in Tids : MarkOf(u)'
    BY <1>1, <2>1, EnterPair
  <2>4. StreamInv'
    BY <2>1, <2>2, StreamSame
  <2>5. NoCompat(ring') /\ NoCompat(queue')
    BY <2>1, <2>2, ZenonT(120) DEF PairTyped
  <2> QED
    BY <2>1, <2>2, <2>3, <2>4, <2>5, Zenon DEF PairInv, PairTyped, Counted
<1> QED
  BY <1>1, SnapPair, EntryPair, ReturnPair, Zenon DEF Kernel

(* The poll thread moves a record, loses it, or is done. *)
LEMMA PollPair == ASSUME PairInv, enqueue_event \/ PollEnds PROVE PairInv'
<1>1. /\ PairTyped /\ StreamInv /\ PairingExact /\ td = "poll" /\ queue \in Seq(Event) /\ ring \in Seq(Event)
      /\ queue_drops \in Nat
  BY Zenon DEF PairInv, PairTyped, Inv, Typed, Counted, enqueue_event, PollEnds
<1>2. /\ UNCHANGED <<th, pending, ring_drops, pend, json, scoped_out>>
      /\ queue_drops' = queue_drops \/ queue_drops' = queue_drops + 1
      /\ bailed' = bailed \/ bailed' = bailed + 1
  BY DEF enqueue_event, PollEnds, kvars
<1>3. /\ Lossless' => Lossless /\ queue_drops' = queue_drops
      /\ Unfailing' => Unfailing
  BY <1>1, <1>2, LossesStay, Zenon DEF PairTyped
<1>4. \/ td' = "drain" /\ queue' = queue /\ ring' \in {ring, Tail(ring)} /\ (ring' = ring \/ ring # <<>>)
      \/ td' = td /\ ring # <<>> /\ ring' = Tail(ring) /\ queue' = Append(queue, Head(ring))
      \/ /\ td' = td /\ ring # <<>> /\ ring' = Tail(ring) /\ queue' = queue
         /\ queue_drops' = queue_drops + 1
  BY DEF enqueue_event, PollEnds, kvars
<1>5. Inv'
  BY NextInv, ZenonT(120) DEF Next, PairInv, PairTyped
<1>6. ASSUME NEW u \in Tids PROVE MarkOf(u)'
  <2>1. MarkOf(u)
    BY <1>1 DEF PairTyped
  <2> QED
    BY <1>2, <2>1 DEF MarkOf, Ahead, KeptAreProbed, KeepsAll
<1>7. NoCompat(ring') /\ NoCompat(queue')
  <2>1. NoCompat(ring) /\ NoCompat(queue)
    BY <1>1, Zenon DEF PairTyped
  <2>2. ring # <<>> => NoCompat(Tail(ring)) /\ NoCompat(Append(queue, Head(ring)))
    BY <1>1, <2>1, TailNoCompat, AppendNoCompat
  <2> QED
    BY <1>4, <2>1, <2>2, Zenon
<1>8. PairingExact'
  <2>1. ReturnsPaired' <=> ReturnsPaired
    BY <1>2 DEF ReturnsPaired
  <2>2. (PairingExact <=> (Lossless => ReturnsPaired)) /\ (PairingExact' <=> (Lossless' => ReturnsPaired'))
    BY SMTT(90) DEF PairingExact, Lossless
  <2> QED
    BY <1>1, <1>3, <2>1, <2>2, ZenonT(120)
<1>9. StreamInv'
  <2>1. CASE td' = "drain" /\ queue' = queue
    <3>1. Stream = queue \o ring /\ Stream' = queue
      BY <1>1, <2>1 DEF Stream
    <3>2. \A u \in Tids : (Marked(u)' = None) /\ (Due(u)' = TRUE) /\ pend'[u] = pend[u]
      BY <1>2, <2>1 DEF Marked, Due
    <3>3. ASSUME Lossless', NEW u \in Tids PROVE Paired(queue, u, pend[u], None)
      <4>1. Paired(queue \o ring, u, pend[u], Marked(u))
        BY <1>1, <1>3, <3>1, <3>3 DEF StreamInv
      <4> QED
        BY <1>1, <4>1, RingCut, Zenon
    <3>4. ASSUME Unfailing', NEW u \in Tids \ CompatTids PROVE Answered(queue, u, pend[u], TRUE)
      <4>1. Answered(queue \o ring, u, pend[u], Due(u))
        BY <1>1, <1>3, <3>1, <3>4, ZenonT(120) DEF StreamInv
      <4> QED
        BY <1>1, <4>1, RingCut, Zenon
    <3> QED
      BY <3>1, <3>2, <3>3, <3>4, Zenon DEF StreamInv
  <2>2. CASE td' = td /\ ring # <<>> /\ ring' = Tail(ring) /\ queue' = Append(queue, Head(ring))
    <3>1. Append(queue, Head(ring)) \o Tail(ring) = queue \o ring
      BY <1>1, <2>2, SMTT(90)
    <3>2. Stream' = Stream /\ \A u \in Tids : (Marked(u)' = Marked(u)) /\ (Due(u)' = Due(u)) /\ pend'[u] = pend[u]
      BY <1>1, <1>2, <2>2, <3>1 DEF Stream, Marked, Due
    <3> QED
      BY <1>1, <1>3, <3>2 DEF StreamInv
  <2>3. CASE queue_drops' = queue_drops + 1
    <3>1. queue_drops' # 0
      BY <1>1, <2>3, SMTT(90)
    <3> QED
      BY <3>1, Zenon DEF StreamInv, Lossless, Unfailing
  <2> QED
    BY <1>4, <2>1, <2>2, <2>3
<1> QED
  BY <1>1, <1>2, <1>5, <1>6, <1>7, <1>8, <1>9, SMTT(90) DEF PairInv, PairTyped, Counted

(* A 32-bit thread has no return to pair. *)
LEMMA CompatPaired ==
    ASSUME NEW s \in Seq(Event), NoCompat(s), NEW t \in CompatTids, NEW p
    PROVE  Paired(s, t, p, None)
  BY Zenon DEF Paired, NoCompat, NextTo, IsFirst, Own

(* A record with no value, or with its own, keeps the records paired. *)
LEMMA EmitPairs ==
    ASSUME Typed, ReturnsPaired, NEW i \in Insts, NEW r \in {None, i}, json' = json_emit(json, i, r)
    PROVE  ReturnsPaired'
<1>1. json[i] \in Seq(Insts \cup {None}) /\ json'[i] = Append(json[i], r)
      /\ \A j \in Insts \ {i} : json'[j] = json[j]
  BY Zenon DEF Typed, json_emit
<1>2. \A k \in DOMAIN json[i] : json[i][k] \in {None, i}
  BY Zenon DEF ReturnsPaired
<1>3. \A k \in DOMAIN Append(json[i], r) : Append(json[i], r)[k] \in {None, i}
  BY <1>1, <1>2
<1> QED
  BY <1>1, <1>3, ZenonT(120) DEF ReturnsPaired

(* The worker takes a record off; what has to be shown for its thread. *)
LEMMA TakeStep ==
    ASSUME PairTyped, StreamInv, Lossless' => Lossless, Unfailing' => Unfailing,
           queue # <<>>, queue' = Tail(queue), UNCHANGED <<ring, td, pending>>,
           \A u \in Tids : ~Own(Head(queue), u) => pend'[u] = pend[u],
           \A t \in Tids : Own(Head(queue), t) =>
              /\ Lossless' /\ Paired(Stream, t, pend[t], Marked(t))
                    => Paired(Tail(Stream), t, pend'[t], Marked(t))
              /\ Unfailing' /\ t \notin CompatTids /\ Answered(Stream, t, pend[t], Due(t))
                    => Answered(Tail(Stream), t, pend'[t], Due(t))
    PROVE  StreamInv'
<1>1. queue \in Seq(Event) /\ ring \in Seq(Event)
  BY DEF PairTyped, Inv, Typed
<1>2. /\ Tail(queue \o ring) = Tail(queue) \o ring /\ queue \o ring # <<>>
      /\ Head(queue \o ring) = Head(queue) /\ queue \o ring \in Seq(Event)
  BY <1>1, TailConcat, Zenon
<1>3. Stream \in Seq(Event) /\ Stream # <<>> /\ Head(Stream) = Head(queue) /\ Stream' = Tail(Stream)
  BY <1>1, <1>2, Zenon DEF Stream
<1>4. \A u \in Tids : Marked(u)' = Marked(u) /\ Due(u)' = Due(u)
  BY Zenon DEF Marked, Due
<1>5. ASSUME Lossless', NEW u \in Tids PROVE Paired(Tail(Stream), u, pend'[u], Marked(u))
  <2>1. Paired(Stream, u, pend[u], Marked(u))
    BY <1>5, Zenon DEF StreamInv
  <2>2. CASE Own(Head(queue), u)
    BY <1>5, <2>1, <2>2, Zenon
  <2>3. CASE ~Own(Head(queue), u)
    <3>1. ~Own(Head(Stream), u) /\ pend'[u] = pend[u]
      BY <1>3, <2>3, Zenon
    <3> QED
      BY <1>3, <2>1, <3>1, OtherTaken, Zenon
  <2> QED
    BY <2>2, <2>3, Zenon
<1>6. ASSUME Unfailing', NEW u \in Tids \ CompatTids PROVE Answered(Tail(Stream), u, pend'[u], Due(u))
  <2>1. Answered(Stream, u, pend[u], Due(u))
    BY <1>6, Zenon DEF StreamInv
  <2>2. CASE Own(Head(queue), u)
    BY <1>6, <2>1, <2>2, Zenon
  <2>3. CASE ~Own(Head(queue), u)
    <3>1. ~Own(Head(Stream), u) /\ pend'[u] = pend[u]
      BY <1>3, <2>3, Zenon
    <3> QED
      BY <1>3, <2>1, <3>1, OtherTaken, Zenon
  <2> QED
    BY <2>2, <2>3, Zenon
<1> QED
  BY <1>3, <1>4, <1>5, <1>6, ZenonT(120) DEF StreamInv

(* What the three handlers share. *)
LEMMA WorkerLeaves ==
    ASSUME PairInv, (\E b \in BOOLEAN : handle_syscall(b)) \/ handle_return \/ json_emit_stack
    PROVE  /\ PairTyped /\ StreamInv /\ PairingExact /\ Typed
           /\ queue # <<>> /\ queue' = Tail(queue) /\ Head(queue) \in Event
           /\ UNCHANGED <<th, pending, ring, ring_drops, queue_drops, td, bailed>>
           /\ Lossless' => Lossless
           /\ Unfailing' => Unfailing
           /\ PairTyped'
           /\ Stream \in Seq(Event) /\ Stream # <<>> /\ Head(Stream) = Head(queue)
           /\ NoCompat(Stream)
           /\ Head(queue).type = "RETURN" => Head(queue).tid \notin CompatTids
<1>1. /\ PairTyped /\ StreamInv /\ PairingExact /\ queue \in Seq(Event) /\ ring \in Seq(Event)
      /\ NoCompat(ring) /\ NoCompat(queue) /\ Typed
  BY Zenon DEF PairInv, PairTyped, Inv, Typed
<1>2. /\ queue # <<>> /\ queue' = Tail(queue)
      /\ UNCHANGED <<th, pending, ring, ring_drops, queue_drops, td, bailed>>
      /\ scoped_out' = scoped_out \/ scoped_out' = TRUE
  BY Zenon DEF handle_syscall, handle_return, json_emit_stack, Popped, kvars
<1>3. (Lossless' => Lossless) /\ (Unfailing' => Unfailing)
  BY <1>1, <1>2, LossesStay DEF PairTyped
<1>4. Inv'
  BY NextInv DEF Next, PairInv, PairTyped
<1>5. ASSUME NEW u \in Tids PROVE MarkOf(u)'
  <2>1. MarkOf(u)
    BY <1>1 DEF PairTyped
  <2> QED
    BY <1>2, <2>1, Zenon DEF MarkOf, Ahead, KeptAreProbed, KeepsAll
<1>6. NoCompat(Tail(queue)) /\ (Head(queue).type = "RETURN" => Head(queue).tid \notin CompatTids)
  BY <1>1, <1>2, TailNoCompat, Zenon
<1>7. PairTyped'
  BY <1>1, <1>2, <1>4, <1>5, <1>6, Zenon DEF PairTyped, Counted
<1>8. queue \o ring # <<>> /\ Head(queue \o ring) = Head(queue) /\ queue \o ring \in Seq(Event)
  BY <1>1, <1>2
<1>9. NoCompat(queue \o ring)
  <2>1. /\ \A k \in DOMAIN queue : k \in 1 .. Len(queue)
        /\ \A k \in DOMAIN (queue \o ring) :
              (queue \o ring)[k] = (IF k <= Len(queue) THEN queue[k] ELSE ring[k - Len(queue)])
        /\ \A k \in DOMAIN (queue \o ring) :
              IF k <= Len(queue) THEN k \in DOMAIN queue ELSE k - Len(queue) \in DOMAIN ring
    BY <1>1
  <2> QED
    BY <1>1, <2>1, ZenonT(120) DEF NoCompat
<1>10. Head(queue) \in Event
  BY <1>1, <1>2
<1> QED
  BY <1>1, <1>2, <1>3, <1>6, <1>7, <1>8, <1>9, <1>10, Zenon DEF Stream

(* handle_return: the entry that is held is the one that returned. *)
LEMMA HandleReturnPair == ASSUME PairInv, handle_return PROVE PairInv'
<1> DEFINE e == Head(queue)
           t == e.tid
<1>1. /\ PairTyped /\ StreamInv /\ PairingExact /\ Typed /\ PairTyped'
      /\ queue # <<>> /\ queue' = Tail(queue) /\ UNCHANGED <<ring, td, pending>>
      /\ Lossless' => Lossless
      /\ Unfailing' => Unfailing
      /\ Stream \in Seq(Event) /\ Stream # <<>> /\ Head(Stream) = e /\ e \in Event
  BY WorkerLeaves, ZenonT(120)
<1>2. /\ e.type = "RETURN"
      /\ \/ pend[t] = None /\ UNCHANGED <<pend, json>>
         \/ pend[t] # None /\ json' = json_emit(json, pend[t], e.inst) /\ pend' = [pend EXCEPT ![t] = None]
  BY Zenon DEF handle_return, Popped
<1>3. e.inst \in Insts /\ t \in Tids /\ pend \in [Tids -> Insts \cup {None}]
  BY <1>1, <1>2, ReturnFields, Zenon DEF Typed
<1> HIDE DEF e
<1>4. \A u \in Tids : Own(e, u) <=> u = t
  BY <1>2, ZenonT(120) DEF Own
<1>5. pend'[t] = None /\ \A u \in Tids \ {t} : pend'[u] = pend[u]
  BY <1>2, <1>3
<1>6. /\ Paired(Stream, t, pend[t], Marked(t))
           => Paired(Tail(Stream), t, None, Marked(t)) /\ pend[t] \in {None, e.inst}
      /\ Answered(Stream, t, pend[t], Due(t)) => Answered(Tail(Stream), t, None, Due(t))
  <2>1. Own(e, t)
    BY <1>3, <1>4
  <2> QED
    BY <1>1, <1>2, <2>1, ReturnTaken, Zenon
<1>7. StreamInv'
  <2>1. Head(queue) = e
    BY DEF e
  <2>2. \A u \in Tids : Own(Head(queue), u) => u = t
    BY <1>4, <2>1, ZenonT(120)
  <2>3. \A u \in Tids : ~Own(Head(queue), u) => pend'[u] = pend[u]
    BY <1>4, <1>5, <2>1
  <2>4. /\ Paired(Stream, t, pend[t], Marked(t)) => Paired(Tail(Stream), t, pend'[t], Marked(t))
        /\ Answered(Stream, t, pend[t], Due(t)) => Answered(Tail(Stream), t, pend'[t], Due(t))
    BY <1>5, <1>6, Zenon
  <2> HIDE DEF t
  <2> QED
    BY <1>1, <2>2, <2>3, <2>4, TakeStep, Zenon
<1>8. PairingExact'
  <2>1. (PairingExact <=> (Lossless => ReturnsPaired)) /\ (PairingExact' <=> (Lossless' => ReturnsPaired'))
    BY DEF PairingExact, Lossless
  <2> SUFFICES ASSUME Lossless' PROVE ReturnsPaired'
    BY <2>1, Zenon
  <2>2. ReturnsPaired /\ Paired(Stream, t, pend[t], Marked(t))
    BY <1>1, <1>3, <2>1, Zenon DEF StreamInv
  <2>3. CASE UNCHANGED json
    BY <2>2, <2>3, ZenonT(120) DEF ReturnsPaired
  <2>4. CASE pend[t] # None /\ json' = json_emit(json, pend[t], e.inst)
    <3>1. pend[t] = e.inst
      BY <1>6, <2>2, <2>4, Zenon
    <3> QED
      BY <1>1, <1>3, <2>2, <2>4, <3>1, EmitPairs
  <2> QED
    BY <1>2, <2>3, <2>4
<1> QED
  BY <1>1, <1>7, <1>8, Zenon DEF PairInv

(* handle_syscall: the entry is held, replaces one whose return never      *)
(* came, is not held for want of memory, or lies out of its scope: then    *)
(* none is held, or a later return would meet the older one.               *)
LEMMA HandleSyscallPair == ASSUME PairInv, NEW b \in BOOLEAN, handle_syscall(b) PROVE PairInv'
<1> DEFINE e == Head(queue)
           t == e.tid
<1>1. /\ PairTyped /\ StreamInv /\ PairingExact /\ Typed /\ PairTyped'
      /\ queue # <<>> /\ queue' = Tail(queue) /\ UNCHANGED <<ring, td, pending, ring_drops, queue_drops>>
      /\ Lossless' => Lossless
      /\ Unfailing' => Unfailing
      /\ Stream \in Seq(Event) /\ Stream # <<>> /\ Head(Stream) = e /\ e \in Event /\ NoCompat(Stream)
  BY WorkerLeaves, ZenonT(120)
<1>2. /\ e.type = "SYSCALL"
      /\ \/ scoped_out' = TRUE /\ UNCHANGED <<pend, json>>
         \/ pend_store(e)
         \/ pend[t] = None /\ UNCHANGED <<pend, json>>
  BY DEF handle_syscall, Popped
<1>3. /\ e.inst \in Insts /\ t \in Tids /\ pend \in [Tids -> Insts \cup {None}] /\ None \notin Insts
      /\ pending \in [Tids -> Insts \cup {None}]
  BY <1>1, <1>2, EntryFields, ConstantFacts, Zenon DEF Typed, PairTyped
<1> HIDE DEF e
<1>4. \A u \in Tids : Own(e, u) <=> u = t
  BY <1>2, ZenonT(120) DEF Own
<1>5. \A u \in Tids \ {t} : pend'[u] = pend[u]
  BY <1>2, <1>3 DEF pend_store
<1>6. ASSUME NEW q \in {None, e.inst}
      PROVE  /\ Paired(Stream, t, pend[t], Marked(t)) => Paired(Tail(Stream), t, q, Marked(t))
             /\ Answered(Stream, t, pend[t], Due(t)) => Answered(Tail(Stream), t, q, Due(t))
  <2>1. Own(e, t)
    BY <1>3, <1>4
  <2> QED
    BY <1>1, <1>2, <2>1, EntryTaken, Zenon
<1>7. ASSUME Unfailing, t \notin CompatTids PROVE pend[t] = None
  <2>1. Answered(Stream, t, pend[t], Due(t))
    BY <1>1, <1>3, <1>7 DEF StreamInv
  <2>2. 1 \in DOMAIN Stream /\ Stream[1] = e /\ (Own(e, t) => IsFirst(Stream, t, 1))
    BY <1>1, TailOwn, Zenon
  <2>3. IsFirst(Stream, t, 1)
    BY <1>3, <1>4, <2>2, Zenon
  <2> QED
    BY <1>2, <2>1, <2>2, <2>3, ZenonT(120) DEF Answered
<1>8. pend'[t] \in {None, e.inst} \/ (scoped_out' = TRUE /\ pend' = pend)
  BY <1>2, <1>3, Zenon DEF pend_store
<1>9. ASSUME Unfailing', t \notin CompatTids PROVE pend'[t] \in {None, e.inst}
  BY <1>1, <1>7, <1>8, <1>9, Zenon
<1>10. ASSUME Lossless' PROVE t \in CompatTids \/ pend'[t] \in {None, e.inst}
  <2>1. CASE scoped_out' = TRUE
    <3>1. Unfailing'
      BY <1>10, <2>1 DEF Lossless, Unfailing
    <3> QED
      BY <1>9, <3>1
  <2> QED
    BY <1>8, <2>1, ZenonT(120)
<1>11. ASSUME t \in CompatTids PROVE Paired(Tail(Stream), t, pend'[t], Marked(t))
  <2>1. Marked(t) = None
    BY <1>1, <1>3, <1>11, Zenon DEF PairTyped, MarkOf, Marked
  <2>2. NoCompat(Tail(Stream)) /\ Tail(Stream) \in Seq(Event)
    BY <1>1, TailNoCompat
  <2> QED
    BY <1>11, <2>1, <2>2, CompatPaired, Zenon
<1>12. StreamInv'
  <2>1. Head(queue) = e
    BY DEF e
  <2>2. \A u \in Tids : Own(Head(queue), u) => u = t
    BY <1>4, <2>1, ZenonT(120)
  <2>3. \A u \in Tids : ~Own(Head(queue), u) => pend'[u] = pend[u]
    BY <1>3, <1>4, <1>5, <2>1
  <2>4. ASSUME Lossless', Paired(Stream, t, pend[t], Marked(t))
        PROVE  Paired(Tail(Stream), t, pend'[t], Marked(t))
    BY <1>6, <1>10, <1>11, <2>4, Zenon
  <2>5. ASSUME Unfailing', t \notin CompatTids, Answered(Stream, t, pend[t], Due(t))
        PROVE  Answered(Tail(Stream), t, pend'[t], Due(t))
    BY <1>6, <1>9, <2>5, Zenon
  <2> HIDE DEF t
  <2> QED
    BY <1>1, <2>2, <2>3, <2>4, <2>5, TakeStep, Zenon
<1>13. PairingExact'
  <2>1. (PairingExact <=> (Lossless => ReturnsPaired)) /\ (PairingExact' <=> (Lossless' => ReturnsPaired'))
    BY DEF PairingExact, Lossless
  <2> SUFFICES ASSUME Lossless' PROVE ReturnsPaired'
    BY <2>1, Zenon
  <2>2. ReturnsPaired
    BY <1>1, <2>1, Zenon
  <2>3. CASE UNCHANGED json
    BY <2>2, <2>3 DEF ReturnsPaired
  <2>4. CASE pend[t] # None /\ json' = json_emit(json, pend[t], None)
    <3>1. pend[t] \in Insts
      BY <1>3, <2>4
    <3> QED
      BY <1>1, <2>2, <2>4, <3>1, EmitPairs, Zenon
  <2> QED
    BY <1>2, <2>3, <2>4 DEF pend_store
<1> QED
  BY <1>1, <1>12, <1>13, Zenon DEF PairInv

(* json_emit_stack: no thread's record. *)
LEMMA StackPair == ASSUME PairInv, json_emit_stack PROVE PairInv'
<1>1. /\ PairTyped /\ StreamInv /\ PairingExact /\ PairTyped'
      /\ queue # <<>> /\ queue' = Tail(queue) /\ UNCHANGED <<ring, td, pending>>
      /\ Lossless' => Lossless
      /\ Unfailing' => Unfailing
  BY WorkerLeaves
<1>2. Head(queue).type = "STACK" /\ UNCHANGED <<pend, json>>
  BY DEF json_emit_stack, Popped
<1>3. \A u : ~Own(Head(queue), u)
  BY <1>2, Zenon DEF Own
<1>4. StreamInv'
  BY <1>1, <1>2, <1>3, TakeStep, Zenon
<1>5. (PairingExact <=> (Lossless => ReturnsPaired)) /\ (PairingExact' <=> (Lossless' => ReturnsPaired'))
  BY DEF PairingExact, Lossless
<1>6. ReturnsPaired' <=> ReturnsPaired
  BY <1>2 DEF ReturnsPaired
<1> QED
  BY <1>1, <1>4, <1>5, <1>6, Zenon DEF PairInv

(* The teardown: the queue is empty, and the records it adds have no value. *)
LEMMA TeardownPair == ASSUME PairInv, syscalls_teardown PROVE PairInv'
<1>1. /\ PairTyped /\ PairingExact /\ Typed
      /\ td # "poll" /\ td' # "poll" /\ queue = <<>> /\ queue' = <<>>
      /\ UNCHANGED <<th, pending, ring, ring_drops, queue_drops, bailed, scoped_out>>
      /\ pend' = [t \in Tids |-> None]
      /\ json' = [i \in Insts |-> IF \E t \in Tids : pend[t] = i THEN Append(json[i], None) ELSE json[i]]
  BY Zenon DEF PairInv, PairTyped, Inv, syscalls_teardown, pend_flush_all, kvars
<1>2. Inv'
  BY NextInv DEF Next, PairInv, PairTyped
<1>3. (Lossless' <=> Lossless) /\ (Unfailing' <=> Unfailing)
  BY <1>1, Zenon DEF Lossless, Unfailing, KeptAreProbed, KeepsAll, MarksFit
<1>4. ASSUME NEW u \in Tids PROVE MarkOf(u)'
  <2>1. MarkOf(u)
    BY <1>1, Zenon DEF PairTyped
  <2> QED
    BY <1>1, <2>1, ZenonT(120) DEF MarkOf, Ahead, KeptAreProbed, KeepsAll
<1>5. PairTyped'
  <2>1. NoCompat(ring') /\ NoCompat(queue')
    BY <1>1 DEF PairTyped
  <2> QED
    BY <1>1, <1>2, <1>4, <2>1, ZenonT(120) DEF PairTyped, Counted
<1>6. StreamInv'
  <2>1. Stream' = <<>> /\ \A u \in Tids : (Marked(u)' = None) /\ (Due(u)' = TRUE) /\ pend'[u] = None
    BY <1>1, Zenon DEF Stream, Marked, Due
  <2> QED
    BY <2>1, EmptyPaired, Zenon DEF StreamInv
<1>7. ASSUME ReturnsPaired PROVE ReturnsPaired'
  <2> SUFFICES ASSUME NEW i \in Insts, NEW k \in DOMAIN json'[i] PROVE json'[i][k] \in {None, i}
    BY Zenon DEF ReturnsPaired
  <2>1. json[i] \in Seq(Insts \cup {None}) /\ json'[i] \in {json[i], Append(json[i], None)}
    BY <1>1, Zenon DEF Typed
  <2>2. \A l \in DOMAIN json[i] : json[i][l] \in {None, i}
    BY <1>7, Zenon DEF ReturnsPaired
  <2>3. \A l \in DOMAIN Append(json[i], None) : Append(json[i], None)[l] \in {None, i}
    BY <2>1, <2>2
  <2> QED
    BY <2>1, <2>2, <2>3, Zenon
<1>8. (PairingExact <=> (Lossless => ReturnsPaired)) /\ (PairingExact' <=> (Lossless' => ReturnsPaired'))
  BY DEF PairingExact, Lossless
<1> QED
  BY <1>1, <1>3, <1>5, <1>6, <1>7, <1>8, Zenon DEF PairInv

(* The initial state. *)
LEMMA InitPair == Init => PairInv
<1> SUFFICES ASSUME Init PROVE PairInv
  OBVIOUS
<1>1. /\ th = [t \in Tids |-> Idle] /\ pending = [t \in Tids |-> None] /\ ring = <<>> /\ queue = <<>>
      /\ ring_drops = 0 /\ queue_drops = 0 /\ bailed = 0 /\ td = "poll" /\ scoped_out = FALSE
      /\ pend = [t \in Tids |-> None] /\ json = [i \in Insts |-> <<>>]
  BY Zenon DEF Init
<1>2. \A t \in Tids : MarkOf(t)
  BY <1>1 DEF MarkOf, Ahead, Idle
<1>3. PairTyped
  <2>1. pending \in [Tids -> Insts \cup {None}] /\ scoped_out \in BOOLEAN /\ Counted
    BY <1>1, Zenon DEF Counted
  <2>2. NoCompat(queue) /\ NoCompat(ring)
    BY <1>1 DEF NoCompat
  <2> QED
    BY <1>2, <2>1, <2>2, InitInv DEF PairTyped
<1>4. Stream = <<>>
  BY <1>1 DEF Stream
<1>5. \A t \in Tids : Paired(<<>>, t, None, None) /\ \A due : Answered(<<>>, t, None, due)
  BY EmptyPaired, Zenon
<1>6. StreamInv
  BY <1>1, <1>4, <1>5 DEF StreamInv, Marked
<1>7. ReturnsPaired
  BY <1>1 DEF ReturnsPaired
<1> QED
  BY <1>3, <1>6, <1>7, Zenon DEF PairInv, PairingExact

(* Pairing entries and returns by the thread alone is exact: for any       *)
(* interleaving of the threads, the poll thread, the worker and the stop,  *)
(* while no record is lost in the queue, a record has no return value or   *)
(* that of its own call, if every kept call has a working return probe     *)
(* (whatever the ring loses, unless a scope rejects entries as well), or   *)
(* if every call is kept and the ring loses none.                          *)
THEOREM PairingIsExact == Spec => []PairingExact
<1>1. PairInv /\ [Next]_vars => PairInv'
  <2> SUFFICES ASSUME PairInv, [Next]_vars PROVE PairInv'
    OBVIOUS
  <2>1. CASE (\E s \in Stacks : Evict(s)) \/ Stop \/ UNCHANGED vars
    <3>1. UNCHANGED <<th, pending, ring, ring_drops, queue, queue_drops, pend, td, json, scoped_out, bailed>>
      BY <2>1, Zenon DEF Evict, Stop, vars, kvars, uvars
    <3>2. (Lossless' <=> Lossless) /\ (Unfailing' <=> Unfailing) /\ PairTyped /\ StreamInv /\ PairingExact
      BY <3>1 DEF Lossless, Unfailing, KeptAreProbed, KeepsAll, MarksFit, PairInv
    <3>3. Inv'
      BY <3>2, NextInv, ZenonT(120) DEF PairTyped
    <3>4. ASSUME NEW u \in Tids PROVE MarkOf(u)'
      <4>1. MarkOf(u)
        BY <3>2, Zenon DEF PairTyped
      <4> QED
        BY <3>1, <4>1 DEF MarkOf, Ahead, KeptAreProbed, KeepsAll
    <3>5. PairTyped'
      <4>1. NoCompat(ring') /\ NoCompat(queue')
        BY <3>1, <3>2, Zenon DEF PairTyped
      <4> QED
        BY <3>1, <3>2, <3>3, <3>4, <4>1, Zenon DEF PairTyped, Counted
    <3>6. StreamInv'
      BY <3>1, <3>2, StreamSame
    <3>7. ReturnsPaired' <=> ReturnsPaired
      BY <3>1, Zenon DEF ReturnsPaired
    <3>8. (PairingExact <=> (Lossless => ReturnsPaired)) /\ (PairingExact' <=> (Lossless' => ReturnsPaired'))
      BY DEF PairingExact, Lossless
    <3> QED
      BY <3>2, <3>5, <3>6, <3>7, <3>8, Zenon DEF PairInv
  <2> QED
    BY <2>1, KernelPair, PollPair, HandleSyscallPair, HandleReturnPair, StackPair, TeardownPair DEF Next
<1>2. PairInv => PairingExact
  BY DEF PairInv
<1> QED
  BY <1>1, <1>2, InitPair, PTL DEF Spec

-----------------------------------------------------------------------------
(* Stack ids *)

(* The stack ids that the records of a type carry in a queue. *)
Stk(q, type) == {q[k].stack : k \in {j \in DOMAIN q : q[j].type = type}}

(* The snapshot of stack x is written, under way or about to be emitted. *)
Res(x) ==
    \/ x \in snaps \/ x \in Stk(queue, "STACK") \/ x \in Stk(ring, "STACK")
    \/ \E t \in Tids : th[t].at = "snap" /\ th[t].call.stack = x

(* It is referred to, marked as seen, or its thread has passed the test.   *)
Need(x) ==
    \/ x \in Stk(queue, "SYSCALL") \/ x \in Stk(ring, "SYSCALL") \/ x \in stack_seen
    \/ \E t \in Tids : th[t].at = "emit" /\ th[t].call.stack = x

Clean == Snapshots /\ ring_drops = 0 /\ queue_drops = 0 /\ bailed = 0

StackInv == Clean => \A x : Need(x) /\ x # None => Res(x)

(* Appending and taking off, for the stacks of a type. *)
LEMMA AppendStk ==
    ASSUME NEW q \in Seq(Event), NEW e \in Event, NEW type
    PROVE  Stk(Append(q, e), type) = Stk(q, type) \cup (IF e.type = type THEN {e.stack} ELSE {})
<1> DEFINE z == Append(q, e)
<1>1. /\ Len(q) \in Nat /\ DOMAIN q = 1 .. Len(q)
      /\ DOMAIN z = 1 .. (Len(q) + 1) /\ z[Len(q) + 1] = e
      /\ \A k \in 1 .. Len(q) : z[k] = q[k]
  BY SMTT(90)
<1> HIDE DEF z
<1>2. Stk(z, type) = Stk(q, type) \cup (IF e.type = type THEN {e.stack} ELSE {})
  BY <1>1, SMTT(90) DEF Stk
<1> QED
  BY <1>2 DEF z

(* And when the first one is taken off. *)
LEMMA TailStk ==
    ASSUME NEW q \in Seq(Event), q # <<>>, NEW type
    PROVE  Stk(q, type) = Stk(Tail(q), type) \cup (IF Head(q).type = type THEN {Head(q).stack} ELSE {})
<1> DEFINE z == Tail(q)
           e == Head(q)
<1>1. /\ Len(q) \in Nat \ {0} /\ DOMAIN q = 1 .. Len(q)
      /\ DOMAIN z = 1 .. (Len(q) - 1) /\ e = q[1]
      /\ \A k \in 1 .. (Len(q) - 1) : z[k] = q[k + 1]
  OBVIOUS
<1> HIDE DEF z, e
<1>2. \A k \in DOMAIN q : k = 1 \/ (k - 1 \in DOMAIN z /\ q[k] = z[k - 1])
  BY <1>1, SMTT(90)
<1>3. Stk(q, type) \subseteq Stk(z, type) \cup (IF e.type = type THEN {e.stack} ELSE {})
  BY <1>1, <1>2, SMTT(90) DEF Stk
<1>4. Stk(z, type) \subseteq Stk(q, type)
  <2> SUFFICES ASSUME NEW k \in DOMAIN z, z[k].type = type PROVE z[k].stack \in Stk(q, type)
    BY DEF Stk
  <2>1. k + 1 \in DOMAIN q /\ q[k + 1] = z[k]
    BY <1>1, SMTT(90)
  <2> QED
    BY <2>1, Zenon DEF Stk
<1>5. e.type = type => e.stack \in Stk(q, type)
  BY <1>1, SMTT(90) DEF Stk
<1>6. Stk(q, type) = Stk(z, type) \cup (IF e.type = type THEN {e.stack} ELSE {})
  BY <1>3, <1>4, <1>5
<1> QED
  BY <1>6 DEF z, e

(* A step that loses nothing may add needs that are resolved. *)
LEMMA StackStep ==
    ASSUME StackInv,
           Clean' => /\ Clean /\ \A x : Res(x) => Res(x)'
                     /\ \A x : Need(x)' /\ x # None => Need(x) \/ Res(x)'
    PROVE  StackInv'
  BY DEF StackInv

(* The kernel side. *)
LEMMA KernelStackInv ==
    ASSUME Inv, Counted, StackInv, NEW t \in Tids, Kernel(t)
    PROVE  StackInv' /\ Counted'
<1>1. /\ UNCHANGED <<queue, snaps, queue_drops, bailed>> /\ Counted'
      /\ (Clean' => Clean /\ ring_drops' = ring_drops)
      /\ ring \in Seq(Event) /\ th \in [Tids -> {Idle} \cup Busy]
  <2>1. UNCHANGED <<queue, snaps, queue_drops, bailed>>
    BY Zenon DEF Kernel, on_svc_enter, MarkStack, emit_stack_snapshot, EmitEntry, EmitCompat,
          SyscallReturns, uvars
  <2>2. ring_drops' = ring_drops \/ ring_drops' = ring_drops + 1
    BY Zenon DEF Kernel, on_svc_enter, MarkStack, emit_stack_snapshot, EmitEntry, EmitCompat,
          SyscallReturns, on_sys_exit, Emit, kvars
  <2> QED
    BY <2>1, <2>2 DEF Counted, Clean, Inv, Typed
<1>2. ASSUME NEW e, Emit(e), Clean' PROVE ring' = Append(ring, e)
  BY <1>1, <1>2, SMTT(90) DEF Emit, Counted
<1>3. ASSUME NEW nr \in Nrs, NEW s \in Stacks \cup {None}, NEW hit, on_svc_enter(t, nr, s, hit)
      PROVE  StackInv'
  <2> DEFINE c == [nr |-> nr, inst |-> calls + 1, stack |-> s]
  <2>1. /\ th[t] = Idle /\ UNCHANGED <<ring, stack_seen>>
        /\ \E a \in {"mark", "emit", "kernel"} :
              /\ a = "emit" /\ Snapshots => s = None \/ s \in stack_seen
              /\ th' = [th EXCEPT ![t] = [at |-> a, call |-> c]]
    BY <1>3, ZenonT(120) DEF on_svc_enter, kvars
  <2>2. /\ th[t].at # "snap" /\ \A u \in Tids \ {t} : th'[u] = th[u]
        /\ th'[t].at # "snap" /\ th'[t].call.stack = s
        /\ th'[t].at = "emit" /\ Snapshots => s = None \/ s \in stack_seen
    <3>1. PICK a \in {"mark", "emit", "kernel"} :
              /\ a = "emit" /\ Snapshots => s = None \/ s \in stack_seen
              /\ th' = [th EXCEPT ![t] = [at |-> a, call |-> c]]
      BY <2>1, Zenon
    <3>2. th'[t] = [at |-> a, call |-> c] /\ \A u \in Tids \ {t} : th'[u] = th[u]
      <4> HIDE DEF c
      <4> QED
        BY <1>1, <3>1, Zenon
    <3>3. th'[t].at = a /\ th'[t].call = c
      <4> HIDE DEF c
      <4> QED
        BY <3>2
    <3>4. c.stack = s
      BY Zenon
    <3>5. th[t].at = "user"
      BY <2>1 DEF Idle
    <3>6. a # "snap" /\ "user" # "snap"
      OBVIOUS
    <3> HIDE DEF c
    <3> QED
      BY <3>1, <3>2, <3>3, <3>4, <3>5, <3>6, Zenon
  <2>3. \A x : Res(x) => Res(x)'
    BY <1>1, <2>1, <2>2, ZenonT(120) DEF Res
  <2>4. Snapshots => \A x : Need(x)' /\ x # None => Need(x)
    BY <1>1, <2>1, <2>2 DEF Need
  <2> QED
    BY <1>1, <2>3, <2>4, StackStep DEF Clean
<1>4. ASSUME NEW a \in {"snap", "emit", "kernel"}, th[t].at \in {"mark", "snap", "emit"},
             th' = [th EXCEPT ![t].at = a]
      PROVE  /\ \A u \in Tids \ {t} : th'[u] = th[u]
             /\ th'[t].at = a /\ th'[t].call = th[t].call
             /\ th[t].call \in Call /\ (th[t].at = "snap" => th[t].call.stack \in Stacks)
  <2>1. th[t] # Idle
    BY <1>4 DEF Idle
  <2>2. th[t] \in Busy
    BY <1>1, <2>1
  <2>3. [th[t] EXCEPT !.at = a].at = a /\ [th[t] EXCEPT !.at = a].call = th[t].call
        /\ th[t].call \in Call /\ (th[t].at = "snap" => th[t].call.stack \in Stacks)
    BY <2>2, <1>4 DEF Busy
  <2>4. th' = [th EXCEPT ![t] = [th[t] EXCEPT !.at = a]]
    BY <1>1, <1>4, Zenon
  <2> QED
    BY <1>1, <2>3, <2>4
<1>5. CASE MarkStack(t)
  <2>1. /\ th[t].at = "mark" /\ th' = [th EXCEPT ![t].at = "snap"] /\ ring' = ring
        /\ stack_seen' = stack_seen \cup {th[t].call.stack}
    BY <1>5 DEF MarkStack
  <2>2. /\ \A u \in Tids \ {t} : th'[u] = th[u]
        /\ th'[t].at = "snap" /\ th'[t].call = th[t].call
    BY <1>4, <2>1
  <2>3. \A x : Res(x) => Res(x)'
    BY <1>1, <2>1, <2>2 DEF Res
  <2>4. \A x : Need(x)' => Need(x) \/ Res(x)'
    BY <1>1, <2>1, <2>2, Zenon DEF Need, Res
  <2> QED
    BY <1>1, <2>3, <2>4, StackStep
<1>6. CASE emit_stack_snapshot(t)
  <2> DEFINE e == [type |-> "STACK", stack |-> th[t].call.stack]
  <2>1. /\ th[t].at = "snap" /\ th' = [th EXCEPT ![t].at = "emit"] /\ stack_seen' = stack_seen
        /\ Emit(e)
    BY <1>6 DEF emit_stack_snapshot
  <2>2. /\ \A u \in Tids \ {t} : th'[u] = th[u]
        /\ th'[t].at = "emit" /\ th'[t].call = th[t].call /\ th[t].call.stack \in Stacks
    BY <1>4, <2>1, ZenonT(120)
  <2>3. e \in Event /\ e.type = "STACK" /\ e.stack = th[t].call.stack
    BY <2>2 DEF Event
  <2> HIDE DEF e
  <2>4. ASSUME Clean'
        PROVE  /\ Stk(ring', "STACK") = Stk(ring, "STACK") \cup {th[t].call.stack}
               /\ Stk(ring', "SYSCALL") = Stk(ring, "SYSCALL")
    <3>1. ring' = Append(ring, e)
      BY <1>2, <2>1, <2>4, ZenonT(120)
    <3>2. \A ty : Stk(Append(ring, e), ty) = Stk(ring, ty) \cup (IF e.type = ty THEN {e.stack} ELSE {})
      BY <1>1, <2>3, AppendStk
    <3> QED
      BY <2>3, <3>1, <3>2, Zenon
  <2>5. Clean' => \A x : Res(x) => Res(x)'
    BY <1>1, <2>1, <2>2, <2>4 DEF Res
  <2>6. Clean' => \A x : Need(x)' => Need(x) \/ Res(x)'
    BY <1>1, <2>1, <2>2, <2>4, ZenonT(120) DEF Need, Res
  <2> QED
    BY <1>1, <2>5, <2>6, StackStep
<1>7. CASE EmitEntry(t) \/ EmitCompat(t)
  <2> DEFINE e == EntryEvent(t)
  <2>1. /\ th[t].at = "emit" /\ th' = [th EXCEPT ![t].at = "kernel"] /\ stack_seen' = stack_seen
        /\ Emit(e)
    BY <1>7 DEF EmitEntry, EmitCompat
  <2>2. /\ \A u \in Tids \ {t} : th'[u] = th[u]
        /\ th'[t].at = "kernel" /\ th[t].call \in Call
    BY <1>4, <2>1
  <2>3. e \in Event /\ e.type = "SYSCALL" /\ (Snapshots => e.stack = th[t].call.stack)
    BY <2>2, Zenon DEF EntryEvent, Event, Call
  <2> HIDE DEF e
  <2>4. ASSUME Clean'
        PROVE  /\ Stk(ring', "STACK") = Stk(ring, "STACK")
               /\ Stk(ring', "SYSCALL") = Stk(ring, "SYSCALL") \cup {th[t].call.stack}
    <3>1. ring' = Append(ring, e) /\ Snapshots
      BY <1>2, <2>1, <2>4, ZenonT(120) DEF Clean
    <3>2. \A ty : Stk(Append(ring, e), ty) = Stk(ring, ty) \cup (IF e.type = ty THEN {e.stack} ELSE {})
      BY <1>1, <2>3, AppendStk
    <3> QED
      BY <2>3, <3>1, <3>2, Zenon
  <2>5. Clean' => \A x : Res(x) => Res(x)'
    BY <1>1, <2>1, <2>2, <2>4 DEF Res
  <2>6. Clean' => \A x : Need(x)' => Need(x)
    BY <1>1, <2>1, <2>2, <2>4, Zenon DEF Need
  <2> QED
    BY <1>1, <2>5, <2>6, StackStep
<1>8. ASSUME NEW fires, SyscallReturns(t, fires) PROVE StackInv'
  <2> DEFINE e == [type |-> "RETURN", tid |-> t, inst |-> th[t].call.inst]
  <2>1. /\ th[t].at = "kernel" /\ th' = [th EXCEPT ![t] = Idle] /\ stack_seen' = stack_seen
        /\ ring' = ring \/ Emit(e)
    BY <1>8, Zenon DEF SyscallReturns, on_sys_exit
  <2>2. \A u \in Tids : u = t \/ th'[u] = th[u]
    BY <1>1, <2>1, ZenonT(120)
  <2>3. th'[t].at = "user"
    BY <1>1, <2>1 DEF Idle
  <2>4. e \in Event /\ e.type = "RETURN"
    <3>1. th[t] # Idle
      BY <2>1 DEF Idle
    <3>2. th[t].call \in Call
      BY <1>1, <3>1 DEF Busy
    <3> QED
      BY <3>2, ZenonT(120) DEF Event, Call
  <2> HIDE DEF e
  <2>5. ASSUME Clean'
        PROVE  Stk(ring', "STACK") = Stk(ring, "STACK") /\ Stk(ring', "SYSCALL") = Stk(ring, "SYSCALL")
    <3>1. ring' = ring \/ ring' = Append(ring, e)
      BY <1>2, <2>1, <2>5, Zenon
    <3>2. \A ty : Stk(Append(ring, e), ty) = Stk(ring, ty) \cup (IF e.type = ty THEN {e.stack} ELSE {})
      BY <1>1, <2>4, AppendStk, Zenon
    <3> QED
      BY <2>4, <3>1, <3>2, Zenon
  <2>6. Clean' => \A x : Res(x) => Res(x)'
    BY <1>1, <2>1, <2>2, <2>3, <2>5, ZenonT(120) DEF Res
  <2>7. Clean' => \A x : Need(x)' => Need(x)
    BY <1>1, <2>1, <2>2, <2>3, <2>5 DEF Need
  <2> QED
    BY <1>1, <2>6, <2>7, StackStep, Zenon
<1> QED
  BY <1>1, <1>3, <1>5, <1>6, <1>7, <1>8, ZenonT(120) DEF Kernel

(* The user side. *)
LEMMA UserStackInv ==
    ASSUME Inv, Counted, StackInv,
           enqueue_event \/ (\E b \in BOOLEAN : handle_syscall(b)) \/ handle_return \/ json_emit_stack
    PROVE  StackInv' /\ Counted'
<1>1. /\ UNCHANGED <<th, stack_seen, ring_drops>>
      /\ ring \in Seq(Event) /\ queue \in Seq(Event) /\ Once(ring)
  BY Zenon DEF enqueue_event, handle_syscall, handle_return, json_emit_stack, kvars, Inv, Typed, OnePlace
<1>2. CASE enqueue_event
  <2> DEFINE e == Head(ring)
  <2>1. /\ ring # <<>> /\ ring' = Tail(ring) /\ snaps' = snaps
        /\ \/ queue' = Append(queue, e) /\ UNCHANGED <<queue_drops, bailed>>
           \/ bailed' = bailed + 1 /\ queue_drops' = queue_drops
           \/ queue_drops' = queue_drops + 1 /\ bailed' = bailed
    BY <1>2 DEF enqueue_event
  <2>2. Counted' /\ (Clean' => Clean /\ queue' = Append(queue, e))
    BY <1>1, <2>1 DEF Counted, Clean
  <2>3. e \in Event
    BY <1>1, <2>1
  <2>4. \A ty : Stk(ring, ty) = Stk(ring', ty) \cup (IF e.type = ty THEN {e.stack} ELSE {})
    BY <1>1, <2>1, TailStk, Zenon
  <2> HIDE DEF e
  <2>5. Clean' => \A ty : Stk(queue', ty) = Stk(queue, ty) \cup (IF e.type = ty THEN {e.stack} ELSE {})
    <3>1. \A ty : Stk(Append(queue, e), ty) = Stk(queue, ty) \cup (IF e.type = ty THEN {e.stack} ELSE {})
      BY <1>1, <2>3, AppendStk
    <3> QED
      BY <2>2, <3>1, Zenon
  <2>6. Clean' => \A x : Res(x) => Res(x)'
    BY <1>1, <2>1, <2>4, <2>5, Zenon DEF Res
  <2>7. Clean' => \A x : Need(x)' => Need(x)
    BY <1>1, <2>1, <2>4, <2>5, Zenon DEF Need
  <2> QED
    BY <2>2, <2>6, <2>7, StackStep, ZenonT(120)
<1>3. CASE (\E b \in BOOLEAN : handle_syscall(b)) \/ handle_return \/ json_emit_stack
  <2> DEFINE e == Head(queue)
  <2>1. /\ queue # <<>> /\ queue' = Tail(queue) /\ UNCHANGED <<ring, queue_drops, bailed>>
        /\ \/ e.type # "STACK" /\ snaps' = snaps
           \/ e.type = "STACK" /\ snaps' = snaps \cup {e.stack}
    BY <1>3, Zenon DEF handle_syscall, handle_return, json_emit_stack, Popped, kvars
  <2>2. Counted' /\ (Clean' => Clean)
    BY <1>1, <2>1, ZenonT(120) DEF Counted, Clean
  <2>3. \A ty : Stk(queue, ty) = Stk(queue', ty) \cup (IF e.type = ty THEN {e.stack} ELSE {})
    BY <1>1, <2>1, TailStk
  <2> HIDE DEF e
  <2>4. \A x : Res(x) => Res(x)'
    BY <1>1, <2>1, <2>3, ZenonT(120) DEF Res
  <2>5. \A x : Need(x)' => Need(x)
    BY <1>1, <2>1, <2>3 DEF Need
  <2> QED
    BY <2>2, <2>4, <2>5, StackStep
<1> QED
  BY <1>2, <1>3

(* While nothing is lost, no stack_id in a trace dangles: marking a stack  *)
(* before shipping it, on several CPUs and with eviction, leaves no window.*)
THEOREM StackIdsResolve == Spec => []StackIdResolves
<1>1. Init => Inv /\ Counted /\ StackInv
  <2> SUFFICES ASSUME Init PROVE Counted /\ StackInv
    BY InitInv, Zenon
  <2>1. /\ queue = <<>> /\ ring = <<>> /\ stack_seen = {} /\ th = [t \in Tids |-> Idle]
        /\ ring_drops = 0 /\ queue_drops = 0 /\ bailed = 0
    BY SMTT(90) DEF Init
  <2>2. \A x : ~Need(x)
    BY <2>1, SMTT(90) DEF Need, Stk, Idle
  <2> QED
    BY <2>1, <2>2 DEF Counted, StackInv
<1>2. Inv /\ Counted /\ StackInv /\ [Next]_vars => Inv' /\ Counted' /\ StackInv'
  <2> SUFFICES ASSUME Inv, Counted, StackInv, [Next]_vars PROVE Counted' /\ StackInv'
    BY NextInv, Zenon
  <2>1. ASSUME UNCHANGED <<th, ring, queue, snaps, ring_drops, queue_drops, bailed>>,
               stack_seen' \subseteq stack_seen
        PROVE  Counted' /\ StackInv'
    <3>1. Counted' /\ (Clean' => Clean)
      BY <2>1, Zenon DEF Counted, Clean
    <3>2. \A x : Res(x) => Res(x)'
      BY <2>1, ZenonT(120) DEF Res
    <3>3. \A x : Need(x)' => Need(x)
      BY <2>1 DEF Need
    <3> QED
      BY <3>1, <3>2, <3>3, StackStep
  <2>2. CASE (\E s \in Stacks : Evict(s)) \/ Stop \/ PollEnds \/ syscalls_teardown \/ UNCHANGED vars
    BY <2>1, <2>2, Zenon DEF Evict, Stop, PollEnds, syscalls_teardown, vars, kvars, uvars
  <2> QED
    BY <2>2, KernelStackInv, UserStackInv DEF Next
<1>3. StackInv => StackIdResolves
  <2> SUFFICES ASSUME StackInv, Clean, NEW x \in (StackIds \cup stack_seen) \ {None}
               PROVE  x \in snaps \cup InFlight(queue) \cup InFlight(ring)
                          \cup {th[t].call.stack : t \in {u \in Tids : th[u].at = "snap"}}
    BY ZenonT(120) DEF StackIdResolves, Clean
  <2>1. Need(x) /\ x # None
    BY DEF StackIds, Need, Stk
  <2>2. Res(x)
    BY <2>1 DEF StackInv
  <2> QED
    BY <2>2, Zenon DEF Res, InFlight, Stk
<1> QED
  BY <1>1, <1>2, <1>3, PTL DEF Spec
=============================================================================
