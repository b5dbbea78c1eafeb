----------------------------- MODULE SpanProofs -----------------------------
(***************************************************************************)
(* Proofs about SpanStack, for any functions and probes, any depth cap and *)
(* every combination of the hazards.                                       *)
(***************************************************************************)
EXTENDS SpanStack, NaturalsInduction, WellFoundedInduction, TLAPS

(* A stack whose frames below the depth chain up and carry ids up to q. *)
Stack(k, q) ==
    /\ k.depth \in 0 .. MAX_SPAN_DEPTH
    /\ k.frames = [s \in Slots |-> k.frames[s]]
    /\ \A s \in 0 .. k.depth - 1 :
          /\ k.frames[s].span_id \in 1 .. q
          /\ k.frames[s].parent_span = IF s = 0 THEN 0 ELSE k.frames[s - 1].span_id
          /\ k.frames[s].span_id > k.frames[s].parent_span

(* A set of depths has a greatest one: where the drop of frames stops. *)
LEMMA GreatestExists ==
    ASSUME NEW n \in Nat, NEW S \in SUBSET (0 .. n), S # {}
    PROVE  Max(S) \in S /\ \A y \in S : Max(S) >= y
<1> DEFINE R == {ss \in Nat \X Nat : ss[1] < ss[2]}
           T == {n - x : x \in S}
<1>1. IsWellFoundedOn(R, Nat)
  BY NatLessThanWellFounded DEF OpToRel
<1>2. T \in SUBSET Nat /\ T # {}
  <2>1. \A x \in S : n - x \in Nat
    OBVIOUS
  <2>2. PICK x0 \in S : TRUE
    BY Zenon
  <2>3. n - x0 \in T
    BY <2>2
  <2> QED
    BY <2>1, <2>3
<1>3. \E x \in T : \A y \in T : ~ (<<y, x>> \in R)
  <2> HIDE DEF R, T
  <2> QED
    BY <1>1, <1>2, WFMin, Zenon
<1>4. PICK m \in T : \A y \in T : ~ (<<y, m>> \in R)
  BY <1>3
<1>5. PICK x \in S : m = n - x
  BY <1>4
<1>6. ASSUME NEW y \in S PROVE x >= y
  <2>1. n - y \in T /\ n - y \in Nat /\ m \in Nat
    BY <1>2, <1>4, Zenon
  <2>2. ~ (n - y < m)
    BY <1>4, <2>1, Zenon
  <2> QED
    BY <1>5, <2>2
<1> QED
  BY <1>6, Zenon DEF Max

(* Forgetting the upper frames leaves the lower ones chained. *)
LEMMA ShrinkStack ==
    ASSUME MAX_SPAN_DEPTH \in Nat, NEW k, NEW q \in Nat, Stack(k, q), NEW d \in 0 .. k.depth
    PROVE  Stack(Shrink(k, d), q) /\ Shrink(k, d).depth = d
<1> DEFINE z == Shrink(k, d)
<1>1. /\ z.depth = d /\ k.depth \in 0 .. MAX_SPAN_DEPTH
      /\ z.frames = [s \in Slots |-> IF d <= s /\ s < k.depth THEN NoFrame ELSE k.frames[s]]
  BY DEF Shrink, Stack
<1> HIDE DEF z
<1>2. d \in 0 .. MAX_SPAN_DEPTH /\ \A s \in 0 .. d - 1 : s \in Slots /\ z.frames[s] = k.frames[s]
  BY <1>1 DEF Slots
<1>3. ASSUME NEW s \in 0 .. d - 1
      PROVE  /\ z.frames[s].span_id \in 1 .. q
             /\ z.frames[s].parent_span = IF s = 0 THEN 0 ELSE z.frames[s - 1].span_id
             /\ z.frames[s].span_id > z.frames[s].parent_span
  <2>1. /\ s \in 0 .. k.depth - 1 /\ z.frames[s] = k.frames[s]
        /\ s # 0 => z.frames[s - 1] = k.frames[s - 1]
    BY <1>1, <1>2
  <2>2. /\ k.frames[s].span_id \in 1 .. q
        /\ k.frames[s].parent_span = IF s = 0 THEN 0 ELSE k.frames[s - 1].span_id
        /\ k.frames[s].span_id > k.frames[s].parent_span
    BY <2>1 DEF Stack
  <2> QED
    BY <2>1, <2>2
<1>4. z.frames = [s \in Slots |-> z.frames[s]]
  BY <1>1, SMTT(90)
<1>5. Stack(z, q)
  BY <1>1, <1>2, <1>3, <1>4 DEF Stack
<1> QED
  BY <1>1, <1>5 DEF z

(* Dropping the frames whose calls are gone, and popping one. *)
LEMMA DropStack ==
    ASSUME MAX_SPAN_DEPTH \in Nat, NEW k, NEW q \in Nat, Stack(k, q), NEW c
    PROVE  /\ Stack(span_stack_reconcile(k, c), q)
           /\ span_stack_reconcile(k, c).depth <= k.depth
           /\ Stack(span_stack_pop(k), q)
           /\ span_stack_pop(k).depth = IF k.depth = 0 THEN 0 ELSE k.depth - 1
<1> DEFINE S == {0} \cup {d \in 1 .. k.depth : ~Held(k, d - 1) \/ c <= k.frames[d - 1].entry_sp}
<1>1. k.depth \in Nat
  BY DEF Stack
<1>2. S \in SUBSET (0 .. k.depth) /\ S # {}
  BY <1>1
<1>3. span_stack_reconcile(k, c) = Shrink(k, Max(S))
  BY DEF span_stack_reconcile
<1> HIDE DEF S
<1>4. Max(S) \in 0 .. k.depth
  BY <1>1, <1>2, GreatestExists, Zenon
<1>5. Stack(Shrink(k, Max(S)), q) /\ Shrink(k, Max(S)).depth <= k.depth
  BY <1>1, <1>4, ShrinkStack
<1>6. /\ Stack(span_stack_pop(k), q)
      /\ span_stack_pop(k).depth = IF k.depth = 0 THEN 0 ELSE k.depth - 1
  <2>1. CASE k.depth = 0
    BY <2>1 DEF span_stack_pop
  <2>2. CASE k.depth # 0
    <3>1. k.depth - 1 \in 0 .. k.depth /\ span_stack_pop(k) = Shrink(k, k.depth - 1)
      BY <1>1, <2>2 DEF span_stack_pop
    <3> QED
      BY <2>2, <3>1, ShrinkStack
  <2> QED
    BY <2>1, <2>2
<1> QED
  BY <1>3, <1>5, <1>6

(* A push with the next id chains its frame to the one below. *)
LEMMA PushStack ==
    ASSUME MAX_SPAN_DEPTH \in Nat, NEW k, NEW q \in Nat, Stack(k, q), k.depth < MAX_SPAN_DEPTH,
           NEW e, NEW full \in BOOLEAN
    PROVE  /\ Stack(span_stack_push(k, e, q + 1, full), q + 1)
           /\ span_stack_push(k, e, q + 1, full).depth \in {k.depth, k.depth + 1}
<1> DEFINE z == span_stack_push(k, e, q + 1, full)
           new == [entry_sp |-> e, span_id |-> q + 1, parent_span |-> TopId(k)]
<1>1. /\ z.depth = IF full THEN k.depth ELSE k.depth + 1
      /\ z.frames = [k.frames EXCEPT ![k.depth] = new]
  BY DEF span_stack_push
<1>2. /\ new.span_id = q + 1 /\ new.parent_span = TopId(k) /\ k.depth \in 0 .. MAX_SPAN_DEPTH
      /\ k.depth \in Slots /\ TopId(k) \in 0 .. q
      /\ TopId(k) = IF k.depth = 0 THEN 0 ELSE k.frames[k.depth - 1].span_id
  <2>1. new.span_id = q + 1 /\ new.parent_span = TopId(k)
    OBVIOUS
  <2>2. k.depth \in 0 .. MAX_SPAN_DEPTH /\ k.depth \in Slots
    BY DEF Stack, Slots
  <2>3. TopId(k) = IF k.depth = 0 THEN 0 ELSE k.frames[k.depth - 1].span_id
    BY DEF TopId
  <2>4. TopId(k) \in 0 .. q
    <3>1. CASE k.depth = 0
      BY <2>3, <3>1
    <3>2. CASE k.depth # 0
      <4>1. k.depth - 1 \in 0 .. k.depth - 1
        BY <2>2, <3>2
      <4>2. k.frames[k.depth - 1].span_id \in 1 .. q
        BY <4>1 DEF Stack
      <4> QED
        BY <2>3, <3>2, <4>2
    <3> QED
      BY <3>1, <3>2
  <2> QED
    BY <2>1, <2>2, <2>3, <2>4
<1> HIDE DEF z, new
<1>3. /\ z.frames = [s \in Slots |-> z.frames[s]] /\ z.frames[k.depth] = new
      /\ \A s \in 0 .. k.depth - 1 : z.frames[s] = k.frames[s]
  <2>1. DOMAIN k.frames = Slots
    BY DEF Stack
  <2>2. z.frames = [s \in Slots |-> IF s = k.depth THEN new ELSE k.frames[s]]
    BY <1>1, <2>1
  <2>3. \A s \in 0 .. k.depth - 1 : s \in Slots /\ s # k.depth
    BY <1>2 DEF Slots
  <2> QED
    BY <1>2, <2>2, <2>3
<1>4. ASSUME NEW s \in 0 .. k.depth
      PROVE  /\ z.frames[s].span_id \in 1 .. q + 1
             /\ z.frames[s].parent_span = IF s = 0 THEN 0 ELSE z.frames[s - 1].span_id
             /\ z.frames[s].span_id > z.frames[s].parent_span
  <2>1. CASE s = k.depth
    BY <1>2, <1>3, <2>1, SMTT(90)
  <2>2. CASE s # k.depth
    <3>1. /\ s \in 0 .. k.depth - 1 /\ z.frames[s] = k.frames[s]
          /\ s # 0 => z.frames[s - 1] = k.frames[s - 1]
      BY <1>2, <1>3, <2>2
    <3>2. /\ k.frames[s].span_id \in 1 .. q
          /\ k.frames[s].parent_span = IF s = 0 THEN 0 ELSE k.frames[s - 1].span_id
          /\ k.frames[s].span_id > k.frames[s].parent_span
      BY <3>1, ZenonT(120) DEF Stack
    <3> QED
      BY <3>1, <3>2
  <2> QED
    BY <2>1, <2>2
<1>5. Stack(z, q + 1) /\ z.depth \in {k.depth, k.depth + 1}
  BY <1>1, <1>2, <1>3, <1>4, SMTT(90) DEF Stack
<1> QED
  BY <1>5 DEF z

-----------------------------------------------------------------------------
(* The invariant *)

SpanInv ==
    /\ span_seq \in Nat /\ Stack(stk, span_seq)
    /\ cov \in [open : Nat, fired : Nat] /\ CapturedWithinOpened

(* What the proofs below take from the invariant. *)
LEMMA SpanFacts ==
    ASSUME ConstantsOK, SpanInv
    PROVE  /\ MAX_SPAN_DEPTH \in Nat /\ span_seq \in Nat /\ Stack(stk, span_seq)
           /\ cov.open \in Nat /\ cov.fired \in Nat /\ cov \in [open : Nat, fired : Nat]
           /\ cov.fired + stk.depth <= cov.open /\ stk.depth \in Nat
<1>1. MAX_SPAN_DEPTH \in Nat
  BY DEF ConstantsOK
<1>2. span_seq \in Nat /\ Stack(stk, span_seq) /\ cov \in [open : Nat, fired : Nat]
      /\ cov.fired + stk.depth <= cov.open
  BY DEF SpanInv, CapturedWithinOpened
<1>3. stk.depth \in Nat
  BY <1>1, <1>2 DEF Stack
<1> QED
  BY <1>1, <1>2, <1>3

(* The entry probe: reconcile, push below the cap, undo when funcs finds   *)
(* the ring full.                                                          *)
LEMMA CallSpanInv ==
    ASSUME ConstantsOK, SpanInv, NEW f, NEW d, NEW tail, NEW drop, NEW full \in BOOLEAN,
           Call(f, d, tail, drop, full)
    PROVE  SpanInv'
<1>1. MAX_SPAN_DEPTH \in Nat /\ span_seq \in Nat /\ Stack(stk, span_seq)
      /\ cov.open \in Nat /\ cov.fired \in Nat /\ cov \in [open : Nat, fired : Nat]
      /\ cov.fired + stk.depth <= cov.open /\ stk.depth \in Nat
  BY SpanFacts
<1>2. CASE f \notin Entry
  <2>1. UNCHANGED <<stk, span_seq, cov>>
    BY <1>2 DEF Call
  <2> QED
    BY <2>1, Zenon DEF SpanInv, CapturedWithinOpened, Stack
<1>3. CASE f \in Entry
  <2> DEFINE s == IF tail THEN real[Len(real)].entry ELSE sp
             id == SpanId(s)
             k == span_stack_reconcile(stk, s)
             pushed == IF id = 0 THEN k ELSE span_stack_push(k, s, id, full)
  <2>1. /\ stk' = IF KeepsFrame(f, drop) THEN pushed ELSE span_stack_pop(pushed)
        /\ span_seq' = IF id = 0 THEN span_seq ELSE id
        /\ cov' = IF id = 0 THEN cov ELSE [cov EXCEPT !.open = @ + 1]
    BY <1>3 DEF Call, uprobe_entry
  <2>2. id = IF k.depth >= MAX_SPAN_DEPTH THEN 0 ELSE span_seq + 1
    BY DEF SpanId
  <2>3. Stack(k, span_seq) /\ k.depth <= stk.depth
    BY <1>1, DropStack, Zenon
  <2> HIDE DEF s, id, k
  <2>4. k.depth \in Nat
    BY <2>3 DEF Stack
  <2>5. CASE id = 0
    <3>1. stk' = k \/ stk' = span_stack_pop(k)
      BY <2>1, <2>5
    <3>2. Stack(stk', span_seq) /\ stk'.depth \in Nat /\ stk'.depth <= stk.depth
      BY <1>1, <2>3, <2>4, <3>1, DropStack
    <3> QED
      BY <1>1, <2>1, <2>5, <3>2 DEF SpanInv, CapturedWithinOpened
  <2>6. CASE id # 0
    <3>1. id = span_seq + 1 /\ k.depth < MAX_SPAN_DEPTH /\ span_seq' = span_seq + 1
      BY <1>1, <2>1, <2>2, <2>4, <2>6
    <3>2. pushed = span_stack_push(k, s, span_seq + 1, full)
      BY <2>6, <3>1
    <3>3. Stack(pushed, span_seq') /\ pushed.depth \in {k.depth, k.depth + 1}
      BY <1>1, <2>3, <3>1, <3>2, PushStack
    <3> HIDE DEF pushed
    <3>4. Stack(span_stack_pop(pushed), span_seq') /\ span_stack_pop(pushed).depth \in 0 .. pushed.depth
      <4>1. pushed.depth \in Nat /\ span_seq' \in Nat
        BY <1>1, <2>4, <3>1, <3>3
      <4>2. /\ Stack(span_stack_pop(pushed), span_seq')
            /\ span_stack_pop(pushed).depth = IF pushed.depth = 0 THEN 0 ELSE pushed.depth - 1
        BY <1>1, <3>3, <4>1, DropStack
      <4> QED
        BY <4>1, <4>2
    <3>5. Stack(stk', span_seq') /\ stk'.depth \in Nat /\ stk'.depth <= stk.depth + 1
      BY <1>1, <2>1, <2>3, <2>4, <3>3, <3>4
    <3>6. cov' \in [open : Nat, fired : Nat] /\ cov'.open = cov.open + 1 /\ cov'.fired = cov.fired
      BY <1>1, <2>1, <2>6
    <3> QED
      BY <1>1, <3>1, <3>5, <3>6 DEF SpanInv, CapturedWithinOpened
  <2> QED
    BY <2>5, <2>6, SMTT(90)
<1> QED
  BY <1>2, <1>3

(* The return probe pops a frame for each return it counts. *)
LEMMA ReturnSpanInv ==
    ASSUME ConstantsOK, SpanInv, NEW drop, Return(drop)
    PROVE  SpanInv'
<1>1. MAX_SPAN_DEPTH \in Nat /\ span_seq \in Nat /\ Stack(stk, span_seq)
      /\ cov.open \in Nat /\ cov.fired \in Nat /\ cov \in [open : Nat, fired : Nat]
      /\ cov.fired + stk.depth <= cov.open /\ stk.depth \in Nat
  BY SpanFacts
<1>2. CASE UNCHANGED <<stk, cov>>
  BY <1>2, Zenon DEF Return, SpanInv, CapturedWithinOpened, Stack
<1>3. CASE /\ stk.depth # 0 /\ stk' = span_stack_pop(stk)
           /\ cov' = cov \/ cov' = [cov EXCEPT !.fired = @ + 1]
  <2>1. Stack(stk', span_seq) /\ stk'.depth = stk.depth - 1 /\ span_seq' = span_seq
    BY <1>1, <1>3, DropStack, Zenon DEF Return
  <2>2. cov' \in [open : Nat, fired : Nat] /\ cov'.open = cov.open /\ cov'.fired <= cov.fired + 1
        /\ cov'.fired \in Nat
    BY <1>1, <1>3
  <2> QED
    BY <1>1, <1>3, <2>1, <2>2 DEF SpanInv, CapturedWithinOpened
<1> QED
  BY <1>2, <1>3 DEF Return, uretprobe

(* Every call and return, probed or missed, keeps the chain of spans. *)
LEMMA NextSpanInv == ASSUME ConstantsOK PROVE SpanInv /\ [Next]_vars => SpanInv'
<1> SUFFICES ASSUME SpanInv, [Next]_vars PROVE SpanInv'
  OBVIOUS
<1>1. CASE \E drop \in Drops : corr_on_svc(drop)
  <2>1. MAX_SPAN_DEPTH \in Nat /\ span_seq \in Nat /\ Stack(stk, span_seq) /\ stk.depth \in Nat
        /\ cov.open \in Nat /\ cov.fired \in Nat /\ cov.fired + stk.depth <= cov.open
        /\ UNCHANGED <<span_seq, cov>> /\ stk' = span_stack_reconcile(stk, sp)
    BY <1>1, SpanFacts DEF corr_on_svc
  <2>2. Stack(stk', span_seq) /\ stk'.depth <= stk.depth
    BY <2>1, DropStack, Zenon
  <2>3. stk'.depth \in Nat
    BY <2>2 DEF Stack
  <2> QED
    BY <2>1, <2>2, <2>3 DEF SpanInv, CapturedWithinOpened
<1>2. ASSUME UNCHANGED <<stk, span_seq, cov>> PROVE SpanInv'
  BY <1>2 DEF SpanInv, CapturedWithinOpened, Stack
<1>3. CASE \/ \E j \in 0 .. Len(real) - 1 : Jump(j)
           \/ \E base \in 0 .. TopSp : ThreadExit(base)
           \/ UNCHANGED vars
  BY <1>2, <1>3 DEF Jump, ThreadExit, vars
<1> QED
  BY <1>1, <1>3, CallSpanInv, ReturnSpanInv DEF Next

(* No thread has a span at the start. *)
LEMMA InitSpanInv == ASSUME ConstantsOK PROVE Init => SpanInv
<1> SUFFICES ASSUME Init PROVE SpanInv
  OBVIOUS
<1>1. /\ stk.depth = 0 /\ stk.frames = [s \in Slots |-> NoFrame] /\ span_seq = 0
      /\ cov = [open |-> 0, fired |-> 0] /\ MAX_SPAN_DEPTH \in Nat
  BY DEF Init, Empty, ConstantsOK
<1>2. stk.frames = [s \in Slots |-> stk.frames[s]]
  BY <1>1
<1> QED
  BY <1>1, <1>2 DEF SpanInv, Stack, CapturedWithinOpened

(* Whatever returns are missed, events dropped, tids reused and stacks cut *)
(* short, joining span to parent_span walks down the stack.                *)
THEOREM SpansChain == ASSUME ConstantsOK PROVE Spec => []ChainIntact
<1>1. SpanInv => ChainIntact
  BY DEF SpanInv, Stack, ChainIntact
<1> QED
  BY <1>1, InitSpanInv, NextSpanInv, PTL DEF Spec

(* The difference that the coverage record prints as missed returns is     *)
(* never negative.                                                         *)
THEOREM MissedReturnsCount == ASSUME ConstantsOK PROVE Spec => []CapturedWithinOpened
<1>1. SpanInv => CapturedWithinOpened
  BY DEF SpanInv
<1> QED
  BY <1>1, InitSpanInv, NextSpanInv, PTL DEF Spec

-----------------------------------------------------------------------------
(* Open calls and their frames *)

(* The stack has the frame of a call entered at e with span id i. *)
Has(k, i, e) ==
    \E s \in 0 .. k.depth - 1 : k.frames[s].span_id = i /\ k.frames[s].entry_sp = e

Ids(k) == {k.frames[s].span_id : s \in 0 .. k.depth - 1}

(* Span ids grow from the bottom of the stack to its top. *)
Rising(k) ==
    \A s, t \in 0 .. k.depth - 1 : s < t => k.frames[s].span_id < k.frames[t].span_id

(* The greatest depth bounds the others. *)
LEMMA MaxIsBound ==
    ASSUME NEW S \in SUBSET Nat, NEW m \in S, \A y \in S : m >= y
    PROVE  Max(S) = m
<1>1. \A x, y \in Nat : x >= y /\ y >= x => x = y
  OBVIOUS
<1>2. ASSUME NEW x \in S, \A y \in S : x >= y PROVE x = m
  BY <1>1, <1>2, Zenon
<1> QED
  BY <1>2, Zenon DEF Max

(* Where the drop of frames stops, no frame above is live. *)
LEMMA ReconcileHas ==
    ASSUME MAX_SPAN_DEPTH \in Nat, NEW k, NEW q \in Nat, Stack(k, q), NEW c \in Nat
    PROVE  \E d \in 0 .. k.depth :
             /\ span_stack_reconcile(k, c) = Shrink(k, d)
             /\ \A s \in 0 .. k.depth - 1 : c <= k.frames[s].entry_sp => s < d
<1> DEFINE S == {0} \cup {d \in 1 .. k.depth : ~Held(k, d - 1) \/ c <= k.frames[d - 1].entry_sp}
<1>1. k.depth \in Nat
  BY DEF Stack
<1>2. S \in SUBSET (0 .. k.depth) /\ S # {}
  BY <1>1
<1>3. span_stack_reconcile(k, c) = Shrink(k, Max(S))
  BY DEF span_stack_reconcile
<1>4. ASSUME NEW s \in 0 .. k.depth - 1, c <= k.frames[s].entry_sp PROVE s + 1 \in S
  <2>1. s + 1 \in 1 .. k.depth /\ s = (s + 1) - 1
    BY <1>1
  <2> QED
    BY <2>1, <1>4
<1> HIDE DEF S
<1>5. Max(S) \in S /\ \A y \in S : Max(S) >= y
  BY <1>1, <1>2, GreatestExists, Zenon
<1>6. ASSUME NEW s \in 0 .. k.depth - 1, c <= k.frames[s].entry_sp PROVE s < Max(S)
  <2>1. Max(S) >= s + 1 /\ Max(S) \in Nat
    BY <1>1, <1>2, <1>4, <1>5, <1>6
  <2> QED
    BY <2>1
<1>7. Max(S) \in 0 .. k.depth
  BY <1>2, <1>5, Zenon
<1> QED
  BY <1>3, <1>6, <1>7

(* The frames below a cut stay. *)
LEMMA ShrinkHas ==
    ASSUME MAX_SPAN_DEPTH \in Nat, NEW k, NEW q \in Nat, Stack(k, q), NEW d \in 0 .. k.depth
    PROVE  /\ Shrink(k, d).depth = d
           /\ \A s \in 0 .. d - 1 : s \in 0 .. k.depth - 1 /\ Shrink(k, d).frames[s] = k.frames[s]
<1> DEFINE z == Shrink(k, d)
<1>1. /\ z.depth = d /\ k.depth \in 0 .. MAX_SPAN_DEPTH
      /\ z.frames = [s \in Slots |-> IF d <= s /\ s < k.depth THEN NoFrame ELSE k.frames[s]]
  BY DEF Shrink, Stack
<1> HIDE DEF z
<1>2. \A s \in 0 .. d - 1 : s \in Slots /\ s \in 0 .. k.depth - 1 /\ z.frames[s] = k.frames[s]
  BY <1>1 DEF Slots
<1> QED
  BY <1>1, <1>2 DEF z

(* Reconciling at c keeps the frame of every call entered at c or above,   *)
(* and adds none.                                                          *)
LEMMA ReconcileKeeps ==
    ASSUME MAX_SPAN_DEPTH \in Nat, NEW k, NEW q \in Nat, Stack(k, q), Rising(k), NEW c \in Nat
    PROVE  LET z == span_stack_reconcile(k, c) IN
           /\ Rising(z) /\ Ids(z) \subseteq Ids(k)
           /\ \A i, e \in Nat : c <= e /\ Has(k, i, e) => Has(z, i, e)
<1>1. PICK d \in 0 .. k.depth :
             /\ span_stack_reconcile(k, c) = Shrink(k, d)
             /\ \A s \in 0 .. k.depth - 1 : c <= k.frames[s].entry_sp => s < d
  BY ReconcileHas
<1> DEFINE z == Shrink(k, d)
<1>2. /\ z.depth = d
      /\ \A s \in 0 .. d - 1 : s \in 0 .. k.depth - 1 /\ z.frames[s] = k.frames[s]
  BY ShrinkHas
<1> HIDE DEF z
<1>3. Rising(z)
  BY <1>2 DEF Rising
<1>4. Ids(z) \subseteq Ids(k)
  BY <1>2 DEF Ids
<1>5. ASSUME NEW i \in Nat, NEW e \in Nat, c <= e, Has(k, i, e) PROVE Has(z, i, e)
  <2>1. PICK s \in 0 .. k.depth - 1 : k.frames[s].span_id = i /\ k.frames[s].entry_sp = e
    BY <1>5 DEF Has
  <2>2. s \in 0 .. d - 1
    BY <1>1, <1>5, <2>1
  <2> QED
    BY <1>2, <2>1, <2>2 DEF Has
<1> QED
  BY <1>1, <1>3, <1>4, <1>5 DEF z

(* The ids of a stack are numbers from 1 up. *)
LEMMA StackIds ==
    ASSUME NEW k, NEW q \in Nat, Stack(k, q)
    PROVE  /\ k.depth \in Nat /\ DOMAIN k.frames = Slots
           /\ \A s \in 0 .. k.depth - 1 : k.frames[s].span_id \in 1 .. q /\ k.frames[s].span_id \in Nat
<1>1. k.depth \in Nat /\ DOMAIN k.frames = Slots
  BY DEF Stack
<1>2. \A s \in 0 .. k.depth - 1 : k.frames[s].span_id \in 1 .. q
  BY Zenon DEF Stack
<1>3. \A x \in 1 .. q : x \in Nat
  OBVIOUS
<1> QED
  BY <1>1, <1>2, <1>3, Zenon

(* A push with the next id adds its frame, unless span_depth has no room. *)
LEMMA PushKeeps ==
    ASSUME MAX_SPAN_DEPTH \in Nat, NEW k, NEW q \in Nat, Stack(k, q), Rising(k),
           k.depth < MAX_SPAN_DEPTH, NEW e, NEW full \in BOOLEAN
    PROVE  LET z == span_stack_push(k, e, q + 1, full) IN
           /\ Rising(z)
           /\ \A x : x \in Ids(z) <=> x \in Ids(k) \/ (z.depth # k.depth /\ x = q + 1)
           /\ \A i, g \in Nat : Has(k, i, g) => Has(z, i, g)
           /\ z.depth # k.depth => Has(z, q + 1, e) /\ TopId(z) = q + 1
<1> DEFINE z == span_stack_push(k, e, q + 1, full)
           new == [entry_sp |-> e, span_id |-> q + 1, parent_span |-> TopId(k)]
<1>1. /\ z.depth = IF full THEN k.depth ELSE k.depth + 1
      /\ z.frames = [k.frames EXCEPT ![k.depth] = new]
      /\ new.span_id = q + 1 /\ new.entry_sp = e
  BY DEF span_stack_push
<1> HIDE DEF z, new
<1>2. /\ k.depth \in Nat /\ k.depth \in Slots /\ DOMAIN k.frames = Slots
      /\ \A s \in 0 .. k.depth - 1 : s \in Slots /\ s # k.depth
      /\ \A s \in 0 .. k.depth - 1 : k.frames[s].span_id \in 1 .. q
  <2>1. /\ k.depth \in Nat /\ DOMAIN k.frames = Slots
        /\ \A s \in 0 .. k.depth - 1 : k.frames[s].span_id \in 1 .. q
    BY StackIds, Zenon
  <2>2. k.depth \in Slots /\ \A s \in 0 .. k.depth - 1 : s \in Slots /\ s # k.depth
    BY <2>1 DEF Slots
  <2> QED
    BY <2>1, <2>2
<1>3. /\ z.frames[k.depth] = new /\ \A s \in 0 .. k.depth - 1 : z.frames[s] = k.frames[s]
  BY <1>1, <1>2, Zenon
<1>4. \A s \in 0 .. z.depth - 1 : s \in 0 .. k.depth - 1 \/ (~full /\ s = k.depth)
  BY <1>1, <1>2
<1>5. \A s \in 0 .. k.depth - 1 : s \in 0 .. z.depth - 1
  BY <1>1, <1>2
<1>6. Rising(z)
  <2>1. ASSUME NEW s \in 0 .. z.depth - 1, NEW t \in 0 .. z.depth - 1, s < t
        PROVE  z.frames[s].span_id < z.frames[t].span_id
    <3>1. s \in 0 .. k.depth - 1
      BY <1>1, <1>2, <2>1
    <3>2. CASE t \in 0 .. k.depth - 1
      BY <1>3, <2>1, <3>1, <3>2 DEF Rising
    <3>3. CASE t = k.depth
      BY <1>1, <1>2, <1>3, <3>1, <3>3
    <3> QED
      BY <1>4, <3>2, <3>3
  <2> QED
    BY <2>1 DEF Rising
<1>7. Ids(z) = IF full THEN Ids(k) ELSE Ids(k) \cup {q + 1}
  <2>1. Ids(k) \subseteq Ids(z)
    BY <1>3, <1>5 DEF Ids
  <2>2. ~full => q + 1 \in Ids(z)
    <3>1. ~full => k.depth \in 0 .. z.depth - 1
      BY <1>1, <1>2
    <3> QED
      BY <1>1, <1>3, <3>1 DEF Ids
  <2>3. \A x \in Ids(z) : x \in Ids(k) \/ (~full /\ x = q + 1)
    BY <1>1, <1>3, <1>4 DEF Ids
  <2> QED
    BY <2>1, <2>2, <2>3
<1>8. \A i, g \in Nat : Has(k, i, g) => Has(z, i, g)
  BY <1>3, <1>5 DEF Has
<1>9. ~full => Has(z, q + 1, e) /\ z.depth = k.depth + 1 /\ TopId(z) = q + 1
  <2>1. ~full => k.depth \in 0 .. z.depth - 1 /\ z.depth - 1 = k.depth /\ z.depth # 0
    BY <1>1, <1>2
  <2> QED
    BY <1>1, <1>3, <2>1 DEF Has, TopId
<1>10. z.depth = k.depth <=> full
  BY <1>1, <1>2
<1> QED
  BY <1>6, <1>7, <1>8, <1>9, <1>10, SMTT(90) DEF z

(* A pop takes the frame with the greatest id. *)
LEMMA PopKeeps ==
    ASSUME MAX_SPAN_DEPTH \in Nat, NEW k, NEW q \in Nat, Stack(k, q), Rising(k)
    PROVE  LET z == span_stack_pop(k) IN
           /\ Rising(z) /\ Ids(z) = Ids(k) \ {TopId(k)}
           /\ \A i, g \in Nat : Has(k, i, g) /\ i # TopId(k) => Has(z, i, g)
<1> DEFINE z == span_stack_pop(k)
<1>1. CASE k.depth = 0
  <2>1. z = k /\ Ids(k) = {}
    BY <1>1 DEF span_stack_pop, Ids
  <2> QED
    BY <2>1
<1>2. CASE k.depth # 0
  <2>1. k.depth \in Nat /\ k.depth - 1 \in 0 .. k.depth /\ z = Shrink(k, k.depth - 1)
        /\ TopId(k) = k.frames[k.depth - 1].span_id
    BY <1>2 DEF Stack, span_stack_pop, TopId
  <2>2. /\ z.depth = k.depth - 1
        /\ \A s \in 0 .. k.depth - 2 : s \in 0 .. k.depth - 1 /\ z.frames[s] = k.frames[s]
    BY <2>1, ShrinkHas
  <2> HIDE DEF z
  <2>3. \A s \in 0 .. k.depth - 1 : s \in 0 .. z.depth - 1 \/ s = k.depth - 1
    BY <2>1, <2>2
  <2>4. \A s \in 0 .. z.depth - 1 : /\ s \in 0 .. k.depth - 1 /\ s < k.depth - 1
                                    /\ z.frames[s] = k.frames[s]
    BY <2>1, <2>2
  <2>5. \A s \in 0 .. z.depth - 1 : k.frames[s].span_id # TopId(k)
    <3>1. ASSUME NEW s \in 0 .. z.depth - 1 PROVE k.frames[s].span_id # TopId(k)
      <4>1. s \in 0 .. k.depth - 1 /\ k.depth - 1 \in 0 .. k.depth - 1 /\ s < k.depth - 1
        BY <2>1, <2>4
      <4>2. k.frames[s].span_id < TopId(k) /\ k.frames[s].span_id \in Nat /\ TopId(k) \in Nat
        BY <2>1, <4>1, StackIds, Zenon DEF Rising
      <4> QED
        BY <4>2
    <3> QED
      BY <3>1
  <2>6. Rising(z)
    BY <2>4 DEF Rising
  <2>7. Ids(z) = Ids(k) \ {TopId(k)}
    BY <2>1, <2>3, <2>4, <2>5, SMTT(90) DEF Ids
  <2>8. \A i, g \in Nat : Has(k, i, g) /\ i # TopId(k) => Has(z, i, g)
    BY <2>1, <2>3, <2>4, SMTT(90) DEF Has
  <2> QED
    BY <2>6, <2>7, <2>8 DEF z
<1> QED
  BY <1>1, <1>2

(* The top frame has the greatest of the ids, and 0 stands for none. *)
LEMMA TopIsMax ==
    ASSUME MAX_SPAN_DEPTH \in Nat, NEW k, NEW q \in Nat, Stack(k, q), Rising(k)
    PROVE  /\ TopId(k) \in Nat /\ Ids(k) \subseteq 1 .. q
           /\ TopId(k) = Max(Ids(k) \cup {0})
           /\ \A x \in Ids(k) : x <= TopId(k)
           /\ Ids(k) # {} => TopId(k) \in Ids(k)
<1>1. k.depth \in Nat /\ Ids(k) \subseteq 1 .. q
  BY DEF Stack, Ids
<1>2. CASE k.depth = 0
  <2>1. Ids(k) = {} /\ TopId(k) = 0
    BY <1>2 DEF Ids, TopId
  <2> QED
    BY <1>1, <2>1, MaxIsBound
<1>3. CASE k.depth # 0
  <2>1. TopId(k) = k.frames[k.depth - 1].span_id /\ k.depth - 1 \in 0 .. k.depth - 1
    BY <1>1, <1>3 DEF TopId
  <2>2. TopId(k) \in Ids(k)
    BY <2>1 DEF Ids
  <2>3. ASSUME NEW s \in 0 .. k.depth - 1 PROVE k.frames[s].span_id <= TopId(k)
    <3>1. k.frames[s].span_id \in Nat /\ TopId(k) \in Nat
      BY <2>1, StackIds, Zenon
    <3>2. CASE s = k.depth - 1
      BY <2>1, <3>1, <3>2
    <3>3. CASE s # k.depth - 1
      <4>1. s < k.depth - 1
        BY <1>1, <3>3
      <4>2. k.frames[s].span_id < TopId(k)
        BY <2>1, <4>1 DEF Rising
      <4> QED
        BY <3>1, <4>2
    <3> QED
      BY <3>2, <3>3
  <2>4. \A x \in Ids(k) : x <= TopId(k)
    BY <2>3 DEF Ids
  <2>5. TopId(k) \in Nat /\ Ids(k) \cup {0} \in SUBSET Nat /\ TopId(k) \in Ids(k) \cup {0}
        /\ \A y \in Ids(k) \cup {0} : TopId(k) >= y
    BY <1>1, <2>2, <2>4
  <2>6. Max(Ids(k) \cup {0}) = TopId(k)
    BY <2>5, MaxIsBound, ZenonT(120)
  <2> QED
    BY <1>1, <2>2, <2>4, <2>5, <2>6
<1> QED
  BY <1>2, <1>3, SMTT(90)

RealFrame == [fun : Entry \cup Returns \cup Others, entry : Nat, tail : BOOLEAN, id : Nat]

(* Calls nest: each is entered at or below its caller's stack pointer, and *)
(* one that has a span got it after its callers got theirs.                *)
Nesting ==
    /\ real \in Seq(RealFrame) /\ sp \in Nat
    /\ \A j \in 1 .. Len(real) : real[j].id <= span_seq /\ sp <= real[j].entry
    /\ \A i, j \in 1 .. Len(real) :
          i < j => /\ real[j].entry <= real[i].entry
                   /\ real[j].id # 0 => real[i].id < real[j].id

(* A call with a span has its frame, entered where the call was, and a     *)
(* call whose return is probed has a span.                                 *)
OwnFrames ==
    ~unmatched =>
        \A j \in 1 .. Len(real) :
            /\ real[j].id # 0 => Has(stk, real[j].id, real[j].entry)
            /\ real[j].fun \in Returns => real[j].id # 0

(* While no return was missed there is no other frame. *)
NoOther == ~missed /\ ~unmatched => Ids(stk) \subseteq Open /\ last.span = last.truth

ExactInv == SpanInv /\ Rising(stk) /\ Nesting /\ OwnFrames /\ NoOther
            /\ missed \in BOOLEAN /\ unmatched \in BOOLEAN

(* The calls below a new one stay as they are, but for the mark of a tail  *)
(* call.                                                                   *)
LEMMA CallerFacts ==
    ASSUME NEW r \in Seq(RealFrame), NEW new \in RealFrame, NEW tail, tail => r # <<>>
    PROVE  LET c == IF tail THEN [r EXCEPT ![Len(r)].tail = TRUE] ELSE r
               z == Append(c, new)
           IN  /\ z \in Seq(RealFrame) /\ Len(z) = Len(r) + 1 /\ z[Len(r) + 1] = new
               /\ \A j \in 1 .. Len(r) : /\ z[j].id = r[j].id /\ z[j].entry = r[j].entry
                                         /\ z[j].fun = r[j].fun
<1> DEFINE c == IF tail THEN [r EXCEPT ![Len(r)].tail = TRUE] ELSE r
<1>1. CASE ~tail
  BY <1>1
<1>2. CASE tail
  <2> DEFINE m == [r[Len(r)] EXCEPT !.tail = TRUE]
  <2>1. Len(r) \in 1 .. Len(r) /\ r[Len(r)] \in RealFrame
    BY <1>2
  <2>2. m \in RealFrame /\ m.id = r[Len(r)].id /\ m.entry = r[Len(r)].entry /\ m.fun = r[Len(r)].fun
    BY <2>1, ZenonT(120) DEF RealFrame
  <2>3. c = [r EXCEPT ![Len(r)] = m]
    BY <1>2
  <2> HIDE DEF m, c
  <2>4. /\ c \in Seq(RealFrame) /\ Len(c) = Len(r)
        /\ \A j \in 1 .. Len(r) : c[j] = IF j = Len(r) THEN m ELSE r[j]
    BY <2>1, <2>2, <2>3
  <2>5. \A j \in 1 .. Len(r) : c[j].id = r[j].id /\ c[j].entry = r[j].entry /\ c[j].fun = r[j].fun
    BY <2>2, <2>4, Zenon
  <2>6. /\ Append(c, new) \in Seq(RealFrame) /\ Len(Append(c, new)) = Len(r) + 1
        /\ Append(c, new)[Len(r) + 1] = new
        /\ \A j \in 1 .. Len(r) : Append(c, new)[j] = c[j]
    BY <2>4
  <2>7. \A j \in 1 .. Len(r) : /\ Append(c, new)[j].id = r[j].id
                               /\ Append(c, new)[j].entry = r[j].entry
                               /\ Append(c, new)[j].fun = r[j].fun
    BY <2>5, <2>6, Zenon
  <2> QED
    BY <2>6, <2>7 DEF c
<1> QED
  BY <1>1, <1>2

(* The spans of the open calls, one call at a time. *)
LEMMA OpenFacts ==
    ASSUME Nesting, span_seq \in Nat
    PROVE  /\ \A j \in 1 .. Len(real) : real[j].id # 0 => real[j].id \in Open
           /\ \A x \in Open : \E j \in 1 .. Len(real) : real[j].id = x /\ x # 0
           /\ Open \subseteq 1 .. span_seq
           /\ \A j \in 1 .. Len(real) : /\ real[j] \in RealFrame /\ real[j].id \in Nat
                                        /\ real[j].entry \in Nat
<1>1. DOMAIN real = 1 .. Len(real) /\ \A j \in 1 .. Len(real) : real[j] \in RealFrame
  BY DEF Nesting
<1>2. \A j \in 1 .. Len(real) : real[j].id \in Nat /\ real[j].entry \in Nat
  BY <1>1, Zenon DEF RealFrame
<1>3. \A x : x \in Open <=> x # 0 /\ \E j \in 1 .. Len(real) : real[j].id = x
  BY <1>1, Zenon DEF Open
<1>4. \A x \in Open : x \in Nat /\ x <= span_seq /\ x # 0
  BY <1>2, <1>3, ZenonT(120) DEF Nesting
<1>6. Open \subseteq 1 .. span_seq
  BY <1>4
<1> QED
  BY <1>1, <1>2, <1>3, <1>6, Zenon

(* Reconciling at or below every open call's entry leaves their frames, so *)
(* that the top one is the innermost call's when there is no other.        *)
LEMMA OpenKept ==
    ASSUME ConstantsOK, ExactInv, NEW c \in Nat, \A j \in 1 .. Len(real) : c <= real[j].entry
    PROVE  LET k == span_stack_reconcile(stk, c) IN
           /\ Stack(k, span_seq) /\ Rising(k) /\ k.depth \in Nat
           /\ ~unmatched => \A j \in 1 .. Len(real) :
                               real[j].id # 0 => Has(k, real[j].id, real[j].entry)
           /\ ~unmatched /\ ~missed => Ids(k) = Open /\ TopId(k) = Innermost
<1> DEFINE k == span_stack_reconcile(stk, c)
<1>1. MAX_SPAN_DEPTH \in Nat /\ span_seq \in Nat /\ Stack(stk, span_seq) /\ Rising(stk)
  BY SpanFacts DEF ExactInv
<1>2. Stack(k, span_seq) /\ Rising(k) /\ Ids(k) \subseteq Ids(stk)
      /\ \A i, e \in Nat : c <= e /\ Has(stk, i, e) => Has(k, i, e)
  BY <1>1, DropStack, ReconcileKeeps, Zenon
<1> HIDE DEF k
<1>3. k.depth \in Nat
  BY <1>1, <1>2, StackIds, Zenon
<1>4. /\ \A x \in Open : \E j \in 1 .. Len(real) : real[j].id = x /\ x # 0
      /\ \A j \in 1 .. Len(real) : real[j].id \in Nat /\ real[j].entry \in Nat
  BY <1>1, OpenFacts, Zenon DEF ExactInv
<1>5. ASSUME ~unmatched
      PROVE  \A j \in 1 .. Len(real) : real[j].id # 0 => Has(k, real[j].id, real[j].entry)
  BY <1>2, <1>4, <1>5, Zenon DEF ExactInv, OwnFrames
<1>6. ASSUME ~unmatched, ~missed PROVE Ids(k) = Open /\ TopId(k) = Innermost
  <2>1. ASSUME NEW x \in Open PROVE x \in Ids(k)
    <3>1. PICK j \in 1 .. Len(real) : real[j].id = x /\ x # 0
      BY <1>4, Zenon
    <3>2. Has(k, x, real[j].entry)
      BY <1>5, <1>6, <3>1, Zenon
    <3> QED
      BY <3>2, Zenon DEF Has, Ids
  <2>2. Ids(k) = Open
    BY <1>2, <1>6, <2>1, Zenon DEF ExactInv, NoOther
  <2>3. TopId(k) = Max(Ids(k) \cup {0})
    BY <1>1, <1>2, TopIsMax, Zenon
  <2> QED
    BY <2>2, <2>3, Zenon DEF Innermost
<1> QED
  BY <1>2, <1>3, <1>5, <1>6, Zenon DEF k

(* A system call drops the frames of calls that are gone. *)
LEMMA SvcExact ==
    ASSUME ConstantsOK, ExactInv, SpanInv', NEW drop, corr_on_svc(drop)
    PROVE  ExactInv'
<1> DEFINE k == span_stack_reconcile(stk, sp)
<1>1. /\ stk' = k /\ UNCHANGED <<real, sp, span_seq, missed, unmatched>>
      /\ last' = NoEvent \/ last' = [type |-> "SYSCALL", span |-> TopId(k), truth |-> Innermost]
  BY Zenon DEF corr_on_svc, EmitEvent
<1>2. sp \in Nat /\ \A j \in 1 .. Len(real) : sp <= real[j].entry
  BY Zenon DEF ExactInv, Nesting
<1>3. /\ Rising(k)
      /\ ~unmatched => \A j \in 1 .. Len(real) :
                          real[j].id # 0 => Has(k, real[j].id, real[j].entry)
      /\ ~unmatched /\ ~missed => Ids(k) = Open /\ TopId(k) = Innermost
  BY <1>2, OpenKept, Zenon
<1> HIDE DEF k
<1>4. Rising(stk)' /\ Nesting'
  BY <1>1, <1>3, Zenon DEF ExactInv, Nesting, Rising
<1>5. OwnFrames'
  BY <1>1, <1>3, Zenon DEF ExactInv, OwnFrames, Has
<1>6. Open' = Open
  BY <1>1, ZenonT(120) DEF Open
<1>7. ~missed /\ ~unmatched => last'.span = last'.truth
  BY <1>1, <1>3 DEF NoEvent
<1>8. NoOther'
  BY <1>1, <1>3, <1>6, <1>7, Zenon DEF NoOther, Ids
<1> QED
  BY <1>1, <1>4, <1>5, <1>8, Zenon DEF ExactInv

(* A call is entered: its frame is pushed on those of the open calls. *)
LEMMA CallExact ==
    ASSUME ConstantsOK, ExactInv, SpanInv', NEW f \in Entry \cup Returns \cup Others,
           NEW d \in 0 .. 1, NEW tail \in BOOLEAN, NEW drop, NEW full \in BOOLEAN,
           Call(f, d, tail, drop, full)
    PROVE  ExactInv'
<1> DEFINE c == IF tail THEN real[Len(real)].entry ELSE sp
           caller == IF tail THEN [real EXCEPT ![Len(real)].tail = TRUE] ELSE real
           id == IF f \in Entry THEN SpanId(c) ELSE 0
           kept == IF KeepsFrame(f, drop) /\ ~full THEN id ELSE 0
           new == [fun |-> f, entry |-> c, tail |-> FALSE, id |-> kept]
           k == span_stack_reconcile(stk, c)
           n == Len(real)
<1>1. /\ tail => real # <<>>
      /\ c >= d /\ sp' = c - d
      /\ full => f \in Entry /\ k.depth = 0
      /\ real' = Append(caller, new)
      /\ unmatched' = (unmatched \/ (f \in Returns /\ kept = 0)
                                 \/ (f \in Entry /\ id = 0 /\ ~KeepsFrame(f, drop)))
      /\ IF f \in Entry THEN uprobe_entry(f, c, id, drop, full)
                        ELSE UNCHANGED <<stk, span_seq, cov, last>>
      /\ UNCHANGED <<engine, missed>>
  BY Zenon DEF Call
<1>2. /\ MAX_SPAN_DEPTH \in Nat /\ span_seq \in Nat /\ Nesting /\ n \in Nat
      /\ \A j \in 1 .. n : /\ real[j] \in RealFrame /\ real[j].id \in Nat /\ real[j].entry \in Nat
                           /\ real[j].id <= span_seq
  <2>1. MAX_SPAN_DEPTH \in Nat /\ span_seq \in Nat /\ Nesting
    BY SpanFacts DEF ExactInv
  <2>2. n \in Nat
    BY <2>1, SMTT(90) DEF Nesting
  <2> QED
    BY <2>1, <2>2, OpenFacts, Zenon DEF Nesting
<1>3. c \in Nat /\ \A j \in 1 .. n : c <= real[j].entry
  <2>1. CASE tail
    <3>1. n \in 1 .. n /\ c = real[n].entry
      BY <1>1, <1>2, <2>1 DEF Nesting
    <3>2. ASSUME NEW j \in 1 .. n PROVE real[n].entry <= real[j].entry
      <4>1. CASE j = n
        BY <1>2, <4>1
      <4>2. CASE j # n
        <5>1. j < n
          BY <1>2, <4>2
        <5> QED
          BY <1>2, <3>1, <5>1, Zenon DEF Nesting
      <4> QED
        BY <4>1, <4>2
    <3> QED
      BY <1>2, <3>1, <3>2, ZenonT(120)
  <2>2. CASE ~tail
    BY <1>2, <2>2, Zenon DEF Nesting
  <2> QED
    BY <2>1, <2>2
<1>4. /\ Stack(k, span_seq) /\ Rising(k) /\ k.depth \in Nat
      /\ ~unmatched => \A j \in 1 .. n : real[j].id # 0 => Has(k, real[j].id, real[j].entry)
      /\ ~unmatched /\ ~missed => Ids(k) = Open /\ TopId(k) = Innermost
  BY <1>3, OpenKept, ZenonT(120)
<1>5. /\ id \in {0, span_seq + 1} /\ span_seq' = IF id = 0 THEN span_seq ELSE id
      /\ id # 0 => f \in Entry /\ k.depth < MAX_SPAN_DEPTH
  <2>1. id = IF f \in Entry /\ ~(k.depth >= MAX_SPAN_DEPTH) THEN span_seq + 1 ELSE 0
    BY DEF SpanId
  <2>2. span_seq' = IF id = 0 THEN span_seq ELSE id
    <3>1. CASE f \in Entry
      BY <1>1, <3>1, Zenon DEF uprobe_entry
    <3>2. CASE f \notin Entry
      BY <1>1, <3>2, Zenon
    <3> QED
      BY <3>1, <3>2
  <2> HIDE DEF id, k
  <2> QED
    BY <1>2, <1>4, <2>1, <2>2
<1> HIDE DEF id, k, c
<1>6. kept \in {0, id} /\ kept \in Nat
  BY <1>2, <1>5
<1> HIDE DEF kept
<1>7. /\ new \in RealFrame /\ new.fun = f /\ new.entry = c /\ new.id = kept
  BY <1>3, <1>6 DEF RealFrame
<1> HIDE DEF new
<1>8. /\ real' \in Seq(RealFrame) /\ Len(real') = n + 1 /\ real'[n + 1] = new
      /\ \A j \in 1 .. n : /\ real'[j].id = real[j].id /\ real'[j].entry = real[j].entry
                           /\ real'[j].fun = real[j].fun
  BY <1>1, <1>2, <1>7, CallerFacts, ZenonT(120) DEF Nesting
<1> HIDE DEF caller, n
<1>9. \A j \in 1 .. Len(real') : j \in 1 .. n \/ j = n + 1
  BY <1>2, <1>8
<1>10. Nesting'
  <2>1. sp' \in Nat /\ sp' <= c /\ span_seq <= span_seq'
    BY <1>1, <1>2, <1>3, <1>5
  <2>2. ASSUME NEW j \in 1 .. Len(real') PROVE real'[j].id <= span_seq' /\ sp' <= real'[j].entry
    <3>1. CASE j \in 1 .. n
      <4>1. real'[j].id = real[j].id /\ real'[j].entry = real[j].entry /\ c <= real[j].entry
            /\ real[j].id <= span_seq /\ real[j].id \in Nat /\ real[j].entry \in Nat
        BY <1>2, <1>3, <1>8, <3>1, Zenon
      <4> QED
        BY <1>2, <1>3, <1>5, <2>1, <4>1, SMTT(90)
    <3>2. CASE j = n + 1
      <4>1. real'[j].id = kept /\ real'[j].entry = c
        BY <1>7, <1>8, <3>2, ZenonT(120)
      <4> QED
        BY <1>2, <1>3, <1>5, <1>6, <2>1, <4>1
    <3> QED
      BY <1>9, <3>1, <3>2
  <2>3. ASSUME NEW i \in 1 .. Len(real'), NEW j \in 1 .. Len(real'), i < j
        PROVE  /\ real'[j].entry <= real'[i].entry
               /\ real'[j].id # 0 => real'[i].id < real'[j].id
    <3>1. i \in 1 .. n
      BY <1>2, <1>8, <2>3
    <3>2. CASE j \in 1 .. n
      BY <1>2, <1>8, <2>3, <3>1, <3>2, ZenonT(120) DEF Nesting, n
    <3>3. CASE j = n + 1
      <4>1. /\ real'[j].id = kept /\ real'[j].entry = c
            /\ real'[i].id = real[i].id /\ real'[i].entry = real[i].entry
            /\ real[i].id <= span_seq /\ real[i].id \in Nat /\ c <= real[i].entry
        BY <1>2, <1>3, <1>7, <1>8, <3>1, <3>3, Zenon
      <4> QED
        BY <1>2, <1>5, <1>6, <4>1, SMTT(90)
    <3> QED
      BY <1>9, <3>2, <3>3
  <2> QED
    BY <1>8, <2>1, <2>2, <2>3, Zenon DEF Nesting
<1>11. Open \subseteq Open' /\ (kept # 0 => kept \in Open')
  <2>1. DOMAIN real = 1 .. n /\ DOMAIN real' = 1 .. Len(real')
    BY <1>2, <1>8 DEF n, Nesting
  <2>2. n + 1 \in 1 .. Len(real') /\ \A j \in 1 .. n : j \in 1 .. Len(real')
    BY <1>2, <1>8
  <2> QED
    BY <1>7, <1>8, <2>1, <2>2, ZenonT(120) DEF Open
<1>12. unmatched \in BOOLEAN /\ missed \in BOOLEAN /\ unmatched' \in BOOLEAN
       /\ missed' = missed /\ (~unmatched' => ~unmatched)
  BY <1>1, Zenon DEF ExactInv
<1>13. ASSUME Rising(stk'),
              ~unmatched' => \A j \in 1 .. n :
                                real[j].id # 0 => Has(stk', real[j].id, real[j].entry),
              ~unmatched' /\ kept # 0 => Has(stk', kept, c),
              ~unmatched' /\ ~missed => \A x \in Ids(stk') : x \in Open \/ (x = kept /\ kept # 0),
              ~unmatched' /\ ~missed => last'.span = last'.truth
       PROVE  ExactInv'
  <2>1. OwnFrames'
    <3>1. ASSUME ~unmatched', NEW j \in 1 .. Len(real')
          PROVE  /\ real'[j].id # 0 => Has(stk', real'[j].id, real'[j].entry)
                 /\ real'[j].fun \in Returns => real'[j].id # 0
      <4>1. CASE j \in 1 .. n
        BY <1>8, <1>12, <1>13, <3>1, <4>1, Zenon DEF ExactInv, OwnFrames, n
      <4>2. CASE j = n + 1
        BY <1>1, <1>7, <1>8, <1>13, <3>1, <4>2, Zenon
      <4> QED
        BY <1>9, <4>1, <4>2
    <3> QED
      BY <3>1, ZenonT(120) DEF OwnFrames, Has
  <2>2. ASSUME ~missed', ~unmatched' PROVE Ids(stk') \subseteq Open'
    BY <1>11, <1>12, <1>13, <2>2, Zenon
  <2>3. NoOther'
    BY <1>12, <1>13, <2>2, Zenon DEF NoOther, Ids
  <2> QED
    BY <1>10, <1>12, <1>13, <2>1, <2>3, Zenon DEF ExactInv, Rising
<1>14. CASE f \notin Entry
  <2>1. stk' = stk /\ last' = last /\ id = 0 /\ kept = 0
    BY <1>1, <1>5, <1>6, <1>14, Zenon
  <2>2. /\ Rising(stk)
        /\ ~unmatched => \A j \in 1 .. n : real[j].id # 0 => Has(stk, real[j].id, real[j].entry)
        /\ ~unmatched /\ ~missed => Ids(stk) \subseteq Open /\ last.span = last.truth
    BY Zenon DEF ExactInv, OwnFrames, NoOther, n
  <2> QED
    BY <1>12, <1>13, <2>1, <2>2, Zenon
<1>15. CASE f \in Entry
  <2> DEFINE pushed == IF id = 0 THEN k ELSE span_stack_push(k, c, id, full)
  <2>1. /\ stk' = IF KeepsFrame(f, drop) THEN pushed ELSE span_stack_pop(pushed)
        /\ \/ last' = NoEvent
           \/ last' = [type |-> "CALL", span |-> TopId(k), truth |-> Innermost]
           \/ last' = [type |-> "CALL", span |-> 0, truth |-> 0]
    BY <1>1, <1>15, ZenonT(120) DEF uprobe_entry, EmitEvent, k
  <2>2. ~missed /\ ~unmatched => last'.span = last'.truth
    BY <1>4, <2>1 DEF NoEvent
  <2>4. CASE id = 0
    <3>1. kept = 0 /\ (~unmatched' => stk' = k)
      BY <1>1, <1>6, <1>15, <2>1, <2>4, Zenon
    <3>2. Rising(stk')
      <4>1. stk' = k \/ stk' = span_stack_pop(k)
        BY <2>1, <2>4, Zenon
      <4> QED
        BY <1>2, <1>4, <4>1, PopKeeps, Zenon
    <3> QED
      BY <1>4, <1>12, <1>13, <2>2, <3>1, <3>2, Zenon
  <2>5. CASE id # 0
    <3> DEFINE z == span_stack_push(k, c, span_seq + 1, full)
    <3>1. id = span_seq + 1 /\ k.depth < MAX_SPAN_DEPTH /\ pushed = z
      BY <1>5, <2>5, Zenon
    <3> HIDE DEF pushed
    <3>2. /\ Stack(z, span_seq + 1) /\ Rising(z)
          /\ Ids(z) = IF full THEN Ids(k) ELSE Ids(k) \cup {span_seq + 1}
          /\ \A i, g \in Nat : Has(k, i, g) => Has(z, i, g)
          /\ ~full => Has(z, span_seq + 1, c) /\ TopId(z) = span_seq + 1
          /\ full => z.depth = k.depth
      <4>1. /\ MAX_SPAN_DEPTH \in Nat /\ span_seq \in Nat /\ Stack(k, span_seq) /\ Rising(k)
            /\ k.depth \in Nat /\ k.depth < MAX_SPAN_DEPTH
        BY <1>2, <1>4, <3>1
      <4>2. Stack(z, span_seq + 1)
        BY <4>1, PushStack, Zenon
      <4>3. Rising(z)
        BY <4>1, PushKeeps, Zenon
      <4>4. z.depth # k.depth => Has(z, span_seq + 1, c)
        BY <4>1, PushKeeps, Zenon
      <4>5. z.depth # k.depth => TopId(z) = span_seq + 1
        <5>1. DOMAIN k.frames = Slots /\ k.depth \in Slots
          <6>1. DOMAIN k.frames = Slots
            BY <4>1, StackIds, Zenon
          <6> QED
            BY <4>1, <6>1 DEF Slots
        <5>2. z.depth # k.depth => /\ z.depth = k.depth + 1
                                   /\ z.frames[k.depth].span_id = span_seq + 1
          BY <5>1 DEF span_stack_push
        <5> HIDE DEF z
        <5> QED
          BY <4>1, <5>2 DEF TopId
      <4>6. \A x : x \in Ids(z) <=> x \in Ids(k) \/ (z.depth # k.depth /\ x = span_seq + 1)
        BY <4>1, PushKeeps, ZenonT(120)
      <4>7. \A i, g \in Nat : Has(k, i, g) => Has(z, i, g)
        BY <4>1, PushKeeps, Zenon
      <4>8. z.depth = k.depth <=> full
        BY <4>1 DEF span_stack_push
      <4> HIDE DEF z
      <4> QED
        BY <4>2, <4>3, <4>4, <4>5, <4>6, <4>7, <4>8, ZenonT(120)
    <3> HIDE DEF z
    <3>3. CASE KeepsFrame(f, drop)
      <4>1. stk' = z /\ kept = IF full THEN 0 ELSE id
        BY <2>1, <3>1, <3>3, Zenon DEF kept
      <4>2. ~unmatched' => \A j \in 1 .. n :
                              real[j].id # 0 => Has(stk', real[j].id, real[j].entry)
        BY <1>2, <1>4, <1>12, <3>2, <4>1, Zenon
      <4>3. kept # 0 => Has(stk', kept, c)
        BY <3>1, <3>2, <4>1, Zenon
      <4>4. ~unmatched' /\ ~missed => \A x \in Ids(stk') : x \in Open \/ (x = kept /\ kept # 0)
        BY <1>4, <1>12, <2>5, <3>1, <3>2, <4>1, Zenon
      <4> QED
        BY <1>12, <1>13, <2>2, <3>2, <4>1, <4>2, <4>3, <4>4, Zenon
    <3>4. CASE ~KeepsFrame(f, drop)
      <4>1. stk' = span_stack_pop(z) /\ kept = 0 /\ span_seq + 1 \in Nat
        BY <1>2, <2>1, <3>1, <3>4 DEF kept
      <4>2. /\ Rising(stk') /\ Ids(stk') = Ids(z) \ {TopId(z)}
            /\ \A i, g \in Nat : Has(z, i, g) /\ i # TopId(z) => Has(stk', i, g)
        BY <1>2, <3>2, <4>1, PopKeeps, ZenonT(120)
      <4>3. full => TopId(z) = 0
        BY <1>1, <3>2 DEF TopId, k
      <4>4. \A j \in 1 .. n : real[j].id # 0 => real[j].id # TopId(z)
        <5>1. CASE full
          BY <4>3, <5>1, Zenon
        <5>2. CASE ~full
          <6>1. \A x \in Nat : x <= span_seq => x # span_seq + 1
            BY <1>2
          <6> QED
            BY <1>2, <3>2, <5>2, <6>1, Zenon
        <5> QED
          BY <5>1, <5>2
      <4>5. ~unmatched' => \A j \in 1 .. n :
                              real[j].id # 0 => Has(stk', real[j].id, real[j].entry)
        BY <1>2, <1>4, <1>12, <3>2, <4>2, <4>4, Zenon
      <4>6. Ids(stk') \subseteq Ids(k)
        BY <3>2, <4>2, Zenon
      <4> QED
        BY <1>4, <1>12, <1>13, <2>2, <4>1, <4>2, <4>5, <4>6, ZenonT(120)
    <3> QED
      BY <3>3, <3>4
  <2> QED
    BY <2>4, <2>5
<1> QED
  BY <1>14, <1>15

(* A prefix keeps the elements it holds. *)
LEMMA PrefixFacts ==
    ASSUME NEW S, NEW s \in Seq(S), NEW m \in Nat, m <= Len(s)
    PROVE  /\ SubSeq(s, 1, m) \in Seq(S) /\ Len(SubSeq(s, 1, m)) = m
           /\ \A j \in 1 .. m : SubSeq(s, 1, m)[j] = s[j]
OBVIOUS

(* A call returns: its own frame goes, or one above it. *)
LEMMA ReturnExact ==
    ASSUME ConstantsOK, ExactInv, SpanInv', NEW drop, Return(drop)
    PROVE  ExactInv'
<1> DEFINE n == Len(real)
           r == real[n]
<1>1. /\ real # <<>> /\ sp' = r.entry /\ real' = SubSeq(real, 1, n - 1)
      /\ missed' = (missed \/ (r.id # 0 /\ r.fun \notin Returns))
      /\ IF r.fun \in Returns THEN uretprobe(drop) ELSE UNCHANGED <<stk, cov, last>>
      /\ span_seq' = span_seq /\ unmatched' = unmatched
  BY Zenon DEF Return
<1>2. /\ MAX_SPAN_DEPTH \in Nat /\ span_seq \in Nat /\ Nesting /\ Stack(stk, span_seq) /\ Rising(stk)
      /\ n \in Nat
      /\ \A j \in 1 .. n : /\ real[j] \in RealFrame /\ real[j].id \in Nat /\ real[j].entry \in Nat
                           /\ real[j].id <= span_seq
  <2>1. MAX_SPAN_DEPTH \in Nat /\ span_seq \in Nat /\ Nesting /\ Stack(stk, span_seq) /\ Rising(stk)
    BY SpanFacts DEF ExactInv
  <2>2. n \in Nat
    BY <2>1 DEF Nesting
  <2> QED
    BY <2>1, <2>2, OpenFacts, Zenon DEF Nesting
<1>3. /\ n \in 1 .. n /\ n - 1 \in Nat /\ real' \in Seq(RealFrame) /\ Len(real') = n - 1
      /\ \A j \in 1 .. n - 1 : real'[j] = real[j] /\ j \in 1 .. n /\ j < n
      /\ \A j \in 1 .. n : j = n \/ j \in 1 .. n - 1
  <2>1. real \in Seq(RealFrame) /\ n # 0
    BY <1>1, <1>2 DEF Nesting
  <2>2. real' = SubSeq(real, 1, n - 1)
    BY <1>1
  <2>3. /\ n \in 1 .. n /\ n - 1 \in Nat
        /\ n - 1 <= n /\ \A j \in 1 .. n - 1 : j \in 1 .. n /\ j < n
        /\ \A j \in 1 .. n : j = n \/ j \in 1 .. n - 1
    BY <1>2, <2>1
  <2>4. /\ SubSeq(real, 1, n - 1) \in Seq(RealFrame) /\ Len(SubSeq(real, 1, n - 1)) = n - 1
        /\ \A j \in 1 .. n - 1 : SubSeq(real, 1, n - 1)[j] = real[j]
    BY <1>2, <2>1, <2>3, PrefixFacts, ZenonT(120)
  <2> QED
    BY <2>2, <2>3, <2>4, Zenon
<1>4. Nesting'
  <2>1. ASSUME NEW j \in 1 .. n - 1 PROVE real'[j].id <= span_seq' /\ sp' <= real'[j].entry
    BY <1>1, <1>2, <1>3, Zenon DEF Nesting
  <2>2. ASSUME NEW i \in 1 .. n - 1, NEW j \in 1 .. n - 1, i < j
        PROVE  /\ real'[j].entry <= real'[i].entry
               /\ real'[j].id # 0 => real'[i].id < real'[j].id
    BY <1>2, <1>3, <2>2, Zenon DEF Nesting
  <2>3. sp' \in Nat
    BY <1>1, <1>2, <1>3, Zenon
  <2> QED
    BY <1>3, <2>1, <2>2, <2>3, Zenon DEF Nesting
<1>5. \A x \in Open : x = r.id \/ x \in Open'
  <2>1. DOMAIN real = 1 .. n /\ DOMAIN real' = 1 .. n - 1
    BY <1>2, <1>3 DEF Nesting
  <2> QED
    BY <1>3, <2>1, Zenon DEF Open
<1>6. r.id \in Nat /\ \A j \in 1 .. n - 1 : r.id # 0 => real[j].id # r.id /\ real[j].id < r.id
  <2>1. \A j \in 1 .. n - 1 : r.id # 0 => real[j].id < r.id
    BY <1>2, <1>3, Zenon DEF Nesting
  <2>2. \A x, y \in Nat : x < y => x # y
    OBVIOUS
  <2> QED
    BY <1>2, <1>3, <2>1, <2>2, Zenon
<1>7. missed \in BOOLEAN /\ unmatched \in BOOLEAN /\ missed' \in BOOLEAN /\ (~missed' => ~missed)
  BY <1>1, Zenon DEF ExactInv
<1>8. ASSUME Rising(stk'),
             ~unmatched => \A j \in 1 .. n - 1 :
                              real[j].id # 0 => Has(stk', real[j].id, real[j].entry),
             ~unmatched /\ ~missed' => Ids(stk') \subseteq Open' /\ last'.span = last'.truth
      PROVE  ExactInv'
  <2>1. OwnFrames'
    <3>1. ASSUME ~unmatched, NEW j \in 1 .. n - 1
          PROVE  /\ real'[j].id # 0 => Has(stk', real'[j].id, real'[j].entry)
                 /\ real'[j].fun \in Returns => real'[j].id # 0
      BY <1>3, <1>8, <3>1, Zenon DEF ExactInv, OwnFrames
    <3> QED
      BY <1>1, <1>3, <3>1, Zenon DEF OwnFrames, Has
  <2>2. NoOther'
    BY <1>1, <1>8, Zenon DEF NoOther, Ids
  <2> QED
    BY <1>1, <1>4, <1>7, <1>8, <2>1, <2>2, Zenon DEF ExactInv, Rising
<1>9. ~unmatched => /\ \A j \in 1 .. n : /\ real[j].id # 0 => Has(stk, real[j].id, real[j].entry)
                                         /\ real[j].fun \in Returns => real[j].id # 0
                    /\ ~missed => Ids(stk) \subseteq Open /\ last.span = last.truth
  BY Zenon DEF ExactInv, OwnFrames, NoOther
<1> HIDE DEF n, r
<1>10. CASE r.fun \notin Returns
  <2>1. stk' = stk /\ last' = last /\ (~missed' => r.id = 0)
    BY <1>1, <1>7, <1>10, Zenon
  <2>2. ASSUME ~unmatched, ~missed' PROVE Ids(stk') \subseteq Open' /\ last'.span = last'.truth
    <3>1. 0 \notin Open
      BY Zenon DEF Open
    <3> QED
      BY <1>5, <1>7, <1>9, <2>1, <2>2, <3>1, Zenon
  <2> QED
    BY <1>2, <1>3, <1>8, <1>9, <2>1, <2>2, Zenon
<1>11. CASE r.fun \in Returns /\ stk.depth = 0
  <2>1. stk' = stk /\ last' = last
    BY <1>1, <1>11, Zenon DEF uretprobe
  <2>2. unmatched
    <3>1. \A i, e : ~Has(stk, i, e)
      BY <1>11 DEF Has
    <3> QED
      BY <1>3, <1>9, <1>11, <3>1, Zenon DEF r
  <2> QED
    BY <1>2, <1>8, <2>1, <2>2, Zenon
<1>12. CASE r.fun \in Returns /\ stk.depth # 0
  <2>1. /\ stk' = span_stack_pop(stk)
        /\ last' = NoEvent \/ last' = [type |-> "RETURN", span |-> TopId(stk), truth |-> r.id]
    BY <1>1, <1>12, Zenon DEF uretprobe, EmitEvent, r, n
  <2>2. /\ Rising(stk') /\ Ids(stk') = Ids(stk) \ {TopId(stk)}
        /\ \A i, g \in Nat : Has(stk, i, g) /\ i # TopId(stk) => Has(stk', i, g)
    BY <1>2, <2>1, PopKeeps, Zenon
  <2>3. /\ TopId(stk) \in Nat /\ \A x \in Ids(stk) : x <= TopId(stk)
        /\ Ids(stk) # {} => TopId(stk) \in Ids(stk)
    BY <1>2, TopIsMax, Zenon
  <2>4. ASSUME ~unmatched PROVE r.id # 0 /\ r.id <= TopId(stk) /\ TopId(stk) \in Ids(stk)
    <3>1. r.id # 0 /\ Has(stk, r.id, r.entry)
      BY <1>3, <1>9, <1>12, <2>4, Zenon DEF r
    <3>2. r.id \in Ids(stk)
      BY <3>1, Zenon DEF Has, Ids
    <3> QED
      BY <2>3, <3>1, <3>2, Zenon
  <2>5. ASSUME ~unmatched, NEW j \in 1 .. n - 1, real[j].id # 0
        PROVE  Has(stk', real[j].id, real[j].entry)
    <3>1. real[j].id \in Nat /\ real[j].entry \in Nat /\ real[j].id < r.id
      BY <1>2, <1>3, <1>6, <2>4, <2>5, ZenonT(120)
    <3>2. real[j].id # TopId(stk)
      BY <1>6, <2>3, <2>4, <2>5, <3>1
    <3> QED
      BY <1>3, <1>9, <2>2, <2>5, <3>1, <3>2, Zenon
  <2>6. ASSUME ~unmatched, ~missed' PROVE Ids(stk') \subseteq Open' /\ last'.span = last'.truth
    <3>1. Ids(stk) \subseteq Open
      BY <1>7, <1>9, <2>6, Zenon
    <3>2. \A x \in Open : x <= r.id
      <4>1. ASSUME NEW x \in Open PROVE x <= r.id
        <5>1. PICK j \in 1 .. n : real[j].id = x
          BY <1>2, OpenFacts, Zenon DEF n
        <5>2. CASE j = n
          BY <1>6, <5>1, <5>2 DEF r
        <5>3. CASE j \in 1 .. n - 1
          BY <1>2, <1>3, <1>6, <2>4, <2>6, <5>1, <5>3
        <5> QED
          BY <1>3, <5>2, <5>3
      <4> QED
        BY <4>1
    <3>3. TopId(stk) = r.id
      BY <1>6, <2>3, <2>4, <2>6, <3>1, <3>2
    <3>4. Ids(stk') \subseteq Open'
      BY <1>5, <2>2, <3>1, <3>3, Zenon
    <3>5. last'.span = last'.truth
      BY <2>1, <3>3 DEF NoEvent
    <3> QED
      BY <3>4, <3>5
  <2> QED
    BY <1>8, <2>2, <2>5, <2>6, Zenon
<1> QED
  BY <1>10, <1>11, <1>12

(* A jump leaves calls without their return probes. *)
LEMMA JumpExact ==
    ASSUME ConstantsOK, ExactInv, SpanInv', NEW j \in 0 .. Len(real) - 1, Jump(j)
    PROVE  ExactInv'
<1> DEFINE n == Len(real)
<1>1. /\ sp' = real[j + 1].entry /\ real' = SubSeq(real, 1, j) /\ missed' = TRUE
      /\ stk' = stk /\ span_seq' = span_seq /\ unmatched' = unmatched
  BY Zenon DEF Jump
<1>2. /\ span_seq \in Nat /\ Nesting /\ n \in Nat
      /\ \A i \in 1 .. n : /\ real[i] \in RealFrame /\ real[i].id \in Nat /\ real[i].entry \in Nat
                           /\ real[i].id <= span_seq
  <2>1. span_seq \in Nat /\ Nesting
    BY SpanFacts DEF ExactInv
  <2>2. n \in Nat
    BY <2>1 DEF Nesting
  <2> QED
    BY <2>1, <2>2, OpenFacts, Zenon DEF Nesting
<1>3. /\ j + 1 \in 1 .. n /\ real' \in Seq(RealFrame) /\ Len(real') = j
      /\ \A i \in 1 .. j : real'[i] = real[i] /\ i \in 1 .. n /\ i < j + 1
  BY <1>1, <1>2 DEF Nesting
<1>4. Nesting'
  <2>1. ASSUME NEW i \in 1 .. j PROVE real'[i].id <= span_seq' /\ sp' <= real'[i].entry
    BY <1>1, <1>2, <1>3, Zenon DEF Nesting
  <2>2. ASSUME NEW i \in 1 .. j, NEW g \in 1 .. j, i < g
        PROVE  /\ real'[g].entry <= real'[i].entry
               /\ real'[g].id # 0 => real'[i].id < real'[g].id
    BY <1>2, <1>3, <2>2, Zenon DEF Nesting
  <2>3. sp' \in Nat
    BY <1>1, <1>2, <1>3, Zenon
  <2> QED
    BY <1>3, <2>1, <2>2, <2>3, Zenon DEF Nesting
<1>5. OwnFrames'
  BY <1>1, <1>3, ZenonT(120) DEF ExactInv, OwnFrames, Has
<1>6. NoOther'
  BY <1>1, Zenon DEF NoOther
<1> QED
  BY <1>1, <1>4, <1>5, <1>6, Zenon DEF ExactInv, Rising

(* Every step keeps the frames of the open calls. *)
LEMMA NextExact == ASSUME ConstantsOK PROVE ExactInv /\ [Next]_vars => ExactInv'
<1> SUFFICES ASSUME ExactInv, [Next]_vars PROVE ExactInv'
  OBVIOUS
<1>1. SpanInv'
  BY NextSpanInv DEF ExactInv
<1>2. ASSUME NEW base \in 0 .. TopSp, ThreadExit(base) PROVE ExactInv'
  <2>1. /\ real' = <<>> /\ sp' = base /\ missed' = TRUE
        /\ stk' = stk /\ span_seq' = span_seq /\ unmatched' = unmatched
    BY <1>2, Zenon DEF ThreadExit
  <2>2. sp' \in Nat /\ real' \in Seq(RealFrame) /\ 1 .. Len(real') = {}
    BY <2>1 DEF ConstantsOK
  <2>3. Nesting' /\ OwnFrames' /\ NoOther'
    BY <2>1, <2>2, Zenon DEF Nesting, OwnFrames, NoOther
  <2> QED
    BY <1>1, <2>1, <2>3, Zenon DEF ExactInv, Rising
<1>3. CASE UNCHANGED vars
  <2>1. UNCHANGED <<real, sp, stk, span_seq, last, missed, unmatched>>
    BY <1>3, Zenon DEF vars
  <2> QED
    <3>1. Nesting' /\ Rising(stk)'
      BY <2>1, Zenon DEF ExactInv, Nesting, Rising
    <3>2. OwnFrames'
      BY <2>1, Zenon DEF ExactInv, OwnFrames, Has
    <3>3. NoOther'
      BY <2>1, ZenonT(120) DEF ExactInv, NoOther, Ids, Open
    <3> QED
      BY <1>1, <2>1, <3>1, <3>2, <3>3, Zenon DEF ExactInv
<1>4. ASSUME NEW f \in Entry \cup Returns \cup Others, NEW d \in 0 .. 1, NEW tail \in BOOLEAN,
             NEW drop \in Drops, NEW full \in BOOLEAN, Call(f, d, tail, drop, full)
      PROVE  ExactInv'
  BY <1>1, <1>4, CallExact, Zenon
<1>5. ASSUME NEW drop \in Drops, Return(drop) PROVE ExactInv'
  BY <1>1, <1>5, ReturnExact, Zenon
<1>6. ASSUME NEW j \in 0 .. Len(real) - 1, Jump(j) PROVE ExactInv'
  BY <1>1, <1>6, JumpExact, Zenon
<1>7. ASSUME NEW drop \in Drops, corr_on_svc(drop) PROVE ExactInv'
  BY <1>1, <1>7, SvcExact, Zenon
<1> QED
  BY <1>2, <1>3, <1>4, <1>5, <1>6, <1>7, Zenon DEF Next

(* No call is open and no frame is there at the start. *)
LEMMA InitExact == ASSUME ConstantsOK PROVE Init => ExactInv
<1> SUFFICES ASSUME Init PROVE ExactInv
  OBVIOUS
<1>1. /\ real = <<>> /\ sp = TopSp /\ stk.depth = 0 /\ last = NoEvent
      /\ missed = FALSE /\ unmatched = FALSE /\ TopSp \in Nat
  BY DEF Init, Empty, ConstantsOK
<1>2. Rising(stk) /\ Ids(stk) = {} /\ real \in Seq(RealFrame) /\ 1 .. Len(real) = {}
  BY <1>1 DEF Rising, Ids
<1>3. last.span = last.truth
  BY <1>1 DEF NoEvent
<1> QED
  BY <1>1, <1>2, <1>3, InitSpanInv, Zenon DEF ExactInv, Nesting, OwnFrames, NoOther

(* A call that is still open keeps its frame: neither the comparison of    *)
(* stack pointers nor a return probe that pops the top frame blindly takes *)
(* it, whatever returns are missed, as long as every pop had a frame of    *)
(* its own.                                                                *)
THEOREM OpenCallsTracked == ASSUME ConstantsOK PROVE Spec => []OpenTracked
<1>1. ExactInv => OpenTracked
  <2> SUFFICES ASSUME ExactInv, ~unmatched, NEW x \in Open PROVE x \in Tracked
    BY Zenon DEF OpenTracked
  <2>1. PICK j \in 1 .. Len(real) : real[j].id = x /\ x # 0
    BY OpenFacts, Zenon DEF ExactInv, SpanInv
  <2> QED
    BY <2>1, Zenon DEF ExactInv, OwnFrames, Has, Tracked
<1> QED
  BY <1>1, InitExact, NextExact, PTL DEF Spec

(* While every tracked call leaves by its return probe the stack is the    *)
(* open calls, and every event names the innermost one.                    *)
THEOREM SpansAreExact == ASSUME ConstantsOK PROVE Spec => []SpansExact
<1>1. ExactInv => SpansExact
  <2> SUFFICES ASSUME ExactInv, ~missed, ~unmatched
               PROVE  Tracked = Open /\ last.span = last.truth
    BY Zenon DEF SpansExact
  <2>1. Tracked \subseteq Open /\ last.span = last.truth
    BY Zenon DEF ExactInv, NoOther, Ids, Tracked
  <2>2. ASSUME NEW x \in Open PROVE x \in Tracked
    <3>1. PICK j \in 1 .. Len(real) : real[j].id = x /\ x # 0
      BY OpenFacts, Zenon DEF ExactInv, SpanInv
    <3> QED
      BY <3>1, Zenon DEF ExactInv, OwnFrames, Has, Tracked
  <2> QED
    BY <2>1, <2>2, Zenon
<1> QED
  BY <1>1, InitExact, NextExact, PTL DEF Spec
=============================================================================
