----------------------------- MODULE PropProofs -----------------------------
(***************************************************************************)
(* The one map entry per thread that get and find share, for any number of *)
(* threads, any nesting and any size of the map and of the ring: a return  *)
(* event describes the call that returns, and a call whose entry was not   *)
(* taken will have its return reported.                                    *)
(***************************************************************************)
EXTENDS PropRead, TLAPS

Frame == [f : {"get", "find"}, call : Nat, ret : BOOLEAN, hit : BOOLEAN]

Typed ==
  /\ stack \in [Threads -> Seq(Frame)] /\ calls \in Nat
  /\ DOMAIN entry \subseteq Threads /\ entry \in [DOMAIN entry -> Nat]

\* The calls a thread is in are numbered upwards, up to the last one made.
Nested ==
  \A t \in Threads : \A i \in DOMAIN stack[t] :
    /\ stack[t][i].call <= calls
    /\ \A j \in DOMAIN stack[t] : i < j => stack[t][i].call < stack[t][j].call

\* A call that is not half probed has both its probes or none.
WholeOrHalf ==
  \A t \in Threads : \A i \in DOMAIN stack[t] :
    stack[t][i].hit = stack[t][i].ret \/ stack[t][i].call \in half

\* Whose the entry of a thread is: of a call the entry probe saw, with no call the
\* probe saw above it, and one whose return was not seen if it is over.
EntryOwned ==
  \A t \in DOMAIN entry :
    /\ entry[t] <= calls
    /\ entry[t] \in half \/ \E i \in DOMAIN stack[t] : stack[t][i].call = entry[t]
    /\ \A i \in DOMAIN stack[t] :
         /\ stack[t][i].call > entry[t] => ~stack[t][i].hit
         /\ stack[t][i].call = entry[t] => stack[t][i].hit

Inv == Typed /\ Nested /\ WholeOrHalf /\ EntryOwned /\ ReturnIsOwn /\ ReturnExpected

\* No call is under way when the probes are attached.
LEMMA InitInv == Init => Inv
  BY DEF Init, Inv, Typed, Nested, WholeOrHalf, EntryOwned, ReturnIsOwn, ReturnExpected

\* Every frame of a thread's stack is a numbered call.
LEMMA CallIsNat ==
  ASSUME Inv, NEW t \in Threads, NEW i \in DOMAIN stack[t]
  PROVE  stack[t][i].call \in Nat
<1>1. stack[t][i] \in Frame
  BY DEF Inv, Typed
<1> QED
  BY <1>1 DEF Frame

\* What storing does: the entry of the thread alone changes, if anything.
LEMMA StoredFacts ==
  ASSUME Typed, NEW t \in Threads, NEW c \in Nat
  PROVE  LET e == Stored(t, c) IN
         /\ DOMAIN e \subseteq Threads /\ e \in [DOMAIN e -> Nat]
         /\ t \in DOMAIN entry => t \in DOMAIN e
         /\ t \in DOMAIN e => e[t] = c
         /\ \A u \in Threads \ {t} : /\ u \in DOMAIN e <=> u \in DOMAIN entry
                                     /\ u \in DOMAIN entry => e[u] = entry[u]
  BY DEF Typed, Stored

\* A call begins.
LEMMA EnterInv ==
  ASSUME Inv, NEW t \in Threads, NEW f \in {"get", "find"}, Enter(t, f)
  PROVE  Inv'
<1> DEFINE c == calls + 1
           new == [f |-> f, call |-> c, ret |-> Has(f \o "_ret"), hit |-> Has(f)]
<1>1. /\ new \in Frame /\ new.call = c /\ new.hit = Has(f) /\ new.ret = Has(f \o "_ret")
      /\ c \in Nat /\ c > calls /\ calls \in Nat
  <2>1. c \in Nat /\ c > calls /\ calls \in Nat
    BY DEF Inv, Typed
  <2>2. new \in Frame
    BY <2>1 DEF Frame, Has
  <2>3. new.call = c /\ new.hit = Has(f) /\ new.ret = Has(f \o "_ret")
    BY Zenon
  <2> QED
    BY <2>1, <2>2, <2>3, SMTT(90)
<1>2. stack' = [stack EXCEPT ![t] = Append(@, new)] /\ calls' = c
  BY DEF Enter
<1> HIDE DEF new
<1>3. /\ stack' \in [Threads -> Seq(Frame)]
      /\ DOMAIN stack'[t] = 1 .. Len(stack[t]) + 1 /\ DOMAIN stack[t] = 1 .. Len(stack[t])
      /\ Len(stack[t]) \in Nat /\ stack'[t][Len(stack[t]) + 1] = new
      /\ \A i \in DOMAIN stack[t] : stack'[t][i] = stack[t][i]
      /\ \A u \in Threads \ {t} : stack'[u] = stack[u]
  <2>1. stack[t] \in Seq(Frame) /\ Append(stack[t], new) \in Seq(Frame)
    BY <1>1 DEF Inv, Typed
  <2>2. stack'[t] = Append(stack[t], new) /\ \A u \in Threads \ {t} : stack'[u] = stack[u]
    BY <1>2 DEF Inv, Typed
  <2>3. stack' \in [Threads -> Seq(Frame)]
    BY <1>2, <2>1, SMTT(90) DEF Inv, Typed
  <2> QED
    BY <2>1, <2>2, <2>3, SMTT(90)
<1>4. /\ half \subseteq half' /\ gone \subseteq gone' /\ rets' = rets
      /\ Has(f) = Has(f \o "_ret") \/ c \in half'
  BY DEF Enter
<1>5. \/ ~Has(f) /\ entry' = entry
      \/ Has(f) /\ entry' = Stored(t, c) /\ gone' = gone \cup Overwritten(t, c)
  BY DEF Enter
<1>6. Typed'
  BY <1>1, <1>2, <1>3, <1>5, StoredFacts, SMTT(90) DEF Inv, Typed
<1>7. ASSUME NEW i \in DOMAIN stack'[t]
      PROVE  \/ i \in DOMAIN stack[t] /\ stack'[t][i] = stack[t][i]
             \/ i = Len(stack[t]) + 1 /\ stack'[t][i] = new
  BY <1>3, SMTT(90)
<1>8. Nested'
  <2> SUFFICES ASSUME NEW u \in Threads, NEW i \in DOMAIN stack'[u]
               PROVE  /\ stack'[u][i].call <= c
                      /\ \A j \in DOMAIN stack'[u] : i < j => stack'[u][i].call < stack'[u][j].call
    BY <1>2, SMTT(90) DEF Nested
  <2>1. CASE u # t
    BY <2>1, <1>1, <1>3, CallIsNat, SMTT(90) DEF Inv, Nested
  <2>2. CASE u = t /\ i \in DOMAIN stack[t]
    <3>1. stack'[t][i] = stack[t][i] /\ stack[t][i].call <= calls /\ stack[t][i].call \in Nat
      BY <2>2, <1>3, CallIsNat, SMTT(90) DEF Inv, Nested
    <3>2. ASSUME NEW j \in DOMAIN stack'[t], i < j
          PROVE  stack'[t][i].call < stack'[t][j].call
      BY <3>1, <3>2, <2>2, <1>1, <1>7, SMTT(90) DEF Inv, Nested
    <3> QED
      BY <3>1, <3>2, <2>2, <1>1, SMTT(90)
  <2>3. CASE u = t /\ i = Len(stack[t]) + 1
    BY <2>3, <1>1, <1>3, SMTT(90)
  <2> QED
    BY <2>1, <2>2, <2>3, <1>3, SMTT(90)
<1>9. WholeOrHalf'
  <2>1. new.hit = new.ret \/ new.call \in half'
    BY <1>1, <1>4, SMTT(90)
  <2> SUFFICES ASSUME NEW u \in Threads, NEW i \in DOMAIN stack'[u]
               PROVE  stack'[u][i].hit = stack'[u][i].ret \/ stack'[u][i].call \in half'
    BY DEF WholeOrHalf
  <2>2. CASE u # t
    BY <2>2, <1>3, <1>4, SMTT(90) DEF Inv, WholeOrHalf
  <2>3. CASE u = t
    BY <2>1, <2>3, <1>4, <1>7, SMTT(90) DEF Inv, WholeOrHalf
  <2> QED
    BY <2>2, <2>3, SMTT(90)
<1>10. ReturnIsOwn'
  BY <1>4, SMTT(90) DEF Inv, ReturnIsOwn
<1>11. EntryOwned'
  <2> SUFFICES ASSUME NEW u \in DOMAIN entry'
               PROVE  (/\ entry[u] <= calls
                       /\ entry[u] \in half \/ \E i \in DOMAIN stack[u] : stack[u][i].call = entry[u]
                       /\ \A i \in DOMAIN stack[u] :
                            /\ stack[u][i].call > entry[u] => ~stack[u][i].hit
                            /\ stack[u][i].call = entry[u] => stack[u][i].hit)'
    BY DEF EntryOwned
  <2>0. u \in Threads
    BY <1>6, SMTT(90) DEF Typed
  <2>1. CASE u # t
    <3>1. u \in DOMAIN entry /\ entry'[u] = entry[u] /\ stack'[u] = stack[u] /\ entry[u] \in Nat
      BY <2>0, <2>1, <1>1, <1>3, <1>5, StoredFacts, SMTT(90) DEF Inv, Typed
    <3> QED
      BY <3>1, <1>1, <1>2, <1>4, SMTT(90) DEF Inv, EntryOwned
  <2>2. CASE u = t /\ Has(f)
    <3>1. entry'[t] = c
      BY <2>2, <1>1, <1>5, StoredFacts, SMTT(90) DEF Inv
    <3>2. ASSUME NEW i \in DOMAIN stack'[t]
          PROVE  /\ ~(stack'[t][i].call > c)
                 /\ stack'[t][i].call = c => stack'[t][i].hit
      <4>1. CASE i \in DOMAIN stack[t]
        <5>1. /\ stack'[t][i].call = stack[t][i].call /\ stack[t][i].call \in Nat
              /\ stack[t][i].call <= calls
          BY <4>1, <1>3, CallIsNat, SMTT(90) DEF Inv, Nested
        <5>2. ~(stack[t][i].call > c) /\ stack[t][i].call # c
          BY <5>1, <1>1, SMTT(90)
        <5> QED
          BY <5>1, <5>2, SMTT(90)
      <4>2. CASE i = Len(stack[t]) + 1
        <5>1. stack'[t][i] = new /\ new.call = c /\ ~(c > c)
          BY <4>2, <1>1, <1>3, SMTT(90)
        <5>2. new.hit
          BY <1>1, <2>2, ZenonT(120)
        <5> QED
          BY <5>1, <5>2, ZenonT(120)
      <4> QED
        BY <4>1, <4>2, <1>3, SMTT(90)
    <3>3. \E i \in DOMAIN stack'[t] : stack'[t][i].call = c
      BY <1>1, <1>3, SMTT(90)
    <3> QED
      BY <3>1, <3>2, <3>3, <2>2, <1>1, <1>2, SMTT(90)
  <2>3. CASE u = t /\ ~Has(f)
    <3>1. entry' = entry /\ entry[t] \in Nat /\ entry[t] <= calls /\ t \in DOMAIN entry
      BY <2>3, <1>5, SMTT(90) DEF Inv, Typed, EntryOwned
    <3>2. ASSUME NEW i \in DOMAIN stack'[t]
          PROVE  /\ stack'[t][i].call > entry[t] => ~stack'[t][i].hit
                 /\ stack'[t][i].call = entry[t] => stack'[t][i].hit
      <4>1. CASE i \in DOMAIN stack[t]
        BY <4>1, <3>1, <1>3, SMTT(90) DEF Inv, EntryOwned
      <4>2. CASE i = Len(stack[t]) + 1
        BY <4>2, <3>1, <1>1, <1>3, <2>3, SMTT(90)
      <4> QED
        BY <4>1, <4>2, <1>3, SMTT(90)
    <3>3. entry[t] \in half \/ \E i \in DOMAIN stack'[t] : stack'[t][i].call = entry[t]
      <4>1. CASE entry[t] \in half
        BY <4>1, SMTT(90)
      <4>2. CASE entry[t] \notin half
        <5>1. PICK i \in DOMAIN stack[t] : stack[t][i].call = entry[t]
          BY <3>1, <4>2, SMTT(90) DEF Inv, EntryOwned
        <5>2. i \in DOMAIN stack'[t] /\ stack'[t][i].call = entry[t]
          BY <5>1, <1>3, SMTT(90)
        <5> QED
          BY <5>2, SMTT(90)
      <4> QED
        BY <4>1, <4>2, SMTT(90)
    <3> QED
      BY <3>1, <3>2, <3>3, <2>3, <1>1, <1>2, <1>4, SMTT(90)
  <2> QED
    BY <2>1, <2>2, <2>3, SMTT(90)
<1>12. ReturnExpected'
  <2> SUFFICES ASSUME NEW u \in Threads, NEW i \in DOMAIN stack'[u], stack'[u][i].ret,
                      stack'[u][i].hit, stack'[u][i].call \notin gone'
               PROVE  u \in DOMAIN entry' /\ entry'[u] = stack'[u][i].call
    BY DEF ReturnExpected
  <2>1. CASE u # t
    <3>1. /\ u \in DOMAIN entry => u \in DOMAIN entry' /\ entry'[u] = entry[u]
          /\ stack'[u] = stack[u] /\ stack'[u][i].call \notin gone
      BY <2>1, <1>1, <1>3, <1>4, <1>5, StoredFacts, SMTT(90) DEF Inv
    <3> QED
      BY <3>1, SMTT(90) DEF Inv, ReturnExpected
  <2>2. CASE u = t /\ i \in DOMAIN stack[t]
    <3>1. /\ stack'[t][i] = stack[t][i] /\ t \in DOMAIN entry
          /\ entry[t] = stack[t][i].call
      BY <2>2, <1>3, <1>4, SMTT(90) DEF Inv, ReturnExpected
    <3>2. ~Has(f)
      BY <2>2, <3>1, <1>5, SMTT(90) DEF Overwritten
    <3> QED
      BY <3>1, <3>2, <2>2, <1>5, SMTT(90)
  <2>3. CASE u = t /\ i = Len(stack[t]) + 1
    <3>1. Has(f) /\ c \notin gone'
      BY <2>3, <1>1, <1>3, SMTT(90)
    <3>2. t \in DOMAIN Stored(t, c)
      BY <3>1, <1>5, SMTT(90) DEF Overwritten
    <3> QED
      BY <3>1, <3>2, <2>3, <1>1, <1>3, <1>5, StoredFacts, SMTT(90) DEF Inv
  <2> QED
    BY <2>1, <2>2, <2>3, <1>3, SMTT(90)
<1> QED
  BY <1>6, <1>8, <1>9, <1>10, <1>11, <1>12, SMTT(90) DEF Inv

\* A call returns: it is the last of its thread's, so the entry is its own unless
\* one of the two calls had only one probe.
LEMMA ReturnInv ==
  ASSUME Inv, NEW t \in Threads, Return(t)
  PROVE  Inv'
<1> DEFINE n == Len(stack[t])
           c == stack[t][n]
<1>1. /\ stack[t] \in Seq(Frame) /\ n \in Nat /\ n > 0 /\ DOMAIN stack[t] = 1 .. n
      /\ n \in DOMAIN stack[t] /\ c.call \in Nat
  <2>1. stack[t] \in Seq(Frame) /\ stack[t] # <<>>
    BY DEF Inv, Typed, Return
  <2>2. n \in Nat /\ n > 0 /\ DOMAIN stack[t] = 1 .. n /\ n \in DOMAIN stack[t]
    BY <2>1, SMTT(90)
  <2> QED
    BY <2>1, <2>2, CallIsNat, SMTT(90)
<1>2. /\ stack' \in [Threads -> Seq(Frame)]
      /\ DOMAIN stack'[t] = 1 .. n - 1 /\ \A i \in 1 .. n - 1 : stack'[t][i] = stack[t][i]
      /\ \A u \in Threads \ {t} : stack'[u] = stack[u]
  <2>1. stack' = [stack EXCEPT ![t] = SubSeq(stack[t], 1, n - 1)]
    BY DEF Return, Front
  <2>2. /\ SubSeq(stack[t], 1, n - 1) \in Seq(Frame) /\ Len(SubSeq(stack[t], 1, n - 1)) = n - 1
        /\ \A i \in 1 .. n - 1 : SubSeq(stack[t], 1, n - 1)[i] = stack[t][i]
    BY <1>1
  <2> QED
    BY <1>1, <2>1, <2>2, SMTT(90) DEF Inv, Typed
<1>3. calls' = calls /\ half' = half /\ calls \in Nat
  BY SMTT(90) DEF Return, Inv, Typed
<1>4. \/ /\ c.ret /\ t \in DOMAIN entry /\ rets' = rets \cup {<<c.call, entry[t]>>}
         /\ entry' = Without(t) /\ gone' = gone \cup {entry[t]}
      \/ /\ ~(c.ret /\ t \in DOMAIN entry)
         /\ entry' = entry /\ gone' = gone /\ rets' = rets
  BY DEF Return
<1> HIDE DEF c, n
<1>5. Typed'
  BY <1>2, <1>3, <1>4, SMTT(90) DEF Inv, Typed, Without
<1>6. \A u \in Threads : \A i \in DOMAIN stack'[u] :
         i \in DOMAIN stack[u] /\ stack'[u][i] = stack[u][i]
  BY <1>1, <1>2, SMTT(90)
<1>7. Nested' /\ WholeOrHalf'
  BY <1>3, <1>6, SMTT(90) DEF Inv, Nested, WholeOrHalf
<1>8. ASSUME t \in DOMAIN entry, c.ret
      PROVE  c.call = entry[t] \/ c.call \in half \/ entry[t] \in half
  <2>1. entry[t] \in Nat
    BY <1>8, SMTT(90) DEF Inv, Typed
  <2>2. CASE entry[t] < c.call
    <3>1. ~c.hit
      BY <1>1, <1>8, <2>1, <2>2, SMTT(90) DEF Inv, EntryOwned, c
    <3> QED
      BY <1>1, <1>8, <3>1, SMTT(90) DEF Inv, WholeOrHalf, c
  <2>3. CASE entry[t] > c.call
    <3>1. ASSUME NEW i \in DOMAIN stack[t] PROVE stack[t][i].call # entry[t]
      <4>1. i < n \/ i = n
        BY <1>1, SMTT(90)
      <4>2. stack[t][i].call <= c.call /\ stack[t][i].call \in Nat
        BY <4>1, <1>1, CallIsNat, SMTT(90) DEF Inv, Nested, c
      <4> QED
        BY <4>2, <2>1, <2>3, <1>1, SMTT(90)
    <3> QED
      BY <3>1, <1>8, SMTT(90) DEF Inv, EntryOwned
  <2> QED
    BY <2>1, <2>2, <2>3, <1>1, SMTT(90)
<1>9. ReturnIsOwn'
  BY <1>3, <1>4, <1>8, SMTT(90) DEF Inv, ReturnIsOwn
<1>10. ASSUME NEW u \in DOMAIN entry'
       PROVE  u \in DOMAIN entry /\ entry'[u] = entry[u] /\ u \in Threads
  BY <1>4, SMTT(90) DEF Without, Inv, Typed
<1>11. EntryOwned'
  <2> SUFFICES ASSUME NEW u \in DOMAIN entry'
               PROVE  (/\ entry[u] <= calls
                       /\ entry[u] \in half \/ \E i \in DOMAIN stack[u] : stack[u][i].call = entry[u]
                       /\ \A i \in DOMAIN stack[u] :
                            /\ stack[u][i].call > entry[u] => ~stack[u][i].hit
                            /\ stack[u][i].call = entry[u] => stack[u][i].hit)'
    BY DEF EntryOwned
  <2>1. /\ entry'[u] <= calls'
        /\ \A i \in DOMAIN stack'[u] :
              /\ stack'[u][i].call > entry'[u] => ~stack'[u][i].hit
              /\ stack'[u][i].call = entry'[u] => stack'[u][i].hit
    BY <1>3, <1>6, <1>10, SMTT(90) DEF Inv, EntryOwned
  <2>2. entry'[u] \in half' \/ \E i \in DOMAIN stack'[u] : stack'[u][i].call = entry'[u]
    <3>1. CASE u # t \/ entry[u] \in half
      BY <3>1, <1>2, <1>3, <1>10, SMTT(90) DEF Inv, EntryOwned
    <3>2. CASE u = t /\ entry[t] \notin half
      <4>1. PICK i \in DOMAIN stack[t] : stack[t][i].call = entry[t]
        BY <3>2, <1>10, SMTT(90) DEF Inv, EntryOwned
      <4>2. CASE i = n
        <5>1. c.call = entry[t] /\ c.hit /\ t \in DOMAIN entry
          BY <4>1, <4>2, <3>2, <1>10, SMTT(90) DEF Inv, EntryOwned, c
        <5>2. c.ret
          BY <5>1, <3>2, <1>1, SMTT(90) DEF Inv, WholeOrHalf, c
        <5> QED
          BY <5>1, <5>2, <3>2, <1>4, SMTT(90) DEF Without
      <4>3. CASE i # n
        BY <4>1, <4>3, <3>2, <1>1, <1>2, <1>10, SMTT(90)
      <4> QED
        BY <4>2, <4>3, SMTT(90)
    <3> QED
      BY <3>1, <3>2, SMTT(90)
  <2> QED
    BY <2>1, <2>2, SMTT(90)
<1>12. ReturnExpected'
  <2> SUFFICES ASSUME NEW u \in Threads, NEW i \in DOMAIN stack'[u], stack'[u][i].ret,
                      stack'[u][i].hit, stack'[u][i].call \notin gone'
               PROVE  u \in DOMAIN entry' /\ entry'[u] = stack'[u][i].call
    BY SMTT(90) DEF ReturnExpected
  <2>1. u \in DOMAIN entry /\ entry[u] = stack[u][i].call /\ stack'[u][i] = stack[u][i]
    BY <1>4, <1>6, SMTT(90) DEF Inv, ReturnExpected
  <2>2. entry' = entry \/ u # t
    BY <2>1, <1>4, SMTT(90)
  <2> QED
    BY <2>1, <2>2, <1>4, SMTT(90) DEF Without
<1> QED
  BY <1>5, <1>7, <1>9, <1>11, <1>12, SMTT(90) DEF Inv

\* Every entry and return of get and find keeps the invariant.
LEMMA NextInv == Inv /\ [Next]_vars => Inv'
<1> SUFFICES ASSUME Inv, [Next]_vars PROVE Inv'
  OBVIOUS
<1>1. CASE Attach \/ Handle \/ UNCHANGED vars \/ \E f \in {"fore", "cb"} : Sweep(f)
  <2>1. /\ UNCHANGED <<stack, entry, half, gone, rets>>
        /\ calls \in Nat /\ (calls' = calls \/ calls' = calls + 1)
    BY <1>1 DEF Attach, Handle, Sweep, vars, Inv, Typed
  <2>2. ASSUME NEW t \in DOMAIN entry PROVE entry[t] \in Nat
    BY SMTT(90) DEF Inv, Typed
  <2>3. Nested' /\ EntryOwned'
    BY <2>1, <2>2, CallIsNat, SMTT(90) DEF Inv, Nested, EntryOwned
  <2> QED
    BY <2>1, <2>3, SMTT(90) DEF Inv, Typed, WholeOrHalf, ReturnIsOwn, ReturnExpected
<1> QED
  BY <1>1, EnterInv, ReturnInv, SMTT(90) DEF Next

\* However get and find nest in a thread and whenever the probes were attached, a
\* return event names the call that returns, unless a call was half probed.
THEOREM ReturnsNameTheirCall == Spec => []ReturnIsOwn
<1>1. Inv => ReturnIsOwn
  BY SMTT(90) DEF Inv
<1> QED
  BY <1>1, InitInv, NextInv, PTL DEF Spec

\* A fully probed call under way will have its return reported, unless a nested
\* call took the thread's entry or the map was full.
THEOREM ReturnsWillBeSeen == Spec => []ReturnExpected
<1>1. Inv => ReturnExpected
  BY DEF Inv
<1> QED
  BY <1>1, InitInv, NextInv, PTL DEF Spec
==============================================================================
