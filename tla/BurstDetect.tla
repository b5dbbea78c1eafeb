---------------------------- MODULE BurstDetect ----------------------------
(***************************************************************************)
(* The burst analyzers of `anubee mod': massdelete-detect counts renames   *)
(* and unlinks on external storage, accessibility-detect counts Binder     *)
(* calls to system_server; THRESHOLD of them within WINDOW raise an alert  *)
(* (record_touch of modules/massdelete_detect.bpf.c, which record_call of  *)
(* modules/accessibility_detect.bpf.c mirrors).                            *)
(*                                                                         *)
(* The counters of a process live in one map value that its threads update *)
(* from several CPUs without a lock, so every load and store is a step.    *)
(* A touch is the item it names: a path, or a transaction code.            *)
(***************************************************************************)
EXTENDS Integers, Sequences, FiniteSetsExt

CONSTANTS Procs, Threads,
          Items,          \* paths on external storage, or transaction codes
          THRESHOLD, RING_LEN, WINDOW,
          DISTINCT_MIN,   \* MASSDELETE_DETECT_DISTINCT_MIN
          MapCap,         \* max_entries of burst_map
          RingCap,        \* events the ring buffer holds
          StatMax,        \* RB_STAT_MAX
          MaxTouches,     \* bound on the touches made
          MaxRaced,       \* bound on the touches of threads that meet in the handler
          MaxTime,        \* bound on the clock
          None

ASSUME RingAssumption == RING_LEN > THRESHOLD
ASSUME BoundsAssumption ==
    {THRESHOLD, RING_LEN, WINDOW, DISTINCT_MIN, MapCap, RingCap, StatMax, MaxTouches,
     MaxRaced, MaxTime}
       \subseteq Nat
ASSUME NoneAssumption == None \notin Items

VARIABLES proc,           \* the process of each thread
          clock,
          h,              \* per thread: where it is in record_touch, and its locals
          burst,          \* burst_map: per process its state, or None
          ring, drops,    \* events_rb and the drop counter
          stats,          \* rb_stats: per process, bursts and the largest distinct count
          log,            \* history: per process, the touches in order
          alerts,         \* history: per process, alerts raised or dropped
          raced           \* history: processes two of whose threads met in the handler

vars == <<proc, clock, h, burst, ring, drops, stats, log, alerts, raced>>

Slots == 0 .. RING_LEN - 1
Idle == [pc |-> "idle", now |-> 0, item |-> None, tmp |-> 0]

\* burst_zero, the template of a fresh map value.
Zero == [window_start |-> 0, count |-> 0, ring_head |-> 0, slots |-> [s \in Slots |-> None]]

Init ==
    /\ proc \in [Threads -> Procs]
    /\ clock = 0
    /\ h = [t \in Threads |-> Idle]
    /\ burst = [p \in Procs |-> None]
    /\ ring = <<>>
    /\ drops = 0
    /\ stats = [p \in Procs |-> None]
    /\ log = [p \in Procs |-> <<>>]
    /\ alerts = [p \in Procs |-> 0]
    /\ raced = {}

-----------------------------------------------------------------------------
(* record_touch.                                                           *)

At(t, pc) == h[t].pc = pc
Goto(t, pc) == h' = [h EXCEPT ![t].pc = pc]
Leave(t) == h' = [h EXCEPT ![t] = Idle]
State(t) == burst[proc[t]]
Set(t, st) == burst' = [burst EXCEPT ![proc[t]] = st]

uvars == <<ring, drops, stats, alerts>>
hist == <<proc, clock, log, raced>>

\* on_renameat, on_renameat2, on_unlinkat or on_binder_transaction has let the touch
\* through; the clock is read.
Touch(t, i) ==
    /\ At(t, "idle")
    /\ MapThenSumSet(LAMBDA p : Len(log[p]), Procs) < MaxTouches
    /\ raced' = IF \E u \in Threads \ {t} : proc[u] = proc[t] /\ ~At(u, "idle")
                THEN raced \cup {proc[t]} ELSE raced
    /\ proc[t] \in raced' => Len(log[proc[t]]) < MaxRaced
    /\ h' = [h EXCEPT ![t] = [pc |-> "lookup", now |-> clock, item |-> i, tmp |-> 0]]
    /\ log' = [log EXCEPT ![proc[t]] = Append(@, [at |-> clock, item |-> i, trips |-> FALSE])]
    /\ UNCHANGED <<proc, clock, burst, uvars>>

Lookup(t) ==
    /\ At(t, "lookup")
    /\ Goto(t, IF State(t) = None THEN "insert" ELSE "window")
    /\ UNCHANGED <<burst, uvars, hist>>

\* Plausible bug: the capacity of the map is not respected.
Insert_Unbounded(t) ==
    /\ At(t, "insert")
    /\ IF State(t) = None
       THEN Set(t, Zero) /\ Goto(t, "start")
       ELSE UNCHANGED burst /\ Leave(t)
    /\ UNCHANGED <<uvars, hist>>

\* BPF_NOEXIST: another thread may have been faster, or the map may be full; the
\* touch is then not counted.
Insert(t) ==
    /\ At(t, "insert")
    /\ IF State(t) = None /\ Cardinality({p \in Procs : burst[p] # None}) < MapCap
       THEN Set(t, Zero) /\ Goto(t, "start")
       ELSE UNCHANGED burst /\ Leave(t)
    /\ UNCHANGED <<uvars, hist>>

Start(t) ==
    /\ At(t, "start")
    /\ Set(t, [State(t) EXCEPT !.window_start = h[t].now])
    /\ Goto(t, "window")
    /\ UNCHANGED <<uvars, hist>>

\* now - window_start > WINDOW on unsigned numbers: a start that lies in the
\* thread's future has expired too.
Expired(now, start) == now < start \/ now - start > WINDOW

Window(t) ==
    /\ At(t, "window")
    /\ Goto(t, IF Expired(h[t].now, State(t).window_start) THEN "reset1" ELSE "slot")
    /\ UNCHANGED <<burst, uvars, hist>>

\* The reset of the state: three stores, at the start of a new window (resetK) or
\* after an alert (rearmK).
Store1(t) ==
    /\ h[t].pc \in {"reset1", "rearm1"}
    /\ Set(t, [State(t) EXCEPT !.window_start = h[t].now])
    /\ Goto(t, IF At(t, "reset1") THEN "reset2" ELSE "rearm2")
    /\ UNCHANGED <<uvars, hist>>

Store2(t) ==
    /\ h[t].pc \in {"reset2", "rearm2"}
    /\ Set(t, [State(t) EXCEPT !.count = 0])
    /\ Goto(t, IF At(t, "reset2") THEN "reset3" ELSE "rearm3")
    /\ UNCHANGED <<uvars, hist>>

Store3(t) ==
    /\ h[t].pc \in {"reset3", "rearm3"}
    /\ Set(t, [State(t) EXCEPT !.ring_head = 0])
    /\ IF At(t, "reset3") THEN Goto(t, "slot") ELSE Leave(t)
    /\ UNCHANGED <<uvars, hist>>

\* The item goes into its slot of the ring.
WriteSlot(t) ==
    /\ At(t, "slot")
    /\ Set(t, [State(t) EXCEPT !.slots[State(t).ring_head % RING_LEN] = h[t].item])
    /\ Goto(t, "head")
    /\ UNCHANGED <<uvars, hist>>

\* ring_head++: a load and a store.
LoadHead(t) ==
    /\ At(t, "head")
    /\ h' = [h EXCEPT ![t].pc = "head2", ![t].tmp = State(t).ring_head]
    /\ UNCHANGED <<burst, uvars, hist>>

StoreHead(t) ==
    /\ At(t, "head2")
    /\ Set(t, [State(t) EXCEPT !.ring_head = h[t].tmp + 1])
    /\ Goto(t, "count")
    /\ UNCHANGED <<uvars, hist>>

\* count++: likewise.
LoadCount(t) ==
    /\ At(t, "count")
    /\ h' = [h EXCEPT ![t].pc = "count2", ![t].tmp = State(t).count]
    /\ UNCHANGED <<burst, uvars, hist>>

Trips(c) == c + 1 = THRESHOLD

\* The count is stored, and the value just stored is compared with the threshold.
StoreCount(t) ==
    /\ At(t, "count2")
    /\ Set(t, [State(t) EXCEPT !.count = h[t].tmp + 1])
    /\ IF Trips(h[t].tmp)
       THEN /\ Goto(t, "emit")
            /\ log' = [log EXCEPT ![proc[t]][Len(log[proc[t]])].trips = TRUE]
       ELSE Leave(t) /\ UNCHANGED log
    /\ UNCHANGED <<uvars, proc, clock, raced>>

\* The last touches of process p, as many as the threshold.
LastTouches(p) == SubSeq(log[p], Max({1, Len(log[p]) - THRESHOLD + 1}), Len(log[p]))

\* Plausible bug: the count stays at the threshold after the alert.
EmitAlert_NoRearm(t) ==
    /\ At(t, "emit")
    /\ IF Len(ring) < RingCap
       THEN /\ ring' = Append(ring, [pid |-> proc[t], touch_count |-> State(t).count,
                                     window |-> h[t].now - State(t).window_start,
                                     slots |-> State(t).slots,
                                     truth |-> LastTouches(proc[t])])
            /\ UNCHANGED drops
       ELSE drops' = drops + 1 /\ UNCHANGED ring
    /\ alerts' = [alerts EXCEPT ![proc[t]] = @ + 1]
    /\ Leave(t)
    /\ UNCHANGED <<burst, stats, hist>>

\* Reserve, fill from the shared state, submit; or count a drop.  Either way the
\* state is re-armed.
EmitAlert(t) ==
    /\ At(t, "emit")
    /\ IF Len(ring) < RingCap
       THEN /\ ring' = Append(ring, [pid |-> proc[t], touch_count |-> State(t).count,
                                     window |-> h[t].now - State(t).window_start,
                                     slots |-> State(t).slots,
                                     truth |-> LastTouches(proc[t])])
            /\ UNCHANGED drops
       ELSE drops' = drops + 1 /\ UNCHANGED ring
    /\ alerts' = [alerts EXCEPT ![proc[t]] = @ + 1]
    /\ Goto(t, "rearm1")
    /\ UNCHANGED <<burst, stats, hist>>

-----------------------------------------------------------------------------
(* The poll loop.                                                          *)

\* How many of the first n slots hold an item that no earlier one holds.
burst_distinct_count(slots, n) ==
    Cardinality({i \in 0 .. n - 1 : \A j \in 0 .. i - 1 : slots[j] # slots[i]})

classify_burst(touch_count, distinct) == touch_count >= THRESHOLD /\ distinct >= DISTINCT_MIN

rb_stat_add(p, distinct) ==
    IF stats[p] # None
    THEN [stats EXCEPT ![p] = [bursts |-> @.bursts + 1, max_distinct |-> Max({@.max_distinct, distinct})]]
    ELSE IF Cardinality({q \in Procs : stats[q] # None}) < StatMax
    THEN [stats EXCEPT ![p] = [bursts |-> 1, max_distinct |-> distinct]]
    ELSE stats

rb_handle_event ==
    /\ ring # <<>>
    /\ LET e == Head(ring)
       IN  stats' = rb_stat_add(e.pid, burst_distinct_count(e.slots, e.touch_count))
    /\ ring' = Tail(ring)
    /\ UNCHANGED <<h, burst, drops, alerts, hist>>

Tick ==
    /\ clock < MaxTime
    /\ clock' = clock + 1
    /\ UNCHANGED <<proc, h, burst, uvars, log, raced>>

record_touch(t) ==
    \/ \E i \in Items : Touch(t, i)
    \/ Lookup(t) \/ Insert(t) \/ Start(t) \/ Window(t)
    \/ Store1(t) \/ Store2(t) \/ Store3(t)
    \/ WriteSlot(t) \/ LoadHead(t) \/ StoreHead(t) \/ LoadCount(t) \/ StoreCount(t)
    \/ EmitAlert(t)

Next == (\E t \in Threads : record_touch(t)) \/ rb_handle_event \/ Tick

Spec == Init /\ [][Next]_vars
-----------------------------------------------------------------------------
(* Properties.                                                             *)

Event == [pid : Procs, touch_count : Nat, window : Int, slots : [Slots -> Items \cup {None}],
          truth : Seq([at : Nat, item : Items, trips : BOOLEAN])]

\* The map value, the events and the tally are of their types; also with racing
\* threads no counter leaves its range.
TypeOK ==
    /\ proc \in [Threads -> Procs]
    /\ clock \in 0 .. MaxTime
    /\ \A t \in Threads : h[t].now \in 0 .. MaxTime /\ h[t].item \in Items \cup {None}
    /\ \A p \in Procs : burst[p] # None =>
          /\ burst[p].window_start \in 0 .. MaxTime
          /\ burst[p].count \in 0 .. MaxTouches /\ burst[p].ring_head \in 0 .. MaxTouches
          /\ burst[p].slots \in [Slots -> Items \cup {None}]
    /\ ring \in Seq(Event) /\ Len(ring) <= RingCap
    /\ Cardinality({p \in Procs : burst[p] # None}) <= MapCap
    /\ Cardinality({p \in Procs : stats[p] # None}) <= StatMax

\* The slots an alert's distinct count is taken from hold exactly the touches that
\* made up the burst, in order, and the alert says how many they are.
SlotsOfWindow(e) ==
    /\ e.touch_count = THRESHOLD
    /\ \A n \in 1 .. THRESHOLD : e.slots[n - 1] = e.truth[n].item

\* When no two threads of the process met in the handler, an alert stands for
\* THRESHOLD touches that all lie within WINDOW, its slots are theirs, and it is
\* classified by the number of different items among them.
AlertExact ==
    \A n \in DOMAIN ring : LET e == ring[n] IN
       e.pid \notin raced =>
          /\ SlotsOfWindow(e)
          /\ e.truth[THRESHOLD].at - e.truth[1].at <= WINDOW
          /\ 0 <= e.window /\ e.window <= WINDOW
          /\ LET items == {e.truth[i].item : i \in DOMAIN e.truth}
             IN  classify_burst(e.touch_count, burst_distinct_count(e.slots, e.touch_count))
                   <=> Cardinality(items) >= DISTINCT_MIN

Quiet(p) == \A t \in Threads : proc[t] = p => At(t, "idle")

\* The window tumbles, it does not slide, and still no burst of 2 * THRESHOLD - 1
\* touches within WINDOW passes unnoticed: one of them trips the threshold, also
\* right after an alert, a drop or a new window.
NoBurstMissed ==
    \A p \in Procs \ raced : burst[p] # None /\ Quiet(p) =>
       \A n \in 1 .. Len(log[p]) - (2 * THRESHOLD - 2) :
          LET last == n + 2 * THRESHOLD - 2
          IN  log[p][last].at - log[p][n].at <= WINDOW =>
                 \E k \in n .. last : log[p][k].trips

\* However the threads of a process race, lost and repeated updates never raise an
\* alert before the process has made THRESHOLD touches, nor two for one touch.
AlertsBacked == \A p \in Procs : alerts[p] <= Max({0, Len(log[p]) - THRESHOLD + 1})
=============================================================================
