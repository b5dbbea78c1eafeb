---------------------------- MODULE TraceProofs ----------------------------
(***************************************************************************)
(* `anubee trace' with any number of engines: by whatever path the run     *)
(* ends, no engine stays armed, an engine is torn down only when nobody    *)
(* uses it any more, and a second signal that cuts a drain short says so.  *)
(***************************************************************************)
EXTENDS TraceRun, TLAPS

(* The types the argument needs; counters of events are not among them. *)
Typed ==
    /\ main \in [at : {"setup", "launch", "spawn", "inline", "join", "teardown", "drain",
                       "merge", "over", "aborted", "killed"}, k : K]
    /\ eng \in [K -> {"off", "armed", "down"}]
    /\ poll \in [K -> {"none", "thread", "main", "done"}]
    /\ queue \in [K -> Nat]

(* Which engines are armed follows from where the main thread is: setup    *)
(* arms them upwards, the teardown takes them down from the last one that  *)
(* was armed.                                                              *)
EngPhase ==
    /\ At("setup") => \A j \in K : /\ j < main.k => eng[j] = "armed"
                                   /\ j >= main.k => eng[j] = "off"
    /\ main.at \in {"launch", "spawn", "inline", "join"} => \A j \in K : eng[j] = "armed"
    /\ main.at \in {"teardown", "drain"} => \A j \in K : /\ j <= main.k => eng[j] = "armed"
                                                         /\ j > main.k => eng[j] # "armed"
    /\ main.at \in {"merge", "over"} => \A j \in K : eng[j] # "armed"

(* Which run() is under way: none before the spawn loop, none after the    *)
(* join; in between the fall-back picks up what has no thread.             *)
PollPhase ==
    /\ main.at \in {"setup", "launch"} => \A j \in K : poll[j] = "none"
    /\ At("spawn") => \A j \in K : poll[j] # "main" /\ (j >= main.k => poll[j] = "none")
    /\ At("inline") => \A j \in K : /\ j < main.k => poll[j] \in {"thread", "done"}
                                    /\ j > main.k => poll[j] # "main"
    /\ At("join") => \A j \in K : poll[j] \in {"thread", "done"} /\ (j < main.k => poll[j] = "done")
    /\ main.at \in {"teardown", "drain", "merge", "over"} => \A j \in K : poll[j] \in {"none", "done"}

(* A queue that is closed is empty, and only a worker's engine has one. *)
QueuePhase == \A j \in K : eng[j] = "down" \/ ~HasQueue(j) => queue[j] = 0

DrainAnnounced == At("drain") => g_drain_active = TRUE

Inv == Typed /\ EngPhase /\ PollPhase /\ QueuePhase /\ DrainAnnounced

-----------------------------------------------------------------------------
(* Nobody polls an engine that is down. *)
LEMMA DownIsIdle ==
    ASSUME Inv, NEW j \in K, eng[j] = "down"
    PROVE  ~Polling(j)
  BY DEF Inv, Typed, EngPhase, PollPhase, Polling, Alive, At

(* Nothing is armed before the engines are set up. *)
LEMMA InitInv == ConstantsOK /\ Init => Inv
  BY DEF ConstantsOK, Init, Inv, Typed, EngPhase, PollPhase, QueuePhase, DrainAnnounced, At, K

(* The main thread up to the join. *)
LEMMA StartInv ==
    ASSUME ConstantsOK, Inv, Setup \/ Launch \/ Spawn \/ Inline \/ Join
    PROVE  Inv'
<1>0. Len(Engines) \in Nat \ {0} /\ main.k \in K /\ K = 1 .. Len(Engines)
  BY DEF ConstantsOK, Inv, Typed, K
<1>1. CASE Setup
  <2>0. At("setup") /\ UNCHANGED <<poll, queue, g_drain_active>>
    BY <1>1 DEF Setup, evars
  <2>1. CASE eng' = [eng EXCEPT ![main.k] = "armed"] /\ main' = Up("setup", main.k, "launch")
    <3>1. CASE main.k < Len(Engines)
      <4>1. main' = [at |-> "setup", k |-> main.k + 1] /\ main.k + 1 \in K
        BY <2>1, <3>1, <1>0 DEF Up
      <4> QED
        BY <1>0, <2>0, <2>1, <4>1, SMTT(90) DEF Inv, Typed, EngPhase, PollPhase, QueuePhase,
        DrainAnnounced, At
    <3>2. CASE ~(main.k < Len(Engines))
      <4>1. main' = [at |-> "launch", k |-> 1] /\ \A j \in K : j <= main.k
        BY <2>1, <3>2, <1>0 DEF Up
      <4> QED
        BY <1>0, <2>0, <2>1, <4>1 DEF Inv, Typed, EngPhase, PollPhase, QueuePhase,
        DrainAnnounced, At
    <3> QED
      BY <3>1, <3>2
  <2>2. CASE eng' = eng /\ main' = DownFrom(main.k - 1, "setup")
    <3>1. CASE main.k > 1
      <4>1. main' = [at |-> "teardown", k |-> main.k - 1] /\ main.k - 1 \in K
        BY <2>2, <3>1, <1>0 DEF DownFrom
      <4>2. Typed'
        BY <1>0, <2>0, <2>2, <4>1 DEF Inv, Typed
      <4>3. EngPhase'
        BY <1>0, <2>0, <2>2, <4>1 DEF Inv, Typed, EngPhase, At
      <4>4. PollPhase'
        BY <1>0, <2>0, <2>2, <4>1 DEF Inv, Typed, PollPhase, At
      <4>5. QueuePhase' /\ DrainAnnounced'
        BY <1>0, <2>0, <2>2, <4>1 DEF Inv, QueuePhase, DrainAnnounced, At
      <4> QED
        BY <4>2, <4>3, <4>4, <4>5 DEF Inv
    <3>2. CASE ~(main.k > 1)
      <4>1. main' = [at |-> "over", k |-> 1] /\ \A j \in K : j >= main.k
        BY <2>2, <3>2, <1>0 DEF DownFrom
      <4> QED
        BY <1>0, <2>0, <2>2, <4>1 DEF Inv, Typed, EngPhase, PollPhase, QueuePhase,
        DrainAnnounced, At
    <3> QED
      BY <3>1, <3>2
  <2> QED
    BY <1>1, <2>1, <2>2 DEF Setup
<1>2. CASE Launch
  BY <1>0, <1>2 DEF Launch, Up, DownFrom, evars, Inv, Typed, EngPhase, PollPhase, QueuePhase,
        DrainAnnounced, At
<1>3. CASE Spawn
  <2>0. At("spawn") /\ UNCHANGED <<eng, queue, g_drain_active>>
    BY <1>3 DEF Spawn, evars
  <2>1. poll' = poll \/ poll' = [poll EXCEPT ![main.k] = "thread"]
    BY <1>3 DEF Spawn
  <2>2. CASE main.k < Len(Engines)
    <3>1. main' = [at |-> "spawn", k |-> main.k + 1] /\ main.k + 1 \in K
      BY <1>3, <2>2, <1>0 DEF Spawn, Up
    <3>2. Typed'
      BY <1>0, <2>0, <2>1, <3>1 DEF Inv, Typed
    <3>3. EngPhase'
      BY <1>0, <2>0, <2>1, <3>1 DEF Inv, Typed, EngPhase, At
    <3>4. PollPhase'
      BY <1>0, <2>0, <2>1, <3>1 DEF Inv, Typed, PollPhase, At
    <3>5. QueuePhase' /\ DrainAnnounced'
      BY <1>0, <2>0, <2>1, <3>1 DEF Inv, QueuePhase, DrainAnnounced, At
    <3> QED
      BY <3>2, <3>3, <3>4, <3>5 DEF Inv
  <2>3. CASE ~(main.k < Len(Engines))
    <3>1. main' = [at |-> "inline", k |-> 1]
      BY <1>3, <2>3, <1>0 DEF Spawn, Up
    <3>2. Typed'
      BY <1>0, <2>0, <2>1, <3>1 DEF Inv, Typed
    <3>3. EngPhase'
      BY <1>0, <2>0, <2>1, <3>1 DEF Inv, Typed, EngPhase, At
    <3>4. PollPhase'
      BY <1>0, <2>0, <2>1, <3>1 DEF Inv, Typed, PollPhase, At
    <3>5. QueuePhase' /\ DrainAnnounced'
      BY <1>0, <2>0, <2>1, <3>1 DEF Inv, QueuePhase, DrainAnnounced, At
    <3> QED
      BY <3>2, <3>3, <3>4, <3>5 DEF Inv
  <2> QED
    BY <2>2, <2>3
<1>4. CASE Inline
  <2>0. At("inline") /\ UNCHANGED <<eng, queue, g_drain_active>>
    BY <1>4 DEF Inline, evars
  <2>1. CASE poll' = [poll EXCEPT ![main.k] = "main"] /\ main' = main
    BY <1>0, <2>0, <2>1 DEF Inv, Typed, EngPhase, PollPhase, QueuePhase,
        DrainAnnounced, At
  <2>2. CASE /\ poll' = poll /\ poll[main.k] \notin {"none", "main"}
             /\ main' = Up("inline", main.k, "join")
    <3>1. CASE main.k < Len(Engines)
      <4>1. main' = [at |-> "inline", k |-> main.k + 1] /\ main.k + 1 \in K
        BY <2>2, <3>1, <1>0 DEF Up
      <4> QED
        BY <1>0, <2>0, <2>2, <4>1 DEF Inv, Typed, EngPhase, PollPhase, QueuePhase,
        DrainAnnounced, At
    <3>2. CASE ~(main.k < Len(Engines))
      <4>1. main' = [at |-> "join", k |-> 1] /\ \A j \in K : j <= main.k
        BY <2>2, <3>2, <1>0 DEF Up
      <4> QED
        BY <1>0, <2>0, <2>2, <4>1 DEF Inv, Typed, EngPhase, PollPhase, QueuePhase,
        DrainAnnounced, At
    <3> QED
      BY <3>1, <3>2
  <2> QED
    BY <1>4, <2>1, <2>2 DEF Inline
<1>5. CASE Join
  BY <1>0, <1>5, SMTT(90) DEF Join, Up, DownFrom, evars, Inv, Typed, EngPhase, PollPhase, QueuePhase,
        DrainAnnounced, At
<1> QED
  BY <1>1, <1>2, <1>3, <1>4, <1>5

(* The main thread from the teardown on. *)
LEMMA EndInv ==
    ASSUME ConstantsOK, Inv, Teardown \/ drain_progress_join \/ jsonl_merge
    PROVE  Inv'
<1>0. Len(Engines) \in Nat \ {0} /\ main.k \in K /\ K = 1 .. Len(Engines)
  BY DEF ConstantsOK, Inv, Typed, K
<1>1. CASE Teardown
  <2>0. At("teardown") /\ UNCHANGED <<poll, queue>>
    BY <1>1 DEF Teardown, evars
  <2>1. CASE g_drain_active' = TRUE /\ main' = [main EXCEPT !.at = "drain"] /\ eng' = eng
    <3>1. Typed' /\ main'.at = "drain" /\ main'.k = main.k
      BY <1>0, <2>0, <2>1, SMTT(90) DEF Inv, Typed
    <3>2. EngPhase' /\ PollPhase' /\ QueuePhase'
      BY <2>0, <2>1, <3>1 DEF Inv, EngPhase, PollPhase, QueuePhase, At
    <3>3. DrainAnnounced'
      BY <2>1, Zenon DEF DrainAnnounced
    <3> QED
      BY <3>1, <3>2, <3>3 DEF Inv
  <2>2. CASE /\ ~HasQueue(main.k) /\ eng' = [eng EXCEPT ![main.k] = "down"]
             /\ main' = DownFrom(main.k - 1, why) /\ g_drain_active' = g_drain_active
    <3>1. CASE main.k > 1
      <4>1. main' = [at |-> "teardown", k |-> main.k - 1] /\ main.k - 1 \in K
        BY <2>2, <3>1, <1>0 DEF DownFrom
      <4> QED
        BY <1>0, <2>0, <2>2, <4>1 DEF Inv, Typed, EngPhase, PollPhase, QueuePhase,
        DrainAnnounced, At
    <3>2. CASE ~(main.k > 1)
      <4>1. /\ main' \in {[at |-> "over", k |-> 1], [at |-> "merge", k |-> 1]}
            /\ \A j \in K : j >= main.k
        BY <2>2, <3>2, <1>0 DEF DownFrom
      <4> QED
        BY <1>0, <2>0, <2>2, <4>1 DEF Inv, Typed, EngPhase, PollPhase, QueuePhase,
        DrainAnnounced, At
    <3> QED
      BY <3>1, <3>2
  <2> QED
    BY <1>1, <2>1, <2>2, Zenon DEF Teardown, drain_progress_begin
<1>2. CASE drain_progress_join
  BY <1>0, <1>2 DEF drain_progress_join, DownFrom, evars, Inv, Typed, EngPhase, PollPhase,
        QueuePhase, DrainAnnounced, At
<1>3. CASE jsonl_merge
  <2>1. /\ main' = [main EXCEPT !.at = "over"] /\ At("merge")
        /\ UNCHANGED <<eng, poll, queue, g_drain_active>>
    BY <1>3 DEF jsonl_merge, evars
  <2> QED
    BY <1>0, <2>1 DEF Inv, Typed, EngPhase, PollPhase, QueuePhase, DrainAnnounced, At
<1> QED
  BY <1>1, <1>2, <1>3

(* The app, the poll loops and the workers. *)
LEMMA EventsInv ==
    ASSUME ConstantsOK, Inv, NEW k \in K,
           Event(k) \/ Consume(k) \/ RunEnds(k) \/ PollFails(k) \/ Write(k)
    PROVE  Inv'
<1>1. CASE Event(k)
  BY <1>1, SMTT(90) DEF Event, Inv, Typed, EngPhase, PollPhase, QueuePhase, DrainAnnounced, At
<1>2. CASE Consume(k)
  BY <1>2 DEF Consume, Room, Inv, Typed, EngPhase, PollPhase, QueuePhase, DrainAnnounced, At,
        Polling, Alive
<1>3. CASE RunEnds(k) \/ PollFails(k)
  BY <1>3 DEF RunEnds, PollFails, evars, Inv, Typed, EngPhase, PollPhase, QueuePhase,
        DrainAnnounced, At, Polling, Alive
<1>4. CASE Write(k)
  BY <1>4 DEF Write, Inv, Typed, EngPhase, PollPhase, QueuePhase, DrainAnnounced, At
<1> QED
  BY <1>1, <1>2, <1>3, <1>4

(* The handler, and steps that change nothing. *)
LEMMA SignalsInv ==
    ASSUME Inv, (\E s \in Signals : Signal(s) \/ runtime_sig_handler(s)) \/ UNCHANGED vars
    PROVE  Inv'
<1>1. /\ \/ main' = main \/ main' = [main EXCEPT !.at = "killed"]
         \/ main' = [main EXCEPT !.at = "aborted"]
      /\ UNCHANGED <<eng, poll, queue, g_drain_active>>
  BY DEF Signal, runtime_sig_handler, evars, vars
<1> QED
  BY <1>1 DEF Inv, Typed, EngPhase, PollPhase, QueuePhase, DrainAnnounced, At

(* Every step of the run, the engines' threads and the signal handler     *)
(* keeps the invariant.                                                    *)
LEMMA NextInv == ConstantsOK /\ Inv /\ [Next]_vars => Inv'
  BY StartInv, EndInv, EventsInv, SignalsInv DEF Next

(* Whether the run ends at a failed setup, a failed launch or a stop, the  *)
(* roll-back and the teardown reach every engine that was armed.           *)
THEOREM NoProbeLeft == ASSUME ConstantsOK PROVE Spec => []NothingLeftArmed
<1>1. Inv => NothingLeftArmed
  BY DEF Inv, EngPhase, NothingLeftArmed, At
<1> QED
  BY <1>1, InitInv, NextInv, PTL DEF Spec

(* An engine goes down after its run() has returned and its queue is       *)
(* drained, for threads and for the fall-back on the main thread alike.    *)
THEOREM EnginesIdleWhenDown == ASSUME ConstantsOK PROVE Spec => []TornDownIdle
<1>1. Inv => TornDownIdle
  BY DownIsIdle DEF Inv, QueuePhase, TornDownIdle
<1> QED
  BY <1>1, InitInv, NextInv, PTL DEF Spec

(* The second signal, in whichever engine's drain it falls, is answered    *)
(* with the warning.                                                       *)
THEOREM AbortedDrainWarns == ASSUME ConstantsOK PROVE Spec => AbortInDrainWarns
<1>1. Inv /\ [Next]_vars => [AbortWarns]_vars
  <2> SUFFICES ASSUME Inv, [Next]_vars, At("drain"), main'.at = "aborted"
               PROVE  warned'
    BY DEF AbortWarns
  <2>1. main.at = "drain" /\ g_drain_active = TRUE
    BY DEF Inv, DrainAnnounced, At
  <2>2. ~(\/ Setup \/ Launch \/ Spawn \/ Inline \/ Join \/ Teardown \/ jsonl_merge)
    BY <2>1 DEF Setup, Launch, Spawn, Inline, Join, Teardown, jsonl_merge, At
  <2>3. ~drain_progress_join
    BY DEF drain_progress_join, DownFrom
  <2>4. ASSUME NEW k \in K
        PROVE  ~(Event(k) \/ Consume(k) \/ RunEnds(k) \/ PollFails(k) \/ Write(k))
    BY <2>1, Zenon DEF Event, Consume, RunEnds, PollFails, Write
  <2>5. ~ UNCHANGED vars
    BY <2>1, Zenon DEF vars
  <2>6. ASSUME NEW s \in Signals PROVE ~Signal(s)
    BY <2>1, Zenon DEF Signal, Inv, Typed
  <2>7. PICK s \in Signals : runtime_sig_handler(s)
    BY <2>2, <2>3, <2>4, <2>5, <2>6 DEF Next
  <2>8. sig[s].seen + 1 > 1
    BY <2>1, <2>7, Zenon DEF runtime_sig_handler
  <2> QED
    BY <2>1, <2>7, <2>8, Zenon DEF runtime_sig_handler
<1> QED
  BY <1>1, InitInv, NextInv, PTL DEF Spec, AbortInDrainWarns

-----------------------------------------------------------------------------
(* What the merged file holds *)

(* A record that a queue accepted is in the queue or in the file; an       *)
(* engine that is not armed yet has none; and the merge of a stopped run   *)
(* found the files complete.                                               *)
MergeInv ==
    /\ pushed \in [K -> Nat] /\ written \in [K -> Nat]
    /\ \A k \in K : HasQueue(k) => pushed[k] = queue[k] + written[k]
    /\ \A k \in K : eng[k] = "off" => queue[k] = 0
    /\ MergedComplete

(* Nothing is accepted before the first engine is armed. *)
LEMMA InitMergeInv == Init => MergeInv
  BY DEF Init, MergeInv, MergedComplete, At

(* The main thread: it reaches the end of a stopped run through the merge, *)
(* when every engine is down and every queue empty.                        *)
LEMMA MainMergeInv ==
    ASSUME ConstantsOK, Inv, MergeInv, Main
    PROVE  MergeInv'
<1>1. /\ UNCHANGED <<queue, pushed, written>> /\ Accepted' = Accepted
      /\ \A k \in K : eng'[k] = "off" => eng[k] = "off"
  BY DEF Main, Setup, Launch, Spawn, Inline, Join, Teardown, drain_progress_join, jsonl_merge,
         evars, Accepted, Inv, Typed
<1>2. MergeInv!1' /\ MergeInv!2' /\ MergeInv!3'
  BY <1>1 DEF MergeInv
<1>3. MergedComplete'
  <2>1. CASE jsonl_merge
    <3>1. merged' = Total(written) /\ At("merge")
      BY <2>1 DEF jsonl_merge
    <3>2. \A k \in K : queue[k] = 0
      BY <3>1 DEF Inv, Typed, EngPhase, QueuePhase, MergeInv, At
    <3>3. \A k \in K : Accepted[k] = written[k]
      BY <3>2 DEF Accepted, MergeInv
    <3>4. Accepted = written
      BY <3>3 DEF Accepted, MergeInv
    <3> QED
      BY <1>1, <3>1, <3>4 DEF MergedComplete
  <2>2. CASE ~jsonl_merge
    <3>1. main'.at = "over" => why' # "stop"
      BY <2>2 DEF Main, Setup, Launch, Spawn, Inline, Join, Teardown, drain_progress_join, At,
                  Up, DownFrom, Inv, Typed
    <3> QED
      BY <3>1 DEF MergedComplete, At
  <2> QED
    BY <2>1, <2>2
<1> QED
  BY <1>2, <1>3 DEF MergeInv

(* A poll loop or a worker moves a record; after the end nobody does. *)
LEMMA EventsMergeInv ==
    ASSUME ConstantsOK, Inv, MergeInv, NEW k \in K,
           Event(k) \/ Consume(k) \/ RunEnds(k) \/ PollFails(k) \/ Write(k)
    PROVE  MergeInv'
<1>1. /\ main.at # "over" /\ main' = main /\ eng' = eng /\ queue \in [K -> Nat]
  BY DEF Event, Consume, RunEnds, PollFails, Write, Polling, Alive, Inv, Typed
<1>2. MergedComplete'
  BY <1>1 DEF MergedComplete, At
<1>3. CASE Event(k) \/ RunEnds(k) \/ PollFails(k)
  <2>1. UNCHANGED <<queue, pushed, written>>
    BY <1>3, SMTT(90) DEF Event, RunEnds, PollFails, evars
  <2> QED
    BY <1>1, <1>2, <2>1 DEF MergeInv
<1>4. CASE Consume(k)
  <2>1. /\ \/ queue' = queue /\ pushed' = pushed
           \/ /\ HasQueue(k) /\ queue' = [queue EXCEPT ![k] = @ + 1]
              /\ pushed' = [pushed EXCEPT ![k] = @ + 1]
        /\ \/ written' = written
           \/ ~HasQueue(k) /\ written' = [written EXCEPT ![k] = @ + 1]
    BY <1>4 DEF Consume, Room
  <2>2. eng[k] = "armed"
    BY <1>1, <1>4 DEF Consume, Polling, Alive, Inv, Typed, EngPhase, PollPhase, At
  <2>3. pushed' \in [K -> Nat] /\ written' \in [K -> Nat]
    BY <2>1 DEF MergeInv
  <2>4. \A j \in K : HasQueue(j) => pushed'[j] = queue'[j] + written'[j]
    BY <1>1, <2>1 DEF MergeInv
  <2>5. \A j \in K : eng'[j] = "off" => queue'[j] = 0
    BY <1>1, <2>1, <2>2 DEF MergeInv
  <2> QED
    BY <1>2, <2>3, <2>4, <2>5 DEF MergeInv
<1>5. CASE Write(k)
  <2>1. /\ eng[k] = "armed" /\ queue[k] > 0 /\ pushed' = pushed
        /\ queue' = [queue EXCEPT ![k] = @ - 1] /\ written' = [written EXCEPT ![k] = @ + 1]
    BY <1>5 DEF Write
  <2>2. \A j \in K : HasQueue(j) => pushed'[j] = queue'[j] + written'[j]
    BY <1>1, <2>1 DEF MergeInv
  <2> QED
    BY <1>1, <1>2, <2>1, <2>2 DEF MergeInv
<1> QED
  BY <1>3, <1>4, <1>5, SMTT(90)

(* Whatever was accepted by a queue, at any rate of its worker, and        *)
(* whichever thread drained the ring, is in the merged file of a run that  *)
(* was stopped once.                                                       *)
THEOREM MergeIsComplete == ASSUME ConstantsOK PROVE Spec => []MergedComplete
<1>1. Inv /\ MergeInv /\ [Next]_vars => MergeInv'
  <2>1. ASSUME Inv, MergeInv,
               (\E s \in Signals : Signal(s) \/ runtime_sig_handler(s)) \/ UNCHANGED vars
        PROVE  MergeInv'
    <3>1. /\ UNCHANGED <<why, eng, queue, pushed, written, merged>>
          /\ main' = main \/ main' = [main EXCEPT !.at = "killed"]
             \/ main' = [main EXCEPT !.at = "aborted"]
      BY <2>1 DEF Signal, runtime_sig_handler, evars, vars
    <3>2. Accepted' = Accepted
      BY <3>1 DEF Accepted
    <3>3. main'.at = "over" => main.at = "over"
      BY <2>1, <3>1 DEF Inv, Typed
    <3> QED
      BY <2>1, <3>1, <3>2, <3>3 DEF MergeInv, MergedComplete, At
  <2> QED
    BY <2>1, MainMergeInv, EventsMergeInv DEF Next, Main
<1>2. MergeInv => MergedComplete
  BY DEF MergeInv
<1> QED
  BY <1>1, <1>2, InitInv, NextInv, InitMergeInv, PTL DEF Spec
=============================================================================
