------------------------------ MODULE TraceRun ------------------------------
(***************************************************************************)
(* `anubee trace': the coordinator arms every wanted engine, launches the  *)
(* app, polls each engine's ring on a thread of its own, and at the stop   *)
(* tears the engines down in reverse and merges their files                *)
(* (trace/trace.c).  SIGINT and SIGTERM may arrive at any point, on any    *)
(* thread; the second one ends the process (common/runtime.c).  With the   *)
(* syscalls engine alone this is also the life of `anubee syscalls'.       *)
(*                                                                         *)
(* Events are only counted: in the kernel ring, in the event queue (what   *)
(* EvQueue implements) and in the output file.                             *)
(***************************************************************************)
EXTENDS Integers, Sequences, FiniteSetsExt

CONSTANTS Engines,        \* the wanted engines, in the order of the table engines[]
          Queued,         \* those with an event queue and a worker (syscalls, funcs)
          Signals,        \* the signals that may be sent
          MayFail,        \* steps that may fail: "setup", "launch", "spawn", "poll"
          QCap,           \* records a queue holds
          MaxEvents       \* bound on the events the app causes

\* What the constants must be.
ConstantsOK ==
    /\ Engines \in Seq(STRING) /\ Len(Engines) > 0 /\ Queued \subseteq STRING
    /\ MayFail \subseteq {"setup", "launch", "spawn", "poll"}
    /\ QCap \in Nat /\ MaxEvents \in Nat

VARIABLES main,           \* where cmd_trace is: at, and the engine it works on
          why,            \* what ended the run: "setup", "launch" or "stop"
          eng,            \* per engine: "off", "armed" or "down"
          poll,           \* per engine, its run(): "none", "thread", "main", "done"
          ring, queue,    \* per engine: events in the kernel ring and in the queue
          pushed,         \* history: per engine, records its queue accepted
          written,        \* per engine: records in its output file
          merged,         \* records in the merged file
          g_stop, g_stop_count, g_drain_active,
          sig,            \* per signal: "unsent", "handler", "done", with the count read
          warned,         \* ABORT_MSG was written
          events          \* history: events caused

vars == <<main, why, eng, poll, ring, queue, pushed, written, merged, g_stop,
          g_stop_count, g_drain_active, sig, warned, events>>
evars == <<ring, queue, pushed, written, events>>
svars == <<g_stop, g_stop_count, sig, warned>>

K == 1 .. Len(Engines)
HasQueue(k) == Engines[k] \in Queued
At(pc) == main.at = pc
Alive == main.at \notin {"over", "aborted", "killed"}

Init ==
    /\ main = [at |-> "setup", k |-> 1]
    /\ why = "stop"
    /\ eng = [k \in K |-> "off"]
    /\ poll = [k \in K |-> "none"]
    /\ ring = [k \in K |-> 0]
    /\ queue = [k \in K |-> 0]
    /\ pushed = [k \in K |-> 0]
    /\ written = [k \in K |-> 0]
    /\ merged = 0
    /\ g_stop = FALSE
    /\ g_stop_count = 0
    /\ g_drain_active = FALSE
    /\ sig = [s \in Signals |-> [at |-> "unsent", seen |-> 0]]
    /\ warned = FALSE
    /\ events = 0

-----------------------------------------------------------------------------
(* The main thread.                                                        *)

\* The next step of a loop over the engines, or what follows the loop.
Up(pc, k, after) == [at |-> IF k < Len(Engines) THEN pc ELSE after,
                     k |-> IF k < Len(Engines) THEN k + 1 ELSE 1]

\* Plausible bug: the roll-back stops short of the first engine.
DownFrom_Short(k, w) == IF k > 1 THEN [at |-> "teardown", k |-> k]
                     ELSE [at |-> IF w = "stop" THEN "merge" ELSE "over", k |-> 1]

\* The teardown loop, from engine k down; only a run that was stopped merges.
DownFrom(k, w) == IF k >= 1 THEN [at |-> "teardown", k |-> k]
               ELSE [at |-> IF w = "stop" THEN "merge" ELSE "over", k |-> 1]

\* Arm one engine; the loop ends by installing the stop handler.  A failed
\* setup cleans up after itself and the engines before it are torn down.
Setup ==
    /\ At("setup")
    /\ \/ /\ eng' = [eng EXCEPT ![main.k] = "armed"]
          /\ main' = Up("setup", main.k, "launch")
          /\ UNCHANGED why
       \/ /\ "setup" \in MayFail
          /\ why' = "setup"
          /\ main' = DownFrom(main.k - 1, "setup")
          /\ UNCHANGED eng
    /\ UNCHANGED <<poll, evars, merged, g_drain_active, svars>>

\* anubee_launch_app, or nothing when attaching to a pid.
Launch ==
    /\ At("launch")
    /\ \/ main' = [at |-> "spawn", k |-> 1] /\ UNCHANGED why
       \/ /\ "launch" \in MayFail
          /\ why' = "launch"
          /\ main' = DownFrom(Len(Engines), "launch")
    /\ UNCHANGED <<eng, poll, evars, merged, g_drain_active, svars>>

Spawn ==
    /\ At("spawn")
    /\ poll' \in {[poll EXCEPT ![main.k] = "thread"]} \cup
                 (IF "spawn" \in MayFail THEN {poll} ELSE {})
    /\ main' = Up("spawn", main.k, "inline")
    /\ UNCHANGED <<why, eng, evars, merged, g_drain_active, svars>>

\* Plausible bug: an engine without a thread is forgotten.
Inline_Skip ==
    /\ At("inline")
    /\ main' = Up("inline", main.k, "join")
    /\ UNCHANGED <<why, eng, poll, evars, merged, g_drain_active, svars>>

\* The fall-back: an engine without a thread is run on the main thread.
Inline ==
    /\ At("inline")
    /\ IF poll[main.k] = "none"
       THEN poll' = [poll EXCEPT ![main.k] = "main"] /\ UNCHANGED main
       ELSE poll[main.k] # "main" /\ main' = Up("inline", main.k, "join") /\ UNCHANGED poll
    /\ UNCHANGED <<why, eng, evars, merged, g_drain_active, svars>>

\* Plausible bug: the threads are not waited for.
Join_None ==
    /\ At("join")
    /\ main' = DownFrom(Len(Engines), why)
    /\ UNCHANGED <<why, eng, poll, evars, merged, g_drain_active, svars>>

Join ==
    /\ At("join")
    /\ poll[main.k] = "done"
    /\ main' = IF main.k < Len(Engines) THEN [main EXCEPT !.k = @ + 1]
                                       ELSE DownFrom(Len(Engines), why)
    /\ UNCHANGED <<why, eng, poll, evars, merged, g_drain_active, svars>>

\* Plausible bug: the warning waits for the progress bar to be shown.
drain_progress_begin_WithBar == UNCHANGED g_drain_active

drain_progress_begin == g_drain_active' = TRUE

\* The first half of an engine's teardown: the drain is announced, and the worker
\* told to finish.  An engine without a worker just closes.
Teardown ==
    /\ At("teardown")
    /\ eng[main.k] = "armed"
    /\ IF HasQueue(main.k)
       THEN /\ drain_progress_begin
            /\ main' = [main EXCEPT !.at = "drain"]
            /\ UNCHANGED eng
       ELSE /\ eng' = [eng EXCEPT ![main.k] = "down"]
            /\ main' = DownFrom(main.k - 1, why)
            /\ UNCHANGED g_drain_active
    /\ UNCHANGED <<why, poll, evars, merged, svars>>

\* The worker has emptied the queue and ended; ring, queue and file are closed.
drain_progress_join ==
    /\ At("drain")
    /\ queue[main.k] = 0
    /\ g_drain_active' = FALSE
    /\ eng' = [eng EXCEPT ![main.k] = "down"]
    /\ main' = DownFrom(main.k - 1, why)
    /\ UNCHANGED <<why, poll, evars, merged, svars>>

\* One file after the other: the records of all of them.
Total(file) == MapThenSumSet(LAMBDA k : file[k], K)

\* Plausible bug: the merged file is truncated for each source.
jsonl_merge_Truncate ==
    /\ At("merge")
    /\ merged' = written[Len(Engines)]
    /\ main' = [main EXCEPT !.at = "over"]
    /\ UNCHANGED <<why, eng, poll, evars, g_drain_active, svars>>

jsonl_merge ==
    /\ At("merge")
    /\ merged' = Total(written)
    /\ main' = [main EXCEPT !.at = "over"]
    /\ UNCHANGED <<why, eng, poll, evars, g_drain_active, svars>>

-----------------------------------------------------------------------------
(* The app, the poll loops and the workers.                                *)

\* The app does something engine k traces.
Event(k) ==
    /\ Alive
    /\ eng[k] = "armed"
    /\ events < MaxEvents
    /\ events' = events + 1
    /\ ring' = [ring EXCEPT ![k] = @ + 1]
    /\ UNCHANGED <<main, why, eng, poll, queue, pushed, written, merged, g_drain_active, svars>>

Polling(k) == Alive /\ poll[k] \in {"thread", "main"}

Room(k) == HasQueue(k) /\ queue[k] < QCap

\* One event leaves the ring: into the queue (or dropped, when that is full), or
\* into the file.  Once the flag is set the syscalls callback discards the event
\* and ends the poll; the other callbacks do not look at it.
Consume(k) ==
    /\ Polling(k)
    /\ ring[k] > 0
    /\ ring' = [ring EXCEPT ![k] = @ - 1]
    /\ LET bail == g_stop /\ Engines[k] = "syscalls"
           push == Room(k) /\ ~bail
       IN  /\ queue' = IF push THEN [queue EXCEPT ![k] = @ + 1] ELSE queue
           /\ pushed' = IF push THEN [pushed EXCEPT ![k] = @ + 1] ELSE pushed
           /\ written' = IF HasQueue(k) THEN written ELSE [written EXCEPT ![k] = @ + 1]
           /\ poll' = IF bail THEN [poll EXCEPT ![k] = "done"] ELSE poll
    /\ UNCHANGED <<main, why, eng, events, merged, g_drain_active, svars>>

\* The loop of run() sees the flag.
RunEnds(k) ==
    /\ Polling(k)
    /\ g_stop
    /\ poll' = [poll EXCEPT ![k] = "done"]
    /\ UNCHANGED <<main, why, eng, evars, merged, g_drain_active, svars>>

\* The ring cannot be polled: this run() returns, and nobody tells the others.
PollFails(k) ==
    /\ Polling(k)
    /\ "poll" \in MayFail
    /\ poll' = [poll EXCEPT ![k] = "done"]
    /\ UNCHANGED <<main, why, eng, evars, merged, g_drain_active, svars>>

\* The worker writes the next record.
Write(k) ==
    /\ Alive
    /\ eng[k] = "armed"
    /\ queue[k] > 0
    /\ queue' = [queue EXCEPT ![k] = @ - 1]
    /\ written' = [written EXCEPT ![k] = @ + 1]
    /\ UNCHANGED <<main, why, eng, poll, ring, pushed, events, merged, g_drain_active, svars>>

-----------------------------------------------------------------------------
(* The stop handler, on whatever thread the signal lands.                  *)

HandlerInstalled == ~(At("setup") \/ why = "setup")

\* Before the handler is installed a signal has its default effect.  Entering
\* it: the flag is set and the count is read (++g_stop_count is not atomic).
Signal(s) ==
    /\ Alive
    /\ sig[s].at = "unsent"
    /\ IF HandlerInstalled
       THEN /\ g_stop' = TRUE
            /\ sig' = [sig EXCEPT ![s] = [at |-> "handler", seen |-> g_stop_count]]
            /\ UNCHANGED main
       ELSE /\ main' = [main EXCEPT !.at = "killed"]
            /\ sig' = [sig EXCEPT ![s].at = "done"]
            /\ UNCHANGED g_stop
    /\ UNCHANGED <<why, eng, poll, evars, merged, g_stop_count, g_drain_active, warned>>

\* The count is written; from the second signal on the process exits.
runtime_sig_handler(s) ==
    /\ Alive
    /\ sig[s].at = "handler"
    /\ g_stop_count' = sig[s].seen + 1
    /\ sig' = [sig EXCEPT ![s].at = "done"]
    /\ IF sig[s].seen + 1 > 1
       THEN /\ warned' = g_drain_active
            /\ main' = [main EXCEPT !.at = "aborted"]
       ELSE UNCHANGED <<warned, main>>
    /\ UNCHANGED <<why, eng, poll, evars, merged, g_stop, g_drain_active>>

Main == Setup \/ Launch \/ Spawn \/ Inline \/ Join \/ Teardown \/ drain_progress_join
        \/ jsonl_merge

Next ==
    \/ Setup \/ Launch \/ Spawn \/ Inline \/ Join \/ Teardown
    \/ drain_progress_join \/ jsonl_merge
    \/ \E k \in K : Event(k) \/ Consume(k) \/ RunEnds(k) \/ PollFails(k) \/ Write(k)
    \/ \E s \in Signals : Signal(s) \/ runtime_sig_handler(s)

\* Every thread of the process is scheduled; nobody has to press Ctrl-C.
Fairness ==
    /\ WF_vars(Main)
    /\ \A k \in K : WF_vars(RunEnds(k)) /\ WF_vars(Consume(k)) /\ WF_vars(Write(k))
    /\ \A s \in Signals : WF_vars(runtime_sig_handler(s))

Spec == Init /\ [][Next]_vars /\ Fairness
-----------------------------------------------------------------------------
(* Properties.                                                             *)

\* All counters and phases are of their type, and no queue exceeds its size.
TypeOK ==
    /\ main.at \in {"setup", "launch", "spawn", "inline", "join", "teardown", "drain",
                    "merge", "over", "aborted", "killed"}
    /\ main.k \in K
    /\ why \in {"setup", "launch", "stop"}
    /\ eng \in [K -> {"off", "armed", "down"}]
    /\ poll \in [K -> {"none", "thread", "main", "done"}]
    /\ \A k \in K : /\ ring[k] \in 0 .. MaxEvents /\ queue[k] \in 0 .. QCap
                    /\ pushed[k] \in 0 .. MaxEvents /\ written[k] \in 0 .. MaxEvents
    /\ merged \in 0 .. MaxEvents
    /\ {g_stop, g_drain_active, warned} \subseteq BOOLEAN
    /\ g_stop_count \in Nat
    /\ \A s \in Signals : sig[s].at \in {"unsent", "handler", "done"} /\ sig[s].seen \in Nat
    /\ events \in 0 .. MaxEvents

\* When trace ends by itself, by whatever path (a setup or launch that fails, or
\* the stop), every engine that was armed has been torn down: no probe is left.
NothingLeftArmed == At("over") => \A k \in K : eng[k] # "armed"

\* An engine is torn down only after its run() has returned and its worker has
\* drained: nobody polls a freed ring or writes a closed file, also when run()
\* was the main thread's fall-back.
TornDownIdle == \A k \in K : eng[k] = "down" => ~Polling(k) /\ queue[k] = 0

\* The merged file holds every record that any queue accepted, and those an
\* engine without a queue wrote.
Accepted == [k \in K |-> IF HasQueue(k) THEN pushed[k] ELSE written[k]]
MergedComplete == At("over") /\ why = "stop" => merged = Total(Accepted)

\* A second signal during any engine's drain tells the user what it costs
\* (g_drain_active, set and cleared by each engine in turn).
AbortWarns == At("drain") /\ main'.at = "aborted" => warned'
AbortInDrainWarns == [][AbortWarns]_vars

\* A signal, once the handler is installed, ends the run: each poll loop sees the
\* flag, each drain finishes, inline or threaded, and the process exits.
StopEndsRun == g_stop ~> ~Alive

\* What runtime.h says of the second signal: it does not silently discard the
\* queues.
NoSilentDiscard == At("aborted") /\ (\E k \in K : queue[k] > 0) => warned
=============================================================================
