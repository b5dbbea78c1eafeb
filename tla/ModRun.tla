------------------------------- MODULE ModRun -------------------------------
(***************************************************************************)
(* `anubee mod': the dispatcher that sets up the named analyzers, polls    *)
(* their rings, and tears them down (modules/mod.c), with the one output   *)
(* sink they all share (common/emit.c).                                    *)
(*                                                                         *)
(* Most analyzers report from their ring callback, on the dispatcher's     *)
(* thread.  fileless-detect and screencapture-detect report from a polling *)
(* thread of their own.  Both build a record in the sink's buffer `jb' and *)
(* then call anubee_sink_emit; there is no lock.                           *)
(*                                                                         *)
(* An analyzer keeps its BPF object, its thread and its stop flag in       *)
(* static variables, one set per analyzer; what the n-th setup of the run  *)
(* has created is called n.  A record is two fragments; writer 0 is the    *)
(* dispatcher's thread, writer n the polling thread that setup n started.  *)
(***************************************************************************)
EXTENDS Naturals, Sequences, SequencesExt, FiniteSets

CONSTANTS Names,       \* analyzers
          Pollers,     \* those that report from a thread of their own
          Requests,    \* the lists of names a run may be started with
          RingCap,     \* events a ring holds
          MaxNames,    \* bound: names of a run (16)
          MaxEvents    \* bound: events, drops and detections of a run

VARIABLES ans,         \* the names of this run, in order
          out,         \* -o was given
          pc, k,       \* the dispatcher: where it is, and its loop index
          nrb,         \* analyzers set up so far
          w,           \* per writer: where it is in building and emitting a record
          objs,        \* BPF objects that are loaded and attached
          skel,        \* per analyzer: g_skel, 0 for NULL
          g_thread,    \* per analyzer: g_poll_thread, 0 when none is running
          poll_stop,   \* per analyzer: g_poll_stop
          live,        \* polling threads that have not returned
          ring, drops, \* per object: events in its ring, and those the full ring refused
          jb,          \* the sink: its buffer
          lines, torn, \* the output: whole event lines per analyzer; a line that is no record
          open,        \* the sink's FILE is open
          tally,       \* per analyzer: its statistics table, as a count
          summary,     \* per analyzer: what its summary read
          ring_drops,  \* per analyzer: what its coverage record says
          missed,      \* history: per object, drops until the dispatcher stopped polling
          stop,        \* `exiting'
          events       \* bound: events, drops and detections so far

vars == <<ans, out, pc, k, nrb, w, objs, skel, g_thread, poll_stop, live, ring, drops,
          jb, lines, torn, open, tally, summary, ring_drops, missed, stop, events>>

N == Len(ans)
Writers == 0 .. N
Idle == [at |-> "idle", rec |-> <<>>]
Record(a, kind) == [from |-> a, kind |-> kind]

Init ==
    /\ ans \in Requests
    /\ out \in BOOLEAN
    /\ pc = "setup" /\ k = 1 /\ nrb = 0
    /\ w = [i \in Writers |-> Idle]
    /\ objs = {} /\ live = {}
    /\ skel = [a \in Names |-> 0] /\ g_thread = [a \in Names |-> 0]
    /\ poll_stop = [a \in Names |-> FALSE]
    /\ ring = [i \in 1 .. N |-> 0] /\ drops = [i \in 1 .. N |-> 0]
    /\ missed = [i \in 1 .. N |-> 0] /\ ring_drops = [a \in Names |-> 0]
    /\ jb = <<>> /\ lines = [a \in Names |-> 0] /\ torn = FALSE /\ open = out
    /\ tally = [a \in Names |-> 0] /\ summary = [a \in Names |-> 0]
    /\ stop = FALSE /\ events = 0

-----------------------------------------------------------------------------
(* The sink.  A writer is idle or at "build1", "build2", "write", "reset". *)

sinkVars == <<jb, lines, torn, open>>
ctlVars == <<ans, out, nrb, objs, skel, g_thread, poll_stop, live, stop>>
covVars == <<drops, ring_drops, missed>>
dataVars == <<ring, tally, summary, events, covVars>>

Busy(i) == w[i].at # "idle"
Step(i, at) == w' = [w EXCEPT ![i].at = at]

(* Writer i starts a record: an event of analyzer a, or its summary. *)
Start(i, r) == w' = [w EXCEPT ![i] = [at |-> "build1", rec |-> r]]

(* The summary and coverage builders reset the buffer first, the event     *)
(* builders rely on the last emit to have done so.                         *)
Base(r) == IF r.kind = "event" THEN jb ELSE <<>>

(* jb_raw: a copy behind the last byte, then the new length.  Two writers  *)
(* that meet may both start from the same length; one fragment is lost.    *)
Appended(b, f, i) ==
    {Append(b, f)} \cup {Append(Front(b), f) : x \in {j \in Writers \ {i} : Busy(j) /\ b # <<>>}}

Build1(i) ==
    /\ w[i].at = "build1"
    /\ jb' \in Appended(Base(w[i].rec), <<w[i].rec, 1>>, i)
    /\ Step(i, "build2")
    /\ UNCHANGED <<pc, k, ctlVars, dataVars, lines, torn, open>>

Build2(i) ==
    /\ w[i].at = "build2"
    /\ jb' \in Appended(jb, <<w[i].rec, 2>>, i)
    /\ Step(i, "write")
    /\ UNCHANGED <<pc, k, ctlVars, dataVars, lines, torn, open>>

(* A line is a record when it is both of its fragments, in order. *)
Whole(l) == Len(l) = 2 /\ l = <<<<l[1][1], 1>>, <<l[1][1], 2>>>>

(* anubee_sink_emit: nothing to do without a file or a record; otherwise   *)
(* the buffer becomes a line.                                              *)
Write(i) ==
    /\ w[i].at = "write"
    /\ IF open /\ jb # <<>>
       THEN /\ torn' = (torn \/ ~Whole(jb))
            /\ IF Whole(jb) /\ jb[1][1].kind = "event"
               THEN lines' = [lines EXCEPT ![jb[1][1].from] = @ + 1]
               ELSE UNCHANGED lines
            /\ Step(i, "reset")
       ELSE UNCHANGED <<lines, torn>> /\ Step(i, "idle")
    /\ UNCHANGED <<pc, k, ctlVars, dataVars, jb, open>>

(* ... and its length is set to zero. *)
Reset(i) ==
    /\ w[i].at = "reset"
    /\ jb' = <<>>
    /\ Step(i, "idle")
    /\ UNCHANGED <<pc, k, ctlVars, dataVars, lines, torn, open>>

Writing(i) == Build1(i) \/ Build2(i) \/ Write(i) \/ Reset(i)

-----------------------------------------------------------------------------
(* cmd_mod, on the dispatcher's thread *)

At(l) == pc = l /\ ~Busy(0)

(* setup() of the k-th name succeeds; a poller starts its thread last. *)
SetupOk ==
    LET a == ans[k]
    IN  /\ At("setup") /\ k <= N
        /\ objs' = objs \cup {k}
        /\ skel' = [skel EXCEPT ![a] = k]
        /\ IF a \in Pollers
           THEN /\ poll_stop' = [poll_stop EXCEPT ![a] = FALSE]
                /\ live' = live \cup {k}
                /\ g_thread' = [g_thread EXCEPT ![a] = k]
           ELSE UNCHANGED <<poll_stop, live, g_thread>>
        /\ nrb' = nrb + 1 /\ k' = k + 1
        /\ UNCHANGED <<ans, out, pc, stop, dataVars, sinkVars, w>>

(* setup() fails and has cleaned up behind itself; the analyzers already   *)
(* set up are torn down, the last one first.                               *)
SetupFails ==
    /\ At("setup") /\ k <= N
    /\ skel' = [skel EXCEPT ![ans[k]] = 0]
    /\ pc' = "rollback" /\ k' = nrb
    /\ UNCHANGED <<ans, out, nrb, objs, g_thread, poll_stop, live, stop, dataVars, sinkVars, w>>

(* All set up: the stop handler is installed and the app launched, if -P.  *)
Launched ==
    /\ At("setup") /\ k > N
    /\ pc' = "poll" /\ k' = 1
    /\ UNCHANGED <<ctlVars, dataVars, sinkVars, w>>

LaunchFails ==
    /\ At("setup") /\ k > N
    /\ pc' = "rollback" /\ k' = nrb
    /\ UNCHANGED <<ctlVars, dataVars, sinkVars, w>>

(* anubee_rb_poll_multi: a pass consumes every ring until it is empty, and *)
(* only then looks at the stop flag again.                                 *)
Consume ==
    /\ At("poll") /\ k <= N /\ ring[k] > 0
    /\ ring' = [ring EXCEPT ![k] = @ - 1]
    /\ tally' = [tally EXCEPT ![ans[k]] = @ + 1]
    /\ IF out THEN Start(0, Record(ans[k], "event")) ELSE UNCHANGED w
    /\ UNCHANGED <<pc, k, ctlVars, summary, events, covVars, sinkVars>>

NextRing ==
    /\ At("poll") /\ k <= N /\ ring[k] = 0
    /\ k' = k + 1
    /\ UNCHANGED <<pc, ctlVars, dataVars, sinkVars, w>>

PassEnds ==
    /\ At("poll") /\ k > N
    /\ IF stop THEN pc' = "down" /\ k' = N /\ missed' = drops
               ELSE pc' = pc /\ k' = 1 /\ UNCHANGED missed
    /\ UNCHANGED <<ctlVars, ring, tally, summary, events, drops, ring_drops, sinkVars, w>>

(* Plausible bug: the counter is read when its map is gone. *)
ReadDrops_Late ==
    /\ At("down") /\ k > 0
    /\ pc' = "teardown"
    /\ UNCHANGED <<k, ctlVars, dataVars, sinkVars, w>>

(* The drop counter is read while the object still exists. *)
ReadDrops ==
    /\ At("down") /\ k > 0
    /\ ring_drops' = [ring_drops EXCEPT ![ans[k]] =
                          IF skel[ans[k]] = 0 THEN 0 ELSE drops[skel[ans[k]]]]
    /\ pc' = "teardown"
    /\ UNCHANGED <<k, ctlVars, ring, tally, summary, events, drops, missed, sinkVars, w>>

(* teardown() of analyzer a: a poller is told to stop and joined, then the *)
(* object its g_skel points to is destroyed.                               *)
TellPoller(a) ==
    /\ g_thread[a] # 0 /\ ~poll_stop[a]
    /\ poll_stop' = [poll_stop EXCEPT ![a] = TRUE]
    /\ UNCHANGED <<ans, out, pc, k, nrb, objs, skel, g_thread, live, stop, dataVars, sinkVars, w>>

Joined(a) == g_thread[a] # 0 => poll_stop[a] /\ g_thread[a] \notin live

teardown(a) ==
    /\ Joined(a)
    /\ g_thread' = [g_thread EXCEPT ![a] = 0]
    /\ objs' = objs \ {skel[a]}
    /\ skel' = [skel EXCEPT ![a] = 0]
    /\ UNCHANGED <<ans, out, nrb, poll_stop, live, stop>>

StopPoller == pc \in {"rollback", "teardown"} /\ k > 0 /\ ~Busy(0) /\ TellPoller(ans[k])

RollBack ==
    /\ At("rollback") /\ k > 0
    /\ teardown(ans[k])
    /\ k' = k - 1
    /\ UNCHANGED <<pc, dataVars, sinkVars, w>>

TearDown ==
    /\ At("teardown")
    /\ teardown(ans[k])
    /\ pc' = "summary"
    /\ UNCHANGED <<k, dataVars, sinkVars, w>>

(* print_summary and emit_summary read the statistics; the record is left  *)
(* out when they are empty.                                                *)
Summary ==
    /\ At("summary")
    /\ summary' = [summary EXCEPT ![ans[k]] = tally[ans[k]]]
    /\ IF open /\ tally[ans[k]] > 0 THEN Start(0, Record(ans[k], "summary")) ELSE UNCHANGED w
    /\ pc' = "coverage"
    /\ UNCHANGED <<k, ctlVars, ring, tally, events, covVars, sinkVars>>

Coverage ==
    /\ At("coverage")
    /\ IF open THEN Start(0, Record(ans[k], "coverage")) ELSE UNCHANGED w
    /\ pc' = "down" /\ k' = k - 1
    /\ UNCHANGED <<ctlVars, dataVars, sinkVars>>

(* The sink is closed, after a failed start too, and the program returns. *)
Finish ==
    /\ pc \in {"rollback", "down"} /\ k = 0 /\ ~Busy(0)
    /\ open' = FALSE /\ jb' = <<>>
    /\ pc' = IF pc = "down" THEN "exit" ELSE "failed"
    /\ UNCHANGED <<k, ctlVars, dataVars, lines, torn, w>>

Dispatcher ==
    \/ SetupOk \/ SetupFails \/ Launched \/ LaunchFails
    \/ Consume \/ NextRing \/ PassEnds
    \/ StopPoller \/ RollBack \/ ReadDrops \/ TearDown \/ Summary \/ Coverage \/ Finish
    \/ Writing(0)

-----------------------------------------------------------------------------
(* The polling threads and the kernel *)

(* fileless_poll_loop, mediaproj_poll_loop: one detection; the statistics  *)
(* are under their own lock, the sink is not.                              *)
Detect(i) ==
    LET a == ans[i]
    IN  /\ i \in live /\ ~Busy(i) /\ events < MaxEvents
        /\ events' = events + 1
        /\ tally' = [tally EXCEPT ![a] = @ + 1]
        /\ IF out THEN Start(i, Record(a, "event")) ELSE UNCHANGED w
        /\ UNCHANGED <<pc, k, ctlVars, ring, summary, covVars, sinkVars>>

(* The loop ends when it finds its stop flag set. *)
PollerReturns(i) ==
    /\ i \in live /\ ~Busy(i) /\ poll_stop[ans[i]]
    /\ live' = live \ {i}
    /\ UNCHANGED <<ans, out, pc, k, nrb, objs, skel, g_thread, poll_stop, stop, dataVars, sinkVars, w>>

Poller(i) == PollerReturns(i) \/ Writing(i)

(* A hook of an attached object submits an event; a full ring drops it. *)
Hook(i) ==
    /\ i \in objs /\ ans[i] \notin Pollers /\ events < MaxEvents
    /\ IF ring[i] < RingCap
       THEN ring' = [ring EXCEPT ![i] = @ + 1] /\ UNCHANGED drops
       ELSE drops' = [drops EXCEPT ![i] = @ + 1] /\ UNCHANGED ring
    /\ events' = events + 1
    /\ UNCHANGED <<pc, k, ctlVars, tally, summary, ring_drops, missed, sinkVars, w>>

(* Ctrl-C, once the stop handler is installed *)
Interrupt ==
    /\ pc \in {"poll", "down", "teardown", "summary", "coverage"} /\ ~stop
    /\ stop' = TRUE
    /\ UNCHANGED <<pc, k, ans, out, nrb, objs, skel, g_thread, poll_stop, live,
                   dataVars, sinkVars, w>>

Next ==
    \/ Dispatcher
    \/ \E i \in 1 .. N : Poller(i) \/ Detect(i) \/ Hook(i)
    \/ Interrupt

(* The operating system schedules both kinds of threads; nothing makes the *)
(* target act or the user interrupt.                                       *)
Fairness == WF_vars(Dispatcher) /\ \A i \in 1 .. MaxNames : WF_vars(i <= N /\ Poller(i))

Spec == Init /\ [][Next]_vars /\ Fairness

-----------------------------------------------------------------------------
(* Properties.  Naming an analyzer twice makes it overwrite its own static *)
(* variables; what is promised then is said at each property.              *)

Distinct == IsInjective(ans)
SingleWriter == N = 1 \/ ToSet(ans) \cap Pollers = {}

(* The threads, the rings and the analyzers' counters stay in range. *)
TypeOK ==
    /\ ans \in Requests /\ {out, open, torn, stop} \subseteq BOOLEAN
    /\ pc \in {"setup", "rollback", "poll", "down", "teardown", "summary", "coverage", "exit", "failed"}
    /\ k \in 0 .. N + 1 /\ nrb \in 0 .. N
    /\ \A i \in Writers : w[i].at \in {"idle", "build1", "build2", "write", "reset"}
    /\ objs \subseteq 1 .. N /\ live \subseteq 1 .. N
    /\ {skel, g_thread} \subseteq [Names -> 0 .. N] /\ poll_stop \in [Names -> BOOLEAN]
    /\ ring \in [1 .. N -> 0 .. RingCap] /\ drops \in [1 .. N -> 0 .. MaxEvents]
    /\ {tally, summary, ring_drops} \subseteq [Names -> 0 .. MaxEvents]

(* common/emit.h: "Default: single-writer, no lock; caller ensures one     *)
(* thread drives it": every line of the output is one whole record.        *)
RecordsWhole == ~torn

(* Without a polling analyzer, or with one alone, only one thread at a     *)
(* time drives the sink, also while it is torn down and its summary and    *)
(* coverage are written: every line is one whole record, and when the      *)
(* program returns each analyzer has as many event lines as its summary    *)
(* says, no more and no fewer.                                             *)
AloneRecordsWhole ==
    SingleWriter /\ Distinct =>
        RecordsWhole /\ (pc = "exit" /\ out => lines = summary)

(* After a run, after a failed setup and after a failed launch, no BPF     *)
(* object is left attached and no polling thread is left running, provided *)
(* no analyzer was named twice.                                            *)
NothingLeftBehind ==
    pc \in {"exit", "failed"} /\ Distinct => objs = {} /\ live = {} /\ ~open

(* The summary of an analyzer reads statistics that nobody changes any     *)
(* more, as the comment above fileless_print_summary asks: its polling     *)
(* thread has returned, and the final tally is what was reported.          *)
SummaryFinal ==
    Distinct =>
        /\ pc = "summary" => \A i \in live : ans[i] # ans[k]
        /\ pc = "exit" => summary = tally

(* The coverage record of an analyzer counts every event its ring refused  *)
(* while the dispatcher was polling (mod.c reads the counter before        *)
(* teardown destroys it).                                                  *)
DropsReported ==
    pc = "exit" /\ Distinct => \A i \in 1 .. N : ring_drops[ans[i]] >= missed[i]

(* A Ctrl-C ends the run: every poller sees its flag and can be joined,    *)
(* and the dispatcher reaches the end, also when a name was given twice.   *)
StopEndsRun == stop ~> pc = "exit"
=============================================================================
