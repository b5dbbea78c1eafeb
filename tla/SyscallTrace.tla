---------------------------- MODULE SyscallTrace ----------------------------
(***************************************************************************)
(* The syscalls engine: how a traced thread's system call becomes a JSON   *)
(* record that carries its return value.                                   *)
(*                                                                         *)
(* In the kernel the entry probe filters, ships the stack once per stack   *)
(* id, emits an entry event and marks the thread in `pending'; a kretprobe *)
(* on some of the system calls emits a return event when the mark is set   *)
(* (syscalls/syscalls.bpf.c).  The poll thread moves events from the ring  *)
(* to the queue; the worker holds each entry in `pend' until a return of   *)
(* the same thread arrives (syscalls/syscalls.c).  The queue is EvQueue,   *)
(* seen as what it implements, a bounded sequence of records.              *)
(*                                                                         *)
(* A system call is named by its number in the order of the calls (`inst', *)
(* which the code does not have); a return event carries the call that     *)
(* really returned, so a record paired with another call's value shows.    *)
(***************************************************************************)
EXTENDS Integers, Sequences, FiniteSets

CONSTANTS Tids,          \* threads the uid and pid filters let through
          CompatTids,    \* those of 32-bit processes
          Nrs,           \* system calls
          Wanted,        \* those syscall_wanted lets through
          RetProbed,     \* those of g_ret_syscalls whose kretprobe attached
          Scoped,        \* those with a library scope (syscall:LIB!NAME)
          CaptureAll,    \* no library filter
          Snapshots,     \* --snapshot
          Stacks,        \* stack ids
          ProbeMayMiss,  \* a kretprobe may run out of instances
          AllocMayFail,  \* pend_store's realloc may fail
          RingCap, QCap, \* events the kernel ring and the queue hold
          PendingCap,    \* max_entries of the map `pending'
          MaxCalls,      \* bound on the system calls made
          None

ASSUME SetsAssumption ==
    CompatTids \subseteq Tids /\ Wanted \subseteq Nrs /\ RetProbed \subseteq Nrs
ASSUME FlagsAssumption ==
    {CaptureAll, Snapshots, ProbeMayMiss, AllocMayFail} \subseteq BOOLEAN
ASSUME BoundsAssumption == {RingCap, QCap, PendingCap, MaxCalls} \subseteq Nat
ASSUME NoneAssumption == None \notin Nat /\ None \notin Stacks

VARIABLES th,           \* per thread: where it is in its current system call
          pending,      \* BPF map: per thread, the entry whose return is wanted
          stack_seen,   \* BPF map: stack ids already shipped
          ring,         \* the kernel ring buffer
          ring_drops,   \* reservations it refused
          queue,        \* the userspace event queue
          queue_drops,  \* records it refused
          pend,         \* per thread: the entry held for its return
          stop,         \* the stop flag
          td,           \* where the polling and tearing-down thread is
          json,         \* per call: the return values of its records, in order
          snaps,        \* stack ids whose snapshot was written
          handled,      \* history: entries the worker took on
          scoped_out,   \* history: a library scope has rejected an entry
          bailed,       \* history: events consumed and dropped at the stop
          calls         \* history: number of system calls made

kvars == <<pending, stack_seen, ring, ring_drops>>
uvars == <<queue, queue_drops, pend, td, json, snaps, handled, scoped_out, bailed>>
vars == <<th, pending, stack_seen, ring, ring_drops, queue, queue_drops, pend,
          stop, td, json, snaps, handled, scoped_out, bailed, calls>>

Insts == 1 .. MaxCalls

Call == [nr : Nrs, inst : Insts, stack : Stacks \cup {None}]

Event ==
    [type : {"SYSCALL"}, tid : Tids, nr : Nrs, inst : Insts, stack : Stacks \cup {None}]
    \cup [type : {"RETURN"}, tid : Tids, inst : Insts]
    \cup [type : {"STACK"}, stack : Stacks]

Idle == [at |-> "user"]

Init ==
    /\ th = [t \in Tids |-> Idle]
    /\ pending = [t \in Tids |-> None]
    /\ stack_seen = {}
    /\ ring = <<>>
    /\ ring_drops = 0
    /\ queue = <<>>
    /\ queue_drops = 0
    /\ pend = [t \in Tids |-> None]
    /\ stop = FALSE
    /\ td = "poll"
    /\ json = [i \in Insts |-> <<>>]
    /\ snaps = {}
    /\ handled = {}
    /\ scoped_out = FALSE
    /\ bailed = 0
    /\ calls = 0

-----------------------------------------------------------------------------
(* The kernel side.                                                        *)

\* bpf_ringbuf_reserve and submit, or bump_dropped.
Emit(e) ==
    IF Len(ring) < RingCap
    THEN ring' = Append(ring, e) /\ ring_drops' = ring_drops
    ELSE ring' = ring /\ ring_drops' = ring_drops + 1

\* The filters: the 64-bit entry has the allow/deny list, both have the library
\* gates (hit: a range is armed and the issuing frame lies in it).
Kept(t, nr, hit) == (t \in CompatTids \/ nr \in Wanted) /\ (CaptureAll \/ hit)

\* do_el0_svc or do_el0_svc_compat up to the lookup of the stack.  The user stack
\* may be unreadable (None), which a library filter does not let through.
on_svc_enter(t, nr, s, hit) ==
    /\ th[t] = Idle
    /\ calls < MaxCalls
    /\ s = None => CaptureAll
    /\ calls' = calls + 1
    /\ th' = [th EXCEPT ![t] =
          [at |-> IF ~Kept(t, nr, hit) THEN "kernel"
                  ELSE IF Snapshots /\ s # None /\ s \notin stack_seen THEN "mark"
                  ELSE "emit",
           call |-> [nr |-> nr, inst |-> calls + 1, stack |-> s]]]
    /\ UNCHANGED <<kvars, stop, uvars>>

\* Plausible bug: the stack is marked but not shipped.
MarkStack_Never(t) ==
    /\ th[t].at = "mark"
    /\ stack_seen' = stack_seen \cup {th[t].call.stack}
    /\ th' = [th EXCEPT ![t].at = "emit"]
    /\ UNCHANGED <<pending, ring, ring_drops, stop, calls, uvars>>

\* First sight of a stack: mark it, then ship it (another CPU may do so too).
MarkStack(t) ==
    /\ th[t].at = "mark"
    /\ stack_seen' = stack_seen \cup {th[t].call.stack}
    /\ th' = [th EXCEPT ![t].at = "snap"]
    /\ UNCHANGED <<pending, ring, ring_drops, stop, calls, uvars>>

emit_stack_snapshot(t) ==
    /\ th[t].at = "snap"
    /\ Emit([type |-> "STACK", stack |-> th[t].call.stack])
    /\ th' = [th EXCEPT ![t].at = "emit"]
    /\ UNCHANGED <<pending, stack_seen, stop, calls, uvars>>

\* The update fails, unnoticed, when the map is full of other threads' marks.
Mark(t, i) ==
    IF pending[t] # None \/ Cardinality({u \in Tids : pending[u] # None}) < PendingCap
    THEN [pending EXCEPT ![t] = i]
    ELSE pending

EntryEvent(t) ==
    [type |-> "SYSCALL", tid |-> t, nr |-> th[t].call.nr, inst |-> th[t].call.inst,
     stack |-> IF Snapshots THEN th[t].call.stack ELSE None]

\* Plausible bug: the thread is marked although its entry was dropped.
EmitEntry_MarkAlways(t) ==
    /\ th[t].at = "emit" /\ t \notin CompatTids
    /\ Emit(EntryEvent(t))
    /\ pending' = Mark(t, th[t].call.inst)
    /\ th' = [th EXCEPT ![t].at = "kernel"]
    /\ UNCHANGED <<stack_seen, stop, calls, uvars>>

\* The entry event, and, unless that was dropped, the mark for the return probe.
EmitEntry(t) ==
    /\ th[t].at = "emit" /\ t \notin CompatTids
    /\ Emit(EntryEvent(t))
    /\ pending' = IF Len(ring) < RingCap THEN Mark(t, th[t].call.inst) ELSE pending
    /\ th' = [th EXCEPT ![t].at = "kernel"]
    /\ UNCHANGED <<stack_seen, stop, calls, uvars>>

\* A 32-bit call has no return probe and gets no mark.
EmitCompat(t) ==
    /\ th[t].at = "emit" /\ t \in CompatTids
    /\ Emit(EntryEvent(t))
    /\ th' = [th EXCEPT ![t].at = "kernel"]
    /\ UNCHANGED <<pending, stack_seen, stop, calls, uvars>>

\* The kretprobe program.
on_sys_exit(t) ==
    IF pending[t] # None
    THEN /\ pending' = [pending EXCEPT ![t] = None]
         /\ Emit([type |-> "RETURN", tid |-> t, inst |-> th[t].call.inst])
    ELSE UNCHANGED <<pending, ring, ring_drops>>

\* The system call returns to user space; its kretprobe, if any, runs first.
SyscallReturns(t, fires) ==
    /\ th[t].at = "kernel"
    /\ IF fires /\ t \notin CompatTids /\ th[t].call.nr \in RetProbed
       THEN on_sys_exit(t)
       ELSE UNCHANGED <<pending, ring, ring_drops>>
    /\ th' = [th EXCEPT ![t] = Idle]
    /\ UNCHANGED <<stack_seen, stop, calls, uvars>>

\* stack_seen is an LRU map: an old id may make room for another.
Evict(s) ==
    /\ Snapshots
    /\ s \in stack_seen
    /\ stack_seen' = stack_seen \ {s}
    /\ UNCHANGED <<th, pending, ring, ring_drops, stop, calls, uvars>>

-----------------------------------------------------------------------------
(* The poll thread and the stop.                                           *)

\* The ring callback.  Once the stop flag is set it returns an error: libbpf has
\* consumed the sample all the same, and the poll loop ends.
enqueue_event ==
    /\ td = "poll"
    /\ ring # <<>>
    /\ ring' = Tail(ring)
    /\ IF stop
       THEN bailed' = bailed + 1 /\ td' = "drain" /\ UNCHANGED <<queue, queue_drops>>
       ELSE /\ IF Len(queue) < QCap
               THEN queue' = Append(queue, Head(ring)) /\ UNCHANGED queue_drops
               ELSE queue_drops' = queue_drops + 1 /\ UNCHANGED queue
            /\ UNCHANGED <<bailed, td>>
    /\ UNCHANGED <<th, pending, stack_seen, ring_drops, pend, stop, json, snaps,
                   handled, scoped_out, calls>>

\* SIGINT, or another engine's end under trace.
Stop ==
    /\ ~stop
    /\ stop' = TRUE
    /\ UNCHANGED <<th, kvars, calls, uvars>>

\* The poll loop sees *stop between two polls.
PollEnds ==
    /\ td = "poll"
    /\ stop
    /\ td' = "drain"
    /\ UNCHANGED <<th, kvars, stop, calls, queue, queue_drops, pend, json, snaps,
                   handled, scoped_out, bailed>>

-----------------------------------------------------------------------------
(* The worker.                                                             *)

Popped(type) == td # "over" /\ queue # <<>> /\ Head(queue).type = type

\* One more record for call i, with return value r (None: "retval":null).
json_emit(j, i, r) == [j EXCEPT ![i] = Append(@, r)]

\* Plausible bug: the entry that never returned is overwritten unreported.
pend_store_Overwrite(e) ==
    /\ pend' = [pend EXCEPT ![e.tid] = e.inst]
    /\ handled' = handled \cup {e.inst}
    /\ UNCHANGED json

\* Hold entry e; report the one it replaces, whose return never came.
pend_store(e) ==
    /\ pend' = [pend EXCEPT ![e.tid] = e.inst]
    /\ json' = IF pend[e.tid] # None THEN json_emit(json, pend[e.tid], None) ELSE json
    /\ handled' = handled \cup {e.inst}

\* in_scope: the scope of this system call, if it has one, covers the stack.
handle_syscall(in_scope) ==
    /\ Popped("SYSCALL")
    /\ queue' = Tail(queue)
    /\ LET e == Head(queue)
       IN  IF e.nr \in Scoped /\ ~in_scope
           THEN scoped_out' = TRUE /\ UNCHANGED <<pend, json, handled>>
           ELSE /\ \/ pend_store(e)
                   \/ /\ AllocMayFail                \* the table could not grow
                      /\ pend[e.tid] = None
                      /\ UNCHANGED <<pend, json, handled>>
                /\ UNCHANGED scoped_out
    /\ UNCHANGED <<th, kvars, stop, calls, queue_drops, td, snaps, bailed>>

handle_return ==
    /\ Popped("RETURN")
    /\ queue' = Tail(queue)
    /\ LET e == Head(queue)
       IN  IF pend[e.tid] = None
           THEN UNCHANGED <<pend, json>>
           ELSE /\ json' = json_emit(json, pend[e.tid], e.inst)
                /\ pend' = [pend EXCEPT ![e.tid] = None]
    /\ UNCHANGED <<th, kvars, stop, calls, queue_drops, td, snaps, handled,
                   scoped_out, bailed>>

json_emit_stack ==
    /\ Popped("STACK")
    /\ queue' = Tail(queue)
    /\ snaps' = snaps \cup {Head(queue).stack}
    /\ UNCHANGED <<th, kvars, stop, calls, queue_drops, td, pend, json, handled,
                   scoped_out, bailed>>

\* The table of records once every entry still held is reported without a value.
pend_flush_all ==
    [i \in Insts |-> IF \E t \in Tids : pend[t] = i THEN Append(json[i], None) ELSE json[i]]

\* Plausible bug: the run ends with entries still held for their return.
syscalls_teardown_NoFlush ==
    /\ td = "drain"
    /\ queue = <<>>
    /\ td' = "over"
    /\ UNCHANGED <<th, kvars, stop, calls, queue, queue_drops, pend, json, snaps, handled,
                   scoped_out, bailed>>

\* The worker has drained the queue and is joined; the rest is flushed.
syscalls_teardown ==
    /\ td = "drain"
    /\ queue = <<>>
    /\ td' = "over"
    /\ json' = pend_flush_all
    /\ pend' = [t \in Tids |-> None]
    /\ UNCHANGED <<th, kvars, stop, calls, queue, queue_drops, snaps, handled,
                   scoped_out, bailed>>

Worker == (\E b \in BOOLEAN : handle_syscall(b)) \/ handle_return \/ json_emit_stack

Poll == enqueue_event \/ PollEnds

Kernel(t) ==
    \/ \E nr \in Nrs, s \in Stacks \cup {None}, hit \in BOOLEAN : on_svc_enter(t, nr, s, hit)
    \/ MarkStack(t)
    \/ emit_stack_snapshot(t)
    \/ EmitEntry(t)
    \/ EmitCompat(t)
    \/ \E fires \in {TRUE} \cup (IF ProbeMayMiss THEN {FALSE} ELSE {}) :
          SyscallReturns(t, fires)

Next ==
    \/ \E t \in Tids : Kernel(t)
    \/ \E s \in Stacks : Evict(s)
    \/ enqueue_event
    \/ Stop
    \/ PollEnds
    \/ \E b \in BOOLEAN : handle_syscall(b)
    \/ handle_return
    \/ json_emit_stack
    \/ syscalls_teardown

\* The poll thread and the worker are scheduled; the application and the user
\* do what they like.
Spec == Init /\ [][Next]_vars /\ WF_vars(Poll) /\ WF_vars(Worker) /\ WF_vars(syscalls_teardown)
-----------------------------------------------------------------------------
(* Properties.                                                             *)

\* Every BPF map, queue and table holds values of its type, and neither queue
\* outgrows its size.
TypeOK ==
    /\ \A t \in Tids :
          \/ th[t] = Idle
          \/ th[t].at \in {"mark", "snap", "emit", "kernel"} /\ th[t].call \in Call
    /\ pending \in [Tids -> Insts \cup {None}]
    /\ stack_seen \subseteq Stacks
    /\ ring \in Seq(Event) /\ Len(ring) <= RingCap
    /\ queue \in Seq(Event) /\ Len(queue) <= QCap
    /\ ring_drops \in Nat /\ queue_drops \in Nat /\ bailed \in Nat
    /\ pend \in [Tids -> Insts \cup {None}]
    /\ stop \in BOOLEAN
    /\ td \in {"poll", "drain", "over"}
    /\ json \in [Insts -> Seq(Insts \cup {None})]
    /\ snaps \subseteq Stacks
    /\ handled \subseteq Insts
    /\ scoped_out \in BOOLEAN
    /\ calls \in 0 .. MaxCalls

\* A record carries no return value or that of its own system call (entry and
\* return are paired by tid alone, and on_sys_exit trusts `pending').
ReturnsPaired ==
    \A i \in Insts : \A k \in DOMAIN json[i] : json[i][k] \in {None, i}

\* Every entry the kernel keeps has a return probe that fires.
KeptAreProbed == Wanted \subseteq RetProbed /\ ~ProbeMayMiss

\* Every system call of a traced thread has an entry event.
KeepsAll == CaptureAll /\ Wanted = Nrs

\* `pending' has room for a thread's mark, whichever others have theirs.
MarksFit == \A t \in Tids : \A M \in SUBSET (Tids \ {t}) : Cardinality(M) < PendingCap

\* As long as the coverage report shows no queue drops, pairing by tid is exact
\* when every kept call has a working return probe (ring drops then do no harm,
\* unless a library scope rejects entries too), and when every call is kept and no
\* event was lost: a stale `pending' mark or `pend' entry never meets a return.
PairingExact ==
    /\ queue_drops = 0
    /\ \/ KeptAreProbed /\ (scoped_out => ring_drops = 0 /\ MarksFit)
       \/ KeepsAll /\ ~scoped_out /\ ring_drops = 0
    => ReturnsPaired

\* An entry the worker took on is in exactly one place: held for its return or
\* written, once.  pend_store, handle_return and pend_flush_all neither lose an
\* entry nor report it twice.
ReportedOnce ==
    \A i \in Insts :
       LET held == \E t \in Tids : pend[t] = i
       IN  IF i \in handled THEN Len(json[i]) = (IF held THEN 0 ELSE 1)
                            ELSE json[i] = <<>> /\ ~held

\* The stack ids that records written or under way refer to.
StackIds ==
    {queue[k].stack : k \in {k \in DOMAIN queue : queue[k].type = "SYSCALL"}} \cup
    {ring[k].stack : k \in {k \in DOMAIN ring : ring[k].type = "SYSCALL"}}

InFlight(q) == {q[k].stack : k \in {k \in DOMAIN q : q[k].type = "STACK"}}

\* While no event has been lost, a record's stack_id refers to a snapshot that
\* is written, under way, or about to be emitted by the thread that marked it:
\* marking before shipping, on several CPUs and with LRU eviction, never leaves
\* a stack id dangling.
StackIdResolves ==
    Snapshots /\ ring_drops = 0 /\ queue_drops = 0 /\ bailed = 0 =>
       (StackIds \cup stack_seen) \ {None} \subseteq
          snaps \cup InFlight(queue) \cup InFlight(ring)
          \cup {th[t].call.stack : t \in {u \in Tids : th[u].at = "snap"}}

\* Once the run is stopped the teardown comes to its end, and then every entry the
\* worker took on, before or after the stop, has its record, returned or not.
HeldEntriesReported ==
    stop ~> (td = "over" /\ \A i \in handled : Len(json[i]) = 1)
=============================================================================
