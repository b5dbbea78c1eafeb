------------------------------ MODULE MCDrains ------------------------------
(***************************************************************************)
(* The components that must bring what they hold to an end: the fileless   *)
(* analyzer with its pending candidates, and the syscalls engine,          *)
(* capturing everything, with the entries that wait for their return. A    *)
(* behaviour is one of the chosen component; the other stays in its        *)
(* initial state.                                                          *)
(***************************************************************************)
EXTENDS FilelessDetect

CONSTANTS None

VARIABLES part,   \* the component that runs in this behaviour
          s_th, s_pending, s_stack_seen, s_ring, s_ring_drops, s_queue,
          s_queue_drops, s_pend, s_stop, s_td, s_json, s_snaps, s_handled,
          s_scoped_out, s_bailed, s_calls

s_vars == <<s_th, s_pending, s_stack_seen, s_ring, s_ring_drops, s_queue,
             s_queue_drops, s_pend, s_stop, s_td, s_json, s_snaps, s_handled,
             s_scoped_out, s_bailed, s_calls>>

Sys == INSTANCE SyscallTrace WITH
       Tids <- {1, 2}, CompatTids <- {}, Nrs <- {"openat", "futex"},
       Wanted <- {"openat", "futex"}, RetProbed <- {"openat"}, Scoped <- {},
       CaptureAll <- TRUE, Snapshots <- FALSE, Stacks <- {}, ProbeMayMiss <- TRUE,
       AllocMayFail <- TRUE, RingCap <- 2, QCap <- 2, PendingCap <- 1,
       MaxCalls <- 3, None <- None, th <- s_th, pending <- s_pending,
       stack_seen <- s_stack_seen, ring <- s_ring, ring_drops <- s_ring_drops,
       queue <- s_queue, queue_drops <- s_queue_drops, pend <- s_pend,
       stop <- s_stop, td <- s_td, json <- s_json, snaps <- s_snaps,
       handled <- s_handled, scoped_out <- s_scoped_out, bailed <- s_bailed,
       calls <- s_calls

DrainsInit ==
    /\ part \in {"fileless", "syscalls"}
    /\ Init /\ Sys!Init

DrainsNext ==
    /\ \/ part = "fileless" /\ Next /\ UNCHANGED s_vars
       \/ part = "syscalls" /\ Sys!Next /\ UNCHANGED vars
    /\ UNCHANGED part

(* The fairness of the component that runs *)
DrainsFairness ==
    /\ WF_vars(part = "fileless" /\ Poll) /\ WF_vars(part = "fileless" /\ Tick)
    /\ WF_s_vars(part = "syscalls" /\ Sys!Poll) /\ WF_s_vars(part = "syscalls" /\ Sys!Worker)
    /\ WF_s_vars(part = "syscalls" /\ Sys!syscalls_teardown)

DrainsSpec == DrainsInit /\ [][DrainsNext]_<<part, vars, s_vars>> /\ DrainsFairness
-----------------------------------------------------------------------------
(* The property of SyscallTrace; those of FilelessDetect keep their names *)
\* Once the run is stopped, teardown ends and all entries have their records.
HeldEntriesReported == part = "syscalls" => Sys!HeldEntriesReported
=============================================================================
