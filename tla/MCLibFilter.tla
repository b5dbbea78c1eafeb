---------------------------- MODULE MCLibFilter ----------------------------
(***************************************************************************)
(* Instances of LibFilter: the ways to start the syscalls engine.          *)
(***************************************************************************)
EXTENDS LibFilter, TLC

CONSTANTS p1, p2, p3, libsel, libscope, libother

(* -p PID, the default *)
AttachMode == [pid |-> TRUE, uid |-> FALSE, follow |-> TRUE, seed |-> TRUE]

(* -p PID --siblings --no-follow-fork *)
SiblingsMode == [pid |-> TRUE, uid |-> TRUE, follow |-> FALSE, seed |-> TRUE]

(* anubee syscalls -P PACKAGE *)
LaunchMode == [pid |-> FALSE, uid |-> TRUE, follow |-> FALSE, seed |-> TRUE]

(* anubee trace -P PACKAGE *)
TraceMode == [pid |-> FALSE, uid |-> TRUE, follow |-> FALSE, seed |-> FALSE]

AllModes == {AttachMode, SiblingsMode, LaunchMode, TraceMode}
(* The zygote has mapped one executable range, selected or not. *)
OneInherited == {[a \in Addrs |-> IF a = 1 THEN l ELSE None] : l \in {libscope, libother}}

(* The other processes are interchangeable. *)
Symmetry == Permutations(Pids \ {Main})

AttachModes == {AttachMode}
=============================================================================
