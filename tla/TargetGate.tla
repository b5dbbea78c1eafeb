----------------------------- MODULE TargetGate -----------------------------
(***************************************************************************)
(* Which tasks the kernel hooks look at: the maps target_uids and          *)
(* target_pids, the gate `uid_matches() || pid_matches()', and the         *)
(* follow-fork program that adds the children of a traced process to       *)
(* target_pids while the engine runs (common/uid_filter.bpf.h,             *)
(* common/pid_filter.bpf.h, common/follow_fork.bpf.h).                     *)
(*                                                                         *)
(* Threads and processes draw their ids from one set, as in the kernel,    *)
(* and an id is used again after its task has gone.  Nothing is ever       *)
(* removed from target_pids.                                               *)
(***************************************************************************)
EXTENDS Naturals, FiniteSets

CONSTANTS Pids,      \* ids of threads and processes
          Main,      \* the process given with -p, or launched for -P
          Modes,     \* the ways the engine may be started, see Mode
          PidCap,    \* max_entries of target_pids (64)
          None

ASSUME PidsAssumption == Main \in Pids /\ None \notin Pids /\ PidCap \in Nat \ {0}

VARIABLES mode,         \* how the engine was started
          tgid,         \* [Pids -> Pids]: the process a task belongs to; its own id for a process
          app,          \* the processes that run under the target's uid
          target_pids,  \* the map of that name
          ff,           \* anubee_follow_fork is attached
          heirs,        \* history: live processes descended, while followed, from the target
          recycled      \* history: ids of tasks that have gone, and what a later owner forks

gateVars == <<mode, tgid, app, target_pids, ff, heirs, recycled>>

(* -p PID (pid), with --siblings (uid) and without --no-follow-fork (follow), *)
(* or -P PACKAGE; `seed': the loader scans the maps file of the target.       *)
Mode == [pid : BOOLEAN, uid : BOOLEAN, follow : BOOLEAN, seed : BOOLEAN]

ASSUME ModesAssumption ==
    Modes \subseteq {m \in Mode : /\ m.follow => m.pid
                                  /\ m.pid => m.seed
                                  /\ ~m.pid => m.uid}

Processes == {p \in Pids : tgid[p] = p}
Free == {p \in Pids : tgid[p] = None}

(* uid_matches() || pid_matches() for a task of process p *)
Gate(p) == (mode.uid /\ p \in app) \/ p \in target_pids

Inserted_Unbounded(p) == target_pids \cup {p}

(* bpf_map_update_elem(&target_pids, ..., BPF_ANY): a full map refuses a new key *)
Inserted(p) ==
    IF p \in target_pids \/ Cardinality(target_pids) < PidCap
    THEN target_pids \cup {p} ELSE target_pids

GateInit ==
    /\ mode \in Modes
    /\ tgid = [p \in Pids |-> IF p = Main /\ mode.pid THEN Main ELSE None]
    /\ app = IF mode.pid THEN {Main} ELSE {}
    /\ target_pids = {}
    /\ ff = FALSE
    /\ heirs = {}
    /\ recycled = {}

(* The loader installs the target: target_pids for -p; target_uids is part of mode. *)
InstallTarget ==
    /\ target_pids' = IF mode.pid THEN Inserted(Main) ELSE target_pids
    /\ heirs' = IF mode.pid THEN {Main} \cap Processes ELSE heirs
    /\ UNCHANGED <<mode, tgid, app, ff, recycled>>

(* bpf_program__attach(anubee_follow_fork) *)
AttachFollow ==
    /\ ff' = mode.follow
    /\ UNCHANGED <<mode, tgid, app, target_pids, heirs, recycled>>

anubee_follow_fork_AnyParent(p, c) ==
    target_pids' = IF ff THEN Inserted(c) ELSE target_pids

(* sched_process_fork, run by the parent for a new process or thread c *)
anubee_follow_fork(p, c) ==
    target_pids' = IF ff /\ p \in target_pids THEN Inserted(c) ELSE target_pids

(* Process p forks the process c. *)
Fork(p, c) ==
    /\ p \in Processes /\ c \in Free
    /\ tgid' = [tgid EXCEPT ![c] = c]
    /\ app' = IF p \in app THEN app \cup {c} ELSE app
    /\ anubee_follow_fork(p, c)
    /\ heirs' = IF ff /\ p \in heirs THEN heirs \cup {c} ELSE heirs
    /\ recycled' = IF p \in recycled \ heirs THEN recycled \cup {c} ELSE recycled
    /\ UNCHANGED <<mode, ff>>

(* Process p starts the thread t. *)
Clone(p, t) ==
    /\ p \in Processes /\ t \in Free
    /\ tgid' = [tgid EXCEPT ![t] = p]
    /\ anubee_follow_fork(p, t)
    /\ UNCHANGED <<mode, app, ff, heirs, recycled>>

(* A process that no traced process forked: the zygote's next app, with or *)
(* without the target's uid.                                               *)
Spawn(p, sameUid) ==
    /\ p \in Free
    /\ tgid' = [tgid EXCEPT ![p] = p]
    /\ app' = IF sameUid THEN app \cup {p} ELSE app
    /\ UNCHANGED <<mode, target_pids, ff, heirs, recycled>>

(* A thread ends, or a process with all its threads. *)
Exit(t) ==
    LET gone == {u \in Pids : u = t \/ tgid[u] = t}
    IN  /\ t \notin Free
        /\ tgid' = [u \in Pids |-> IF u \in gone THEN None ELSE tgid[u]]
        /\ app' = app \ {t}
        /\ heirs' = heirs \ {t}
        /\ recycled' = recycled \cup gone
        /\ UNCHANGED <<mode, target_pids, ff>>

GateTypeOK ==
    /\ mode \in Modes
    /\ tgid \in [Pids -> Pids \cup {None}]
    /\ app \subseteq Processes /\ heirs \subseteq Processes
    /\ target_pids \subseteq Pids /\ Cardinality(target_pids) <= PidCap
    /\ ff \in BOOLEAN
    /\ recycled \subseteq Pids
=============================================================================
