------------------------------ MODULE LibFilter ------------------------------
(***************************************************************************)
(* The library filter of the syscalls engine (-l, lib:, and the scopes of  *)
(* syscall:LIB!NAME).  The kernel keeps a system call only when its issuer *)
(* lies in an executable range that userspace has armed for the process.   *)
(* Ranges are armed from two sources: a scan of /proc/PID/maps during      *)
(* start-up, and the MAP events that the uprobe_mmap hook sends through    *)
(* the ring for every later mapping.                                       *)
(*                                                                         *)
(* An address stands for one executable range; a scan reads one line per   *)
(* step and so may interleave with the target's mappings.  Start-up and    *)
(* the poll loop run on one thread, which is therefore the only writer of  *)
(* lib_ranges.  The lookup and the stack test of on_svc_enter are one step.*)
(* Counters of which only zero or not matters are booleans.                *)
(***************************************************************************)
EXTENDS TargetGate, Sequences, Functions

CONSTANTS Addrs,      \* 1..n: executable ranges, in the order of a maps file
          Libs,       \* file names a range may be mapped from
          Selected,   \* those -l / lib: / a scope selects
          ScopeLibs,  \* those the scope of one system call selects
          ZygoteMaps, \* what a new app process may have inherited from the zygote
          RingCap,    \* records the ring holds
          RangeCap,   \* SYSC_MAX_RANGES (8)
          MapCap,     \* max_entries of lib_ranges (64)
          MaxOps      \* bound: steps the traced system takes

ASSUME LibAssumption ==
    /\ IsFiniteSet(Addrs) /\ Addrs = 1..Cardinality(Addrs)
    /\ ScopeLibs \subseteq Selected /\ Selected \subseteq Libs /\ None \notin Libs
    /\ ZygoteMaps \subseteq [Addrs -> Libs \cup {None}]
    /\ {RingCap, RangeCap, MapCap, MaxOps} \subseteq Nat \ {0}

VARIABLES pc,          \* the engine's thread: "install", "seed", "scope", "attach", "follow", "launch", "run"
          line,        \* next line of the maps file in a scan
          attached,    \* the kernel hooks are attached
          lib,         \* [Pids -> [Addrs -> Libs]]: what each process has mapped
          ring,        \* the events ring
          dropped,     \* the ring has refused a record
          prearm,      \* COV_PREARM is not zero
          lib_ranges,  \* [Pids -> Seq(Addrs)]: armed ranges; <<>> is no entry
          scope,       \* g_scopes[i].ranges of the one scope
          ops,
          source,      \* history: how each current mapping came to be known
          selectedAt,  \* history: <<p, a>> ever mapped from a selected library
          missed       \* history: a call of a selected library was skipped

libVars == <<pc, line, attached, lib, ring, dropped, prearm, lib_ranges, scope, ops,
             source, selectedAt, missed>>
vars == <<gateVars, libVars>>

Event == [type : {"MAP"}, pid : Pids, addr : Addrs, lib : Libs]
         \cup [type : {"UNMAP", "SYSCALL"}, pid : Pids, addr : Addrs]

(* "announced": a MAP event was sent or a scan read the line.  Otherwise why not. *)
Sources == {"unmapped", "announced", "inherited", "unhooked", "dropped", "full"}

Armed(p) == Range(lib_ranges[p])
SelectedIn(p) == {a \in Addrs : lib[p][a] \in Selected}

(* bpf_ringbuf_reserve .. submit; LIBTRACE_ON_DROP / bump_dropped when full *)
Emit(e) ==
    /\ ring' = IF Len(ring) < RingCap THEN Append(ring, e) ELSE ring
    /\ dropped' = (dropped \/ Len(ring) >= RingCap)

-----------------------------------------------------------------------------
(* Arming, on the engine's thread *)

Entries == {p \in Pids : lib_ranges[p] # <<>>}

(* push_lib_range returns early, or the map update fails *)
Refused(p, a) ==
    /\ a \notin Armed(p)
    /\ \/ Len(lib_ranges[p]) >= RangeCap
       \/ lib_ranges[p] = <<>> /\ Cardinality(Entries) >= MapCap

(* A scan has read the mapping at a; an event may tell of an older one. *)
ReadLine(p, a) ==
    source' = [source EXCEPT ![p][a] = IF Refused(p, a) THEN "full" ELSE "announced"]

Told(p, a) ==
    source' = [source EXCEPT ![p][a] = IF @ = "announced" /\ Refused(p, a) THEN "full" ELSE @]

(* Plausible bug: the range is appended although it is there. *)
push_lib_range_Again(p, a) ==
    lib_ranges' = IF Refused(p, a) \/ Len(lib_ranges[p]) >= RangeCap THEN lib_ranges
                  ELSE [lib_ranges EXCEPT ![p] = Append(@, a)]

(* Read-modify-write of the entry of p. *)
push_lib_range(p, a) ==
    lib_ranges' = IF a \in Armed(p) \/ Refused(p, a) THEN lib_ranges
                  ELSE [lib_ranges EXCEPT ![p] = Append(@, a)]

push_scope_range(a) ==
    scope' = IF a \in Range(scope) \/ Len(scope) >= RangeCap THEN scope ELSE Append(scope, a)

(* syscalls_setup up to the scan: target_pids or target_uids *)
Install ==
    /\ pc = "install"
    /\ InstallTarget
    /\ pc' = IF mode.pid THEN "seed" ELSE "attach"
    /\ UNCHANGED <<line, attached, lib, ring, dropped, prearm, lib_ranges, scope, ops,
                   source, selectedAt, missed>>

(* one line of the scan that arms lib_ranges[Main] *)
seed_lib_ranges_from_maps ==
    /\ pc = "seed" /\ line \in Addrs
    /\ line' = line + 1
    /\ IF lib[Main][line] \in Selected
       THEN push_lib_range(Main, line) /\ ReadLine(Main, line)
       ELSE UNCHANGED <<lib_ranges, source>>
    /\ UNCHANGED <<gateVars, pc, attached, lib, ring, dropped, prearm, scope, ops, selectedAt, missed>>

seed_scope_ranges_from_maps_Skip ==
    /\ pc = "scope" /\ line \in Addrs
    /\ line' = line + 1
    /\ UNCHANGED <<gateVars, pc, attached, lib, ring, dropped, prearm, lib_ranges, scope, ops,
                   source, selectedAt, missed>>

(* one line of the second scan, for the scope's own ranges *)
seed_scope_ranges_from_maps ==
    /\ pc = "scope" /\ line \in Addrs
    /\ line' = line + 1
    /\ IF lib[Main][line] \in ScopeLibs THEN push_scope_range(line) ELSE UNCHANGED scope
    /\ UNCHANGED <<gateVars, pc, attached, lib, ring, dropped, prearm, lib_ranges, ops,
                   source, selectedAt, missed>>

(* A scan has read its last line.  With -p the hooks are attached after    *)
(* the scans, with -P the poll loop starts.                                *)
ScanEnds ==
    /\ pc \in {"seed", "scope"} /\ line \notin Addrs
    /\ line' = 1
    /\ pc' = IF pc = "seed" THEN "scope" ELSE IF mode.pid THEN "attach" ELSE "run"
    /\ UNCHANGED <<gateVars, attached, lib, ring, dropped, prearm, lib_ranges, scope, ops,
                   source, selectedAt, missed>>

(* syscalls__attach: on_svc_enter, on_uprobe_mmap and on_uprobe_munmap are live *)
Attach ==
    /\ pc = "attach"
    /\ attached' = TRUE
    /\ pc' = IF mode.pid THEN "follow" ELSE "launch"
    /\ UNCHANGED <<gateVars, line, lib, ring, dropped, prearm, lib_ranges, scope, ops,
                   source, selectedAt, missed>>

Follow ==
    /\ pc = "follow"
    /\ AttachFollow
    /\ pc' = "run"
    /\ UNCHANGED <<line, attached, lib, ring, dropped, prearm, lib_ranges, scope, ops,
                   source, selectedAt, missed>>

enqueue_event_AnyLib ==
    /\ pc = "run" /\ ring # <<>>
    /\ ring' = Tail(ring)
    /\ LET e == Head(ring)
       IN  /\ IF e.type = "MAP"
              THEN push_lib_range(e.pid, e.addr) /\ Told(e.pid, e.addr)
              ELSE UNCHANGED <<lib_ranges, source>>
           /\ IF e.type = "MAP" /\ e.lib \in ScopeLibs
              THEN push_scope_range(e.addr) ELSE UNCHANGED scope
    /\ UNCHANGED <<gateVars, pc, line, attached, lib, dropped, prearm, ops, selectedAt, missed>>

(* The ring callback: a MAP event arms its range before it is queued. *)
enqueue_event ==
    /\ pc = "run" /\ ring # <<>>
    /\ ring' = Tail(ring)
    /\ LET e == Head(ring)
       IN  /\ IF e.type = "MAP" /\ e.lib \in Selected
              THEN push_lib_range(e.pid, e.addr) /\ Told(e.pid, e.addr)
              ELSE UNCHANGED <<lib_ranges, source>>
           /\ IF e.type = "MAP" /\ e.lib \in ScopeLibs
              THEN push_scope_range(e.addr) ELSE UNCHANGED scope
    /\ UNCHANGED <<gateVars, pc, line, attached, lib, dropped, prearm, ops, selectedAt, missed>>

-----------------------------------------------------------------------------
(* The traced system *)

Op == ops < MaxOps /\ ops' = ops + 1

(* What a process starts with was mapped before it was forked. *)
Inherit(p, m) ==
    /\ lib' = [lib EXCEPT ![p] = m]
    /\ source' = [source EXCEPT ![p] =
                      [a \in Addrs |-> IF m[a] = None THEN "unmapped" ELSE "inherited"]]
    /\ selectedAt' = selectedAt \cup {<<p, a>> : a \in {b \in Addrs : m[b] \in Selected}}

Mappings == [Addrs -> Libs \cup {None}]

(* anubee_launch_app: the target process appears, forked from the zygote;  *)
(* an older instance may have run until then, under the attached hooks.    *)
(* `anubee syscalls' then seeds from its maps; under `anubee trace' no     *)
(* engine is told the pid.                                                 *)
Launch(m) ==
    /\ pc = "launch"
    /\ pc' = IF mode.seed THEN "seed" ELSE "run"
    /\ Spawn(Main, TRUE)
    /\ Inherit(Main, m)
    /\ UNCHANGED <<line, attached, ring, dropped, prearm, lib_ranges, scope, ops, missed>>

ForkProcess(p, c) ==
    /\ Op /\ Fork(p, c) /\ Inherit(c, lib[p])
    /\ UNCHANGED <<pc, line, attached, ring, dropped, prearm, lib_ranges, scope, missed>>

CloneThread(p, t) ==
    /\ Op /\ Clone(p, t)
    /\ UNCHANGED <<pc, line, attached, lib, ring, dropped, prearm, lib_ranges, scope,
                   source, selectedAt, missed>>

SpawnProcess(p, sameUid, m) ==
    /\ Op /\ Spawn(p, sameUid) /\ Inherit(p, m)
    /\ UNCHANGED <<pc, line, attached, ring, dropped, prearm, lib_ranges, scope, missed>>

(* A process has unmapped everything (exit_mmap) before its id is free. *)
ExitTask(t) ==
    /\ Op /\ Exit(t)
    /\ t \in Processes => \A a \in Addrs : lib[t][a] = None
    /\ UNCHANGED <<pc, line, attached, lib, ring, dropped, prearm, lib_ranges, scope,
                   source, selectedAt, missed>>

Hooked(p) == attached /\ Gate(p)

on_uprobe_mmap(p, a, l) ==
    /\ Op /\ p \in Processes /\ lib[p][a] = None
    /\ lib' = [lib EXCEPT ![p][a] = l]
    /\ IF Hooked(p) THEN Emit([type |-> "MAP", pid |-> p, addr |-> a, lib |-> l])
       ELSE UNCHANGED <<ring, dropped>>
    /\ source' = [source EXCEPT ![p][a] =
                      IF ~Hooked(p) THEN "unhooked"
                      ELSE IF Len(ring) >= RingCap THEN "dropped" ELSE "announced"]
    /\ selectedAt' = IF l \in Selected THEN selectedAt \cup {<<p, a>>} ELSE selectedAt
    /\ UNCHANGED <<gateVars, pc, line, attached, prearm, lib_ranges, scope, missed>>

on_uprobe_munmap(p, a) ==
    /\ Op /\ p \in Processes /\ lib[p][a] # None
    /\ lib' = [lib EXCEPT ![p][a] = None]
    /\ source' = [source EXCEPT ![p][a] = "unmapped"]
    /\ IF Hooked(p) THEN Emit([type |-> "UNMAP", pid |-> p, addr |-> a])
       ELSE UNCHANGED <<ring, dropped>>
    /\ UNCHANGED <<gateVars, pc, line, attached, prearm, lib_ranges, scope, selectedAt, missed>>

(* A system call of p issued from range a.  Without any armed range it is  *)
(* counted and skipped; outside the armed ranges it is skipped.            *)
on_svc_enter(p, a) ==
    /\ Op /\ p \in Processes /\ lib[p][a] # None /\ Hooked(p)
    /\ prearm' = (prearm \/ lib_ranges[p] = <<>>)
    /\ IF a \in Armed(p) THEN Emit([type |-> "SYSCALL", pid |-> p, addr |-> a])
       ELSE UNCHANGED <<ring, dropped>>
    /\ missed' = (missed \/ (lib[p][a] \in Selected /\ a \notin Armed(p)))
    /\ UNCHANGED <<gateVars, pc, line, attached, lib, lib_ranges, scope, source, selectedAt>>

-----------------------------------------------------------------------------

Init ==
    /\ GateInit
    /\ pc = "install" /\ line = 1 /\ attached = FALSE
    /\ ring = <<>> /\ dropped = FALSE /\ prearm = FALSE
    /\ \E m \in ZygoteMaps :
          lib = [p \in Pids |-> IF p \in Processes THEN m ELSE [a \in Addrs |-> None]]
    /\ lib_ranges = [p \in Pids |-> <<>>]
    /\ scope = <<>> /\ ops = 0
    /\ source = [p \in Pids |-> [a \in Addrs |->
                    IF lib[p][a] = None THEN "unmapped" ELSE "inherited"]]
    /\ selectedAt = {x \in Pids \X Addrs : lib[x[1]][x[2]] \in Selected}
    /\ missed = FALSE

Loader ==
    \/ Install \/ seed_lib_ranges_from_maps \/ seed_scope_ranges_from_maps \/ ScanEnds
    \/ Attach \/ Follow \/ enqueue_event
    \/ \E m \in ZygoteMaps : Launch(m)

Target ==
    \/ \E p, c \in Pids : ForkProcess(p, c) \/ CloneThread(p, c)
    \/ \E p \in Pids, sameUid \in BOOLEAN, m \in ZygoteMaps : SpawnProcess(p, sameUid, m)
    \/ \E t \in Pids : ExitTask(t)
    \/ \E p \in Pids, a \in Addrs :
           \/ \E l \in Libs : on_uprobe_mmap(p, a, l)
           \/ on_uprobe_munmap(p, a)
           \/ on_svc_enter(p, a)

Next == Loader \/ Target

Spec == Init /\ [][Next]_vars

-----------------------------------------------------------------------------

(* The maps keep their capacities and a free id has nothing mapped. *)
TypeOK ==
    /\ GateTypeOK
    /\ pc \in {"install", "seed", "scope", "attach", "follow", "launch", "run"}
    /\ line \in 1..(Cardinality(Addrs) + 1)
    /\ lib \in [Pids -> Mappings]
    /\ \A p \in Pids \ Processes, a \in Addrs : lib[p][a] = None
    /\ Len(ring) <= RingCap /\ Range(ring) \subseteq Event
    /\ lib_ranges \in [Pids -> UNION {[1..n -> Addrs] : n \in 0..RangeCap}]
    /\ Cardinality(Entries) <= MapCap
    /\ Len(scope) <= RangeCap /\ Range(scope) \subseteq Addrs
    /\ source \in [Pids -> [Addrs -> Sources]]
    /\ {attached, dropped, prearm, missed} \subseteq BOOLEAN /\ ops \in 0..MaxOps

(* No range takes two of the eight slots of a process or of a scope,       *)
(* although start-up scan and MAP event may both report it and a library   *)
(* may come back to its old address (push_lib_range, push_scope_range).    *)
RangesDistinct == IsInjective(scope) /\ \A p \in Pids : IsInjective(lib_ranges[p])

(* Only what a selected library has occupied is armed: the filter of a     *)
(* process never keeps calls from an address that no process of that id    *)
(* has mapped a selected library at (enqueue_event, the two scans).        *)
ArmedWasSelected ==
    \A p \in Pids : \A a \in Armed(p) : <<p, a>> \in selectedAt

(* Once the poll loop runs and the MAP event of a mapping is not in the    *)
(* ring any more, a selected library of a traced process is armed.  The    *)
(* exceptions are exactly: its event was lost to a full ring, and the drop *)
(* counter says so; the tables are full; it was inherited by a process     *)
(* whose maps the loader never scans; or it was mapped while the hooks did *)
(* not see the process, which for the target itself happens with -p only,  *)
(* between the scan of its line and the attach.                            *)
SelectedIsArmed ==
    pc = "run" =>
        \A p \in Processes : Gate(p) =>
            \A a \in SelectedIn(p) \ Armed(p) :
                \/ \E i \in DOMAIN ring : /\ ring[i].type = "MAP" /\ ring[i].lib \in Selected
                                         /\ ring[i].pid = p /\ ring[i].addr = a
                \/ source[p][a] = "dropped" /\ dropped
                \/ /\ source[p][a] = "full"
                   /\ Len(lib_ranges[p]) = RangeCap \/ Cardinality(Entries) = MapCap
                \/ source[p][a] = "inherited" /\ (p # Main \/ ~mode.seed \/ p \in recycled)
                \/ source[p][a] = "unhooked" /\ (p # Main \/ mode.pid)

(* A call that the kernel keeps for a mapping of a scoped library also     *)
(* passes the scope's own test on the worker: the scope's ranges follow    *)
(* the kernel's, unless the scope's eight slots are taken (the twin scans  *)
(* and enqueue_event).                                                     *)
ScopeFollowsFilter ==
    pc = "run" =>
        \A p \in Processes : \A a \in Armed(p) :
            lib[p][a] \in ScopeLibs /\ source[p][a] = "announced" =>
                \/ a \in Range(scope) \/ Len(scope) = RangeCap
                \/ \E i \in DOMAIN ring : ring[i].type = "MAP" /\ ring[i].addr = a

(* The filter has what is mapped: a selected library is armed or the       *)
(* reason is known, and the ranges of a scope follow those of its library. *)
FilterComplete == SelectedIsArmed /\ ScopeFollowsFilter

(* A process passes the pid gate exactly when it is the target or a        *)
(* descendant forked while follow-fork is attached, up to two things the   *)
(* map cannot tell: it may be full, and an id it holds may have been given *)
(* to another task (anubee_follow_fork).                                   *)
PidGateExact ==
    \A p \in Processes :
        /\ p \in heirs => p \in target_pids \/ Cardinality(target_pids) = PidCap
        /\ p \in target_pids => p \in heirs \/ p \in recycled

(* DOCUMENTATION.md on the pre-arm window: a call that a selected library  *)
(* issues before its range is armed is "counted by the prearm_drops        *)
(* coverage field".                                                        *)
MissesCounted == missed => prearm
=============================================================================
