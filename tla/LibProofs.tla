----------------------------- MODULE LibProofs -----------------------------
(***************************************************************************)
(* The two filters of the kernel hooks, for any number of processes,       *)
(* addresses and libraries and any capacity: target_pids holds the target  *)
(* and its followed descendants; a range is armed for a process only where *)
(* a selected library has been; and once the poll loop runs every selected *)
(* mapping is armed or accounted for.                                      *)
(***************************************************************************)
EXTENDS LibFilter, FiniteSetTheorems, TLAPS

-----------------------------------------------------------------------------
(* The pid gate *)

(* A map that is full stays as it is; the target is entered when the map   *)
(* is empty.                                                               *)
Bounded == IsFiniteSet(target_pids) /\ Cardinality(target_pids) <= PidCap

NotYet == pc = "install" => /\ target_pids = {} /\ heirs = {} /\ ~ff
                            /\ mode.pid => Main \in Processes \/ Main \in recycled

(* What an id in target_pids may be now: a followed process, an id whose   *)
(* first owner has gone, or a thread, which leaves through recycled.       *)
HeldFor ==
    \A x \in target_pids : x \in heirs \/ x \in recycled \/ tgid[x] \notin {None, x}

HeirsKept ==
    /\ heirs \subseteq Processes
    /\ \A x \in heirs : x \in target_pids \/ Cardinality(target_pids) = PidCap

GateInv ==
    /\ tgid \in [Pids -> Pids \cup {None}] /\ target_pids \subseteq Pids
    /\ ff \in BOOLEAN /\ mode \in Mode
    /\ Bounded /\ NotYet /\ HeldFor /\ HeirsKept

(* Inserting into target_pids: the new id is there unless the map is full, *)
(* and a full map does not change.                                         *)
LEMMA InsertedFacts ==
    ASSUME Bounded, NEW x \in Pids
    PROVE  LET t == Inserted(x) IN
           /\ IsFiniteSet(t) /\ Cardinality(t) <= PidCap
           /\ target_pids \subseteq t /\ t \subseteq target_pids \cup {x}
           /\ x \in t \/ Cardinality(t) = PidCap
           /\ Cardinality(target_pids) = PidCap => t = target_pids
           /\ target_pids = {} => x \in t
<1>0. Cardinality(target_pids) \in Nat /\ PidCap \in Nat \ {0}
  BY FS_CardinalityType, PidsAssumption DEF Bounded
<1>1. CASE x \in target_pids
  <2>1. Inserted(x) = target_pids
    BY <1>1 DEF Inserted
  <2> QED
    BY <1>1, <2>1 DEF Bounded
<1>2. CASE x \notin target_pids /\ Cardinality(target_pids) < PidCap
  <2>1. Inserted(x) = target_pids \cup {x}
    BY <1>2 DEF Inserted
  <2>2. /\ IsFiniteSet(target_pids \cup {x})
        /\ Cardinality(target_pids \cup {x}) = Cardinality(target_pids) + 1
    BY <1>2, FS_AddElement DEF Bounded
  <2> QED
    BY <1>0, <1>2, <2>1, <2>2
<1>3. CASE x \notin target_pids /\ ~(Cardinality(target_pids) < PidCap)
  <2>1. Inserted(x) = target_pids
    BY <1>3 DEF Inserted
  <2>2. Cardinality(target_pids) = PidCap
    BY <1>0, <1>3 DEF Bounded
  <2>3. target_pids # {}
    BY <1>0, <2>2, FS_EmptySet, SMTT(90)
  <2> QED
    BY <2>1, <2>2, <2>3 DEF Bounded
<1> QED
  BY <1>1, <1>2, <1>3

(* The gate is exact before its first mapping. *)
LEMMA GateInitInv == Init => GateInv
<1> SUFFICES ASSUME Init PROVE GateInv
  OBVIOUS
<1>1. mode \in Mode
  BY ModesAssumption DEF Init, GateInit
<1>2. Bounded
  BY FS_EmptySet, PidsAssumption, SMTT(90) DEF Init, GateInit, Bounded
<1>3. NotYet
  BY PidsAssumption DEF Init, GateInit, NotYet, Processes
<1> QED
  BY <1>1, <1>2, <1>3, PidsAssumption, ZenonT(120) DEF Init, GateInit, GateInv, HeldFor, HeirsKept, Processes

(* The loader enters the target. *)
LEMMA InstallGateInv == GateInv /\ Install => GateInv'
<1> SUFFICES ASSUME GateInv, Install PROVE GateInv'
  BY Zenon
<1>1. /\ target_pids = {} /\ heirs = {} /\ pc' # "install" /\ Main \in Pids
      /\ mode.pid => Main \in Processes \/ Main \in recycled
      /\ UNCHANGED <<mode, tgid, ff, recycled>>
  BY PidsAssumption, ZenonT(120) DEF GateInv, NotYet, Install, InstallTarget
<1>2. CASE mode.pid
  <2>1. /\ target_pids' = Inserted(Main) /\ heirs' = {Main} \cap Processes
    BY <1>2, Zenon DEF Install, InstallTarget
  <2>2. /\ IsFiniteSet(target_pids') /\ Cardinality(target_pids') <= PidCap
        /\ target_pids' = {Main}
    BY <1>1, <2>1, InsertedFacts, SMTT(90) DEF GateInv
  <2> QED
    BY <1>1, <1>2, <2>1, <2>2, SMTT(90) DEF GateInv, Bounded, NotYet, HeldFor, HeirsKept, Processes
<1>3. CASE ~mode.pid
  <2>1. target_pids' = target_pids /\ heirs' = heirs
    BY <1>3 DEF Install, InstallTarget
  <2> QED
    BY <1>1, <2>1 DEF GateInv, Bounded, NotYet, HeldFor, HeirsKept, Processes
<1> QED
  BY <1>2, <1>3, SMTT(90)

(* A process forks: its child is followed when it is, and carries on the   *)
(* doubt about an id that was used before.                                 *)
LEMMA ForkGateInv ==
    ASSUME GateInv, NEW p \in Pids, NEW c \in Pids, Fork(p, c), pc' = pc
    PROVE  GateInv'
<1>1. /\ tgid[p] = p /\ tgid[c] = None /\ c # p /\ None \notin Pids
      /\ tgid' \in [Pids -> Pids \cup {None}] /\ tgid'[c] = c
      /\ \A x \in Pids \ {c} : tgid'[x] = tgid[x]
      /\ mode' = mode /\ ff' = ff
  BY PidsAssumption, Zenon DEF Fork, Processes, Free, GateInv
<1>2. CASE ff /\ p \in target_pids
  <2>1. target_pids' = Inserted(c)
    BY <1>2 DEF Fork, anubee_follow_fork
  <2>2. /\ IsFiniteSet(target_pids') /\ Cardinality(target_pids') <= PidCap
        /\ target_pids \subseteq target_pids' /\ target_pids' \subseteq target_pids \cup {c}
        /\ c \in target_pids' \/ Cardinality(target_pids') = PidCap
        /\ Cardinality(target_pids) = PidCap => target_pids' = target_pids
    BY <2>1, InsertedFacts DEF GateInv
  <2>3. p \in heirs \/ p \in recycled
    BY <1>1, <1>2 DEF GateInv, HeldFor
  <2>4. pc # "install"
    BY <1>2, Zenon DEF GateInv, NotYet
  <2>5. HeldFor'
    BY <1>1, <1>2, <2>2, <2>3, ZenonT(120) DEF GateInv, HeldFor, Fork
  <2>6. HeirsKept'
    BY <1>1, <1>2, <2>2, SMTT(90) DEF GateInv, HeirsKept, Fork, Processes
  <2> QED
    BY <1>1, <2>2, <2>4, <2>5, <2>6, SMTT(90) DEF GateInv, Bounded, NotYet
<1>3. CASE ~(ff /\ p \in target_pids)
  <2>1. target_pids' = target_pids
    BY <1>3, Zenon DEF Fork, anubee_follow_fork
  <2>2. c \in target_pids => c \in recycled
    BY <1>1, Zenon DEF GateInv, HeldFor, HeirsKept, Processes
  <2>3. HeldFor'
    BY <1>1, <2>1, <2>2, ZenonT(120) DEF GateInv, HeldFor, Fork
  <2>4. HeirsKept'
    BY <1>1, <1>3, <2>1, ZenonT(120) DEF GateInv, HeirsKept, Fork, Processes
  <2>5. NotYet'
    BY <1>1, <2>1, SMTT(90) DEF GateInv, NotYet, Fork, Processes
  <2> QED
    BY <1>1, <2>1, <2>3, <2>4, <2>5, SMTT(90) DEF GateInv, Bounded
<1> QED
  BY <1>2, <1>3

(* A thread is entered like a process, and is none. *)
LEMMA CloneGateInv ==
    ASSUME GateInv, NEW p \in Pids, NEW t \in Pids, Clone(p, t), pc' = pc
    PROVE  GateInv'
<1>1. /\ tgid[p] = p /\ tgid[t] = None /\ t # p /\ None \notin Pids
      /\ tgid' \in [Pids -> Pids \cup {None}] /\ tgid'[t] = p
      /\ \A x \in Pids \ {t} : tgid'[x] = tgid[x]
      /\ UNCHANGED <<mode, ff, heirs, recycled>> /\ t \notin heirs
  BY PidsAssumption, Zenon DEF Clone, Processes, Free, GateInv, HeirsKept
<1>2. /\ IsFiniteSet(target_pids') /\ Cardinality(target_pids') <= PidCap
      /\ target_pids \subseteq target_pids' /\ target_pids' \subseteq target_pids \cup {t}
      /\ Cardinality(target_pids) = PidCap => target_pids' = target_pids
      /\ ~ff => target_pids' = target_pids
  BY InsertedFacts, Zenon DEF Clone, anubee_follow_fork, GateInv, Bounded
<1>3. HeldFor'
  BY <1>1, <1>2, Zenon DEF GateInv, HeldFor
<1>4. HeirsKept'
  BY <1>1, <1>2, Zenon DEF GateInv, HeirsKept, Processes
<1>5. NotYet'
  BY <1>1, <1>2, Zenon DEF GateInv, NotYet, Processes
<1> QED
  BY <1>1, <1>2, <1>3, <1>4, <1>5, ZenonT(120) DEF GateInv, Bounded

(* A process nobody followed gets a free id, which may be in target_pids   *)
(* from an earlier owner.                                                  *)
LEMMA SpawnGateInv ==
    ASSUME GateInv, NEW p \in Pids, NEW sameUid, Spawn(p, sameUid), pc' = "install" => pc = "install"
    PROVE  GateInv'
<1>1. /\ tgid[p] = None /\ None \notin Pids
      /\ tgid' \in [Pids -> Pids \cup {None}] /\ tgid'[p] = p
      /\ \A x \in Pids \ {p} : tgid'[x] = tgid[x]
      /\ UNCHANGED <<mode, ff, heirs, recycled, target_pids>> /\ p \notin heirs
  BY PidsAssumption, Zenon DEF Spawn, Processes, Free, GateInv, HeirsKept
<1>2. HeldFor'
  BY <1>1, Zenon DEF GateInv, HeldFor
<1>3. HeirsKept'
  BY <1>1, Zenon DEF GateInv, HeirsKept, Processes
<1>4. NotYet'
  BY <1>1, Zenon DEF GateInv, NotYet, Processes
<1> QED
  BY <1>1, <1>2, <1>3, <1>4, ZenonT(120) DEF GateInv, Bounded

(* A task ends, with its threads: their ids are remembered as used. *)
LEMMA ExitGateInv ==
    ASSUME GateInv, NEW t \in Pids, Exit(t), pc' = pc
    PROVE  GateInv'
<1> DEFINE gone == {u \in Pids : u = t \/ tgid[u] = t}
<1>1. /\ None \notin Pids /\ tgid' = [u \in Pids |-> IF u \in gone THEN None ELSE tgid[u]]
      /\ heirs' = heirs \ {t} /\ recycled' = recycled \cup gone
      /\ UNCHANGED <<mode, ff, target_pids>> /\ tgid' \in [Pids -> Pids \cup {None}]
  BY PidsAssumption, Zenon DEF Exit, GateInv
<1>2. HeldFor'
  BY <1>1, Zenon DEF GateInv, HeldFor
<1>3. HeirsKept'
  BY <1>1, Zenon DEF GateInv, HeirsKept, Processes
<1>4. NotYet'
  BY <1>1, Zenon DEF GateInv, NotYet, Processes
<1> QED
  BY <1>1, <1>2, <1>3, <1>4, ZenonT(120) DEF GateInv, Bounded

(* Every mapping, event and unload keeps the gate exact. *)
LEMMA GateNextInv == GateInv /\ [Next]_vars => GateInv'
<1> SUFFICES ASSUME GateInv, [Next]_vars PROVE GateInv'
  BY Zenon
<1>1. ASSUME NEW p \in Pids, NEW c \in Pids, ForkProcess(p, c) PROVE GateInv'
  BY <1>1, ForkGateInv, Zenon DEF ForkProcess
<1>2. ASSUME NEW p \in Pids, NEW c \in Pids, CloneThread(p, c) PROVE GateInv'
  BY <1>2, CloneGateInv, Zenon DEF CloneThread
<1>3. ASSUME NEW p \in Pids, NEW sameUid \in BOOLEAN, NEW m \in ZygoteMaps,
             SpawnProcess(p, sameUid, m)
      PROVE  GateInv'
  BY <1>3, SpawnGateInv DEF SpawnProcess
<1>4. ASSUME NEW m \in ZygoteMaps, Launch(m) PROVE GateInv'
  BY <1>4, SpawnGateInv, PidsAssumption, ZenonT(120) DEF Launch
<1>5. ASSUME NEW t \in Pids, ExitTask(t) PROVE GateInv'
  BY <1>5, ExitGateInv, Zenon DEF ExitTask
<1>6. CASE Follow
  <2>1. /\ UNCHANGED <<mode, tgid, target_pids, heirs, recycled>> /\ pc' = "run"
        /\ ff' = mode.follow
    BY <1>6, Zenon DEF Follow, AttachFollow
  <2>2. ff' \in BOOLEAN
    BY <2>1, Zenon DEF GateInv, Mode
  <2> QED
    BY <2>1, <2>2, ZenonT(120) DEF GateInv, Bounded, NotYet, HeldFor, HeirsKept, Processes
<1>7. ASSUME UNCHANGED gateVars, pc' = "install" => pc = "install" PROVE GateInv'
  BY <1>7, ZenonT(120) DEF gateVars, GateInv, Bounded, NotYet, HeldFor, HeirsKept, Processes
<1>8. CASE \/ seed_lib_ranges_from_maps \/ seed_scope_ranges_from_maps \/ ScanEnds \/ Attach
           \/ enqueue_event \/ UNCHANGED vars
  BY <1>7, <1>8, SMTT(90) DEF seed_lib_ranges_from_maps, seed_scope_ranges_from_maps, ScanEnds, Attach,
        enqueue_event, vars, libVars
<1>9. ASSUME NEW p \in Pids, NEW a \in Addrs,
             \/ \E l \in Libs : on_uprobe_mmap(p, a, l)
             \/ on_uprobe_munmap(p, a) \/ on_svc_enter(p, a)
      PROVE  GateInv'
  BY <1>7, <1>9, Zenon DEF on_uprobe_mmap, on_uprobe_munmap, on_svc_enter
<1> QED
  BY <1>1, <1>2, <1>3, <1>4, <1>5, <1>6, <1>8, <1>9, InstallGateInv, SMTT(90) DEF Next, Loader, Target

(* target_pids holds exactly the target and what it forked while followed, *)
(* up to a full map and to ids that were used before, however forks,       *)
(* threads, exits and the reuse of ids interleave with the start-up.       *)
THEOREM PidGateIsExact == Spec => []PidGateExact
<1>1. GateInv => PidGateExact
  BY Zenon DEF GateInv, HeldFor, HeirsKept, PidGateExact, Processes
<1> QED
  BY <1>1, GateInitInv, GateNextInv, PTL DEF Spec

-----------------------------------------------------------------------------
(* The armed ranges *)

(* The four sequences hold what their names say. *)
ArmTyped ==
    /\ lib \in [Pids -> Mappings] /\ ring \in Seq(Event)
    /\ lib_ranges \in [Pids -> Seq(Addrs)] /\ scope \in Seq(Addrs)

(* A selected library that is mapped has been mapped. *)
MappedRecorded ==
    \A p \in Pids, a \in Addrs : lib[p][a] \in Selected => <<p, a>> \in selectedAt

(* A MAP event that is still in the ring may be older than the mapping it  *)
(* tells of, but that mapping existed.                                     *)
RingRecorded ==
    \A i \in DOMAIN ring : ring[i].type = "MAP" /\ ring[i].lib \in Selected =>
                                <<ring[i].pid, ring[i].addr>> \in selectedAt

ArmInv == ArmTyped /\ MappedRecorded /\ RingRecorded /\ ArmedWasSelected /\ RangesDistinct

(* Appending a new element keeps the elements of a sequence distinct. *)
LEMMA AppendFacts ==
    ASSUME NEW S, NEW s \in Seq(S), NEW a \in S, IsInjective(s), a \notin Range(s)
    PROVE  /\ Append(s, a) \in Seq(S) /\ IsInjective(Append(s, a))
           /\ Range(Append(s, a)) = Range(s) \cup {a}
<1> DEFINE t == Append(s, a)
<1>1. /\ t \in Seq(S) /\ Len(t) = Len(s) + 1 /\ Len(s) \in Nat
      /\ DOMAIN s = 1..Len(s) /\ DOMAIN t = 1..(Len(s) + 1)
      /\ \A i \in 1..Len(s) : t[i] = s[i]
      /\ t[Len(s) + 1] = a
  OBVIOUS
<1> HIDE DEF t
<1>2. IsInjective(t)
  BY <1>1 DEF IsInjective, Range
<1>3. Range(t) = Range(s) \cup {a}
  BY <1>1 DEF Range
<1> QED
  BY <1>1, <1>2, <1>3, ZenonT(120) DEF t

(* push_lib_range enters at most the range it is given, once. *)
LEMMA PushFacts ==
    ASSUME ArmTyped, RangesDistinct, NEW p \in Pids, NEW a \in Addrs, push_lib_range(p, a)
    PROVE  /\ lib_ranges' \in [Pids -> Seq(Addrs)]
           /\ \A q \in Pids : IsInjective(lib_ranges'[q])
           /\ \A q \in Pids \ {p} : lib_ranges'[q] = lib_ranges[q]
           /\ Range(lib_ranges'[p]) \subseteq Armed(p) \cup {a}
<1>1. CASE lib_ranges' = lib_ranges
  BY <1>1 DEF ArmTyped, RangesDistinct, Armed
<1>2. CASE a \notin Armed(p) /\ lib_ranges' = [lib_ranges EXCEPT ![p] = Append(@, a)]
  <2>1. /\ Append(lib_ranges[p], a) \in Seq(Addrs) /\ IsInjective(Append(lib_ranges[p], a))
        /\ Range(Append(lib_ranges[p], a)) = Armed(p) \cup {a}
    BY <1>2, AppendFacts, ZenonT(120) DEF ArmTyped, RangesDistinct, Armed
  <2>2. lib_ranges'[p] = Append(lib_ranges[p], a) /\ \A q \in Pids \ {p} : lib_ranges'[q] = lib_ranges[q]
    BY <1>2, Zenon DEF ArmTyped
  <2>3. lib_ranges' \in [Pids -> Seq(Addrs)]
    BY <1>2, <2>1, Zenon DEF ArmTyped
  <2> QED
    BY <2>1, <2>2, <2>3, ZenonT(120) DEF RangesDistinct
<1> QED
  BY <1>1, <1>2, ZenonT(120) DEF push_lib_range

(* So does push_scope_range. *)
LEMMA PushScopeFacts ==
    ASSUME ArmTyped, RangesDistinct, NEW a \in Addrs, push_scope_range(a)
    PROVE  scope' \in Seq(Addrs) /\ IsInjective(scope')
  BY AppendFacts, Zenon DEF ArmTyped, RangesDistinct, push_scope_range

(* The ring holds what it held, and at most the new record. *)
LEMMA EmitFacts ==
    ASSUME ArmTyped, NEW e \in Event, Emit(e)
    PROVE  /\ ring' \in Seq(Event)
           /\ \A i \in DOMAIN ring' :
                 (ring'[i] = e) \/ (i \in DOMAIN ring /\ ring'[i] = ring[i])
  BY DEF ArmTyped, Emit

(* enqueue_event takes the oldest record off. *)
LEMMA TailFacts ==
    ASSUME ArmTyped, ring # <<>>, ring' = Tail(ring)
    PROVE  /\ ring' \in Seq(Event) /\ 1 \in DOMAIN ring /\ Head(ring) = ring[1]
           /\ Head(ring) \in Event
           /\ \A i \in DOMAIN ring' : i + 1 \in DOMAIN ring /\ ring'[i] = ring[i + 1]
  BY DEF ArmTyped

(* The traced system maps, unmaps and calls. *)
LEMMA HookArmInv ==
    ASSUME ArmInv, NEW p \in Pids, NEW a \in Addrs,
           \/ \E l \in Libs : on_uprobe_mmap(p, a, l)
           \/ on_uprobe_munmap(p, a) \/ on_svc_enter(p, a)
    PROVE  ArmInv'
<1>1. /\ lib_ranges' = lib_ranges /\ scope' = scope /\ selectedAt \subseteq selectedAt'
      /\ lib' \in [Pids -> Mappings]
  <2>1. ASSUME NEW l \in Libs \cup {None}, lib' = [lib EXCEPT ![p][a] = l]
        PROVE  lib' \in [Pids -> Mappings]
    BY <2>1, ZenonT(120) DEF ArmInv, ArmTyped, Mappings
  <2>2. ASSUME NEW l \in Libs, on_uprobe_mmap(p, a, l)
        PROVE  /\ UNCHANGED <<lib_ranges, scope>> /\ selectedAt \subseteq selectedAt'
               /\ lib' = [lib EXCEPT ![p][a] = l]
    BY <2>2 DEF on_uprobe_mmap
  <2>3. CASE on_uprobe_munmap(p, a)
    BY <2>1, <2>3, ZenonT(120) DEF on_uprobe_munmap
  <2>4. CASE on_svc_enter(p, a)
    BY <2>4 DEF on_svc_enter, ArmInv, ArmTyped
  <2> QED
    BY <2>1, <2>2, <2>3, <2>4, ZenonT(120)
<1>2. MappedRecorded'
  <2>1. ASSUME NEW l \in Libs, on_uprobe_mmap(p, a, l) PROVE MappedRecorded'
    BY <2>1, <1>1, Zenon DEF on_uprobe_mmap, ArmInv, ArmTyped, MappedRecorded, Mappings
  <2>2. CASE on_uprobe_munmap(p, a)
    BY <2>2, <1>1, LibAssumption, ZenonT(120)
    DEF on_uprobe_munmap, ArmInv, ArmTyped, MappedRecorded, Mappings
  <2>3. CASE on_svc_enter(p, a)
    BY <2>3, Zenon DEF on_svc_enter, ArmInv, MappedRecorded
  <2> QED
    BY <2>1, <2>2, <2>3, ZenonT(120)
<1>3. ring' \in Seq(Event) /\ RingRecorded'
  <2>1. CASE UNCHANGED ring
    BY <2>1, <1>1, Zenon DEF ArmInv, ArmTyped, RingRecorded
  <2>2. ASSUME NEW e \in Event, Emit(e),
               e.type = "MAP" /\ e.lib \in Selected => <<e.pid, e.addr>> \in selectedAt'
        PROVE  ring' \in Seq(Event) /\ RingRecorded'
    BY <2>2, <1>1, EmitFacts, ZenonT(120) DEF ArmInv, RingRecorded
  <2>3. ASSUME NEW l \in Libs, on_uprobe_mmap(p, a, l), ~UNCHANGED ring
        PROVE  ring' \in Seq(Event) /\ RingRecorded'
    <3> DEFINE e == [type |-> "MAP", pid |-> p, addr |-> a, lib |-> l]
    <3>1. e \in Event /\ e.type = "MAP" /\ e.lib = l /\ e.pid = p /\ e.addr = a
      BY Zenon DEF Event
    <3>2. Emit(e) /\ (l \in Selected => <<p, a>> \in selectedAt')
      BY <2>3 DEF on_uprobe_mmap
    <3> HIDE DEF e
    <3> QED
      BY <2>2, <3>1, <3>2, SMTT(90)
  <2>4. ASSUME NEW ty \in {"UNMAP", "SYSCALL"}, Emit([type |-> ty, pid |-> p, addr |-> a])
        PROVE  ring' \in Seq(Event) /\ RingRecorded'
    <3> DEFINE e == [type |-> ty, pid |-> p, addr |-> a]
    <3>1. e \in Event /\ e.type # "MAP"
      BY Zenon DEF Event
    <3>2. Emit(e)
      BY <2>4, Zenon
    <3> HIDE DEF e
    <3> QED
      BY <2>2, <3>1, <3>2, ZenonT(120)
  <2> QED
    BY <2>1, <2>3, <2>4, ZenonT(120) DEF on_uprobe_munmap, on_svc_enter
<1> QED
  BY <1>1, <1>2, <1>3, ZenonT(120) DEF ArmInv, ArmTyped, ArmedWasSelected, RangesDistinct, Armed

(* A process starts with the mappings of another one. *)
LEMMA InheritArmInv ==
    ASSUME ArmInv, NEW p \in Pids, NEW m \in Mappings, Inherit(p, m),
           UNCHANGED <<ring, lib_ranges, scope>>
    PROVE  ArmInv'
<1>1. lib' \in [Pids -> Mappings] /\ selectedAt \subseteq selectedAt'
  BY Zenon DEF Inherit, ArmInv, ArmTyped
<1>2. MappedRecorded'
  BY DEF Inherit, ArmInv, ArmTyped, MappedRecorded
<1> QED
  BY <1>1, <1>2, Zenon DEF ArmInv, ArmTyped, RingRecorded, ArmedWasSelected, RangesDistinct, Armed

(* A scan reads a line as it stands now, an event tells of its own time. *)
LEMMA LoaderArmInv ==
    ASSUME ArmInv, seed_lib_ranges_from_maps \/ seed_scope_ranges_from_maps \/ enqueue_event
    PROVE  ArmInv'
<1>1. ASSUME NEW p \in Pids, NEW a \in Addrs, <<p, a>> \in selectedAt,
             push_lib_range(p, a) \/ UNCHANGED lib_ranges, UNCHANGED selectedAt
      PROVE  /\ lib_ranges' \in [Pids -> Seq(Addrs)] /\ ArmedWasSelected'
             /\ \A q \in Pids : IsInjective(lib_ranges'[q])
  <2>1. CASE push_lib_range(p, a)
    <3>1. /\ lib_ranges' \in [Pids -> Seq(Addrs)]
          /\ \A q \in Pids : IsInjective(lib_ranges'[q])
          /\ \A q \in Pids \ {p} : lib_ranges'[q] = lib_ranges[q]
          /\ Range(lib_ranges'[p]) \subseteq Armed(p) \cup {a}
      BY <2>1, PushFacts, Zenon DEF ArmInv
    <3>2. ASSUME NEW q \in Pids, NEW b \in Armed(q)' PROVE <<q, b>> \in selectedAt
      <4>1. CASE q = p
        BY <1>1, <3>1, <3>2, <4>1, ZenonT(120) DEF ArmInv, ArmedWasSelected, Armed
      <4>2. CASE q # p
        BY <3>1, <3>2, <4>2, ZenonT(120) DEF ArmInv, ArmedWasSelected, Armed
      <4> QED
        BY <4>1, <4>2
    <3> QED
      BY <1>1, <3>1, <3>2, ZenonT(120) DEF ArmedWasSelected
  <2>2. CASE UNCHANGED lib_ranges
    BY <1>1, <2>2, ZenonT(120) DEF ArmInv, ArmTyped, ArmedWasSelected, RangesDistinct, Armed
  <2> QED
    BY <1>1, <2>1, <2>2, ZenonT(120)
<1>2. CASE seed_lib_ranges_from_maps
  <2>1. /\ line \in Addrs /\ Main \in Pids /\ UNCHANGED <<lib, ring, scope, selectedAt>>
        /\ \/ lib[Main][line] \in Selected /\ push_lib_range(Main, line)
           \/ UNCHANGED lib_ranges
    BY <1>2, PidsAssumption, Zenon DEF seed_lib_ranges_from_maps
  <2>2. /\ lib_ranges' \in [Pids -> Seq(Addrs)] /\ ArmedWasSelected'
        /\ \A q \in Pids : IsInjective(lib_ranges'[q])
    <3>1. CASE UNCHANGED lib_ranges
      BY <2>1, <3>1, SMTT(90) DEF ArmInv, ArmTyped, ArmedWasSelected, RangesDistinct, Armed
    <3>2. CASE lib[Main][line] \in Selected /\ push_lib_range(Main, line)
      BY <1>1, <2>1, <3>2, ZenonT(120) DEF ArmInv, MappedRecorded
    <3> QED
      BY <2>1, <3>1, <3>2, ZenonT(120)
  <2> QED
    BY <2>1, <2>2, ZenonT(120) DEF ArmInv, ArmTyped, MappedRecorded, RingRecorded, RangesDistinct
<1>3. CASE seed_scope_ranges_from_maps
  <2>1. /\ line \in Addrs /\ UNCHANGED <<lib, ring, lib_ranges, selectedAt>>
        /\ push_scope_range(line) \/ UNCHANGED scope
    BY <1>3, Zenon DEF seed_scope_ranges_from_maps
  <2>2. scope' \in Seq(Addrs) /\ IsInjective(scope')
    BY <2>1, PushScopeFacts, ZenonT(120) DEF ArmInv, ArmTyped, RangesDistinct
  <2> QED
    BY <2>1, <2>2, ZenonT(120)
    DEF ArmInv, ArmTyped, MappedRecorded, RingRecorded, ArmedWasSelected, RangesDistinct, Armed
<1>4. CASE enqueue_event
  <2> DEFINE e == Head(ring)
  <2>1. /\ ring # <<>> /\ ring' = Tail(ring) /\ UNCHANGED <<lib, selectedAt>>
        /\ \/ e.type = "MAP" /\ e.lib \in Selected /\ push_lib_range(e.pid, e.addr)
           \/ UNCHANGED lib_ranges
        /\ push_scope_range(e.addr) \/ UNCHANGED scope
    BY <1>4, Zenon DEF enqueue_event
  <2>2. /\ ring' \in Seq(Event) /\ e \in Event /\ 1 \in DOMAIN ring /\ e = ring[1]
        /\ \A i \in DOMAIN ring' : i + 1 \in DOMAIN ring /\ ring'[i] = ring[i + 1]
    BY <2>1, TailFacts, ZenonT(120) DEF ArmInv
  <2> HIDE DEF e
  <2>3. e.pid \in Pids /\ e.addr \in Addrs
    BY <2>2, Zenon DEF Event
  <2>4. RingRecorded'
    BY <2>1, <2>2, ZenonT(120) DEF ArmInv, RingRecorded
  <2>5. /\ lib_ranges' \in [Pids -> Seq(Addrs)] /\ ArmedWasSelected'
        /\ \A q \in Pids : IsInjective(lib_ranges'[q])
    <3>1. CASE UNCHANGED lib_ranges
      BY <2>1, <3>1, ZenonT(120) DEF ArmInv, ArmTyped, ArmedWasSelected, RangesDistinct, Armed
    <3>2. CASE e.type = "MAP" /\ e.lib \in Selected /\ push_lib_range(e.pid, e.addr)
      <4>1. <<e.pid, e.addr>> \in selectedAt
        BY <2>2, <3>2, ZenonT(120) DEF ArmInv, RingRecorded
      <4> QED
        BY <1>1, <2>1, <2>3, <3>2, <4>1, ZenonT(120)
    <3> QED
      BY <2>1, <3>1, <3>2, ZenonT(120)
  <2>6. scope' \in Seq(Addrs) /\ IsInjective(scope')
    BY <2>1, <2>3, PushScopeFacts, SMTT(90) DEF ArmInv, ArmTyped, RangesDistinct
  <2> QED
    BY <2>1, <2>2, <2>4, <2>5, <2>6, ZenonT(120) DEF ArmInv, ArmTyped, MappedRecorded, RangesDistinct
<1> QED
  BY <1>2, <1>3, <1>4, ZenonT(120)

(* No range is armed to begin with. *)
LEMMA ArmInitInv == Init => ArmInv
<1> SUFFICES ASSUME Init PROVE ArmInv
  OBVIOUS
<1>1. PICK m \in ZygoteMaps :
         lib = [p \in Pids |-> IF p \in Processes THEN m ELSE [a \in Addrs |-> None]]
  BY Zenon DEF Init
<1>2. m \in Mappings /\ [a \in Addrs |-> None] \in Mappings
  BY LibAssumption, Zenon DEF Mappings
<1>3. lib \in [Pids -> Mappings]
  BY <1>1, <1>2, ZenonT(120)
<1>4. /\ ring = <<>> /\ scope = <<>> /\ lib_ranges = [p \in Pids |-> <<>>]
      /\ selectedAt = {x \in Pids \X Addrs : lib[x[1]][x[2]] \in Selected}
  BY Zenon DEF Init
<1>5. ArmTyped
  BY <1>3, <1>4, SMTT(90) DEF ArmTyped
<1>6. MappedRecorded
  BY <1>4, Zenon DEF MappedRecorded
<1>7. RingRecorded /\ ArmedWasSelected /\ RangesDistinct
  BY <1>4 DEF RingRecorded, ArmedWasSelected, RangesDistinct, Armed, Range, IsInjective
<1> QED
  BY <1>5, <1>6, <1>7, ZenonT(120) DEF ArmInv

(* Every step leaves only selected ranges armed, each in one slot. *)
LEMMA ArmNextInv == ArmInv /\ [Next]_vars => ArmInv'
<1> SUFFICES ASSUME ArmInv, [Next]_vars PROVE ArmInv'
  OBVIOUS
<1>1. ZygoteMaps \subseteq Mappings /\ Main \in Pids
  BY LibAssumption, PidsAssumption, ZenonT(120) DEF Mappings
<1>2. ASSUME NEW p \in Pids, NEW c \in Pids, ForkProcess(p, c) PROVE ArmInv'
  <2>1. lib[p] \in Mappings
    BY Zenon DEF ArmInv, ArmTyped
  <2> QED
    BY <1>2, <2>1, InheritArmInv, SMTT(90) DEF ForkProcess
<1>3. ASSUME NEW p \in Pids, NEW sameUid \in BOOLEAN, NEW m \in ZygoteMaps,
             SpawnProcess(p, sameUid, m)
      PROVE  ArmInv'
  BY <1>1, <1>3, InheritArmInv, ZenonT(120) DEF SpawnProcess
<1>4. ASSUME NEW m \in ZygoteMaps, Launch(m) PROVE ArmInv'
  BY <1>1, <1>4, InheritArmInv, ZenonT(120) DEF Launch
<1>5. ASSUME UNCHANGED <<lib, ring, lib_ranges, scope, selectedAt>> PROVE ArmInv'
  BY <1>5, ZenonT(120) DEF ArmInv, ArmTyped, MappedRecorded, RingRecorded, ArmedWasSelected, RangesDistinct,
        Armed
<1>6. CASE \/ Install \/ ScanEnds \/ Attach \/ Follow \/ UNCHANGED vars
           \/ \E p, c \in Pids : CloneThread(p, c)
           \/ \E t \in Pids : ExitTask(t)
  BY <1>5, <1>6, ZenonT(120) DEF Install, ScanEnds, Attach, Follow, CloneThread, ExitTask, vars, libVars
<1> QED
  BY <1>2, <1>3, <1>4, <1>6, HookArmInv, LoaderArmInv, ZenonT(120) DEF Next, Loader, Target

(* However a start-up scan, late MAP events and remappings interleave, a   *)
(* process is filtered by places where a selected library has been.        *)
THEOREM ArmedRangesAreGenuine == Spec => []ArmedWasSelected
<1>1. ArmInv => ArmedWasSelected
  BY SMTT(90) DEF ArmInv
<1> QED
  BY <1>1, ArmInitInv, ArmNextInv, PTL DEF Spec

(* No range takes two slots of a table, whichever of the two sources       *)
(* reports it first and however often.                                     *)
THEOREM NoSlotWasted == Spec => []RangesDistinct
<1>1. ArmInv => RangesDistinct
  BY DEF ArmInv
<1> QED
  BY <1>1, ArmInitInv, ArmNextInv, PTL DEF Spec

-----------------------------------------------------------------------------
(* Every selected mapping is armed or accounted for *)

(* A MAP event of a mapping of p at a from one of the libraries L is in    *)
(* the ring.                                                               *)
Pending(p, a, L) ==
    \E i \in DOMAIN ring : /\ ring[i].type = "MAP" /\ ring[i].lib \in L
                           /\ ring[i].pid = p /\ ring[i].addr = a

(* No slot is left for another range of p. *)
TableFull(p) == Len(lib_ranges[p]) = RangeCap \/ Cardinality(Entries) = MapCap

(* Neither table holds more than its capacity. *)
WithinCaps ==
    /\ IsFiniteSet(Entries) /\ Cardinality(Entries) <= MapCap
    /\ \A p \in Pids : Len(lib_ranges[p]) <= RangeCap

(* What the history says of a mapping can be read off the tables: one that *)
(* was announced is armed or its event still in the ring, one that was     *)
(* lost has been counted, one that was refused met a full table.           *)
Accounted(p, a) ==
    /\ source[p][a] = "unmapped" => lib[p][a] = None
    /\ source[p][a] = "announced" /\ lib[p][a] \in Selected =>
           a \in Armed(p) \/ Pending(p, a, Selected)
    /\ source[p][a] = "dropped" => dropped
    /\ source[p][a] = "full" => TableFull(p)

RangeInv ==
    /\ source \in [Pids -> [Addrs -> Sources]] /\ dropped \in BOOLEAN
    /\ WithinCaps
    /\ \A p \in Pids, a \in Addrs : Accounted(p, a)

(* Writing one entry of a table of tables changes no other. *)
LEMMA UpdateAt ==
    ASSUME NEW S, NEW T, NEW V, NEW f \in [S -> [T -> V]], NEW p \in S, NEW a \in T, NEW v \in V,
           NEW g, g = [f EXCEPT ![p][a] = v]
    PROVE  /\ g \in [S -> [T -> V]] /\ g[p][a] = v
           /\ \A q \in S, b \in T : (q = p /\ b = a) \/ g[q][b] = f[q][b]
  OBVIOUS

(* A record that the ring takes stays behind those it holds, and one that  *)
(* it does not take is counted.                                            *)
LEMMA EmitKeeps ==
    ASSUME ArmTyped, dropped \in BOOLEAN, NEW e \in Event, Emit(e)
    PROVE  /\ dropped' \in BOOLEAN
           /\ dropped => dropped'
           /\ Len(ring) >= RingCap => dropped'
           /\ \A i \in DOMAIN ring : i \in DOMAIN ring' /\ ring'[i] = ring[i]
           /\ ~(Len(ring) >= RingCap) => \E i \in DOMAIN ring' : ring'[i] = e
<1>1. RingCap \in Nat /\ Len(ring) \in Nat
  BY LibAssumption DEF ArmTyped
<1>2. /\ dropped' \in BOOLEAN
      /\ dropped => dropped'
      /\ Len(ring) >= RingCap => dropped'
  BY Zenon DEF Emit
<1>3. CASE Len(ring) < RingCap
  <2>1. ring' = Append(ring, e)
    BY <1>3 DEF Emit
  <2>2. /\ DOMAIN ring' = 1..(Len(ring) + 1) /\ DOMAIN ring = 1..Len(ring)
        /\ ring'[Len(ring) + 1] = e /\ \A i \in 1..Len(ring) : ring'[i] = ring[i]
    BY <2>1 DEF ArmTyped
  <2> QED
    BY <1>1, <1>2, <2>2, SMTT(90)
<1>4. CASE ~(Len(ring) < RingCap)
  <2>1. ring' = ring
    BY <1>4 DEF Emit
  <2>2. Len(ring) >= RingCap
    BY <1>1, <1>4, SMTT(90)
  <2> QED
    BY <1>2, <2>1, <2>2, ZenonT(120)
<1> QED
  BY <1>3, <1>4

(* push_lib_range forgets no range and no refusal: the range it is given   *)
(* is armed afterwards or the table is full, and stays so.                 *)
LEMMA PushKeeps ==
    ASSUME ArmTyped, RangesDistinct, WithinCaps, NEW p \in Pids, NEW a \in Addrs, push_lib_range(p, a)
    PROVE  /\ WithinCaps'
           /\ \A q \in Pids : \A b \in Armed(q) : b \in Armed(q)'
           /\ \A q \in Pids : TableFull(q) => TableFull(q)'
           /\ Refused(p, a) => TableFull(p)'
           /\ ~Refused(p, a) => a \in Armed(p)'
<1>1. /\ RangeCap \in Nat \ {0} /\ MapCap \in Nat \ {0} /\ Cardinality(Entries) \in Nat
      /\ \A q \in Pids : Len(lib_ranges[q]) \in Nat /\ lib_ranges[q] \in Seq(Addrs)
  BY LibAssumption, FS_CardinalityType, SMTT(90) DEF WithinCaps, ArmTyped
<1>2. CASE a \in Armed(p) \/ Refused(p, a)
  <2>1. lib_ranges' = lib_ranges
    BY <1>2 DEF push_lib_range
  <2>2. Refused(p, a) => TableFull(p)
    BY <1>1 DEF Refused, TableFull, WithinCaps
  <2> QED
    BY <1>2, <2>1, <2>2 DEF WithinCaps, TableFull, Entries, Armed
<1>3. CASE ~(a \in Armed(p) \/ Refused(p, a))
  <2>1. lib_ranges' = [lib_ranges EXCEPT ![p] = Append(@, a)]
    BY <1>3 DEF push_lib_range
  <2>2. /\ lib_ranges'[p] = Append(lib_ranges[p], a)
        /\ \A q \in Pids : q # p => lib_ranges'[q] = lib_ranges[q]
    BY <2>1, ZenonT(120) DEF ArmTyped
  <2>3. /\ Len(lib_ranges'[p]) = Len(lib_ranges[p]) + 1 /\ lib_ranges'[p] # <<>>
        /\ Range(lib_ranges'[p]) = Armed(p) \cup {a}
    BY <1>1, <1>3, <2>2, AppendFacts, SMTT(90) DEF RangesDistinct, Armed
  <2>4. Len(lib_ranges[p]) < RangeCap
    BY <1>1, <1>3, SMTT(90) DEF Refused
  <2>5. Entries' = Entries \cup {p}
    BY <2>2, <2>3, SMTT(90) DEF Entries
  <2>6. /\ IsFiniteSet(Entries') /\ Cardinality(Entries') <= MapCap
        /\ Cardinality(Entries) = MapCap => Cardinality(Entries') = MapCap
    <3>1. CASE p \in Entries
      <4>1. Entries' = Entries
        BY <2>5, <3>1, SMTT(90)
      <4> QED
        BY <4>1 DEF WithinCaps
    <3>2. CASE p \notin Entries
      <4>1. /\ IsFiniteSet(Entries \cup {p})
            /\ Cardinality(Entries \cup {p}) = Cardinality(Entries) + 1
        BY <3>2, FS_AddElement, SMTT(90) DEF WithinCaps
      <4>2. Cardinality(Entries) < MapCap
        BY <1>1, <1>3, <3>2, SMTT(90) DEF Refused, Entries
      <4> QED
        BY <1>1, <2>5, <4>1, <4>2, SMTT(90)
    <3> QED
      BY <3>1, <3>2
  <2>7. \A q \in Pids : Len(lib_ranges'[q]) <= RangeCap
    BY <1>1, <2>2, <2>3, <2>4, SMTT(90) DEF WithinCaps
  <2>8. \A q \in Pids : TableFull(q) => TableFull(q)'
    BY <1>1, <2>2, <2>4, <2>6, SMTT(90) DEF TableFull
  <2>9. \A q \in Pids : \A b \in Armed(q) : b \in Armed(q)'
    BY <2>2, <2>3, ZenonT(120) DEF Armed
  <2>10. a \in Armed(p)'
    BY <2>3, Zenon DEF Armed
  <2> QED
    BY <1>3, <2>6, <2>7, <2>8, <2>9, <2>10, ZenonT(120) DEF WithinCaps
<1> QED
  BY <1>2, <1>3

(* An event that stays in the ring is still pending after a hook has run. *)
LEMMA PendingStays ==
    ASSUME \A i \in DOMAIN ring : i \in DOMAIN ring' /\ ring'[i] = ring[i],
           NEW q, NEW b, NEW L, Pending(q, b, L)
    PROVE  Pending(q, b, L)'
  BY ZenonT(120) DEF Pending

(* After the oldest event has been taken only that one is not pending. *)
LEMMA TailPending ==
    ASSUME ArmTyped, ring # <<>>, ring' = Tail(ring), NEW q, NEW b, NEW L, Pending(q, b, L)
    PROVE  \/ Pending(q, b, L)'
           \/ /\ Head(ring).type = "MAP" /\ Head(ring).lib \in L
              /\ q = Head(ring).pid /\ b = Head(ring).addr
<1>1. /\ Len(ring) \in Nat /\ Len(ring) # 0 /\ Head(ring) = ring[1]
      /\ DOMAIN ring = 1..Len(ring) /\ DOMAIN ring' = 1..(Len(ring) - 1)
      /\ \A j \in 1..(Len(ring) - 1) : ring'[j] = ring[j + 1]
  BY DEF ArmTyped
<1>2. PICK i \in DOMAIN ring : /\ ring[i].type = "MAP" /\ ring[i].lib \in L
                               /\ ring[i].pid = q /\ ring[i].addr = b
  BY Zenon DEF Pending
<1>3. CASE i = 1
  BY <1>1, <1>2, <1>3, ZenonT(120)
<1>4. CASE i # 1
  <2>1. i - 1 \in DOMAIN ring' /\ ring'[i - 1] = ring[i]
    BY <1>1, <1>4
  <2> QED
    BY <1>2, <2>1, ZenonT(120) DEF Pending
<1> QED
  BY <1>3, <1>4

(* A mapping that a step does not touch stays accounted for, as long as    *)
(* the tables and the ring forget nothing about it.                        *)
LEMMA AccountedStays ==
    ASSUME NEW q \in Pids, NEW b \in Addrs, Accounted(q, b),
           source'[q][b] = source[q][b], lib'[q][b] = lib[q][b], dropped => dropped',
           b \in Armed(q) => b \in Armed(q)', TableFull(q) => TableFull(q)',
           Pending(q, b, Selected) => Pending(q, b, Selected)' \/ b \in Armed(q)'
    PROVE  Accounted(q, b)'
  BY Zenon DEF Accounted

(* The hooks: a mapping is announced, or lost and counted. *)
LEMMA HookRangeInv ==
    ASSUME ArmInv, RangeInv, NEW p \in Pids, NEW a \in Addrs,
           \/ \E l \in Libs : on_uprobe_mmap(p, a, l)
           \/ on_uprobe_munmap(p, a) \/ on_svc_enter(p, a)
    PROVE  RangeInv'
<1>1. /\ lib_ranges' = lib_ranges /\ dropped \in BOOLEAN
      /\ lib \in [Pids -> [Addrs -> Libs \cup {None}]] /\ source \in [Pids -> [Addrs -> Sources]]
  BY Zenon DEF on_uprobe_mmap, on_uprobe_munmap, on_svc_enter, ArmInv, ArmTyped, RangeInv, Mappings
<1>2. WithinCaps'
  BY <1>1, ZenonT(120) DEF RangeInv, WithinCaps, Entries
<1>3. \A q \in Pids : Armed(q)' = Armed(q) /\ TableFull(q)' = TableFull(q)
  BY <1>1 DEF Armed, TableFull, Entries
<1>4. ASSUME NEW s \in Sources, source' = [source EXCEPT ![p][a] = s],
             NEW l \in Libs \cup {None}, lib' = [lib EXCEPT ![p][a] = l],
             dropped' \in BOOLEAN, dropped => dropped',
             \A i \in DOMAIN ring : i \in DOMAIN ring' /\ ring'[i] = ring[i],
             s = "unmapped" => l = None,
             s = "announced" /\ l \in Selected => Pending(p, a, Selected)',
             s = "dropped" => dropped', s # "full"
      PROVE  RangeInv'
  <2>1. /\ source' \in [Pids -> [Addrs -> Sources]] /\ source'[p][a] = s
        /\ \A q \in Pids, b \in Addrs : (q = p /\ b = a) \/ source'[q][b] = source[q][b]
    BY <1>1, <1>4, UpdateAt, ZenonT(120)
  <2>2. /\ lib'[p][a] = l
        /\ \A q \in Pids, b \in Addrs : (q = p /\ b = a) \/ lib'[q][b] = lib[q][b]
    BY <1>1, <1>4, UpdateAt, ZenonT(120)
  <2>3. Accounted(p, a)'
    BY <1>4, <2>1, <2>2, ZenonT(120) DEF Accounted
  <2>4. ASSUME NEW q \in Pids, NEW b \in Addrs, ~(q = p /\ b = a) PROVE Accounted(q, b)'
    <3>1. source'[q][b] = source[q][b] /\ lib'[q][b] = lib[q][b] /\ Accounted(q, b)
      BY <2>1, <2>2, <2>4, ZenonT(120) DEF RangeInv
    <3>2. Pending(q, b, Selected) => Pending(q, b, Selected)'
      BY <1>4, PendingStays, ZenonT(120)
    <3> QED
      BY <1>3, <1>4, <3>1, <3>2, AccountedStays, ZenonT(120)
  <2> QED
    BY <1>2, <1>4, <2>1, <2>3, <2>4, ZenonT(120) DEF RangeInv
<1>5. ASSUME NEW l \in Libs, on_uprobe_mmap(p, a, l) PROVE RangeInv'
  <2> DEFINE e == [type |-> "MAP", pid |-> p, addr |-> a, lib |-> l]
             s == IF ~Hooked(p) THEN "unhooked"
                  ELSE IF Len(ring) >= RingCap THEN "dropped" ELSE "announced"
  <2>1. /\ lib' = [lib EXCEPT ![p][a] = l] /\ source' = [source EXCEPT ![p][a] = s]
        /\ IF Hooked(p) THEN Emit(e) ELSE UNCHANGED <<ring, dropped>>
    BY <1>5, ZenonT(120) DEF on_uprobe_mmap
  <2>2. /\ e \in Event /\ e.type = "MAP" /\ e.lib = l /\ e.pid = p /\ e.addr = a
        /\ s \in Sources /\ s # "unmapped" /\ s # "full"
    BY SMTT(90) DEF Event, Sources
  <2>3. CASE Hooked(p)
    <3>1. /\ dropped' \in BOOLEAN
          /\ dropped => dropped'
          /\ Len(ring) >= RingCap => dropped'
          /\ \A i \in DOMAIN ring : i \in DOMAIN ring' /\ ring'[i] = ring[i]
          /\ ~(Len(ring) >= RingCap) => \E i \in DOMAIN ring' : ring'[i] = e
      <4> HIDE DEF e
      <4> QED
        BY <1>1, <2>1, <2>2, <2>3, EmitKeeps, Zenon DEF ArmInv
    <3>2. /\ s = "announced" => ~(Len(ring) >= RingCap)
          /\ s = "dropped" => Len(ring) >= RingCap
      BY <2>3
    <3> HIDE DEF e, s
    <3>3. s = "announced" /\ l \in Selected => Pending(p, a, Selected)'
      BY <2>2, <3>1, <3>2, Zenon DEF Pending
    <3> QED
      BY <1>4, <2>1, <2>2, <3>1, <3>2, <3>3, ZenonT(120)
  <2>4. CASE ~Hooked(p)
    <3>1. s # "announced" /\ s # "dropped" /\ ring' = ring /\ dropped' = dropped
      BY <2>1, <2>4
    <3> HIDE DEF e, s
    <3> QED
      BY <1>1, <1>4, <2>1, <2>2, <3>1, Zenon
  <2> QED
    BY <2>3, <2>4
<1>6. ASSUME NEW e \in Event, IF Hooked(p) THEN Emit(e) ELSE UNCHANGED <<ring, dropped>>
      PROVE  /\ dropped' \in BOOLEAN
             /\ dropped => dropped'
             /\ \A i \in DOMAIN ring : i \in DOMAIN ring' /\ ring'[i] = ring[i]
  BY <1>1, <1>6, EmitKeeps, ZenonT(120) DEF ArmInv
<1>7. CASE on_uprobe_munmap(p, a)
  <2> DEFINE e == [type |-> "UNMAP", pid |-> p, addr |-> a]
  <2>1. e \in Event /\ "unmapped" \in Sources
    BY DEF Event, Sources
  <2>2. /\ lib' = [lib EXCEPT ![p][a] = None] /\ source' = [source EXCEPT ![p][a] = "unmapped"]
        /\ IF Hooked(p) THEN Emit(e) ELSE UNCHANGED <<ring, dropped>>
    BY <1>7, Zenon DEF on_uprobe_munmap
  <2> HIDE DEF e
  <2>3. /\ dropped' \in BOOLEAN
        /\ dropped => dropped'
        /\ \A i \in DOMAIN ring : i \in DOMAIN ring' /\ ring'[i] = ring[i]
    BY <1>6, <2>1, <2>2, Zenon
  <2>4. "unmapped" # "announced" /\ "unmapped" # "dropped" /\ "unmapped" # "full"
    OBVIOUS
  <2> QED
    BY <1>4, <2>1, <2>2, <2>3, <2>4, ZenonT(120)
<1>8. CASE on_svc_enter(p, a)
  <2> DEFINE e == [type |-> "SYSCALL", pid |-> p, addr |-> a]
  <2>1. e \in Event
    BY Zenon DEF Event
  <2>2. UNCHANGED <<lib, source>> /\ (Emit(e) \/ UNCHANGED <<ring, dropped>>)
    BY <1>8, ZenonT(120) DEF on_svc_enter
  <2> HIDE DEF e
  <2>3. /\ dropped' \in BOOLEAN
        /\ dropped => dropped'
        /\ \A i \in DOMAIN ring : i \in DOMAIN ring' /\ ring'[i] = ring[i]
    BY <1>1, <2>1, <2>2, EmitKeeps, ZenonT(120) DEF ArmInv
  <2>4. ASSUME NEW q \in Pids, NEW b \in Addrs PROVE Accounted(q, b)'
    <3>1. Pending(q, b, Selected) => Pending(q, b, Selected)'
      BY <2>3, PendingStays, ZenonT(120)
    <3>2. source'[q][b] = source[q][b] /\ lib'[q][b] = lib[q][b] /\ Accounted(q, b)
      BY <2>2, ZenonT(120) DEF RangeInv
    <3> QED
      BY <1>3, <2>3, <3>1, <3>2, AccountedStays, SMTT(90)
  <2> QED
    BY <1>1, <1>2, <2>2, <2>3, <2>4 DEF RangeInv
<1> QED
  BY <1>5, <1>7, <1>8, ZenonT(120)

(* A process that starts has what it inherited, and nothing else. *)
LEMMA InheritRangeInv ==
    ASSUME ArmInv, RangeInv, NEW p \in Pids, NEW m \in Mappings, Inherit(p, m),
           UNCHANGED <<ring, dropped, lib_ranges>>
    PROVE  RangeInv'
<1> DEFINE s == [a \in Addrs |-> IF m[a] = None THEN "unmapped" ELSE "inherited"]
<1>1. /\ lib' = [lib EXCEPT ![p] = m] /\ source' = [source EXCEPT ![p] = s]
      /\ lib \in [Pids -> Mappings] /\ source \in [Pids -> [Addrs -> Sources]]
  BY ZenonT(120) DEF Inherit, ArmInv, ArmTyped, RangeInv
<1>2. /\ s \in [Addrs -> Sources]
      /\ \A a \in Addrs : s[a] = "inherited" \/ (s[a] = "unmapped" /\ m[a] = None)
  BY DEF Sources
<1> HIDE DEF s
<1>3. /\ source' \in [Pids -> [Addrs -> Sources]] /\ source'[p] = s /\ lib'[p] = m
      /\ \A q \in Pids : q # p => source'[q] = source[q] /\ lib'[q] = lib[q]
  BY <1>1, <1>2, ZenonT(120)
<1>4. /\ WithinCaps' /\ dropped' \in BOOLEAN
      /\ \A q \in Pids : Armed(q)' = Armed(q) /\ TableFull(q)' = TableFull(q)
  BY DEF RangeInv, WithinCaps, Entries, Armed, TableFull
<1>5. ASSUME NEW q \in Pids, NEW b \in Addrs PROVE Accounted(q, b)'
  <2>1. CASE q = p
    BY <1>2, <1>3, <2>1, SMTT(90) DEF Accounted
  <2>2. CASE q # p
    <3>1. source'[q][b] = source[q][b] /\ lib'[q][b] = lib[q][b] /\ Accounted(q, b)
      BY <1>3, <2>2, ZenonT(120) DEF RangeInv
    <3>2. Pending(q, b, Selected) => Pending(q, b, Selected)'
      BY Zenon DEF Pending
    <3> QED
      BY <1>4, <3>1, <3>2, AccountedStays, ZenonT(120)
  <2> QED
    BY <2>1, <2>2, SMTT(90)
<1> QED
  BY <1>3, <1>4, <1>5, ZenonT(120) DEF RangeInv

(* A scan arms the line it reads, an event the range it tells of; a full   *)
(* table is the only reason not to.                                        *)
LEMMA LoaderRangeInv ==
    ASSUME ArmInv, RangeInv, seed_lib_ranges_from_maps \/ enqueue_event
    PROVE  RangeInv'
<1>1. /\ source \in [Pids -> [Addrs -> Sources]] /\ "full" \in Sources /\ "announced" \in Sources
      /\ lib' = lib /\ dropped' = dropped /\ ArmTyped /\ RangesDistinct /\ WithinCaps
      /\ dropped \in BOOLEAN
  BY Zenon DEF RangeInv, ArmInv, Sources, seed_lib_ranges_from_maps, enqueue_event
<1>2. ASSUME NEW p \in Pids, NEW a \in Addrs, push_lib_range(p, a),
             NEW s \in Sources, source' = [source EXCEPT ![p][a] = s],
             s = "full" => source[p][a] = "full" \/ Refused(p, a),
             s = "announced" => ~Refused(p, a),
             s = "announced" \/ s = "full" \/ s = source[p][a],
             \A q \in Pids, b \in Addrs : Pending(q, b, Selected) =>
                 Pending(q, b, Selected)' \/ (q = p /\ b = a)
      PROVE  RangeInv'
  <2>1. /\ WithinCaps'
        /\ \A q \in Pids : \A b \in Armed(q) : b \in Armed(q)'
        /\ \A q \in Pids : TableFull(q) => TableFull(q)'
        /\ Refused(p, a) => TableFull(p)'
        /\ ~Refused(p, a) => a \in Armed(p)'
    BY <1>1, <1>2, PushKeeps, ZenonT(120)
  <2>2. /\ source' \in [Pids -> [Addrs -> Sources]] /\ source'[p][a] = s
        /\ \A q \in Pids, b \in Addrs : (q = p /\ b = a) \/ source'[q][b] = source[q][b]
    BY <1>1, <1>2, UpdateAt, ZenonT(120)
  <2>3. Accounted(p, a)'
    <3>1. Accounted(p, a) /\ lib'[p][a] = lib[p][a]
      BY <1>1, Zenon DEF RangeInv
    <3>2. CASE s = "announced"
      BY <1>2, <2>1, <2>2, <3>2, ZenonT(120) DEF Accounted
    <3>3. CASE s = "full"
      BY <1>2, <2>1, <2>2, <3>1, <3>3, ZenonT(120) DEF Accounted
    <3>4. CASE s = source[p][a] /\ s # "announced" /\ s # "full"
      BY <1>1, <2>2, <3>1, <3>4, ZenonT(120) DEF Accounted
    <3> QED
      BY <1>2, <3>2, <3>3, <3>4, ZenonT(120)
  <2>4. ASSUME NEW q \in Pids, NEW b \in Addrs, ~(q = p /\ b = a) PROVE Accounted(q, b)'
    <3>1. source'[q][b] = source[q][b] /\ lib'[q][b] = lib[q][b] /\ Accounted(q, b)
      BY <1>1, <2>2, <2>4, ZenonT(120) DEF RangeInv
    <3>2. Pending(q, b, Selected) => Pending(q, b, Selected)'
      BY <1>2, <2>4, ZenonT(120)
    <3> QED
      BY <1>1, <2>1, <3>1, <3>2, AccountedStays, ZenonT(120)
  <2> QED
    BY <1>1, <2>1, <2>2, <2>3, <2>4, ZenonT(120) DEF RangeInv
<1>3. ASSUME UNCHANGED <<lib_ranges, source>>,
             \A q \in Pids, b \in Addrs : Pending(q, b, Selected) => Pending(q, b, Selected)'
      PROVE  RangeInv'
  <2>1. /\ WithinCaps'
        /\ \A q \in Pids : Armed(q)' = Armed(q) /\ TableFull(q)' = TableFull(q)
    BY <1>1, <1>3, SMTT(90) DEF WithinCaps, Entries, Armed, TableFull
  <2>2. ASSUME NEW q \in Pids, NEW b \in Addrs PROVE Accounted(q, b)'
    <3>1. source'[q][b] = source[q][b] /\ lib'[q][b] = lib[q][b] /\ Accounted(q, b)
      BY <1>1, <1>3, ZenonT(120) DEF RangeInv
    <3> QED
      BY <1>1, <1>3, <2>1, <3>1, AccountedStays, ZenonT(120)
  <2> QED
    BY <1>1, <1>3, <2>1, <2>2, ZenonT(120) DEF RangeInv
<1>4. CASE seed_lib_ranges_from_maps
  <2> DEFINE s == IF Refused(Main, line) THEN "full" ELSE "announced"
  <2>1. /\ line \in Addrs /\ Main \in Pids /\ ring' = ring
        /\ \/ push_lib_range(Main, line) /\ source' = [source EXCEPT ![Main][line] = s]
           \/ UNCHANGED <<lib_ranges, source>>
    BY <1>4, PidsAssumption, ZenonT(120) DEF seed_lib_ranges_from_maps, ReadLine
  <2>2. /\ s = "full" => Refused(Main, line)
        /\ s = "announced" => ~Refused(Main, line)
        /\ s = "announced" \/ s = "full"
    OBVIOUS
  <2>3. \A q \in Pids, b \in Addrs : Pending(q, b, Selected) => Pending(q, b, Selected)'
    BY <2>1, ZenonT(120) DEF Pending
  <2>4. s \in Sources
    BY <1>1, SMTT(90)
  <2> HIDE DEF s
  <2> QED
    BY <1>2, <1>3, <2>1, <2>2, <2>3, <2>4, ZenonT(120)
<1>5. CASE enqueue_event
  <2> DEFINE e == Head(ring)
             s == IF source[e.pid][e.addr] = "announced" /\ Refused(e.pid, e.addr)
                  THEN "full" ELSE source[e.pid][e.addr]
  <2>1. /\ ring # <<>> /\ ring' = Tail(ring)
        /\ IF e.type = "MAP" /\ e.lib \in Selected
           THEN push_lib_range(e.pid, e.addr) /\ Told(e.pid, e.addr)
           ELSE UNCHANGED <<lib_ranges, source>>
    BY <1>5, ZenonT(120) DEF enqueue_event
  <2>2. e.pid \in Pids /\ e.addr \in Addrs
    BY <1>1, <2>1, TailFacts, SMTT(90) DEF Event
  <2>3. ASSUME NEW q \in Pids, NEW b \in Addrs, Pending(q, b, Selected)
        PROVE  \/ Pending(q, b, Selected)'
               \/ e.type = "MAP" /\ e.lib \in Selected /\ q = e.pid /\ b = e.addr
    BY <1>1, <2>1, <2>3, TailPending, SMTT(90)
  <2>4. CASE e.type = "MAP" /\ e.lib \in Selected
    <3>1. /\ push_lib_range(e.pid, e.addr)
          /\ source' = [source EXCEPT ![e.pid][e.addr] = s]
      BY <1>1, <2>1, <2>2, <2>4, SMTT(90) DEF Told
    <3>2. s \in Sources
      BY <1>1, <2>2, SMTT(90)
    <3>3. /\ s = "full" => source[e.pid][e.addr] = "full" \/ Refused(e.pid, e.addr)
          /\ s = "announced" => ~Refused(e.pid, e.addr)
          /\ s = "announced" \/ s = "full" \/ s = source[e.pid][e.addr]
      OBVIOUS
    <3> HIDE DEF e, s
    <3>4. \A q \in Pids, b \in Addrs : Pending(q, b, Selected) =>
                 Pending(q, b, Selected)' \/ (q = e.pid /\ b = e.addr)
      BY <2>3, ZenonT(120)
    <3> QED
      BY <1>2, <2>2, <3>1, <3>2, <3>3, <3>4, ZenonT(120)
  <2>5. CASE ~(e.type = "MAP" /\ e.lib \in Selected)
    <3> HIDE DEF e
    <3> QED
      BY <1>3, <2>1, <2>3, <2>5, ZenonT(120)
  <2> QED
    BY <2>4, <2>5
<1> QED
  BY <1>4, <1>5

(* Before start-up nothing is announced. *)
LEMMA RangeInitInv == Init => RangeInv
<1> SUFFICES ASSUME Init PROVE RangeInv
  OBVIOUS
<1>1. /\ lib_ranges = [p \in Pids |-> <<>>] /\ dropped = FALSE
      /\ source = [p \in Pids |-> [a \in Addrs |->
                     IF lib[p][a] = None THEN "unmapped" ELSE "inherited"]]
  BY Zenon DEF Init
<1>2. Entries = {}
  BY <1>1 DEF Entries
<1>3. WithinCaps
  BY <1>1, <1>2, FS_EmptySet, LibAssumption DEF WithinCaps
<1>4. \A p \in Pids, a \in Addrs : Accounted(p, a)
  BY <1>1 DEF Accounted
<1>5. source \in [Pids -> [Addrs -> Sources]]
  BY <1>1 DEF Sources
<1> QED
  BY <1>1, <1>3, <1>4, <1>5, ZenonT(120) DEF RangeInv

(* Every step keeps every mapping accounted for. *)
LEMMA RangeNextInv == ArmInv /\ RangeInv /\ [Next]_vars => RangeInv'
<1> SUFFICES ASSUME ArmInv, RangeInv, [Next]_vars PROVE RangeInv'
  OBVIOUS
<1>1. ZygoteMaps \subseteq Mappings /\ Main \in Pids
  BY LibAssumption, PidsAssumption, ZenonT(120) DEF Mappings
<1>2. ASSUME NEW p \in Pids, NEW c \in Pids, ForkProcess(p, c) PROVE RangeInv'
  <2>1. lib[p] \in Mappings
    BY Zenon DEF ArmInv, ArmTyped
  <2> QED
    BY <1>2, <2>1, InheritRangeInv, ZenonT(120) DEF ForkProcess
<1>3. ASSUME NEW p \in Pids, NEW sameUid \in BOOLEAN, NEW m \in ZygoteMaps,
             SpawnProcess(p, sameUid, m)
      PROVE  RangeInv'
  BY <1>1, <1>3, InheritRangeInv, ZenonT(120) DEF SpawnProcess
<1>4. ASSUME NEW m \in ZygoteMaps, Launch(m) PROVE RangeInv'
  BY <1>1, <1>4, InheritRangeInv, ZenonT(120) DEF Launch
<1>5. ASSUME UNCHANGED <<lib, ring, dropped, lib_ranges, source>> PROVE RangeInv'
  <2>1. WithinCaps' /\ \A q \in Pids : Armed(q)' = Armed(q) /\ TableFull(q)' = TableFull(q)
    BY <1>5 DEF RangeInv, WithinCaps, Entries, Armed, TableFull
  <2>2. ASSUME NEW q \in Pids, NEW b \in Addrs PROVE Accounted(q, b)'
    <3>1. Accounted(q, b) /\ (Pending(q, b, Selected) => Pending(q, b, Selected)')
      BY <1>5, Zenon DEF RangeInv, Pending
    <3> QED
      BY <1>5, <2>1, <3>1, AccountedStays, ZenonT(120)
  <2> QED
    BY <1>5, <2>1, <2>2, ZenonT(120) DEF RangeInv
<1>6. CASE \/ Install \/ seed_scope_ranges_from_maps \/ ScanEnds \/ Attach \/ Follow
           \/ UNCHANGED vars
           \/ \E p, c \in Pids : CloneThread(p, c)
           \/ \E t \in Pids : ExitTask(t)
  <2>1. UNCHANGED <<lib, ring, dropped, lib_ranges, source>>
    BY <1>6, ZenonT(120) DEF Install, seed_scope_ranges_from_maps, ScanEnds, Attach, Follow,
          CloneThread, ExitTask, vars, libVars
  <2> QED
    BY <1>5, <2>1, ZenonT(120)
<1> QED
  BY <1>2, <1>3, <1>4, <1>6, HookRangeInv, LoaderRangeInv, ZenonT(120) DEF Next, Loader, Target

-----------------------------------------------------------------------------
(* What is known of the target itself *)

(* The target is there: it was given, or the loader has launched it. *)
Begun == mode.pid \/ pc \in {"seed", "scope", "run"}

(* The first scan is past the line of a. *)
Past(a) ==
    \/ pc = "seed" /\ a < line
    \/ pc \in {"scope", "run"}
    \/ mode.pid /\ pc \in {"attach", "follow"}

(* A target whose id was never given away is the process that was scanned, *)
(* and a scanned line is no longer only inherited.                         *)
TargetScanned ==
    mode.seed /\ Begun /\ Main \notin recycled =>
        /\ tgid[Main] = Main
        /\ \A a \in Addrs : Past(a) /\ lib[Main][a] \in Selected => source[Main][a] # "inherited"

(* Without -p the gate is the uid alone and the hooks are live before the  *)
(* target is launched.                                                     *)
LaunchHooked ==
    ~mode.pid =>
        /\ target_pids = {} /\ ~ff /\ pc # "follow"
        /\ pc \in {"launch", "seed", "scope", "run"} => attached
        /\ pc \in {"seed", "scope", "run"} /\ Main \in app =>
               \A a \in Addrs : source[Main][a] # "unhooked"

TargetInv ==
    /\ mode \in Modes
    /\ line \in 1..(Cardinality(Addrs) + 1)
    /\ pc \notin {"seed", "scope"} => line = 1
    /\ pc = "launch" => ~mode.pid
    /\ TargetScanned /\ LaunchHooked

(* The traced system cannot undo a scan: what it starts anew has another   *)
(* id, or one that was used before, and what it maps is seen once the      *)
(* hooks are live.                                                         *)
LEMMA TargetStays ==
    ASSUME TargetInv, UNCHANGED <<mode, pc, line, attached, ff>>,
           ~ff => target_pids' = target_pids,
           Main \notin recycled' /\ tgid[Main] = Main =>
               /\ Main \notin recycled /\ tgid'[Main] = Main
               /\ \A a \in Addrs : source'[Main][a] = "inherited" =>
                      lib'[Main][a] = lib[Main][a] /\ source[Main][a] = "inherited",
           Main \notin recycled' => Main \notin recycled,
           Main \in app' /\ ~mode.pid /\ attached =>
               \A a \in Addrs : source'[Main][a] = "unhooked" =>
                   Main \in app /\ source[Main][a] = "unhooked"
    PROVE  TargetInv'
<1>1. TargetScanned'
  <2>1. SUFFICES ASSUME mode.seed, Begun, Main \notin recycled' PROVE
            /\ tgid'[Main] = Main
            /\ \A a \in Addrs : Past(a) /\ lib'[Main][a] \in Selected => source'[Main][a] # "inherited"
    BY Zenon DEF TargetScanned, Begun, Past
  <2>2. /\ tgid[Main] = Main
        /\ \A a \in Addrs : Past(a) /\ lib[Main][a] \in Selected => source[Main][a] # "inherited"
    BY <2>1, ZenonT(120) DEF TargetInv, TargetScanned
  <2> QED
    BY <2>1, <2>2, ZenonT(120)
<1>2. LaunchHooked'
  BY DEF TargetInv, LaunchHooked
<1> QED
  BY <1>1, <1>2, ZenonT(120) DEF TargetInv

(* A task of the traced system starts or ends. *)
LEMMA TaskTargetInv ==
    ASSUME GateInv, ArmTyped, source \in [Pids -> [Addrs -> Sources]], TargetInv,
           \/ \E p, c \in Pids : ForkProcess(p, c) \/ CloneThread(p, c)
           \/ \E p \in Pids, sameUid \in BOOLEAN, m \in ZygoteMaps : SpawnProcess(p, sameUid, m)
           \/ \E t \in Pids : ExitTask(t)
    PROVE  TargetInv'
<1>1. /\ Main \in Pids /\ None \notin Pids /\ tgid \in [Pids -> Pids \cup {None}]
      /\ UNCHANGED <<mode, pc, line, attached, ff>> /\ recycled \subseteq recycled'
  BY PidsAssumption, ZenonT(120)
  DEF GateInv, ForkProcess, CloneThread, SpawnProcess, ExitTask, Fork, Clone, Spawn, Exit
<1>2. ASSUME NEW c \in Pids, NEW m \in Mappings, Inherit(c, m), tgid[c] = None,
             tgid' = [tgid EXCEPT ![c] = c], app' \subseteq app \cup {c},
             ~ff => target_pids' = target_pids
      PROVE  TargetInv'
  <2>1. CASE c = Main
    <3>1. tgid[Main] # Main
      BY <1>1, <1>2, <2>1, SMTT(90)
    <3>2. \A a \in Addrs : source'[Main][a] # "unhooked"
      BY <1>1, <1>2, <2>1, SMTT(90) DEF Inherit
    <3> QED
      BY <1>1, <1>2, <3>1, <3>2, TargetStays, ZenonT(120)
  <2>2. CASE c # Main
    <3>1. tgid'[Main] = tgid[Main] /\ lib'[Main] = lib[Main] /\ source'[Main] = source[Main]
      BY <1>1, <1>2, <2>2, SMTT(90) DEF Inherit, ArmTyped
    <3>2. Main \in app' => Main \in app
      BY <1>2, <2>2, ZenonT(120)
    <3>3. \A a \in Addrs : lib'[Main][a] = lib[Main][a] /\ source'[Main][a] = source[Main][a]
      BY <3>1, Zenon
    <3> QED
      BY <1>1, <1>2, <3>1, <3>2, <3>3, TargetStays, ZenonT(120)
  <2> QED
    BY <2>1, <2>2
<1>3. ASSUME NEW p \in Pids, NEW c \in Pids, ForkProcess(p, c) PROVE TargetInv'
  <2>1. /\ Inherit(c, lib[p]) /\ lib[p] \in Mappings /\ tgid[c] = None
        /\ tgid' = [tgid EXCEPT ![c] = c] /\ app' \subseteq app \cup {c}
    BY <1>3 DEF ForkProcess, Fork, Free, ArmTyped
  <2>2. ~ff => target_pids' = target_pids
    BY <1>3, ZenonT(120) DEF ForkProcess, Fork, anubee_follow_fork
  <2> QED
    BY <1>2, <2>1, <2>2, ZenonT(120)
<1>4. ASSUME NEW p \in Pids, NEW sameUid \in BOOLEAN, NEW m \in ZygoteMaps, SpawnProcess(p, sameUid, m)
      PROVE  TargetInv'
  <2>1. /\ Inherit(p, m) /\ tgid[p] = None
        /\ tgid' = [tgid EXCEPT ![p] = p] /\ app' \subseteq app \cup {p} /\ target_pids' = target_pids
    BY <1>4 DEF SpawnProcess, Spawn, Free
  <2>2. m \in Mappings
    BY LibAssumption, Zenon DEF Mappings
  <2> QED
    BY <1>2, <2>1, <2>2, ZenonT(120)
<1>5. ASSUME NEW p \in Pids, NEW t \in Pids, CloneThread(p, t) PROVE TargetInv'
  <2>1. /\ tgid[t] = None /\ tgid' = [tgid EXCEPT ![t] = p] /\ UNCHANGED <<lib, source, app, recycled>>
    BY <1>5, Zenon DEF CloneThread, Clone, Free
  <2>2. ~ff => target_pids' = target_pids
    BY <1>5, ZenonT(120) DEF CloneThread, Clone, anubee_follow_fork
  <2>3. tgid[Main] = Main => tgid'[Main] = Main
    BY <1>1, <2>1
  <2> QED
    BY <1>1, <2>1, <2>2, <2>3, TargetStays, ZenonT(120)
<1>6. ASSUME NEW t \in Pids, ExitTask(t) PROVE TargetInv'
  <2> DEFINE gone == {u \in Pids : u = t \/ tgid[u] = t}
  <2>1. /\ tgid' = [u \in Pids |-> IF u \in gone THEN None ELSE tgid[u]]
        /\ recycled' = recycled \cup gone /\ app' = app \ {t}
        /\ UNCHANGED <<lib, source, target_pids>>
    BY <1>6, ZenonT(120) DEF ExitTask, Exit
  <2> HIDE DEF gone
  <2>2. Main \notin recycled' => tgid'[Main] = tgid[Main]
    BY <1>1, <2>1, ZenonT(120)
  <2>3. Main \in app' => Main \in app
    BY <2>1, ZenonT(120)
  <2> QED
    BY <1>1, <2>1, <2>2, <2>3, TargetStays, ZenonT(120)
<1> QED
  BY <1>3, <1>4, <1>5, <1>6, ZenonT(120)

(* The hooks: a mapping made under live hooks that see the target is never *)
(* one that was made out of their sight.                                   *)
LEMMA HookTargetInv ==
    ASSUME ArmTyped, source \in [Pids -> [Addrs -> Sources]], TargetInv,
           NEW p \in Pids, NEW a \in Addrs,
           \/ \E l \in Libs : on_uprobe_mmap(p, a, l)
           \/ on_uprobe_munmap(p, a) \/ on_svc_enter(p, a)
    PROVE  TargetInv'
<1>1. /\ UNCHANGED <<mode, tgid, app, target_pids, ff, recycled, pc, line, attached>>
      /\ Main \in Pids /\ lib \in [Pids -> [Addrs -> Libs \cup {None}]]
  BY PidsAssumption, Zenon DEF on_uprobe_mmap, on_uprobe_munmap, on_svc_enter, gateVars, ArmTyped, Mappings
<1>2. ASSUME NEW s \in Sources, source' = [source EXCEPT ![p][a] = s],
             NEW l \in Libs \cup {None}, lib' = [lib EXCEPT ![p][a] = l],
             s # "inherited",
             s = "unhooked" => ~Hooked(p)
      PROVE  TargetInv'
  <2>1. /\ source'[p][a] = s
        /\ \A q \in Pids, b \in Addrs : (q = p /\ b = a) \/ source'[q][b] = source[q][b]
    BY <1>2, UpdateAt, ZenonT(120)
  <2>2. \A q \in Pids, b \in Addrs : (q = p /\ b = a) \/ lib'[q][b] = lib[q][b]
    BY <1>1, <1>2, UpdateAt, ZenonT(120)
  <2>3. \A b \in Addrs : source'[Main][b] = "inherited" =>
            lib'[Main][b] = lib[Main][b] /\ source[Main][b] = "inherited"
    BY <1>1, <1>2, <2>1, <2>2, ZenonT(120)
  <2>4. Main \in app /\ ~mode.pid /\ attached => Hooked(Main)
    BY ModesAssumption, ZenonT(120) DEF TargetInv, Hooked, Gate
  <2>5. Main \in app /\ ~mode.pid /\ attached =>
            \A b \in Addrs : source'[Main][b] = "unhooked" => source[Main][b] = "unhooked"
    BY <1>1, <1>2, <2>1, <2>4, ZenonT(120)
  <2> QED
    BY <1>1, <2>3, <2>5, TargetStays, ZenonT(120)
<1>3. ASSUME NEW l \in Libs, on_uprobe_mmap(p, a, l) PROVE TargetInv'
  <2> DEFINE s == IF ~Hooked(p) THEN "unhooked"
                  ELSE IF Len(ring) >= RingCap THEN "dropped" ELSE "announced"
  <2>1. lib' = [lib EXCEPT ![p][a] = l] /\ source' = [source EXCEPT ![p][a] = s]
    BY <1>3, ZenonT(120) DEF on_uprobe_mmap
  <2>2. /\ s \in Sources /\ s # "inherited"
        /\ s = "unhooked" => ~Hooked(p)
    BY DEF Sources
  <2> HIDE DEF s
  <2> QED
    BY <1>2, <2>1, <2>2, ZenonT(120)
<1>4. CASE on_uprobe_munmap(p, a)
  <2>1. lib' = [lib EXCEPT ![p][a] = None] /\ source' = [source EXCEPT ![p][a] = "unmapped"]
    BY <1>4, ZenonT(120) DEF on_uprobe_munmap
  <2>2. "unmapped" \in Sources /\ "unmapped" # "inherited" /\ "unmapped" # "unhooked"
    BY DEF Sources
  <2> QED
    BY <1>2, <2>1, <2>2, ZenonT(120)
<1>5. CASE on_svc_enter(p, a)
  <2>1. UNCHANGED <<lib, source>>
    BY <1>5, ZenonT(120) DEF on_svc_enter
  <2> QED
    BY <1>1, <2>1, TargetStays, ZenonT(120)
<1> QED
  BY <1>3, <1>4, <1>5, ZenonT(120)

(* The loader: the scan passes a line only after it has read it, and what  *)
(* it has not read when it launches the target it scans afterwards.        *)
LEMMA LoaderTargetInv ==
    ASSUME GateInv, ArmTyped, source \in [Pids -> [Addrs -> Sources]], TargetInv, Loader
    PROVE  TargetInv'
<1>1. /\ Main \in Pids /\ tgid \in [Pids -> Pids \cup {None}] /\ mode \in Modes
      /\ Cardinality(Addrs) \in Nat /\ Addrs = 1..Cardinality(Addrs)
      /\ line \in 1..(Cardinality(Addrs) + 1) /\ 1 \in 1..(Cardinality(Addrs) + 1)
      /\ \A a \in Addrs : ~(a < 1)
  BY PidsAssumption, LibAssumption, FS_CardinalityType, SMTT(90) DEF GateInv, TargetInv
<1>2. CASE Install
  <2>1. /\ pc = "install" /\ UNCHANGED <<mode, tgid, app, ff, recycled, line, attached, lib, source>>
        /\ mode.pid => pc' = "seed"
        /\ ~mode.pid => pc' = "attach" /\ target_pids' = target_pids
        /\ line = 1
    BY <1>2, SMTT(90) DEF Install, InstallTarget, TargetInv
  <2>2. CASE mode.pid
    <3>1. \A a \in Addrs : ~Past(a)'
      BY <1>1, <2>1, <2>2, SMTT(90) DEF Past
    <3>2. TargetScanned'
      BY <2>1, <2>2, <3>1, ZenonT(120) DEF TargetInv, TargetScanned, Begun
    <3> QED
      BY <1>1, <2>1, <2>2, <3>2, SMTT(90) DEF TargetInv, LaunchHooked
  <2>3. CASE ~mode.pid
    BY <1>1, <2>1, <2>3, SMTT(90) DEF TargetInv, TargetScanned, LaunchHooked, Begun
  <2> QED
    BY <2>2, <2>3, SMTT(90)
<1>3. CASE seed_lib_ranges_from_maps
  <2> DEFINE s == IF Refused(Main, line) THEN "full" ELSE "announced"
  <2>1. /\ pc = "seed" /\ line \in Addrs /\ line' = line + 1
        /\ UNCHANGED <<mode, tgid, app, target_pids, ff, recycled, pc, attached, lib>>
        /\ IF lib[Main][line] \in Selected THEN source' = [source EXCEPT ![Main][line] = s]
           ELSE source' = source
    BY <1>3, ZenonT(120) DEF seed_lib_ranges_from_maps, ReadLine, gateVars
  <2>2. s \in Sources /\ s # "inherited" /\ s # "unhooked"
    BY SMTT(90) DEF Sources
  <2> HIDE DEF s
  <2>3. /\ lib[Main][line] \in Selected => source'[Main][line] = s
        /\ \A a \in Addrs : a = line \/ source'[Main][a] = source[Main][a]
        /\ \A a \in Addrs : source'[Main][a] = s \/ source'[Main][a] = source[Main][a]
    <3>1. CASE lib[Main][line] \in Selected
      <4>1. source' = [source EXCEPT ![Main][line] = s] /\ Main \in Pids /\ line \in Addrs
        BY <1>1, <2>1, <3>1, ZenonT(120)
      <4>2. /\ source'[Main][line] = s
            /\ \A q \in Pids, b \in Addrs : (q = Main /\ b = line) \/ source'[q][b] = source[q][b]
        BY <2>2, <4>1, UpdateAt, ZenonT(120)
      <4> QED
        BY <1>1, <3>1, <4>2, ZenonT(120)
    <3>2. CASE lib[Main][line] \notin Selected
      BY <2>1, <3>2, ZenonT(120)
    <3> QED
      BY <3>1, <3>2, ZenonT(120)
  <2>4. line' \in 1..(Cardinality(Addrs) + 1) /\ \A a \in Addrs : Past(a)' => Past(a) \/ a = line
    BY <1>1, <2>1, SMTT(90) DEF Past
  <2>5. TargetScanned'
    BY <2>1, <2>2, <2>3, <2>4, ZenonT(120) DEF TargetInv, TargetScanned, Begun
  <2>6. LaunchHooked'
    BY <2>1, <2>2, <2>3, ZenonT(120) DEF TargetInv, LaunchHooked
  <2> QED
    BY <1>1, <2>1, <2>4, <2>5, <2>6, SMTT(90) DEF TargetInv
<1>4. CASE seed_scope_ranges_from_maps
  <2>1. /\ pc = "scope" /\ line \in Addrs /\ line' = line + 1
        /\ UNCHANGED <<mode, tgid, app, target_pids, ff, recycled, pc, attached, lib, source>>
    BY <1>4, ZenonT(120) DEF seed_scope_ranges_from_maps, gateVars
  <2>2. line' \in 1..(Cardinality(Addrs) + 1)
    BY <1>1, <2>1, SMTT(90)
  <2> QED
    BY <2>1, <2>2, SMTT(90) DEF TargetInv, TargetScanned, LaunchHooked, Begun, Past
<1>5. CASE ScanEnds
  <2>1. /\ pc \in {"seed", "scope"} /\ line \notin Addrs /\ line' = 1
        /\ pc' = IF pc = "seed" THEN "scope" ELSE IF mode.pid THEN "attach" ELSE "run"
        /\ UNCHANGED <<mode, tgid, app, target_pids, ff, recycled, attached, lib, source>>
    BY <1>5, ZenonT(120) DEF ScanEnds, gateVars
  <2>2. \A a \in Addrs : Past(a)
    BY <1>1, <2>1, SMTT(90) DEF Past
  <2>3. Begun /\ TargetScanned'
    BY <2>1, <2>2, SMTT(90) DEF TargetInv, TargetScanned, Begun
  <2> QED
    BY <1>1, <2>1, <2>3, SMTT(90) DEF TargetInv, LaunchHooked
<1>6. CASE Attach
  <2>1. /\ pc = "attach" /\ attached' = TRUE /\ pc' = IF mode.pid THEN "follow" ELSE "launch"
        /\ UNCHANGED <<mode, tgid, app, target_pids, ff, recycled, line, lib, source>>
    BY <1>6, ZenonT(120) DEF Attach, gateVars
  <2>2. TargetScanned'
    BY <2>1, SMTT(90) DEF TargetInv, TargetScanned, Begun, Past
  <2> QED
    BY <1>1, <2>1, <2>2, SMTT(90) DEF TargetInv, LaunchHooked
<1>7. CASE Follow
  <2>1. /\ pc = "follow" /\ pc' = "run" /\ mode.pid
        /\ UNCHANGED <<mode, tgid, app, target_pids, recycled, attached, line, lib, source>>
    BY <1>7, ZenonT(120) DEF Follow, AttachFollow, TargetInv, LaunchHooked
  <2> QED
    BY <1>1, <2>1, SMTT(90) DEF TargetInv, TargetScanned, LaunchHooked, Begun, Past
<1>8. CASE enqueue_event
  <2> DEFINE e == Head(ring)
             s == IF source[e.pid][e.addr] = "announced" /\ Refused(e.pid, e.addr)
                  THEN "full" ELSE source[e.pid][e.addr]
  <2>1. /\ UNCHANGED <<mode, tgid, app, target_pids, ff, recycled, pc, line, attached, lib>>
        /\ ring # <<>> /\ ring' = Tail(ring) /\ (Told(e.pid, e.addr) \/ UNCHANGED source)
    BY <1>8, ZenonT(120) DEF enqueue_event, gateVars
  <2>2. e.pid \in Pids /\ e.addr \in Addrs
    BY <2>1, TailFacts, SMTT(90) DEF Event
  <2>3. s \in Sources
    BY <2>2, SMTT(90) DEF Sources
  <2>4. Told(e.pid, e.addr) => source' = [source EXCEPT ![e.pid][e.addr] = s]
    BY <2>2, SMTT(90) DEF Told
  <2>5. s = "full" \/ s = source[e.pid][e.addr]
    OBVIOUS
  <2> HIDE DEF e, s
  <2>6. \A a \in Addrs : source'[Main][a] = "full" \/ source'[Main][a] = source[Main][a]
    <3>1. CASE source' = [source EXCEPT ![e.pid][e.addr] = s]
      <4>1. /\ source'[e.pid][e.addr] = s
            /\ \A q \in Pids, b \in Addrs :
                  (q = e.pid /\ b = e.addr) \/ source'[q][b] = source[q][b]
        BY <2>2, <2>3, <3>1, UpdateAt, ZenonT(120)
      <4> QED
        BY <1>1, <2>5, <4>1, ZenonT(120)
    <3>2. CASE source' = source
      BY <3>2, ZenonT(120)
    <3> QED
      BY <2>1, <2>4, <3>1, <3>2, ZenonT(120)
  <2>7. "full" # "inherited" /\ "full" # "unhooked"
    OBVIOUS
  <2>8. \A a \in Addrs : /\ source'[Main][a] = "inherited" => source[Main][a] = "inherited"
                         /\ source'[Main][a] = "unhooked" => source[Main][a] = "unhooked"
    BY <2>6, <2>7, ZenonT(120)
  <2> QED
    BY <2>1, <2>8, TargetStays, ZenonT(120)
<1>9. ASSUME NEW m \in ZygoteMaps, Launch(m) PROVE TargetInv'
  <2>1. /\ pc = "launch" /\ pc' = IF mode.seed THEN "seed" ELSE "run"
        /\ Inherit(Main, m) /\ tgid' = [tgid EXCEPT ![Main] = Main]
        /\ UNCHANGED <<mode, target_pids, ff, recycled, line, attached>> /\ line = 1 /\ ~mode.pid
    BY <1>9, SMTT(90) DEF Launch, Spawn, TargetInv
  <2>2. tgid'[Main] = Main /\ \A a \in Addrs : source'[Main][a] # "unhooked"
    BY <1>1, <2>1, SMTT(90) DEF Inherit
  <2>3. mode.seed => \A a \in Addrs : ~Past(a)'
    BY <1>1, <2>1 DEF Past
  <2>4. TargetScanned'
    BY <2>1, <2>2, <2>3, ZenonT(120) DEF TargetScanned
  <2>5. LaunchHooked'
    BY <2>1, <2>2, SMTT(90) DEF TargetInv, LaunchHooked
  <2> QED
    BY <1>1, <2>1, <2>4, <2>5, SMTT(90) DEF TargetInv
<1> QED
  BY <1>2, <1>3, <1>4, <1>5, <1>6, <1>7, <1>8, <1>9, ZenonT(120) DEF Loader

(* Before start-up the target is there when it was given. *)
LEMMA TargetInitInv == Init => TargetInv
<1> SUFFICES ASSUME Init PROVE TargetInv
  OBVIOUS
<1>1. /\ mode \in Modes /\ pc = "install" /\ line = 1 /\ target_pids = {} /\ ff = FALSE
      /\ tgid = [p \in Pids |-> IF p = Main /\ mode.pid THEN Main ELSE None]
  BY ZenonT(120) DEF Init, GateInit
<1>2. 1 \in 1..(Cardinality(Addrs) + 1)
  BY LibAssumption, FS_CardinalityType, SMTT(90)
<1> QED
  BY <1>1, <1>2, PidsAssumption, SMTT(90) DEF TargetInv, TargetScanned, LaunchHooked, Begun, Past

-----------------------------------------------------------------------------
(* The ranges of the scope *)

(* The second scan has not read the line of a yet. *)
ScanAhead(p, a) ==
    \/ p = Main /\ pc = "seed"
    \/ p = Main /\ pc = "scope" /\ line <= a

(* The scope has the range of an announced mapping of its library, or the  *)
(* event that brings it is in the ring, or the second scan will read it.   *)
Scoped(p, a) ==
    source[p][a] = "announced" /\ lib[p][a] \in ScopeLibs =>
        \/ a \in Range(scope) \/ Len(scope) = RangeCap
        \/ Pending(p, a, ScopeLibs) \/ ScanAhead(p, a)

ScopeInv == Len(scope) <= RangeCap /\ \A p \in Pids, a \in Addrs : Scoped(p, a)

(* push_scope_range forgets no range, and has the one it is given unless   *)
(* its slots are taken.                                                    *)
LEMMA PushScopeKeeps ==
    ASSUME ArmTyped, RangesDistinct, Len(scope) <= RangeCap, NEW a \in Addrs, push_scope_range(a)
    PROVE  /\ Len(scope') <= RangeCap
           /\ \A b \in Range(scope) : b \in Range(scope')
           /\ Len(scope) = RangeCap => Len(scope') = RangeCap
           /\ a \in Range(scope') \/ Len(scope') = RangeCap
<1>1. RangeCap \in Nat /\ Len(scope) \in Nat /\ scope \in Seq(Addrs)
  BY LibAssumption, SMTT(90) DEF ArmTyped
<1>2. CASE a \in Range(scope) \/ Len(scope) >= RangeCap
  <2>1. scope' = scope
    BY <1>2, SMTT(90) DEF push_scope_range
  <2> QED
    BY <1>1, <1>2, <2>1, SMTT(90)
<1>3. CASE ~(a \in Range(scope) \/ Len(scope) >= RangeCap)
  <2>1. scope' = Append(scope, a)
    BY <1>3, SMTT(90) DEF push_scope_range
  <2>2. Len(scope') = Len(scope) + 1 /\ Range(scope') = Range(scope) \cup {a}
    BY <1>1, <1>3, <2>1, AppendFacts, SMTT(90) DEF RangesDistinct
  <2> QED
    BY <1>1, <1>3, <2>2, SMTT(90)
<1> QED
  BY <1>2, <1>3, SMTT(90)

(* A mapping that is not announced anew keeps its place in the scope. *)
LEMMA ScopedStays ==
    ASSUME NEW q \in Pids, NEW b \in Addrs, Scoped(q, b),
           source'[q][b] = "announced" => source[q][b] = "announced" /\ lib'[q][b] = lib[q][b],
           b \in Range(scope) => b \in Range(scope'),
           Len(scope) = RangeCap => Len(scope') = RangeCap,
           Pending(q, b, ScopeLibs) => \/ Pending(q, b, ScopeLibs)'
                                      \/ b \in Range(scope') \/ Len(scope') = RangeCap,
           ScanAhead(q, b) /\ lib[q][b] \in ScopeLibs =>
               ScanAhead(q, b)' \/ b \in Range(scope') \/ Len(scope') = RangeCap
    PROVE  Scoped(q, b)'
  BY ZenonT(120) DEF Scoped

(* The hooks announce a mapping with an event that brings its range. *)
LEMMA HookScopeInv ==
    ASSUME ArmInv, RangeInv, ScopeInv, NEW p \in Pids, NEW a \in Addrs,
           \/ \E l \in Libs : on_uprobe_mmap(p, a, l)
           \/ on_uprobe_munmap(p, a) \/ on_svc_enter(p, a)
    PROVE  ScopeInv'
<1>1. /\ UNCHANGED <<scope, pc, line>> /\ dropped \in BOOLEAN
      /\ lib \in [Pids -> [Addrs -> Libs \cup {None}]] /\ source \in [Pids -> [Addrs -> Sources]]
  BY ZenonT(120) DEF on_uprobe_mmap, on_uprobe_munmap, on_svc_enter, ArmInv, ArmTyped, RangeInv, Mappings
<1>2. ASSUME NEW q \in Pids, NEW b \in Addrs,
             \A i \in DOMAIN ring : i \in DOMAIN ring' /\ ring'[i] = ring[i],
             source'[q][b] = "announced" => source[q][b] = "announced" /\ lib'[q][b] = lib[q][b]
      PROVE  Scoped(q, b)'
  <2>1. /\ Pending(q, b, ScopeLibs) => Pending(q, b, ScopeLibs)'
        /\ ScanAhead(q, b) => ScanAhead(q, b)'
        /\ Scoped(q, b)
    BY <1>1, <1>2, PendingStays, ZenonT(120) DEF ScanAhead, ScopeInv
  <2> QED
    BY <1>1, <1>2, <2>1, ScopedStays, ZenonT(120)
<1>3. ASSUME NEW s \in Sources, source' = [source EXCEPT ![p][a] = s],
             NEW l \in Libs \cup {None}, lib' = [lib EXCEPT ![p][a] = l],
             \A i \in DOMAIN ring : i \in DOMAIN ring' /\ ring'[i] = ring[i],
             s = "announced" /\ l \in ScopeLibs => Pending(p, a, ScopeLibs)'
      PROVE  ScopeInv'
  <2>1. /\ source'[p][a] = s
        /\ \A q \in Pids, b \in Addrs : (q = p /\ b = a) \/ source'[q][b] = source[q][b]
    BY <1>1, <1>3, UpdateAt, ZenonT(120)
  <2>2. /\ lib'[p][a] = l
        /\ \A q \in Pids, b \in Addrs : (q = p /\ b = a) \/ lib'[q][b] = lib[q][b]
    BY <1>1, <1>3, UpdateAt, ZenonT(120)
  <2>3. Scoped(p, a)'
    BY <1>3, <2>1, <2>2, ZenonT(120) DEF Scoped
  <2>4. ASSUME NEW q \in Pids, NEW b \in Addrs, ~(q = p /\ b = a) PROVE Scoped(q, b)'
    <3>1. source'[q][b] = "announced" => source[q][b] = "announced" /\ lib'[q][b] = lib[q][b]
      BY <2>1, <2>2, <2>4, ZenonT(120)
    <3> QED
      BY <1>2, <1>3, <3>1, SMTT(90)
  <2> QED
    BY <1>1, <2>3, <2>4, ZenonT(120) DEF ScopeInv
<1>4. ASSUME NEW l \in Libs, on_uprobe_mmap(p, a, l) PROVE ScopeInv'
  <2> DEFINE e == [type |-> "MAP", pid |-> p, addr |-> a, lib |-> l]
             s == IF ~Hooked(p) THEN "unhooked"
                  ELSE IF Len(ring) >= RingCap THEN "dropped" ELSE "announced"
  <2>1. /\ lib' = [lib EXCEPT ![p][a] = l] /\ source' = [source EXCEPT ![p][a] = s]
        /\ IF Hooked(p) THEN Emit(e) ELSE UNCHANGED <<ring, dropped>>
    BY <1>4, ZenonT(120) DEF on_uprobe_mmap
  <2>2. /\ e \in Event /\ e.type = "MAP" /\ e.lib = l /\ e.pid = p /\ e.addr = a
        /\ s \in Sources
        /\ s = "announced" => Hooked(p) /\ ~(Len(ring) >= RingCap)
    BY ZenonT(120) DEF Event, Sources
  <2> HIDE DEF e, s
  <2>3. /\ \A i \in DOMAIN ring : i \in DOMAIN ring' /\ ring'[i] = ring[i]
        /\ s = "announced" => \E i \in DOMAIN ring' : ring'[i] = e
    BY <1>1, <2>1, <2>2, EmitKeeps, ZenonT(120) DEF ArmInv
  <2>4. s = "announced" /\ l \in ScopeLibs => Pending(p, a, ScopeLibs)'
    BY <2>2, <2>3, ZenonT(120) DEF Pending
  <2> QED
    BY <1>3, <2>1, <2>2, <2>3, <2>4, ZenonT(120)
<1>5. CASE on_uprobe_munmap(p, a)
  <2> DEFINE e == [type |-> "UNMAP", pid |-> p, addr |-> a]
  <2>1. e \in Event /\ "unmapped" \in Sources /\ "unmapped" # "announced"
    BY ZenonT(120) DEF Event, Sources
  <2>2. /\ lib' = [lib EXCEPT ![p][a] = None] /\ source' = [source EXCEPT ![p][a] = "unmapped"]
        /\ Emit(e) \/ UNCHANGED <<ring, dropped>>
    BY <1>5, ZenonT(120) DEF on_uprobe_munmap
  <2> HIDE DEF e
  <2>3. \A i \in DOMAIN ring : i \in DOMAIN ring' /\ ring'[i] = ring[i]
    BY <1>1, <2>1, <2>2, EmitKeeps, ZenonT(120) DEF ArmInv
  <2> QED
    BY <1>3, <2>1, <2>2, <2>3, ZenonT(120)
<1>6. CASE on_svc_enter(p, a)
  <2> DEFINE e == [type |-> "SYSCALL", pid |-> p, addr |-> a]
  <2>1. e \in Event
    BY Zenon DEF Event
  <2>2. UNCHANGED <<lib, source>> /\ (Emit(e) \/ UNCHANGED <<ring, dropped>>)
    BY <1>6, ZenonT(120) DEF on_svc_enter
  <2> HIDE DEF e
  <2>3. \A i \in DOMAIN ring : i \in DOMAIN ring' /\ ring'[i] = ring[i]
    BY <1>1, <2>1, <2>2, EmitKeeps, ZenonT(120) DEF ArmInv
  <2> QED
    BY <1>1, <1>2, <2>2, <2>3, ZenonT(120) DEF ScopeInv
<1> QED
  BY <1>4, <1>5, <1>6, ZenonT(120)

(* What a process inherits is not announced, whether it is forked or       *)
(* launched.                                                               *)
LEMMA InheritScopeInv ==
    ASSUME ArmInv, RangeInv, ScopeInv, NEW p \in Pids, NEW m \in Mappings, Inherit(p, m),
           UNCHANGED <<ring, scope, line>>, pc \in {"seed", "scope"} => pc' = pc
    PROVE  ScopeInv'
<1>1. /\ lib \in [Pids -> Mappings] /\ source \in [Pids -> [Addrs -> Sources]]
  BY ZenonT(120) DEF ArmInv, ArmTyped, RangeInv
<1>2. /\ \A b \in Addrs : source'[p][b] # "announced"
      /\ \A q \in Pids : q # p => source'[q] = source[q] /\ lib'[q] = lib[q]
  BY <1>1, SMTT(90) DEF Inherit
<1>3. ASSUME NEW q \in Pids, NEW b \in Addrs PROVE Scoped(q, b)'
  <2>1. source'[q][b] = "announced" => source[q][b] = "announced" /\ lib'[q][b] = lib[q][b]
    BY <1>2, ZenonT(120)
  <2>2. /\ Pending(q, b, ScopeLibs) => Pending(q, b, ScopeLibs)'
        /\ Scoped(q, b)
    BY ZenonT(120) DEF Pending, ScopeInv
  <2>3. ScanAhead(q, b) => ScanAhead(q, b)'
    BY DEF ScanAhead
  <2> QED
    BY <2>1, <2>2, <2>3, ScopedStays, ZenonT(120)
<1> QED
  BY <1>3, ZenonT(120) DEF ScopeInv

(* The loader: the first scan leaves its lines to the second, which reads  *)
(* them all, and an event brings the scope its range as well.              *)
LEMMA LoaderScopeInv ==
    ASSUME ArmInv, RangeInv, TargetInv, ScopeInv,
           seed_lib_ranges_from_maps \/ seed_scope_ranges_from_maps \/ ScanEnds \/ enqueue_event
    PROVE  ScopeInv'
<1>1. /\ Main \in Pids /\ lib' = lib /\ source \in [Pids -> [Addrs -> Sources]]
      /\ ArmTyped /\ RangesDistinct /\ Len(scope) <= RangeCap
      /\ \A q \in Pids, b \in Addrs : Scoped(q, b)
  BY PidsAssumption, ZenonT(120) DEF ArmInv, RangeInv, ScopeInv, seed_lib_ranges_from_maps,
        seed_scope_ranges_from_maps, ScanEnds, enqueue_event
<1>2. /\ Cardinality(Addrs) \in Nat /\ Addrs = 1..Cardinality(Addrs)
      /\ line \in 1..(Cardinality(Addrs) + 1)
  BY LibAssumption, FS_CardinalityType, SMTT(90) DEF TargetInv
<1>3. CASE seed_lib_ranges_from_maps
  <2> DEFINE s == IF Refused(Main, line) THEN "full" ELSE "announced"
  <2>1. /\ line \in Addrs /\ pc = "seed" /\ UNCHANGED <<pc, ring, scope>>
        /\ source' = [source EXCEPT ![Main][line] = s] \/ UNCHANGED source
    BY <1>3, ZenonT(120) DEF seed_lib_ranges_from_maps, ReadLine
  <2>2. s \in Sources
    BY SMTT(90) DEF Sources
  <2> HIDE DEF s
  <2>3. \A q \in Pids, b \in Addrs : q = Main \/ source'[q][b] = source[q][b]
    BY <1>1, <2>1, <2>2, UpdateAt, ZenonT(120)
  <2>4. ASSUME NEW q \in Pids, NEW b \in Addrs PROVE Scoped(q, b)'
    <3>1. CASE q = Main
      BY <2>1, <3>1, ZenonT(120) DEF Scoped, ScanAhead
    <3>2. CASE q # Main
      <4>1. /\ source'[q][b] = source[q][b] /\ lib'[q][b] = lib[q][b] /\ ~ScanAhead(q, b)
            /\ Pending(q, b, ScopeLibs) => Pending(q, b, ScopeLibs)'
        BY <1>1, <2>1, <2>3, <3>2, ZenonT(120) DEF ScanAhead, Pending
      <4> QED
        BY <1>1, <2>1, <4>1, ScopedStays, ZenonT(120)
    <3> QED
      BY <3>1, <3>2, SMTT(90)
  <2> QED
    BY <1>1, <2>1, <2>4, ZenonT(120) DEF ScopeInv
<1>4. CASE seed_scope_ranges_from_maps
  <2>1. /\ line \in Addrs /\ pc = "scope" /\ line' = line + 1 /\ UNCHANGED <<pc, ring, source>>
        /\ lib[Main][line] \in ScopeLibs => push_scope_range(line)
        /\ push_scope_range(line) \/ UNCHANGED scope
    BY <1>4, ZenonT(120) DEF seed_scope_ranges_from_maps
  <2>2. /\ Len(scope') <= RangeCap
        /\ \A b \in Range(scope) : b \in Range(scope')
        /\ Len(scope) = RangeCap => Len(scope') = RangeCap
        /\ lib[Main][line] \in ScopeLibs => line \in Range(scope') \/ Len(scope') = RangeCap
    BY <1>1, <2>1, PushScopeKeeps, ZenonT(120)
  <2>3. ASSUME NEW q \in Pids, NEW b \in Addrs PROVE Scoped(q, b)'
    <3>1. ScanAhead(q, b) => ScanAhead(q, b)' \/ (q = Main /\ b = line)
      BY <1>2, <2>1, SMTT(90) DEF ScanAhead
    <3>2. ScanAhead(q, b) /\ lib[q][b] \in ScopeLibs =>
              ScanAhead(q, b)' \/ b \in Range(scope') \/ Len(scope') = RangeCap
      BY <2>2, <3>1, ZenonT(120)
    <3>3. /\ source'[q][b] = source[q][b] /\ lib'[q][b] = lib[q][b] /\ Scoped(q, b)
          /\ Pending(q, b, ScopeLibs) => Pending(q, b, ScopeLibs)'
      BY <1>1, <2>1, ZenonT(120) DEF Pending
    <3> QED
      BY <2>2, <3>2, <3>3, ScopedStays, ZenonT(120)
  <2> QED
    BY <2>2, <2>3, ZenonT(120) DEF ScopeInv
<1>5. CASE ScanEnds
  <2>1. /\ pc \in {"seed", "scope"} /\ line \notin Addrs /\ line' = 1
        /\ pc' = IF pc = "seed" THEN "scope" ELSE IF mode.pid THEN "attach" ELSE "run"
        /\ UNCHANGED <<ring, scope, source>>
    BY <1>5, ZenonT(120) DEF ScanEnds
  <2>2. ASSUME NEW q \in Pids, NEW b \in Addrs PROVE Scoped(q, b)'
    <3>1. ScanAhead(q, b) => ScanAhead(q, b)'
      BY <1>2, <2>1, SMTT(90) DEF ScanAhead
    <3>2. /\ source'[q][b] = source[q][b] /\ lib'[q][b] = lib[q][b] /\ Scoped(q, b)
          /\ Pending(q, b, ScopeLibs) => Pending(q, b, ScopeLibs)'
      BY <1>1, <2>1, ZenonT(120) DEF Pending
    <3> QED
      BY <2>1, <3>1, <3>2, ScopedStays, ZenonT(120)
  <2> QED
    BY <1>1, <2>1, <2>2, ZenonT(120) DEF ScopeInv
<1>6. CASE enqueue_event
  <2> DEFINE e == Head(ring)
             s == IF source[e.pid][e.addr] = "announced" /\ Refused(e.pid, e.addr)
                  THEN "full" ELSE source[e.pid][e.addr]
  <2>1. /\ ring # <<>> /\ ring' = Tail(ring) /\ UNCHANGED <<pc, line>>
        /\ Told(e.pid, e.addr) \/ UNCHANGED source
        /\ e.type = "MAP" /\ e.lib \in ScopeLibs => push_scope_range(e.addr)
        /\ push_scope_range(e.addr) \/ UNCHANGED scope
    BY <1>6, ZenonT(120) DEF enqueue_event
  <2>2. e.pid \in Pids /\ e.addr \in Addrs
    BY <1>1, <2>1, TailFacts, SMTT(90) DEF Event
  <2>3. Told(e.pid, e.addr) => source' = [source EXCEPT ![e.pid][e.addr] = s]
    BY <1>1, <2>2, SMTT(90) DEF Told
  <2>4. s \in Sources /\ (s = "announced" => s = source[e.pid][e.addr])
    BY <1>1, <2>2, SMTT(90) DEF Sources
  <2>5. ASSUME NEW q \in Pids, NEW b \in Addrs, Pending(q, b, ScopeLibs)
        PROVE  \/ Pending(q, b, ScopeLibs)'
               \/ e.type = "MAP" /\ e.lib \in ScopeLibs /\ q = e.pid /\ b = e.addr
    BY <1>1, <2>1, <2>5, TailPending, SMTT(90)
  <2> HIDE DEF e, s
  <2>6. ASSUME NEW q \in Pids, NEW b \in Addrs, source'[q][b] = "announced"
        PROVE  source[q][b] = "announced"
    <3>1. CASE source' = [source EXCEPT ![e.pid][e.addr] = s]
      <4>1. /\ source'[e.pid][e.addr] = s
            /\ (q = e.pid /\ b = e.addr) \/ source'[q][b] = source[q][b]
        BY <1>1, <2>2, <2>4, <3>1, UpdateAt, ZenonT(120)
      <4> QED
        BY <2>4, <2>6, <4>1, ZenonT(120)
    <3>2. CASE source' = source
      BY <2>6, <3>2, ZenonT(120)
    <3> QED
      BY <2>1, <2>3, <3>1, <3>2, ZenonT(120)
  <2>7. /\ Len(scope') <= RangeCap
        /\ \A b \in Range(scope) : b \in Range(scope')
        /\ Len(scope) = RangeCap => Len(scope') = RangeCap
        /\ e.type = "MAP" /\ e.lib \in ScopeLibs => e.addr \in Range(scope') \/ Len(scope') = RangeCap
    BY <1>1, <2>1, <2>2, PushScopeKeeps, ZenonT(120)
  <2>8. ASSUME NEW q \in Pids, NEW b \in Addrs PROVE Scoped(q, b)'
    <3>1. /\ source'[q][b] = "announced" => source[q][b] = "announced" /\ lib'[q][b] = lib[q][b]
          /\ ScanAhead(q, b) => ScanAhead(q, b)'
          /\ Scoped(q, b)
      BY <1>1, <2>1, <2>6, ZenonT(120) DEF ScanAhead
    <3>2. Pending(q, b, ScopeLibs) =>
              Pending(q, b, ScopeLibs)' \/ b \in Range(scope') \/ Len(scope') = RangeCap
      BY <2>5, <2>7, ZenonT(120)
    <3> QED
      BY <2>7, <3>1, <3>2, ScopedStays, ZenonT(120)
  <2> QED
    BY <2>7, <2>8, ZenonT(120) DEF ScopeInv
<1> QED
  BY <1>3, <1>4, <1>5, <1>6, ZenonT(120)

FilterInv == GateInv /\ ArmInv /\ RangeInv /\ TargetInv /\ ScopeInv

(* The scope is empty and nothing is announced before start-up. *)
LEMMA FilterInitInv == Init => FilterInv
<1> SUFFICES ASSUME Init PROVE FilterInv
  OBVIOUS
<1>1. scope = <<>> /\ source = [p \in Pids |-> [a \in Addrs |->
                         IF lib[p][a] = None THEN "unmapped" ELSE "inherited"]]
  BY ZenonT(120) DEF Init
<1>2. ScopeInv
  BY <1>1, LibAssumption, SMTT(90) DEF ScopeInv, Scoped
<1> QED
  BY <1>2, GateInitInv, ArmInitInv, RangeInitInv, TargetInitInv, ZenonT(120) DEF FilterInv

(* Every step of the loader and of the traced system keeps what is known   *)
(* of the mappings, of the target and of the scope.                        *)
LEMMA FilterNextInv == FilterInv /\ [Next]_vars => FilterInv'
<1> SUFFICES ASSUME FilterInv, [Next]_vars PROVE FilterInv'
  OBVIOUS
<1>1. /\ GateInv /\ ArmInv /\ RangeInv /\ TargetInv /\ ScopeInv /\ ArmTyped
      /\ source \in [Pids -> [Addrs -> Sources]]
  BY Zenon DEF FilterInv, ArmInv, RangeInv
<1>2. GateInv' /\ ArmInv' /\ RangeInv'
  BY <1>1, GateNextInv, ArmNextInv, RangeNextInv, ZenonT(120)
<1>3. TargetInv'
  <2>1. CASE UNCHANGED vars
    <3>1. UNCHANGED <<mode, tgid, app, target_pids, ff, recycled, pc, line, attached, lib, source>>
      BY <2>1, ZenonT(120) DEF vars, gateVars, libVars
    <3> QED
      BY <1>1, <3>1, TargetStays, ZenonT(120)
  <2> QED
    BY <1>1, <2>1, LoaderTargetInv, TaskTargetInv, HookTargetInv, ZenonT(120) DEF Next, Target
<1>4. ScopeInv'
  <2>1. ZygoteMaps \subseteq Mappings /\ Main \in Pids
    BY LibAssumption, PidsAssumption, ZenonT(120) DEF Mappings
  <2>2. ASSUME NEW p \in Pids, NEW c \in Pids, ForkProcess(p, c) PROVE ScopeInv'
    <3>1. lib[p] \in Mappings
      BY <1>1, ZenonT(120) DEF ArmTyped
    <3> QED
      BY <1>1, <2>2, <3>1, InheritScopeInv, ZenonT(120) DEF ForkProcess
  <2>3. ASSUME NEW p \in Pids, NEW sameUid \in BOOLEAN, NEW m \in ZygoteMaps,
               SpawnProcess(p, sameUid, m)
        PROVE  ScopeInv'
    BY <1>1, <2>1, <2>3, InheritScopeInv, ZenonT(120) DEF SpawnProcess
  <2>4. ASSUME NEW m \in ZygoteMaps, Launch(m) PROVE ScopeInv'
    <3>1. pc = "launch" /\ Inherit(Main, m) /\ UNCHANGED <<ring, scope, line>>
      BY <2>4, ZenonT(120) DEF Launch
    <3>2. pc \notin {"seed", "scope"}
      BY <3>1
    <3> QED
      BY <1>1, <2>1, <3>1, <3>2, InheritScopeInv, ZenonT(120)
  <2>5. ASSUME UNCHANGED <<lib, source, ring, scope, line>>, pc \in {"seed", "scope"} => pc' = pc
        PROVE  ScopeInv'
    <3>1. ASSUME NEW q \in Pids, NEW b \in Addrs PROVE Scoped(q, b)'
      <4>1. /\ Scoped(q, b)
            /\ Pending(q, b, ScopeLibs) => Pending(q, b, ScopeLibs)'
        BY <1>1, <2>5, ZenonT(120) DEF ScopeInv, Pending
      <4>2. ScanAhead(q, b) => ScanAhead(q, b)'
        BY <2>5, SMTT(90) DEF ScanAhead
      <4> QED
        BY <2>5, <4>1, <4>2, ScopedStays, ZenonT(120)
    <3> QED
      BY <1>1, <2>5, <3>1, ZenonT(120) DEF ScopeInv
  <2>6. CASE \/ Install \/ Attach \/ Follow \/ UNCHANGED vars
             \/ \E p, c \in Pids : CloneThread(p, c)
             \/ \E t \in Pids : ExitTask(t)
    <3>1. /\ UNCHANGED <<lib, source, ring, scope, line>>
          /\ pc \in {"seed", "scope"} => pc' = pc
      BY <2>6, SMTT(90) DEF Install, Attach, Follow, CloneThread, ExitTask, vars, libVars
    <3> QED
      BY <2>5, <3>1, ZenonT(120)
  <2> QED
    BY <1>1, <2>2, <2>3, <2>4, <2>6, HookScopeInv, LoaderScopeInv, ZenonT(120) DEF Next, Loader, Target
<1> QED
  BY <1>2, <1>3, <1>4, ZenonT(120) DEF FilterInv

(* However the scans, the attach, the launch, the MAP events and the       *)
(* target's own mappings interleave, a selected library of a traced        *)
(* process is armed once the loop runs or one of the named reasons says    *)
(* why not, and the ranges of a scope follow those of its library.         *)
THEOREM FilterIsComplete == Spec => []FilterComplete
<1>1. FilterInv => FilterComplete
  <2> SUFFICES ASSUME FilterInv, pc = "run" PROVE SelectedIsArmed /\ ScopeFollowsFilter
    BY Zenon DEF FilterComplete, SelectedIsArmed, ScopeFollowsFilter
  <2>1. /\ source \in [Pids -> [Addrs -> Sources]] /\ RangeInv /\ TargetInv /\ ScopeInv
    BY ZenonT(120) DEF FilterInv, RangeInv
  <2>2. SelectedIsArmed
    <3>1. SUFFICES ASSUME NEW p \in Processes, Gate(p), NEW a \in SelectedIn(p) \ Armed(p)
          PROVE  \/ \E i \in DOMAIN ring : /\ ring[i].type = "MAP" /\ ring[i].lib \in Selected
                                          /\ ring[i].pid = p /\ ring[i].addr = a
                 \/ source[p][a] = "dropped" /\ dropped
                 \/ /\ source[p][a] = "full"
                    /\ Len(lib_ranges[p]) = RangeCap \/ Cardinality(Entries) = MapCap
                 \/ source[p][a] = "inherited" /\ (p # Main \/ ~mode.seed \/ p \in recycled)
                 \/ source[p][a] = "unhooked" /\ (p # Main \/ mode.pid)
      BY ZenonT(120) DEF SelectedIsArmed
    <3>2. /\ p \in Pids /\ a \in Addrs /\ lib[p][a] \in Selected /\ lib[p][a] # None
          /\ a \notin Armed(p) /\ Accounted(p, a)
      BY <2>1, <3>1, LibAssumption, ZenonT(120) DEF Processes, SelectedIn, RangeInv
    <3>3. source[p][a] \in Sources
      BY <2>1, <3>2, ZenonT(120)
    <3>4. CASE source[p][a] = "inherited"
      <4>1. Begun /\ Past(a)
        BY Zenon DEF Begun, Past
      <4>2. ~(p = Main /\ mode.seed /\ Main \notin recycled)
        BY <2>1, <3>2, <3>4, <4>1, Zenon DEF TargetInv, TargetScanned
      <4> QED
        BY <3>4, <4>2, Zenon
    <3>5. CASE source[p][a] = "unhooked"
      <4>1. ASSUME p = Main, ~mode.pid PROVE FALSE
        <5>1. target_pids = {} /\ (Main \in app => \A b \in Addrs : source[Main][b] # "unhooked")
          BY <2>1, <4>1, Zenon DEF TargetInv, LaunchHooked
        <5>2. Main \in app
          BY <3>1, <4>1, <5>1, Zenon DEF Gate
        <5> QED
          BY <3>2, <3>5, <4>1, <5>1, <5>2, Zenon
      <4> QED
        BY <3>5, <4>1, Zenon
    <3> QED
      BY <3>2, <3>3, <3>4, <3>5, ZenonT(120) DEF Accounted, Pending, TableFull, Sources
  <2>3. ScopeFollowsFilter
    <3>1. ASSUME NEW p \in Processes, NEW a \in Addrs, lib[p][a] \in ScopeLibs, source[p][a] = "announced"
          PROVE  \/ a \in Range(scope) \/ Len(scope) = RangeCap
                 \/ \E i \in DOMAIN ring : ring[i].type = "MAP" /\ ring[i].addr = a
      <4>1. ~ScanAhead(p, a)
        BY DEF ScanAhead
      <4> QED
        BY <2>1, <3>1, <4>1, ZenonT(120) DEF ScopeInv, Scoped, Pending, Processes
    <3>2. \A p \in Processes : \A a \in Armed(p) : a \in Addrs
      BY DEF FilterInv, ArmInv, ArmTyped, Armed, Processes, Range
    <3> QED
      BY <3>1, <3>2, ZenonT(120) DEF ScopeFollowsFilter
  <2> QED
    BY <2>2, <2>3, SMTT(90)
<1> QED
  BY <1>1, FilterInitInv, FilterNextInv, PTL DEF Spec
=============================================================================
