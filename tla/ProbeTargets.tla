---------------------------- MODULE ProbeTargets -----------------------------
(***************************************************************************)
(* How the engines funcs and correlate put probes on the functions named   *)
(* by -e, and how the address of a probed call is turned back into the     *)
(* function: the shared target registry and its address cache.             *)
(*                                                                         *)
(* A library occupies one page of a process.  A function of it is its      *)
(* offset, which is also the low bits of its run-time address.             *)
(***************************************************************************)
EXTENDS Integers, Sequences, FiniteSets, SequencesExt

CONSTANTS
  NPages,       \* pages of a process
  Offsets,      \* [libraries -> offsets of their functions named by a spec]
  RegistryCap,  \* TARGET_REGISTRY_CAP
  RingCap,      \* events the ring holds
  Modes,        \* subset of {"funcs_p", "funcs_P", "corr_p", "corr_P"}
  MaxOps,       \* bound: mappings, unmappings and forks
  MaxCalls      \* bound: calls of probed functions

VARIABLES
  mode,     \* engine, and -p or -P
  targets,  \* processes that pass the gate
  pc,       \* loader: "hooks", "wait", "scan", "add", "stored", "attach", "poll"
  space,    \* space[p][page]: the library there, or Free
  ring,     \* map events
  scanning, \* processes still to be scanned, the current one first
  page,     \* next line of the scan
  work,     \* targets of the library in hand, and the process it was found in
  slots, count, \* target_registry and target_registry_count
  links,    \* probes attached, as <<library, offset, process or 0 for all>>
  queue,    \* call events for the worker
  hash,     \* pt_hash: [addresses looked up -> slot]
  out,      \* history: the last call looked up and what was found
  ops, calls,
  missed,   \* history: mappings whose event was lost or not resolved
  failed,   \* probes whose attach failed
  held      \* history: functions that were ever at an address

vars == <<mode, targets, pc, space, ring, scanning, page, work, slots, count, links,
          queue, hash, out, ops, calls, missed, failed, held>>
app == <<targets, space, ops, held>>
loader == <<mode, pc, scanning, page, work, slots, count, links, failed>>

Procs == 1..2
Pages == 1..NPages
LibNames == DOMAIN Offsets
Free == [lib |-> "", inst |-> 0, by |-> 0]
NoCall == [true |-> <<>>, got |-> <<>>, addr |-> <<0, 0>>]
Funcs == mode \in {"funcs_p", "funcs_P"}
Listed == mode \in {"funcs_p", "corr_p"}
Parent == 1
Child == 2

\* With -p the processes are given; with -P process 1 is the zygote, and the
\* app is its child.
Init ==
  /\ mode \in Modes
  /\ targets \in IF Listed THEN {{Parent}, Procs} ELSE {{}}
  /\ pc = "hooks"
  /\ space = [p \in Procs |-> [a \in Pages |-> Free]]
  /\ ring = <<>> /\ scanning = <<>> /\ page = 1 /\ work = <<>>
  /\ slots = <<>> /\ count = 0 /\ links = {} /\ queue = <<>>
  /\ hash = [a \in {} |-> 0] /\ out = NoCall
  /\ ops = 0 /\ calls = 0 /\ missed = {} /\ failed = {}
  /\ held = [a \in Pages |-> {}]

(***************************************************************************)
(* The target.                                                             *)
(***************************************************************************)
Alive(p) == p = Parent \/ p \in targets

\* Plausible bug: the hooks are attached after the scan.
Maps_HooksLate(p, a, l) ==
  /\ ops < MaxOps /\ Alive(p) /\ space[p][a] = Free
  /\ ops' = ops + 1
  /\ space' = [space EXCEPT ![p][a] = [lib |-> l, inst |-> ops + 1, by |-> p]]
  /\ held' = [held EXCEPT ![a] = @ \cup {l}]
  /\ IF Funcs /\ scanning = <<>> /\ pc # "hooks" /\ p \in targets /\ Len(ring) < RingCap
       THEN ring' = Append(ring, [pid |-> p, page |-> a, lib |-> l, inst |-> ops + 1])
       ELSE ring' = ring
  /\ UNCHANGED <<targets, queue, hash, out, calls, missed, loader>>

\* on_uprobe_mmap for an executable mapping; a full ring loses the event.
Maps(p, a, l) ==
  /\ ops < MaxOps /\ Alive(p) /\ space[p][a] = Free
  /\ ops' = ops + 1
  /\ space' = [space EXCEPT ![p][a] = [lib |-> l, inst |-> ops + 1, by |-> p]]
  /\ held' = [held EXCEPT ![a] = @ \cup {l}]
  /\ IF Funcs /\ pc # "hooks" /\ p \in targets
       THEN IF Len(ring) < RingCap
              THEN ring' = Append(ring, [pid |-> p, page |-> a, lib |-> l, inst |-> ops + 1])
                   /\ UNCHANGED missed
              ELSE ring' = ring /\ missed' = missed \cup {ops + 1}
       ELSE UNCHANGED <<ring, missed>>
  /\ UNCHANGED <<targets, queue, hash, out, calls, loader>>

Unmaps(p, a) ==
  /\ ops < MaxOps /\ space[p][a] # Free
  /\ ops' = ops + 1
  /\ space' = [space EXCEPT ![p][a] = Free]
  /\ UNCHANGED <<targets, held, ring, queue, hash, out, calls, missed, loader>>

\* The child starts with the parent's libraries.  It passes the gate because its
\* parent is followed, or, with -P, by its uid: it is launched after the setup.
Forks ==
  /\ ops < MaxOps /\ ~Alive(Child)
  /\ IF Listed THEN pc # "hooks" ELSE pc \in {"wait", "poll"}
  /\ ops' = ops + 1
  /\ targets' = targets \cup {Child}
  /\ space' = [space EXCEPT ![Child] = space[Parent]]
  /\ UNCHANGED <<held, ring, queue, hash, out, calls, missed, loader>>

Probed(p, l, o) == <<l, o, 0>> \in links \/ <<l, o, p>> \in links

\* A probed function is called; its event travels to whoever looks it up.
Calls(p, a, o) ==
  /\ calls < MaxCalls /\ p \in targets /\ space[p][a] # Free
  /\ o \in Offsets[space[p][a].lib] /\ Probed(p, space[p][a].lib, o)
  /\ calls' = calls + 1
  /\ queue' = Append(queue, [pid |-> p, addr |-> <<a, o>>, lib |-> space[p][a].lib])
  /\ UNCHANGED <<ring, hash, out, missed, loader, app>>

(***************************************************************************)
(* The loader.                                                             *)
(***************************************************************************)
\* The map hooks are attached first, then the processes are scanned: those of
\* -p, the zygote (funcs -P), or the app once a library has turned up
\* (correlate -P).
AttachHooks ==
  /\ pc = "hooks"
  /\ scanning' = CASE mode = "corr_P" -> <<Child>>
                   [] Listed -> SetToSeq(targets)
                   [] OTHER -> <<Parent>>
  /\ pc' = IF mode = "corr_P" THEN "wait" ELSE "scan"
  /\ UNCHANGED <<mode, page, work, slots, count, links, failed, ring, queue, hash, out,
                 calls, missed, app>>

\* wait_for_target_mapped: until one library of a spec is mapped, or two seconds
\* are over.
Wait ==
  /\ pc = "wait" /\ Alive(Child)
  /\ pc' = "scan"
  /\ UNCHANGED <<mode, scanning, page, work, slots, count, links, failed, ring, queue,
                 hash, out, calls, missed, app>>

\* The functions of library l, to be probed for who.
Work(l, who) ==
  LET os == SetToSeq(Offsets[l])
  IN [i \in 1..Len(os) |-> [lib |-> l, off |-> os[i], who |-> who]]

\* One line of /proc/pid/maps; after the last one the next process.
ScanLine ==
  /\ pc = "scan" /\ scanning # <<>>
  /\ LET p == Head(scanning) IN
       IF page \in Pages
         THEN /\ page' = page + 1
              /\ UNCHANGED scanning
              /\ IF space[p][page] # Free
                   THEN /\ work' = Work(space[p][page].lib,
                                        IF mode = "funcs_P" THEN 0 ELSE p)
                        /\ pc' = "add"
                   ELSE UNCHANGED <<work, pc>>
         ELSE page' = 1 /\ scanning' = Tail(scanning) /\ UNCHANGED <<work, pc>>
  /\ UNCHANGED <<mode, slots, count, links, failed, ring, queue, hash, out, calls,
                 missed, app>>

\* The scans are done: funcs starts its worker, both poll.
StartRun ==
  /\ pc = "scan" /\ scanning = <<>>
  /\ pc' = "poll"
  /\ UNCHANGED <<mode, scanning, page, work, slots, count, links, failed, ring, queue,
                 hash, out, calls, missed, app>>

\* A map event, funcs only: it applies the specs to the path found now at the address, for
\* all processes; a mapping that is gone is only found through the path cache.
HandleMap ==
  /\ pc = "poll" /\ ring # <<>>
  /\ ring' = Tail(ring)
  /\ LET e == Head(ring)
         here == space[e.pid][e.page]
     IN \E l \in IF here # Free THEN {here.lib} ELSE {e.lib, ""} :
          IF l = ""
            THEN missed' = missed \cup {e.inst} /\ UNCHANGED <<work, pc>>
            ELSE work' = Work(l, 0) /\ pc' = "add" /\ UNCHANGED missed
  /\ UNCHANGED <<mode, scanning, page, slots, count, links, failed, queue, hash, out,
                 calls, app>>

Registered(l, o) == \E i \in 1..count : slots[i].lib = l /\ slots[i].off = o
Back == IF scanning = <<>> THEN "poll" ELSE "scan"

\* attach_one_custom_target of funcs: a function that is registered already is
\* left alone, whichever process it was probed for; a full registry ends the loop.
AddTarget ==
  /\ pc = "add" /\ Funcs
  /\ \/ /\ work = <<>> \/ count >= RegistryCap
        /\ work' = <<>> /\ pc' = Back
        /\ UNCHANGED slots
     \/ /\ work # <<>> /\ count < RegistryCap
        /\ IF Registered(Head(work).lib, Head(work).off)
             THEN work' = Tail(work) /\ UNCHANGED <<slots, pc>>
             ELSE /\ slots' = Append(slots, [lib |-> Head(work).lib, off |-> Head(work).off])
                  /\ pc' = "stored"
                  /\ UNCHANGED work
  /\ UNCHANGED <<mode, scanning, page, count, links, failed, ring, queue, hash, out,
                 calls, missed, app>>

\* The count follows the entry; the worker reads both without the lock's help.
CountTarget ==
  /\ pc = "stored"
  /\ count' = count + 1
  /\ pc' = "attach"
  /\ UNCHANGED <<mode, scanning, page, work, slots, links, failed, ring, queue, hash,
                 out, calls, missed, app>>

\* The probe is attached, or not: the entry stays either way.
AttachTarget ==
  /\ pc = "attach"
  /\ LET w == Head(work) IN
       \/ links' = links \cup {<<w.lib, w.off, w.who>>} /\ UNCHANGED failed
       \/ failed' = failed \cup {<<w.lib, w.off, w.who>>} /\ UNCHANGED links
  /\ work' = Tail(work) /\ pc' = "add"
  /\ UNCHANGED <<mode, scanning, page, slots, count, ring, queue, hash, out, calls,
                 missed, app>>

\* attach_custom_spec_target of correlate: what was tried for this process is left
\* alone; attach for this process, then register under the lock if there is room.
Tried(w) == <<w.lib, w.off, w.who>> \in links \cup failed

AddCorrelate ==
  /\ pc = "add" /\ ~Funcs
  /\ \/ work = <<>> /\ pc' = "scan" /\ UNCHANGED <<work, slots, count, links, failed>>
     \/ /\ work # <<>> /\ Tried(Head(work))
        /\ work' = Tail(work) /\ UNCHANGED <<pc, slots, count, links, failed>>
     \/ /\ work # <<>> /\ ~Tried(Head(work))
        /\ LET w == Head(work) IN
             \/ /\ links' = links \cup {<<w.lib, w.off, w.who>>}
                /\ slots' = IF count < RegistryCap
                              THEN Append(slots, [lib |-> w.lib, off |-> w.off]) ELSE slots
                /\ count' = IF count < RegistryCap THEN count + 1 ELSE count
                /\ UNCHANGED failed
             \/ /\ failed' = failed \cup {<<w.lib, w.off, w.who>>}
                /\ UNCHANGED <<links, slots, count>>
        /\ work' = Tail(work) /\ UNCHANGED pc
  /\ UNCHANGED <<mode, scanning, page, ring, queue, hash, out, calls, missed, app>>

(***************************************************************************)
(* find_target_by_entry_addr.                                              *)
(***************************************************************************)
Entry(i) == <<slots[i].lib, slots[i].off>>

\* The maps of the process as they are now: the library at the page.
ByMaps(e) ==
  {i \in 1..count : /\ slots[i].lib = space[e.pid][e.addr[1]].lib
                    /\ slots[i].off = e.addr[2]}

\* The fallback on the low bits, when all entries that have them are one function.
ByLowBits(e) ==
  LET c == {i \in 1..count : slots[i].off = e.addr[2]}
  IN IF \A i, j \in c : Entry(i) = Entry(j) THEN c ELSE {}

First(S) == CHOOSE i \in S : \A j \in S : i <= j

\* The worker of funcs, started when the scans are done, or the poll loop of
\* correlate looks a call up.
Lookup ==
  /\ queue # <<>> /\ scanning = <<>> /\ pc # "scan"
  /\ LET e == Head(queue)
         found == IF e.addr \in DOMAIN hash THEN {hash[e.addr]}
                  ELSE IF ByMaps(e) # {} THEN ByMaps(e) ELSE ByLowBits(e)
     IN IF found = {}
          THEN /\ out' = [true |-> <<e.lib, e.addr[2]>>, got |-> <<>>, addr |-> e.addr]
               /\ UNCHANGED hash
          ELSE /\ out' = [true |-> <<e.lib, e.addr[2]>>, got |-> Entry(First(found)),
                          addr |-> e.addr]
               /\ hash' = [a \in DOMAIN hash \cup {e.addr} |->
                             IF a = e.addr THEN First(found) ELSE hash[a]]
  /\ queue' = Tail(queue)
  /\ UNCHANGED <<ring, calls, missed, loader, app>>

Next ==
  \/ \E p \in Procs, a \in Pages : Unmaps(p, a) \/ \E l \in LibNames : Maps(p, a, l)
  \/ \E p \in Procs, a \in Pages : \E o \in UNION {Offsets[l] : l \in LibNames} : Calls(p, a, o)
  \/ Forks \/ AttachHooks \/ Wait \/ ScanLine \/ StartRun \/ HandleMap \/ AddTarget
  \/ CountTarget \/ AttachTarget \/ AddCorrelate \/ Lookup

Spec == Init /\ [][Next]_vars

(***************************************************************************)
(* Properties.                                                             *)
(***************************************************************************)

\* The registry and the ring stay within their capacities, and the worker never
\* reads an entry that is not there: the count is behind the entry.
TypeOK ==
  /\ count <= Len(slots) /\ Len(slots) <= RegistryCap
  /\ Len(ring) <= RingCap
  /\ \A a \in DOMAIN hash : hash[a] \in 1..count
  /\ work # <<>> => pc \in {"add", "stored", "attach"}

\* A probed call is named after the function that was called, by way of the cache,
\* the maps or the fallback on the low address bits, as long as its address has
\* never belonged to a function of another library.
AddressResolved ==
  (/\ out # NoCall
   /\ \A l \in held[out.addr[1]] : out.addr[2] \in Offsets[l] => l = out.true[1]
   /\ Funcs \/ count < RegistryCap) => out.got \in {<<>>, out.true}

\* funcs leaves no gap between the scans and the map events: when it has handled
\* all events, every function of a spec in a library mapped by a target is
\* registered, unless the mapping's event was lost, the registry is full, or the
\* process inherited the mapping from its parent.
NoGap ==
  (Funcs /\ pc = "poll" /\ ring = <<>> /\ count < RegistryCap) =>
    \A p \in targets, a \in Pages :
      LET s == space[p][a] IN
      (s # Free /\ s.inst \notin missed /\ s.by = p) =>
        \A o \in Offsets[s.lib] : Registered(s.lib, o)

\* A registered function is probed, for a process at least, unless the attach
\* failed when it was first seen; it is not tried again.
RegisteredIsProbed ==
  \A i \in 1..count :
    pc \in {"scan", "poll"} =>
      (\E p \in Procs \cup {0} : <<slots[i].lib, slots[i].off, p>> \in links)
      \/ (\E p \in Procs \cup {0} : <<slots[i].lib, slots[i].off, p>> \in failed)

==============================================================================
