--------------------------- MODULE FilelessDetect ---------------------------
(***************************************************************************)
(* The fileless-detect analyzer: two probes on do_mmap put anonymous       *)
(* executable mappings into pending_map, a probe on prctl takes out those  *)
(* that ART names "dalvik...", and a polling thread reports what is still  *)
(* there when its grace period is over (modules/fileless_detect.bpf.c,     *)
(* modules/fileless_detect.c).                                             *)
(*                                                                         *)
(* The mappings made once the return probe is attached are numbered in the *)
(* order they are made; `made' is their history.  An address is shared by  *)
(* all mappings that lie there one after the other, and so is its entry in *)
(* pending_map.                                                            *)
(***************************************************************************)
EXTENDS Naturals, Sequences, FiniteSets, FiniteSetsExt

CONSTANTS Threads,      \* threads of one target process
          NKeys,        \* addresses: 1 .. NKeys, in pending_map's own order
          Grace,        \* FILELESS_DETECT_GRACE_NS
          ScratchCap,   \* max_entries of entry_scratch (256)
          PendingCap,   \* max_entries of pending_map (1024)
          MaxMaps,      \* bound: mappings of a run
          MaxTime       \* bound: the clock

ASSUME FilelessConstants ==
    /\ {NKeys, Grace, ScratchCap, PendingCap, MaxMaps, MaxTime} \subseteq Nat
    /\ IsFiniteSet(Threads)

Keys == 1 .. NKeys
Ids == 1 .. MaxMaps
Kinds == {"anon_exec", "file_exec", "data"}
Never == MaxTime + 1

VARIABLES clock,
          hooks,        \* probes attached, in order: do_mmap, its return, prctl
          call,         \* per thread: the mapping it is asking do_mmap for, or "none"
          entry_scratch,\* per thread: "none", "anon" or "file"
          pending_map,  \* per address: the candidate there, 0 for none
          at,           \* the polling thread: where it is
          key, next_key, val,  \* its cursor, the key it looks at, and the value it read
          g_poll_stop,
          made,         \* history: the mappings
          alerted,      \* history: per mapping, alerts (counted up to 2)
          unseen, left, \* history: threads whose call began before the first probe was attached,
                        \* and threads whose call ended before the second was, leaving an entry
          raced,        \* history: candidates deleted in the place of the one reported
          full          \* history: a map was full

pollVars == <<at, key, next_key, val>>
vars == <<clock, hooks, call, entry_scratch, pending_map, pollVars, g_poll_stop,
          made, alerted, unseen, left, raced, full>>

Init ==
    /\ clock = 0 /\ hooks = 0
    /\ call = [t \in Threads |-> "none"]
    /\ entry_scratch = [t \in Threads |-> "none"]
    /\ pending_map = [a \in Keys |-> 0]
    /\ at = "off" /\ key = 0 /\ next_key = 0 /\ val = 0
    /\ g_poll_stop = FALSE
    /\ made = <<>> /\ alerted = [id \in Ids |-> 0]
    /\ unseen = {} /\ left = {} /\ raced = {} /\ full = FALSE

-----------------------------------------------------------------------------
(* The target and the probes *)

(* on_do_mmap_entry: only executable mappings leave a scratch entry. *)
on_do_mmap_entry(t, kind) ==
    IF kind = "data" \/ hooks < 1
    THEN UNCHANGED <<entry_scratch, full>>
    ELSE IF entry_scratch[t] = "none"
            /\ Cardinality({u \in Threads : entry_scratch[u] # "none"}) >= ScratchCap
         THEN full' = TRUE /\ UNCHANGED entry_scratch
         ELSE /\ entry_scratch' = [entry_scratch EXCEPT ![t] =
                                      IF kind = "anon_exec" THEN "anon" ELSE "file"]
              /\ UNCHANGED full

MmapEnters(t, kind) ==
    /\ call[t] = "none" /\ Len(made) + Cardinality({u \in Threads : call[u] # "none"}) < MaxMaps
    /\ call' = [call EXCEPT ![t] = kind]
    /\ on_do_mmap_entry(t, kind)
    /\ unseen' = IF hooks < 1 THEN unseen \cup {t} ELSE unseen
    /\ UNCHANGED <<clock, hooks, pending_map, pollVars, g_poll_stop, made, alerted, left, raced>>

(* Plausible bug: a call that fails leaves its scratch entry. *)
on_do_mmap_exit_KeepScratch(t, a, id) ==
    IF hooks < 2 \/ entry_scratch[t] = "none"
    THEN UNCHANGED <<entry_scratch, pending_map, full>>
    ELSE /\ entry_scratch' = IF a # 0 THEN [entry_scratch EXCEPT ![t] = "none"] ELSE entry_scratch
         /\ IF entry_scratch[t] = "anon" /\ a # 0
            THEN pending_map' = [pending_map EXCEPT ![a] = id]
            ELSE UNCHANGED pending_map
         /\ UNCHANGED full

(* on_do_mmap_exit of thread t, whose call returned address a, or 0 for an *)
(* error: the scratch entry is taken out; an anonymous one makes mapping   *)
(* id a candidate, in the place of an older one at the same address.       *)
on_do_mmap_exit(t, a, id) ==
    IF hooks < 2 \/ entry_scratch[t] = "none"
    THEN UNCHANGED <<entry_scratch, pending_map, full>>
    ELSE /\ entry_scratch' = [entry_scratch EXCEPT ![t] = "none"]
         /\ IF entry_scratch[t] # "anon" \/ a = 0
            THEN UNCHANGED <<pending_map, full>>
            ELSE IF pending_map[a] = 0
                    /\ Cardinality({b \in Keys : pending_map[b] # 0}) >= PendingCap
                 THEN full' = TRUE /\ UNCHANGED pending_map
                 ELSE pending_map' = [pending_map EXCEPT ![a] = id] /\ UNCHANGED full

(* do_mmap returns: with a mapping at address a (a fixed address, or one   *)
(* that was unmapped before, may be given again), or with an error.        *)
(* `seen': both probes saw the call; `stale': an entry may have been left. *)
MmapReturns(t, a) ==
    /\ call[t] # "none" /\ clock + Grace <= MaxTime
    /\ made' = IF a = 0 \/ hooks < 2 THEN made
               ELSE Append(made, [key |-> a, kind |-> call[t], ts |-> clock, named |-> Never,
                                  seen |-> t \notin unseen, stale |-> t \in left])
    /\ on_do_mmap_exit(t, a, Len(made) + 1)
    /\ left' = IF hooks = 1 /\ entry_scratch[t] # "none" THEN left \cup {t} ELSE left
    /\ unseen' = unseen \ {t}
    /\ call' = [call EXCEPT ![t] = "none"]
    /\ UNCHANGED <<clock, hooks, pollVars, g_poll_stop, alerted, raced>>

(* Mapping id still lies at its address: no later one does. *)
Current(id) == \A j \in DOMAIN made : j > id => made[j].key # made[id].key

(* Plausible bug: the name is not compared. *)
on_prctl_AnyName(a, dalvik) == pending_map' = [pending_map EXCEPT ![a] = 0]

on_prctl(a, dalvik) ==
    IF hooks >= 3 /\ dalvik THEN pending_map' = [pending_map EXCEPT ![a] = 0]
                            ELSE UNCHANGED pending_map

(* The target names a mapping; only names of ART begin "dalvik". *)
Prctl(id, dalvik) ==
    /\ Current(id)
    /\ on_prctl(made[id].key, dalvik)
    /\ made' = IF hooks >= 3 /\ dalvik /\ made[id].named = Never
               THEN [made EXCEPT ![id].named = clock] ELSE made
    /\ UNCHANGED <<clock, hooks, call, entry_scratch, pollVars, g_poll_stop, alerted,
                   unseen, left, raced, full>>

-----------------------------------------------------------------------------
(* fileless_setup: the probes are attached one by one, and then the thread *)
(* is started; a target of -p runs meanwhile.                              *)
Attach ==
    /\ hooks < 3
    /\ hooks' = hooks + 1
    /\ at' = IF hooks = 2 THEN "top" ELSE at
    /\ UNCHANGED <<clock, call, entry_scratch, pending_map, key, next_key, val, g_poll_stop,
                   made, alerted, unseen, left, raced, full>>

(* fileless_poll_loop *)
pollRest == <<clock, hooks, call, entry_scratch, g_poll_stop, made, unseen, left, full>>

(* The stop flag is looked at before the sleep; a pass follows the sleep. *)
PollTop ==
    /\ at = "top"
    /\ at' = IF g_poll_stop THEN "done" ELSE "walk"
    /\ UNCHANGED <<pollRest, pending_map, key, next_key, val, alerted, raced>>

(* bpf_map_get_next_key: a key that is not in the map starts at the front. *)
Following(a) == {b \in Keys : pending_map[b] # 0 /\ b > a}
NextKeys == IF key # 0 /\ pending_map[key] # 0 THEN Following(key) ELSE Following(0)

(* Plausible bug: the end of the map ends the thread. *)
PollNextKey_Ends ==
    /\ at = "walk"
    /\ IF NextKeys = {} THEN at' = "done" /\ key' = 0 /\ UNCHANGED next_key
                        ELSE at' = "look" /\ next_key' = Min(NextKeys) /\ UNCHANGED key
    /\ UNCHANGED <<pollRest, pending_map, val, alerted, raced>>

PollNextKey ==
    /\ at = "walk"
    /\ IF NextKeys = {} THEN at' = "top" /\ key' = 0 /\ UNCHANGED next_key
                        ELSE at' = "look" /\ next_key' = Min(NextKeys) /\ UNCHANGED key
    /\ UNCHANGED <<pollRest, pending_map, val, alerted, raced>>

PollLook ==
    /\ at = "look"
    /\ LET v == pending_map[next_key]
       IN  IF v # 0 /\ clock - made[v].ts >= Grace
           THEN at' = "emit" /\ val' = v /\ UNCHANGED <<key, next_key>>
           ELSE at' = "walk" /\ key' = next_key /\ next_key' = 0 /\ UNCHANGED val
    /\ UNCHANGED <<pollRest, pending_map, alerted, raced>>

(* fileless_emit_one *)
PollEmit ==
    /\ at = "emit"
    /\ alerted' = [alerted EXCEPT ![val] = IF @ < 2 THEN @ + 1 ELSE @]
    /\ at' = "delete"
    /\ UNCHANGED <<pollRest, pending_map, key, next_key, val, raced>>

(* Plausible bug: what was reported is not deleted. *)
PollDelete_Skip ==
    /\ at = "delete"
    /\ key' = next_key /\ next_key' = 0 /\ val' = 0 /\ at' = "walk"
    /\ UNCHANGED <<pollRest, pending_map, alerted, raced>>

(* The entry goes by its key, whatever it holds by now; the walk restarts. *)
PollDelete ==
    /\ at = "delete"
    /\ raced' = IF pending_map[next_key] \in {0, val} THEN raced
                ELSE raced \cup {pending_map[next_key]}
    /\ pending_map' = [pending_map EXCEPT ![next_key] = 0]
    /\ key' = 0 /\ next_key' = 0 /\ val' = 0 /\ at' = "walk"
    /\ UNCHANGED <<pollRest, alerted>>

Poll == PollTop \/ PollNextKey \/ PollLook \/ PollEmit \/ PollDelete

(* fileless_teardown sets the flag and joins. *)
Stop ==
    /\ hooks = 3 /\ ~g_poll_stop
    /\ g_poll_stop' = TRUE
    /\ UNCHANGED <<clock, hooks, call, entry_scratch, pending_map, pollVars, made, alerted,
                   unseen, left, raced, full>>

Tick ==
    /\ clock < MaxTime
    /\ clock' = clock + 1
    /\ UNCHANGED <<hooks, call, entry_scratch, pending_map, pollVars, g_poll_stop, made,
                   alerted, unseen, left, raced, full>>

Next ==
    \/ \E t \in Threads : \/ \E kind \in Kinds : MmapEnters(t, kind)
                          \/ \E a \in Keys \cup {0} : MmapReturns(t, a)
    \/ \E id \in DOMAIN made, dalvik \in BOOLEAN : Prctl(id, dalvik)
    \/ Attach \/ Poll \/ Stop \/ Tick

(* The thread is scheduled and time passes. *)
Fairness == WF_vars(Poll) /\ WF_vars(Tick)

Spec == Init /\ [][Next]_vars /\ Fairness

-----------------------------------------------------------------------------
(* Properties *)

TypeOK ==
    /\ clock \in 0 .. MaxTime /\ hooks \in 0 .. 3
    /\ call \in [Threads -> Kinds \cup {"none"}]
    /\ entry_scratch \in [Threads -> {"none", "anon", "file"}]
    /\ pending_map \in [Keys -> 0 .. Len(made)]
    /\ at \in {"off", "top", "walk", "look", "emit", "delete", "done"}
    /\ key \in 0 .. NKeys /\ next_key \in 0 .. NKeys /\ val \in 0 .. Len(made)
    /\ Len(made) <= MaxMaps /\ alerted \in [Ids -> 0 .. 2]
    /\ g_poll_stop \in BOOLEAN /\ full \in BOOLEAN

(* An alert is about a mapping that was anonymous and executable, and that *)
(* ART had not named within the grace period, however the naming, a new    *)
(* mapping at the same address and the polling thread interleave.  The     *)
(* exception is a thread that was in do_mmap while setup had attached the  *)
(* entry probe and not yet the return probe: its scratch entry stays, and  *)
(* its next call, of any kind, takes it.                                   *)
AlertsGenuine ==
    \A id \in DOMAIN made :
        alerted[id] > 0 =>
            /\ made[id].kind = "anon_exec" \/ made[id].stale
            /\ clock >= made[id].ts + Grace
            /\ made[id].named >= made[id].ts + Grace

(* The walk restarts after every report, and a mapping is still reported   *)
(* at most once.                                                           *)
AlertedOnce == \A id \in Ids : alerted[id] <= 1

(* A candidate is never lost: a mapping both probes saw is reported or     *)
(* still pending unless ART named it, a later mapping took its address, a  *)
(* map was full, or the polling thread deleted it in the place of the one  *)
(* it had reported at that address.                                        *)
NoCandidateLost ==
    \A id \in DOMAIN made :
        made[id].kind = "anon_exec" /\ made[id].seen =>
            \/ alerted[id] > 0 \/ pending_map[made[id].key] = id
            \/ made[id].named # Never \/ ~Current(id)
            \/ full \/ id \in raced

(* The analyzer runs and candidate id waits for its decision. *)
Undecided(id) == at # "off" /\ ~g_poll_stop /\ \E a \in Keys : pending_map[a] = id

(* A candidate is eventually decided: reported, named, replaced, or the    *)
(* analyzer is told to stop.  The walk that restarts at the front after    *)
(* each report, and whenever the key it stands on is taken out, gets to    *)
(* every entry.                                                            *)
CandidatesDecided == \A id \in Ids : Undecided(id) ~> ~Undecided(id)
=============================================================================
