--------------------------- MODULE FilelessProofs ---------------------------
(***************************************************************************)
(* The fileless analyzer reports a mapping at most once, and only one that *)
(* stayed unnamed for the whole grace period, for every number of threads, *)
(* addresses and mappings, every grace period and every size of the maps.  *)
(***************************************************************************)
EXTENDS FilelessDetect, FiniteSetTheorems, SequenceTheorems,
        WellFoundedInduction, TLAPS

Mapping == [key : Keys, kind : Kinds, ts : Nat, named : Nat, seen : BOOLEAN, stale : BOOLEAN]

Calling == {u \in Threads : call[u] # "none"}

(* Every call in do_mmap still has room in the history. *)
Room == Len(made) + Cardinality(Calling) <= MaxMaps

(* What a scratch entry says of the call its thread is in: it belongs to   *)
(* that call, or it was left behind by an earlier one.                     *)
ScratchOwned ==
    /\ hooks = 0 => \A t \in Threads : entry_scratch[t] = "none"
    /\ \A t \in Threads :
          /\ entry_scratch[t] # "none" /\ call[t] = "none" => t \in left
          /\ entry_scratch[t] = "anon" /\ call[t] # "none" =>
                call[t] = "anon_exec" \/ t \in left

Suspect(id) == made[id].kind = "anon_exec" \/ made[id].stale

(* A candidate in pending_map lies at the address it is filed under, was   *)
(* not named yet, and was not reported, unless the thread that reported it *)
(* is about to delete it.                                                  *)
PendingFresh ==
    \A a \in Keys : pending_map[a] # 0 =>
        /\ made[pending_map[a]].key = a /\ Suspect(pending_map[a])
        /\ made[pending_map[a]].named = Never
        /\ made[pending_map[a]].ts + Grace <= MaxTime
        /\ alerted[pending_map[a]] = 0 \/ (at = "delete" /\ val = pending_map[a])

(* What the polling thread holds in its hands between the lookup and the   *)
(* deletion; pending_map may have moved on.                                *)
InHand ==
    /\ at \in {"look", "emit", "delete"} => next_key \in Keys
    /\ at \in {"emit", "delete"} =>
          /\ val \in DOMAIN made /\ made[val].key = next_key /\ Suspect(val)
          /\ clock >= made[val].ts + Grace
          /\ made[val].named >= made[val].ts + Grace
          /\ alerted[val] = IF at = "emit" THEN 0 ELSE 1

(* The thread is started when all three probes are attached. *)
Started == hooks < 3 => at = "off"

NoneBeyond == \A id \in Ids : id > Len(made) => alerted[id] = 0

Inv ==
    /\ TypeOK /\ made \in Seq(Mapping) /\ Room /\ ScratchOwned /\ Started
    /\ PendingFresh /\ InHand /\ NoneBeyond /\ AlertedOnce /\ AlertsGenuine

-----------------------------------------------------------------------------
(* The bounds are numbers, and Never lies beyond the clock. *)
LEMMA ConstantsNat ==
    /\ NKeys \in Nat /\ Grace \in Nat /\ MaxMaps \in Nat /\ MaxTime \in Nat
    /\ Never \in Nat /\ Never > MaxTime
  BY FilelessConstants DEF Never

(* The key bpf_map_get_next_key returns is one of those that follow. *)
LEMMA MinIsMember ==
    ASSUME NEW S \in SUBSET Nat, S # {}
    PROVE  Min(S) \in S
<1> DEFINE R == {ss \in Nat \X Nat : ss[1] < ss[2]}
<1>1. IsWellFoundedOn(R, Nat)
  BY NatLessThanWellFounded DEF OpToRel
<1>2. \E x \in S : \A y \in S : ~ (<<y, x>> \in R)
  <2> HIDE DEF R
  <2> QED
    BY <1>1, WFMin, Zenon
<1>3. PICK x \in S : \A y \in S : ~ (<<y, x>> \in R)
  BY <1>2
<1>4. ASSUME NEW y \in S PROVE x <= y
  <2>1. ~ (<<y, x>> \in R) /\ x \in Nat /\ y \in Nat
    BY <1>3
  <2> QED
    BY <2>1
<1> QED
  BY <1>4, Zenon DEF Min

(* A call that begins takes one place of the history, one that returns     *)
(* frees it for the mapping it made.                                       *)
LEMMA CallingCount ==
    ASSUME NEW t \in Threads, call \in [Threads -> Kinds \cup {"none"}]
    PROVE  /\ IsFiniteSet(Calling) /\ Cardinality(Calling) \in Nat
           /\ \A kind \in Kinds :
                 call[t] = "none" /\ call' = [call EXCEPT ![t] = kind] =>
                     Cardinality(Calling') = Cardinality(Calling) + 1
           /\ call[t] # "none" /\ call' = [call EXCEPT ![t] = "none"] =>
                 IsFiniteSet(Calling') /\ Cardinality(Calling') = Cardinality(Calling) - 1
<1>1. IsFiniteSet(Calling) /\ Cardinality(Calling) \in Nat
  BY FS_Subset, FS_CardinalityType, FilelessConstants DEF Calling
<1>2. ASSUME NEW kind \in Kinds, call[t] = "none", call' = [call EXCEPT ![t] = kind]
      PROVE  Cardinality(Calling') = Cardinality(Calling) + 1
  <2>1. Calling' = Calling \cup {t} /\ t \notin Calling
    BY <1>2 DEF Calling, Kinds
  <2> QED
    BY <2>1, <1>1, FS_AddElement, Zenon
<1>3. ASSUME call[t] # "none", call' = [call EXCEPT ![t] = "none"]
      PROVE  IsFiniteSet(Calling') /\ Cardinality(Calling') = Cardinality(Calling) - 1
  <2>1. Calling' = Calling \ {t} /\ t \in Calling
    BY <1>3 DEF Calling
  <2> QED
    BY <2>1, <1>1, FS_RemoveElement
<1> QED
  BY <1>1, <1>2, <1>3

-----------------------------------------------------------------------------
(* Inv holds initially. *)
LEMMA InitInv == Init => Inv
<1> SUFFICES ASSUME Init PROVE Inv
  OBVIOUS
<1> USE ConstantsNat
<1>0. made = <<>> /\ made \in Seq(Mapping) /\ Len(made) = 0 /\ DOMAIN made = {}
  BY DEF Init
<1>1. TypeOK
  <2>1. pending_map \in [Keys -> 0 .. Len(made)] /\ alerted \in [Ids -> 0 .. 2]
    BY <1>0 DEF Init
  <2>2. /\ call \in [Threads -> Kinds \cup {"none"}]
        /\ entry_scratch \in [Threads -> {"none", "anon", "file"}]
    BY DEF Init
  <2>3. /\ clock \in 0 .. MaxTime /\ hooks \in 0 .. 3
        /\ key \in 0 .. NKeys /\ next_key \in 0 .. NKeys /\ val \in 0 .. Len(made)
        /\ Len(made) <= MaxMaps
    BY <1>0 DEF Init
  <2> QED
    BY <2>1, <2>2, <2>3, Zenon DEF Init, TypeOK
<1>3. ScratchOwned /\ PendingFresh /\ InHand /\ Started
  BY <1>0 DEF Init, ScratchOwned, PendingFresh, InHand, Started
<1>4. NoneBeyond /\ AlertedOnce /\ AlertsGenuine
  BY <1>0 DEF Init, NoneBeyond, AlertedOnce, AlertsGenuine
<1>2. Room
  <2>1. Calling = {} /\ Len(made) = 0
    BY DEF Calling, Init
  <2> QED
    BY <2>1, FS_EmptySet DEF Room
<1> QED
  BY <1>0, <1>1, <1>2, <1>3, <1>4 DEF Inv

(* A call of do_mmap begins: only the scratch entry of its thread changes, *)
(* and it now describes this call.                                         *)
LEMMA EntersInv ==
    ASSUME Inv, NEW t \in Threads, NEW kind \in Kinds, MmapEnters(t, kind)
    PROVE  Inv'
<1> USE ConstantsNat
<1>1. TypeOK'
  BY Zenon DEF Inv, TypeOK, MmapEnters, on_do_mmap_entry, pollVars
<1>2. Room'
  <2>1. Cardinality(Calling) \in Nat /\ Cardinality(Calling') = Cardinality(Calling) + 1
    BY CallingCount, Zenon DEF Inv, TypeOK, MmapEnters
  <2>2. Len(made) + Cardinality(Calling) < MaxMaps /\ made' = made /\ Len(made) \in Nat
    BY DEF MmapEnters, Calling, Inv
  <2> QED
    BY <2>1, <2>2 DEF Room
<1>3. ScratchOwned'
  <2>1. (hooks = 0 => \A u \in Threads : entry_scratch[u] = "none")'
    BY DEF Inv, TypeOK, MmapEnters, on_do_mmap_entry, ScratchOwned
  <2>2. ASSUME NEW u \in Threads
        PROVE  (/\ entry_scratch[u] # "none" /\ call[u] = "none" => u \in left
                /\ entry_scratch[u] = "anon" /\ call[u] # "none" =>
                      call[u] = "anon_exec" \/ u \in left)'
    <3>1. CASE u = t
      BY <3>1 DEF Inv, TypeOK, MmapEnters, on_do_mmap_entry, ScratchOwned, Kinds
    <3>2. CASE u # t
      BY <3>2, Zenon DEF Inv, TypeOK, MmapEnters, on_do_mmap_entry, ScratchOwned
    <3> QED
      BY <3>1, <3>2
  <2> QED
    BY <2>1, <2>2 DEF ScratchOwned
<1>4. (/\ made \in Seq(Mapping) /\ Started /\ PendingFresh /\ InHand
       /\ NoneBeyond /\ AlertedOnce /\ AlertsGenuine)'
  BY Zenon DEF Inv, MmapEnters, pollVars, Started, PendingFresh, InHand, NoneBeyond, AlertedOnce,
         AlertsGenuine, Suspect
<1> QED
  BY <1>1, <1>2, <1>3, <1>4 DEF Inv

(* A call of do_mmap returns: the history may grow by one mapping, which   *)
(* replaces whatever candidate was filed under its address.                *)
LEMMA ReturnsInv ==
    ASSUME Inv, NEW t \in Threads, NEW a \in Keys \cup {0}, MmapReturns(t, a)
    PROVE  Inv'
<1> USE ConstantsNat
<1> DEFINE new == [key |-> a, kind |-> call[t], ts |-> clock, named |-> Never,
                   seen |-> t \notin unseen, stale |-> t \in left]
           grows == ~ (a = 0 \/ hooks < 2)
<1>0. /\ made \in Seq(Mapping) /\ Len(made) \in Nat /\ clock \in Nat /\ MaxTime \in Nat
      /\ Never \in Nat /\ clock + Grace <= MaxTime
  BY DEF Inv, TypeOK, MmapReturns, Never
<1>1. grows => a \in Keys /\ new \in Mapping
  BY <1>0 DEF Inv, TypeOK, MmapReturns, Mapping
<1>2. /\ made' \in Seq(Mapping)
      /\ Len(made') \in Nat /\ Len(made) <= Len(made') /\ Len(made') <= Len(made) + 1
      /\ ~grows => made' = made
      /\ \A id \in DOMAIN made : id \in DOMAIN made' /\ made'[id] = made[id]
      /\ grows => Len(made) + 1 \in DOMAIN made' /\ made'[Len(made) + 1] = new
      /\ DOMAIN made' = 1 .. Len(made') /\ DOMAIN made = 1 .. Len(made)
  <2> HIDE DEF new
  <2> QED
    BY <1>0, <1>1, SMTT(90) DEF MmapReturns, new
<1>3. Room' /\ Len(made') <= MaxMaps
  <2>1. /\ Cardinality(Calling) \in Nat /\ Cardinality(Calling') = Cardinality(Calling) - 1
        /\ IsFiniteSet(Calling')
    BY CallingCount, Zenon DEF Inv, TypeOK, MmapReturns
  <2>2. Cardinality(Calling') \in Nat
    BY <2>1, FS_CardinalityType
  <2>3. Len(made) + Cardinality(Calling) <= MaxMaps
    BY Zenon DEF Inv, Room
  <2> QED
    BY <2>1, <2>2, <2>3, <1>0, <1>2, SMTT(90) DEF Room
<1>4. pending_map \in [Keys -> 0 .. Len(made)] /\ pending_map' \in [Keys -> 0 .. Len(made')]
  <2>1. CASE pending_map' = pending_map
    BY <2>1, <1>0, <1>2, SMTT(90) DEF Inv, TypeOK
  <2>2. CASE grows /\ pending_map' = [pending_map EXCEPT ![a] = Len(made) + 1]
    BY <2>2, <1>0, <1>2 DEF Inv, TypeOK
  <2> QED
    BY <2>1, <2>2, ZenonT(120) DEF MmapReturns, on_do_mmap_exit, Inv, TypeOK
<1>5. TypeOK'
  <2>1. val \in 0 .. Len(made')
    BY <1>0, <1>2 DEF Inv, TypeOK
  <2>2. entry_scratch' \in [Threads -> {"none", "anon", "file"}] /\ full' \in BOOLEAN
    BY Zenon DEF Inv, TypeOK, MmapReturns, on_do_mmap_exit
  <2> QED
    BY <2>1, <2>2, <1>3, <1>4, ZenonT(120) DEF Inv, TypeOK, MmapReturns, pollVars
<1>6. ScratchOwned'
  <2>1. (hooks = 0 => \A u \in Threads : entry_scratch[u] = "none")'
    BY ZenonT(120) DEF Inv, TypeOK, MmapReturns, on_do_mmap_exit, ScratchOwned
  <2>2. ASSUME NEW u \in Threads
        PROVE  (/\ entry_scratch[u] # "none" /\ call[u] = "none" => u \in left
                /\ entry_scratch[u] = "anon" /\ call[u] # "none" =>
                      call[u] = "anon_exec" \/ u \in left)'
    BY DEF Inv, TypeOK, MmapReturns, on_do_mmap_exit, ScratchOwned
  <2> QED
    BY <2>1, <2>2, Zenon DEF ScratchOwned
<1>7. PendingFresh'
  <2> SUFFICES ASSUME NEW b \in Keys, pending_map'[b] # 0
               PROVE  (/\ made[pending_map[b]].key = b /\ Suspect(pending_map[b])
                       /\ made[pending_map[b]].named = Never
                       /\ made[pending_map[b]].ts + Grace <= MaxTime
                       /\ alerted[pending_map[b]] = 0 \/ (at = "delete" /\ val = pending_map[b]))'
    BY ZenonT(120) DEF PendingFresh
  <2>1. CASE pending_map'[b] = pending_map[b]
    <3>1. pending_map[b] \in DOMAIN made /\ made'[pending_map[b]] = made[pending_map[b]]
      BY <2>1, <1>0, <1>2, <1>4, SMTT(90)
    <3>2. alerted' = alerted /\ at' = at /\ val' = val
      BY Zenon DEF MmapReturns, pollVars
    <3> QED
      BY <2>1, <3>1, <3>2, SMTT(90) DEF Inv, PendingFresh, Suspect
  <2>2. CASE pending_map'[b] # pending_map[b]
    <3>1. /\ grows /\ b = a /\ pending_map'[b] = Len(made) + 1
          /\ entry_scratch[t] = "anon"
      BY <2>2, <1>4, ZenonT(120) DEF MmapReturns, on_do_mmap_exit
    <3>2. made'[pending_map'[b]] = new /\ Len(made) + 1 \in Ids
      BY <3>1, <1>0, <1>2, <1>3 DEF Ids
    <3>3. new.kind = "anon_exec" \/ new.stale
      BY <3>1, ZenonT(120) DEF Inv, ScratchOwned, MmapReturns
    <3>4. alerted'[Len(made) + 1] = 0
      BY <3>2, <1>0 DEF Inv, NoneBeyond, MmapReturns
    <3> QED
      BY <3>1, <3>2, <3>3, <3>4, <1>0, SMTT(90) DEF Suspect, MmapReturns
  <2> QED
    BY <2>1, <2>2, Zenon
<1>8. (Started /\ InHand /\ NoneBeyond /\ AlertedOnce)'
  <2>1. /\ alerted' = alerted /\ at' = at /\ val' = val /\ next_key' = next_key
        /\ clock' = clock /\ hooks' = hooks
    BY Zenon DEF MmapReturns, pollVars
  <2>2. InHand'
    BY <2>1, <1>2, ZenonT(120) DEF Inv, InHand, Suspect
  <2>3. NoneBeyond'
    BY <2>1, <1>0, <1>2 DEF Inv, NoneBeyond, Ids
  <2> QED
    BY <2>1, <2>2, <2>3, Zenon DEF Inv, AlertedOnce, Started
<1>9. AlertsGenuine'
  <2> SUFFICES ASSUME NEW id \in DOMAIN made', alerted'[id] > 0
               PROVE  (/\ Suspect(id) /\ clock >= made[id].ts + Grace
                       /\ made[id].named >= made[id].ts + Grace)'
    BY ZenonT(120) DEF AlertsGenuine, Suspect
  <2>1. id \in Ids
    BY <1>0, <1>2, <1>3 DEF Ids
  <2>2. id <= Len(made)
    <3>1. alerted[id] # 0 /\ id \in Nat
      BY <2>1 DEF MmapReturns, Ids
    <3> QED
      BY <3>1, <2>1, <1>0, SMTT(90) DEF Inv, NoneBeyond
  <2>3. id \in DOMAIN made /\ made'[id] = made[id]
    BY <2>2, <1>0, <1>2, SMTT(90)
  <2>4. alerted' = alerted /\ clock' = clock
    BY DEF MmapReturns
  <2> QED
    BY <2>3, <2>4 DEF Inv, AlertsGenuine, Suspect
<1> QED
  BY <1>2, <1>3, <1>5, <1>6, <1>7, <1>8, <1>9, SMTT(90) DEF Inv

(* A mapping is named: the candidate filed under its address goes, and no  *)
(* other candidate, nor one whose grace period is over, is affected.       *)
LEMMA PrctlInv ==
    ASSUME Inv, NEW id \in DOMAIN made, NEW dalvik \in BOOLEAN, Prctl(id, dalvik)
    PROVE  Inv'
<1> USE ConstantsNat
<1> DEFINE names == hooks >= 3 /\ dalvik
<1>0. /\ made \in Seq(Mapping) /\ made[id] \in Mapping /\ made[id].key \in Keys
      /\ clock \in Nat /\ DOMAIN made = 1 .. Len(made) /\ Len(made) \in Nat
  <2>1. made \in Seq(Mapping) /\ DOMAIN made = 1 .. Len(made) /\ Len(made) \in Nat
    BY DEF Inv
  <2>2. made[id] \in Mapping
    BY <2>1
  <2>3. made[id].key \in Keys
    BY <2>2 DEF Mapping
  <2> QED
    BY <2>1, <2>2, <2>3 DEF Inv, TypeOK
<1>1. /\ made' \in Seq(Mapping) /\ DOMAIN made' = DOMAIN made /\ Len(made') = Len(made)
      /\ \A j \in DOMAIN made :
            /\ made'[j].key = made[j].key /\ made'[j].kind = made[j].kind
            /\ made'[j].ts = made[j].ts /\ made'[j].stale = made[j].stale
            /\ made'[j].named = made[j].named \/ (names /\ j = id /\ made'[j].named = clock)
  <2> DEFINE r == [made[id] EXCEPT !.named = clock]
  <2>1. /\ r \in Mapping /\ r.key = made[id].key /\ r.kind = made[id].kind
        /\ r.ts = made[id].ts /\ r.stale = made[id].stale /\ r.named = clock
    BY <1>0, Zenon DEF Mapping
  <2>2. made' = made \/ (names /\ made' = [made EXCEPT ![id] = r])
    BY DEF Prctl
  <2> HIDE DEF r
  <2>3. CASE made' = made
    BY <2>3, <1>0
  <2>4. CASE names /\ made' = [made EXCEPT ![id] = r]
    BY <2>4, <2>1, <1>0, ExceptSeq, SMTT(90)
  <2> QED
    BY <2>2, <2>3, <2>4
<1>2. /\ pending_map' \in [Keys -> 0 .. Len(made)]
      /\ \A a \in Keys : pending_map'[a] # 0 =>
            pending_map'[a] = pending_map[a] /\ (names => a # made[id].key)
  <2>1. pending_map \in [Keys -> 0 .. Len(made)]
    BY DEF Inv, TypeOK
  <2>2. pending_map' = IF names THEN [pending_map EXCEPT ![made[id].key] = 0] ELSE pending_map
    BY DEF Prctl, on_prctl
  <2> QED
    BY <2>1, <2>2, <1>0
<1>3. /\ alerted' = alerted /\ at' = at /\ val' = val /\ next_key' = next_key /\ key' = key
      /\ clock' = clock /\ call' = call /\ hooks' = hooks /\ entry_scratch' = entry_scratch
      /\ left' = left /\ g_poll_stop' = g_poll_stop /\ full' = full
  BY Zenon DEF Prctl, pollVars
<1>4. TypeOK'
  BY <1>1, <1>2, <1>3, ZenonT(120) DEF Inv, TypeOK
<1>5. (Room /\ ScratchOwned /\ Started /\ NoneBeyond /\ AlertedOnce)'
  BY <1>1, <1>3, ZenonT(120) DEF Inv, Started, Room, Calling, ScratchOwned, NoneBeyond, AlertedOnce
<1>6. PendingFresh'
  <2> SUFFICES ASSUME NEW b \in Keys, pending_map'[b] # 0
               PROVE  (/\ made[pending_map[b]].key = b /\ Suspect(pending_map[b])
                       /\ made[pending_map[b]].named = Never
                       /\ made[pending_map[b]].ts + Grace <= MaxTime
                       /\ alerted[pending_map[b]] = 0 \/ (at = "delete" /\ val = pending_map[b]))'
    BY DEF PendingFresh
  <2>1. pending_map'[b] = pending_map[b] /\ pending_map[b] \in DOMAIN made
    BY <1>0, <1>2
  <2>2. /\ made[pending_map[b]].key = b /\ Suspect(pending_map[b])
        /\ made[pending_map[b]].named = Never
        /\ made[pending_map[b]].ts + Grace <= MaxTime
        /\ alerted[pending_map[b]] = 0 \/ (at = "delete" /\ val = pending_map[b])
    BY <2>1, ZenonT(120) DEF Inv, PendingFresh
  <2>3. made'[pending_map[b]].named = Never
    BY <1>1, <1>2, <2>1, <2>2
  <2> QED
    BY <1>1, <1>3, <2>1, <2>2, <2>3, SMTT(90) DEF Suspect
<1>7. InHand'
  <2>1. CASE at \in {"emit", "delete"}
    <3>1. /\ val \in DOMAIN made /\ made[val].key = next_key /\ Suspect(val)
          /\ clock >= made[val].ts + Grace
          /\ made[val].named >= made[val].ts + Grace
          /\ alerted[val] = IF at = "emit" THEN 0 ELSE 1
      BY <2>1, Zenon DEF Inv, InHand
    <3> QED
      BY <2>1, <3>1, <1>1, <1>3, ZenonT(120) DEF Inv, InHand, Suspect
  <2>2. CASE at \notin {"emit", "delete"}
    BY <2>2, <1>3, ZenonT(120) DEF Inv, InHand
  <2> QED
    BY <2>1, <2>2, Zenon
<1>8. AlertsGenuine'
  BY <1>1, <1>3 DEF Inv, AlertsGenuine
<1> QED
  BY <1>1, <1>4, <1>5, <1>6, <1>7, <1>8, SMTT(90) DEF Inv

(* The polling thread: looking only takes a candidate in hand, reporting   *)
(* counts an alert for one that had none, deleting empties its address.    *)
LEMMA PollInv ==
    ASSUME Inv, Poll
    PROVE  Inv'
<1> USE ConstantsNat
<1>0. /\ made \in Seq(Mapping) /\ Len(made) \in Nat /\ DOMAIN made = 1 .. Len(made)
      /\ pending_map \in [Keys -> 0 .. Len(made)] /\ Len(made) <= MaxMaps
      /\ alerted \in [Ids -> 0 .. 2] /\ clock \in Nat /\ Keys \subseteq 1 .. NKeys
  BY DEF Inv, TypeOK, Keys
<1>1. /\ made' = made /\ clock' = clock /\ call' = call /\ hooks' = hooks /\ left' = left
      /\ entry_scratch' = entry_scratch /\ g_poll_stop' = g_poll_stop /\ full' = full
  BY Zenon DEF Poll, PollTop, PollNextKey, PollLook, PollEmit, PollDelete, pollRest
<1>2. (made \in Seq(Mapping) /\ Room /\ ScratchOwned /\ Started)'
  <2>1. hooks = 3
    BY SMTT(90) DEF Inv, Started, TypeOK, Poll, PollTop, PollNextKey, PollLook, PollEmit, PollDelete
  <2> QED
    BY <2>1, <1>0, <1>1, SMTT(90) DEF Inv, Room, Calling, ScratchOwned, Started
<1>3. CASE PollTop
  BY <1>1, <1>2, <1>3, ZenonT(120) DEF PollTop, Inv, TypeOK, PendingFresh, InHand, NoneBeyond, AlertedOnce,
        AlertsGenuine, Suspect
<1>4. CASE PollNextKey
  <2>1. NextKeys # {} => Min(NextKeys) \in Keys
    BY MinIsMember DEF NextKeys, Following, Keys
  <2>2. /\ next_key' \in Keys \cup {next_key} /\ key' \in {0, key} /\ val' = val
        /\ pending_map' = pending_map /\ alerted' = alerted
        /\ at' = "top" \/ (at' = "look" /\ next_key' \in Keys)
        /\ at = "walk"
    BY <1>4, <2>1, Zenon DEF PollNextKey
  <2> QED
    BY <1>0, <1>1, <1>2, <2>2, SMTT(90) DEF Inv, TypeOK, PendingFresh, InHand, NoneBeyond, AlertedOnce,
        AlertsGenuine, Suspect
<1>5. CASE PollLook
  <2>1. next_key \in Keys /\ at = "look" /\ pending_map' = pending_map /\ alerted' = alerted
    BY <1>5, ZenonT(120) DEF PollLook, Inv, InHand
  <2>2. CASE at' = "walk" /\ key' = next_key /\ next_key' = 0 /\ val' = val
    BY <1>0, <1>1, <1>2, <2>1, <2>2, SMTT(90) DEF Inv, TypeOK, PendingFresh, InHand, NoneBeyond,
        AlertedOnce, AlertsGenuine, Suspect
  <2>3. CASE /\ pending_map[next_key] # 0 /\ clock - made[pending_map[next_key]].ts >= Grace
             /\ at' = "emit" /\ val' = pending_map[next_key]
             /\ key' = key /\ next_key' = next_key
    <3> DEFINE v == pending_map[next_key]
    <3>1. v \in DOMAIN made /\ v \in 0 .. Len(made) /\ made[v].ts \in Nat
      <4>1. v \in DOMAIN made /\ v \in 0 .. Len(made)
        BY <2>1, <2>3, <1>0, SMTT(90)
      <4>2. made[v] \in Mapping
        BY <4>1, <1>0
      <4> QED
        BY <4>1, <4>2, SMTT(90) DEF Mapping
    <3>2. /\ made[v].key = next_key /\ Suspect(v) /\ made[v].named = Never
          /\ made[v].ts + Grace <= MaxTime /\ alerted[v] = 0
      BY <2>1, <2>3, ZenonT(120) DEF Inv, PendingFresh
    <3>3. clock >= made[v].ts + Grace /\ Never >= made[v].ts + Grace
      BY <3>1, <3>2, <2>3, <1>0, SMTT(90)
    <3>4. InHand'
      BY <3>1, <3>2, <3>3, <2>1, <2>3, <1>1, Zenon DEF InHand, Suspect
    <3>5. PendingFresh'
      BY <2>1, <2>3, <1>1, ZenonT(120) DEF Inv, PendingFresh, Suspect
    <3>6. TypeOK'
      BY <3>1, <2>1, <2>3, <1>1, SMTT(90) DEF Inv, TypeOK
    <3> QED
      BY <3>4, <3>5, <3>6, <1>1, <1>2, <2>1, SMTT(90) DEF Inv, NoneBeyond, AlertedOnce, AlertsGenuine
  <2> QED
    BY <1>5, <2>2, <2>3, Zenon DEF PollLook
<1>6. CASE PollEmit
  <2>1. /\ val \in DOMAIN made /\ made[val].key = next_key /\ Suspect(val) /\ next_key \in Keys
        /\ clock >= made[val].ts + Grace /\ made[val].named >= made[val].ts + Grace
        /\ alerted[val] = 0 /\ at = "emit" /\ at' = "delete"
    BY <1>6 DEF PollEmit, Inv, InHand
  <2>2. /\ pending_map' = pending_map /\ val' = val /\ next_key' = next_key /\ key' = key
    BY <1>6, ZenonT(120) DEF PollEmit
  <2>3. val \in Ids /\ alerted' = [alerted EXCEPT ![val] = 1]
    BY <2>1, <1>0, <1>6, SMTT(90) DEF PollEmit, Ids
  <2>4. /\ alerted' \in [Ids -> 0 .. 2] /\ alerted'[val] = 1
        /\ \A id \in Ids \ {val} : alerted'[id] = alerted[id]
    BY <2>3, <1>0
  <2>5. TypeOK'
    BY <2>1, <2>2, <2>4, <1>1, ZenonT(120) DEF Inv, TypeOK
  <2>6. InHand'
    BY <2>1, <2>2, <2>4, <1>1, ZenonT(120) DEF InHand, Suspect
  <2>7. PendingFresh'
    <3> SUFFICES ASSUME NEW b \in Keys, pending_map[b] # 0
                 PROVE  /\ made[pending_map[b]].key = b /\ Suspect(pending_map[b])
                        /\ made[pending_map[b]].named = Never
                        /\ made[pending_map[b]].ts + Grace <= MaxTime
                        /\ alerted'[pending_map[b]] = 0 \/ val = pending_map[b]
      BY <2>1, <2>2, <1>1, SMTT(90) DEF PendingFresh, Suspect
    <3>1. pending_map[b] \in Ids
      BY <1>0, SMTT(90) DEF Ids
    <3> QED
      BY <3>1, <2>1, <2>4, ZenonT(120) DEF Inv, PendingFresh
  <2>8. NoneBeyond' /\ AlertedOnce'
    BY <2>1, <2>4, <1>0, <1>1, SMTT(90) DEF Inv, NoneBeyond, AlertedOnce, Ids
  <2>9. AlertsGenuine'
    <3> SUFFICES ASSUME NEW id \in DOMAIN made, alerted'[id] > 0
                 PROVE  /\ Suspect(id) /\ clock >= made[id].ts + Grace
                        /\ made[id].named >= made[id].ts + Grace
      BY <1>1 DEF AlertsGenuine, Suspect
    <3>1. id = val \/ alerted'[id] = alerted[id]
      BY <2>4, <1>0, SMTT(90) DEF Ids
    <3> QED
      BY <3>1, <2>1, ZenonT(120) DEF Inv, AlertsGenuine, Suspect
  <2> QED
    BY <2>5, <2>6, <2>7, <2>8, <2>9, <1>2, Zenon DEF Inv
<1>7. CASE PollDelete
  <2>1. /\ val \in DOMAIN made /\ made[val].key = next_key /\ next_key \in Keys
        /\ pending_map' = [pending_map EXCEPT ![next_key] = 0] /\ alerted' = alerted
        /\ key' = 0 /\ next_key' = 0 /\ val' = 0 /\ at' = "walk" /\ at = "delete"
    BY <1>7, ZenonT(120) DEF PollDelete, Inv, InHand
  <2>2. TypeOK'
    BY <2>1, <1>0, <1>1 DEF Inv, TypeOK
  <2>3. PendingFresh'
    BY <2>1, <1>0, <1>1, ZenonT(120) DEF Inv, PendingFresh, Suspect
  <2> QED
    BY <2>1, <2>2, <2>3, <1>1, <1>2, ZenonT(120) DEF Inv, InHand, NoneBeyond, AlertedOnce, AlertsGenuine
<1> QED
  BY <1>3, <1>4, <1>5, <1>6, <1>7, SMTT(90) DEF Poll

(* Setup, the stop and the passing of time change nothing the invariant    *)
(* relates, except that a grace period that is over stays over.            *)
LEMMA RestInv ==
    ASSUME Inv, Attach \/ Stop \/ Tick \/ UNCHANGED vars
    PROVE  Inv'
<1> USE ConstantsNat
<1>0. ASSUME NEW id \in DOMAIN made PROVE made[id].ts \in Nat
  <2>1. made[id] \in Mapping
    BY SMTT(90) DEF Inv
  <2> QED
    BY <2>1 DEF Mapping
<1>1. CASE Attach
  <2>1. /\ at = "off" /\ at' \in {"off", "top"} /\ (hooks' < 3 => at' = "off") /\ hooks' \in 0 .. 3
        /\ (hooks' = 0 => hooks = 0)
    BY <1>1, SMTT(90) DEF Attach, Inv, Started, TypeOK
  <2> QED
    BY <1>1, <2>1, ZenonT(120) DEF Attach, Inv, TypeOK, Room, Calling, ScratchOwned, Started, PendingFresh,
        InHand, NoneBeyond, AlertedOnce, AlertsGenuine, Suspect
<1>2. CASE Stop \/ UNCHANGED vars
  <2>0. g_poll_stop' \in BOOLEAN
    BY <1>2, Zenon DEF Stop, vars, Inv, TypeOK
  <2>1. /\ clock' = clock /\ hooks' = hooks /\ call' = call
        /\ entry_scratch' = entry_scratch /\ pending_map' = pending_map /\ at' = at
        /\ key' = key /\ next_key' = next_key /\ val' = val /\ made' = made
        /\ alerted' = alerted /\ left' = left /\ full' = full
    BY <1>2, Zenon DEF Stop, vars, pollVars
  <2> QED
    BY <2>0, <2>1, ZenonT(120) DEF Inv, TypeOK, Room, Calling, ScratchOwned, Started, PendingFresh,
        InHand, NoneBeyond, AlertedOnce, AlertsGenuine, Suspect
<1>3. CASE Tick
  <2>1. clock \in Nat /\ clock' = clock + 1 /\ clock' \in 0 .. MaxTime /\ made' = made
    BY <1>3, SMTT(90) DEF Tick, Inv, TypeOK
  <2>2. AlertsGenuine'
    <3> SUFFICES ASSUME NEW id \in DOMAIN made, alerted[id] > 0
                 PROVE  /\ Suspect(id) /\ clock + 1 >= made[id].ts + Grace
                        /\ made[id].named >= made[id].ts + Grace
      BY <1>3, <2>1, Zenon DEF Tick, AlertsGenuine, Suspect
    <3>1. /\ Suspect(id) /\ clock >= made[id].ts + Grace
          /\ made[id].named >= made[id].ts + Grace
      BY ZenonT(120) DEF Inv, AlertsGenuine, Suspect
    <3> QED
      BY <3>1, <2>1, <1>0
  <2>3. InHand'
    BY <1>0, <1>3, <2>1 DEF Tick, pollVars, Inv, InHand, Suspect
  <2> QED
    BY <1>3, <2>1, <2>2, <2>3, ZenonT(120) DEF Tick, pollVars, Inv, TypeOK, Room, Calling, ScratchOwned,
        Started, PendingFresh, NoneBeyond, AlertedOnce, Suspect
<1> QED
  BY <1>1, <1>2, <1>3

(* Every mmap and prctl of the target, turn of the poll thread and tick of *)
(* the clock keeps the invariant.                                          *)
LEMMA NextInv == Inv /\ [Next]_vars => Inv'
  BY EntersInv, ReturnsInv, PrctlInv, PollInv, RestInv DEF Next

(* However the target's threads map and name memory while the polling      *)
(* thread walks pending_map, restarting at the front after each report, no *)
(* mapping is reported twice.                                              *)
THEOREM ReportedAtMostOnce == Spec => []AlertedOnce
<1>1. Inv => AlertedOnce
  BY DEF Inv
<1> QED
  BY <1>1, InitInv, NextInv, PTL DEF Spec

(* What is reported was anonymous and executable, or took a scratch entry  *)
(* left behind during setup, and ART did not name it in its grace period.  *)
THEOREM ReportsAreGenuine == Spec => []AlertsGenuine
<1>1. Inv => AlertsGenuine
  BY DEF Inv
<1> QED
  BY <1>1, InitInv, NextInv, PTL DEF Spec

-----------------------------------------------------------------------------
(* A call for anonymous executable memory that both probes can see has its *)
(* scratch entry, unless there was no room for it.                         *)
EntrySeen ==
    \A t \in Threads : call[t] = "anon_exec" /\ t \notin unseen =>
        entry_scratch[t] = "anon" \/ full

Waiting == EntrySeen /\ NoCandidateLost

(* No step of the target loses a candidate. *)
LEMMA TargetLosesNone ==
    ASSUME Inv, Waiting,
           \E t \in Threads : \/ \E kind \in Kinds : MmapEnters(t, kind)
                             \/ \E a \in Keys \cup {0} : MmapReturns(t, a)
    PROVE  Waiting'
<1> USE ConstantsNat
<1>0. /\ made \in Seq(Mapping) /\ Len(made) \in Nat /\ DOMAIN made = 1 .. Len(made)
      /\ pending_map \in [Keys -> 0 .. Len(made)]
      /\ call \in [Threads -> Kinds \cup {"none"}]
      /\ entry_scratch \in [Threads -> {"none", "anon", "file"}] /\ hooks \in 0 .. 3
  BY SMTT(90) DEF Inv, TypeOK
<1>1. ASSUME NEW t \in Threads, NEW kind \in Kinds, MmapEnters(t, kind)
      PROVE  Waiting'
  <2>1. EntrySeen'
    <3> SUFFICES ASSUME NEW u \in Threads, call'[u] = "anon_exec", u \notin unseen'
                 PROVE  entry_scratch'[u] = "anon" \/ full'
      BY Zenon DEF EntrySeen
    <3>1. CASE u = t
      BY <1>0, <1>1, <3>1, ZenonT(120) DEF MmapEnters, on_do_mmap_entry
    <3>2. CASE u # t
      BY <1>0, <1>1, <3>2, ZenonT(120) DEF MmapEnters, on_do_mmap_entry, Waiting, EntrySeen
    <3> QED
      BY <3>1, <3>2
  <2>2. /\ made' = made /\ alerted' = alerted /\ pending_map' = pending_map /\ raced' = raced
        /\ full => full'
    BY <1>1 DEF MmapEnters, on_do_mmap_entry
  <2> QED
    BY <2>1, <2>2, ZenonT(120) DEF Waiting, NoCandidateLost, Current
<1>2. ASSUME NEW t \in Threads, NEW a \in Keys \cup {0}, MmapReturns(t, a)
      PROVE  Waiting'
  <2> DEFINE new == [key |-> a, kind |-> call[t], ts |-> clock, named |-> Never,
                     seen |-> t \notin unseen, stale |-> t \in left]
             grows == ~ (a = 0 \/ hooks < 2)
             n == Len(made) + 1
  <2>1. EntrySeen'
    BY <1>0, <1>2, ZenonT(120) DEF MmapReturns, on_do_mmap_exit, Waiting, EntrySeen
  <2>2. /\ alerted' = alerted /\ raced' = raced /\ (full => full')
        /\ made' = IF grows THEN Append(made, new) ELSE made
    BY <1>2, Zenon DEF MmapReturns, on_do_mmap_exit
  <2>3. pending_map' = pending_map \/ (grows /\ pending_map' = [pending_map EXCEPT ![a] = n])
    BY <1>2, Zenon DEF MmapReturns, on_do_mmap_exit
  <2>4. CASE ~grows
    BY <2>1, <2>2, <2>3, <2>4, ZenonT(120) DEF Waiting, NoCandidateLost, Current
  <2>5. CASE grows
    <3>1. /\ new \in Mapping /\ new.key = a /\ new.kind = call[t]
          /\ new.seen = (t \notin unseen) /\ a \in Keys
      <4>1. a \in Keys /\ call[t] \in Kinds /\ clock \in Nat
        BY <1>0, <1>2, <2>5, SMTT(90) DEF Inv, TypeOK, MmapReturns
      <4>2. new \in Mapping
        BY <4>1 DEF Mapping
      <4>3. new.key = a /\ new.kind = call[t] /\ new.seen = (t \notin unseen)
        BY ZenonT(120)
      <4> QED
        BY <4>1, <4>2, <4>3, ZenonT(120)
    <3> HIDE DEF new
    <3>2. /\ DOMAIN made' = 1 .. n /\ made'[n] = new
          /\ \A id \in DOMAIN made : made'[id] = made[id]
      BY <1>0, <2>2, <2>5, <3>1, SMTT(90)
    <3> SUFFICES ASSUME NEW id \in DOMAIN made', made'[id].kind = "anon_exec", made'[id].seen
                 PROVE  (\/ alerted[id] > 0 \/ pending_map[made[id].key] = id
                         \/ made[id].named # Never \/ ~Current(id)
                         \/ full \/ id \in raced)'
      BY <2>1, ZenonT(120) DEF Waiting, NoCandidateLost
    <3>3. CASE id = n
      <4>1. entry_scratch[t] = "anon" \/ full
        BY <3>1, <3>2, <3>3, ZenonT(120) DEF Waiting, EntrySeen
      <4>2. pending_map'[a] = n \/ full'
        BY <4>1, <1>0, <1>2, <2>2, <2>5, <3>1, SMTT(90) DEF MmapReturns, on_do_mmap_exit
      <4> QED
        BY <4>2, <3>1, <3>2, <3>3, SMTT(90)
    <3>4. CASE id \in DOMAIN made
      <4>1. made'[id] = made[id] /\ id < n /\ n \in DOMAIN made'
        BY <1>0, <3>2, <3>4, SMTT(90)
      <4>2. ~Current(id) => ~Current(id)'
        BY <1>0, <3>2, <3>4 DEF Current
      <4>3. \/ alerted[id] > 0 \/ pending_map[made[id].key] = id
            \/ made[id].named # Never \/ ~Current(id)
            \/ full \/ id \in raced
        BY <3>4, <4>1, Zenon DEF Waiting, NoCandidateLost
      <4>4. CASE pending_map[made[id].key] = id /\ made[id].key # a
        <5>1. made[id] \in Mapping
          BY <1>0, <3>4
        <5>2. made[id].key \in Keys
          BY <5>1, Zenon DEF Mapping
        <5>3. pending_map'[made[id].key] = id
          BY <5>2, <4>4, <2>3, <1>0, ZenonT(120)
        <5> QED
          BY <5>3, <4>1, ZenonT(120)
      <4>5. CASE made[id].key = a
        BY <4>1, <4>5, <3>1, <3>2, ZenonT(120) DEF Current
      <4> QED
        BY <4>1, <4>2, <4>3, <4>4, <4>5, <2>2, ZenonT(120)
    <3>5. id = n \/ id \in DOMAIN made
      BY <1>0, <3>2
    <3> QED
      BY <3>3, <3>4, <3>5
  <2> QED
    BY <2>4, <2>5, Zenon
<1> QED
  BY <1>1, <1>2, ZenonT(120)

(* Neither naming nor the analyzer loses one. *)
LEMMA AnalyzerLosesNone ==
    ASSUME Inv, Waiting,
           \/ \E id \in DOMAIN made, dalvik \in BOOLEAN : Prctl(id, dalvik)
           \/ Attach \/ Poll \/ Stop \/ Tick \/ UNCHANGED vars
    PROVE  Waiting'
<1> USE ConstantsNat
<1>0. /\ made \in Seq(Mapping) /\ Len(made) \in Nat /\ DOMAIN made = 1 .. Len(made)
      /\ pending_map \in [Keys -> 0 .. Len(made)] /\ clock \in 0 .. MaxTime
      /\ \A id \in DOMAIN made : made[id] \in Mapping /\ made[id].key \in Keys
  <2>1. made \in Seq(Mapping) /\ Len(made) \in Nat /\ DOMAIN made = 1 .. Len(made)
    BY DEF Inv
  <2>2. \A id \in DOMAIN made : made[id] \in Mapping
    BY <2>1
  <2> QED
    BY <2>1, <2>2, SMTT(90) DEF Inv, TypeOK, Mapping
<1>1. ASSUME NEW id \in DOMAIN made, NEW dalvik \in BOOLEAN, Prctl(id, dalvik)
      PROVE  Waiting'
  <2> DEFINE a == made[id].key
  <2>1. /\ alerted' = alerted /\ raced' = raced /\ full' = full /\ call' = call
        /\ unseen' = unseen /\ entry_scratch' = entry_scratch
    BY <1>1, ZenonT(120) DEF Prctl
  <2>2. CASE ~ (hooks >= 3 /\ dalvik)
    <3>1. made' = made /\ pending_map' = pending_map
      BY <1>1, <2>2, Zenon DEF Prctl, on_prctl
    <3> QED
      BY <2>1, <3>1 DEF Waiting, EntrySeen, NoCandidateLost, Current
  <2>3. CASE hooks >= 3 /\ dalvik
    <3>1. /\ DOMAIN made' = DOMAIN made
          /\ \A j \in DOMAIN made :
                /\ made'[j].key = made[j].key /\ made'[j].kind = made[j].kind
                /\ made'[j].seen = made[j].seen
                /\ j # id => made'[j].named = made[j].named
          /\ made'[id].named # Never
      <4>1. CASE made[id].named # Never
        BY <1>1, <2>3, <4>1, ZenonT(120) DEF Prctl
      <4>2. CASE made[id].named = Never
        <5> DEFINE r == [made[id] EXCEPT !.named = clock]
        <5>1. /\ r \in Mapping /\ r.key = made[id].key /\ r.kind = made[id].kind
              /\ r.seen = made[id].seen /\ r.named = clock
          <6>1. made[id] \in Mapping /\ clock \in Nat
            BY <1>0
          <6>2. r \in Mapping /\ r.key = made[id].key /\ r.kind = made[id].kind /\ r.named = clock
            BY <6>1 DEF Mapping
          <6>3. r.seen = made[id].seen
            BY <6>1, Zenon DEF Mapping
          <6> QED
            BY <6>2, <6>3
        <5>2. made' = [made EXCEPT ![id] = r]
          BY <1>1, <2>3, <4>2, ZenonT(120) DEF Prctl
        <5>3. clock # Never
          BY <1>0
        <5> HIDE DEF r
        <5> QED
          BY <5>1, <5>2, <5>3, <1>0, SMTT(90)
      <4> QED
        BY <4>1, <4>2
    <3>2. pending_map' = [pending_map EXCEPT ![a] = 0] /\ a \in Keys /\ Current(id)
      BY <1>0, <1>1, <2>3, ZenonT(120) DEF Prctl, on_prctl
    <3>3. NoCandidateLost'
      <4> SUFFICES ASSUME NEW j \in DOMAIN made, made[j].kind = "anon_exec", made[j].seen
                   PROVE  (\/ alerted[j] > 0 \/ pending_map[made[j].key] = j
                           \/ made[j].named # Never \/ ~Current(j)
                           \/ full \/ j \in raced)'
        BY <3>1, Zenon DEF NoCandidateLost
      <4>1. Current(j)' <=> Current(j)
        BY <3>1, ZenonT(120) DEF Current
      <4>2. CASE j = id
        BY <4>2, <3>1, Zenon
      <4>3. CASE j # id /\ made[j].key = a
        BY <4>1, <4>3, <3>2, <1>0 DEF Current
      <4>4. CASE j # id /\ made[j].key # a
        BY <4>1, <4>4, <2>1, <3>1, <3>2, <1>0, ZenonT(120) DEF Waiting, NoCandidateLost
      <4> QED
        BY <4>2, <4>3, <4>4, ZenonT(120)
    <3> QED
      BY <2>1, <3>3, ZenonT(120) DEF Waiting, EntrySeen
  <2> QED
    BY <2>2, <2>3
<1>2. CASE PollDelete
  <2>1. /\ val \in DOMAIN made /\ alerted[val] = 1 /\ next_key \in Keys
        /\ pending_map' = [pending_map EXCEPT ![next_key] = 0]
        /\ raced' = IF pending_map[next_key] \in {0, val} THEN raced
                    ELSE raced \cup {pending_map[next_key]}
        /\ alerted' = alerted /\ made' = made /\ full' = full
        /\ call' = call /\ unseen' = unseen /\ entry_scratch' = entry_scratch
    BY <1>2, ZenonT(120) DEF PollDelete, pollRest, Inv, InHand
  <2>2. ASSUME NEW j \in DOMAIN made, pending_map[made[j].key] = j
        PROVE  alerted'[j] > 0 \/ pending_map'[made[j].key] = j \/ j \in raced'
    BY <2>1, <2>2, <1>0, SMTT(90)
  <2> QED
    BY <2>1, <2>2, ZenonT(120) DEF Waiting, EntrySeen, NoCandidateLost, Current
<1>3. CASE PollEmit
  <2>1. /\ val \in Ids /\ alerted' = [alerted EXCEPT ![val] = 1]
        /\ pending_map' = pending_map /\ raced' = raced /\ made' = made /\ full' = full
        /\ call' = call /\ unseen' = unseen /\ entry_scratch' = entry_scratch
    <3>1. alerted[val] = 0 /\ val \in DOMAIN made /\ Len(made) <= MaxMaps
      BY <1>3, ZenonT(120) DEF PollEmit, Inv, InHand, TypeOK
    <3> QED
      BY <1>0, <1>3, <3>1 DEF PollEmit, pollRest, Ids
  <2>2. ASSUME NEW j \in DOMAIN made, alerted[j] > 0
        PROVE  alerted'[j] > 0
    BY <2>1, <2>2, SMTT(90) DEF Inv, TypeOK
  <2> QED
    BY <2>1, <2>2, ZenonT(120) DEF Waiting, EntrySeen, NoCandidateLost, Current
<1>4. CASE Attach \/ PollTop \/ PollNextKey \/ PollLook \/ Stop \/ Tick \/ UNCHANGED vars
  <2>1. /\ pending_map' = pending_map /\ raced' = raced /\ made' = made /\ full' = full
        /\ alerted' = alerted
        /\ call' = call /\ unseen' = unseen /\ entry_scratch' = entry_scratch
    BY <1>4, Zenon DEF Attach, PollTop, PollNextKey, PollLook, pollRest, Stop, Tick, vars
  <2> QED
    BY <2>1, Zenon DEF Waiting, EntrySeen, NoCandidateLost, Current
<1> QED
  BY <1>1, <1>2, <1>3, <1>4, ZenonT(120) DEF Poll

(* A candidate both probes saw stays in pending_map until it is reported,  *)
(* named or replaced, unless a map was full or the polling thread deleted  *)
(* it in the place of the one it had just reported at the same address.    *)
THEOREM CandidatesAreKept == Spec => []NoCandidateLost
<1>1. Init => Waiting
  BY DEF Init, Waiting, EntrySeen, NoCandidateLost
<1>2. Inv /\ Waiting /\ [Next]_vars => Waiting'
  BY TargetLosesNone, AnalyzerLosesNone DEF Next
<1>3. Waiting => NoCandidateLost
  BY DEF Waiting
<1> QED
  BY <1>1, <1>2, <1>3, InitInv, NextInv, PTL DEF Spec
=============================================================================
