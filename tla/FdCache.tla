------------------------------- MODULE FdCache -------------------------------
(***************************************************************************)
(* The cache of descriptor paths (common/decode.c) that the worker of the  *)
(* syscalls engine fills when it renders an argument and empties when it   *)
(* pairs the return of close.  An open-addressing table: a key is a        *)
(* (pid, fd) pair, Hash gives its first slot.  The target opens and closes *)
(* descriptors meanwhile; its calls reach the worker through a queue.      *)
(***************************************************************************)
EXTENDS Integers, Sequences, FiniteSets, SequencesExt

CONSTANTS
  Keys,      \* (pid, fd) pairs
  Hash,      \* [Keys -> Nat]
  Cap0,      \* initial number of slots
  MaxCap,    \* bound: the table does not grow beyond this (calloc fails)
  QueueCap,  \* bound: calls on their way to the worker
  MaxOpens,  \* bound: files opened by the target
  MaxUses    \* bound: calls with a descriptor argument

VARIABLES
  real,   \* real[k]: the file open at k, 0 if none
  opens, uses,
  queue,  \* calls not yet handled by the worker, in order
  table,  \* g_fdc: slots from 0
  nused,  \* g_fdc_used
  stale,  \* history: the paths read for k before its last close was handled
  shown,  \* history: the last descriptor rendered and its path, 0 for none
  broken  \* history: a slot was freed while a later entry of its run stayed

vars == <<real, opens, uses, queue, table, nused, stale, shown, broken>>

Unused == [used |-> FALSE, key |-> "", path |-> 0]
Cap == Cardinality(DOMAIN table)

Init ==
  /\ real = [k \in Keys |-> 0]
  /\ opens = 0 /\ uses = 0 /\ queue = <<>>
  /\ table = [i \in 0..(Cap0 - 1) |-> Unused]
  /\ nused = 0
  /\ stale = [k \in Keys |-> {}]
  /\ shown = <<"", 0>>
  /\ broken = FALSE

(***************************************************************************)
(* The table.                                                              *)
(***************************************************************************)
\* The slots visited for k, in order.
Probe(t, k) == LET n == Cardinality(DOMAIN t)
               IN [j \in 1..n |-> (Hash[k] + j - 1) % n]

\* fdc_slot: the first slot that is unused or k's; -1 is NULL.
fdc_slot(t, k) ==
  LET p == Probe(t, k)
      stop == {j \in DOMAIN p : ~t[p[j]].used \/ t[p[j]].key = k}
  IN IF stop = {} THEN -1 ELSE p[CHOOSE j \in stop : \A i \in stop : j <= i]

\* The rehash: entries in slot order, each to the first unused slot of its run.
\* Equal keys are not looked for.
Grown(t) ==
  LET n == Cardinality(DOMAIN t)
      put(new, e) ==
        LET p == Probe(new, e.key)
            j == CHOOSE j \in DOMAIN p : /\ ~new[p[j]].used
                                         /\ \A i \in 1..(j - 1) : new[p[i]].used
        IN [new EXCEPT ![p[j]] = e]
      entries == SelectSeq([i \in 1..n |-> t[i - 1]], LAMBDA e : e.used)
  IN FoldLeft(put, [i \in 0..(2 * n - 1) |-> Unused], entries)

\* fdc_put, with the growth at three quarters that is skipped without memory.
fdc_put(k, path) ==
  LET t == IF (nused + 1) * 4 >= Cap * 3 /\ Cap < MaxCap THEN Grown(table) ELSE table
      s == fdc_slot(t, k)
  IN /\ table' = IF s = -1 THEN t
                 ELSE [t EXCEPT ![s] = [used |-> TRUE, key |-> k, path |-> path]]
     /\ nused' = IF s = -1 \/ t[s].used THEN nused ELSE nused + 1

\* An entry that a lookup reaches only past slot s, when s holds another key.
Beyond(s) ==
  \E i \in DOMAIN table :
    /\ table[i].used /\ i # s
    /\ LET p == Probe(table, table[i].key)
       IN \E j, l \in DOMAIN p : j < l /\ p[j] = s /\ p[l] = i

\* Plausible bugs: the count is not lowered; the entry is not found.
fdc_drop_Uncounted(k) ==
  LET s == fdc_slot(table, k) IN
  IF s # -1 /\ table[s].used /\ table[s].key = k
    THEN /\ table' = [table EXCEPT ![s].used = FALSE]
         /\ broken' = (broken \/ Beyond(s))
         /\ UNCHANGED nused
    ELSE UNCHANGED <<table, nused, broken>>

fdc_drop_Never(k) == UNCHANGED <<table, nused, broken>>

\* fdc_drop: the slot is freed and nothing marks that a run passed through it.
fdc_drop(k) ==
  LET s == fdc_slot(table, k) IN
  IF s # -1 /\ table[s].used /\ table[s].key = k
    THEN /\ table' = [table EXCEPT ![s].used = FALSE]
         /\ nused' = nused - 1
         /\ broken' = (broken \/ Beyond(s))
    ELSE UNCHANGED <<table, nused, broken>>

(***************************************************************************)
(* The target.                                                             *)
(***************************************************************************)
Opens(k) ==
  /\ real[k] = 0 /\ opens < MaxOpens
  /\ opens' = opens + 1
  /\ real' = [real EXCEPT ![k] = opens + 1]
  /\ UNCHANGED <<uses, queue, table, nused, stale, shown, broken>>

Uses(k) ==
  /\ real[k] # 0 /\ uses < MaxUses /\ Len(queue) < QueueCap
  /\ uses' = uses + 1
  /\ queue' = Append(queue, <<"use", k>>)
  /\ UNCHANGED <<real, opens, table, nused, stale, shown, broken>>

\* close, whose entry and return reach the worker.
Closes(k) ==
  /\ real[k] # 0 /\ Len(queue) < QueueCap
  /\ real' = [real EXCEPT ![k] = 0]
  /\ queue' = Append(queue, <<"close", k>>)
  /\ UNCHANGED <<opens, uses, table, nused, stale, shown, broken>>

\* A close that is filtered, lost on the way, or done by another call.
ClosesUnseen(k) ==
  /\ real[k] # 0
  /\ real' = [real EXCEPT ![k] = 0]
  /\ UNCHANGED <<opens, uses, queue, table, nused, stale, shown, broken>>

(***************************************************************************)
(* The worker.                                                             *)
(***************************************************************************)
\* render_fd: from the cache, else by readlink, which fails when the descriptor
\* has been closed by now.
render_fd ==
  /\ queue # <<>> /\ Head(queue)[1] = "use"
  /\ LET k == Head(queue)[2]
         s == fdc_slot(table, k)
     IN IF s # -1 /\ table[s].used /\ table[s].key = k
          THEN shown' = <<k, table[s].path>> /\ UNCHANGED <<table, nused>>
          ELSE /\ shown' = <<k, real[k]>>
               /\ IF real[k] # 0 THEN fdc_put(k, real[k]) ELSE UNCHANGED <<table, nused>>
  /\ queue' = Tail(queue)
  /\ UNCHANGED <<real, opens, uses, stale, broken>>

\* handle_return for a close that succeeded.  What was read before is stale,
\* except a file that the descriptor has been opened for since.
CloseReturns ==
  /\ queue # <<>> /\ Head(queue)[1] = "close"
  /\ LET k == Head(queue)[2] IN
       /\ fdc_drop(k)
       /\ stale' = [stale EXCEPT ![k] = (1..opens) \ {real[k]}]
       /\ shown' = <<"", 0>>
  /\ queue' = Tail(queue)
  /\ UNCHANGED <<real, opens, uses>>

Next ==
  \/ \E k \in Keys : Opens(k) \/ Uses(k) \/ Closes(k) \/ ClosesUnseen(k)
  \/ render_fd \/ CloseReturns

Spec == Init /\ [][Next]_vars

(***************************************************************************)
(* Properties.                                                             *)
(***************************************************************************)

\* g_fdc_used counts the slots in use, duplicates included, and the table is
\* never more than three quarters full while it can still grow.
TypeOK ==
  /\ Cap \in Cap0..MaxCap
  /\ nused = Cardinality({i \in DOMAIN table : table[i].used})
  /\ nused * 4 <= Cap * 3 \/ Cap = MaxCap

\* A descriptor has two entries in the table only after fdc_drop has freed a slot
\* that the run of another entry passes through.
DuplicateNeedsBrokenRun ==
  (\E i, j \in DOMAIN table : /\ i # j /\ table[i].used /\ table[j].used
                              /\ table[i].key = table[j].key) => broken

\* Until then the path rendered for a descriptor is never one from before the
\* last close that the worker has handled.
FreshWhileUnbroken ==
  shown[1] \in Keys /\ shown[2] \in stale[shown[1]] => broken

\* fdc_drop invalidates the entry of a closed descriptor: no path from before the
\* close is rendered afterwards.
ClosedIsForgotten ==
  shown[1] \in Keys => shown[2] \notin stale[shown[1]]

==============================================================================
