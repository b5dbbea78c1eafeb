------------------------------- MODULE PropRead ------------------------------
(***************************************************************************)
(* The prop-read analyzer: entry and return probes of the property calls   *)
(* get and find, which share one map entry per thread.  A call may be made *)
(* inside another one (get looks its property up, a signal handler reads   *)
(* one).  Probes are attached one after another while the target runs.     *)
(***************************************************************************)
EXTENDS Integers, Sequences, FiniteSets, SequencesExt

CONSTANTS
  Threads,
  EntryCap,  \* entries of prop_entry_map
  RingCap,   \* events the ring holds
  MaxDepth,  \* bound: calls nested in one thread
  MaxCalls   \* bound: calls

Order == <<"get", "get_ret", "find", "find_ret", "fore", "cb">>

VARIABLES
  attached, \* number of probes of Order pr_setup has tried to attach
  probes,   \* those that are attached
  stack,    \* stack[t]: calls t is in, each with its probes at entry
  entry,    \* prop_entry_map: [threads with an entry -> call it was made for]
  ring,     \* events not yet consumed
  dropped,  \* the drop counter
  tally,    \* prop_stat: reads counted per call
  calls,    \* calls made so far; numbers them
  half,     \* history: calls with only one of their two probes
  gone,     \* history: calls whose entry found no room, was taken over or used up
  rets      \* history: return events, as <<call that returned, call named>>

vars == <<attached, probes, stack, entry, ring, dropped, tally, calls, half, gone,
          rets>>

Has(probe) == probe \in probes

Init ==
  /\ attached = 0 /\ probes = {}
  /\ stack = [t \in Threads |-> <<>>]
  /\ entry = [t \in {} |-> 0]
  /\ ring = <<>> /\ dropped = 0 /\ tally = [c \in 1..MaxCalls |-> 0]
  /\ calls = 0 /\ half = {} /\ gone = {} /\ rets = {}

\* pr_setup attaches the probes in this order; that one fails goes unnoticed.
Attach ==
  /\ attached < Len(Order)
  /\ attached' = attached + 1
  /\ probes' \in {probes, probes \cup {Order[attached + 1]}}
  /\ UNCHANGED <<stack, entry, ring, dropped, tally, calls, half, gone, rets>>

\* reserve_prop_event and submit.
Report(e) ==
  IF Len(ring) < RingCap
    THEN ring' = Append(ring, e) /\ UNCHANGED dropped
    ELSE ring' = ring /\ dropped' = dropped + 1

\* Plausible bug: a full map gives another thread's entry up.
Stored_Evict(t, c) ==
  IF t \in DOMAIN entry \/ Cardinality(DOMAIN entry) < EntryCap
    THEN [u \in DOMAIN entry \cup {t} |-> IF u = t THEN c ELSE entry[u]]
    ELSE [u \in {t} |-> c]

\* The update of an existing key succeeds in a full map, that of a new one fails.
Stored(t, c) ==
  IF t \in DOMAIN entry \/ Cardinality(DOMAIN entry) < EntryCap
    THEN [u \in DOMAIN entry \cup {t} |-> IF u = t THEN c ELSE entry[u]]
    ELSE entry

Overwritten(t, c) ==
  {x \in {stack[t][i].call : i \in DOMAIN stack[t]} : t \in DOMAIN entry /\ entry[t] = x}
  \cup (IF t \notin DOMAIN Stored(t, c) THEN {c} ELSE {})

\* on_prop_get and on_prop_find: a call begins.  Whether its return will be seen
\* is decided by the probes attached now.
Enter(t, f) ==
  /\ calls < MaxCalls /\ Len(stack[t]) < MaxDepth
  /\ calls' = calls + 1
  /\ stack' = [stack EXCEPT ![t] =
                Append(@, [f |-> f, call |-> calls + 1, ret |-> Has(f \o "_ret"),
                            hit |-> Has(f)])]
  /\ IF Has(f)
       THEN /\ entry' = Stored(t, calls + 1)
            /\ gone' = gone \cup Overwritten(t, calls + 1)
            /\ Report([f |-> f, ret |-> FALSE, call |-> calls + 1])
       ELSE UNCHANGED <<entry, ring, dropped, gone>>
  /\ half' = IF Has(f) = Has(f \o "_ret") THEN half ELSE half \cup {calls + 1}
  /\ UNCHANGED <<attached, probes, tally, rets>>

\* Plausible bug: a return leaves the entry.
Without_Kept(t) == entry

Without(t) == [u \in DOMAIN entry \ {t} |-> entry[u]]

\* on_prop_get_ret and on_prop_find_ret.
Return(t) ==
  /\ stack[t] # <<>>
  /\ LET c == stack[t][Len(stack[t])] IN
       IF c.ret /\ t \in DOMAIN entry
         THEN /\ Report([f |-> c.f, ret |-> TRUE, call |-> c.call])
              /\ rets' = rets \cup {<<c.call, entry[t]>>}
              /\ entry' = Without(t)
              /\ gone' = gone \cup {entry[t]}
         ELSE UNCHANGED <<entry, ring, dropped, gone, rets>>
  /\ stack' = [stack EXCEPT ![t] = Front(@)]
  /\ UNCHANGED <<attached, probes, tally, calls, half>>

\* on_prop_fore and on_prop_read_callback: one event, no state.
Sweep(f) ==
  /\ Has(f) /\ calls < MaxCalls
  /\ calls' = calls + 1
  /\ Report([f |-> f, ret |-> FALSE, call |-> calls + 1])
  /\ UNCHANGED <<attached, probes, stack, entry, tally, half, gone, rets>>

\* pr_handle_event: returns and sweeps are not counted as reads.
Handle ==
  /\ ring # <<>>
  /\ ring' = Tail(ring)
  /\ tally' = IF Head(ring).f # "fore" /\ ~Head(ring).ret
                THEN [tally EXCEPT ![Head(ring).call] = @ + 1] ELSE tally
  /\ UNCHANGED <<attached, probes, stack, entry, dropped, calls, half, gone, rets>>

Next ==
  \/ Attach \/ Handle
  \/ \E t \in Threads : Return(t) \/ \E f \in {"get", "find"} : Enter(t, f)
  \/ \E f \in {"fore", "cb"} : Sweep(f)

Spec == Init /\ [][Next]_vars

(***************************************************************************)
(* Properties.                                                             *)
(***************************************************************************)

\* The map and the ring stay within their capacities, a call raises at most two
\* events and is counted once.
TypeOK ==
  /\ attached \in 0..Len(Order)
  /\ DOMAIN entry \subseteq Threads /\ Cardinality(DOMAIN entry) <= EntryCap
  /\ Len(ring) <= RingCap
  /\ dropped \in 0..(2 * calls)
  /\ \A c \in 1..MaxCalls : tally[c] \in 0..1

\* A return event carries the name and buffer of the very call that returns, for
\* all nesting of get and find in the one entry of a thread, unless one of
\* the two calls had only one of its probes attached.
ReturnIsOwn == \A r \in rets : r[1] = r[2] \/ r[1] \in half \/ r[2] \in half

\* A call that is under way with a return probe still has its thread's entry, so
\* that its return will be reported, unless a call nested in it took the entry
\* over or used it up, or the map was full when it began.
ReturnExpected ==
  \A t \in Threads : \A i \in DOMAIN stack[t] :
    (stack[t][i].ret /\ stack[t][i].call \notin gone /\ stack[t][i].hit) =>
      t \in DOMAIN entry /\ entry[t] = stack[t][i].call

==============================================================================
