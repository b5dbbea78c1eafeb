------------------------------ MODULE MCCalls -------------------------------
(***************************************************************************)
(* The components that meet a call twice: the syscalls engine, here with   *)
(* a filter, snapshots and interned stacks; the worker's descriptor cache  *)
(* behind it; the analyzer of property reads; and the span stack of funcs  *)
(* and correlate. A behaviour is one of the chosen component; the others   *)
(* have no state.                                                          *)
(***************************************************************************)
EXTENDS MCSyscallTrace

VARIABLES part,   \* the component that runs in this behaviour
          c_real, c_opens, c_uses, c_queue, c_table, c_nused, c_stale, c_shown,
          c_broken,
          r_attached, r_probes, r_stack, r_entry, r_ring, r_dropped, r_tally,
          r_calls, r_half, r_gone, r_rets,
          s_engine, s_real, s_sp, s_stk, s_span_seq, s_cov, s_last, s_missed,
          s_unmatched, s_calls

(* Two keys share their first slot, the third follows them. *)
MCHash == [x |-> 0, y |-> 0, z |-> 1]

c_vars == <<c_real, c_opens, c_uses, c_queue, c_table, c_nused, c_stale, c_shown,
             c_broken>>
r_vars == <<r_attached, r_probes, r_stack, r_entry, r_ring, r_dropped, r_tally,
             r_calls, r_half, r_gone, r_rets>>
s_vars == <<s_engine, s_real, s_sp, s_stk, s_span_seq, s_cov, s_last, s_missed,
             s_unmatched, s_calls>>

Cache == INSTANCE FdCache WITH
       Keys <- {"x", "y", "z"}, Hash <- MCHash, Cap0 <- 2, MaxCap <- 4,
       QueueCap <- 1, MaxOpens <- 3, MaxUses <- 4, real <- c_real, opens <- c_opens,
       uses <- c_uses, queue <- c_queue, table <- c_table, nused <- c_nused,
       stale <- c_stale, shown <- c_shown, broken <- c_broken

Prop == INSTANCE PropRead WITH
       Threads <- {1, 2}, EntryCap <- 1, RingCap <- 1, MaxDepth <- 2, MaxCalls <- 3,
       attached <- r_attached, probes <- r_probes, stack <- r_stack,
       entry <- r_entry, ring <- r_ring, dropped <- r_dropped, tally <- r_tally,
       calls <- r_calls, half <- r_half, gone <- r_gone, rets <- r_rets

Span == INSTANCE SpanStack WITH
       Engines <- {"correlate", "funcs"}, Entry <- {"f", "g", "s"},
       SaveOnly <- {"s"}, Returns <- {"f", "s", "e"}, Others <- {"h"},
       MAX_SPAN_DEPTH <- 2, Hazards <- {"drop", "jump", "exit", "tids"}, TopSp <- 2,
       MaxNest <- 3, MaxCalls <- 3, engine <- s_engine, real <- s_real, sp <- s_sp,
       stk <- s_stk, span_seq <- s_span_seq, cov <- s_cov, last <- s_last,
       missed <- s_missed, unmatched <- s_unmatched, calls <- s_calls

(* A component that does not run has no state. *)
NoCache ==
    /\ c_real = 0 /\ c_opens = 0 /\ c_uses = 0 /\ c_queue = 0 /\ c_table = 0
    /\ c_nused = 0 /\ c_stale = 0 /\ c_shown = 0 /\ c_broken = 0

NoProp ==
    /\ r_attached = 0 /\ r_probes = 0 /\ r_stack = 0 /\ r_entry = 0
    /\ r_ring = 0 /\ r_dropped = 0 /\ r_tally = 0 /\ r_calls = 0 /\ r_half = 0
    /\ r_gone = 0 /\ r_rets = 0

NoSpan ==
    /\ s_engine = 0 /\ s_real = 0 /\ s_sp = 0 /\ s_stk = 0 /\ s_span_seq = 0
    /\ s_cov = 0 /\ s_last = 0 /\ s_missed = 0 /\ s_unmatched = 0 /\ s_calls = 0

ASSUME SpanConstants == Span!ConstantsOK

CallsInit ==
    /\ part \in {"calls", "cache", "prop", "span"}
    /\ Init
    /\ IF part = "cache" THEN Cache!Init ELSE NoCache
    /\ IF part = "prop" THEN Prop!Init ELSE NoProp
    /\ IF part = "span" THEN Span!Init ELSE NoSpan

CallsNext ==
    /\ \/ part = "calls" /\ Next /\ UNCHANGED <<c_vars, r_vars, s_vars>>
       \/ part = "cache" /\ Cache!Next /\ UNCHANGED <<vars, r_vars, s_vars>>
       \/ part = "prop" /\ Prop!Next /\ UNCHANGED <<vars, c_vars, s_vars>>
       \/ part = "span" /\ Span!Next /\ UNCHANGED <<vars, c_vars, r_vars>>
    /\ UNCHANGED part

CallsSpec == CallsInit /\ [][CallsNext]_<<part, vars, c_vars, r_vars, s_vars>>
-----------------------------------------------------------------------------
(* The properties of the other components; those of SyscallTrace keep      *)
(* their names.                                                            *)
\* The maps, queues, slots, counters and frames of the four components have their types
\* and stay within their bounds; the descriptor cache counts the slots in use.
TypesOK ==
    /\ TypeOK
    /\ part = "cache" => Cache!TypeOK
    /\ part = "prop" => Prop!TypeOK
    /\ part = "span" => Span!TypeOK

\* Until a drop breaks a probe sequence of the cache, a descriptor has one slot and the
\* worker shows a path the descriptor had.
CachedPathsTrue ==
    part = "cache" => Cache!DuplicateNeedsBrokenRun /\ Cache!FreshWhileUnbroken

\* A value reported at a return is that of the call that returns.
ReturnIsOwn == part = "prop" => Prop!ReturnIsOwn

\* A fully probed call with room for its entry has its return reported.
ReturnExpected == part = "prop" => Prop!ReturnExpected

\* No more spans are captured than were opened.
CapturedWithinOpened == part = "span" => Span!CapturedWithinOpened

\* The stack is a chain: each span's parent is the span below it.
ChainIntact == part = "span" => Span!ChainIntact

\* Every open call that was pushed is on the stack, and without the hazards an event
\* names exactly the calls it is in.
SpansExact == part = "span" => Span!OpenTracked /\ Span!SpansExact
=============================================================================
