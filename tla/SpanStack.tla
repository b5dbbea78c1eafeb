----------------------------- MODULE SpanStack -----------------------------
(***************************************************************************)
(* The per-thread span stack of the correlate and funcs engines            *)
(* (common/span_stack.bpf.h) against the calls one traced thread really    *)
(* makes.  Entry uprobes push a frame, uretprobes pop one, and frames      *)
(* whose return was not seen are dropped by comparing stack pointers; the  *)
(* system calls of correlate are tagged with the innermost frame.          *)
(*                                                                         *)
(* Threads share nothing but span_seq, which is bumped atomically, so one  *)
(* thread, and a successor that reuses its tid, is the whole story.  `real'*)
(* is the true call stack.  AArch64: a call leaves SP alone, the callee's  *)
(* prologue lowers it and its return restores it; only a function with a   *)
(* frame can make a call that is not a tail call.                          *)
(***************************************************************************)
EXTENDS Integers, Sequences, FiniteSetsExt

CONSTANTS Engines,        \* which engine may have loaded the probes
          Entry,          \* functions with an entry uprobe
          SaveOnly,       \* those of a return-only spec (funcs: uprobe_save_only)
          Returns,        \* functions with a uretprobe
          Others,         \* functions without a probe
          MAX_SPAN_DEPTH,
          Hazards,        \* of: "drop" (ring full), "jump" (longjmp, exception),
                          \* "exit" (thread ends, tid reused), "tids" (span_depth full)
          TopSp,          \* the highest stack pointer
          MaxNest,        \* bound on the depth of the true call stack
          MaxCalls        \* bound on the calls made

\* What the constants must be.
ConstantsOK ==
    /\ Engines \subseteq {"correlate", "funcs"}
    /\ MAX_SPAN_DEPTH \in Nat \ {0}
    /\ {TopSp, MaxNest, MaxCalls} \subseteq Nat

VARIABLES engine,         \* the engine that loaded the probes
          real,           \* the true call stack, innermost last
          sp,             \* the user stack pointer
          stk,            \* BPF maps: span_depth and, per slot, span_frames
          span_seq,       \* BPF map: the last span id
          cov,            \* COV_SPAN_OPEN and COV_URET_FIRED
          last,           \* the event emitted last: its span (a CALL's: the parent's)
                          \* and the span it should carry
          missed,         \* history: a tracked call was left without its uretprobe
          unmatched,      \* history: a pop has, or will have, no frame of its own call
          calls           \* history: calls made

vars == <<engine, real, sp, stk, span_seq, cov, last, missed, unmatched, calls>>

Slots == 0 .. MAX_SPAN_DEPTH - 1
NoFrame == [entry_sp |-> 0, span_id |-> 0, parent_span |-> 0]
NoEvent == [type |-> "none", span |-> 0, truth |-> 0]
Empty == [depth |-> 0, frames |-> [s \in Slots |-> NoFrame]]

Init ==
    /\ engine \in Engines
    /\ real = <<>>
    /\ sp = TopSp
    /\ stk = Empty
    /\ span_seq = 0
    /\ cov = [open |-> 0, fired |-> 0]
    /\ last = NoEvent
    /\ missed = FALSE
    /\ unmatched = FALSE
    /\ calls = 0

-----------------------------------------------------------------------------
(* The operations of span_stack.bpf.h, on the two maps of one thread.      *)

Held(k, s) == k.frames[s] # NoFrame

\* Forget the frames from slot d up (the entry of depth 0 is deleted).
Shrink(k, d) ==
    [depth |-> d,
     frames |-> [s \in Slots |-> IF d <= s /\ s < k.depth THEN NoFrame ELSE k.frames[s]]]

\* Drop frames from the top until one is live or missing.
span_stack_reconcile(k, cur_sp) ==
    Shrink(k, Max({0} \cup {d \in 1 .. k.depth :
                              ~Held(k, d - 1) \/ cur_sp <= k.frames[d - 1].entry_sp}))

TopId(k) == IF k.depth = 0 THEN 0 ELSE k.frames[k.depth - 1].span_id

\* Plausible bug: the parent is the frame the new one replaces in its slot.
span_stack_push_Parent(k, entry_sp, id, full) ==
    [depth |-> IF full THEN k.depth ELSE k.depth + 1,
     frames |-> [k.frames EXCEPT ![k.depth] =
        [entry_sp |-> entry_sp, span_id |-> id, parent_span |-> @.span_id]]]

\* The push below the depth cap; full: span_depth has no room for this thread.
span_stack_push(k, entry_sp, id, full) ==
    [depth |-> IF full THEN k.depth ELSE k.depth + 1,
     frames |-> [k.frames EXCEPT ![k.depth] =
        [entry_sp |-> entry_sp, span_id |-> id, parent_span |-> TopId(k)]]]

span_stack_pop(k) == IF k.depth = 0 THEN k ELSE Shrink(k, k.depth - 1)

-----------------------------------------------------------------------------
(* The thread and the probes it hits.                                      *)

\* The innermost open call that was given a span.
Open == {real[j].id : j \in DOMAIN real} \ {0}
Innermost == Max(Open \cup {0})

Drops == {FALSE} \cup (IF "drop" \in Hazards THEN {TRUE} ELSE {})

EmitEvent(drop, type, span, truth) ==
    last' = IF drop THEN NoEvent ELSE [type |-> type, span |-> span, truth |-> truth]

\* Whether the frame outlives the entry probe: funcs undoes the push when the
\* ring is full, unless the probe emits no event.
KeepsFrame(f, drop) == ~(engine = "funcs" /\ drop /\ f \notin SaveOnly)

\* corr_uprobe_entry, uprobe_open or uprobe_save_only, at stack pointer s; the
\* call is given span id (0: not tracked).
uprobe_entry(f, s, id, drop, full) ==
    LET k == span_stack_reconcile(stk, s)
        pushed == IF id = 0 THEN k ELSE span_stack_push(k, s, id, full)
        tracked == id # 0 /\ ~full
    IN  /\ stk' = IF KeepsFrame(f, drop) THEN pushed ELSE span_stack_pop(pushed)
        /\ span_seq' = IF id = 0 THEN span_seq ELSE id
        /\ cov' = IF id = 0 THEN cov ELSE [cov EXCEPT !.open = @ + 1]
        /\ EmitEvent(drop \/ f \in SaveOnly \/ (engine = "correlate" /\ id = 0),
                     "CALL", IF tracked THEN TopId(k) ELSE 0, IF tracked THEN Innermost ELSE 0)

\* The span id an entry at stack pointer s gets: none at the depth cap.
SpanId(s) == IF span_stack_reconcile(stk, s).depth >= MAX_SPAN_DEPTH THEN 0 ELSE span_seq + 1

InBody == real # <<>> => ~real[Len(real)].tail
HasStackFrame == real # <<>> => sp < real[Len(real)].entry

\* Function f is called (tail: by a branch, once the caller's frame is gone) and
\* lowers the stack pointer by d.
Call(f, d, tail, drop, full) ==
    LET s == IF tail THEN real[Len(real)].entry ELSE sp
        caller == IF tail THEN [real EXCEPT ![Len(real)].tail = TRUE] ELSE real
        id == IF f \in Entry THEN SpanId(s) ELSE 0
        kept == IF KeepsFrame(f, drop) /\ ~full THEN id ELSE 0
    IN  /\ calls < MaxCalls
        /\ f \in SaveOnly => engine = "funcs"
        /\ Len(real) < MaxNest
        /\ InBody
        /\ IF tail THEN real # <<>> ELSE HasStackFrame
        /\ s >= d
        /\ drop => f \in Entry
        /\ full => f \in Entry /\ "tids" \in Hazards /\ span_stack_reconcile(stk, s).depth = 0
        /\ calls' = calls + 1
        /\ real' = Append(caller, [fun |-> f, entry |-> s, tail |-> FALSE,
                                   id |-> kept])
        /\ sp' = s - d
        /\ unmatched' = (unmatched \/ (f \in Returns /\ kept = 0)
                                   \/ (f \in Entry /\ id = 0 /\ ~KeepsFrame(f, drop)))
        /\ IF f \in Entry THEN uprobe_entry(f, s, id, drop, full)
                          ELSE UNCHANGED <<stk, span_seq, cov, last>>
        /\ UNCHANGED <<engine, missed>>

\* Plausible bug: the frame is not popped.
uretprobe_NoPop(drop) ==
    IF stk.depth = 0
    THEN UNCHANGED <<stk, cov, last>>
    ELSE /\ UNCHANGED stk
         /\ cov' = IF drop \/ ~Held(stk, stk.depth - 1) THEN cov
                   ELSE [cov EXCEPT !.fired = @ + 1]
         /\ EmitEvent(drop \/ ~Held(stk, stk.depth - 1), "RETURN", TopId(stk),
                      real[Len(real)].id)

\* Plausible bug: the span is read after the pop.
uretprobe_PopFirst(drop) ==
    IF stk.depth = 0
    THEN UNCHANGED <<stk, cov, last>>
    ELSE /\ stk' = span_stack_pop(stk)
         /\ cov' = IF drop \/ ~Held(stk, stk.depth - 1) THEN cov
                   ELSE [cov EXCEPT !.fired = @ + 1]
         /\ EmitEvent(drop \/ ~Held(stk, stk.depth - 1), "RETURN", TopId(stk'),
                      real[Len(real)].id)

\* corr_uretprobe_ret or uretprobe_open: the top frame is taken for the returning
\* call's.
uretprobe(drop) ==
    IF stk.depth = 0
    THEN UNCHANGED <<stk, cov, last>>
    ELSE /\ stk' = span_stack_pop(stk)
         /\ cov' = IF drop \/ ~Held(stk, stk.depth - 1) THEN cov
                   ELSE [cov EXCEPT !.fired = @ + 1]
         /\ EmitEvent(drop \/ ~Held(stk, stk.depth - 1), "RETURN", TopId(stk),
                      real[Len(real)].id)

Return(drop) ==
    /\ real # <<>>
    /\ LET r == real[Len(real)]
       IN  /\ drop => r.fun \in Returns
           /\ IF r.fun \in Returns THEN uretprobe(drop) ELSE UNCHANGED <<stk, cov, last>>
           /\ sp' = r.entry
           /\ missed' = (missed \/ (r.id # 0 /\ r.fun \notin Returns))
    /\ real' = SubSeq(real, 1, Len(real) - 1)
    /\ UNCHANGED <<engine, span_seq, unmatched, calls>>

\* longjmp or an exception: control is back in the body of the j-th call (0: of the
\* thread's first function), and no uretprobe fires.
Jump(j) ==
    /\ "jump" \in Hazards
    /\ j > 0 => ~real[j].tail
    /\ sp' = real[j + 1].entry
    /\ real' = SubSeq(real, 1, j)
    /\ missed' = TRUE
    /\ UNCHANGED <<engine, stk, span_seq, cov, last, unmatched, calls>>

\* The thread exits wherever it is; a new one gets its tid and a stack from base.
ThreadExit(base) ==
    /\ "exit" \in Hazards
    /\ real' = <<>>
    /\ sp' = base
    /\ last' = NoEvent
    /\ missed' = TRUE
    /\ UNCHANGED <<engine, stk, span_seq, cov, unmatched, calls>>

\* correlate: a system call is emitted if there is a span to tag it with.
corr_on_svc(drop) ==
    /\ engine = "correlate"
    /\ InBody
    /\ stk' = span_stack_reconcile(stk, sp)
    /\ EmitEvent(drop \/ TopId(stk') = 0, "SYSCALL", TopId(stk'), Innermost)
    /\ UNCHANGED <<engine, real, sp, span_seq, cov, missed, unmatched, calls>>

Next ==
    \/ \E f \in Entry \cup Returns \cup Others, d \in 0 .. 1, tail \in BOOLEAN,
          drop \in Drops, full \in BOOLEAN :
          Call(f, d, tail, drop, full)
    \/ \E drop \in Drops : Return(drop)
    \/ \E j \in 0 .. Len(real) - 1 : Jump(j)
    \/ \E base \in 0 .. TopSp : ThreadExit(base)
    \/ \E drop \in Drops : corr_on_svc(drop)

Spec == Init /\ [][Next]_vars
-----------------------------------------------------------------------------
(* Properties.                                                             *)

\* The maps hold what their types say and the depth never passes the cap.
TypeOK ==
    /\ engine \in Engines
    /\ real \in Seq([fun : Entry \cup Returns \cup Others, entry : 0 .. TopSp,
                     tail : BOOLEAN, id : Nat])
    /\ sp \in 0 .. TopSp
    /\ stk.depth \in 0 .. MAX_SPAN_DEPTH
    /\ stk.frames \in [Slots -> [entry_sp : 0 .. TopSp, span_id : Nat, parent_span : Nat]]
    /\ span_seq \in 0 .. MaxCalls
    /\ cov \in [open : 0 .. MaxCalls, fired : Nat]
    /\ last \in [type : {"none", "CALL", "SYSCALL", "RETURN"}, span : Nat, truth : Nat]
    /\ {missed, unmatched} \subseteq BOOLEAN
    /\ calls \in 0 .. MaxCalls

Tracked == {stk.frames[s].span_id : s \in 0 .. stk.depth - 1}

\* As long as every tracked call has left by its uretprobe and every pop had a
\* frame of its own to take, the stack holds exactly the open calls, and every event
\* carries the span it should: a return that of its own call, a system call and a
\* nested call that of the innermost open one.  Tail calls included, and in
\* correlate dropped events too.
SpansExact == ~missed /\ ~unmatched => Tracked = Open /\ last.span = last.truth

\* Whatever returns are missed or not probed, and across the reuse of a tid, a call
\* that is still open keeps its frame: neither the stack-pointer test nor a uretprobe
\* that pops the top frame blindly takes it, as long as every pop had its own frame.
OpenTracked == ~unmatched => Open \subseteq Tracked

\* The frames below the depth are all there, and each one's parent is the frame
\* under it, with an older span: joining span to parent_span walks the stack.
ChainIntact ==
    \A s \in 0 .. stk.depth - 1 :
       /\ stk.frames[s].span_id > stk.frames[s].parent_span
       /\ stk.frames[s].parent_span = IF s = 0 THEN 0 ELSE stk.frames[s - 1].span_id

\* The coverage record's captured returns never outnumber the spans opened, so its
\* difference, the missed ones, does not wrap.
CapturedWithinOpened == cov.fired + stk.depth <= cov.open

\* What span_stack.bpf.h says of a tagged system call: there is an open call (a frame
\* goes when its function has returned, and when its thread exits).
SyscallInOpenSpan == last.type = "SYSCALL" => last.truth # 0

\* What funcs.bpf.c says of a full ring: the entry probe undoes its push.  It takes
\* no frame of a call that is open.
UndoOwnPush == [][calls' # calls => Tracked \cap Open \subseteq Tracked']_vars
=============================================================================
