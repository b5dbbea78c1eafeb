------------------------------ MODULE EvQueue ------------------------------
(***************************************************************************)
(* The single-producer single-consumer byte queue between an engine's ring *)
(* poll thread and its worker thread (common/evqueue.c), driven as the     *)
(* syscalls and funcs engines drive it: the poll thread pushes until the   *)
(* run ends, then the teardown freezes the backlog, sets `done', reports   *)
(* progress while the worker drains and joins it (common/drain_progress.c).*)
(*                                                                         *)
(* Every call on the queue runs under its mutex, so a push, a progress     *)
(* read and one turn of the pop loop are one step each; the pop loop keeps *)
(* the mutex from one turn to the next after it skips an oversized record  *)
(* (worker = "locked").  A record is its sequence of payload bytes.        *)
(***************************************************************************)
EXTENDS Integers, Sequences

CONSTANTS Cap,       \* size of the ring in bytes
          OutCap,    \* size of the worker's record buffer
          Recs,      \* records the ring callback may see (sequences of bytes)
          MaxCalls   \* bound on the number of pushes

Byte == 0 .. 255

ASSUME CapAssumption == Cap \in Nat \ {0}

ASSUME OutCapAssumption == OutCap \in Nat

\* Payload lengths fit the 32-bit length field (the largest is a 32 KB snapshot).
ASSUME RecsAssumption == \A r \in Recs : r \in Seq(Byte) /\ Len(r) < 256 * 256 * 256

ASSUME MaxCallsAssumption == MaxCalls \in Nat

VARIABLES buf, head, tail, used,       \* the ring of struct anubee_evq
          done,                        \* no more pushes will come
          dropped, pushed, popped,     \* its counters
          worker,    \* where the worker thread is
          td,        \* where the thread that polls and tears down is
          total_bytes, total_recs, popped0,  \* frozen by drain_progress_begin
          pct,       \* last percentage the progress loop computed
          fifo,      \* history: records accepted and not yet consumed
          got,       \* history: records handed to process_event, in order
          calls      \* history: number of pushes attempted

ring == <<buf, head, tail, used>>
counters == <<dropped, pushed, popped>>
progress == <<total_bytes, total_recs, popped0, pct>>
vars == <<buf, head, tail, used, done, dropped, pushed, popped, worker, td,
          total_bytes, total_recs, popped0, pct, fifo, got, calls>>

-----------------------------------------------------------------------------
(* The ring arithmetic.                                                    *)

Fit(room, n) == IF room > n THEN n ELSE room

\* Plausible bug: the wrapped part copied from the start of src again.
q_in_Restart(b, at, src) ==
    LET n == Len(src)
        f == Fit(Cap - at, n)
    IN  [i \in 0 .. Cap - 1 |->
            IF i < n - f THEN src[i + 1]
            ELSE IF at <= i /\ i < at + f THEN src[i - at + 1]
            ELSE b[i]]

\* The ring after memcpy of src at `at', in two parts when it wraps.
q_in(b, at, src) ==
    LET n == Len(src)
        f == Fit(Cap - at, n)
    IN  [i \in 0 .. Cap - 1 |->
            IF i < n - f THEN src[f + i + 1]
            ELSE IF at <= i /\ i < at + f THEN src[i - at + 1]
            ELSE b[i]]

\* The n bytes read from `at', in two parts when they wrap.
q_out(b, at, n) ==
    LET f == Fit(Cap - at, n)
    IN  [k \in 1 .. n |-> IF k <= f THEN b[at + k - 1] ELSE b[k - f - 1]]

\* Advance of head or tail.
Step(at, n) == (at + n) % Cap

\* The 4-byte frame header: a uint32_t in memory order, least byte first.
Header(n) ==
    LET n1 == n \div 256
        n2 == n1 \div 256
        n3 == n2 \div 256
    IN  <<n % 256, n1 % 256, n2 % 256, n3 % 256>>

FrameLen(h) == h[1] + 256 * (h[2] + 256 * (h[3] + 256 * h[4]))

-----------------------------------------------------------------------------

evq_init ==
    /\ buf = [i \in 0 .. Cap - 1 |-> 0]   \* malloc: never read before it is written
    /\ head = 0
    /\ tail = 0
    /\ used = 0
    /\ done = FALSE
    /\ dropped = 0
    /\ pushed = 0
    /\ popped = 0

Init ==
    /\ evq_init
    /\ worker = "pop"
    /\ td = "poll"
    /\ total_bytes = 0
    /\ total_recs = 0
    /\ popped0 = 0
    /\ pct = 0
    /\ fifo = <<>>
    /\ got = <<>>
    /\ calls = 0

\* pthread_cond_signal: a waiting worker goes back to re-acquire the mutex.
Signal == worker' = IF worker = "waiting" THEN "pop" ELSE worker

MutexFree == worker # "locked"

\* Plausible bug: the room check forgets the header.
Full_NoHeader(r) == Cap - used < Len(r)

Full(r) == Cap - used < 4 + Len(r)

Push(r) ==
    /\ MutexFree
    /\ calls < MaxCalls
    /\ calls' = calls + 1
    /\ IF Full(r)
       THEN /\ dropped' = dropped + 1
            /\ UNCHANGED <<ring, pushed, worker, fifo>>
       ELSE /\ buf' = q_in(q_in(buf, head, Header(Len(r))), Step(head, 4), r)
            /\ head' = Step(Step(head, 4), Len(r))
            /\ used' = used + 4 + Len(r)
            /\ pushed' = pushed + 1
            /\ fifo' = Append(fifo, r)
            /\ Signal
            /\ UNCHANGED <<tail, dropped>>
    /\ UNCHANGED <<popped, done, td, progress, got>>

\* The ring callback copies one event into the queue; only the poll loop calls it.
evq_push(r) == td = "poll" /\ Push(r)

-----------------------------------------------------------------------------
(* anubee_evq_pop, one turn of its loop per step.                          *)

Popping == worker \in {"pop", "locked"}

PopWait ==
    /\ Popping
    /\ used = 0
    /\ ~done
    /\ worker' = "waiting"
    /\ UNCHANGED <<ring, counters, done, td, progress, fifo, got, calls>>

\* POSIX lets pthread_cond_wait return without a signal.
SpuriousWakeup ==
    /\ worker = "waiting"
    /\ worker' = "pop"
    /\ UNCHANGED <<ring, counters, done, td, progress, fifo, got, calls>>

\* Plausible bug: the worker leaves as soon as done is set.
PopExit_Early ==
    /\ Popping
    /\ done
    /\ worker' = "exited"
    /\ UNCHANGED <<ring, counters, done, td, progress, fifo, got, calls>>

PopExit ==
    /\ Popping
    /\ used = 0
    /\ done
    /\ worker' = "exited"
    /\ UNCHANGED <<ring, counters, done, td, progress, fifo, got, calls>>

NextLen == FrameLen(q_out(buf, tail, 4))

PopDeliver ==
    /\ Popping
    /\ used # 0
    /\ NextLen <= OutCap
    /\ got' = Append(got, q_out(buf, Step(tail, 4), NextLen))
    /\ tail' = Step(Step(tail, 4), NextLen)
    /\ used' = used - 4 - NextLen
    /\ popped' = popped + 1
    /\ fifo' = Tail(fifo)
    /\ worker' = "busy"
    /\ UNCHANGED <<buf, head, dropped, pushed, done, td, progress, calls>>

\* Plausible bug: the skipped record is not counted.
PopSkip_Uncounted ==
    /\ Popping
    /\ used # 0
    /\ NextLen > OutCap
    /\ tail' = Step(Step(tail, 4), NextLen)
    /\ used' = used - 4 - NextLen
    /\ fifo' = Tail(fifo)
    /\ worker' = "locked"
    /\ UNCHANGED <<buf, head, counters, done, td, progress, got, calls>>

PopSkip ==
    /\ Popping
    /\ used # 0
    /\ NextLen > OutCap
    /\ tail' = Step(Step(tail, 4), NextLen)
    /\ used' = used - 4 - NextLen
    /\ dropped' = dropped + 1
    /\ fifo' = Tail(fifo)
    /\ worker' = "locked"
    /\ UNCHANGED <<buf, head, pushed, popped, done, td, progress, got, calls>>

\* process_event on the record just popped, then the next pop.
ProcessEvent ==
    /\ worker = "busy"
    /\ worker' = "pop"
    /\ UNCHANGED <<ring, counters, done, td, progress, fifo, got, calls>>

-----------------------------------------------------------------------------
(* The end of the run.                                                     *)

\* The poll loop sees *stop (or a poll error) and the engine's run returns.
PollEnds ==
    /\ td = "poll"
    /\ td' = "begin"
    /\ UNCHANGED <<ring, counters, done, worker, progress, fifo, got, calls>>

\* Plausible bug: the records consumed so far are not recorded.
drain_progress_begin_NoBase ==
    /\ td = "begin"
    /\ MutexFree
    /\ total_bytes' = used
    /\ total_recs' = pushed - popped
    /\ td' = "close"
    /\ UNCHANGED <<ring, counters, done, worker, popped0, pct, fifo, got, calls>>

drain_progress_begin ==
    /\ td = "begin"
    /\ MutexFree
    /\ total_bytes' = used
    /\ popped0' = popped
    /\ total_recs' = pushed - popped
    /\ td' = "close"
    /\ UNCHANGED <<ring, counters, done, worker, pct, fifo, got, calls>>

\* Plausible bug: done is set but the worker is not woken.
SetDone_NoSignal ==
    /\ td = "close"
    /\ MutexFree
    /\ done' = TRUE
    /\ td' = "drain"
    /\ UNCHANGED <<ring, counters, worker, progress, fifo, got, calls>>

SetDone ==
    /\ td = "close"
    /\ MutexFree
    /\ done' = TRUE
    /\ Signal
    /\ td' = "drain"
    /\ UNCHANGED <<ring, counters, progress, fifo, got, calls>>

drain_pct(total, u) ==
    IF total = 0 THEN 100
    ELSE ((total - Fit(total, u)) * 100) \div total

\* One turn of the loop in drain_progress_join.
DrainTick ==
    /\ td = "drain"
    /\ MutexFree
    /\ IF used = 0
       THEN td' = "join" /\ pct' = pct
       ELSE td' = td /\ pct' = drain_pct(total_bytes, used)
    /\ UNCHANGED <<ring, counters, done, worker, total_bytes, total_recs, popped0,
                   fifo, got, calls>>

\* pthread_join returns; the drops are read and the queue is destroyed.
Join ==
    /\ td = "join"
    /\ worker = "exited"
    /\ td' = "over"
    /\ UNCHANGED <<ring, counters, done, worker, progress, fifo, got, calls>>

Over == td = "over" /\ UNCHANGED vars

Worker == PopWait \/ PopExit \/ PopDeliver \/ PopSkip \/ ProcessEvent

Teardown == drain_progress_begin \/ SetDone \/ DrainTick \/ Join

Next ==
    \/ \E r \in Recs : evq_push(r)
    \/ PopWait
    \/ SpuriousWakeup
    \/ PopExit
    \/ PopDeliver
    \/ PopSkip
    \/ ProcessEvent
    \/ PollEnds
    \/ drain_progress_begin
    \/ SetDone
    \/ DrainTick
    \/ Join
    \/ Over

Safe == Init /\ [][Next]_vars

\* Both threads are scheduled; whether the run is ever stopped is the user's
\* choice, and no spurious wakeup is relied on.
Spec == Safe /\ WF_vars(Worker) /\ WF_vars(Teardown)
-----------------------------------------------------------------------------
(* Properties.                                                             *)

Threads ==
    /\ worker \in {"pop", "locked", "waiting", "busy", "exited"}
    /\ td \in {"poll", "begin", "close", "drain", "join", "over"}

\* Every field of struct anubee_evq and of the progress record has its type,
\* and head, tail and used stay within the ring.
TypeOK ==
    /\ buf \in [0 .. Cap - 1 -> Byte]
    /\ head \in 0 .. Cap - 1
    /\ tail \in 0 .. Cap - 1
    /\ used \in 0 .. Cap
    /\ done \in BOOLEAN
    /\ dropped \in Nat /\ pushed \in Nat /\ popped \in Nat
    /\ Threads
    /\ total_bytes \in Nat /\ total_recs \in Nat /\ popped0 \in Nat
    /\ pct \in 0 .. 100
    /\ fifo \in Seq(Recs)
    /\ got \in Seq(Seq(Byte))
    /\ calls \in Nat

\* In ring b, the frame of record r starts `at' bytes behind position t.
FrameAt(b, t, r, at) ==
    /\ \A k \in 0 .. 3 : b[(t + (at + k)) % Cap] = Header(Len(r))[k + 1]
    /\ \A k \in 1 .. Len(r) : b[(t + (at + (3 + k))) % Cap] = r[k]

\* off[i] is where the frame of the i-th record of q starts: the first at
\* position t, each right behind the one before, the last one ending u bytes
\* behind t.
FramedBy(b, t, u, q, off) ==
    /\ off[1] = 0
    /\ off[Len(q) + 1] = u
    /\ \A i \in 1 .. Len(q) :
          /\ off[i + 1] = off[i] + (4 + Len(q[i]))
          /\ FrameAt(b, t, q[i], off[i])
          /\ \A j \in i + 1 .. Len(q) + 1 : off[i + 1] <= off[j]

Framing(b, t, u, q) ==
    \E off \in [1 .. Len(q) + 1 -> 0 .. u] : FramedBy(b, t, u, q, off)

\* The ring always parses into exactly the records accepted and not yet
\* consumed, frame after frame, across the wrap of q_in/q_out and across
\* oversized records that anubee_evq_pop skips: the framing never desyncs.
Framed ==
    /\ head = (tail + used) % Cap
    /\ Framing(buf, tail, used, fifo)

\* Every event handed to anubee_evq_push is delivered, counted in `dropped',
\* or still queued: none disappears without a trace in the coverage report,
\* whichever of the full-queue and the oversized path dropped it.
EveryEventAccounted ==
    /\ calls = popped + dropped + Len(fifo)
    /\ popped = Len(got)

\* While the teardown drains, the backlog that drain_progress_begin froze
\* bounds what is left and what has been done since (no percentage or n/m
\* label out of range), and when the worker has been joined nothing is left.
DrainExact ==
    /\ td \in {"close", "drain", "join", "over"} =>
          /\ used <= total_bytes
          /\ popped0 <= popped
          /\ popped - popped0 <= total_recs
    /\ td = "over" => used = 0 /\ fifo = <<>>

\* The percentage the progress loop shows never falls.
ProgressNeverFalls == [][pct' >= pct]_pct

\* Once the run has ended the teardown gets past the join: no wakeup of the
\* worker is lost between anubee_evq_pop's wait and the done flag.
DrainCompletes == td = "begin" ~> td = "over"

Fifo == INSTANCE EventFifo WITH
            out <- got, lost <- dropped, closed <- td # "poll",
            left <- worker = "exited"

\* The byte queue and its two threads implement the abstract event queue.
ImplementsFifo == Fifo!FifoSpec
=============================================================================
