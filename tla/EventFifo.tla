----------------------------- MODULE EventFifo -----------------------------
(***************************************************************************)
(* What an engine expects of its event queue: the records the poll thread  *)
(* hands over reach the worker whole, in order and at most once; a record  *)
(* that does not reach it is counted; once the producer has closed the     *)
(* queue the worker leaves only after it has taken everything.             *)
(* EvQueue implements this with a byte ring, a mutex and a condition       *)
(* variable.                                                               *)
(***************************************************************************)
EXTENDS Naturals, Sequences

CONSTANTS Recs,      \* the records a producer may hand over
          OutCap     \* the largest record the worker can take

VARIABLES fifo,      \* records accepted and not yet taken
          out,       \* records the worker has taken, in order
          lost,      \* number of records counted as dropped
          closed,    \* the producer has finished
          left       \* the worker has left

fvars == <<fifo, out, lost, closed, left>>

FifoInit ==
    /\ fifo = <<>>
    /\ out = <<>>
    /\ lost = 0
    /\ closed = FALSE
    /\ left = FALSE

Accept(r) ==
    /\ ~closed
    /\ fifo' = Append(fifo, r)
    /\ UNCHANGED <<out, lost, closed, left>>

Refuse ==
    /\ ~closed
    /\ lost' = lost + 1
    /\ UNCHANGED <<fifo, out, closed, left>>

Take ==
    /\ fifo # <<>>
    /\ ~left
    /\ Len(Head(fifo)) <= OutCap
    /\ out' = Append(out, Head(fifo))
    /\ fifo' = Tail(fifo)
    /\ UNCHANGED <<lost, closed, left>>

Discard ==
    /\ fifo # <<>>
    /\ ~left
    /\ Len(Head(fifo)) > OutCap
    /\ lost' = lost + 1
    /\ fifo' = Tail(fifo)
    /\ UNCHANGED <<out, closed, left>>

Close ==
    /\ ~closed
    /\ closed' = TRUE
    /\ UNCHANGED <<fifo, out, lost, left>>

Leave ==
    /\ closed
    /\ fifo = <<>>
    /\ ~left
    /\ left' = TRUE
    /\ UNCHANGED <<fifo, out, lost, closed>>

FifoNext ==
    \/ \E r \in Recs : Accept(r)
    \/ Refuse
    \/ Take
    \/ Discard
    \/ Close
    \/ Leave

FifoSafe == FifoInit /\ [][FifoNext]_fvars

FifoSpec == FifoSafe /\ WF_fvars(Take \/ Discard \/ Leave)
=============================================================================
