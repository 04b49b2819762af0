----------------------------- MODULE BoundedFifo -----------------------------
(***************************************************************************)
(* What every bounded queue of the runtime promises its users: items leave *)
(* in the order they were accepted, each exactly once, and never more than *)
(* Bound of them are held.  spsc_queue.nr, mpsc_queue.nr and the channels  *)
(* of nucleor_llvm_rt.c are shown to implement it.                         *)
(***************************************************************************)
EXTENDS Integers, Sequences

CONSTANTS Items,    \* what may be enqueued
          Bound     \* the most items held at once

VARIABLES fifo,     \* the items held, oldest first
          shut      \* no further item is accepted

fifoVars == <<fifo, shut>>

Init == fifo = <<>> /\ shut = FALSE

Accept(v) ==
    /\ ~shut
    /\ Len(fifo) < Bound
    /\ fifo' = Append(fifo, v)
    /\ UNCHANGED shut

Deliver ==
    /\ fifo # <<>>
    /\ fifo' = Tail(fifo)
    /\ UNCHANGED shut

Shut ==
    /\ shut' = TRUE
    /\ UNCHANGED fifo

Next == (\E v \in Items : Accept(v)) \/ Deliver \/ Shut

Spec == Init /\ [][Next]_fifoVars

\* With a consumer that keeps asking, no item is held for ever.
FairSpec == Spec /\ WF_fifoVars(Deliver)
=============================================================================
