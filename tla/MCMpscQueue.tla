----------------------------- MODULE MCMpscQueue -----------------------------
(* Two producers that race for a ticket; with capacity 2 and three pushes  *)
(* the first slot is used again, with capacity 1 the only slot is.         *)
EXTENDS MpscQueue
CONSTANTS p1, p2, v1, v2
MCProducers == {p1, p2}
MCValues == {v1, v2}
=============================================================================
