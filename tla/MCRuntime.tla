------------------------------ MODULE MCRuntime ------------------------------
(* A small instance of Runtime.                                             *)
(*                                                                          *)
(* Barrier: three parties that meet three times, so that a fast thread may  *)
(* be back, twice, before a slow one has left.  Channel: enough senders and *)
(* receivers for a signal to choose among sleepers; s2 sends and receives,  *)
(* s1 sends and closes.  Async: three spawns over three addresses, one of   *)
(* which may be used again, and a registry that two live tasks fill; the    *)
(* handle of the last spawn, whose address nobody gets, may be awaited      *)
(* again.                                                                   *)
EXTENDS Runtime
CONSTANTS t1, t2, t3, s1, s2, r1, r2, v1, v2, c1, c2, a1, a2, a3

ThreeThreads == {t1, t2, t3}
TwoSenders == {s1, s2}
ThreeReceivers == {r1, r2, s2}
==============================================================================
