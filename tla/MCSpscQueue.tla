----------------------------- MODULE MCSpscQueue -----------------------------
(* Two values make a swapped or repeated item visible; capacity 2 and four *)
(* pushes use every slot twice.                                            *)
EXTENDS SpscQueue
CONSTANTS v1, v2
MCValues == {v1, v2}
=============================================================================
