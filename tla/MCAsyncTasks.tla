---------------------------- MODULE MCAsyncTasks ----------------------------
(* Three spawns over two addresses, so that one is used again, a registry    *)
(* that two live tasks fill, and every handle awaited again.                 *)
EXTENDS AsyncTasks
CONSTANTS c1, c2, a1, a2
MCClients == {c1, c2}
TwoAddresses == {a1, a2}
AllThree == {1, 2, 3}
=============================================================================
