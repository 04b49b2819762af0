-------------------------- MODULE MCOwnershipMaps --------------------------
(* Two indices, for maps of two pairs on; malloc gives addresses out again. *)
EXTENDS OwnershipMaps
FewWrites == {<<<<"os", "v">>, 1>>, <<<<"os", "v">>, 2>>, <<<<"freed", "w">>, 1>>, <<<<"init", "w">>, 1>>}
=============================================================================
