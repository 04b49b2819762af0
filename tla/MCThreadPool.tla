---------------------------- MODULE MCThreadPool ----------------------------
(* Two workers, three tasks (more work than workers), two getters.  One    *)
(* run gives each future one getter, the other lets both ask for one.      *)
EXTENDS ThreadPool
CONSTANTS w1, w2, g1, g2, f1, f2, f3
MCWorkers == {w1, w2}
MCGetters == {g1, g2}
MCFutures == {f1, f2, f3}
OneGetterEach == {<<g1, f1>>, <<g2, f2>>, <<g1, f3>>}
MCFewFutures == {f1}
BothGet == {<<g1, f1>>, <<g2, f1>>}
=============================================================================
