----------------------------- MODULE MCCompiler -----------------------------
(* The compiler's sequential parts and its build cache.  `subject` is the   *)
(* part under test; the others stay as they start.                          *)
(*                                                                          *)
(* Optimizer, on 3-bit integers: blocks over two slots with loads and       *)
(* stores, five instructions long; and blocks of three signed operations on *)
(* values known and unknown, with calls.  Operations stand for others that  *)
(* the passes treat as them.  Build cache: three builds by two              *)
(* builders to two outputs, of a source that is linked, with and without    *)
(* the cache, and of one that is not, side by side in any order, one of     *)
(* them killed anywhere.  Ownership maps: maps of one and of two pairs      *)
(* cross both thresholds, three maps compete for two indices, and freed     *)
(* addresses are given out again.                                           *)
EXTENDS Compiler, Bitwise, TLC

VARIABLES subject

FewWrites ==
    {<<<<"os", "v">>, 1>>, <<<<"os", "v">>, 2>>, <<<<"freed", "w">>, 1>>, <<<<"by", "w">>, 3>>}

\* Executables of one source, by both hashes, and texts of the other.
FewCommands ==
    Plain \X Outs \X BOOLEAN \X {TRUE} \cup (Sources \ Plain) \X Outs \X {TRUE} \X {FALSE}

AndBits(a, b) == a & b
OrBits(a, b) == a | b
XorBits(a, b) == a ^^ b

FewLiterals == {-4, -1, 0}
FewInputs == {-1, 2}
SignedOps == {"add_ov", "add", "sub", "mul", "div", "mod", "eq", "slt", "and", "xor"}
AllOps == SignedOps \cup {"const", "load", "store", "param", "call", "user_call"}
TwoMixes ==
    {[made |-> {<<"const", -4>>} \cup {<<"load", 0>>, <<"store", 0>>, <<"store", 1>>}, insts |-> 5],
     [made |-> {"const"} \X FewLiterals \cup (SignedOps \cup {"param", "call", "user_call"}) \X {0}, insts |-> 3]}

ASSUME NoUnsigned

\* Builders are alike, and so are outputs.
BuildersAndOuts == Permutations(Builders) \cup Permutations(Outs)

SuiteInit ==
    /\ subject \in {"optimizer", "cache", "ownership"}
    /\ OptimizerInit /\ Init /\ Own!Init

SuiteNext ==
    /\ UNCHANGED subject
    /\ \/ subject = "optimizer" /\ OptimizerNext /\ UNCHANGED <<buildCache, ownership>>
       \/ subject = "cache" /\ Next /\ UNCHANGED <<optimizer, ownership>>
       \/ subject = "ownership" /\ Own!Next /\ UNCHANGED <<optimizer, buildCache>>

SuiteSpec == SuiteInit /\ [][SuiteNext]_<<subject, optimizer, buildCache, ownership>>
=============================================================================
