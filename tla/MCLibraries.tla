---------------------------- MODULE MCLibraries ----------------------------
(* The sequential data structures and algorithms of the runtime: `subject` *)
(* is the one under test, and f1 .. f8 are its variables; the registry of  *)
(* atomics, the machines and the trees, which are proved about, have their *)
(* own.                                                                    *)
(*                                                                         *)
(* Registry: four handles for three entries, so that it fills up, and any  *)
(* hash.  Map: hash functions under which all keys meet, a run of pairs    *)
(* wraps around the end, and two runs join.  Deque: a ring of two slots    *)
(* that doubles.  Planners: six points, obstacles between some of them; a  *)
(* grid of nine cells with and without walls.  Graph: all graphs of three  *)
(* calls on four nodes.  Stabilizers: two qubits.  Machine: three states   *)
(* with exit and enter callbacks and actions that fire events, three calls *)
(* deep, and a history of four entries.                                    *)
EXTENDS Libraries, Sequences, TLC

CONSTANTS h1, h2, h3, h4, a, b, c, d, x, y, NoPair, Junk

FourHandles == {h1, h2, h3, h4}
AllHashes == [FourHandles -> 0 .. 2]

Row(from, event, to) == [from |-> from, event |-> event, to |-> to]
TwoTables ==
    {<<Row(0, "go", 1), Row(1, "go", 2), Row(2, "go", 0),
       Row(0, "go", 2), Row(1, "stop", 0), Row(2, "stop", 2)>>,
     <<Row(0, "go", 1), Row(1, "stop", 0)>>}
ThreeCallbacks == {<<"exit", 0>>, <<"enter", 1>>, <<"enter", 2>>}

VARIABLES subject, f1, f2, f3, f4, f5, f6, f7, f8

after3 == <<f4, f5, f6, f7, f8>>
after4 == <<f5, f6, f7, f8>>
after5 == <<f6, f7, f8>>
fields == <<f1, f2, f3, after3>>
rest == <<vars, machine, planner>>

-----------------------------------------------------------------------------
Map == INSTANCE HashMap WITH
    Keys <- {a, b, c, d}, Values <- {1, 2}, LeastCap <- 4, Vacant <- NoPair,
    Hashes <- {[k \in {a, b, c, d} |-> 7],
               (a :> 7 @@ b :> 7 @@ c :> 6 @@ d :> 0),
               (a :> 3 @@ b :> 7 @@ c :> 3 @@ d :> 0)},
    hash <- f1, slots <- f2, len <- f3, dict <- f4

Lists == INSTANCE Collections WITH
    Items <- {x, y}, Keys <- 1 .. 3, Values <- {1, 2}, LeastCap <- 2, MaxLen <- 4,
    data <- f1, head <- f2, len <- f3, keys <- f4, vals <- f5, queued <- f6, mapped <- f7

-----------------------------------------------------------------------------
Lengths == << <<0, 1, 4, 2, 2, 5>>, <<1, 0, 5, 1, 3, 6>>, <<4, 5, 0, 6, 2, 1>>,
              <<2, 1, 6, 0, 4, 7>>, <<2, 3, 2, 4, 0, 3>>, <<5, 6, 1, 7, 3, 0>> >>
Between(p, q) == Lengths[p + 1][q + 1]
FivePoints == {0, 1, 2, 4, 5}

Roadmap == INSTANCE PRM WITH
    Points <- 0 .. 5, Distance <- Between, Starts <- {0}, Goals <- {5},
    Blocked <- {{1, 5}, {2, 3}, {3, 5}, {0, 4}, {1, 4}, {2, 5}},
    K <- 2, MaxNodes <- 4, Retries <- 7, Careful <- TRUE,
    nodes <- f1, edges <- f2, marked <- f3, path <- f4, last <- f5

Cells == (0 .. 2) \X (0 .. 2)
Walls(cells, cost) == [u \in Cells |-> IF u \in cells THEN cost ELSE 1]
Grid == INSTANCE DStar WITH
    W <- 3, H <- 3, Straight <- 5, Diagonal <- 7, Infinite <- 100000, Costs <- {1, 100000},
    Worlds <- {Walls({}, 1), Walls({<<1, 0>>, <<1, 1>>}, 100000),
               Walls({<<1, 1>>, <<1, 2>>, <<0, 1>>}, 3)},
    Starts <- {<<0, 0>>, <<2, 0>>}, Goal <- <<2, 2>>, MaxUpdates <- 2,
    c <- f1, g <- f2, rhs <- f3, heap <- f4, start <- f5, path <- f6, settled <- f7, updates <- f8

G == INSTANCE Graph WITH
    N <- 4, Weights <- {-2, 1, 4}, MaxCalls <- 3, adj <- f1, oneWay <- f2, calls <- f3

Qubits == INSTANCE Clifford WITH
    N <- 2, CodeGates <- {"h"}, tab <- f1, code <- f2, psi <- f3

ASSUME Map!HashMapAssumption /\ Lists!CollectionsAssumption
ASSUME Roadmap!PRMAssumption /\ Grid!DStarAssumption
ASSUME G!GraphAssumption /\ Qubits!CliffordAssumption

-----------------------------------------------------------------------------
Off5 == f6 = 0 /\ f7 = 0 /\ f8 = 0
Off4 == f5 = 0 /\ Off5
Off3 == f4 = 0 /\ Off4

SuiteInit ==
    /\ subject \in {"registry", "map", "lists", "trees", "roadmap", "grid", "graph", "qubits",
                   "machine"}
    /\ Init /\ Machine!Init /\ Trees!Init
    /\ subject # "registry" => hash = [h \in Handles |-> 0]
    /\ subject # "machine" => current = 0 /\ Len(table) = 2
    /\ \/ subject \in {"registry", "machine", "trees"} /\ f1 = 0 /\ f2 = 0 /\ f3 = 0 /\ Off3
       \/ subject = "map"      /\ Map!Init     /\ Off4
       \/ subject = "lists"    /\ Lists!Init   /\ f8 = 0
       \/ subject = "roadmap"  /\ Roadmap!Init /\ Off5
       \/ subject = "grid"     /\ Grid!Init
       \/ subject = "graph"    /\ G!Init       /\ Off3
       \/ subject = "qubits"   /\ Qubits!Init  /\ Off3

SuiteNext ==
    /\ UNCHANGED subject
    /\ \/ subject = "registry" /\ Next /\ UNCHANGED <<machine, planner, fields>>
       \/ subject = "map"      /\ Map!Next     /\ UNCHANGED <<rest, after4>>
       \/ subject = "lists"    /\ Lists!Next   /\ UNCHANGED <<rest, f8>>
       \/ subject = "trees"    /\ Trees!Next   /\ UNCHANGED <<vars, machine, fields>>
       \/ subject = "roadmap"  /\ Roadmap!Next /\ UNCHANGED <<rest, after5>>
       \/ subject = "grid"     /\ Grid!Next    /\ UNCHANGED rest
       \/ subject = "graph"    /\ G!Next       /\ UNCHANGED <<rest, after3>>
       \/ subject = "qubits"   /\ Qubits!Next  /\ UNCHANGED <<rest, after3>>
       \/ subject = "machine"  /\ Machine!Next /\ UNCHANGED <<vars, planner, fields>>

SuiteSpec == SuiteInit /\ [][SuiteNext]_<<subject, rest, fields>>

-----------------------------------------------------------------------------
\* HashMap.tla, Collections.tla: the map finds what was put and not removed,
\* the deque keeps its order, the sorted map its keys.
CollectionsAnswerRight ==
    /\ subject = "map" => Map!MapAnswersRight
    /\ subject = "lists" => Lists!DequeInOrder /\ Lists!MapInOrder
\* PRM.tla, DStar.tla: queries and replans find a shortest free path.
PlansAreShortest ==
    /\ subject = "roadmap" => Roadmap!QueriesFindShortest /\ Roadmap!LazyQueriesFindFree
    /\ subject = "grid" => Grid!PathIsShortest /\ Grid!ChangesAreOpen
\* Graph.tla: distances, orders, components and forests are right.  Searches
\* and topological orders read no weights, so graphs of weight 1 stand for all.
GraphAnswersRight ==
    subject = "graph" =>
        /\ G!DistancesAreShortest /\ G!PartsAndForest
        /\ (\A u \in 0 .. 3 : \A i \in DOMAIN f1[u] : f1[u][i].w = 1) => G!OrdersAreRight
\* Clifford.tla: the tableau describes the state, and a code's its space.
TableauDescribesState ==
    subject = "qubits" =>
        Qubits!StabilizersFixState /\ Qubits!Symplectic /\ Qubits!CodeIsSound /\ Qubits!CountsAgree
=============================================================================
