-------------------------------- MODULE RRT --------------------------------
(***************************************************************************)
(* The sampling planners of src/stdlib/runtime/rrt_rt.c: RRT with a goal   *)
(* point or a goal region, RRT-Connect, RRT* and informed RRT*, path       *)
(* shortcutting, all on one tree that the caller roots and may plan on     *)
(* several times.                                                          *)
(*                                                                         *)
(* A configuration is one of finitely many Points with integer distances;  *)
(* a step toward a sample that does not end on one of them counts as       *)
(* refused by the caller's collision test, and so does a long segment that *)
(* is Blocked.  The random generator is a free choice of samples, and the  *)
(* iteration bound a free choice of when to stop.  Indices are the code's  *)
(* plus one: node 1 is the root, parent 0 the code's -1.                   *)
(***************************************************************************)
EXTENDS Integers, FiniteSets, FiniteSetsExt, SequencesExt

CONSTANTS Points,
          Roots, Goals,  \* where callers start and want to go
          Distance(_, _),
          Step, Radius,  \* step_bits and radius_bits
          Blocked,       \* pairs of points with an obstacle on the segment
          Region,        \* the box of nuc_rrt_plan_region
          NeighborBuf,   \* 64 in the code: neighbours that are rewired
          ConnectSteps,  \* 64 in the code: steps of the tree that follows
          Garbage,       \* what memory that was never written may hold
          Careful        \* callers avoid the calls that UsableAgain excludes

RRTAssumption ==
  /\ Step \in Nat \ {0} /\ ConnectSteps \in Nat
  /\ Roots \subseteq Points /\ Goals \subseteq Points
  /\ \A a, b, c \in Points : /\ Distance(a, b) \in Nat /\ (Distance(a, b) = 0 <=> a = b)
                             /\ Distance(a, b) = Distance(b, a)
                             /\ Distance(a, c) <= Distance(a, b) + Distance(b, c)
  /\ \A a, b \in Points : {a, b} \in Blocked => Distance(a, b) >= 2 * Step

VARIABLES tree,      \* r->configs, r->parents, _rrt_cost and r->count
          goalTree,  \* the tree g of nuc_rrt_connect_plan
          path,      \* r->path_indices
          call       \* the planner that runs, or the one that returned last

vars == <<tree, goalTree, path, call>>

Unknown == -1
Planners == {"rrt", "region", "connect", "star", "informed"}
Stars == {"star", "informed"}

-----------------------------------------------------------------------------
(* Trees *)

Node(q, parent, cost) == [at |-> q, parent |-> parent, cost |-> cost]
Grown(t, q, parent) == Append(t, Node(q, parent, Unknown))

Nearest(t, p) ==
  Min({i \in DOMAIN t : \A j \in DOMAIN t : Distance(t[i].at, p) <= Distance(t[j].at, p)})

\* Where a step from a toward p ends: nowhere, or at one point.
Steered(a, p) ==
  IF Distance(a, p) <= Step THEN {p} \ {a}
  ELSE {q \in Points : Distance(a, q) = Step /\ Distance(a, q) + Distance(q, p) = Distance(a, p)}

\* Intermediate samples are taken every Step, so a short segment has none.
SegmentFree(a, b) == {a, b} \notin Blocked

\* The parents from node i up, root first.  The code's loops stop at a node
\* without parent only; these also stop when they have gone round the tree.
Climb(t, i) ==
  LET back[k \in 1 .. Len(t)] ==
        LET rest == back[k - 1]
            p == t[Head(rest)].parent
        IN IF k = 1 THEN <<i>> ELSE IF p = 0 THEN rest ELSE <<p>> \o rest
  IN back
Branch(t, i) == Climb(t, i)[Len(t)]

-----------------------------------------------------------------------------
(* Calls *)

Idle == [kind |-> "none", running |-> FALSE, found |-> FALSE]
Running == call.running
Return(found) == [call EXCEPT !.running = FALSE, !.found = found, !.active = "start"]

Init ==
  /\ \E root \in Roots : tree = <<Node(root, 0, Unknown)>>
  /\ goalTree = <<>> /\ path = <<>> /\ call = Idle

SetRoot ==
  /\ ~Running
  /\ \E root \in Roots : tree' = <<Node(root, 0, Unknown)>>
  /\ call' = Idle
  /\ UNCHANGED <<goalTree, path>>

\* No goal tree was appended to the tree, and RRT* knows the costs of its nodes.
UsableAgain(kind) ==
  /\ \A i \in 2 .. Len(tree) : tree[i].parent # 0
  /\ kind \in Stars => \A i \in 2 .. Len(tree) : tree[i].cost # Unknown

\* RRT* zeroes the cost of the root; what other planners never set is garbage.
Begin(kind, goal) ==
  /\ ~Running
  /\ Careful => UsableAgain(kind)
  /\ call' = [kind |-> kind, goal |-> goal, running |-> TRUE, found |-> FALSE,
              best |-> 0, bestCost |-> 0, active |-> "start"]
  /\ goalTree' = IF kind = "connect" THEN <<Node(goal, 0, Unknown)>> ELSE <<>>
  /\ IF kind \in Stars
     THEN \E junk \in [{i \in 2 .. Len(tree) : tree[i].cost = Unknown} -> Garbage] :
            tree' = [i \in DOMAIN tree |->
                       [tree[i] EXCEPT !.cost = IF i = 1 THEN 0
                                                ELSE IF i \in DOMAIN junk THEN junk[i] ELSE @]]
     ELSE tree' = tree
  /\ UNCHANGED path

Finish(newPath) ==
  /\ path' = newPath
  /\ call' = Return(TRUE)

\* The iterations run out.
Stop ==
  /\ Running
  /\ IF call.best = 0
     THEN call' = Return(FALSE) /\ path' = path
     ELSE Finish(Branch(tree, call.best))
  /\ goalTree' = <<>>
  /\ UNCHANGED tree

-----------------------------------------------------------------------------
(* nuc_rrt_plan and nuc_rrt_plan_region: one sample *)

Arrived(q) == IF call.kind = "region" THEN q \in Region ELSE Distance(q, call.goal) <= Step

GrowToward(sample) ==
  LET near == Nearest(tree, sample)
  IN /\ Running /\ call.kind \in {"rrt", "region"}
     /\ \E q \in Steered(tree[near].at, sample) :
          /\ tree' = Grown(tree, q, near)
          /\ IF Arrived(q) THEN Finish(Branch(tree', Len(tree'))) ELSE UNCHANGED <<path, call>>
     /\ UNCHANGED goalTree

-----------------------------------------------------------------------------
(* nuc_rrt_star_plan and its informed variant: one sample *)

\* Informed samples lie in the ellipsoid around the root and the goal.
Sampled(p) ==
  call.kind = "informed" /\ call.best # 0
    => Distance(tree[1].at, p) + Distance(p, call.goal) <= call.bestCost

Neighbors(q) == {i \in DOMAIN tree : Distance(tree[i].at, q) <= Radius}
Kept(q) == {i \in Neighbors(q) : Cardinality({j \in Neighbors(q) : j < i}) < NeighborBuf}
Through(i, q) == tree[i].cost + Distance(tree[i].at, q)

\* The nearest node, unless a neighbour with a free segment is cheaper.
BestParent(near, q) ==
  LET candidates == {near} \cup {i \in Neighbors(q) : SegmentFree(tree[i].at, q)}
      best == {i \in candidates : \A j \in candidates : Through(i, q) <= Through(j, q)}
  IN IF near \in best THEN near ELSE Min(best)

\* Mutant: every neighbour with a free segment is rewired.
RewiresAny(i, q, cost) == SegmentFree(q, tree[i].at)

Rewires(i, q, cost) ==
  /\ cost + Distance(tree[i].at, q) < tree[i].cost
  /\ SegmentFree(q, tree[i].at)

StarGrow(sample) ==
  LET near == Nearest(tree, sample)
      new == Len(tree) + 1
  IN /\ Running /\ call.kind \in Stars
     /\ Sampled(sample)
     /\ \E q \in Steered(tree[near].at, sample) :
          LET parent == BestParent(near, q)
              cost == Through(parent, q)
              rewired == {i \in Kept(q) \ {parent} : Rewires(i, q, cost)}
              total == cost + Distance(q, call.goal)
          IN /\ tree' = [i \in 1 .. new |->
                           CASE i = new -> Node(q, parent, cost)
                             [] i \in rewired -> Node(tree[i].at, new, cost + Distance(tree[i].at, q))
                             [] OTHER -> tree[i]]
             /\ call' = IF Distance(q, call.goal) <= Step /\ (call.best = 0 \/ total < call.bestCost)
                        THEN [call EXCEPT !.best = new, !.bestCost = total] ELSE call
     /\ UNCHANGED <<goalTree, path>>

-----------------------------------------------------------------------------
(* nuc_rrt_connect_plan: one tree grows by a sample, the other follows *)

Active == IF call.active = "start" THEN tree ELSE goalTree
Other == IF call.active = "start" THEN goalTree ELSE tree

\* One step of the tree s.t toward q.
Ahead(s, q) ==
  LET near == Nearest(s.t, q)
      next == Steered(s.t[near].at, q)
      p == CHOOSE p \in next : TRUE
  IN IF s.met \/ s.stuck THEN s
     ELSE IF next = {} THEN [s EXCEPT !.stuck = TRUE]
     ELSE [s EXCEPT !.t = Grown(s.t, p, near), !.met = Distance(p, q) <= Step]

\* The other tree takes steps toward the new node until it is one step away,
\* one is refused, or it has taken all it may.
Following(t, q) ==
  LET reach[k \in 0 .. ConnectSteps] ==
        IF k = 0 THEN [t |-> t, met |-> FALSE, stuck |-> FALSE]
        ELSE Ahead(reach[k - 1], q)
  IN reach
Follow(t, q) == Following(t, q)[ConnectSteps]

\* The goal tree goes behind the start tree, without parents.
Appended(t, g) == t \o [i \in DOMAIN g |-> Node(g[i].at, 0, Unknown)]
Stitched(t, i, g, j) == Branch(t, i) \o Reverse([k \in DOMAIN Branch(g, j) |-> Branch(g, j)[k] + Len(t)])

Swap == call' = [call EXCEPT !.active = IF @ = "start" THEN "goal" ELSE "start"]

ConnectRefused(sample) ==
  /\ Running /\ call.kind = "connect"
  /\ Steered(Active[Nearest(Active, sample)].at, sample) = {}
  /\ Swap
  /\ UNCHANGED <<tree, goalTree, path>>

ConnectGrow(sample) ==
  LET near == Nearest(Active, sample)
  IN /\ Running /\ call.kind = "connect"
     /\ \E q \in Steered(Active[near].at, sample) :
          LET grown == Grown(Active, q, near)
              other == Follow(Other, q)
              t == IF call.active = "start" THEN grown ELSE other.t
              g == IF call.active = "start" THEN other.t ELSE grown
          IN IF other.met
             THEN /\ tree' = Appended(t, g)
                  /\ goalTree' = <<>>
                  /\ Finish(Stitched(t, Len(t), g, Len(g)))
             ELSE /\ tree' = t /\ goalTree' = g
                  /\ Swap
                  /\ UNCHANGED path

-----------------------------------------------------------------------------
(* nuc_rrt_shortcut_path: one pair of waypoints *)

Shortcut(i, j) ==
  /\ ~Running
  /\ call.found
  /\ j >= i + 2
  /\ SegmentFree(tree[path[i]].at, tree[path[j]].at)
  /\ path' = SubSeq(path, 1, i) \o SubSeq(path, j, Len(path))
  /\ UNCHANGED <<tree, goalTree, call>>

Next ==
  \/ SetRoot
  \/ \E kind \in Planners, goal \in Goals : Begin(kind, goal)
  \/ \E sample \in Points : GrowToward(sample)
  \/ \E sample \in Points : StarGrow(sample)
  \/ \E sample \in Points : ConnectRefused(sample)
  \/ \E sample \in Points : ConnectGrow(sample)
  \/ \E i, j \in DOMAIN path : Shortcut(i, j)
  \/ Stop

Spec == Init /\ [][Next]_vars

-----------------------------------------------------------------------------
(***************************************************************************)
(* The walk from any node toward its parents ends, however often RRT*      *)
(* rewired it: the parents never form a ring, and the loops that measure   *)
(* and write a path terminate.                                             *)
(***************************************************************************)
ParentsEnd ==
  /\ \A i \in DOMAIN tree : tree[Branch(tree, i)[1]].parent = 0
  /\ \A i \in DOMAIN goalTree : Branch(goalTree, i)[1] = 1

(***************************************************************************)
(* The cost RRT* keeps for a node is never below the length of the walk    *)
(* from the root to it: rewiring may leave the costs of descendants too    *)
(* high, never too low, and a returned path is as short as it was thought. *)
(***************************************************************************)
Along(t, p) ==
  LET length[k \in 1 .. Len(p)] ==
        IF k = 1 THEN 0 ELSE length[k - 1] + Distance(t[p[k - 1]].at, t[p[k]].at)
  IN length
Length(t, p) == Along(t, p)[Len(p)]
CostsCoverLengths ==
  /\ \A i \in DOMAIN tree : tree[i].cost # Unknown => Length(tree, Branch(tree, i)) <= tree[i].cost
  /\ call.kind \in Stars /\ call.found
       => Length(tree, path) + Distance(tree[Last(path)].at, call.goal) <= call.bestCost

(***************************************************************************)
(* After a planner returned 1, and after any shortcuts, the path starts at *)
(* the root, every hop is a free segment, and it ends where the planner    *)
(* promised: within a step of the goal, in the region, or at the goal.     *)
(***************************************************************************)
PathUsable ==
  call.found =>
    /\ path # <<>>
    /\ path[1] = 1
    /\ \A k \in 1 .. Len(path) - 1 : SegmentFree(tree[path[k]].at, tree[path[k + 1]].at)
    /\ LET end == tree[Last(path)].at
       IN CASE call.kind = "region"  -> end \in Region
            [] call.kind = "connect" -> end = call.goal
            [] OTHER                 -> Distance(end, call.goal) <= Step
=============================================================================
