-------------------------------- MODULE DStar --------------------------------
(***************************************************************************)
(* The incremental grid planner D* Lite of src/stdlib/runtime/dstar_rt.c,  *)
(* with its lazy heap: an entry is never removed or changed in place, and  *)
(* a popped one is tested against the present key of its cell.             *)
(*                                                                         *)
(* Lengths are integers: a straight edge costs Straight and a diagonal one *)
(* Diagonal where the code has 1 and the root of 2; the key modifier km is *)
(* 0 throughout, as in the code, so the start is set once, before the first *)
(* plan, as in the workflow of the file's header.  Cells cost at least 1:  *)
(* the code also takes costs from 0 to 1, for which its heuristic, the     *)
(* octile distance at cost 1, is too high and plans need not be shortest.  *)
(***************************************************************************)
EXTENDS Integers, FiniteSets, FiniteSetsExt, SequencesExt

CONSTANTS W, H,                \* size of the grid
          Straight, Diagonal,  \* edge lengths
          Costs,               \* what a cell may cost, Infinite for an obstacle
          Worlds,              \* costs of the cells before the first plan
          Starts, Goal,
          Infinite,            \* INF_COST
          MaxUpdates           \* bound on cost updates

DStarAssumption ==
  /\ W \in Nat \ {0} /\ H \in Nat \ {0}
  /\ Straight <= Diagonal /\ Diagonal <= 2 * Straight
  /\ \A k \in Costs : k >= 1

VARIABLES c, g, rhs, heap,   \* per cell, and the open entries [key, at]
          start,
          path,              \* path_x and path_y
          settled,           \* planned since the last change
          updates            \* cost updates so far

vars == <<c, g, rhs, heap, start, path, settled, updates>>

Cells == (0 .. W - 1) \X (0 .. H - 1)
Abs(n) == IF n < 0 THEN -n ELSE n
Length(dx, dy) == (Max({dx, dy}) - Min({dx, dy})) * Straight + Min({dx, dy}) * Diagonal

\* DX8 and DY8: the straight neighbours first.
Around == <<<<1, 0>>, <<-1, 0>>, <<0, 1>>, <<0, -1>>, <<1, 1>>, <<1, -1>>, <<-1, 1>>, <<-1, -1>>>>
Neighbors(u) == SelectSeq([k \in 1 .. 8 |-> <<u[1] + Around[k][1], u[2] + Around[k][2]>>],
                          LAMBDA v : v \in Cells)

Edge(cost, u, v) ==
  LET k == Max({cost[u], cost[v]})
  IN IF k >= Infinite THEN Infinite ELSE k * Length(Abs(u[1] - v[1]), Abs(u[2] - v[2]))

-----------------------------------------------------------------------------
(* Cells and their keys; s stands for the cells and the heap of the planner *)

Heuristic(from, u) == Length(Abs(u[1] - from[1]), Abs(u[2] - from[2]))
Key(s, u) == LET m == Min({s.g[u], s.rhs[u]}) IN <<m + Heuristic(s.start, u), m>>
KeyLess(k, l) == k[1] < l[1] \/ (k[1] = l[1] /\ k[2] < l[2])
EntryLess(a, b) == KeyLess(a.key, b.key)

Swapped(h, i, j) == [h EXCEPT ![i] = h[j], ![j] = h[i]]

\* The array heap of _heap_push and _heap_pop: its index i is i + 1 here.
RECURSIVE SiftUp(_, _)
SiftUp(h, i) ==
  IF i > 1 /\ EntryLess(h[i], h[i \div 2]) THEN SiftUp(Swapped(h, i, i \div 2), i \div 2) ELSE h

RECURSIVE SiftDown(_, _)
SiftDown(h, i) ==
  LET lesser(j, k) == IF k <= Len(h) /\ EntryLess(h[k], h[j]) THEN k ELSE j
      best == lesser(lesser(i, 2 * i), 2 * i + 1)
  IN IF best = i THEN h ELSE SiftDown(Swapped(h, i, best), best)

\* The last entry takes the place of the first one.
Popped(h) ==
  IF Len(h) = 1 THEN <<>> ELSE SiftDown([Front(h) EXCEPT ![1] = Last(h)], 1)

Opened(s, u) ==
  [s EXCEPT !.heap = SiftUp(Append(@, [key |-> Key(s, u), at |-> u]), Len(@) + 1)]

UpdateVertex(s, u) ==
  LET ahead == {Edge(s.c, u, v) + s.g[v] : v \in {v \in Range(Neighbors(u)) : Edge(s.c, u, v) < Infinite}}
      t == IF u = Goal THEN s ELSE [s EXCEPT !.rhs[u] = Min({Infinite} \cup ahead)]
  IN IF t.g[u] # t.rhs[u] THEN Opened(t, u) ELSE t

UpdateAll(s, cells) == FoldLeft(UpdateVertex, s, cells)

\* One turn of the loop in _compute_shortest_path: the first entry is popped.
Expanded(s) ==
  LET top == s.heap[1]
      u == top.at
      t == [s EXCEPT !.heap = Popped(@)]
  IN CASE KeyLess(top.key, Key(s, u)) -> Opened(t, u)
       [] ~KeyLess(top.key, Key(s, u)) /\ s.g[u] = s.rhs[u] -> t
       [] ~KeyLess(top.key, Key(s, u)) /\ s.g[u] > s.rhs[u] ->
            UpdateAll([t EXCEPT !.g[u] = s.rhs[u]], Neighbors(u))
       [] ~KeyLess(top.key, Key(s, u)) /\ s.g[u] < s.rhs[u] ->
            UpdateAll([t EXCEPT !.g[u] = Infinite], <<u>> \o Neighbors(u))

RECURSIVE ComputeShortestPath(_, _)
ComputeShortestPath(s, loops) ==
  IF \/ s.heap = <<>>
     \/ loops = 0
     \/ ~KeyLess(s.heap[1].key, Key(s, s.start)) /\ s.rhs[s.start] = s.g[s.start]
  THEN s ELSE ComputeShortestPath(Expanded(s), loops - 1)

\* Descends from the start to the cheapest neighbour, the first of equals.
RECURSIVE Descent(_, _, _)
Descent(s, walked, steps) ==
  LET at == walked[Len(walked)]
      onward == SelectSeq(Neighbors(at), LAMBDA v : Edge(s.c, at, v) + s.g[v] < Infinite)
      cost(v) == Edge(s.c, at, v) + s.g[v]
      best == Min({i \in DOMAIN onward : \A j \in DOMAIN onward : cost(onward[i]) <= cost(onward[j])})
  IN IF at = Goal THEN walked
     ELSE IF onward = <<>> \/ steps = 0 THEN <<>>
     ELSE Descent(s, Append(walked, onward[best]), steps - 1)

ExtractPath(s) == IF s.g[s.start] >= Infinite THEN <<>> ELSE Descent(s, <<s.start>>, W * H + 16)

-----------------------------------------------------------------------------
Planner == [c |-> c, g |-> g, rhs |-> rhs, heap |-> heap, start |-> start]
Blank == [u \in Cells |-> Infinite]

Become(s) ==
  /\ c' = s.c /\ g' = s.g /\ rhs' = s.rhs /\ heap' = s.heap
  /\ start' = s.start

Search(s) ==
  LET found == ComputeShortestPath(s, W * H * 50 + 1000)
  IN /\ Become(found)
     /\ path' = ExtractPath(found)
     /\ settled' = TRUE
     /\ UNCHANGED updates

Init ==
  /\ c \in Worlds
  /\ g = Blank /\ rhs = Blank /\ heap = <<>>
  /\ start \in Starts
  /\ path = <<>> /\ settled = FALSE /\ updates = 0

Plan ==
  Search(Opened([Planner EXCEPT !.g = Blank, !.rhs = [Blank EXCEPT ![Goal] = 0], !.heap = <<>>], Goal))

\* Mutant: the cell itself is not evaluated again.
UpdateCostAround(u, k) ==
  /\ updates < MaxUpdates
  /\ rhs[Goal] = 0
  /\ Become(UpdateAll([Planner EXCEPT !.c[u] = k], Neighbors(u)))
  /\ updates' = updates + 1
  /\ settled' = FALSE
  /\ UNCHANGED path

UpdateCost(u, k) ==
  /\ updates < MaxUpdates
  /\ rhs[Goal] = 0    \* the caller has planned
  /\ Become(UpdateAll([Planner EXCEPT !.c[u] = k], <<u>> \o Neighbors(u)))
  /\ updates' = updates + 1
  /\ settled' = FALSE
  /\ UNCHANGED path

Replan ==
  /\ rhs[Goal] = 0
  /\ Search(Planner)

Next ==
  \/ Plan
  \/ \E u \in Cells, k \in Costs : UpdateCost(u, k)
  \/ Replan

Spec == Init /\ [][Next]_vars

-----------------------------------------------------------------------------
(* The distance of every cell to the goal by its definition.               *)

RECURSIVE Relaxed(_, _)
Relaxed(d, rounds) ==
  LET via(u) == Min({d[u]} \cup {Edge(c, u, v) + d[v] : v \in {v \in Range(Neighbors(u)) :
                                                                 Edge(c, u, v) < Infinite}})
  IN IF rounds = 0 THEN d ELSE Relaxed([u \in Cells |-> via(u)] @@ d, rounds - 1)
TrueDistance == Relaxed([Blank EXCEPT ![Goal] = 0], W * H)

(***************************************************************************)
(* After a plan or a replan, however many costs were changed in between,   *)
(* the start has its true distance to the goal, the stored path leads from *)
(* the start to the goal at exactly that cost, and there is no path only   *)
(* if the goal cannot be reached.                                          *)
(***************************************************************************)
PathIsShortest ==
  settled =>
    LET cost == MapThenSumSet(LAMBDA i : Edge(c, path[i], path[i + 1]), 1 .. Len(path) - 1)
    IN /\ g[start] = TrueDistance[start]
       /\ IF path = <<>> THEN g[start] >= Infinite
          ELSE path[1] = start /\ Last(path) = Goal /\ cost = g[start]

(***************************************************************************)
(* A cell whose two estimates differ has an entry in the heap that is not  *)
(* behind its present key: an incremental search that starts from the heap *)
(* cannot overlook a change.                                               *)
(***************************************************************************)
ChangesAreOpen ==
  \A u \in Cells : g[u] # rhs[u] =>
    \E i \in DOMAIN heap : heap[i].at = u /\ ~KeyLess(Key(Planner, u), heap[i].key)
=============================================================================
