-------------------------------- MODULE PRM --------------------------------
(***************************************************************************)
(* The probabilistic roadmaps of src/stdlib/runtime/prm_rt.c: eager and    *)
(* lazy building, and the three queries (Dijkstra, A-star and the lazy one *)
(* that tests the edges of its answer and searches again).                 *)
(*                                                                         *)
(* Configurations are Points with integer distances, the collision test is *)
(* the set of Blocked pairs, and samples are a free choice.  Indices are   *)
(* the code's plus one: nodes 1 .. N, then START and GOAL.                 *)
(***************************************************************************)
EXTENDS Integers, FiniteSets, FiniteSetsExt, SequencesExt

CONSTANTS Points, Starts, Goals,
          Distance(_, _),
          Blocked,     \* pairs of points with an obstacle between them
          K,           \* k_neighbors
          MaxNodes,    \* bound on the roadmap
          Retries,     \* searches of one lazy query: 50 in the code, whose use up
                       \* leaves a query without the answer it could have found
          Careful      \* callers do not mix lazy queries and eager builds

PRMAssumption ==
  /\ \A a, b, c \in Points : /\ Distance(a, b) \in Nat /\ (Distance(a, b) = 0 <=> a = b)
                             /\ Distance(a, b) = Distance(b, a)
                             /\ Distance(a, c) <= Distance(a, b) + Distance(b, c)
  /\ K \in Nat \ {0}

VARIABLES nodes,    \* p->nodes
          edges,    \* p->edges in the order of edge_offset: pairs <<from, to>>
          marked,   \* p->edge_blocked: positions of edges found blocked, and 0 once
                    \* the array is allocated
          path,     \* p->path_indices
          last      \* the query that returned last

vars == <<nodes, edges, marked, path, last>>

N == Len(nodes)
START == N + 1
GOAL == N + 2
Infinite == 1000000
SegmentFree(a, b) == {a, b} \notin Blocked

-----------------------------------------------------------------------------
(* Building *)

\* The k nearest of the nodes listed to point p, in the order of their slots:
\* a closer node takes the slot of the farthest.
KNearest(p, list, nd) ==
  LET far(j) == Distance(p, nd[j])
      keep(slots, j) ==
        LET most == Max({far(slots[q]) : q \in DOMAIN slots})
            worst == Min({q \in DOMAIN slots : far(slots[q]) = most})
        IN IF Len(slots) < K THEN Append(slots, j)
           ELSE IF far(j) < most THEN [slots EXCEPT ![worst] = j] ELSE slots
  IN FoldLeft(keep, <<>>, list)

\* Each node's nearest neighbours of higher index.
Candidates(nd, usable(_, _)) ==
  LET all == [j \in DOMAIN nd |-> j]
      pairs(i) == LET near == KNearest(nd[i], SelectSeq(all, LAMBDA j : j # i), nd)
                      to == SelectSeq(near, LAMBDA j : j > i /\ usable(nd[i], nd[j]))
                  IN [q \in DOMAIN to |-> <<i, to[q]>>]
  IN FlattenSeq([i \in DOMAIN nd |-> pairs(i)])

\* Both directions, grouped by the node they leave.
Laid(nd, cands) ==
  LET leaving(u) == LET l == SelectSeq(cands, LAMBDA c : u \in {c[1], c[2]})
                    IN [e \in DOMAIN l |-> IF l[e][1] = u THEN l[e] ELSE <<u, l[e][1]>>]
  IN FlattenSeq([u \in DOMAIN nd |-> leaving(u)])

NoQuery == [kind |-> "none"]

Sample(p) ==
  /\ N < MaxNodes
  /\ p \notin Range(nodes)
  /\ nodes' = Append(nodes, p)
  /\ last' = NoQuery
  /\ UNCHANGED path

\* An array of flags stays as it is, whatever edges its flags now stand for and
\* however many there are.
Build(p) ==
  /\ Careful => marked = {}
  /\ Sample(p)
  /\ edges' = Laid(nodes', Candidates(nodes', SegmentFree))
  /\ UNCHANGED marked

BuildLazy(p) ==
  /\ Sample(p)
  /\ edges' = Laid(nodes', Candidates(nodes', LAMBDA a, b : TRUE))
  /\ marked' = {0}

-----------------------------------------------------------------------------
(* Queries *)

At(v, start, goal) == CASE v = START -> start [] v = GOAL -> goal [] OTHER -> nodes[v]

\* The roadmap nodes that a start or goal configuration is joined to.
Joined(p) == {j \in Range(KNearest(p, [j \in DOMAIN nodes |-> j], nodes)) : SegmentFree(p, nodes[j])}

Links(start, goal, skipped) ==
  {edges[e] : e \in DOMAIN edges \ skipped}
    \cup {<<START, j>> : j \in Joined(start)} \cup {<<j, GOAL>> : j \in Joined(goal)}

\* Expands the open node of least distance plus heuristic, lowest index first,
\* until the goal is expanded or nothing is open.
Search(start, goal, skipped, heuristic(_)) ==
  LET V == 1 .. GOAL
      far(u, v) == Distance(At(u, start, goal), At(v, start, goal))
      links == Links(start, goal, skipped)
      expand(s) ==
        LET open == {v \in V \ s.done : s.dist[v] < Infinite}
            f(v) == s.dist[v] + heuristic(v)
            u == Min({v \in open : \A w \in open : f(v) <= f(w)})
            better == {v \in V : <<u, v>> \in links /\ s.dist[u] + far(u, v) < s.dist[v]}
        IN IF open = {} \/ GOAL \in s.done THEN s
           ELSE [done |-> s.done \cup {u},
                 dist |-> [v \in better |-> s.dist[u] + far(u, v)] @@ s.dist,
                 prev |-> [v \in better |-> u] @@ s.prev]
      after[k \in 0 .. GOAL] ==
        IF k = 0 THEN [done |-> {}, dist |-> [v \in V |-> IF v = START THEN 0 ELSE Infinite],
                       prev |-> [v \in V |-> 0]]
        ELSE expand(after[k - 1])
      final == after[GOAL]
      route[k \in 1 .. GOAL] ==
        LET rest == route[k - 1]
        IN IF k = 1 THEN <<GOAL>>
           ELSE IF final.prev[Head(rest)] = 0 THEN rest ELSE <<final.prev[Head(rest)]>> \o rest
  IN IF final.dist[GOAL] = Infinite THEN <<>> ELSE route[GOAL]

Answer(kind, start, goal, found) ==
  /\ path' = found
  /\ last' = [kind |-> kind, start |-> start, goal |-> goal]
  /\ UNCHANGED <<nodes, edges>>

Query(start, goal) ==
  /\ nodes # <<>>
  /\ Answer("dijkstra", start, goal, Search(start, goal, {}, LAMBDA v : 0))
  /\ UNCHANGED marked

ToGoal(v, start, goal) == Distance(At(v, start, goal), goal)

QueryAstar(start, goal) ==
  /\ nodes # <<>>
  /\ Answer("astar", start, goal, Search(start, goal, {}, LAMBDA v : ToGoal(v, start, goal)))
  /\ UNCHANGED marked

\* The first roadmap edge of a path that is not free, in both directions.
Refused(found) ==
  LET bad == {i \in 2 .. Len(found) - 2 : ~SegmentFree(nodes[found[i]], nodes[found[i + 1]])}
      i == Min(bad)
  IN IF bad = {} THEN {}
     ELSE {e \in DOMAIN edges : edges[e] \in {<<found[i], found[i + 1]>>, <<found[i + 1], found[i]>>}}

QueryLazy(start, goal) ==
  LET retry[k \in 0 .. Retries] ==
        IF k = 0 THEN marked
        ELSE LET skipped == retry[k - 1]
             IN skipped \cup Refused(Search(start, goal, skipped, LAMBDA v : 0))
      found == Search(start, goal, retry[Retries - 1], LAMBDA v : 0)
  IN /\ nodes # <<>>
     /\ marked' = retry[Retries] \cup {0}
     /\ Answer("lazy", start, goal, IF Refused(found) = {} THEN found ELSE path)

-----------------------------------------------------------------------------
Init == nodes = <<>> /\ edges = <<>> /\ marked = {} /\ path = <<>> /\ last = NoQuery

Next ==
  \/ \E p \in Points : Build(p)
  \/ \E p \in Points : BuildLazy(p)
  \/ \E start \in Starts, goal \in Goals : Query(start, goal)
  \/ \E start \in Starts, goal \in Goals : QueryAstar(start, goal)
  \/ \E start \in Starts, goal \in Goals : QueryLazy(start, goal)

Spec == Init /\ [][Next]_vars

-----------------------------------------------------------------------------
(* The distance from START to GOAL by its definition: no walk is shorter.  *)

ShortestBy(start, goal, skipped) ==
  LET far(u, v) == Distance(At(u, start, goal), At(v, start, goal))
      links == Links(start, goal, skipped)
      within[k \in 0 .. GOAL] ==
        LET w == within[k - 1]
            via(v) == Min({w[v]} \cup {w[l[1]] + far(l[1], v) : l \in {l \in links : l[2] = v}})
        IN IF k = 0 THEN [v \in 1 .. GOAL |-> IF v = START THEN 0 ELSE Infinite]
           ELSE [v \in {l[2] : l \in links} |-> via(v)] @@ w
  IN within[GOAL][GOAL]

PathLength(start, goal) ==
  MapThenSumSet(LAMBDA i : Distance(At(path[i], start, goal), At(path[i + 1], start, goal)),
                1 .. Len(path) - 1)

(***************************************************************************)
(* A path that a query stores is one of the graph it searched, from the    *)
(* start to the goal, and no walk is shorter, for Dijkstra and A-star      *)
(* alike; there is none only if the goal cannot be reached.                *)
(***************************************************************************)
QueriesFindShortest ==
  last.kind \in {"dijkstra", "astar"} =>
    LET best == ShortestBy(last.start, last.goal, {})
    IN IF path = <<>> THEN best >= Infinite
       ELSE /\ path[1] = START /\ Last(path) = GOAL
            /\ \A i \in 1 .. Len(path) - 1 : <<path[i], path[i + 1]>> \in Links(last.start, last.goal, {})
            /\ PathLength(last.start, last.goal) = best

(***************************************************************************)
(* The lazy query returns the shortest path of the roadmap an eager build  *)
(* would have made: every hop is free, no free path is shorter, and it     *)
(* fails only if there is none.  It never marks an edge that is free.      *)
(***************************************************************************)
Crossing == {e \in DOMAIN edges : ~SegmentFree(nodes[edges[e][1]], nodes[edges[e][2]])}
LazyQueriesFindFree ==
  last.kind = "lazy" =>
    LET best == ShortestBy(last.start, last.goal, Crossing)
    IN /\ marked \subseteq Crossing \cup {0}
       /\ IF path = <<>> THEN best >= Infinite
          ELSE /\ \A i \in 1 .. Len(path) - 1 : SegmentFree(At(path[i], last.start, last.goal),
                                                            At(path[i + 1], last.start, last.goal))
               /\ PathLength(last.start, last.goal) = best
=============================================================================
