-------------------------------- MODULE Graph --------------------------------
(***************************************************************************)
(* The weighted directed graph of src/stdlib/runtime/graph_rt.c and the    *)
(* algorithms it offers.  The state is the adjacency lists, in the order   *)
(* the edges were added; an algorithm changes nothing and is an operator.  *)
(* Weights are integers and Far is the code's 1e30.                        *)
(***************************************************************************)
EXTENDS Integers, FiniteSets, FiniteSetsExt, SequencesExt

CONSTANTS N,         \* n_nodes
          Weights,
          MaxCalls   \* bound on calls that add edges

GraphAssumption == N \in Nat \ {0} /\ Weights \subseteq Int

VARIABLES adj,      \* per node, its edges [to, w] in order
          oneWay,   \* an edge was added without its reverse
          calls

vars == <<adj, oneWay, calls>>

Nodes == 0 .. N - 1
InOrder == [i \in 1 .. N |-> i - 1]
Far == 1000000

Init == adj = [u \in Nodes |-> <<>>] /\ oneWay = FALSE /\ calls = 0

WithEdge(a, u, v, w) == [a EXCEPT ![u] = Append(@, [to |-> v, w |-> w])]

AddEdge(u, v, w) ==
  /\ calls < MaxCalls
  /\ adj' = WithEdge(adj, u, v, w)
  /\ oneWay' = TRUE
  /\ calls' = calls + 1

AddEdgeUndirected(u, v, w) ==
  /\ calls < MaxCalls
  /\ adj' = WithEdge(WithEdge(adj, u, v, w), v, u, w)
  /\ calls' = calls + 1
  /\ UNCHANGED oneWay

\* Of parallel edges the last one is in the matrix.
ToAdjacencyMatrix ==
  [u \in Nodes |-> [v \in Nodes |->
     FoldLeft(LAMBDA cell, e : IF e.to = v THEN e.w ELSE cell, Far, adj[u])]]

FromAdjacencyMatrix(matrix) ==
  [u \in Nodes |-> FoldLeft(LAMBDA row, v : IF matrix[u][v] < Far THEN Append(row, [to |-> v, w |-> matrix[u][v]]) ELSE row,
                            <<>>, InOrder)]

\* The caller goes on with the graph of its matrix.
Rebuild ==
  /\ adj' = FromAdjacencyMatrix(ToAdjacencyMatrix)
  /\ UNCHANGED <<oneWay, calls>>

Next ==
  \/ \E u, v \in Nodes, w \in Weights : AddEdge(u, v, w)
  \/ \E u, v \in Nodes, w \in Weights : u < v /\ AddEdgeUndirected(u, v, w)
  \/ Rebuild

Spec == Init /\ [][Next]_vars

-----------------------------------------------------------------------------
(* Traversals.  A queue or an order is a sequence; visited is its range.   *)

RECURSIVE Bfs(_, _)
Bfs(queue, served) ==
  IF served = Len(queue) THEN queue
  ELSE Bfs(FoldLeft(LAMBDA q, e : IF e.to \in Range(q) THEN q ELSE Append(q, e.to), queue, adj[queue[served + 1]]),
           served + 1)
BfsOrder(start) == Bfs(<<start>>, 0)

RECURSIVE DfsVisit(_, _)
DfsVisit(order, u) ==
  FoldLeft(LAMBDA o, e : IF e.to \in Range(o) THEN o ELSE DfsVisit(o, e.to), Append(order, u), adj[u])
DfsOrder(start) == DfsVisit(<<>>, start)

\* Kahn's algorithm: s.left counts the edges into a node not yet taken.
RECURSIVE Kahn(_, _)
Kahn(s, served) ==
  IF served = Len(s.queue) THEN s.queue
  ELSE Kahn(FoldLeft(LAMBDA t, e : [left |-> [t.left EXCEPT ![e.to] = @ - 1],
                                    queue |-> IF t.left[e.to] = 1 THEN Append(t.queue, e.to) ELSE t.queue],
                     s, adj[s.queue[served + 1]]), served + 1)
\* Mutant: parallel edges count once.
IndegreeDistinct(v) == Cardinality({u \in Nodes : \E e \in Range(adj[u]) : e.to = v})

Indegree(v) == MapThenSumSet(LAMBDA u : Len(SelectSeq(adj[u], LAMBDA e : e.to = v)), Nodes)
TopoSort ==
  LET into == [v \in Nodes |-> Indegree(v)]
  IN Kahn([left |-> into, queue |-> SelectSeq(InOrder, LAMBDA v : into[v] = 0)], 0)

-----------------------------------------------------------------------------
(* Shortest paths                                                          *)

Relaxed(dist, u) ==
  FoldLeft(LAMBDA d, e : IF d[u] + e.w < d[e.to] THEN [d EXCEPT ![e.to] = d[u] + e.w] ELSE d, dist, adj[u])

From(src) == [v \in Nodes |-> IF v = src THEN 0 ELSE Far]

RECURSIVE Settle(_, _)
Settle(dist, done) ==
  LET open == {u \in Nodes \ done : dist[u] < Far}
      u == Min({i \in open : \A j \in open : dist[i] <= dist[j]})
  IN IF open = {} THEN dist ELSE Settle(Relaxed(dist, u), done \cup {u})
Dijkstra(src) == Settle(From(src), {})

Pass(dist) == FoldLeft(LAMBDA d, u : IF d[u] >= Far THEN d ELSE Relaxed(d, u), dist, InOrder)
BellmanFord(src) == FoldLeft(LAMBDA d, iter : Pass(d), From(src), [iter \in 1 .. N - 1 |-> iter])

HasNegativeCycle(src) ==
  LET dist == BellmanFord(src)
  IN \E u \in Nodes : dist[u] < Far /\ \E e \in Range(adj[u]) : dist[u] + e.w < dist[e.to]

-----------------------------------------------------------------------------
(* Parts and spanning forests                                              *)

\* Pops the stack: a node of no part yet joins part s.count, and pushes its neighbours of no part.
RECURSIVE Flood(_)
Flood(s) ==
  IF s.stack = <<>> THEN s
  ELSE LET u == Last(s.stack)
           outside == SelectSeq([i \in DOMAIN adj[u] |-> adj[u][i].to], LAMBDA v : v # u /\ s.comp[v] < 0)
       IN Flood(IF s.comp[u] >= 0 THEN [s EXCEPT !.stack = Front(@)]
                ELSE [s EXCEPT !.stack = Front(@) \o outside, !.comp[u] = s.count])

ConnectedComponents ==
  FoldLeft(LAMBDA s, u : IF s.comp[u] >= 0 THEN s
                         ELSE LET t == Flood([s EXCEPT !.stack = <<u>>]) IN [t EXCEPT !.count = @ + 1],
           [comp |-> [u \in Nodes |-> -1], count |-> 0, stack |-> <<>>], InOrder).comp

AllEdges == FoldLeft(LAMBDA es, u : es \o [i \in DOMAIN adj[u] |-> [u |-> u, v |-> adj[u][i].to, w |-> adj[u][i].w]],
                     <<>>, InOrder)

\* Parts as a function from node to representative; equal weights keep no order the total depends on.
MstKruskal ==
  FoldLeft(LAMBDA s, e : IF s.part[e.u] = s.part[e.v] THEN s
                         ELSE [part |-> [x \in {y \in Nodes : s.part[y] = s.part[e.u]} |-> s.part[e.v]] @@ s.part,
                               total |-> s.total + e.w],
           [part |-> [x \in Nodes |-> x], total |-> 0], SortSeq(AllEdges, LAMBDA a, b : a.w < b.w)).total

-----------------------------------------------------------------------------
(* What the answers mean, over paths without a repeated node.              *)

Longer(paths) ==
  UNION {{[at |-> Append(p.at, e.to), w |-> p.w + e.w] :
            e \in {e \in Range(adj[Last(p.at)]) : e.to \notin Range(p.at)}} : p \in paths}
SimplePaths(starts) ==
  FoldLeft(LAMBDA s, i : LET next == Longer(s.last) IN [all |-> s.all \cup next, last |-> next],
           LET single == {[at |-> <<u>>, w |-> 0] : u \in starts} IN [all |-> single, last |-> single],
           InOrder).all
Ends(paths) == {Last(p.at) : p \in paths}
Closings(p) == {p.w + e.w : e \in {e \in Range(adj[Last(p.at)]) : e.to = p.at[1]}}

(***************************************************************************)
(* From node 0: without negative weights Dijkstra's distances are those of *)
(* the shortest paths; without a reachable negative cycle Bellman-Ford's   *)
(* are; and has_negative_cycle is true exactly if there is one.            *)
(***************************************************************************)
DistancesAreShortest ==
  LET paths == SimplePaths({0})
      negative == \E p \in SimplePaths(Ends(paths)) : \E w \in Closings(p) : w < 0
      shortest == [v \in Nodes |-> Min({Far} \cup {p.w : p \in {p \in paths : Last(p.at) = v}})]
  IN /\ HasNegativeCycle(0) = negative
     /\ ~negative => BellmanFord(0) = shortest
     /\ (\A u \in Nodes : \A e \in Range(adj[u]) : e.w >= 0) => Dijkstra(0) = shortest

(***************************************************************************)
(* Breadth-first and depth-first search from node 0 list the nodes that    *)
(* can be reached, each once: the first in order of hops, the second with  *)
(* all that a node reaches before it goes back behind that node.  A        *)
(* topological order has every edge forward, and is complete exactly if    *)
(* there is no cycle.                                                      *)
(***************************************************************************)
OrdersAreRight ==
  LET paths == SimplePaths({0})
      every == SimplePaths(Nodes)
      hops(v) == Min({Len(p.at) : p \in {p \in paths : Last(p.at) = v}})
      edge(u, v) == \E e \in Range(adj[u]) : e.to = v
      bfs == BfsOrder(0)
      dfs == DfsOrder(0)
      topo == TopoSort
      at(v) == CHOOSE i \in DOMAIN topo : topo[i] = v
  IN /\ IsInjective(bfs) /\ Range(bfs) = Ends(paths)
     /\ \A i \in 1 .. Len(bfs) - 1 : hops(bfs[i]) <= hops(bfs[i + 1])
     /\ IsInjective(dfs) /\ Range(dfs) = Ends(paths)
     /\ \A i \in 2 .. Len(dfs) :
          LET before == {j \in 1 .. i - 1 : edge(dfs[j], dfs[i])}
          IN before # {} /\ \A k \in Max(before) + 1 .. i - 1 :
               \E p \in every : p.at[1] = dfs[Max(before)] /\ Last(p.at) = dfs[k]
     /\ \A u, v \in Range(topo) : edge(u, v) => at(u) < at(v)
     /\ (Range(topo) = Nodes) = (\A p \in every : Closings(p) = {})

(***************************************************************************)
(* In a graph of two-way edges, two nodes have the same component number   *)
(* exactly if a path joins them, and the numbers are 0 and up; Kruskal's   *)
(* total is the least weight of a set of as few edges as can, taken both   *)
(* ways, join what they all join.                                          *)
(***************************************************************************)
PartsAndForest ==
  LET comp == ConnectedComponents
      edges == {{e.u, e.v} : e \in Range(AllEdges)}
      weight(edge) == Min({e.w : e \in {e \in Range(AllEdges) : {e.u, e.v} = edge}})
      joined(es) == [x \in Nodes |-> FoldLeft(LAMBDA r, i : r \cup UNION {e \in es : e \cap r # {}}, {x}, InOrder)]
      parts == joined(edges)
      forests == {es \in kSubset(N - Cardinality(Range(parts)), edges) : joined(es) = parts}
  IN /\ ~oneWay => /\ \A u, v \in Nodes : (comp[u] = comp[v]) = (v \in parts[u])
                   /\ Range(comp) = 0 .. Cardinality(Range(comp)) - 1
     /\ MstKruskal = Min({MapThenSumSet(weight, es) : es \in forests})
=============================================================================
