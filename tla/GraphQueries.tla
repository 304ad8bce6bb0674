---------------------------- MODULE GraphQueries ----------------------------
(***************************************************************************)
(* The traversals of the graph tools (mcp/shared_graph_tools.py,           *)
(* mcp/code_graph_tools.py, mcp/db_graph_tools.py) over a graph's edges,   *)
(* a sequence of records with a source, a target and a relationship, and   *)
(* what each should compute.                                               *)
(***************************************************************************)
EXTENDS Integers, Sequences, FiniteSets, SequencesExt

(* The neighbours of a node, in the order of the edges.                    *)
Targets(edges, node) == LET out == SelectSeq(edges, LAMBDA e : e.source = node) IN [i \in DOMAIN out |-> out[i].target]
Adjacent(edges, node, directed) ==
  IF directed THEN Targets(edges, node)
  ELSE LET end(e) == IF e.source = node THEN e.target ELSE e.source
           near == SelectSeq(edges, LAMBDA e : node \in {e.source, e.target})
       IN [i \in DOMAIN near |-> end(near[i])]

(* graph_find_path and db_find_relationship_path: breadth first over       *)
(* paths, at most limit of them, of at most max edges.                     *)
ExtensionsWithCycles(edges, path, directed) ==
  LET near == Adjacent(edges, Last(path), directed)
  IN [i \in DOMAIN near |-> Append(path, near[i])]
Extensions(edges, path, directed) ==
  LET near == SelectSeq(Adjacent(edges, Last(path), directed), LAMBDA n : ~Contains(path, n))
  IN [i \in DOMAIN near |-> Append(path, near[i])]

FindPath(edges, source, target, max, directed, limit) ==
  LET RECURSIVE Search(_, _)
      Search(queue, paths) ==
        IF queue = <<>> \/ Len(paths) >= limit THEN paths
        ELSE LET path == Head(queue)
             IN IF Len(path) - 1 > max THEN Search(Tail(queue), paths)
                ELSE IF Last(path) = target THEN Search(Tail(queue), Append(paths, path))
                ELSE Search(Tail(queue) \o Extensions(edges, path, directed), paths)
  IN Search(<<<<source>>>>, <<>>)

FindRelationshipPath(edges, table1, table2, max, limit) == FindPath(edges, table1, table2, max, FALSE, limit)

(* graph_get_subgraph                                                      *)
NextLevel(edges, level) ==
  {e.target : e \in {x \in Range(edges) : x.source \in level}}
    \cup {e.source : e \in {x \in Range(edges) : x.target \in level}}
GetSubgraph(edges, seeds, depth) ==
  LET step[k \in 0..depth] ==
        IF k = 0 THEN [visited |-> seeds, level |-> seeds]
        ELSE LET next == NextLevel(edges, step[k - 1].level)
             IN [visited |-> step[k - 1].visited \cup next, level |-> next]
      visited == step[depth].visited
  IN [nodes |-> visited, edges |-> SelectSeq(edges, LAMBDA e : {e.source, e.target} \subseteq visited)]

(* code_get_dependencies: every neighbour not yet visited is listed with   *)
(* its depth, perhaps several times.                                       *)
NotVisited(edges, node, visited) == SelectSeq(Adjacent(edges, node, FALSE), LAMBDA n : n \notin visited \cup {node})
GetDependencies(edges, start, depth) ==
  LET RECURSIVE Visit(_, _, _)
      Visit(queue, visited, listed) ==
        IF queue = <<>> THEN listed
        ELSE LET node == Head(queue).node
                 d == Head(queue).depth
                 found == NotVisited(edges, node, visited)
                 new == [i \in DOMAIN found |-> [node |-> found[i], depth |-> d + 1]]
             IN IF d > depth \/ node \in visited THEN Visit(Tail(queue), visited, listed)
                ELSE IF d < depth THEN Visit(Tail(queue) \o new, visited \cup {node}, listed \o new)
                ELSE Visit(Tail(queue), visited \cup {node}, listed)
  IN Visit(<<[node |-> start, depth |-> 0]>>, {}, <<>>)

(* code_find_callers: direct ones, then callers of callers up to max,      *)
(* until cap of them are listed.                                           *)
CallersOf(edges, node, d) ==
  LET calls == SelectSeq(edges, LAMBDA e : e.target = node /\ e.relationship = "calls")
  IN [i \in DOMAIN calls |-> [node |-> calls[i].source, depth |-> d]]
FindCallers(edges, symbol, transitive, max, cap) ==
  LET RECURSIVE Visit(_, _, _)
      Visit(queue, visited, callers) ==
        IF queue = <<>> \/ Len(callers) >= cap THEN callers
        ELSE LET node == Head(queue).node
                 d == Head(queue).depth + 1
                 new == CallersOf(edges, node, d)
             IN IF d > max \/ node \in visited THEN Visit(Tail(queue), visited, callers)
                ELSE Visit(Tail(queue) \o new, visited \cup {node}, callers \o new)
      direct == CallersOf(edges, symbol, 1)
  IN IF transitive THEN Visit(direct, {symbol}, direct) ELSE direct

(* graph_get_neighbors, code_get_symbol and code_impact_analysis, whose    *)
(* sorting of what the symbol uses by name is left out.                    *)
GetNeighbors(edges, node, relationship) ==
  [incoming |-> {e.source : e \in {x \in Range(edges) : x.target = node /\ x.relationship = relationship}},
   outgoing |-> {e.target : e \in {x \in Range(edges) : x.source = node /\ x.relationship = relationship}}]
GetSymbol(edges, node) ==
  [callers |-> {e.source : e \in {x \in Range(edges) : x.target = node /\ x.relationship = "calls"}},
   callees |-> {e.target : e \in {x \in Range(edges) : x.source = node /\ x.target # node /\ x.relationship = "calls"}}]
ImpactAnalysis(edges, node) ==
  [direct_callers |-> {e.source : e \in {x \in Range(edges) : x.target = node /\ x.relationship = "calls"}},
   modules_affected |-> {e.target : e \in {x \in Range(edges) :
                           x.source = node /\ ~(x.target = node /\ x.relationship = "calls")}}]

-----------------------------------------------------------------------------
(* What they should compute *)

Joined(edges, x, y, directed) ==
  \E e \in Range(edges) : <<e.source, e.target>> = <<x, y>> \/ (~directed /\ <<e.target, e.source>> = <<x, y>>)
SimplePaths(edges, nodes, source, target, max, directed) ==
  {p \in UNION {[1..n -> nodes] : n \in 1..(max + 1)} :
     /\ p[1] = source /\ Last(p) = target
     /\ \A i, j \in DOMAIN p : p[i] = p[j] => i = j
     /\ \A i \in 2..Len(p) : Joined(edges, p[i - 1], p[i], directed)}

(* The least number of steps from x to y along step, or bound + 1.         *)
Distance(x, y, nodes, step(_, _), bound) ==
  LET reach[k \in 0..bound] ==
        IF k = 0 THEN {x} ELSE reach[k - 1] \cup {n \in nodes : \E m \in reach[k - 1] : step(m, n)}
      at == {k \in 0..bound : y \in reach[k]}
  IN IF at = {} THEN bound + 1 ELSE CHOOSE k \in at : \A j \in at : k <= j

(* The least depth a node is listed with.                                  *)
ListedAt(listed, n, bound) ==
  LET at == {x.depth : x \in {y \in Range(listed) : y.node = n}}
  IN IF at = {} THEN bound + 1 ELSE CHOOSE k \in at : \A j \in at : k <= j
=============================================================================
