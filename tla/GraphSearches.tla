---------------------------- MODULE GraphSearches ----------------------------
(***************************************************************************)
(* What the queries of the graph tools (GraphQueries) should answer, about *)
(* every small graph that GraphTools comes to.                             *)
(***************************************************************************)
EXTENDS GraphTools, GraphQueries

Depths == 0..2
Full == 10         \* no query reaches its limit
Few == 2           \* some do

(* graph_find_path and db_find_relationship_path return simple paths in    *)
(* the order of their length, all there are if they are fewer than the     *)
(* limit; otherwise none they left out is shorter than one they return.    *)
PathsComplete ==
  mode = "query" =>
  \A x, y \in Nodes, max \in Depths, directed \in BOOLEAN, limit \in {Few, Full} :
    LET found == IF directed THEN FindPath(edges, x, y, max, TRUE, limit) ELSE FindRelationshipPath(edges, x, y, max, limit)
        paths == SimplePaths(edges, Nodes, x, y, max, directed)
    IN /\ Range(found) \subseteq paths
       /\ \A i \in 2..Len(found) : Len(found[i - 1]) <= Len(found[i])
       /\ \A p \in paths \ Range(found) : Len(found) = limit /\ Len(Last(found)) <= Len(p)

(* graph_get_subgraph returns the nodes at most depth steps from a seed,   *)
(* edges followed either way, with the edges between them.                 *)
SubgraphIsBall ==
  mode = "query" =>
  \A seeds \in SUBSET Nodes, depth \in Depths :
    LET sub == GetSubgraph(edges, seeds, depth)
        linked(x, y) == Joined(edges, x, y, FALSE)
    IN /\ sub.nodes = {n \in Nodes : \E s \in seeds : Distance(s, n, Nodes, linked, depth) <= depth}
       /\ Range(sub.edges) = {e \in Range(edges) : {e.source, e.target} \subseteq sub.nodes}

(* code_get_dependencies lists what is at most depth steps away, each      *)
(* first with its distance, and never the symbol itself, cycles or not.    *)
DependencyDepthExact ==
  mode = "query" =>
  \A x, n \in Nodes, depth \in Depths :
    LET listed == GetDependencies(edges, x, depth)
        linked(y, z) == Joined(edges, y, z, FALSE)
    IN ListedAt(listed, n, depth) = IF n = x THEN depth + 1 ELSE Distance(x, n, Nodes, linked, depth)

(* code_find_callers lists every direct and indirect caller up to the      *)
(* depth, first with its distance, if the cap is not reached; the tools    *)
(* that show direct callers agree on them.                                 *)
CallersComplete ==
  mode = "query" =>
  \A x, n \in Nodes, max \in 1..2, cap \in {Few, Full} :
    LET listed == FindCallers(edges, x, TRUE, max, cap)
        calls(y, z) == \E e \in Range(edges) : <<e.source, e.target, e.relationship>> = <<z, y, "calls">>
        direct == {c.node : c \in Range(FindCallers(edges, x, FALSE, max, cap))}
    IN /\ n # x /\ Len(listed) < cap => ListedAt(listed, n, max) = Distance(x, n, Nodes, calls, max)
       /\ direct = GetNeighbors(edges, x, "calls").incoming
       /\ direct = GetSymbol(edges, x).callers
       /\ direct = ImpactAnalysis(edges, x).direct_callers

(* Every search of the tools finds exactly what its definition says.       *)
SearchesExact == TypeOK /\ PathsComplete /\ SubgraphIsBall /\ DependencyDepthExact /\ CallersComplete
=============================================================================
