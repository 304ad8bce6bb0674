----------------------------- MODULE GraphTools -----------------------------
(***************************************************************************)
(* The graph subsystem: the database graph and its refresh (DbGraph), the  *)
(* code graph and the hooks that refresh it (CodeGraph), and a graph, or a *)
(* catalog, that the tools are asked about.  The three share no state; a   *)
(* behaviour follows one of them, its mode.                                *)
(***************************************************************************)
EXTENDS DbGraph, CodeGraph

CONSTANTS
  CatalogTables,   \* tables of the catalogs that targeted builds read
  Nodes,           \* nodes of the queried graph
  MaxEdges,        \* bound: its edges
  MaxKeys          \* bound: foreign keys and dependencies of the catalogs

VARIABLES mode, edges

vars == <<mode, edges, dbVars, codeVars>>

-----------------------------------------------------------------------------
OneTable == LET k == <<CHOOSE t \in Tables : TRUE, "k">>
            IN [NoRows EXCEPT !.tables = {k[1]}, !.columns = {k}]

(* Every catalog over the tables with one column each, a few foreign keys  *)
(* and a few dependencies.                                                 *)
Catalogs ==
  LET k(t) == <<t, "k">>
      upTo(S) == {K \in SUBSET S : Cardinality(K) <= MaxKeys}
  IN {[tables |-> CatalogTables, columns |-> {k(t) : t \in CatalogTables}, pks |-> {}, fks |-> fks, routines |-> Routines, deps |-> deps] :
        fks \in upTo({<<k(t), k(u)>> : t \in CatalogTables, u \in CatalogTables}),
        deps \in upTo(Routines \X ({<<t>> : t \in CatalogTables} \cup {k(t) : t \in CatalogTables}))}

Init ==
  /\ mode \in {"database", "code", "query"}
  /\ edges = <<>>
  /\ DbInit(IF mode = "query" THEN Catalogs ELSE {OneTable})
  /\ CodeInit

(* A refresh gives the queries another graph.                              *)
AddEdge ==
  /\ Len(edges) < MaxEdges
  /\ \E source, target \in Nodes, relationship \in {"calls", "imports"} :
       edges' = Append(edges, Edge(source, target, relationship))

Next ==
  \/ mode = "database" /\ DbNext /\ UNCHANGED <<mode, edges, codeVars>>
  \/ mode = "code" /\ CodeNext /\ UNCHANGED <<mode, edges, dbVars>>
  \/ mode = "query" /\ catalog.fks = {} /\ catalog.deps = {} /\ AddEdge /\ UNCHANGED <<mode, dbVars, codeVars>>

Spec == Init /\ [][Next]_vars
FairSpec == Spec /\ CodeFairness

-----------------------------------------------------------------------------
(* Properties *)

(* The type invariant of the three parts.                                  *)
TypeOK ==
  /\ mode \in {"database", "code", "query"}
  /\ \A i \in DOMAIN edges : edges[i].source \in Nodes /\ edges[i].target \in Nodes
  /\ DbTypeOK /\ CodeTypeOK

(* The targeted build is the part of the full one around the entry: its    *)
(* nodes are those of the objects at most depth hops away, with the same   *)
(* attributes, and it has every edge between them.                         *)
TargetedIsSubset ==
  mode = "query" =>
  LET objects == catalog.tables \cup catalog.routines
      near(x, y) == x = y \/ y \in Neighbors(catalog, {x})
      within(x, y, d) == \E p \in [0..d -> objects] : p[0] = x /\ p[d] = y /\ \A i \in 1..d : near(p[i - 1], p[i])
      full == BuildGraph(catalog)
  IN \A x \in objects, d \in 0..2 :
       LET g == BuildTargetedGraph(catalog, x, d)
           kept == {n \in full.nodes : within(x, n.id[2], d)}
       IN g = [nodes |-> kept, edges |-> {e \in full.edges : {e.source, e.target} \subseteq Ids(kept)}]

(* At their default depths the targeted tools answer what they would from  *)
(* the full graph.                                                         *)
TargetedAnswersWhole ==
  mode = "query" =>
  LET full == BuildGraph(catalog)
  IN /\ \A t \in CatalogTables :
          DbGetTable(BuildTargetedGraph(catalog, t, 1), t) = DbGetTable(full, t)
     /\ \A c \in catalog.columns :
          DbGetColumn(BuildTargetedGraph(catalog, c[1], 1), c) = DbGetColumn(full, c)
     /\ \A r \in Routines :
          DbGetRoutineDependencies(BuildTargetedGraph(catalog, r, 2), r) = DbGetRoutineDependencies(full, r)

(* A targeted build answers like the whole graph and holds what is near.   *)
TargetedExact == TargetedIsSubset /\ TargetedAnswersWhole

(* db_get_table_relationships shows the tables a table is joined to by a   *)
(* foreign key ("Adjacent tables and key pairs",                           *)
(* skills/database-graph-usage/SKILL.md:34).                               *)
RelationshipsShowKeys ==
  \A f \in catalog.fks : LET t == f[1][1] u == f[2][1]
                         IN t # u => \E id \in DbGetTableRelationships(BuildTargetedGraph(catalog, t, 1), t) : id[2] = u
=============================================================================
