------------------------------ MODULE DbCatalog ------------------------------
(***************************************************************************)
(* The database graph that mcp/db_tools/build_db_graph.py makes of the     *)
(* catalog, and what the db_* tools (mcp/db_graph_tools.py) read from it.  *)
(* A catalog has tables, their columns <<table, name>>, primary key        *)
(* columns, foreign keys <<column, referenced column>>, routines, and      *)
(* dependencies <<routine, target>> where the target is <<table>> or a     *)
(* column.  Tables and routines are the objects; each is its own id.       *)
(* Attributes that are only copied from a row to a node are left out.      *)
(***************************************************************************)
EXTENDS Integers, Sequences, FiniteSets

NoRows == [tables |-> {}, columns |-> {}, pks |-> {}, fks |-> {}, routines |-> {}, deps |-> {}]

TableId(t) == <<"table", t>>
ColumnId(c) == <<"column", c[1], c[2]>>
RoutineId(r) == <<"routine", r>>
TargetId(d) == IF Len(d) = 1 THEN TableId(d[1]) ELSE ColumnId(d)

Node(id, type, flags) == [id |-> id, type |-> type, flags |-> flags]
Edge(source, target, relationship) == [source |-> source, target |-> target, relationship |-> relationship]
Ids(nodes) == {n.id : n \in nodes}

-----------------------------------------------------------------------------
(* build_graph: rows to nodes and edges *)

TableNodes(rows) == {Node(TableId(t), "Table", {}) : t \in rows.tables}

Flags(rows, c) ==
  {x \in {"primary key", "foreign key", "referenced"} :
     \/ x = "primary key" /\ c \in rows.pks
     \/ x = "foreign key" /\ \E f \in rows.fks : f[1] = c
     \/ x = "referenced" /\ \E f \in rows.fks : f[2] = c}

ColumnNodes(rows) == {Node(ColumnId(c), "Column", Flags(rows, c)) : c \in rows.columns}

RoutineNodes(rows) == {Node(RoutineId(r), "Routine", {}) : r \in rows.routines}

StoresEdges(rows) == {Edge(TableId(c[1]), ColumnId(c), "Stores") : c \in rows.columns}

(* A foreign key is linked if both of its columns were read.               *)
LinksEdgesUnchecked(rows) == {Edge(ColumnId(f[1]), ColumnId(f[2]), "Links") : f \in rows.fks}
LinksEdges(rows) ==
  {Edge(ColumnId(f[1]), ColumnId(f[2]), "Links") : f \in {k \in rows.fks : {k[1], k[2]} \subseteq rows.columns}}

(* A dependency counts if its routine was read and its target is there.    *)
CreatesEdges(rows, ids) ==
  {Edge(RoutineId(d[1]), TargetId(d[2]), "Creates") :
     d \in {k \in rows.deps : k[1] \in rows.routines /\ TargetId(k[2]) \in ids}}

(* Adding an edge adds the endpoints that are not there as bare nodes.     *)
BareNodes(edges, typed) ==
  {Node(id, "", {}) : id \in ({e.source : e \in edges} \cup {e.target : e \in edges}) \ Ids(typed)}

BuildGraph(rows) ==
  LET typed == TableNodes(rows) \cup ColumnNodes(rows)
      early == StoresEdges(rows) \cup LinksEdges(rows)
      present == Ids(typed) \cup Ids(BareNodes(early, typed))
      edges == early \cup CreatesEdges(rows, present)
      all == typed \cup RoutineNodes(rows)
  IN [nodes |-> all \cup BareNodes(edges, all), edges |-> edges]

-----------------------------------------------------------------------------
(* The targeted build *)

TablesIn(cat, ids) == cat.tables \cap ids
ColumnsIn(cat, ids) == {c \in cat.columns : c[1] \in ids}
PrimaryKeysIn(cat, ids) == {c \in cat.pks : c[1] \in ids}
ForeignKeysIn(cat, ids) == {f \in cat.fks : f[1][1] \in ids \/ f[2][1] \in ids}
RoutinesIn(cat, ids) == cat.routines \cap ids
DependenciesIn(cat, ids) == {d \in cat.deps : d[1] \in ids \/ d[2][1] \in ids}

(* One hop along foreign keys and dependencies, in both directions.        *)
Neighbors(cat, frontier) ==
  UNION ({{f[1][1], f[2][1]} : f \in ForeignKeysIn(cat, frontier)}
           \cup {{d[1], d[2][1]} : d \in DependenciesIn(cat, frontier)})

DiscoverObjectIds(cat, seed, depth) ==
  LET hop[k \in 0..depth] ==
        IF k = 0 THEN [discovered |-> {seed}, frontier |-> {seed}]
        ELSE LET before == hop[k - 1]
                 new == Neighbors(cat, before.frontier) \ before.discovered
             IN [discovered |-> before.discovered \cup new, frontier |-> new]
  IN hop[depth].discovered

RowsIn(cat, ids) ==
  [tables |-> TablesIn(cat, ids), columns |-> ColumnsIn(cat, ids), pks |-> PrimaryKeysIn(cat, ids),
   fks |-> ForeignKeysIn(cat, ids), routines |-> RoutinesIn(cat, ids), deps |-> DependenciesIn(cat, ids)]

(* An entry that is not in the catalog gives the empty graph.              *)
BuildTargetedGraph(cat, entry, depth) ==
  IF entry \in cat.tables \cup cat.routines
  THEN BuildGraph(RowsIn(cat, DiscoverObjectIds(cat, entry, depth)))
  ELSE BuildGraph(NoRows)

-----------------------------------------------------------------------------
(* The tools *)

DbGetTable(g, t) ==
  IF ~\E n \in g.nodes : n.id = TableId(t) /\ n.type = "Table" THEN [found |-> FALSE]
  ELSE [found |-> TRUE,
        outgoing |-> {<<e.target, e.relationship>> : e \in {x \in g.edges : x.source = TableId(t)}},
        incoming |-> {<<e.source, e.relationship>> :
                        e \in {x \in g.edges : x.source # TableId(t) /\ x.target = TableId(t)}}]

DbGetColumn(g, c) == {n \in g.nodes : n.id = ColumnId(c) /\ n.type = "Column"}

DbGetTableRelationships(g, t) ==
  {e.target : e \in {x \in g.edges : x.source = TableId(t)}}
    \cup {e.source : e \in {x \in g.edges : x.target = TableId(t)}}

DbGetRoutineDependencies(g, r) ==
  {e.target : e \in {x \in g.edges : x.source = RoutineId(r) /\ x.relationship = "Creates"}}
=============================================================================
