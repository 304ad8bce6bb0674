------------------------------- MODULE DbGraph -------------------------------
(***************************************************************************)
(* refresh_database_graph (mcp/graph_io.py): several processes, one per    *)
(* MCP server, rebuild one db_graph.json when it is older than the TTL.    *)
(* Each has a pooled connection, reads the catalog with six queries        *)
(* between which the schema may change, writes a temporary file whose name *)
(* they share and renames it.                                              *)
(***************************************************************************)
EXTENDS DbCatalog

CONSTANTS
  Tables, Routines,
  Builders,        \* processes that refresh the graph
  MaxDdl,          \* bound: schema changes
  MaxFaults        \* bound: dropped connections and killed builders

ASSUME DbGraphAssumption == Tables # {} /\ {MaxDdl, MaxFaults} \subseteq Nat

VARIABLES
  catalog, ddls,
  conn,            \* _db_connection: "none", "open", or "dead"
  faults,
  job,             \* a refresh under way: what it does next and has read
  tmp,             \* db_graph.json.tmp
  file,            \* db_graph.json
  fresh,           \* its mtime is within the TTL
  raced,           \* history: two builders were writing at once
  surprised        \* history: a query failed on a handle dead since before the build

dbVars == <<catalog, ddls, conn, faults, job, tmp, file, fresh, raced, surprised>>

(* A file is known by its inode: who has it open for writing, what they    *)
(* write, and whether it was left half written or two wrote it at once.    *)
NoFile == [exists |-> FALSE, open |-> {}, torn |-> FALSE, graph |-> BuildGraph(NoRows), ddl |-> FALSE]

Idle == [todo |-> "idle", rows |-> NoRows, ddl |-> FALSE, dropped |-> FALSE]
Queries == <<"tables", "columns", "pks", "fks", "routines", "deps">>
Reading(b) == job[b].todo \in {Queries[i] : i \in 1..Len(Queries)}
Writing(b) == job[b].todo \in {"write", "replace"}

DbInit(catalogs) ==
  /\ catalog \in catalogs /\ ddls = 0
  /\ conn = [b \in Builders |-> "none"] /\ faults = 0
  /\ job = [b \in Builders |-> Idle]
  /\ tmp = NoFile /\ file = NoFile /\ fresh = FALSE
  /\ raced = FALSE /\ surprised = FALSE

-----------------------------------------------------------------------------
(* The schema changes; a table another one refers to cannot be dropped.    *)
SchemaChange ==
  LET k(t) == <<t, "k">>
      own(t) == {f \in catalog.fks : f[1][1] = t}
  IN \/ \E t \in Tables \ catalog.tables :
          catalog' = [catalog EXCEPT !.tables = @ \cup {t}, !.columns = @ \cup {k(t)}, !.pks = @ \cup {k(t)}]
     \/ \E t \in catalog.tables :
          /\ \A f \in catalog.fks \ own(t) : f[2][1] # t
          /\ catalog' = [catalog EXCEPT !.tables = @ \ {t}, !.columns = {c \in @ : c[1] # t}, !.pks = {c \in @ : c[1] # t},
                                        !.fks = @ \ own(t), !.deps = {d \in @ : d[2][1] # t}]
     \/ \E t, u \in catalog.tables : catalog' = [catalog EXCEPT !.fks = @ \cup {<<k(t), k(u)>>}]
     \/ \E r \in Routines, x \in catalog.columns \cup {<<t>> : t \in catalog.tables} :
          catalog' = [catalog EXCEPT !.routines = @ \cup {r}, !.deps = @ \cup {<<r, x>>}]
     \/ \E r \in catalog.routines :
          catalog' = [catalog EXCEPT !.routines = @ \ {r}, !.deps = {d \in @ : d[1] # r}]

Ddl ==
  /\ ddls < MaxDdl /\ ddls' = ddls + 1
  /\ SchemaChange
  /\ job' = [b \in Builders |-> IF Reading(b) THEN [job[b] EXCEPT !.ddl = TRUE] ELSE job[b]]
  /\ UNCHANGED <<conn, faults, tmp, file, fresh, raced, surprised>>

DropConnections ==
  /\ faults < MaxFaults /\ faults' = faults + 1
  /\ conn' = [b \in Builders |-> IF conn[b] = "open" THEN "dead" ELSE conn[b]]
  /\ job' = [b \in Builders |-> IF Reading(b) THEN [job[b] EXCEPT !.dropped = TRUE] ELSE job[b]]
  /\ UNCHANGED <<catalog, ddls, tmp, file, fresh, raced, surprised>>

-----------------------------------------------------------------------------
(* The TTL guard; a young file is served as it is.                         *)
Refresh(b) ==
  /\ job[b].todo = "idle" /\ (~file.exists \/ ~fresh)
  /\ job' = [job EXCEPT ![b].todo = "connect"]
  /\ UNCHANGED <<catalog, ddls, conn, faults, tmp, file, fresh, raced, surprised>>

TtlPasses ==
  /\ fresh /\ fresh' = FALSE
  /\ UNCHANGED <<catalog, ddls, conn, faults, job, tmp, file, raced, surprised>>

(* _get_db_connection: the pooled handle is probed, and replaced if dead.  *)
ConnectionIsAlive(b) == conn[b] = "open"
PooledConnection(b) == IF ConnectionIsAlive(b) THEN conn[b] ELSE "open"

Connect(b) ==
  /\ job[b].todo = "connect"
  /\ \/ /\ conn' = [conn EXCEPT ![b] = PooledConnection(b)]
        /\ job' = [job EXCEPT ![b].todo = Queries[1]]
     \/ \* nobody answers: the handle is gone and the cached graph is served
        /\ conn[b] # "open"
        /\ conn' = [conn EXCEPT ![b] = "none"]
        /\ job' = [job EXCEPT ![b] = Idle]
  /\ UNCHANGED <<catalog, ddls, faults, tmp, file, fresh, raced, surprised>>

(* fetch_schema: one query; the last one is followed by the build.         *)
NextQuery(q) ==
  LET i == CHOOSE i \in 1..Len(Queries) : Queries[i] = q
  IN IF i = Len(Queries) THEN "open" ELSE Queries[i + 1]

FetchRows(b) ==
  /\ Reading(b) /\ conn[b] = "open"
  /\ LET q == job[b].todo
         read == [job[b].rows EXCEPT ![q] = catalog[q]]
     IN job' = [job EXCEPT ![b] = [@ EXCEPT !.rows = read, !.todo = NextQuery(q)]]
  /\ UNCHANGED <<catalog, ddls, conn, faults, tmp, file, fresh, raced, surprised>>

(* A pyodbc error: the handle is reset, the cached graph is served.        *)
FetchFails(b) ==
  /\ Reading(b) /\ conn[b] # "open"
  /\ surprised' = (surprised \/ ~job[b].dropped)
  /\ conn' = [conn EXCEPT ![b] = "none"]
  /\ job' = [job EXCEPT ![b] = Idle]
  /\ UNCHANGED <<catalog, ddls, faults, tmp, file, fresh, raced>>

-----------------------------------------------------------------------------
(* atomic_write_text.                                                      *)
Inode(b, before) ==
  [exists |-> TRUE, open |-> before.open \cup {b}, torn |-> before.open # {},
   graph |-> BuildGraph(job[b].rows), ddl |-> job[b].ddl]
Whole(inode) == inode.open = {} /\ ~inode.torn
Closed(inode, b) == [inode EXCEPT !.open = @ \ {b}]
Abandoned(inode, b) == [inode EXCEPT !.open = @ \ {b}, !.torn = @ \/ b \in inode.open]

(* Opening truncates whatever has the name.                                *)
OpenInPlace(b) ==
  /\ job[b].todo = "open"
  /\ file' = Inode(b, file) /\ UNCHANGED tmp
  /\ job' = [job EXCEPT ![b] = [Idle EXCEPT !.todo = "write"]]
  /\ raced' = (raced \/ \E c \in Builders \ {b} : Writing(c))
  /\ UNCHANGED <<catalog, ddls, conn, faults, fresh, surprised>>
OpenTmp(b) ==
  /\ job[b].todo = "open"
  /\ tmp' = Inode(b, tmp)
  /\ job' = [job EXCEPT ![b] = [Idle EXCEPT !.todo = "write"]]
  /\ raced' = (raced \/ \E c \in Builders \ {b} : Writing(c))
  /\ UNCHANGED <<catalog, ddls, conn, faults, file, fresh, surprised>>

CloseTmp(b) ==
  /\ job[b].todo = "write"
  /\ tmp' = Closed(tmp, b) /\ file' = Closed(file, b)
  /\ fresh' = (fresh \/ b \in file.open)
  /\ job' = [job EXCEPT ![b].todo = "replace"]
  /\ UNCHANGED <<catalog, ddls, conn, faults, raced, surprised>>

(* The rename publishes whatever the name stands for now; if it was        *)
(* renamed away already, the build has failed.                             *)
Replace(b) ==
  /\ job[b].todo = "replace"
  /\ IF tmp.exists THEN file' = tmp /\ tmp' = NoFile /\ fresh' = TRUE
     ELSE UNCHANGED <<tmp, file, fresh>>
  /\ job' = [job EXCEPT ![b] = Idle]
  /\ UNCHANGED <<catalog, ddls, conn, faults, raced, surprised>>

(* The process is killed; a file it was writing stays half written.        *)
KillBuilder(b) ==
  /\ faults < MaxFaults /\ faults' = faults + 1
  /\ job[b].todo # "idle"
  /\ tmp' = Abandoned(tmp, b) /\ file' = Abandoned(file, b)
  /\ conn' = [conn EXCEPT ![b] = "none"]
  /\ job' = [job EXCEPT ![b] = Idle]
  /\ UNCHANGED <<catalog, ddls, fresh, raced, surprised>>

DbNext ==
  \/ Ddl \/ DropConnections \/ TtlPasses
  \/ \E b \in Builders :
       \/ Refresh(b) \/ Connect(b) \/ FetchRows(b) \/ FetchFails(b)
       \/ OpenTmp(b) \/ CloseTmp(b) \/ Replace(b) \/ KillBuilder(b)

-----------------------------------------------------------------------------
(* Properties *)

(* The part of the type invariant about the database graph.                *)
DbTypeOK ==
  /\ ddls \in 0..MaxDdl /\ faults \in 0..MaxFaults
  /\ conn \in [Builders -> {"none", "open", "dead"}]
  /\ \A b \in Builders :
       /\ job[b].todo \in {"idle", "connect", "open", "write", "replace"} \/ Reading(b)
       /\ job[b].rows.tables \subseteq Tables /\ job[b].rows.routines \subseteq Routines
       /\ conn[b] = "none" => job[b].todo \in {"idle", "connect"}
  /\ \A i \in {tmp, file} : i.open \subseteq Builders /\ i.torn \in BOOLEAN
  /\ fresh => file.exists
  /\ raced \in BOOLEAN /\ surprised \in BOOLEAN

(* What is published can be read, whatever is killed in the middle of a    *)
(* write: a torn db_graph.json needs two processes that wrote the one      *)
(* temporary file of atomic_write_text at the same time.                   *)
PublishedWhole == ~Whole(file) => raced

(* A graph built while the schema changed is still one the tools can use:  *)
(* no link or dependency leads to something that was not read, and the     *)
(* only node without a type is a table whose columns were found after the  *)
(* list of tables had been read.                                           *)
NothingInvented ==
  \A n \in file.graph.nodes : n.type = "" =>
    /\ file.ddl /\ n.id[1] = "table"
    /\ \A e \in file.graph.edges : e.target = n.id => e.relationship = "Creates"

(* A rebuild fails at the database only if the connection was lost while   *)
(* it was reading: a handle that died between two refreshes is noticed     *)
(* before it is used.                                                      *)
ProbedBeforeUse == ~surprised

(* Refreshing the database graph leaves one the tools can read and use.    *)
DbGraphSound == PublishedWhole /\ NothingInvented /\ ProbedBeforeUse
=============================================================================
