---------------------------- MODULE GraphProofs ----------------------------
(***************************************************************************)
(* Proofs about the graph subsystem.                                       *)
(*                                                                         *)
(* The code graph, for any number of hooks, edits, failures and kills.     *)
(* That nothing is forgotten is about a state at rest, and has to be known *)
(* of every state on the way there: while nothing missable has happened,   *)
(* the graph is current or something still says that it is not (Marked),   *)
(* the one hook that refreshes has read the current sources, and so has a  *)
(* graphify that its hook left behind, unless a mark is there to redo it.  *)
(*                                                                         *)
(* The database graph, for any tables, routines, builders, schema changes  *)
(* and faults.  A published file is what one build has read, and what the  *)
(* build has read so far is the catalog of this moment unless its schema   *)
(* has changed since (Snapshots); as long as two have not written at once, *)
(* the one that writes has the temporary file for itself (Alone); one that *)
(* reads was given a live connection, and knows if it was lost (Probed).   *)
(*                                                                         *)
(* The targeted build, for any catalog in which what is referred to is     *)
(* there.  The graph of the rows around some objects is the part of the    *)
(* whole graph whose ids name those objects (PartNodes, PartEdges), what   *)
(* is discovered is what a walk of that length reaches (DiscoveredWithin), *)
(* and the tools look no further than one step (AroundTable, -Routine).    *)
(***************************************************************************)
EXTENDS GraphTools, FiniteSetTheorems, TLAPS

-----------------------------------------------------------------------------
(* The code graph. *)

(* Something will make a hook refresh the graph. *)
Marked ==
  \/ dirty \/ owed
  \/ print \notin {look, Unknown}
  \/ \E h \in Hooks : hook[h].todo = "mark"

OneRefresh == \A g, h \in Refreshing : g = h

Locked == ~broken => OneRefresh /\ (Refreshing # {} => lock = "young")

Fresh ==
  ~missable =>
    /\ graph = tree \/ Marked
    /\ OneRefresh
    /\ Refreshing # {} => orphan = Unknown
    /\ \A h \in Hooks : hook[h].todo = "run" => hook[h].seen = tree
    /\ \A h \in Hooks : hook[h].todo \in {"clear", "save"} => graph = tree
    /\ orphan # Unknown => orphan = tree \/ Marked

CodeInv == Locked /\ Fresh

Stages == {"idle", "check", "mark", "decide", "lock", "break", "run", "clear", "save", "unlock"}
HookType == [todo : Stages, seen : 0..tree]

-----------------------------------------------------------------------------
(* Types.  That hooks are records is stated here, where EXCEPT needs it.   *)
Scalars ==
  /\ tree \in 0..MaxEdits /\ look \in 0..tree /\ graph \in 0..tree
  /\ print \in (0..look) \cup {Unknown} /\ orphan \in (0..tree) \cup {Unknown}
  /\ lock \in {"none", "young", "old"}
  /\ owed \in BOOLEAN /\ dirty \in BOOLEAN /\ missable \in BOOLEAN /\ broken \in BOOLEAN
  /\ failures \in 0..MaxFailures /\ hookKills \in 0..MaxHookKills

CodeTyped == Scalars /\ hook \in [Hooks -> HookType]

LEMMA CodeTypedInit == CodeInit => CodeTyped
<1> SUFFICES ASSUME CodeInit PROVE CodeTyped
  OBVIOUS
<1> USE CodeGraphAssumption DEF CodeInit
<1>1. tree = 0 /\ tree \in 0..MaxEdits /\ look \in 0..tree /\ graph \in 0..tree
  OBVIOUS
<1>2. owed \in BOOLEAN /\ dirty \in BOOLEAN /\ missable \in BOOLEAN /\ broken \in BOOLEAN
  OBVIOUS
<1>3. failures \in 0..MaxFailures /\ hookKills \in 0..MaxHookKills
  OBVIOUS
<1>4. print \in (0..look) \cup {Unknown} /\ orphan \in (0..tree) \cup {Unknown} /\ lock \in {"none", "young", "old"}
  OBVIOUS
<1>5. Scalars
  BY <1>1, <1>2, <1>3, <1>4, Zenon DEF Scalars
<1>6. hook \in [Hooks -> HookType]
  BY <1>1 DEF HookType, Stages, Resting
<1> QED
  BY <1>5, <1>6 DEF CodeTyped

(* A hook goes to its next stage; a hook starts over.                      *)
LEMMA Moved ==
  ASSUME CodeTyped, NEW h \in Hooks, NEW what \in Stages, Goes(h, what)
  PROVE  /\ hook' \in [Hooks -> HookType]
         /\ hook'[h].todo = what /\ hook'[h].seen = hook[h].seen
         /\ \A g \in Hooks : g # h => hook'[g] = hook[g]
BY DEF CodeTyped, HookType, Goes

LEMMA Placed ==
  ASSUME CodeTyped, NEW h \in Hooks, NEW r \in HookType, hook' = [hook EXCEPT ![h] = r]
  PROVE  /\ hook' \in [Hooks -> HookType]
         /\ hook'[h] = r
         /\ \A g \in Hooks : g # h => hook'[g] = hook[g]
BY DEF CodeTyped

LEMMA Rests == CodeTyped => Resting \in HookType
BY CodeGraphAssumption DEF CodeTyped, Scalars, Resting, HookType, Stages

LEMMA Starts == CodeTyped => [todo |-> "run", seen |-> tree] \in HookType
BY CodeGraphAssumption DEF CodeTyped, Scalars, HookType, Stages

LEMMA CodeTypedStep == CodeTyped /\ [CodeNext]_codeVars => CodeTyped'
<1> SUFFICES ASSUME CodeTyped, [CodeNext]_codeVars PROVE CodeTyped'
  OBVIOUS
<1> USE CodeGraphAssumption DEF CodeTyped
<1>1. ASSUME NEW byTool \in BOOLEAN, NEW visible \in BOOLEAN, Edit(byTool, visible) PROVE CodeTyped'
  <2>1. Scalars'
    BY <1>1 DEF Edit, Scalars
  <2>2. hook' \in [Hooks -> HookType]'
    BY <1>1 DEF Edit, Scalars, HookType
  <2> QED
    BY <2>1, <2>2
<1>2. CASE MarkDirty
  BY <1>2 DEF MarkDirty, Scalars, HookType
<1>3. CASE OrphanWrites
  BY <1>3 DEF OrphanWrites, Scalars, HookType
<1>4. CASE LockAges
  BY <1>4 DEF LockAges, Scalars, HookType
<1>5. ASSUME NEW h \in Hooks, HookStep(h) \/ StartHook(h) \/ GraphifyFails(h) \/ KillHook(h) PROVE CodeTyped'
  <2> USE DEF Scalars
  <2>0. ASSUME hook' \in [Hooks -> HookType], tree' = tree PROVE hook' \in [Hooks -> HookType]'
    BY <2>0 DEF HookType
  <2>1. CASE StartHook(h)
    <3>1. Goes(h, "check")
      BY <2>1 DEF StartHook
    <3>2. hook' \in [Hooks -> HookType]
      BY <3>1, Moved DEF Stages
    <3>3. Scalars' /\ tree' = tree
      BY <2>1 DEF StartHook
    <3> QED
      BY <3>2, <3>3, <2>0
  <2>2. CASE GitStateChanged(h)
    <3>1. Goes(h, "mark") \/ Goes(h, "decide")
      BY <2>2 DEF GitStateChanged
    <3>2. hook' \in [Hooks -> HookType]
      BY <3>1, Moved DEF Stages
    <3>3. Scalars' /\ tree' = tree
      BY <2>2 DEF GitStateChanged
    <3> QED
      BY <3>2, <3>3, <2>0
  <2>3. CASE MarkChanged(h)
    <3>1. Goes(h, "decide")
      BY <2>3 DEF MarkChanged
    <3>2. hook' \in [Hooks -> HookType]
      BY <3>1, Moved DEF Stages
    <3>3. Scalars' /\ tree' = tree
      BY <2>3 DEF MarkChanged
    <3> QED
      BY <3>2, <3>3, <2>0
  <2>4. CASE NeedsRefresh(h)
    <3>1. Goes(h, "lock") \/ Goes(h, "idle")
      BY <2>4 DEF NeedsRefresh
    <3>2. hook' \in [Hooks -> HookType]
      BY <3>1, Moved DEF Stages
    <3>3. Scalars' /\ tree' = tree
      BY <2>4 DEF NeedsRefresh
    <3> QED
      BY <3>2, <3>3, <2>0
  <2>5. CASE GraphifyUpdates(h)
    <3>1. Goes(h, "clear")
      BY <2>5 DEF GraphifyUpdates
    <3>2. hook' \in [Hooks -> HookType]
      BY <3>1, Moved DEF Stages
    <3>3. Scalars' /\ tree' = tree
      BY <2>5 DEF GraphifyUpdates, HookType
    <3> QED
      BY <3>2, <3>3, <2>0
  <2>6. CASE ClearDirty(h)
    <3>1. Goes(h, "save")
      BY <2>6 DEF ClearDirty
    <3>2. hook' \in [Hooks -> HookType]
      BY <3>1, Moved DEF Stages
    <3>3. Scalars' /\ tree' = tree
      BY <2>6 DEF ClearDirty
    <3> QED
      BY <3>2, <3>3, <2>0
  <2>7. CASE SaveFingerprint(h)
    <3>1. Goes(h, "unlock")
      BY <2>7 DEF SaveFingerprint
    <3>2. hook' \in [Hooks -> HookType]
      BY <3>1, Moved DEF Stages
    <3>3. Scalars' /\ tree' = tree
      BY <2>7 DEF SaveFingerprint
    <3> QED
      BY <3>2, <3>3, <2>0
  <2>8. CASE GraphifyFails(h)
    <3>1. Goes(h, "unlock") \/ Goes(h, "clear")
      BY <2>8 DEF GraphifyFails, AfterFailure
    <3>2. hook' \in [Hooks -> HookType]
      BY <3>1, Moved DEF Stages
    <3>3. tree' = tree /\ failures' \in 0..MaxFailures
      BY <2>8 DEF GraphifyFails
    <3>4. missable' = missable \/ missable' = TRUE
      BY <2>8, Zenon DEF GraphifyFails, AfterFailure
    <3>5. missable' \in BOOLEAN
      BY <3>4
    <3>6. /\ look' = look /\ print' = print /\ lock' = lock /\ graph' = graph /\ orphan' = orphan
          /\ hookKills' = hookKills /\ owed' = owed /\ dirty' = dirty /\ broken' = broken
      BY <2>8 DEF GraphifyFails
    <3>7. Scalars'
      BY <3>3, <3>5, <3>6
    <3> QED
      BY <3>2, <3>3, <3>7, <2>0
  <2>9. CASE AcquireLock(h)
    <3>1. Goes(h, "break") \/ Goes(h, "idle") \/ Runs(h)
      BY <2>9 DEF AcquireLock
    <3>2. hook' \in [Hooks -> HookType]
      BY <3>1, Moved, Starts, Placed DEF Runs, Stages
    <3>3. tree' = tree /\ missable' \in BOOLEAN /\ lock' \in {"none", "young", "old"}
      BY <2>9 DEF AcquireLock, Runs
    <3>4. Scalars'
      BY <2>9, <3>3 DEF AcquireLock
    <3> QED
      BY <3>2, <3>3, <3>4, <2>0
  <2>10. CASE BreakLock(h)
    <3>1. hook' \in [Hooks -> HookType]
      BY <2>10, Starts, Placed DEF BreakLock, Runs
    <3>2. Scalars' /\ tree' = tree
      BY <2>10 DEF BreakLock, Runs
    <3> QED
      BY <3>1, <3>2, <2>0
  <2>11. CASE Unlock(h)
    <3>1. hook' \in [Hooks -> HookType]
      BY <2>11, Rests, Placed DEF Unlock
    <3>2. Scalars' /\ tree' = tree
      BY <2>11 DEF Unlock
    <3> QED
      BY <3>1, <3>2, <2>0
  <2>12. CASE KillHook(h)
    <3>1. hook' \in [Hooks -> HookType]
      BY <2>12, Rests, Placed DEF KillHook
    <3>2. hook[h].seen \in 0..tree
      BY DEF HookType
    <3>3. Scalars' /\ tree' = tree
      BY <2>12, <3>2 DEF KillHook
    <3> QED
      BY <3>1, <3>3, <2>0
  <2> QED
    BY <1>5, <2>1, <2>2, <2>3, <2>4, <2>5, <2>6, <2>7, <2>8, <2>9, <2>10, <2>11, <2>12 DEF HookStep
<1>6. CASE UNCHANGED codeVars
  BY <1>6 DEF codeVars, Scalars, HookType
<1> QED
  BY <1>1, <1>2, <1>3, <1>4, <1>5, <1>6 DEF CodeNext

-----------------------------------------------------------------------------
(* The invariant *)

LEMMA CodeInvInit == CodeInit => CodeInv
BY DEF CodeInit, CodeInv, Locked, Fresh, OneRefresh, Refreshing, Resting

(* A hook that moves between stages outside the refresh leaves the set of  *)
(* those that refresh alone.                                               *)
LEMMA CodeInvStep == CodeTyped /\ CodeInv /\ [CodeNext]_codeVars => CodeInv'
<1> SUFFICES ASSUME CodeTyped, CodeInv, [CodeNext]_codeVars PROVE CodeInv'
  OBVIOUS
<1> USE CodeGraphAssumption
    DEF CodeTyped, Scalars, HookType, Stages, CodeInv, Locked, Fresh, OneRefresh, Refreshing, Marked
<1>1. ASSUME NEW byTool \in BOOLEAN, NEW visible \in BOOLEAN, Edit(byTool, visible) PROVE CodeInv'
  <2>1. hook' = hook /\ lock' = lock /\ broken' = broken /\ dirty' = dirty /\ graph' = graph /\ orphan' = orphan
    BY <1>1 DEF Edit
  <2>2. Locked'
    BY <2>1
  <2>3. CASE missable'
    BY <2>2, <2>3
  <2>4. CASE ~missable'
    <3>1. Refreshing = {} /\ ~missable
      BY <1>1, <2>4 DEF Edit
    <3>2. owed' \/ (print' = print /\ print # Unknown /\ look' = look + 1)
      BY <1>1, <2>4 DEF Edit
    <3>3. Marked'
      BY <3>2
    <3> QED
      BY <2>1, <2>2, <3>1, <3>3
  <2> QED
    BY <2>3, <2>4
<1>2. CASE MarkDirty
  BY <1>2 DEF MarkDirty
<1>3. CASE OrphanWrites
  BY <1>3 DEF OrphanWrites
<1>4. CASE LockAges
  BY <1>4 DEF LockAges
<1>5. ASSUME NEW h \in Hooks, StartHook(h) PROVE CodeInv'
  BY <1>5 DEF StartHook, Goes
<1>6. ASSUME NEW h \in Hooks, GitStateChanged(h) PROVE CodeInv'
  BY <1>6 DEF GitStateChanged, Goes
<1>7. ASSUME NEW h \in Hooks, MarkChanged(h) PROVE CodeInv'
  BY <1>7 DEF MarkChanged, Goes
<1>8. ASSUME NEW h \in Hooks, NeedsRefresh(h) PROVE CodeInv'
  BY <1>8 DEF NeedsRefresh, Goes
<1>9. ASSUME NEW h \in Hooks, AcquireLock(h) PROVE CodeInv'
  <2>1. hook[h].todo = "lock" /\ graph' = graph /\ dirty' = dirty /\ owed' = owed /\ print' = print
        /\ look' = look /\ tree' = tree /\ orphan' = orphan /\ broken' = broken
    BY <1>9 DEF AcquireLock
  <2>2. CASE LockHeld
    <3>1. lock' = lock /\ missable' = missable /\ (Goes(h, "break") \/ Goes(h, "idle"))
      BY <1>9, <2>2 DEF AcquireLock
    <3>2. /\ hook'[h].todo \notin {"run", "clear", "save", "unlock", "mark"}
          /\ \A g \in Hooks : g # h => hook'[g] = hook[g]
      BY <3>1 DEF Goes
    <3> QED
      BY <2>1, <3>1, <3>2
  <2>3. CASE ~LockHeld
    <3>1. lock' = "young" /\ hook' = [hook EXCEPT ![h] = [todo |-> "run", seen |-> tree]]
      BY <1>9, <2>3 DEF AcquireLock, Runs
    <3>2. hook'[h].todo = "run" /\ hook'[h].seen = tree /\ \A g \in Hooks : g # h => hook'[g] = hook[g]
      BY <3>1
    <3>3. Locked'
      BY <2>1, <2>3, <3>1, <3>2 DEF LockHeld
    <3>4. ASSUME ~missable' PROVE Fresh'
      <4>1. ~missable /\ Refreshing \ {h} = {} /\ orphan = Unknown
        BY <1>9, <2>3, <3>4 DEF AcquireLock, Runs
      <4>2. graph' = tree' \/ Marked'
        BY <2>1, <3>2, <4>1
      <4>3. \A g \in Hooks : g \in Refreshing' => g = h
        BY <3>2, <4>1
      <4> HIDE DEF Marked, CodeTyped
      <4> QED
        BY <2>1, <3>2, <4>1, <4>2, <4>3
    <3> QED
      BY <3>3, <3>4
  <2> QED
    BY <2>2, <2>3
<1>10. ASSUME NEW h \in Hooks, BreakLock(h) PROVE CodeInv'
  <2>1. hook' = [hook EXCEPT ![h] = [todo |-> "run", seen |-> tree]] /\ broken' /\ tree' = tree
    BY <1>10 DEF BreakLock, Runs
  <2>2. hook'[h].todo = "run" /\ hook'[h].seen = tree /\ \A g \in Hooks : g # h => hook'[g] = hook[g]
    BY <2>1
  <2>3. CASE missable'
    BY <2>1, <2>3
  <2>4. CASE ~missable'
    <3>1. ~missable /\ Refreshing \ {h} = {} /\ orphan = Unknown
      BY <1>10, <2>4 DEF BreakLock, Runs
    <3>2. graph' = graph /\ dirty' = dirty /\ owed' = owed /\ print' = print /\ look' = look /\ orphan' = Unknown
      BY <1>10, <3>1 DEF BreakLock
    <3>3. hook[h].todo = "break"
      BY <1>10 DEF BreakLock
    <3>4. graph' = tree' \/ Marked'
      BY <2>1, <2>2, <3>1, <3>2, <3>3
    <3>5. \A g \in Hooks : g \in Refreshing' => g = h
      BY <2>2, <3>1
    <3> HIDE DEF Marked, CodeTyped
    <3> QED
      BY <2>1, <2>2, <3>2, <3>4, <3>5
  <2> QED
    BY <2>3, <2>4
<1>11. ASSUME NEW h \in Hooks, GraphifyUpdates(h) PROVE CodeInv'
  BY <1>11 DEF GraphifyUpdates, Goes
<1>12. ASSUME NEW h \in Hooks, GraphifyFails(h) PROVE CodeInv'
  BY <1>12 DEF GraphifyFails, AfterFailure, Goes
<1>13. ASSUME NEW h \in Hooks, ClearDirty(h) PROVE CodeInv'
  BY <1>13 DEF ClearDirty, Goes
<1>14. ASSUME NEW h \in Hooks, SaveFingerprint(h) PROVE CodeInv'
  BY <1>14 DEF SaveFingerprint, Goes
<1>15. ASSUME NEW h \in Hooks, Unlock(h) PROVE CodeInv'
  BY <1>15 DEF Unlock, Resting
<1>16. ASSUME NEW h \in Hooks, KillHook(h) PROVE CodeInv'
  <2>1. hook' = [hook EXCEPT ![h] = Resting] /\ tree' = tree /\ lock' = lock /\ broken' = broken
    BY <1>16 DEF KillHook
  <2>2. hook'[h].todo = "idle" /\ \A g \in Hooks : g # h => hook'[g] = hook[g]
    BY <2>1 DEF Resting
  <2>3. \A g \in Hooks : g \in Refreshing' => g \in Refreshing /\ g # h
    BY <2>2
  <2>4. Locked'
    BY <2>1, <2>3
  <2>5. ASSUME ~missable' PROVE Fresh'
    <3>1. ~missable /\ hook[h].todo # "mark"
      BY <1>16, <2>5 DEF KillHook
    <3>2. graph' = graph /\ dirty' = dirty /\ owed' = owed /\ print' = print /\ look' = look
      BY <1>16 DEF KillHook
    <3>3. Marked => Marked'
      BY <2>2, <3>1, <3>2
    <3>4. graph' = tree' \/ Marked'
      BY <2>1, <3>1, <3>2, <3>3
    <3>5. orphan' # Unknown => orphan' = tree' \/ Marked'
      BY <1>16, <2>1, <3>1, <3>3 DEF KillHook
    <3>6. Refreshing' # {} => orphan' = Unknown
      BY <1>16, <2>3, <3>1 DEF KillHook
    <3> HIDE DEF Marked, CodeTyped
    <3> QED
      BY <2>1, <2>2, <2>3, <3>1, <3>2, <3>4, <3>5, <3>6
  <2> QED
    BY <2>4, <2>5
<1>17. CASE UNCHANGED codeVars
  BY <1>17 DEF codeVars
<1> QED
  BY <1>1, <1>2, <1>3, <1>4, <1>5, <1>6, <1>7, <1>8, <1>9, <1>10, <1>11, <1>12, <1>13, <1>14,
     <1>15, <1>16, <1>17 DEF CodeNext, HookStep

-----------------------------------------------------------------------------
(* What the invariant says of the property *)

LEMMA Forgets == CodeTyped /\ CodeInv => NothingForgotten
<1> SUFFICES ASSUME CodeTyped, CodeInv, \A h \in Hooks : hook[h].todo = "idle",
                    ~dirty, ~owed, print = look, orphan = Unknown, ~missable
             PROVE  graph = tree
  BY DEF NothingForgotten
<1>1. ~Marked
  BY DEF Marked
<1> QED
  BY <1>1 DEF CodeInv, Fresh

LEMMA Sole == CodeInv => SoleRefresh
<1> SUFFICES ASSUME CodeInv, ~broken PROVE ~(Cardinality(Refreshing) > 1)
  BY DEF SoleRefresh
<1>1. OneRefresh
  BY DEF CodeInv, Locked
<1>2. CASE Refreshing = {}
  BY <1>2, FS_EmptySet
<1>3. ASSUME NEW h \in Refreshing PROVE ~(Cardinality(Refreshing) > 1)
  <2>1. Refreshing = {h}
    BY <1>1 DEF OneRefresh
  <2>2. Cardinality({h}) = 1
    BY FS_Singleton, Zenon
  <2>3. ~(1 > 1)
    OBVIOUS
  <2> QED
    BY <2>1, <2>2, <2>3, Zenon
<1> QED
  BY <1>2, <1>3, Zenon

-----------------------------------------------------------------------------
(* What the database graph is built of. *)

LEMMA NodeFields == \A i, t, f : Node(i, t, f).id = i /\ Node(i, t, f).type = t /\ Node(i, t, f).flags = f
BY DEF Node

LEMMA EdgeFields ==
  \A s, t, r : Edge(s, t, r).source = s /\ Edge(s, t, r).target = t /\ Edge(s, t, r).relationship = r
BY DEF Edge

LEMMA ATableNode ==
  ASSUME NEW rows, NEW n
  PROVE  n \in TableNodes(rows) <=> \E t \in rows.tables : n = Node(TableId(t), "Table", {})
BY DEF TableNodes

LEMMA AColumnNode ==
  ASSUME NEW rows, NEW n
  PROVE  n \in ColumnNodes(rows) <=> \E c \in rows.columns : n = Node(ColumnId(c), "Column", Flags(rows, c))
BY DEF ColumnNodes

LEMMA ARoutineNode ==
  ASSUME NEW rows, NEW n
  PROVE  n \in RoutineNodes(rows) <=> \E r \in rows.routines : n = Node(RoutineId(r), "Routine", {})
BY DEF RoutineNodes

LEMMA AStoresEdge ==
  ASSUME NEW rows, NEW e
  PROVE  e \in StoresEdges(rows) <=> \E c \in rows.columns : e = Edge(TableId(c[1]), ColumnId(c), "Stores")
BY DEF StoresEdges

LEMMA ALinksEdge ==
  ASSUME NEW rows, NEW e
  PROVE  e \in LinksEdges(rows) <=>
           \E f \in rows.fks : /\ f[1] \in rows.columns /\ f[2] \in rows.columns
                               /\ e = Edge(ColumnId(f[1]), ColumnId(f[2]), "Links")
BY DEF LinksEdges

LEMMA ACreatesEdge ==
  ASSUME NEW rows, NEW ids, NEW e
  PROVE  e \in CreatesEdges(rows, ids) <=>
           \E d \in rows.deps : /\ d[1] \in rows.routines /\ TargetId(d[2]) \in ids
                                /\ e = Edge(RoutineId(d[1]), TargetId(d[2]), "Creates")
BY DEF CreatesEdges

LEMMA AnId ==
  \A nodes, i : i \in Ids(nodes) <=> \E n \in nodes : i = n.id
BY DEF Ids

LEMMA ABareNode ==
  ASSUME NEW es, NEW typed, NEW n
  PROVE  n \in BareNodes(es, typed) <=>
           \E i : /\ i \notin Ids(typed) /\ n = Node(i, "", {})
                 /\ \E e \in es : i = e.source \/ i = e.target
BY DEF BareNodes

(* The ids of nodes and edges, by what they are.                           *)
LEMMA NodeSets ==
  ASSUME NEW rows
  PROVE  /\ Ids(TableNodes(rows)) = {TableId(t) : t \in rows.tables}
         /\ Ids(ColumnNodes(rows)) = {ColumnId(c) : c \in rows.columns}
         /\ Ids(RoutineNodes(rows)) = {RoutineId(r) : r \in rows.routines}
<1>1. ASSUME NEW t \in rows.tables PROVE TableId(t) \in Ids(TableNodes(rows))
  <2>1. Node(TableId(t), "Table", {}) \in TableNodes(rows)
    BY ATableNode
  <2>2. Node(TableId(t), "Table", {}).id = TableId(t)
    BY NodeFields, Zenon
  <2> QED
    BY <2>1, <2>2, AnId
<1>2. ASSUME NEW i \in Ids(TableNodes(rows)) PROVE \E t \in rows.tables : i = TableId(t)
  <2>1. PICK n \in TableNodes(rows) : i = n.id
    BY AnId, Zenon
  <2>2. PICK t \in rows.tables : n = Node(TableId(t), "Table", {})
    BY ATableNode
  <2>3. n.id = TableId(t)
    BY <2>2, NodeFields, Zenon
  <2> QED
    BY <2>1, <2>3
<1>3. ASSUME NEW c \in rows.columns PROVE ColumnId(c) \in Ids(ColumnNodes(rows))
  <2>1. Node(ColumnId(c), "Column", Flags(rows, c)) \in ColumnNodes(rows)
    BY AColumnNode
  <2>2. Node(ColumnId(c), "Column", Flags(rows, c)).id = ColumnId(c)
    BY NodeFields, Zenon
  <2> QED
    BY <2>1, <2>2, AnId
<1>4. ASSUME NEW i \in Ids(ColumnNodes(rows)) PROVE \E c \in rows.columns : i = ColumnId(c)
  <2>1. PICK n \in ColumnNodes(rows) : i = n.id
    BY AnId, Zenon
  <2>2. PICK c \in rows.columns : n = Node(ColumnId(c), "Column", Flags(rows, c))
    BY AColumnNode
  <2>3. n.id = ColumnId(c)
    BY <2>2, NodeFields, Zenon
  <2> QED
    BY <2>1, <2>3
<1>5. ASSUME NEW r \in rows.routines PROVE RoutineId(r) \in Ids(RoutineNodes(rows))
  <2>1. Node(RoutineId(r), "Routine", {}) \in RoutineNodes(rows)
    BY ARoutineNode
  <2>2. Node(RoutineId(r), "Routine", {}).id = RoutineId(r)
    BY NodeFields, Zenon
  <2> QED
    BY <2>1, <2>2, AnId
<1>6. ASSUME NEW i \in Ids(RoutineNodes(rows)) PROVE \E r \in rows.routines : i = RoutineId(r)
  <2>1. PICK n \in RoutineNodes(rows) : i = n.id
    BY AnId, Zenon
  <2>2. PICK r \in rows.routines : n = Node(RoutineId(r), "Routine", {})
    BY ARoutineNode
  <2>3. n.id = RoutineId(r)
    BY <2>2, NodeFields, Zenon
  <2> QED
    BY <2>1, <2>3
<1>7. Ids(TableNodes(rows)) = {TableId(t) : t \in rows.tables}
  BY <1>1, <1>2
<1>8. Ids(ColumnNodes(rows)) = {ColumnId(c) : c \in rows.columns}
  BY <1>3, <1>4
<1>9. Ids(RoutineNodes(rows)) = {RoutineId(r) : r \in rows.routines}
  BY <1>5, <1>6
<1> QED
  BY <1>7, <1>8, <1>9, Zenon

LEMMA IdsOfUnion == ASSUME NEW A, NEW B PROVE Ids(A \cup B) = Ids(A) \cup Ids(B)
BY DEF Ids

LEMMA BareIds ==
  ASSUME NEW es, NEW typed, NEW i
  PROVE  i \in Ids(BareNodes(es, typed)) <=> i \notin Ids(typed) /\ \E e \in es : i = e.source \/ i = e.target
<1>1. ASSUME i \in Ids(BareNodes(es, typed)) PROVE i \notin Ids(typed) /\ \E e \in es : i = e.source \/ i = e.target
  <2>1. PICK n \in BareNodes(es, typed) : i = n.id
    BY <1>1, AnId, Zenon
  <2>2. PICK j : /\ j \notin Ids(typed) /\ n = Node(j, "", {})
                 /\ \E e \in es : j = e.source \/ j = e.target
    BY ABareNode
  <2>3. i = j
    <3>1. Node(j, "", {}).id = j
      BY NodeFields, Zenon
    <3> QED
      BY <2>1, <2>2, <3>1
  <2> QED
    BY <2>2, <2>3, Zenon
<1>2. ASSUME i \notin Ids(typed), NEW e \in es, i = e.source \/ i = e.target PROVE i \in Ids(BareNodes(es, typed))
  <2>1. Node(i, "", {}) \in BareNodes(es, typed)
    <3>1. \E x \in es : i = x.source \/ i = x.target
      BY <1>2
    <3> QED
      BY <1>2, <3>1, ABareNode
  <2>2. Node(i, "", {}).id = i
    BY NodeFields, Zenon
  <2> QED
    BY <2>1, <2>2, AnId
<1> QED
  BY <1>1, <1>2

(* The ids of tables, columns and routines are told apart.                 *)
LEMMA IdsDiffer ==
  /\ \A t, u : TableId(t) = TableId(u) => t = u
  /\ \A t, u : RoutineId(t) = RoutineId(u) => t = u
  /\ \A t, c : TableId(t) # ColumnId(c)
  /\ \A r, c : RoutineId(r) # ColumnId(c)
  /\ \A t, r : TableId(t) # RoutineId(r)
BY DEF TableId, ColumnId, RoutineId

LEMMA StoresEnds ==
  ASSUME NEW rows, NEW e \in StoresEdges(rows)
  PROVE  \E c \in rows.columns : e.source = TableId(c[1]) /\ e.target = ColumnId(c) /\ e.relationship = "Stores"
<1>1. PICK c \in rows.columns : e = Edge(TableId(c[1]), ColumnId(c), "Stores")
  BY AStoresEdge
<1>2. Edge(TableId(c[1]), ColumnId(c), "Stores").source = TableId(c[1]) /\ Edge(TableId(c[1]), ColumnId(c), "Stores").target = ColumnId(c) /\ Edge(TableId(c[1]), ColumnId(c), "Stores").relationship = "Stores"
  BY EdgeFields
<1>3. e.source = TableId(c[1]) /\ e.target = ColumnId(c) /\ e.relationship = "Stores"
  BY <1>1, <1>2
<1> QED
  BY <1>1, <1>3, Zenon

LEMMA LinksEnds ==
  ASSUME NEW rows, NEW e \in LinksEdges(rows)
  PROVE  \E f \in rows.fks : /\ f[1] \in rows.columns /\ f[2] \in rows.columns
                            /\ e.source = ColumnId(f[1]) /\ e.target = ColumnId(f[2]) /\ e.relationship = "Links"
<1>1. PICK f \in rows.fks : /\ f[1] \in rows.columns /\ f[2] \in rows.columns
                            /\ e = Edge(ColumnId(f[1]), ColumnId(f[2]), "Links")
  BY ALinksEdge
<1>2. Edge(ColumnId(f[1]), ColumnId(f[2]), "Links").source = ColumnId(f[1]) /\ Edge(ColumnId(f[1]), ColumnId(f[2]), "Links").target = ColumnId(f[2]) /\ Edge(ColumnId(f[1]), ColumnId(f[2]), "Links").relationship = "Links"
  BY EdgeFields
<1>3. e.source = ColumnId(f[1]) /\ e.target = ColumnId(f[2]) /\ e.relationship = "Links"
  BY <1>1, <1>2
<1> QED
  BY <1>1, <1>3, Zenon

LEMMA CreatesEnds ==
  ASSUME NEW rows, NEW ids, NEW e \in CreatesEdges(rows, ids)
  PROVE  \E d \in rows.deps : /\ d[1] \in rows.routines /\ TargetId(d[2]) \in ids
                             /\ e.source = RoutineId(d[1]) /\ e.target = TargetId(d[2]) /\ e.relationship = "Creates"
<1>1. PICK d \in rows.deps : /\ d[1] \in rows.routines /\ TargetId(d[2]) \in ids
                             /\ e = Edge(RoutineId(d[1]), TargetId(d[2]), "Creates")
  BY ACreatesEdge
<1>2. Edge(RoutineId(d[1]), TargetId(d[2]), "Creates").source = RoutineId(d[1]) /\ Edge(RoutineId(d[1]), TargetId(d[2]), "Creates").target = TargetId(d[2]) /\ Edge(RoutineId(d[1]), TargetId(d[2]), "Creates").relationship = "Creates"
  BY EdgeFields
<1>3. e.source = RoutineId(d[1]) /\ e.target = TargetId(d[2]) /\ e.relationship = "Creates"
  BY <1>1, <1>2
<1> QED
  BY <1>1, <1>3, Zenon

(* What dependencies may lead to, and the tables that only their columns   *)
(* show: both as they come out.                                            *)
PresentIds(rows) ==
  {TableId(t) : t \in rows.tables} \cup {ColumnId(c) : c \in rows.columns} \cup {TableId(c[1]) : c \in rows.columns}
UnreadTables(rows) == {Node(TableId(c[1]), "", {}) : c \in {x \in rows.columns : x[1] \notin rows.tables}}

LEMMA GraphBuilt ==
  ASSUME NEW rows
  PROVE  /\ BuildGraph(rows).edges = StoresEdges(rows) \cup LinksEdges(rows) \cup CreatesEdges(rows, PresentIds(rows))
         /\ BuildGraph(rows).nodes
              = TableNodes(rows) \cup ColumnNodes(rows) \cup RoutineNodes(rows) \cup UnreadTables(rows)
<1> DEFINE typed == TableNodes(rows) \cup ColumnNodes(rows)
           early == StoresEdges(rows) \cup LinksEdges(rows)
           present == Ids(typed) \cup Ids(BareNodes(early, typed))
           es == early \cup CreatesEdges(rows, present)
           all == typed \cup RoutineNodes(rows)
<1>1. BuildGraph(rows).nodes = all \cup BareNodes(es, all) /\ BuildGraph(rows).edges = es
  BY DEF BuildGraph
<1>2. /\ Ids(typed) = {TableId(t) : t \in rows.tables} \cup {ColumnId(c) : c \in rows.columns}
      /\ Ids(all) = Ids(typed) \cup {RoutineId(r) : r \in rows.routines}
  <2>1. Ids(typed) = Ids(TableNodes(rows)) \cup Ids(ColumnNodes(rows))
    BY IdsOfUnion
  <2>2. Ids(all) = Ids(typed) \cup Ids(RoutineNodes(rows))
    BY IdsOfUnion
  <2> QED
    BY <2>1, <2>2, NodeSets
<1>3. present = Ids(typed) \cup Ids(BareNodes(early, typed)) /\ es = early \cup CreatesEdges(rows, present)
  OBVIOUS
<1>4. ASSUME NEW e \in early
      PROVE  /\ e.source \in PresentIds(rows) /\ e.target \in PresentIds(rows)
             /\ \A i : i = e.source \/ i = e.target =>
                  \/ \E c \in rows.columns : i = ColumnId(c)
                  \/ \E c \in rows.columns : i = TableId(c[1])
  <2>1. CASE e \in StoresEdges(rows)
    BY <2>1, StoresEnds DEF PresentIds
  <2>2. CASE e \in LinksEdges(rows)
    BY <2>2, LinksEnds DEF PresentIds
  <2> QED
    BY <2>1, <2>2
<1>5. ASSUME NEW c \in rows.columns PROVE \E e \in early : e.source = TableId(c[1])
  <2>1. Edge(TableId(c[1]), ColumnId(c), "Stores") \in early
    BY AStoresEdge
  <2>2. Edge(TableId(c[1]), ColumnId(c), "Stores").source = TableId(c[1])
    BY EdgeFields, Zenon
  <2> QED
    BY <2>1, <2>2
<1> HIDE DEF typed, early, present, es, all
<1>6. present = PresentIds(rows)
  <2>1. \A i : i \in present <=> i \in Ids(typed) \/ \E e \in early : i = e.source \/ i = e.target
    BY <1>3, BareIds
  <2>2. Ids(typed) \subseteq PresentIds(rows)
    BY <1>2 DEF PresentIds
  <2>3. present \subseteq PresentIds(rows)
    BY <2>1, <2>2, <1>4
  <2>4. PresentIds(rows) \subseteq present
    BY <2>1, <1>2, <1>5 DEF PresentIds
  <2> QED
    BY <2>3, <2>4
<1>7. \A i : (\E e \in es : i = e.source \/ i = e.target) =>
         i \in Ids(all) \/ \E c \in rows.columns : i = TableId(c[1])
  <2>1. ASSUME NEW i, NEW e \in CreatesEdges(rows, present), i = e.source \/ i = e.target
        PROVE  i \in Ids(all) \/ \E c \in rows.columns : i = TableId(c[1])
    BY <2>1, <1>2, <1>6, CreatesEnds DEF PresentIds
  <2> QED
    BY <1>2, <1>3, <1>4, <2>1
<1>8. BareNodes(es, all) = UnreadTables(rows)
  <2>1. ASSUME NEW n \in BareNodes(es, all) PROVE n \in UnreadTables(rows)
    <3>1. PICK i : /\ i \notin Ids(all) /\ n = Node(i, "", {})
                   /\ \E e \in es : i = e.source \/ i = e.target
      BY ABareNode
    <3>2. PICK c \in rows.columns : i = TableId(c[1])
      BY <3>1, <1>7
    <3>3. c[1] \notin rows.tables
      BY <3>1, <3>2, <1>2
    <3> QED
      BY <3>1, <3>2, <3>3 DEF UnreadTables
  <2>2. ASSUME NEW n \in UnreadTables(rows) PROVE n \in BareNodes(es, all)
    <3>1. PICK c \in rows.columns : c[1] \notin rows.tables /\ n = Node(TableId(c[1]), "", {})
      BY DEF UnreadTables
    <3>2. TableId(c[1]) \notin Ids(all)
      BY <3>1, <1>2, IdsDiffer
    <3>3. \E e \in es : TableId(c[1]) = e.source
      BY <1>3, <1>5
    <3>4. \E i : i \notin Ids(all) /\ n = Node(i, "", {}) /\ \E e \in es : i = e.source \/ i = e.target
      BY <3>1, <3>2, <3>3
    <3> QED
      BY <3>4, ABareNode, Zenon
  <2> QED
    BY <2>1, <2>2
<1>9. BuildGraph(rows).edges = early \cup CreatesEdges(rows, PresentIds(rows))
  BY <1>1, <1>3, <1>6
<1> QED
  BY <1>1, <1>8, <1>9 DEF early, all, typed

-----------------------------------------------------------------------------
(* Catalogs over the tables of S have one column per table.                *)
ColumnsOf(S) == {<<t, "k">> : t \in S}
CatalogsOver(S) ==
  [tables : SUBSET S, columns : SUBSET ColumnsOf(S), pks : SUBSET ColumnsOf(S),
   fks : SUBSET (ColumnsOf(S) \X ColumnsOf(S)), routines : SUBSET Routines,
   deps : SUBSET (Routines \X (ColumnsOf(S) \cup {<<t>> : t \in S}))]

(* Every column is of a table that is there.                               *)
Consistent(rows) == \A c \in rows.columns : c[1] \in rows.tables

QueryNames == {"tables", "columns", "pks", "fks", "routines", "deps"}
JobType == [todo : QueryNames \cup {"idle", "connect", "open", "write", "replace"},
            rows : CatalogsOver(Tables), ddl : BOOLEAN, dropped : BOOLEAN]
InodeType == [exists : BOOLEAN, open : SUBSET Builders, torn : BOOLEAN,
              graph : {BuildGraph(rows) : rows \in CatalogsOver(Tables)}, ddl : BOOLEAN]

DbTyped ==
  /\ catalog \in CatalogsOver(Tables)
  /\ ddls \in 0..MaxDdl /\ faults \in 0..MaxFaults
  /\ conn \in [Builders -> {"none", "open", "dead"}]
  /\ job \in [Builders -> JobType]
  /\ tmp \in InodeType /\ file \in InodeType
  /\ fresh \in BOOLEAN /\ raced \in BOOLEAN /\ surprised \in BOOLEAN

(* A file that is young or written to is there, and nobody reads without a *)
(* connection.                                                             *)
Linked ==
  /\ fresh => file.exists
  /\ \A i \in {tmp, file} : i.open # {} => i.exists
  /\ \A b \in Builders : conn[b] = "none" => job[b].todo \in {"idle", "connect"}

(* What a build has read is the catalog as it is, until the schema changes.*)
Snapshot(b) ==
  ~job[b].ddl =>
    /\ job[b].todo \in QueryNames \ {"tables"} => job[b].rows.tables = catalog.tables
    /\ job[b].todo \in QueryNames \ {"tables", "columns"} => job[b].rows.columns = catalog.columns
    /\ job[b].todo = "open" => Consistent(job[b].rows)

Snapshots == Consistent(catalog) /\ \A b \in Builders : Snapshot(b)

(* What a file holds was read in one go, or else it is marked.             *)
Honest(inode) ==
  \E rows \in CatalogsOver(Tables) : inode.graph = BuildGraph(rows) /\ (~inode.ddl => Consistent(rows))

(* As long as two have not written at once, the one that writes has the    *)
(* temporary file for itself until it has renamed it.                      *)
Alone ==
  ~raced =>
    /\ \A b, c \in Builders : Writing(b) /\ Writing(c) => b = c
    /\ Whole(file)
    /\ \A b \in tmp.open : job[b].todo = "write"
    /\ (\E b \in Builders : Writing(b)) => ~tmp.torn

Probed == ~surprised /\ \A b \in Builders : job[b].todo \in QueryNames => conn[b] = "open" \/ job[b].dropped

-----------------------------------------------------------------------------
(* The queries, in their order.                                            *)
LEMMA QueryOrder ==
  /\ {Queries[i] : i \in 1..Len(Queries)} = QueryNames
  /\ NextQuery("tables") = "columns" /\ NextQuery("columns") = "pks" /\ NextQuery("pks") = "fks"
  /\ NextQuery("fks") = "routines" /\ NextQuery("routines") = "deps" /\ NextQuery("deps") = "open"
<1>1. /\ Len(Queries) = 6 /\ Queries[1] = "tables" /\ Queries[2] = "columns" /\ Queries[3] = "pks"
      /\ Queries[4] = "fks" /\ Queries[5] = "routines" /\ Queries[6] = "deps"
  BY DEF Queries
<1>2. 1..6 = {1, 2, 3, 4, 5, 6}
  OBVIOUS
<1>3. {Queries[i] : i \in 1..Len(Queries)} = QueryNames
  BY <1>1, <1>2 DEF QueryNames
<1>4. ASSUME NEW k \in 1..6 PROVE (CHOOSE i \in 1..Len(Queries) : Queries[i] = Queries[k]) = k
  <2>1. \A i \in 1..6 : Queries[i] = Queries[k] <=> i = k
    BY <1>1, <1>2
  <2> QED
    BY <1>1, <2>1
<1>5. ASSUME NEW k \in 1..6 PROVE NextQuery(Queries[k]) = IF k = 6 THEN "open" ELSE Queries[k + 1]
  BY <1>1, <1>4 DEF NextQuery
<1> QED
  BY <1>1, <1>3, <1>5

LEMMA Readers == \A b : Reading(b) <=> job[b].todo \in QueryNames
BY QueryOrder DEF Reading

(* One query puts what it reads in its place.                              *)
LEMMA Fetched ==
  ASSUME NEW S, NEW rows \in CatalogsOver(S), NEW cat \in CatalogsOver(S), NEW q \in QueryNames,
         NEW after, after = [rows EXCEPT ![q] = cat[q]]
  PROVE  /\ after \in CatalogsOver(S)
         /\ after.tables = IF q = "tables" THEN cat.tables ELSE rows.tables
         /\ after.columns = IF q = "columns" THEN cat.columns ELSE rows.columns
<1>1. CASE q = "tables"
  BY <1>1 DEF CatalogsOver
<1>2. CASE q = "columns"
  BY <1>2 DEF CatalogsOver
<1>3. CASE q = "pks"
  BY <1>3 DEF CatalogsOver
<1>4. CASE q = "fks"
  BY <1>4 DEF CatalogsOver
<1>5. CASE q = "routines"
  BY <1>5 DEF CatalogsOver
<1>6. CASE q = "deps"
  BY <1>6 DEF CatalogsOver
<1> QED
  BY <1>1, <1>2, <1>3, <1>4, <1>5, <1>6 DEF QueryNames

(* A change of the schema leaves a catalog in which every column is of a   *)
(* table that is there.                                                    *)
LEMMA SchemaChanges ==
  ASSUME catalog \in CatalogsOver(Tables), Consistent(catalog), SchemaChange
  PROVE  (catalog \in CatalogsOver(Tables) /\ Consistent(catalog))'
<1> DEFINE k(t) == <<t, "k">>
           own(t) == {f \in catalog.fks : f[1][1] = t}
           created(t) == [catalog EXCEPT !.tables = @ \cup {t}, !.columns = @ \cup {k(t)}, !.pks = @ \cup {k(t)}]
           dropped(t) == [catalog EXCEPT !.tables = @ \ {t}, !.columns = {c \in @ : c[1] # t}, !.pks = {c \in @ : c[1] # t},
                                         !.fks = @ \ own(t), !.deps = {d \in @ : d[2][1] # t}]
           linked(t, u) == [catalog EXCEPT !.fks = @ \cup {<<k(t), k(u)>>}]
           using(r, x) == [catalog EXCEPT !.routines = @ \cup {r}, !.deps = @ \cup {<<r, x>>}]
           without(r) == [catalog EXCEPT !.routines = @ \ {r}, !.deps = {d \in @ : d[1] # r}]
<1>1. \A t \in Tables : k(t) \in ColumnsOf(Tables) /\ k(t)[1] = t
  BY DEF ColumnsOf
<1>2. ASSUME NEW t \in Tables \ catalog.tables,
             catalog' = created(t)
      PROVE  (catalog \in CatalogsOver(Tables) /\ Consistent(catalog))'
  <2>1. catalog' \in CatalogsOver(Tables)
    BY <1>1, <1>2 DEF CatalogsOver
  <2>2. Consistent(catalog)'
    BY <1>1, <1>2 DEF CatalogsOver, Consistent
  <2> QED
    BY <2>1, <2>2
<1>3. ASSUME NEW t \in catalog.tables,
             catalog' = dropped(t)
      PROVE  (catalog \in CatalogsOver(Tables) /\ Consistent(catalog))'
  <2>1. /\ DOMAIN catalog' = DOMAIN catalog
        /\ catalog' = [tables |-> catalog.tables \ {t}, columns |-> {c \in catalog.columns : c[1] # t},
                    pks |-> {c \in catalog.pks : c[1] # t}, fks |-> catalog.fks \ own(t),
                    routines |-> catalog.routines, deps |-> {d \in catalog.deps : d[2][1] # t}]
    BY <1>3 DEF CatalogsOver
  <2>2. catalog' \in CatalogsOver(Tables)
    BY <2>1 DEF CatalogsOver
  <2>3. Consistent(catalog)'
    BY <2>1 DEF Consistent
  <2> QED
    BY <2>2, <2>3
<1>4. ASSUME NEW t \in catalog.tables, NEW u \in catalog.tables,
             catalog' = linked(t, u)
      PROVE  (catalog \in CatalogsOver(Tables) /\ Consistent(catalog))'
  <2>1. <<k(t), k(u)>> \in ColumnsOf(Tables) \X ColumnsOf(Tables)
    BY <1>1 DEF CatalogsOver
  <2>2. catalog' \in CatalogsOver(Tables)
    BY <2>1, <1>4 DEF CatalogsOver
  <2>3. Consistent(catalog)'
    BY <1>4 DEF CatalogsOver, Consistent
  <2> QED
    BY <2>2, <2>3
<1>5. ASSUME NEW r \in Routines, NEW x \in catalog.columns \cup {<<t>> : t \in catalog.tables},
             catalog' = using(r, x)
      PROVE  (catalog \in CatalogsOver(Tables) /\ Consistent(catalog))'
  <2>1. x \in ColumnsOf(Tables) \cup {<<t>> : t \in Tables}
    BY DEF CatalogsOver
  <2>2. <<r, x>> \in Routines \X (ColumnsOf(Tables) \cup {<<t>> : t \in Tables})
    BY <2>1
  <2>3. catalog' \in CatalogsOver(Tables)
    BY <2>2, <1>5 DEF CatalogsOver
  <2>4. Consistent(catalog)'
    BY <1>5 DEF CatalogsOver, Consistent
  <2> QED
    BY <2>3, <2>4
<1>6. ASSUME NEW r \in catalog.routines,
             catalog' = without(r)
      PROVE  (catalog \in CatalogsOver(Tables) /\ Consistent(catalog))'
  <2>1. catalog' \in CatalogsOver(Tables)
    BY <1>6 DEF CatalogsOver
  <2>2. Consistent(catalog)'
    BY <1>6 DEF CatalogsOver, Consistent
  <2> QED
    BY <2>1, <2>2
<1>7. \/ \E t \in Tables \ catalog.tables : catalog' = created(t)
      \/ \E t \in catalog.tables : catalog' = dropped(t)
      \/ \E t, u \in catalog.tables : catalog' = linked(t, u)
      \/ \E r \in Routines, x \in catalog.columns \cup {<<t>> : t \in catalog.tables} : catalog' = using(r, x)
      \/ \E r \in catalog.routines : catalog' = without(r)
  BY Zenon DEF SchemaChange
<1> HIDE DEF created, dropped, linked, using, without
<1> QED
  BY <1>2, <1>3, <1>4, <1>5, <1>6, <1>7

-----------------------------------------------------------------------------
(* Steps of the refresh. *)

(* Types.                                                                  *)
LEMMA EmptyCatalog == ASSUME NEW S PROVE NoRows \in CatalogsOver(S) /\ Consistent(NoRows)
BY DEF NoRows, CatalogsOver, Consistent

LEMMA Rest ==
  /\ Idle \in JobType /\ [Idle EXCEPT !.todo = "write"] \in JobType
  /\ Idle.todo = "idle" /\ [Idle EXCEPT !.todo = "write"].todo = "write"
  /\ ~Idle.ddl /\ ~[Idle EXCEPT !.todo = "write"].ddl
BY EmptyCatalog DEF Idle, JobType

LEMMA EmptyFile == NoFile \in InodeType /\ Honest(NoFile) /\ Whole(NoFile)
BY EmptyCatalog DEF NoFile, InodeType, Honest, Whole

LEMMA JobSet ==
  ASSUME DbTyped, NEW b \in Builders, NEW r \in JobType, job' = [job EXCEPT ![b] = r]
  PROVE  /\ job' \in [Builders -> JobType]
         /\ job'[b] = r
         /\ \A c \in Builders : c # b => job'[c] = job[c]
BY DEF DbTyped

LEMMA JobMoves ==
  ASSUME DbTyped, NEW b \in Builders, NEW what \in QueryNames \cup {"idle", "connect", "open", "write", "replace"},
         job' = [job EXCEPT ![b].todo = what]
  PROVE  /\ job' \in [Builders -> JobType]
         /\ job'[b] = [job[b] EXCEPT !.todo = what]
         /\ job'[b].todo = what /\ job'[b].rows = job[b].rows /\ job'[b].ddl = job[b].ddl
         /\ job'[b].dropped = job[b].dropped
         /\ \A c \in Builders : c # b => job'[c] = job[c]
<1>1. job[b] \in JobType
  BY DEF DbTyped
<1>2. [job[b] EXCEPT !.todo = what] \in JobType
  BY <1>1 DEF JobType
<1>3. job' = [job EXCEPT ![b] = [job[b] EXCEPT !.todo = what]]
  OBVIOUS
<1>4. /\ job' \in [Builders -> JobType] /\ job'[b] = [job[b] EXCEPT !.todo = what]
      /\ \A c \in Builders : c # b => job'[c] = job[c]
  BY <1>2, <1>3, JobSet
<1> QED
  BY <1>1, <1>4 DEF JobType

LEMMA InodeMade ==
  ASSUME DbTyped, NEW b \in Builders, NEW before \in InodeType
  PROVE  /\ Inode(b, before) \in InodeType
         /\ Inode(b, before).exists /\ Inode(b, before).open = before.open \cup {b}
         /\ Inode(b, before).torn = (before.open # {})
         /\ Inode(b, before).graph = BuildGraph(job[b].rows) /\ Inode(b, before).ddl = job[b].ddl
<1>1. job[b] \in JobType /\ before.open \subseteq Builders
  BY DEF DbTyped, InodeType
<1>2. job[b].rows \in CatalogsOver(Tables) /\ job[b].ddl \in BOOLEAN
  BY <1>1 DEF JobType
<1> QED
  BY <1>1, <1>2 DEF Inode, InodeType

LEMMA InodeClosed ==
  ASSUME NEW b \in Builders, NEW inode \in InodeType
  PROVE  /\ Closed(inode, b) \in InodeType
         /\ Closed(inode, b).exists = inode.exists /\ Closed(inode, b).open = inode.open \ {b}
         /\ Closed(inode, b).torn = inode.torn
         /\ Closed(inode, b).graph = inode.graph /\ Closed(inode, b).ddl = inode.ddl
BY DEF Closed, InodeType

LEMMA InodeAbandoned ==
  ASSUME NEW b \in Builders, NEW inode \in InodeType
  PROVE  /\ Abandoned(inode, b) \in InodeType
         /\ Abandoned(inode, b).exists = inode.exists /\ Abandoned(inode, b).open = inode.open \ {b}
         /\ Abandoned(inode, b).torn = (inode.torn \/ b \in inode.open)
         /\ Abandoned(inode, b).graph = inode.graph /\ Abandoned(inode, b).ddl = inode.ddl
BY DEF Abandoned, InodeType

(* One query read: the job goes on to the next.                            *)
LEMMA JobFetches ==
  ASSUME DbTyped, NEW b \in Builders, FetchRows(b)
  PROVE  LET q == job[b].todo r == job'[b]
         IN /\ job' \in [Builders -> JobType]
            /\ q \in QueryNames /\ r.todo = NextQuery(q) /\ r.ddl = job[b].ddl /\ r.dropped = job[b].dropped
            /\ r.rows.tables = IF q = "tables" THEN catalog.tables ELSE job[b].rows.tables
            /\ r.rows.columns = IF q = "columns" THEN catalog.columns ELSE job[b].rows.columns
            /\ \A c \in Builders : c # b => job'[c] = job[c]
<1> DEFINE q == job[b].todo
           rows == [job[b].rows EXCEPT ![q] = catalog[q]]
           r == [job[b] EXCEPT !.rows = rows, !.todo = NextQuery(q)]
<1>1. q \in QueryNames
  BY Readers DEF FetchRows
<1>2. job[b] \in JobType /\ catalog \in CatalogsOver(Tables)
  BY DEF DbTyped
<1>3. job[b].rows \in CatalogsOver(Tables)
  BY <1>2 DEF JobType
<1>0. rows = [job[b].rows EXCEPT ![q] = catalog[q]]
  OBVIOUS
<1> HIDE DEF rows
<1>4. /\ rows \in CatalogsOver(Tables)
      /\ rows.tables = IF q = "tables" THEN catalog.tables ELSE job[b].rows.tables
      /\ rows.columns = IF q = "columns" THEN catalog.columns ELSE job[b].rows.columns
  BY <1>0, <1>1, <1>2, <1>3, Fetched
<1>5. NextQuery(q) \in QueryNames \cup {"open"}
  BY <1>1, QueryOrder DEF QueryNames
<1>6. /\ r \in JobType /\ r.rows = rows /\ r.todo = NextQuery(q)
      /\ r.ddl = job[b].ddl /\ r.dropped = job[b].dropped
  BY <1>2, <1>4, <1>5 DEF JobType
<1>7. job' = [job EXCEPT ![b] = r]
  BY Zenon DEF FetchRows, rows
<1> HIDE DEF r
<1>8. job' \in [Builders -> JobType] /\ job'[b] = r /\ \A c \in Builders : c # b => job'[c] = job[c]
  BY <1>6, <1>7, JobSet
<1> QED
  BY <1>1, <1>4, <1>6, <1>8

LEMMA DbTypedStep ==
  ASSUME DbTyped, Snapshots, [DbNext]_dbVars
  PROVE  DbTyped'
<1> USE DbGraphAssumption
<1>1. CASE Ddl
  <2>1. catalog' \in CatalogsOver(Tables)
    BY <1>1, SchemaChanges DEF DbTyped, Snapshots, Ddl
  <2>2. job' \in [Builders -> JobType]
    <3>1. \A b \in Builders : job[b] \in JobType /\ [job[b] EXCEPT !.ddl = TRUE] \in JobType
      BY DEF DbTyped, JobType
    <3> QED
      BY <1>1, <3>1 DEF Ddl
  <2> QED
    BY <1>1, <2>1, <2>2 DEF Ddl, DbTyped
<1>2. CASE DropConnections
  <2>1. job' \in [Builders -> JobType]
    <3>1. \A b \in Builders : job[b] \in JobType /\ [job[b] EXCEPT !.dropped = TRUE] \in JobType
      BY DEF DbTyped, JobType
    <3> QED
      BY <1>2, <3>1 DEF DropConnections
  <2>2. conn' \in [Builders -> {"none", "open", "dead"}]
    BY <1>2 DEF DropConnections, DbTyped
  <2> QED
    BY <1>2, <2>1, <2>2 DEF DropConnections, DbTyped
<1>3. CASE TtlPasses
  BY <1>3 DEF TtlPasses, DbTyped
<1>4. ASSUME NEW b \in Builders, Refresh(b) PROVE DbTyped'
  <2>1. job' \in [Builders -> JobType]
    BY <1>4, JobMoves DEF Refresh
  <2> QED
    BY <1>4, <2>1 DEF Refresh, DbTyped
<1>5. ASSUME NEW b \in Builders, Connect(b) PROVE DbTyped'
  <2>1. job' \in [Builders -> JobType]
    BY <1>5, JobMoves, JobSet, Rest DEF Connect, Queries, QueryNames
  <2>2. conn' \in [Builders -> {"none", "open", "dead"}]
    BY <1>5 DEF Connect, PooledConnection, ConnectionIsAlive, DbTyped
  <2> QED
    BY <1>5, <2>1, <2>2 DEF Connect, DbTyped
<1>6. ASSUME NEW b \in Builders, FetchRows(b) PROVE DbTyped'
  <2>1. job' \in [Builders -> JobType]
    BY <1>6, JobFetches
  <2> QED
    BY <1>6, <2>1 DEF FetchRows, DbTyped
<1>7. ASSUME NEW b \in Builders, FetchFails(b) PROVE DbTyped'
  <2>1. job' \in [Builders -> JobType]
    BY <1>7, JobSet, Rest DEF FetchFails
  <2>2. conn' \in [Builders -> {"none", "open", "dead"}]
    BY <1>7 DEF FetchFails, DbTyped
  <2>3. surprised' \in BOOLEAN
    BY <1>7 DEF FetchFails, DbTyped
  <2> QED
    BY <1>7, <2>1, <2>2, <2>3 DEF FetchFails, DbTyped
<1>8. ASSUME NEW b \in Builders, OpenTmp(b) PROVE DbTyped'
  <2>1. job' \in [Builders -> JobType]
    BY <1>8, JobSet, Rest DEF OpenTmp
  <2>2. tmp' \in InodeType
    BY <1>8, InodeMade DEF OpenTmp, DbTyped
  <2>3. raced' \in BOOLEAN
    BY <1>8 DEF OpenTmp, DbTyped
  <2> QED
    BY <1>8, <2>1, <2>2, <2>3 DEF OpenTmp, DbTyped
<1>9. ASSUME NEW b \in Builders, CloseTmp(b) PROVE DbTyped'
  <2>1. job' \in [Builders -> JobType]
    BY <1>9, JobMoves DEF CloseTmp
  <2>2. tmp' \in InodeType /\ file' \in InodeType
    BY <1>9, InodeClosed DEF CloseTmp, DbTyped
  <2>3. fresh' \in BOOLEAN
    BY <1>9 DEF CloseTmp, DbTyped
  <2> QED
    BY <1>9, <2>1, <2>2, <2>3 DEF CloseTmp, DbTyped
<1>10. ASSUME NEW b \in Builders, Replace(b) PROVE DbTyped'
  <2>1. job' \in [Builders -> JobType]
    BY <1>10, JobSet, Rest DEF Replace
  <2>2. tmp' \in InodeType /\ file' \in InodeType /\ fresh' \in BOOLEAN
    BY <1>10, EmptyFile DEF Replace, DbTyped
  <2> QED
    BY <1>10, <2>1, <2>2 DEF Replace, DbTyped
<1>11. ASSUME NEW b \in Builders, KillBuilder(b) PROVE DbTyped'
  <2>1. job' \in [Builders -> JobType]
    BY <1>11, JobSet, Rest DEF KillBuilder
  <2>2. tmp' \in InodeType /\ file' \in InodeType
    BY <1>11, InodeAbandoned DEF KillBuilder, DbTyped
  <2>3. conn' \in [Builders -> {"none", "open", "dead"}]
    BY <1>11 DEF KillBuilder, DbTyped
  <2>4. faults' \in 0..MaxFaults
    BY <1>11 DEF KillBuilder, DbTyped
  <2> QED
    BY <1>11, <2>1, <2>2, <2>3, <2>4 DEF KillBuilder, DbTyped
<1>12. CASE UNCHANGED dbVars
  BY <1>12 DEF dbVars, DbTyped
<1> QED
  BY <1>1, <1>2, <1>3, <1>4, <1>5, <1>6, <1>7, <1>8, <1>9, <1>10, <1>11, <1>12 DEF DbNext


LEMMA LinkedStep ==
  ASSUME DbTyped, Linked, [DbNext]_dbVars
  PROVE  Linked'
<1> USE Readers
<1>1. CASE Ddl
  <2>1. \A b \in Builders : job'[b].todo = job[b].todo
    BY <1>1 DEF Ddl, DbTyped, JobType
  <2> QED
    BY <1>1, <2>1 DEF Ddl, Linked
<1>2. CASE DropConnections
  <2>1. \A b \in Builders : job'[b].todo = job[b].todo
    BY <1>2 DEF DropConnections, DbTyped, JobType
  <2>2. \A b \in Builders : conn'[b] = "none" => conn[b] = "none"
    BY <1>2 DEF DropConnections
  <2> QED
    BY <1>2, <2>1, <2>2 DEF DropConnections, Linked
<1>3. CASE TtlPasses
  BY <1>3 DEF TtlPasses, Linked
<1>4. ASSUME NEW b \in Builders, Refresh(b) PROVE Linked'
  BY <1>4, JobMoves DEF Refresh, Linked
<1>5. ASSUME NEW b \in Builders, Connect(b) PROVE Linked'
  <2>1. \A c \in Builders : c # b => job'[c] = job[c] /\ conn'[c] = conn[c]
    <3>1. (job' = [job EXCEPT ![b].todo = Queries[1]]) \/ (job' = [job EXCEPT ![b] = Idle])
      BY <1>5 DEF Connect
    <3>2. \A c \in Builders : c # b => conn'[c] = conn[c]
      BY <1>5 DEF Connect, DbTyped
    <3>3. Queries[1] \in QueryNames
      BY DEF Queries, QueryNames
    <3> QED
      BY <3>1, <3>2, <3>3, JobMoves, JobSet, Rest
  <2>2. conn'[b] = "none" => job'[b].todo = "idle"
    BY <1>5, JobSet, Rest DEF Connect, PooledConnection, ConnectionIsAlive, DbTyped
  <2> QED
    BY <1>5, <2>1, <2>2 DEF Connect, Linked
<1>6. ASSUME NEW b \in Builders, FetchRows(b) PROVE Linked'
  <2>1. \A c \in Builders : c # b => job'[c] = job[c]
    BY <1>6, JobFetches
  <2> QED
    BY <1>6, <2>1 DEF FetchRows, Linked
<1>7. ASSUME NEW b \in Builders, FetchFails(b) PROVE Linked'
  <2>1. \A c \in Builders : c # b => job'[c] = job[c] /\ conn'[c] = conn[c]
    BY <1>7, JobSet, Rest DEF FetchFails, DbTyped
  <2>2. job'[b].todo = "idle"
    BY <1>7, JobSet, Rest DEF FetchFails
  <2> QED
    BY <1>7, <2>1, <2>2 DEF FetchFails, Linked
<1>8. ASSUME NEW b \in Builders, OpenTmp(b) PROVE Linked'
  <2>1. \A c \in Builders : c # b => job'[c] = job[c]
    BY <1>8, JobSet, Rest DEF OpenTmp
  <2>2. tmp'.exists
    BY <1>8, InodeMade DEF OpenTmp, DbTyped
  <2> QED
    BY <1>8, <2>1, <2>2 DEF OpenTmp, Linked
<1>9. ASSUME NEW b \in Builders, CloseTmp(b) PROVE Linked'
  <2>1. \A c \in Builders : c # b => job'[c] = job[c]
    BY <1>9, JobMoves DEF CloseTmp
  <2>2. \A i \in InodeType : Closed(i, b).exists = i.exists /\ Closed(i, b).open \subseteq i.open
    BY InodeClosed
  <2>3. /\ tmp'.exists = tmp.exists /\ tmp'.open \subseteq tmp.open
        /\ file'.exists = file.exists /\ file'.open \subseteq file.open
    BY <1>9, <2>2 DEF CloseTmp, DbTyped
  <2> QED
    BY <1>9, <2>1, <2>3, JobMoves DEF CloseTmp, Linked
<1>10. ASSUME NEW b \in Builders, Replace(b) PROVE Linked'
  <2>1. \A c \in Builders : c # b => job'[c] = job[c]
    BY <1>10, JobSet, Rest DEF Replace
  <2>2. job'[b].todo = "idle"
    BY <1>10, JobSet, Rest DEF Replace
  <2>3. \A i \in {tmp, file}' : i.open # {} => i.exists
    BY <1>10 DEF Replace, Linked, NoFile
  <2>4. fresh' => file'.exists
    BY <1>10 DEF Replace, Linked
  <2> QED
    BY <1>10, <2>1, <2>2, <2>3, <2>4 DEF Replace, Linked
<1>11. ASSUME NEW b \in Builders, KillBuilder(b) PROVE Linked'
  <2>1. \A c \in Builders : c # b => job'[c] = job[c] /\ conn'[c] = conn[c]
    BY <1>11, JobSet, Rest DEF KillBuilder, DbTyped
  <2>2. job'[b].todo = "idle"
    BY <1>11, JobSet, Rest DEF KillBuilder
  <2>3. /\ tmp'.exists = tmp.exists /\ tmp'.open \subseteq tmp.open
        /\ file'.exists = file.exists /\ file'.open \subseteq file.open
    BY <1>11, InodeAbandoned DEF KillBuilder, DbTyped
  <2> QED
    BY <1>11, <2>1, <2>2, <2>3 DEF KillBuilder, Linked
<1>12. CASE UNCHANGED dbVars
  BY <1>12 DEF dbVars, Linked
<1> QED
  BY <1>1, <1>2, <1>3, <1>4, <1>5, <1>6, <1>7, <1>8, <1>9, <1>10, <1>11, <1>12 DEF DbNext

LEMMA SnapshotsStep ==
  ASSUME DbTyped, Snapshots, [DbNext]_dbVars
  PROVE  Snapshots'
<1>1. CASE Ddl
  <2>1. Consistent(catalog)'
    BY <1>1, SchemaChanges DEF DbTyped, Snapshots, Ddl
  <2>2. ASSUME NEW b \in Builders PROVE Snapshot(b)'
    <3>1. CASE job[b].todo \in QueryNames
      <4>1. job'[b].ddl
        BY <1>1, <3>1, Readers DEF Ddl, DbTyped, JobType
      <4> QED
        BY <4>1 DEF Snapshot
    <3>2. CASE job[b].todo \notin QueryNames
      <4>1. job'[b] = job[b]
        BY <1>1, <3>2, Readers DEF Ddl
      <4> QED
        BY <4>1, <3>2 DEF Snapshot, Snapshots
    <3> QED
      BY <3>1, <3>2
  <2> QED
    BY <2>1, <2>2 DEF Snapshots
<1>2. CASE DropConnections
  <2>1. \A b \in Builders : job'[b].todo = job[b].todo /\ job'[b].rows = job[b].rows /\ job'[b].ddl = job[b].ddl
    BY <1>2 DEF DropConnections, DbTyped, JobType
  <2> QED
    BY <1>2, <2>1 DEF DropConnections, Snapshots, Snapshot
<1>3. ASSUME NEW b \in Builders, catalog' = catalog, \A c \in Builders : c # b => job'[c] = job[c], Snapshot(b)'
      PROVE  Snapshots'
  BY <1>3 DEF Snapshots, Snapshot
<1>4. ASSUME NEW b \in Builders, Refresh(b) PROVE Snapshots'
  <2>1. /\ job'[b].todo = "connect"
        /\ \A c \in Builders : c # b => job'[c] = job[c]
    BY <1>4, JobMoves DEF Refresh
  <2> QED
    BY <1>3, <1>4, <2>1 DEF Refresh, Snapshot, QueryNames
<1>5. ASSUME NEW b \in Builders, Connect(b) PROVE Snapshots'
  <2>1. (job' = [job EXCEPT ![b].todo = "tables"]) \/ (job' = [job EXCEPT ![b] = Idle])
    BY <1>5 DEF Connect, Queries
  <2>2. /\ job'[b].todo \in {"tables", "idle"}
        /\ \A c \in Builders : c # b => job'[c] = job[c]
    BY <2>1, JobMoves, JobSet, Rest DEF QueryNames
  <2> QED
    BY <1>3, <1>5, <2>2 DEF Connect, Snapshot, QueryNames
<1>6. ASSUME NEW b \in Builders, FetchRows(b) PROVE Snapshots'
  <2>1. Snapshot(b) /\ Consistent(catalog) /\ catalog' = catalog
    BY <1>6 DEF Snapshots, FetchRows
  <2>2. Snapshot(b)'
    <3> DEFINE q == job[b].todo
    <3>1. /\ q \in QueryNames /\ job'[b].todo = NextQuery(q) /\ job'[b].ddl = job[b].ddl
          /\ job'[b].rows.tables = IF q = "tables" THEN catalog.tables ELSE job[b].rows.tables
          /\ job'[b].rows.columns = IF q = "columns" THEN catalog.columns ELSE job[b].rows.columns
      BY <1>6, JobFetches
    <3>2. ASSUME ~job'[b].ddl, job'[b].todo # "columns"
          PROVE  job'[b].rows.columns = catalog.columns
      BY <2>1, <3>1, <3>2, QueryOrder DEF Snapshot, QueryNames
    <3>3. ASSUME ~job'[b].ddl
          PROVE  job'[b].rows.tables = catalog.tables
      BY <2>1, <3>1, <3>3 DEF Snapshot, QueryNames
    <3>4. job'[b].todo = "open" => job'[b].todo # "columns"
      OBVIOUS
    <3>5. ~job'[b].ddl /\ job'[b].todo = "open" => Consistent(job'[b].rows)
      BY <2>1, <3>2, <3>3 DEF Consistent
    <3> QED
      BY <2>1, <3>2, <3>3, <3>5 DEF Snapshot, QueryNames
  <2>3. \A c \in Builders : c # b => job'[c] = job[c]
    BY <1>6, JobFetches
  <2> QED
    BY <1>3, <2>1, <2>2, <2>3
<1>7. ASSUME NEW b \in Builders, job' = [job EXCEPT ![b] = Idle] \/ job' = [job EXCEPT ![b] = [Idle EXCEPT !.todo = "write"]],
             catalog' = catalog
      PROVE  Snapshots'
  <2>1. /\ job'[b].todo \in {"idle", "write"}
        /\ \A c \in Builders : c # b => job'[c] = job[c]
    BY <1>7, JobSet, Rest
  <2> QED
    BY <1>3, <1>7, <2>1 DEF Snapshot, QueryNames
<1>8. ASSUME NEW b \in Builders, CloseTmp(b) PROVE Snapshots'
  <2>1. /\ job'[b].todo = "replace"
        /\ \A c \in Builders : c # b => job'[c] = job[c]
    BY <1>8, JobMoves DEF CloseTmp
  <2> QED
    BY <1>3, <1>8, <2>1 DEF CloseTmp, Snapshot, QueryNames
<1>9. ASSUME NEW b \in Builders, FetchFails(b) \/ OpenTmp(b) \/ Replace(b) \/ KillBuilder(b) PROVE Snapshots'
  BY <1>7, <1>9 DEF FetchFails, OpenTmp, Replace, KillBuilder
<1>10. CASE TtlPasses \/ UNCHANGED dbVars
  BY <1>10 DEF TtlPasses, dbVars, Snapshots, Snapshot
<1> QED
  BY <1>1, <1>2, <1>4, <1>5, <1>6, <1>8, <1>9, <1>10 DEF DbNext

LEMMA HonestSame ==
  ASSUME NEW i, NEW j, Honest(i), j.graph = i.graph, j.ddl = i.ddl
  PROVE  Honest(j)
BY DEF Honest

LEMMA HonestStep ==
  ASSUME DbTyped, Snapshots, Honest(tmp), Honest(file), [DbNext]_dbVars
  PROVE  Honest(tmp)' /\ Honest(file)'
<1>1. CASE UNCHANGED <<tmp, file>>
  BY <1>1 DEF Honest
<1>2. ASSUME NEW b \in Builders, OpenTmp(b) PROVE Honest(tmp)' /\ Honest(file)'
  <2>1. job[b].rows \in CatalogsOver(Tables)
    BY DEF DbTyped, JobType
  <2>2. ~job[b].ddl => Consistent(job[b].rows)
    BY <1>2 DEF Snapshots, Snapshot, OpenTmp
  <2>3. tmp'.graph = BuildGraph(job[b].rows) /\ tmp'.ddl = job[b].ddl
    BY <1>2, InodeMade DEF OpenTmp, DbTyped
  <2>4. Honest(tmp')
    BY <2>1, <2>2, <2>3 DEF Honest
  <2> QED
    BY <1>2, <2>4 DEF OpenTmp
<1>3. ASSUME NEW b \in Builders, CloseTmp(b) PROVE Honest(tmp)' /\ Honest(file)'
  <2>1. tmp'.graph = tmp.graph /\ tmp'.ddl = tmp.ddl /\ file'.graph = file.graph /\ file'.ddl = file.ddl
    BY <1>3, InodeClosed DEF CloseTmp, DbTyped
  <2> QED
    BY <2>1, HonestSame
<1>4. ASSUME NEW b \in Builders, Replace(b) PROVE Honest(tmp)' /\ Honest(file)'
  BY <1>4, EmptyFile DEF Replace
<1>5. ASSUME NEW b \in Builders, KillBuilder(b) PROVE Honest(tmp)' /\ Honest(file)'
  <2>1. tmp'.graph = tmp.graph /\ tmp'.ddl = tmp.ddl /\ file'.graph = file.graph /\ file'.ddl = file.ddl
    BY <1>5, InodeAbandoned DEF KillBuilder, DbTyped
  <2> QED
    BY <2>1, HonestSame
<1>6. CASE Ddl \/ DropConnections \/ TtlPasses \/ UNCHANGED dbVars
  BY <1>1, <1>6 DEF Ddl, DropConnections, TtlPasses, dbVars
<1>7. ASSUME NEW b \in Builders, Refresh(b) \/ Connect(b) \/ FetchRows(b) \/ FetchFails(b)
      PROVE  Honest(tmp)' /\ Honest(file)'
  BY <1>1, <1>7 DEF Refresh, Connect, FetchRows, FetchFails
<1> QED
  BY <1>2, <1>3, <1>4, <1>5, <1>6, <1>7 DEF DbNext

LEMMA ProbedStep ==
  ASSUME DbTyped, Probed, [DbNext]_dbVars
  PROVE  Probed'
<1> USE Readers
<1>1. CASE Ddl
  <2>1. \A b \in Builders : job'[b].todo = job[b].todo /\ job'[b].dropped = job[b].dropped
    BY <1>1 DEF Ddl, DbTyped, JobType
  <2> QED
    BY <1>1, <2>1 DEF Ddl, Probed
<1>2. CASE DropConnections
  <2>1. \A b \in Builders : /\ job'[b].todo = job[b].todo
                            /\ job[b].todo \in QueryNames => job'[b].dropped
    BY <1>2 DEF DropConnections, DbTyped, JobType
  <2> QED
    BY <1>2, <2>1 DEF DropConnections, Probed
<1>3. ASSUME NEW b \in Builders, surprised' = surprised,
             \A c \in Builders : c # b => job'[c] = job[c] /\ conn'[c] = conn[c],
             job'[b].todo \in QueryNames => conn'[b] = "open" \/ job'[b].dropped
      PROVE  Probed'
  BY <1>3 DEF Probed
<1>4. ASSUME NEW b \in Builders, Refresh(b) PROVE Probed'
  <2>1. job'[b].todo = "connect" /\ \A c \in Builders : c # b => job'[c] = job[c]
    BY <1>4, JobMoves DEF Refresh
  <2> QED
    BY <1>3, <1>4, <2>1 DEF Refresh, QueryNames
<1>5. ASSUME NEW b \in Builders, Connect(b) PROVE Probed'
  <2>1. \/ job' = [job EXCEPT ![b].todo = "tables"] /\ conn' = [conn EXCEPT ![b] = "open"]
        \/ job' = [job EXCEPT ![b] = Idle] /\ conn' = [conn EXCEPT ![b] = "none"]
    BY <1>5 DEF Connect, Queries, PooledConnection, ConnectionIsAlive
  <2>2. /\ job'[b].todo = "idle" \/ conn'[b] = "open"
        /\ \A c \in Builders : c # b => job'[c] = job[c]
    BY <2>1, JobMoves, JobSet, Rest DEF QueryNames, DbTyped
  <2>3. \A c \in Builders : c # b => conn'[c] = conn[c]
    BY <2>1 DEF DbTyped
  <2> QED
    BY <1>3, <1>5, <2>2, <2>3 DEF Connect, QueryNames
<1>6. ASSUME NEW b \in Builders, FetchRows(b) PROVE Probed'
  <2>1. \A c \in Builders : c # b => job'[c] = job[c]
    BY <1>6, JobFetches
  <2> QED
    BY <1>3, <1>6, <2>1 DEF FetchRows
<1>7. ASSUME NEW b \in Builders, FetchFails(b) PROVE Probed'
  <2>1. surprised' = surprised
    BY <1>7 DEF FetchFails, Probed, DbTyped
  <2>2. job'[b].todo = "idle" /\ \A c \in Builders : c # b => job'[c] = job[c]
    BY <1>7, JobSet, Rest DEF FetchFails
  <2>3. \A c \in Builders : c # b => conn'[c] = conn[c]
    BY <1>7 DEF DbTyped, FetchFails
  <2> QED
    BY <1>3, <2>1, <2>2, <2>3 DEF QueryNames
<1>8. ASSUME NEW b \in Builders, CloseTmp(b) PROVE Probed'
  <2>1. job'[b].todo = "replace" /\ \A c \in Builders : c # b => job'[c] = job[c]
    BY <1>8, JobMoves DEF CloseTmp
  <2> QED
    BY <1>3, <1>8, <2>1 DEF CloseTmp, QueryNames
<1>9. ASSUME NEW b \in Builders, OpenTmp(b) \/ Replace(b) PROVE Probed'
  <2>1. /\ job'[b].todo \in {"idle", "write"} /\ \A c \in Builders : c # b => job'[c] = job[c]
        /\ conn' = conn /\ surprised' = surprised
    BY <1>9, JobSet, Rest DEF OpenTmp, Replace
  <2> QED
    BY <1>3, <2>1 DEF QueryNames
<1>10. ASSUME NEW b \in Builders, KillBuilder(b) PROVE Probed'
  <2>1. job'[b].todo = "idle" /\ \A c \in Builders : c # b => job'[c] = job[c]
    BY <1>10, JobSet, Rest DEF KillBuilder
  <2>2. \A c \in Builders : c # b => conn'[c] = conn[c]
    BY <1>10 DEF DbTyped, KillBuilder
  <2> QED
    BY <1>3, <1>10, <2>1, <2>2 DEF KillBuilder, QueryNames
<1>11. CASE TtlPasses \/ UNCHANGED dbVars
  BY <1>11 DEF TtlPasses, dbVars, Probed
<1> QED
  BY <1>1, <1>2, <1>4, <1>5, <1>6, <1>7, <1>8, <1>9, <1>10, <1>11 DEF DbNext

LEMMA AloneStep ==
  ASSUME DbTyped, Alone, [DbNext]_dbVars
  PROVE  Alone'
<1>1. CASE Ddl
  <2>1. \A b \in Builders : job'[b].todo = job[b].todo
    BY <1>1 DEF Ddl, DbTyped, JobType
  <2>2. tmp.open \subseteq Builders
    BY DEF DbTyped, InodeType
  <2> QED
    BY <1>1, <2>1, <2>2 DEF Ddl, Alone, Writing, Whole
<1>2. CASE DropConnections
  <2>1. \A b \in Builders : job'[b].todo = job[b].todo
    BY <1>2 DEF DropConnections, DbTyped, JobType
  <2>2. tmp.open \subseteq Builders
    BY DEF DbTyped, InodeType
  <2> QED
    BY <1>2, <2>1, <2>2 DEF DropConnections, Alone, Writing, Whole
<1>3. ASSUME NEW b \in Builders, UNCHANGED <<tmp, file, raced>>,
             \A c \in Builders : c # b => job'[c] = job[c],
             ~Writing(b), ~Writing(b)'
      PROVE  Alone'
  <2>1. tmp.open \subseteq Builders
    BY DEF DbTyped, InodeType
  <2> QED
    BY <1>3, <2>1 DEF Alone, Writing, Whole
<1>4. ASSUME NEW b \in Builders, Refresh(b) PROVE Alone'
  <2>1. job'[b].todo = "connect" /\ \A c \in Builders : c # b => job'[c] = job[c]
    BY <1>4, JobMoves DEF Refresh
  <2> QED
    BY <1>3, <1>4, <2>1 DEF Refresh, Writing
<1>5. ASSUME NEW b \in Builders, Connect(b) PROVE Alone'
  <2>1. job' = [job EXCEPT ![b].todo = "tables"] \/ job' = [job EXCEPT ![b] = Idle]
    BY <1>5 DEF Connect, Queries
  <2>2. job'[b].todo \in {"idle", "tables"} /\ \A c \in Builders : c # b => job'[c] = job[c]
    BY <2>1, JobMoves, JobSet, Rest DEF QueryNames
  <2> QED
    BY <1>3, <1>5, <2>2 DEF Connect, Writing
<1>6. ASSUME NEW b \in Builders, FetchRows(b) PROVE Alone'
  <2>1. job[b].todo \in QueryNames /\ job'[b].todo = NextQuery(job[b].todo)
        /\ \A c \in Builders : c # b => job'[c] = job[c]
    BY <1>6, JobFetches
  <2>2. job'[b].todo \in QueryNames \cup {"open"}
    BY <2>1, QueryOrder DEF QueryNames
  <2> QED
    BY <1>3, <1>6, <2>1, <2>2 DEF FetchRows, Writing, QueryNames
<1>7. ASSUME NEW b \in Builders, FetchFails(b) PROVE Alone'
  <2>1. job'[b].todo = "idle" /\ \A c \in Builders : c # b => job'[c] = job[c]
    BY <1>7, JobSet, Rest DEF FetchFails
  <2>2. job[b].todo \in QueryNames
    BY <1>7, Readers DEF FetchFails
  <2> QED
    BY <1>3, <1>7, <2>1, <2>2 DEF FetchFails, Writing, QueryNames
<1>8. ASSUME NEW b \in Builders, OpenTmp(b), ~raced' PROVE Alone'
  <2>1. ~raced /\ \A c \in Builders : c # b => ~Writing(c)
    BY <1>8 DEF OpenTmp
  <2>2. tmp.open \subseteq Builders /\ tmp \in InodeType
    BY DEF DbTyped, InodeType
  <2>3. tmp.open = {}
    <3>1. \A c \in tmp.open : Writing(c)
      BY <2>1 DEF Alone, Writing
    <3>2. ~Writing(b)
      BY <1>8 DEF OpenTmp, Writing
    <3> QED
      BY <2>1, <2>2, <3>1, <3>2
  <2>4. tmp'.open = {b} /\ ~tmp'.torn
    <3>1. tmp' = Inode(b, tmp)
      BY <1>8 DEF OpenTmp
    <3>2. Inode(b, tmp).open = tmp.open \cup {b} /\ Inode(b, tmp).torn = (tmp.open # {})
      BY <2>2, InodeMade
    <3> QED
      BY <2>3, <3>1, <3>2
  <2>5. job'[b].todo = "write" /\ \A c \in Builders : c # b => job'[c] = job[c]
    BY <1>8, JobSet, Rest DEF OpenTmp
  <2>6. file' = file /\ Whole(file)
    BY <1>8, <2>1 DEF OpenTmp, Alone
  <2> QED
    BY <2>1, <2>4, <2>5, <2>6 DEF Alone, Writing
<1>9. ASSUME NEW b \in Builders, CloseTmp(b), ~raced' PROVE Alone'
  <2>1. ~raced /\ tmp \in InodeType /\ file \in InodeType /\ job[b].todo = "write"
    BY <1>9 DEF CloseTmp, DbTyped
  <2>2. /\ tmp'.open = tmp.open \ {b} /\ tmp'.torn = tmp.torn
        /\ file'.open = file.open \ {b} /\ file'.torn = file.torn
    BY <1>9, <2>1, InodeClosed DEF CloseTmp
  <2>3. job'[b].todo = "replace" /\ \A c \in Builders : c # b => job'[c] = job[c]
    BY <1>9, JobMoves DEF CloseTmp
  <2>4. tmp.open \subseteq Builders
    BY <2>1 DEF InodeType
  <2> QED
    BY <2>1, <2>2, <2>3, <2>4 DEF Alone, Writing, Whole
<1>10. ASSUME NEW b \in Builders, Replace(b), ~raced' PROVE Alone'
  <2>1. ~raced /\ job[b].todo = "replace" /\ tmp.open \subseteq Builders
    BY <1>10 DEF Replace, DbTyped, InodeType
  <2>2. job'[b].todo = "idle" /\ \A c \in Builders : c # b => job'[c] = job[c]
    BY <1>10, JobSet, Rest DEF Replace
  <2>3. \A c \in Builders : Writing(c) => c = b
    BY <2>1 DEF Alone, Writing
  <2>4. tmp.open = {} /\ ~tmp.torn
    <3>1. \A c \in tmp.open : job[c].todo = "write" /\ c = b
      BY <2>1, <2>3 DEF Alone, Writing
    <3> QED
      BY <2>1, <3>1 DEF Alone, Writing
  <2>5. \A c \in Builders : ~Writing(c)'
    BY <2>2, <2>3 DEF Writing
  <2>6. Whole(file)' /\ tmp'.open = {}
    BY <1>10, <2>1, <2>4, EmptyFile DEF Replace, Alone, Whole
  <2> QED
    BY <2>5, <2>6 DEF Alone
<1>11. ASSUME NEW b \in Builders, KillBuilder(b), ~raced' PROVE Alone'
  <2>1. ~raced /\ tmp \in InodeType /\ file \in InodeType
    BY <1>11 DEF KillBuilder, DbTyped
  <2>2. /\ tmp'.open = tmp.open \ {b} /\ tmp'.torn = (tmp.torn \/ b \in tmp.open)
        /\ file'.open = file.open \ {b} /\ file'.torn = (file.torn \/ b \in file.open)
    BY <1>11, <2>1, InodeAbandoned DEF KillBuilder
  <2>3. job'[b].todo = "idle" /\ \A c \in Builders : c # b => job'[c] = job[c]
    BY <1>11, JobSet, Rest DEF KillBuilder
  <2>4. tmp.open \subseteq Builders
    BY <2>1 DEF InodeType
  <2>5. Whole(file)'
    BY <2>1, <2>2 DEF Alone, Whole
  <2>6. \A c \in tmp'.open : job'[c].todo = "write"
    BY <2>1, <2>2, <2>3, <2>4 DEF Alone
  <2>7. \A c, d \in Builders : Writing(c)' /\ Writing(d)' => c = d
    BY <2>1, <2>3 DEF Alone, Writing
  <2>8. ASSUME NEW c \in Builders, Writing(c)' PROVE ~tmp'.torn
    <3>1. c # b /\ Writing(c)
      BY <2>3, <2>8 DEF Writing
    <3>2. ~tmp.torn /\ b \notin tmp.open
      BY <2>1, <3>1 DEF Alone, Writing
    <3> QED
      BY <2>2, <3>2
  <2> QED
    BY <2>5, <2>6, <2>7, <2>8 DEF Alone
<1>12. CASE TtlPasses \/ UNCHANGED dbVars
  BY <1>12 DEF TtlPasses, dbVars, Alone, Writing, Whole
<1> QED
  BY <1>1, <1>2, <1>4, <1>5, <1>6, <1>7, <1>8, <1>9, <1>10, <1>11, <1>12 DEF DbNext, Alone

DbInv == DbTyped /\ Linked /\ Snapshots /\ Honest(tmp) /\ Honest(file) /\ Alone /\ Probed

LEMMA DbInvInit ==
  ASSUME NEW S, S \subseteq CatalogsOver(Tables), \A c \in S : Consistent(c), DbInit(S)
  PROVE  DbInv
<1> USE DbGraphAssumption DEF DbInit
<1>1. Idle \in JobType /\ Idle.todo = "idle" /\ NoFile \in InodeType /\ Honest(NoFile) /\ Whole(NoFile)
  BY Rest, EmptyFile
<1>2. NoFile.open = {}
  BY DEF NoFile
<1>3. \A b \in Builders : job[b].todo = "idle" /\ conn[b] = "none" /\ ~Writing(b)
  BY <1>1 DEF Writing
<1>4. DbTyped
  <2>1. job \in [Builders -> JobType] /\ conn \in [Builders -> {"none", "open", "dead"}]
    BY <1>1
  <2>2. ddls \in 0..MaxDdl /\ faults \in 0..MaxFaults
    OBVIOUS
  <2>3. fresh \in BOOLEAN /\ raced \in BOOLEAN /\ surprised \in BOOLEAN
    OBVIOUS
  <2> QED
    BY <1>1, <2>1, <2>2, <2>3 DEF DbTyped
<1>5. Linked
  BY <1>2, <1>3 DEF Linked
<1>6. Snapshots
  BY <1>3 DEF Snapshots, Snapshot, QueryNames
<1>7. Alone
  BY <1>1, <1>2, <1>3 DEF Alone
<1>8. Probed
  BY <1>3 DEF Probed, QueryNames
<1> QED
  BY <1>1, <1>4, <1>5, <1>6, <1>7, <1>8 DEF DbInv

LEMMA DbInvStep == DbInv /\ [DbNext]_dbVars => DbInv'
BY DbTypedStep, LinkedStep, SnapshotsStep, HonestStep, AloneStep, ProbedStep DEF DbInv

LEMMA DbTypes ==
  ASSUME DbInv
  PROVE  DbTypeOK
<1>1. ASSUME NEW b \in Builders
      PROVE  /\ job[b].todo \in {"idle", "connect", "open", "write", "replace"} \/ Reading(b)
             /\ job[b].rows.tables \subseteq Tables /\ job[b].rows.routines \subseteq Routines
             /\ conn[b] = "none" => job[b].todo \in {"idle", "connect"}
  <2>1. job[b] \in JobType
    BY DEF DbInv, DbTyped
  <2>2. job[b].rows \in CatalogsOver(Tables)
    BY <2>1 DEF JobType
  <2>3. job[b].todo \in {"idle", "connect", "open", "write", "replace"} \/ Reading(b)
    BY <2>1, Readers DEF JobType
  <2> QED
    BY <2>2, <2>3 DEF CatalogsOver, DbInv, Linked
<1>2. \A i \in {tmp, file} : i.open \subseteq Builders /\ i.torn \in BOOLEAN
  BY DEF DbInv, DbTyped, InodeType
<1> QED
  BY <1>1, <1>2 DEF DbInv, DbTyped, Linked, DbTypeOK

(* A node without a type is a table that was not read, of a column that    *)
(* was; only dependencies lead to it.                                      *)
LEMMA NotInvented ==
  ASSUME Honest(file)
  PROVE  NothingInvented
<1>1. PICK rows \in CatalogsOver(Tables) : file.graph = BuildGraph(rows) /\ (~file.ddl => Consistent(rows))
  BY DEF Honest
<1>2. /\ file.graph.edges = StoresEdges(rows) \cup LinksEdges(rows) \cup CreatesEdges(rows, PresentIds(rows))
      /\ file.graph.nodes = TableNodes(rows) \cup ColumnNodes(rows) \cup RoutineNodes(rows) \cup UnreadTables(rows)
  BY <1>1, GraphBuilt
<1>3. ASSUME NEW n \in file.graph.nodes, n.type = ""
      PROVE  \E c \in rows.columns : n.id = TableId(c[1]) /\ c[1] \notin rows.tables
  <2>1. n \notin TableNodes(rows)
    <3>1. ASSUME NEW t PROVE Node(TableId(t), "Table", {}).type = "Table"
      BY NodeFields
    <3> QED
      BY <1>3, <3>1, ATableNode
  <2>2. n \notin ColumnNodes(rows)
    <3>1. ASSUME NEW c PROVE Node(ColumnId(c), "Column", Flags(rows, c)).type = "Column"
      BY NodeFields
    <3> QED
      BY <1>3, <3>1, AColumnNode
  <2>3. n \notin RoutineNodes(rows)
    <3>1. ASSUME NEW r PROVE Node(RoutineId(r), "Routine", {}).type = "Routine"
      BY NodeFields
    <3> QED
      BY <1>3, <3>1, ARoutineNode
  <2>4. PICK c \in rows.columns : c[1] \notin rows.tables /\ n = Node(TableId(c[1]), "", {})
    BY <1>2, <1>3, <2>1, <2>2, <2>3 DEF UnreadTables
  <2>5. n.id = TableId(c[1])
    BY <2>4, NodeFields, Zenon
  <2> QED
    BY <2>4, <2>5
<1>4. ASSUME NEW n \in file.graph.nodes, n.type = ""
      PROVE  /\ file.ddl /\ n.id[1] = "table"
             /\ \A e \in file.graph.edges : e.target = n.id => e.relationship = "Creates"
  <2>1. PICK c \in rows.columns : n.id = TableId(c[1]) /\ c[1] \notin rows.tables
    BY <1>3, <1>4
  <2>2. file.ddl
    BY <1>1, <2>1 DEF Consistent
  <2>3. n.id[1] = "table"
    BY <2>1 DEF TableId
  <2>4. ASSUME NEW e \in file.graph.edges, e.target = n.id PROVE e.relationship = "Creates"
    <3>1. e \notin StoresEdges(rows)
      BY <2>1, <2>4, StoresEnds, IdsDiffer
    <3>2. e \notin LinksEdges(rows)
      BY <2>1, <2>4, LinksEnds, IdsDiffer
    <3> QED
      BY <1>2, <2>4, <3>1, <3>2, CreatesEnds
  <2> QED
    BY <2>2, <2>3, <2>4
<1> QED
  BY <1>4 DEF NothingInvented

LEMMA DbSound == DbInv => DbGraphSound
BY NotInvented DEF DbInv, Alone, Probed, DbGraphSound, PublishedWhole, ProbedBeforeUse

-----------------------------------------------------------------------------
(* The whole of it.  The questions asked of a graph leave the database as  *)
(* it was at the start.                                                    *)
GraphEdges == [source : Nodes, target : Nodes, relationship : {"calls", "imports"}]

GraphInv ==
  /\ mode \in {"database", "code", "query"}
  /\ edges \in Seq(GraphEdges)
  /\ CodeTyped /\ CodeInv
  /\ IF mode = "query" THEN DbInit(Catalogs) ELSE DbInv

LEMMA GraphInvInit == Init => GraphInv
<1> SUFFICES ASSUME Init PROVE GraphInv
  OBVIOUS
<1>1. CodeTyped /\ CodeInv
  BY CodeTypedInit, CodeInvInit DEF Init
<1>2. edges \in Seq(GraphEdges)
  BY DEF Init
<1>3. ASSUME mode # "query" PROVE DbInv
  <2>1. OneTable \in CatalogsOver(Tables) /\ Consistent(OneTable)
    <3>1. (CHOOSE t \in Tables : TRUE) \in Tables
      BY DbGraphAssumption
    <3> QED
      BY <3>1 DEF OneTable, NoRows, CatalogsOver, ColumnsOf, Consistent
  <2>2. DbInit({OneTable})
    BY <1>3 DEF Init
  <2> QED
    BY <2>1, <2>2, DbInvInit
<1> QED
  BY <1>1, <1>2, <1>3 DEF Init, GraphInv

LEMMA GraphInvStep == GraphInv /\ [Next]_vars => GraphInv'
<1> SUFFICES ASSUME GraphInv, [Next]_vars PROVE GraphInv'
  OBVIOUS
<1>1. CASE mode = "database" /\ DbNext /\ UNCHANGED <<mode, edges, codeVars>>
  <2>1. DbInv'
    BY <1>1, DbInvStep DEF GraphInv
  <2>2. CodeTyped' /\ CodeInv'
    BY <1>1, CodeTypedStep, CodeInvStep DEF GraphInv
  <2> QED
    BY <1>1, <2>1, <2>2 DEF GraphInv
<1>2. CASE mode = "code" /\ CodeNext /\ UNCHANGED <<mode, edges, dbVars>>
  <2>1. DbInv'
    BY <1>2, DbInvStep DEF GraphInv
  <2>2. CodeTyped' /\ CodeInv'
    BY <1>2, CodeTypedStep, CodeInvStep DEF GraphInv
  <2> QED
    BY <1>2, <2>1, <2>2 DEF GraphInv
<1>3. CASE mode = "query" /\ AddEdge /\ UNCHANGED <<mode, dbVars, codeVars>>
  <2>1. DbInit(Catalogs)'
    BY <1>3 DEF GraphInv, dbVars, DbInit
  <2>2. CodeTyped' /\ CodeInv'
    BY <1>3, CodeTypedStep, CodeInvStep DEF GraphInv
  <2>3. edges' \in Seq(GraphEdges)
    <3>1. PICK source \in Nodes, target \in Nodes, relationship \in {"calls", "imports"} :
            edges' = Append(edges, Edge(source, target, relationship))
      BY <1>3 DEF AddEdge
    <3>2. Edge(source, target, relationship) \in GraphEdges
      BY DEF Edge, GraphEdges
    <3> QED
      BY <3>1, <3>2 DEF GraphInv
  <2> QED
    BY <1>3, <2>1, <2>2, <2>3 DEF GraphInv
<1>4. CASE UNCHANGED vars
  <2>1. UNCHANGED <<mode, edges>> /\ UNCHANGED dbVars /\ UNCHANGED codeVars
    BY <1>4 DEF vars
  <2>2. (DbInv => DbInv') /\ (DbInit(Catalogs) => DbInit(Catalogs)')
    BY <2>1, DbInvStep DEF dbVars, DbInit
  <2>3. CodeTyped' /\ CodeInv'
    BY <2>1, CodeTypedStep, CodeInvStep DEF GraphInv
  <2> QED
    BY <2>1, <2>2, <2>3 DEF GraphInv
<1> QED
  BY <1>1, <1>2, <1>3, <1>4 DEF Next

LEMMA GraphInvariance == Spec => []GraphInv
BY GraphInvInit, GraphInvStep, PTL DEF Spec

(* Nothing has been built where questions are asked.                       *)
LEMMA AtRest ==
  ASSUME NEW S, DbInit(S)
  PROVE  DbTypeOK /\ DbGraphSound
<1> USE DEF DbInit
<1>1. /\ file.graph = BuildGraph(NoRows) /\ Whole(file) /\ Consistent(NoRows)
      /\ file.open = {} /\ file.torn = FALSE /\ tmp.open = {} /\ tmp.torn = FALSE
  BY DEF NoFile, Whole, Consistent, NoRows
<1>2. NothingInvented
  <2>1. Honest(file)
    BY EmptyFile
  <2> QED
    BY <2>1, NotInvented
<1>3. PublishedWhole /\ ProbedBeforeUse
  BY <1>1 DEF PublishedWhole, ProbedBeforeUse
<1>4. \A b \in Builders : /\ job[b].todo = "idle" /\ job[b].rows = NoRows /\ conn[b] = "none"
                          /\ job[b].rows.tables = {} /\ job[b].rows.routines = {}
  BY DEF Idle, NoRows
<1>5. ddls \in 0..MaxDdl /\ faults \in 0..MaxFaults
  BY DbGraphAssumption
<1>6. DbTypeOK
  BY <1>1, <1>4, <1>5 DEF DbTypeOK
<1> QED
  BY <1>2, <1>3, <1>6 DEF DbGraphSound

(* The three parts are type correct: in particular no fingerprint and no   *)
(* version is ahead of the sources, nobody reads the catalog without a     *)
(* connection, and a young database graph is there.                        *)
THEOREM GraphTypeCorrect == Spec => []TypeOK
<1>1. ASSUME CodeTyped PROVE CodeTypeOK
  BY <1>1 DEF CodeTyped, Scalars, HookType, Stages, CodeTypeOK
<1>2. ASSUME GraphInv PROVE TypeOK
  <2>1. edges \in Seq(GraphEdges)
    BY <1>2 DEF GraphInv
  <2>2. \A i \in DOMAIN edges : edges[i].source \in Nodes /\ edges[i].target \in Nodes
    <3>1. \A i \in DOMAIN edges : edges[i] \in GraphEdges
      BY <2>1
    <3>2. \A e \in GraphEdges : e.source \in Nodes /\ e.target \in Nodes
      BY DEF GraphEdges
    <3> QED
      BY <3>1, <3>2
  <2>3. DbTypeOK
    BY <1>2, AtRest, DbTypes DEF GraphInv
  <2> QED
    BY <1>1, <1>2, <2>2, <2>3 DEF GraphInv, TypeOK
<1> QED
  BY <1>2, GraphInvariance, PTL

(* A repository at rest has a current graph unless something happened that *)
(* the marker cannot cover, and graphify runs once at a time until a lock  *)
(* is broken.                                                              *)
THEOREM CodeGraphIsSound == Spec => []CodeGraphSound
<1>1. GraphInv => CodeGraphSound
  BY Forgets, Sole DEF GraphInv, CodeGraphSound
<1> QED
  BY <1>1, GraphInvariance, PTL

(* The published database graph is whole until two builders have written   *)
(* at once, holds nothing that was not read but the tables of columns that *)
(* were, and a handle that had died is noticed before it is used.          *)
THEOREM DatabaseGraphIsSound == Spec => []DbGraphSound
<1>1. GraphInv => DbGraphSound
  BY AtRest, DbSound DEF GraphInv
<1> QED
  BY <1>1, GraphInvariance, PTL

-----------------------------------------------------------------------------
(* The targeted build. *)

(* Discovery, hop by hop.                                                  *)
Hop(cat, before) ==
  LET new == Neighbors(cat, before.frontier) \ before.discovered
  IN [discovered |-> before.discovered \cup new, frontier |-> new]

Hops(cat, seed, d, hop) ==
  hop = [k \in 0..d |-> IF k = 0 THEN [discovered |-> {seed}, frontier |-> {seed}] ELSE Hop(cat, hop[k - 1])]

LEMMA DiscoverIs ==
  ASSUME NEW cat, NEW seed, NEW d
  PROVE  DiscoverObjectIds(cat, seed, d) = (CHOOSE hop : Hops(cat, seed, d, hop))[d].discovered
BY Zenon DEF DiscoverObjectIds, Hops, Hop

LEMMA Discovered ==
  ASSUME NEW cat, NEW seed
  PROVE  /\ DiscoverObjectIds(cat, seed, 0) = {seed}
         /\ DiscoverObjectIds(cat, seed, 1) = {seed} \cup Neighbors(cat, {seed})
         /\ DiscoverObjectIds(cat, seed, 2)
              = {seed} \cup Neighbors(cat, {seed}) \cup Neighbors(cat, Neighbors(cat, {seed}) \ {seed})
<1> DEFINE first == [discovered |-> {seed}, frontier |-> {seed}]
           second == Hop(cat, first)
           third == Hop(cat, second)
           F == [k \in 0..2 |-> IF k = 0 THEN first ELSE IF k = 1 THEN second ELSE third]
<1>1. ASSUME NEW d \in 0..2 PROVE Hops(cat, seed, d, [k \in 0..d |-> F[k]])
  <2>1. \A k \in 0..d : F[k] = IF k = 0 THEN first ELSE Hop(cat, [j \in 0..d |-> F[j]][k - 1])
    OBVIOUS
  <2> HIDE DEF F, first
  <2>2. [k \in 0..d |-> F[k]] = [k \in 0..d |-> IF k = 0 THEN first ELSE Hop(cat, [j \in 0..d |-> F[j]][k - 1])]
    BY <2>1
  <2> QED
    BY <2>2 DEF Hops, first
<1>2. ASSUME NEW d \in 0..2
      PROVE  DiscoverObjectIds(cat, seed, d)
               = (IF d = 0 THEN first ELSE IF d = 1 THEN second ELSE third).discovered
  <2> DEFINE hop == CHOOSE h : Hops(cat, seed, d, h)
  <2>1. Hops(cat, seed, d, hop)
    <3>1. \E h : Hops(cat, seed, d, h)
      BY <1>1
    <3> QED
      BY <3>1
  <2> HIDE DEF hop
  <2>2. \A k \in 0..d : hop[k] = IF k = 0 THEN first ELSE Hop(cat, hop[k - 1])
    BY <2>1 DEF Hops
  <2>3. hop[0] = first /\ (d > 0 => hop[1] = second) /\ (d = 2 => hop[2] = third)
    <3> HIDE DEF first
    <3>1. hop[0] = first
      BY <2>2
    <3>2. d > 0 => hop[1] = second
      BY <2>2, <3>1
    <3>3. d = 2 => hop[2] = third
      BY <2>2, <3>2
    <3> QED
      BY <3>1, <3>2, <3>3
  <2>4. hop[d] = IF d = 0 THEN first ELSE IF d = 1 THEN second ELSE third
    BY <2>3
  <2> QED
    BY <2>4, DiscoverIs DEF hop
<1>3. first.discovered = {seed} /\ first.frontier = {seed}
  OBVIOUS
<1>4. second.frontier = Neighbors(cat, {seed}) \ {seed} /\ second.discovered = {seed} \cup Neighbors(cat, {seed})
  BY <1>3 DEF Hop
<1>5. third.discovered
        = {seed} \cup Neighbors(cat, {seed}) \cup Neighbors(cat, Neighbors(cat, {seed}) \ {seed})
  <2> HIDE DEF second
  <2>1. third.discovered = second.discovered \cup (Neighbors(cat, second.frontier) \ second.discovered)
    BY DEF Hop
  <2> QED
    BY <1>4, <2>1
<1> HIDE DEF first, second, third
<1> QED
  BY <1>2, <1>3, <1>4, <1>5

Keyed(cat, F, y) == \E f \in cat.fks : (f[1][1] \in F \/ f[2][1] \in F) /\ (y = f[1][1] \/ y = f[2][1])
Depends(cat, F, y) == \E d \in cat.deps : (d[1] \in F \/ d[2][1] \in F) /\ (y = d[1] \/ y = d[2][1])

LEMMA ANeighbor ==
  ASSUME NEW cat, NEW F, NEW y
  PROVE  y \in Neighbors(cat, F) <=> Keyed(cat, F, y) \/ Depends(cat, F, y)
<1> DEFINE K == {{f[1][1], f[2][1]} : f \in ForeignKeysIn(cat, F)}
           L == {{d[1], d[2][1]} : d \in DependenciesIn(cat, F)}
<1>1. Neighbors(cat, F) = UNION (K \cup L)
  BY DEF Neighbors
<1>2. y \in UNION K <=> \E f \in ForeignKeysIn(cat, F) : y = f[1][1] \/ y = f[2][1]
  OBVIOUS
<1>3. y \in UNION L <=> \E d \in DependenciesIn(cat, F) : y = d[1] \/ y = d[2][1]
  OBVIOUS
<1> HIDE DEF K, L
<1>4. \A f : f \in ForeignKeysIn(cat, F) <=> f \in cat.fks /\ (f[1][1] \in F \/ f[2][1] \in F)
  BY DEF ForeignKeysIn
<1>5. \A d : d \in DependenciesIn(cat, F) <=> d \in cat.deps /\ (d[1] \in F \/ d[2][1] \in F)
  BY DEF DependenciesIn
<1>6. y \in UNION K <=> Keyed(cat, F, y)
  BY <1>2, <1>4, Zenon DEF Keyed
<1>7. y \in UNION L <=> Depends(cat, F, y)
  BY <1>3, <1>5, Zenon DEF Depends
<1>8. y \in Neighbors(cat, F) <=> y \in UNION K \/ y \in UNION L
  BY <1>1
<1> QED
  BY <1>6, <1>7, <1>8, Zenon

LEMMA NeighborsOf ==
  ASSUME NEW cat, NEW F, NEW y
  PROVE  y \in Neighbors(cat, F) <=> \E z \in F : y \in Neighbors(cat, {z})
<1>1. ASSUME y \in Neighbors(cat, F) PROVE \E z \in F : y \in Neighbors(cat, {z})
  <2>1. CASE Keyed(cat, F, y)
    <3>1. PICK f \in cat.fks, z \in F : (f[1][1] = z \/ f[2][1] = z) /\ (y = f[1][1] \/ y = f[2][1])
      BY <2>1 DEF Keyed
    <3>2. y \in Neighbors(cat, {z})
      BY <3>1, ANeighbor DEF Keyed, Depends
    <3> QED
      BY <3>2
  <2>2. CASE Depends(cat, F, y)
    <3>1. PICK d \in cat.deps, z \in F : (d[1] = z \/ d[2][1] = z) /\ (y = d[1] \/ y = d[2][1])
      BY <2>2 DEF Depends
    <3>2. y \in Neighbors(cat, {z})
      BY <3>1, ANeighbor DEF Keyed, Depends
    <3> QED
      BY <3>2
  <2> QED
    BY <1>1, <2>1, <2>2, ANeighbor
<1>2. ASSUME NEW z \in F, y \in Neighbors(cat, {z}) PROVE y \in Neighbors(cat, F)
  <2>1. CASE Keyed(cat, {z}, y)
    BY <2>1, ANeighbor DEF Keyed
  <2>2. CASE Depends(cat, {z}, y)
    BY <2>2, ANeighbor DEF Depends
  <2> QED
    BY <1>2, <2>1, <2>2, ANeighbor
<1> QED
  BY <1>1, <1>2

(* A catalog in which everything that is referred to is there.             *)
AllThere(cat) ==
  /\ \A c \in cat.columns : c[1] \in cat.tables /\ c = <<c[1], "k">>
  /\ \A f \in cat.fks : f[1] \in cat.columns /\ f[2] \in cat.columns
  /\ \A d \in cat.deps : d[1] \in cat.routines /\ (d[2] \in cat.columns \/ \E t \in cat.tables : d[2] = <<t>>)

LEMMA IdObject ==
  /\ \A t : TableId(t)[2] = t
  /\ \A c : ColumnId(c)[2] = c[1]
  /\ \A r : RoutineId(r)[2] = r
BY DEF TableId, ColumnId, RoutineId

LEMMA PartRows ==
  ASSUME NEW cat, NEW D
  PROVE  /\ \A t : t \in RowsIn(cat, D).tables <=> t \in cat.tables /\ t \in D
         /\ \A c : c \in RowsIn(cat, D).columns <=> c \in cat.columns /\ c[1] \in D
         /\ \A c : c \in RowsIn(cat, D).pks <=> c \in cat.pks /\ c[1] \in D
         /\ \A r : r \in RowsIn(cat, D).routines <=> r \in cat.routines /\ r \in D
         /\ \A f : f \in RowsIn(cat, D).fks <=> f \in cat.fks /\ (f[1][1] \in D \/ f[2][1] \in D)
         /\ \A d : d \in RowsIn(cat, D).deps <=> d \in cat.deps /\ (d[1] \in D \/ d[2][1] \in D)
<1>1. /\ RowsIn(cat, D).tables = TablesIn(cat, D) /\ RowsIn(cat, D).columns = ColumnsIn(cat, D)
      /\ RowsIn(cat, D).pks = PrimaryKeysIn(cat, D) /\ RowsIn(cat, D).routines = RoutinesIn(cat, D)
      /\ RowsIn(cat, D).fks = ForeignKeysIn(cat, D) /\ RowsIn(cat, D).deps = DependenciesIn(cat, D)
  BY DEF RowsIn
<1>2. \A t : t \in TablesIn(cat, D) <=> t \in cat.tables /\ t \in D
  BY DEF TablesIn
<1>3. \A c : c \in ColumnsIn(cat, D) <=> c \in cat.columns /\ c[1] \in D
  BY DEF ColumnsIn
<1>4. \A c : c \in PrimaryKeysIn(cat, D) <=> c \in cat.pks /\ c[1] \in D
  BY DEF PrimaryKeysIn
<1>5. \A r : r \in RoutinesIn(cat, D) <=> r \in cat.routines /\ r \in D
  BY DEF RoutinesIn
<1>6. \A f : f \in ForeignKeysIn(cat, D) <=> f \in cat.fks /\ (f[1][1] \in D \/ f[2][1] \in D)
  BY DEF ForeignKeysIn
<1>7. \A d : d \in DependenciesIn(cat, D) <=> d \in cat.deps /\ (d[1] \in D \/ d[2][1] \in D)
  BY DEF DependenciesIn
<1> QED
  BY <1>1, <1>2, <1>3, <1>4, <1>5, <1>6, <1>7

LEMMA PartFlags ==
  ASSUME NEW cat, NEW D, NEW c, c[1] \in D
  PROVE  Flags(RowsIn(cat, D), c) = Flags(cat, c)
<1> DEFINE part == RowsIn(cat, D)
<1>1. c \in part.pks <=> c \in cat.pks
  BY PartRows
<1>2. (\E f \in part.fks : f[1] = c) <=> (\E f \in cat.fks : f[1] = c)
  BY PartRows
<1>3. (\E f \in part.fks : f[2] = c) <=> (\E f \in cat.fks : f[2] = c)
  BY PartRows
<1> HIDE DEF part
<1> QED
  BY <1>1, <1>2, <1>3 DEF Flags, part

LEMMA PartWhole ==
  ASSUME NEW cat, AllThere(cat), NEW D
  PROVE  /\ UnreadTables(cat) = {} /\ UnreadTables(RowsIn(cat, D)) = {}
BY PartRows DEF AllThere, UnreadTables

LEMMA PartNodes ==
  ASSUME NEW cat, AllThere(cat), NEW D
  PROVE  BuildGraph(RowsIn(cat, D)).nodes = {n \in BuildGraph(cat).nodes : n.id[2] \in D}
<1> DEFINE part == RowsIn(cat, D)
<1>1. /\ BuildGraph(part).nodes = TableNodes(part) \cup ColumnNodes(part) \cup RoutineNodes(part)
      /\ BuildGraph(cat).nodes = TableNodes(cat) \cup ColumnNodes(cat) \cup RoutineNodes(cat)
  BY GraphBuilt, PartWhole
<1>2. ASSUME NEW n PROVE n \in TableNodes(part) <=> n \in TableNodes(cat) /\ n.id[2] \in D
  <2>1. ASSUME NEW t, n = Node(TableId(t), "Table", {}) PROVE n.id[2] = t
    BY <2>1, NodeFields, IdObject
  <2> QED
    BY <2>1, ATableNode, PartRows
<1>3. ASSUME NEW n PROVE n \in ColumnNodes(part) <=> n \in ColumnNodes(cat) /\ n.id[2] \in D
  <2>1. ASSUME NEW c, NEW f, n = Node(ColumnId(c), "Column", f) PROVE n.id[2] = c[1]
    BY <2>1, NodeFields, IdObject
  <2>2. ASSUME n \in ColumnNodes(part) PROVE n \in ColumnNodes(cat) /\ n.id[2] \in D
    <3>1. PICK c \in part.columns : n = Node(ColumnId(c), "Column", Flags(part, c))
      BY <2>2, AColumnNode
    <3>2. c \in cat.columns /\ c[1] \in D /\ Flags(part, c) = Flags(cat, c)
      BY PartRows, PartFlags
    <3> QED
      BY <2>1, <3>1, <3>2, AColumnNode
  <2>3. ASSUME n \in ColumnNodes(cat), n.id[2] \in D PROVE n \in ColumnNodes(part)
    <3>1. PICK c \in cat.columns : n = Node(ColumnId(c), "Column", Flags(cat, c))
      BY <2>3, AColumnNode
    <3>2. c[1] \in D
      BY <2>1, <2>3, <3>1
    <3>3. c \in part.columns /\ Flags(part, c) = Flags(cat, c)
      BY <3>2, PartRows, PartFlags
    <3> QED
      BY <3>1, <3>3, AColumnNode
  <2> QED
    BY <2>2, <2>3
<1>4. ASSUME NEW n PROVE n \in RoutineNodes(part) <=> n \in RoutineNodes(cat) /\ n.id[2] \in D
  <2>1. ASSUME NEW r, n = Node(RoutineId(r), "Routine", {}) PROVE n.id[2] = r
    BY <2>1, NodeFields, IdObject
  <2> QED
    BY <2>1, ARoutineNode, PartRows
<1> HIDE DEF part
<1>5. \A n : n \in BuildGraph(part).nodes <=> n \in BuildGraph(cat).nodes /\ n.id[2] \in D
  BY <1>1, <1>2, <1>3, <1>4
<1> QED
  BY <1>5 DEF part

(* What the edges of such a catalog join.                                  *)
LEMMA DependencyEnd ==
  ASSUME NEW cat, AllThere(cat), NEW d \in cat.deps
  PROVE  /\ TargetId(d[2])[2] = d[2][1]
         /\ \/ d[2] \in cat.columns /\ TargetId(d[2]) = ColumnId(d[2])
            \/ d[2][1] \in cat.tables /\ TargetId(d[2]) = TableId(d[2][1])
<1>1. CASE d[2] \in cat.columns
  <2>1. d[2] = <<d[2][1], "k">>
    BY <1>1 DEF AllThere
  <2>2. Len(d[2]) = 2
    BY <2>1
  <2> QED
    BY <1>1, <2>2, IdObject DEF TargetId
<1>2. ASSUME NEW t \in cat.tables, d[2] = <<t>> PROVE TargetId(d[2]) = TableId(t) /\ d[2][1] = t
  BY <1>2 DEF TargetId
<1> QED
  BY <1>1, <1>2, IdObject DEF AllThere

LEMMA DependencyPresent ==
  ASSUME NEW cat, AllThere(cat), NEW d \in cat.deps
  PROVE  /\ TargetId(d[2]) \in PresentIds(cat)
         /\ \A D : TargetId(d[2]) \in PresentIds(RowsIn(cat, D)) <=> d[2][1] \in D
<1>1. TargetId(d[2]) \in PresentIds(cat)
  BY DependencyEnd DEF PresentIds
<1>2. ASSUME NEW D, d[2][1] \in D PROVE TargetId(d[2]) \in PresentIds(RowsIn(cat, D))
  BY <1>2, DependencyEnd, PartRows DEF PresentIds
<1>3. ASSUME NEW D, TargetId(d[2]) \in PresentIds(RowsIn(cat, D)) PROVE d[2][1] \in D
  <2>1. TargetId(d[2])[2] = d[2][1]
    BY DependencyEnd
  <2>2. \A i \in PresentIds(RowsIn(cat, D)) : i[2] \in D
    BY PartRows, IdObject DEF PresentIds
  <2> QED
    BY <1>3, <2>1, <2>2
<1> QED
  BY <1>1, <1>2, <1>3

LEMMA PartEdges ==
  ASSUME NEW cat, AllThere(cat), NEW D
  PROVE  BuildGraph(RowsIn(cat, D)).edges
           = {e \in BuildGraph(cat).edges : e.source[2] \in D /\ e.target[2] \in D}
<1> DEFINE part == RowsIn(cat, D)
<1>1. /\ BuildGraph(part).edges = StoresEdges(part) \cup LinksEdges(part) \cup CreatesEdges(part, PresentIds(part))
      /\ BuildGraph(cat).edges = StoresEdges(cat) \cup LinksEdges(cat) \cup CreatesEdges(cat, PresentIds(cat))
  BY GraphBuilt
<1>2. ASSUME NEW e PROVE e \in StoresEdges(part) <=> e \in StoresEdges(cat) /\ e.source[2] \in D /\ e.target[2] \in D
  <2>1. ASSUME NEW c, e = Edge(TableId(c[1]), ColumnId(c), "Stores")
        PROVE  e.source[2] = c[1] /\ e.target[2] = c[1]
    BY <2>1, EdgeFields, IdObject
  <2>2. ASSUME e \in StoresEdges(part) PROVE e \in StoresEdges(cat) /\ e.source[2] \in D /\ e.target[2] \in D
    <3>1. PICK c \in part.columns : e = Edge(TableId(c[1]), ColumnId(c), "Stores")
      BY <2>2, AStoresEdge
    <3>2. c \in cat.columns /\ c[1] \in D
      BY PartRows
    <3> QED
      BY <2>1, <3>1, <3>2, AStoresEdge
  <2>3. ASSUME e \in StoresEdges(cat), e.source[2] \in D PROVE e \in StoresEdges(part)
    <3>1. PICK c \in cat.columns : e = Edge(TableId(c[1]), ColumnId(c), "Stores")
      BY <2>3, AStoresEdge
    <3>2. c \in part.columns
      BY <2>1, <2>3, <3>1, PartRows
    <3> QED
      BY <3>1, <3>2, AStoresEdge
  <2> QED
    BY <2>2, <2>3
<1>3. ASSUME NEW e PROVE e \in LinksEdges(part) <=> e \in LinksEdges(cat) /\ e.source[2] \in D /\ e.target[2] \in D
  <2>1. ASSUME NEW f, e = Edge(ColumnId(f[1]), ColumnId(f[2]), "Links")
        PROVE  e.source[2] = f[1][1] /\ e.target[2] = f[2][1]
    BY <2>1, EdgeFields, IdObject
  <2>2. ASSUME e \in LinksEdges(part) PROVE e \in LinksEdges(cat) /\ e.source[2] \in D /\ e.target[2] \in D
    <3>1. PICK f \in part.fks : /\ f[1] \in part.columns /\ f[2] \in part.columns
                                /\ e = Edge(ColumnId(f[1]), ColumnId(f[2]), "Links")
      BY <2>2, ALinksEdge
    <3>2. f \in cat.fks /\ f[1] \in cat.columns /\ f[2] \in cat.columns /\ f[1][1] \in D /\ f[2][1] \in D
      BY <3>1, PartRows
    <3>3. e \in LinksEdges(cat)
      BY <3>1, <3>2, ALinksEdge
    <3> QED
      BY <2>1, <3>1, <3>2, <3>3
  <2>3. ASSUME e \in LinksEdges(cat), e.source[2] \in D, e.target[2] \in D PROVE e \in LinksEdges(part)
    <3>1. PICK f \in cat.fks : /\ f[1] \in cat.columns /\ f[2] \in cat.columns
                               /\ e = Edge(ColumnId(f[1]), ColumnId(f[2]), "Links")
      BY <2>3, ALinksEdge
    <3>2. f \in part.fks /\ f[1] \in part.columns /\ f[2] \in part.columns
      BY <2>1, <2>3, <3>1, PartRows
    <3> QED
      BY <3>1, <3>2, ALinksEdge
  <2> QED
    BY <2>2, <2>3
<1>4. ASSUME NEW e
      PROVE  e \in CreatesEdges(part, PresentIds(part))
               <=> e \in CreatesEdges(cat, PresentIds(cat)) /\ e.source[2] \in D /\ e.target[2] \in D
  <2>1. ASSUME NEW d \in cat.deps, e = Edge(RoutineId(d[1]), TargetId(d[2]), "Creates")
        PROVE  e.source[2] = d[1] /\ e.target[2] = d[2][1]
    <3>1. TargetId(d[2])[2] = d[2][1] /\ RoutineId(d[1])[2] = d[1]
      BY DependencyEnd, IdObject
    <3>2. e.source = RoutineId(d[1]) /\ e.target = TargetId(d[2])
      BY <2>1, EdgeFields
    <3> QED
      BY <3>1, <3>2
  <2>2. ASSUME e \in CreatesEdges(part, PresentIds(part))
        PROVE  e \in CreatesEdges(cat, PresentIds(cat)) /\ e.source[2] \in D /\ e.target[2] \in D
    <3>1. PICK d \in part.deps : /\ d[1] \in part.routines /\ TargetId(d[2]) \in PresentIds(part)
                                 /\ e = Edge(RoutineId(d[1]), TargetId(d[2]), "Creates")
      BY <2>2, ACreatesEdge
    <3>2. d \in cat.deps /\ d[1] \in cat.routines /\ d[1] \in D
      BY <3>1, PartRows
    <3>3. d[2][1] \in D /\ TargetId(d[2]) \in PresentIds(cat)
      BY <3>1, <3>2, DependencyPresent
    <3>4. e \in CreatesEdges(cat, PresentIds(cat))
      BY <3>1, <3>2, <3>3, ACreatesEdge
    <3> QED
      BY <2>1, <3>1, <3>2, <3>3, <3>4
  <2>3. ASSUME e \in CreatesEdges(cat, PresentIds(cat)), e.source[2] \in D, e.target[2] \in D
        PROVE  e \in CreatesEdges(part, PresentIds(part))
    <3>1. PICK d \in cat.deps : /\ d[1] \in cat.routines /\ TargetId(d[2]) \in PresentIds(cat)
                                /\ e = Edge(RoutineId(d[1]), TargetId(d[2]), "Creates")
      BY <2>3, ACreatesEdge
    <3>2. d[1] \in D /\ d[2][1] \in D
      BY <2>1, <2>3, <3>1
    <3>3. d \in part.deps /\ d[1] \in part.routines
      BY <3>1, <3>2, PartRows
    <3>4. TargetId(d[2]) \in PresentIds(part)
      BY <3>2, DependencyPresent
    <3> QED
      BY <3>1, <3>3, <3>4, ACreatesEdge
  <2> QED
    BY <2>2, <2>3
<1> HIDE DEF part
<1>5. \A e : e \in BuildGraph(part).edges <=> e \in BuildGraph(cat).edges /\ e.source[2] \in D /\ e.target[2] \in D
  BY <1>1, <1>2, <1>3, <1>4
<1> QED
  BY <1>5 DEF part

(* Both ends of an edge are nodes.                                         *)
LEMMA EndsThere ==
  ASSUME NEW cat, AllThere(cat), NEW e \in BuildGraph(cat).edges
  PROVE  e.source \in Ids(BuildGraph(cat).nodes) /\ e.target \in Ids(BuildGraph(cat).nodes)
<1>1. Ids(BuildGraph(cat).nodes)
        = {TableId(t) : t \in cat.tables} \cup {ColumnId(c) : c \in cat.columns} \cup {RoutineId(r) : r \in cat.routines}
  <2>1. BuildGraph(cat).nodes = (TableNodes(cat) \cup ColumnNodes(cat)) \cup RoutineNodes(cat)
    BY GraphBuilt, PartWhole
  <2>2. Ids(BuildGraph(cat).nodes) = Ids(TableNodes(cat) \cup ColumnNodes(cat)) \cup Ids(RoutineNodes(cat))
    BY <2>1, IdsOfUnion, Zenon
  <2>3. Ids(TableNodes(cat) \cup ColumnNodes(cat)) = Ids(TableNodes(cat)) \cup Ids(ColumnNodes(cat))
    BY IdsOfUnion, Zenon
  <2> QED
    BY <2>2, <2>3, NodeSets
<1>2. CASE e \in StoresEdges(cat)
  BY <1>1, <1>2, StoresEnds DEF AllThere
<1>3. CASE e \in LinksEdges(cat)
  BY <1>1, <1>3, LinksEnds
<1>4. CASE e \in CreatesEdges(cat, PresentIds(cat))
  <2>1. PICK d \in cat.deps : /\ d[1] \in cat.routines /\ TargetId(d[2]) \in PresentIds(cat)
                              /\ e.source = RoutineId(d[1]) /\ e.target = TargetId(d[2])
    BY <1>4, CreatesEnds
  <2> QED
    BY <1>1, <2>1, DependencyEnd
<1> QED
  BY <1>2, <1>3, <1>4, GraphBuilt

(* The part of a graph around some objects, as its properties name it.     *)
LEMMA PartIs ==
  ASSUME NEW cat, AllThere(cat), NEW D
  PROVE  LET full == BuildGraph(cat)
             kept == {n \in full.nodes : n.id[2] \in D}
         IN BuildGraph(RowsIn(cat, D)) = [nodes |-> kept, edges |-> {e \in full.edges : {e.source, e.target} \subseteq Ids(kept)}]
<1> DEFINE full == BuildGraph(cat)
           kept == {n \in full.nodes : n.id[2] \in D}
           g == BuildGraph(RowsIn(cat, D))
<1>1. g.nodes = kept
  BY PartNodes
<1>2. \A i : i \in Ids(kept) <=> i \in Ids(full.nodes) /\ i[2] \in D
  BY AnId
<1>3. ASSUME NEW e \in full.edges
      PROVE  {e.source, e.target} \subseteq Ids(kept) <=> e.source[2] \in D /\ e.target[2] \in D
  BY <1>2, EndsThere
<1>4. g.edges = {e \in full.edges : {e.source, e.target} \subseteq Ids(kept)}
  <2>1. g.edges = {e \in full.edges : e.source[2] \in D /\ e.target[2] \in D}
    BY PartEdges
  <2> HIDE DEF full, kept, g
  <2> QED
    BY <1>3, <2>1
<1>5. g = [nodes |-> g.nodes, edges |-> g.edges]
  BY DEF BuildGraph
<1> HIDE DEF full, kept, g
<1>6. g = [nodes |-> kept, edges |-> {e \in full.edges : {e.source, e.target} \subseteq Ids(kept)}]
  BY <1>1, <1>4, <1>5
<1> QED
  BY <1>6 DEF full, kept, g

LEMMA CatalogsAllThere ==
  ASSUME NEW cat \in Catalogs
  PROVE  AllThere(cat) /\ cat.tables = CatalogTables /\ cat.routines = Routines
<1> DEFINE k(t) == <<t, "k">>
           upTo(S) == {K \in SUBSET S : Cardinality(K) <= MaxKeys}
           made(fks, deps) == [tables |-> CatalogTables, columns |-> {k(t) : t \in CatalogTables}, pks |-> {},
                               fks |-> fks, routines |-> Routines, deps |-> deps]
           F == upTo({<<k(t), k(u)>> : t \in CatalogTables, u \in CatalogTables})
           L == upTo(Routines \X ({<<t>> : t \in CatalogTables} \cup {k(t) : t \in CatalogTables}))
<1>1. PICK fks \in F, deps \in L : cat = made(fks, deps)
  <2>1. cat \in {made(fks, deps) : fks \in F, deps \in L}
    BY DEF Catalogs
  <2> HIDE DEF made, F, L
  <2> QED
    BY <2>1
<1>2. /\ cat.tables = CatalogTables /\ cat.columns = {k(t) : t \in CatalogTables}
      /\ cat.fks = fks /\ cat.routines = Routines /\ cat.deps = deps
  BY <1>1
<1>3. \A f \in fks : f[1] \in cat.columns /\ f[2] \in cat.columns
  <2>1. fks \subseteq {<<k(t), k(u)>> : t \in CatalogTables, u \in CatalogTables}
    BY DEF F
  <2> QED
    BY <1>2, <2>1
<1>4. \A d \in deps : d[1] \in Routines /\ (d[2] \in cat.columns \/ \E t \in CatalogTables : d[2] = <<t>>)
  <2>1. deps \subseteq Routines \X ({<<t>> : t \in CatalogTables} \cup {k(t) : t \in CatalogTables})
    BY DEF L
  <2> QED
    BY <1>2, <2>1
<1>5. \A c \in cat.columns : c[1] \in CatalogTables /\ c = <<c[1], "k">>
  BY <1>2
<1> QED
  BY <1>2, <1>3, <1>4, <1>5 DEF AllThere

(* What is discovered around an object is what a walk of as many steps     *)
(* reaches.                                                                *)
Objects(cat) == cat.tables \cup cat.routines
Near(cat, x, y) == x = y \/ y \in Neighbors(cat, {x})
Within(cat, x, y, d) ==
  \E p \in [0..d -> Objects(cat)] : p[0] = x /\ p[d] = y /\ \A i \in 1..d : Near(cat, p[i - 1], p[i])

LEMMA NeighborsAreObjects ==
  ASSUME NEW cat, AllThere(cat), NEW F
  PROVE  Neighbors(cat, F) \subseteq Objects(cat)
<1> SUFFICES ASSUME NEW y \in Neighbors(cat, F) PROVE y \in Objects(cat)
  OBVIOUS
<1>1. CASE Keyed(cat, F, y)
  BY <1>1 DEF Keyed, AllThere, Objects
<1>2. CASE Depends(cat, F, y)
  <2>1. PICK d \in cat.deps : y = d[1] \/ y = d[2][1]
    BY <1>2 DEF Depends
  <2>2. d[1] \in cat.routines
    BY DEF AllThere
  <2>3. d[2][1] \in cat.tables
    <3>1. CASE d[2] \in cat.columns
      BY <3>1 DEF AllThere
    <3>2. ASSUME NEW t \in cat.tables, d[2] = <<t>> PROVE d[2][1] \in cat.tables
      BY <3>2
    <3> QED
      BY <3>1, <3>2 DEF AllThere
  <2> QED
    BY <2>1, <2>2, <2>3 DEF Objects
<1> QED
  BY <1>1, <1>2, ANeighbor

LEMMA Walked ==
  ASSUME NEW cat, AllThere(cat), NEW x \in Objects(cat), NEW y
  PROVE  /\ Within(cat, x, y, 0) <=> y = x
         /\ Within(cat, x, y, 1) <=> Near(cat, x, y)
         /\ Within(cat, x, y, 2) <=> \E z \in Objects(cat) : Near(cat, x, z) /\ Near(cat, z, y)
<1>0. \A z \in Objects(cat) : Near(cat, z, y) => y \in Objects(cat)
  BY NeighborsAreObjects DEF Near
<1>1. Within(cat, x, y, 0) <=> y = x
  <2>1. ASSUME y = x PROVE Within(cat, x, y, 0)
    <3> DEFINE p == [i \in 0..0 |-> x]
    <3>1. p \in [0..0 -> Objects(cat)] /\ p[0] = x
      OBVIOUS
    <3>2. \A i \in 1..0 : Near(cat, p[i - 1], p[i])
      OBVIOUS
    <3> HIDE DEF p
    <3> QED
      BY <2>1, <3>1, <3>2 DEF Within
  <2> QED
    BY <2>1 DEF Within
<1>2. Within(cat, x, y, 1) <=> Near(cat, x, y)
  <2>1. ASSUME Near(cat, x, y) PROVE Within(cat, x, y, 1)
    <3> DEFINE p == [i \in 0..1 |-> IF i = 0 THEN x ELSE y]
    <3>1. p \in [0..1 -> Objects(cat)] /\ p[0] = x /\ p[1] = y
      BY <1>0, <2>1
    <3> HIDE DEF p
    <3>2. \A i \in 1..1 : Near(cat, p[i - 1], p[i])
      BY <2>1, <3>1
    <3> QED
      BY <3>1, <3>2 DEF Within
  <2>2. ASSUME Within(cat, x, y, 1) PROVE Near(cat, x, y)
    <3>1. PICK p \in [0..1 -> Objects(cat)] : p[0] = x /\ p[1] = y /\ \A i \in 1..1 : Near(cat, p[i - 1], p[i])
      BY <2>2 DEF Within
    <3>2. Near(cat, p[1 - 1], p[1])
      BY <3>1
    <3> QED
      BY <3>1, <3>2
  <2> QED
    BY <2>1, <2>2
<1>3. Within(cat, x, y, 2) <=> \E z \in Objects(cat) : Near(cat, x, z) /\ Near(cat, z, y)
  <2>1. ASSUME NEW z \in Objects(cat), Near(cat, x, z), Near(cat, z, y) PROVE Within(cat, x, y, 2)
    <3> DEFINE p == [i \in 0..2 |-> IF i = 0 THEN x ELSE IF i = 1 THEN z ELSE y]
    <3>1. p \in [0..2 -> Objects(cat)] /\ p[0] = x /\ p[1] = z /\ p[2] = y
      BY <1>0, <2>1
    <3> HIDE DEF p
    <3>2. \A i \in 1..2 : Near(cat, p[i - 1], p[i])
      <4>1. Near(cat, p[1 - 1], p[1]) /\ Near(cat, p[2 - 1], p[2])
        BY <2>1, <3>1
      <4> QED
        BY <4>1
    <3> QED
      BY <3>1, <3>2 DEF Within
  <2>2. ASSUME Within(cat, x, y, 2) PROVE \E z \in Objects(cat) : Near(cat, x, z) /\ Near(cat, z, y)
    <3>1. PICK p \in [0..2 -> Objects(cat)] : p[0] = x /\ p[2] = y /\ \A i \in 1..2 : Near(cat, p[i - 1], p[i])
      BY <2>2 DEF Within
    <3>2. Near(cat, p[1 - 1], p[1]) /\ Near(cat, p[2 - 1], p[2]) /\ p[1] \in Objects(cat)
      BY <3>1
    <3> QED
      BY <3>1, <3>2
  <2> QED
    BY <2>1, <2>2
<1> QED
  BY <1>1, <1>2, <1>3

LEMMA DiscoveredWithin ==
  ASSUME NEW cat, AllThere(cat), NEW x \in Objects(cat), NEW d \in 0..2, NEW y
  PROVE  y \in DiscoverObjectIds(cat, x, d) <=> Within(cat, x, y, d)
<1>1. CASE d = 0
  <2>1. DiscoverObjectIds(cat, x, 0) = {x}
    BY Discovered, Zenon
  <2> QED
    BY <1>1, <2>1, Walked
<1>2. CASE d = 1
  <2>1. DiscoverObjectIds(cat, x, 1) = {x} \cup Neighbors(cat, {x})
    BY Discovered, Zenon
  <2>2. Within(cat, x, y, 1) <=> Near(cat, x, y)
    BY Walked
  <2> QED
    BY <1>2, <2>1, <2>2 DEF Near
<1>3. CASE d = 2
  <2> DEFINE N == Neighbors(cat, {x})
  <2>1. y \in DiscoverObjectIds(cat, x, 2) <=> y = x \/ y \in N \/ y \in Neighbors(cat, N \ {x})
    <3>1. DiscoverObjectIds(cat, x, 2) = {x} \cup N \cup Neighbors(cat, N \ {x})
      BY Discovered, Zenon
    <3> HIDE DEF N
    <3> QED
      BY <3>1
  <2>2. y \in Neighbors(cat, N \ {x}) <=> \E z \in N \ {x} : y \in Neighbors(cat, {z})
    BY NeighborsOf
  <2>3. N \subseteq Objects(cat)
    BY NeighborsAreObjects
  <2>4. Within(cat, x, y, 2) <=> \E z \in Objects(cat) : (x = z \/ z \in N) /\ (z = y \/ y \in Neighbors(cat, {z}))
    BY Walked DEF Near
  <2> QED
    BY <1>3, <2>1, <2>2, <2>3, <2>4
<1> QED
  BY <1>1, <1>2, <1>3

LEMMA TargetedSubset ==
  ASSUME catalog \in Catalogs
  PROVE  TargetedIsSubset
<1>1. AllThere(catalog)
  BY CatalogsAllThere
<1>2. ASSUME NEW x \in Objects(catalog), NEW d \in 0..2
      PROVE  LET full == BuildGraph(catalog)
                 kept == {n \in full.nodes : Within(catalog, x, n.id[2], d)}
             IN BuildTargetedGraph(catalog, x, d)
                  = [nodes |-> kept, edges |-> {e \in full.edges : {e.source, e.target} \subseteq Ids(kept)}]
  <2> DEFINE D == DiscoverObjectIds(catalog, x, d)
             full == BuildGraph(catalog)
             kept == {n \in full.nodes : Within(catalog, x, n.id[2], d)}
  <2>1. BuildTargetedGraph(catalog, x, d) = BuildGraph(RowsIn(catalog, D))
    BY DEF BuildTargetedGraph, Objects
  <2>2. \A y : y \in D <=> Within(catalog, x, y, d)
    BY <1>1, DiscoveredWithin
  <2> HIDE DEF D, full
  <2>3. kept = {n \in full.nodes : n.id[2] \in D}
    BY <2>2
  <2>4. BuildGraph(RowsIn(catalog, D))
          = [nodes |-> {n \in full.nodes : n.id[2] \in D},
             edges |-> {e \in full.edges : {e.source, e.target} \subseteq Ids({n \in full.nodes : n.id[2] \in D})}]
    BY <1>1, PartIs DEF full
  <2> QED
    BY <2>1, <2>3, <2>4 DEF full
<1> QED
  BY <1>2, Zenon DEF TargetedIsSubset, Within, Near, Objects

(* What a table, a column or a routine shows is next to it.                *)
LEMMA AnEdge ==
  ASSUME NEW cat, AllThere(cat), NEW e \in BuildGraph(cat).edges
  PROVE  \/ \E c \in cat.columns : e.source = TableId(c[1]) /\ e.target = ColumnId(c)
         \/ \E f \in cat.fks : e.source = ColumnId(f[1]) /\ e.target = ColumnId(f[2])
         \/ \E d \in cat.deps : e.source = RoutineId(d[1]) /\ e.target = TargetId(d[2]) /\ e.target[2] = d[2][1]
<1>1. CASE e \in StoresEdges(cat)
  BY <1>1, StoresEnds
<1>2. CASE e \in LinksEdges(cat)
  BY <1>2, LinksEnds
<1>3. CASE e \in CreatesEdges(cat, PresentIds(cat))
  <2>1. PICK d \in cat.deps : e.source = RoutineId(d[1]) /\ e.target = TargetId(d[2])
    BY <1>3, CreatesEnds
  <2> QED
    BY <2>1, DependencyEnd
<1> QED
  BY <1>1, <1>2, <1>3, GraphBuilt

LEMMA AroundTable ==
  ASSUME NEW cat, AllThere(cat), NEW e \in BuildGraph(cat).edges, NEW t, e.source = TableId(t) \/ e.target = TableId(t)
  PROVE  {e.source[2], e.target[2]} \subseteq {t} \cup Neighbors(cat, {t})
<1>1. CASE \E c \in cat.columns : e.source = TableId(c[1]) /\ e.target = ColumnId(c)
  BY <1>1, IdsDiffer, IdObject
<1>2. CASE \E f \in cat.fks : e.source = ColumnId(f[1]) /\ e.target = ColumnId(f[2])
  BY <1>2, IdsDiffer
<1>3. ASSUME NEW d \in cat.deps, e.source = RoutineId(d[1]), e.target = TargetId(d[2]), e.target[2] = d[2][1]
      PROVE  {e.source[2], e.target[2]} \subseteq {t} \cup Neighbors(cat, {t})
  <2>1. e.target = TableId(t)
    BY <1>3, IdsDiffer
  <2>2. d[2][1] = t /\ e.source[2] = d[1]
    BY <1>3, <2>1, IdObject
  <2>3. d[1] \in Neighbors(cat, {t})
    BY <2>2, ANeighbor DEF Depends
  <2> QED
    BY <1>3, <2>2, <2>3
<1> QED
  BY <1>1, <1>2, <1>3, AnEdge

LEMMA AroundRoutine ==
  ASSUME NEW cat, AllThere(cat), NEW e \in BuildGraph(cat).edges, NEW r, e.source = RoutineId(r)
  PROVE  {e.source[2], e.target[2]} \subseteq {r} \cup Neighbors(cat, {r})
<1>1. PICK d \in cat.deps : e.source = RoutineId(d[1]) /\ e.target[2] = d[2][1]
  <2>1. \A t, c : TableId(t) # RoutineId(r) /\ ColumnId(c) # RoutineId(r)
    BY IdsDiffer
  <2> QED
    BY <2>1, AnEdge
<1>2. d[1] = r /\ e.source[2] = r
  BY <1>1, IdsDiffer, IdObject
<1>3. d[2][1] \in Neighbors(cat, {r})
  BY <1>2, ANeighbor DEF Depends
<1> QED
  BY <1>1, <1>2, <1>3

LEMMA TargetedAnswers ==
  ASSUME catalog \in Catalogs
  PROVE  TargetedAnswersWhole
<1> DEFINE full == BuildGraph(catalog)
           D(x, d) == DiscoverObjectIds(catalog, x, d)
<1>1. AllThere(catalog) /\ catalog.tables = CatalogTables /\ catalog.routines = Routines
  BY CatalogsAllThere
<1>2. ASSUME NEW x \in CatalogTables \cup Routines, NEW d
      PROVE  LET g == BuildTargetedGraph(catalog, x, d)
             IN /\ \A n : n \in g.nodes <=> n \in full.nodes /\ n.id[2] \in D(x, d)
                /\ \A e : e \in g.edges <=> e \in full.edges /\ e.source[2] \in D(x, d) /\ e.target[2] \in D(x, d)
  <2>1. BuildTargetedGraph(catalog, x, d) = BuildGraph(RowsIn(catalog, D(x, d)))
    BY <1>1 DEF BuildTargetedGraph
  <2>2. BuildGraph(RowsIn(catalog, D(x, d))).nodes = {n \in full.nodes : n.id[2] \in D(x, d)}
    BY <1>1, PartNodes
  <2>3. BuildGraph(RowsIn(catalog, D(x, d))).edges
          = {e \in full.edges : e.source[2] \in D(x, d) /\ e.target[2] \in D(x, d)}
    BY <1>1, PartEdges
  <2> HIDE DEF D, full
  <2> QED
    BY <2>1, <2>2, <2>3
<1>3. \A x : {x} \cup Neighbors(catalog, {x}) \subseteq D(x, 1) /\ {x} \cup Neighbors(catalog, {x}) \subseteq D(x, 2)
  <2> SUFFICES ASSUME NEW x
               PROVE  {x} \cup Neighbors(catalog, {x}) \subseteq D(x, 1) /\ {x} \cup Neighbors(catalog, {x}) \subseteq D(x, 2)
    OBVIOUS
  <2>1. D(x, 1) = {x} \cup Neighbors(catalog, {x})
    BY Discovered, Zenon
  <2>2. D(x, 2) = {x} \cup Neighbors(catalog, {x}) \cup Neighbors(catalog, Neighbors(catalog, {x}) \ {x})
    BY Discovered, Zenon
  <2> HIDE DEF D
  <2> QED
    BY <2>1, <2>2
<1>4. /\ \A t : \A e \in full.edges : e.source = TableId(t) \/ e.target = TableId(t)
                                        => e.source[2] \in D(t, 1) /\ e.target[2] \in D(t, 1)
      /\ \A r : \A e \in full.edges : e.source = RoutineId(r) => e.source[2] \in D(r, 2) /\ e.target[2] \in D(r, 2)
  <2>1. ASSUME NEW e \in full.edges, NEW t, e.source = TableId(t) \/ e.target = TableId(t)
        PROVE  e.source[2] \in D(t, 1) /\ e.target[2] \in D(t, 1)
    BY <1>1, <1>3, <2>1, AroundTable
  <2>2. ASSUME NEW e \in full.edges, NEW r, e.source = RoutineId(r)
        PROVE  e.source[2] \in D(r, 2) /\ e.target[2] \in D(r, 2)
    BY <1>1, <1>3, <2>2, AroundRoutine
  <2> QED
    BY <2>1, <2>2
<1>5. \A c \in catalog.columns : c[1] \in CatalogTables
  BY <1>1 DEF AllThere
<1> HIDE DEF full, D
<1>6. ASSUME NEW t \in CatalogTables
      PROVE  DbGetTable(BuildTargetedGraph(catalog, t, 1), t) = DbGetTable(full, t)
  <2> DEFINE g == BuildTargetedGraph(catalog, t, 1)
  <2>1. /\ \A n : n \in g.nodes <=> n \in full.nodes /\ n.id[2] \in D(t, 1)
        /\ \A e : e \in g.edges <=> e \in full.edges /\ e.source[2] \in D(t, 1) /\ e.target[2] \in D(t, 1)
    BY <1>2
  <2>2. t \in D(t, 1) /\ TableId(t)[2] = t
    BY <1>3, IdObject
  <2> HIDE DEF g
  <2>3. (\E n \in g.nodes : n.id = TableId(t) /\ n.type = "Table") <=> (\E n \in full.nodes : n.id = TableId(t) /\ n.type = "Table")
    BY <2>1, <2>2
  <2>4. {x \in g.edges : x.source = TableId(t)} = {x \in full.edges : x.source = TableId(t)}
    BY <1>4, <2>1
  <2>5. {x \in g.edges : x.source # TableId(t) /\ x.target = TableId(t)}
          = {x \in full.edges : x.source # TableId(t) /\ x.target = TableId(t)}
    BY <1>4, <2>1
  <2>6. DbGetTable(g, t) = DbGetTable(full, t)
    BY <2>3, <2>4, <2>5, Zenon DEF DbGetTable
  <2> QED
    BY <2>6 DEF g
<1>7. ASSUME NEW c \in catalog.columns
      PROVE  DbGetColumn(BuildTargetedGraph(catalog, c[1], 1), c) = DbGetColumn(full, c)
  <2> DEFINE g == BuildTargetedGraph(catalog, c[1], 1)
  <2>1. \A n : n \in g.nodes <=> n \in full.nodes /\ n.id[2] \in D(c[1], 1)
    BY <1>2, <1>5
  <2>2. c[1] \in D(c[1], 1) /\ ColumnId(c)[2] = c[1]
    BY <1>3, IdObject
  <2> HIDE DEF g
  <2>3. DbGetColumn(g, c) = DbGetColumn(full, c)
    BY <2>1, <2>2 DEF DbGetColumn
  <2> QED
    BY <2>3 DEF g
<1>8. ASSUME NEW r \in Routines
      PROVE  DbGetRoutineDependencies(BuildTargetedGraph(catalog, r, 2), r) = DbGetRoutineDependencies(full, r)
  <2> DEFINE g == BuildTargetedGraph(catalog, r, 2)
  <2>1. \A e : e \in g.edges <=> e \in full.edges /\ e.source[2] \in D(r, 2) /\ e.target[2] \in D(r, 2)
    BY <1>2
  <2> HIDE DEF g
  <2>2. {x \in g.edges : x.source = RoutineId(r) /\ x.relationship = "Creates"}
          = {x \in full.edges : x.source = RoutineId(r) /\ x.relationship = "Creates"}
    BY <1>4, <2>1
  <2>3. DbGetRoutineDependencies(g, r) = DbGetRoutineDependencies(full, r)
    BY <2>2, Zenon DEF DbGetRoutineDependencies
  <2> QED
    BY <2>3 DEF g
<1> QED
  BY <1>6, <1>7, <1>8, Zenon DEF TargetedAnswersWhole, full

(* A targeted build is the part of the whole graph around its entry, and   *)
(* at their default depths the tools answer from it what they would from   *)
(* the whole graph: for any tables of one column, keys and dependencies.   *)
THEOREM TargetedBuildIsExact == Spec => []TargetedExact
<1>1. GraphInv => TargetedExact
  <2>1. ASSUME GraphInv, mode = "query" PROVE TargetedExact
    BY <2>1, TargetedSubset, TargetedAnswers DEF GraphInv, DbInit, TargetedExact
  <2>2. ASSUME mode # "query" PROVE TargetedExact
    BY <2>2 DEF TargetedExact, TargetedIsSubset, TargetedAnswersWhole
  <2> QED
    BY <2>1, <2>2
<1> QED
  BY <1>1, GraphInvariance, PTL
=============================================================================
