------------------------------ MODULE CardSync ------------------------------
(***************************************************************************)
(* Cards travel from one machine to another: the card tools of the source  *)
(* repository (mcp/card_tools.py) change a row of cards.sqlite and emit a  *)
(* task event; the central store materializes accepted events into         *)
(* registry.tasks (services/api/store.py) with a version guard; the inbox  *)
(* poller of another repository (mcp/task_inbox.py) pages through          *)
(* GET /v1/tasks and applies each projection to its own cards.sqlite.      *)
(*                                                                         *)
(* The road from the outbox to the server is module Delivery: an emitted   *)
(* event is accepted once, in any order relative to the others.  A card is *)
(* its version and its status; the history of a source row is kept, so     *)
(* that version v of card c is sourceRow[c][v].                            *)
(***************************************************************************)
EXTENDS Integers, Sequences, FiniteSets

CONSTANTS
  Cards,         \* global ids (task_ ULIDs)
  Writers,       \* server processes using the card tools of the source
  Pollers,       \* task_inbox processes of the target repository
  Limit,         \* page size of poll_once
  MaxVersion,    \* bound: versions written, of all cards together
  MaxIngests,    \* event batches the server materializes at the same time
  MaxLost,       \* bound: events never appended, or recorded but not materialized
  MaxFailures    \* bound: polls that fail

ASSUME CardSyncAssumption ==
  /\ Limit \in Nat \ {0}
  /\ MaxVersion \in Nat \ {0}
  /\ MaxIngests \in Nat \ {0}
  /\ MaxLost \in Nat
  /\ MaxFailures \in Nat

VALID_STATUSES == {"Created", "In Progress", "Complete"}
TaskSyncStatus == {"created", "in_progress", "blocked", "complete"}

VARIABLES
  sourceRow,     \* source cards.sqlite: every version's status, the last is the row
  writer,        \* what each writer has still to do for its last operation
  emitted,       \* task events in the source outbox, not ingested yet
  inserting,     \* accepted events whose UPDATE of registry.tasks hit no row
  materialized,  \* accepted events that _materialize_task has applied or found outdated
  skipped,       \* accepted events whose INSERT failed on the primary key
  central,       \* registry.tasks: at most one row per card
  changeSeq,     \* the last rowversion handed out
  inboxCursor,   \* inbox_cursor.json for this source (0: none)
  targetRows,    \* target cards.sqlite: the rows carrying each global id
  poller,        \* the local state of each poll_once
  lost, failures

source == <<sourceRow, writer>>
server == <<inserting, materialized, skipped, central, changeSeq>>
target == <<inboxCursor, targetRows, poller, failures>>

vars == <<source, emitted, lost, server, target>>

(* A task as its event carries it, and an event: the version its operation
   wrote tells apart two events with the same content. *)
Task == [card : Cards, version : 1 .. MaxVersion, status : VALID_STATUSES]
Event == [task : Task, kind : {"created", "updated", "completed"}, op : 1 .. MaxVersion]
NoTask == [version |-> 0]

(***************************************************************************)
(* contracts/tasks.py: the two status maps, on the statuses they know.     *)
(***************************************************************************)
local_status_to_sync(s) ==
  CASE s = "Created" -> "created"
    [] s = "In Progress" -> "in_progress"
    [] s = "Complete" -> "complete"

sync_status_to_local(s) ==
  CASE s = "created" -> "Created"
    [] s \in {"in_progress", "blocked"} -> "In Progress"
    [] s = "complete" -> "Complete"

NoWriter == [at |-> "idle"]
NoPoll == [at |-> "idle"]

Init ==
  /\ sourceRow = [c \in Cards |-> <<>>]
  /\ writer = [w \in Writers |-> NoWriter]
  /\ emitted = {}
  /\ inserting = {} /\ materialized = {} /\ skipped = {}
  /\ central = [c \in Cards |-> NoTask]
  /\ changeSeq = 0
  /\ inboxCursor = 0
  /\ targetRows = [c \in Cards |-> <<>>]
  /\ poller = [q \in Pollers |-> NoPoll]
  /\ lost = 0 /\ failures = 0

(***************************************************************************)
(* The source repository.                                                  *)
(***************************************************************************)
RowOf(c) ==
  [card |-> c, version |-> Len(sourceRow[c]), status |-> sourceRow[c][Len(sourceRow[c])]]

Written == UNION {{c} \X DOMAIN sourceRow[c] : c \in Cards}

(* INSERT and commit; the event is emitted afterwards. *)
CreateCard(w, c) ==
  /\ writer[w].at = "idle" /\ Cardinality(Written) < MaxVersion
  /\ sourceRow[c] = <<>>
  /\ sourceRow' = [sourceRow EXCEPT ![c] = <<"Created">>]
  /\ writer' = [writer EXCEPT ![w] =
       [at |-> "emit", op |-> 1, kinds |-> <<"created">>,
        task |-> [card |-> c, version |-> 1, status |-> "Created"]]]
  /\ UNCHANGED <<emitted, lost, server, target>>

(* UPDATE ... sync_version + 1, and commit. An update that leaves the status
   alone writes a version with the same status. *)
UpdateCard(w, c, status, kinds) ==
  /\ writer[w].at = "idle" /\ Cardinality(Written) < MaxVersion
  /\ sourceRow[c] # <<>>
  /\ sourceRow' = [sourceRow EXCEPT ![c] = Append(@, status)]
  /\ writer' = [writer EXCEPT ![w] =
       [at |-> "read", op |-> Len(sourceRow[c]) + 1, card |-> c, kinds |-> kinds]]
  /\ UNCHANGED <<emitted, lost, server, target>>

(* An update to "Complete" whose result is emitted twice. *)
CompleteCard(w, c) == UpdateCard(w, c, "Complete", <<"updated", "completed">>)

(* Mutant of ReadBack: the version comes from the UPDATE, the status from the
   row read afterwards. *)
ReadBackMixed(w) ==
  /\ writer[w].at = "read"
  /\ writer' = [writer EXCEPT ![w] =
       [at |-> "emit", op |-> @.op, kinds |-> @.kinds,
        task |-> [RowOf(@.card) EXCEPT !.version = writer[w].op]]]
  /\ UNCHANGED <<sourceRow, emitted, lost, server, target>>

(* get_card on a connection of its own: the row as it is now. *)
ReadBack(w) ==
  /\ writer[w].at = "read"
  /\ writer' = [writer EXCEPT ![w] =
       [at |-> "emit", op |-> @.op, kinds |-> @.kinds, task |-> RowOf(@.card)]]
  /\ UNCHANGED <<sourceRow, emitted, lost, server, target>>

AfterEmit(op) ==
  IF Len(op.kinds) = 1 THEN NoWriter ELSE [op EXCEPT !.kinds = Tail(@)]

EmitTaskEvent(w) ==
  /\ writer[w].at = "emit"
  /\ emitted' = emitted \cup {[task |-> writer[w].task, kind |-> Head(writer[w].kinds),
                               op |-> writer[w].op]}
  /\ writer' = [writer EXCEPT ![w] = AfterEmit(@)]
  /\ UNCHANGED <<sourceRow, lost, server, target>>

(* The process dies between the commit and the append, or emit_event
   swallows the error of one append. *)
LoseEvents(w) ==
  /\ lost < MaxLost
  /\ \/ /\ writer[w].at # "idle"
        /\ writer' = [writer EXCEPT ![w] = NoWriter]
     \/ /\ writer[w].at = "emit"
        /\ writer' = [writer EXCEPT ![w] = AfterEmit(@)]
  /\ lost' = lost + 1
  /\ UNCHANGED <<sourceRow, emitted, server, target>>

(***************************************************************************)
(* The central store: _materialize_task for an accepted event, in a        *)
(* transaction of its own.                                                 *)
(***************************************************************************)
(* Mutant of CentralRow: the local status is stored as it comes. *)
CentralRowRaw(t, seq) == [version |-> t.version, status |-> t.status, seq |-> seq]

CentralRow(t, seq) ==
  [version |-> t.version, status |-> local_status_to_sync(t.status), seq |-> seq]

(* Mutant of GuardAdmits: the last event to arrive wins. *)
GuardAdmitsAll(t) == TRUE

(* UPDATE ... WHERE global_id = ? AND ? >= version *)
GuardAdmits(t) == t.version >= central[t.card].version

(* The row exists: the UPDATE lands, or the guard rejects it and the SELECT
   finds the row. *)
MaterializeUpdate(ev) ==
  /\ Cardinality(inserting) < MaxIngests
  /\ central[ev.task.card] # NoTask
  /\ emitted' = emitted \ {ev}
  /\ materialized' = materialized \cup {ev}
  /\ IF GuardAdmits(ev.task)
     THEN /\ changeSeq' = changeSeq + 1
          /\ central' = [central EXCEPT ![ev.task.card] = CentralRow(ev.task, changeSeq + 1)]
     ELSE UNCHANGED <<changeSeq, central>>
  /\ UNCHANGED <<source, lost, inserting, skipped, target>>

(* The UPDATE hits no row and the SELECT finds none. *)
MaterializeMiss(ev) ==
  /\ Cardinality(inserting) < MaxIngests
  /\ central[ev.task.card] = NoTask
  /\ emitted' = emitted \ {ev}
  /\ inserting' = inserting \cup {ev}
  /\ UNCHANGED <<source, lost, materialized, skipped, central, changeSeq, target>>

(* The INSERT, which fails on the primary key when another batch has
   inserted the task meanwhile: the event is logged and skipped, even if it
   carries the newer version. *)
MaterializeInsert(ev) ==
  /\ inserting' = inserting \ {ev}
  /\ IF central[ev.task.card] = NoTask
     THEN /\ changeSeq' = changeSeq + 1
          /\ central' = [central EXCEPT ![ev.task.card] = CentralRow(ev.task, changeSeq + 1)]
          /\ materialized' = materialized \cup {ev}
          /\ UNCHANGED skipped
     ELSE /\ skipped' = skipped \cup {ev}
          /\ UNCHANGED <<changeSeq, central, materialized>>
  /\ UNCHANGED <<source, emitted, lost, target>>

(* The event log has committed, and the API process dies or the database
   refuses the connection before the task is written: the redelivered event
   is a duplicate, which is not materialized. *)
SkipMaterialize(ev) ==
  /\ lost < MaxLost
  /\ lost' = lost + 1
  /\ emitted' = emitted \ {ev}
  /\ inserting' = inserting \ {ev}
  /\ UNCHANGED <<source, materialized, skipped, central, changeSeq, target>>

(***************************************************************************)
(* The target repository: poll_once, page by page.                         *)
(***************************************************************************)
ChangedSince(since) == {c \in Cards : central[c] # NoTask /\ central[c].seq > since}

Row(c) == [card |-> c, version |-> central[c].version,
           status |-> central[c].status, seq |-> central[c].seq]

(* SELECT TOP (limit) ... WHERE change_seq > since ORDER BY change_seq *)
Page(since) ==
  LET older(c) == {d \in ChangedSince(since) : central[d].seq < central[c].seq}
  IN  {Row(c) : c \in {d \in ChangedSince(since) : Cardinality(older(d)) < Limit}}

(* The rows of a page, in the order of their change_seq. *)
FirstOf(rows) == CHOOSE r \in rows : \A x \in rows : r.seq <= x.seq
NextSince(rows) == (CHOOSE r \in rows : \A x \in rows : x.seq <= r.seq).seq

(* The answer to a request: an empty page ends the poll. *)
GotPage(q, since) ==
  poller' = [poller EXCEPT ![q] =
    IF ChangedSince(since) = {} THEN NoPoll
    ELSE [at |-> "apply", page |-> Page(since), left |-> Page(since)]]

(* The first request of a poll, from the stored cursor; a poll that finds
   nothing changes nothing. *)
StartPoll(q) ==
  /\ poller[q].at = "idle"
  /\ ChangedSince(inboxCursor) # {}
  /\ GotPage(q, inboxCursor)
  /\ UNCHANGED <<source, emitted, lost, server, inboxCursor, targetRows, failures>>

(* The next request, after a full page, from the poll's own variable. *)
NextPage(q) ==
  /\ poller[q].at = "more"
  /\ GotPage(q, poller[q].since)
  /\ UNCHANGED <<source, emitted, lost, server, inboxCursor, targetRows, failures>>

Projection(t) == [version |-> t.version, status |-> sync_status_to_local(t.status)]

(* apply_task_projection, the card is there: UPDATE ... WHERE global_id = ?
   overwrites every row that carries it, whatever its version. *)
ApplyUpdate(q) ==
  /\ poller[q].at = "apply" /\ poller[q].left # {}
  /\ LET t == FirstOf(poller[q].left) IN
     /\ targetRows[t.card] # <<>>
     /\ targetRows' = [targetRows EXCEPT ![t.card] =
                         [i \in DOMAIN targetRows[t.card] |-> Projection(t)]]
     /\ poller' = [poller EXCEPT ![q].left = @ \ {t}]
  /\ UNCHANGED <<source, emitted, lost, server, inboxCursor, failures>>

(* The SELECT finds no card; no write transaction is open yet. *)
ApplyMiss(q) ==
  /\ poller[q].at = "apply" /\ poller[q].left # {}
  /\ targetRows[FirstOf(poller[q].left).card] = <<>>
  /\ poller' = [poller EXCEPT ![q].at = "insert"]
  /\ UNCHANGED <<source, emitted, lost, server, inboxCursor, targetRows, failures>>

(* The INSERT, with a fresh local card id; global_id is not unique. *)
ApplyInsert(q) ==
  /\ poller[q].at = "insert"
  /\ LET t == FirstOf(poller[q].left) IN
     /\ targetRows' = [targetRows EXCEPT ![t.card] = Append(@, Projection(t))]
     /\ poller' = [poller EXCEPT ![q].at = "apply", ![q].left = @ \ {t}]
  /\ UNCHANGED <<source, emitted, lost, server, inboxCursor, failures>>

(* The cursor moves to next_since, and a full page asks for another one. *)
SaveCursor(q, since) ==
  /\ inboxCursor' = since
  /\ poller' = [poller EXCEPT ![q] =
       IF Cardinality(@.page) < Limit THEN NoPoll ELSE [at |-> "more", since |-> since]]
  /\ UNCHANGED <<source, emitted, lost, server, targetRows, failures>>

(* Mutants of WriteInboxCursor: before the page is applied, and to the last
   change the server has made. *)
WriteInboxCursorEarly(q) ==
  /\ poller[q].at = "apply"
  /\ SaveCursor(q, NextSince(poller[q].page))

WriteInboxCursorLatest(q) ==
  /\ poller[q].at = "apply" /\ poller[q].left = {}
  /\ SaveCursor(q, changeSeq)

(* Only when the whole page is applied. *)
WriteInboxCursor(q) ==
  /\ poller[q].at = "apply" /\ poller[q].left = {}
  /\ SaveCursor(q, NextSince(poller[q].page))

(* A request or an apply fails, the process dies, or the poll has used up its
   max_pages: it is abandoned where it is. *)
PollFails(q) ==
  /\ failures < MaxFailures
  /\ poller[q].at # "idle"
  /\ failures' = failures + 1
  /\ poller' = [poller EXCEPT ![q] = NoPoll]
  /\ UNCHANGED <<source, emitted, lost, server, inboxCursor, targetRows>>

Write(w) ==
  \/ \E c \in Cards :
       \/ CreateCard(w, c)
       \/ \E s \in VALID_STATUSES : UpdateCard(w, c, s, <<"updated">>)
       \/ CompleteCard(w, c)
  \/ ReadBack(w) \/ EmitTaskEvent(w)

Materialize ==
  \/ \E ev \in emitted : MaterializeUpdate(ev) \/ MaterializeMiss(ev)
  \/ \E ev \in inserting : MaterializeInsert(ev)

Poll(q) ==
  \/ StartPoll(q) \/ NextPage(q)
  \/ ApplyUpdate(q) \/ ApplyMiss(q) \/ ApplyInsert(q) \/ WriteInboxCursor(q)

Next ==
  \/ \E w \in Writers : Write(w) \/ LoseEvents(w)
  \/ Materialize
  \/ \E ev \in emitted \cup inserting : SkipMaterialize(ev)
  \/ \E q \in Pollers : Poll(q) \/ PollFails(q)

Spec == Init /\ [][Next]_vars

(* A writer finishes what it began, the drain and the server deliver, the
   pollers keep polling. *)
FairSpec ==
  /\ Spec
  /\ \A w \in Writers : WF_vars(ReadBack(w) \/ EmitTaskEvent(w))
  /\ WF_vars(Materialize)
  /\ \A q \in Pollers : WF_vars(Poll(q))

(***************************************************************************)
(* Properties.                                                             *)
(***************************************************************************)
CentralType == [version : 1 .. MaxVersion, status : TaskSyncStatus, seq : Nat]
RowType == [card : Cards, version : 1 .. MaxVersion, status : TaskSyncStatus, seq : Nat]
CardType == [version : 1 .. MaxVersion, status : VALID_STATUSES]
KindsType == {<<"created">>, <<"updated">>, <<"updated", "completed">>, <<"completed">>}

WriterType ==
  {NoWriter}
  \cup [at : {"read"}, op : 1 .. MaxVersion, card : Cards, kinds : KindsType]
  \cup [at : {"emit"}, op : 1 .. MaxVersion, kinds : KindsType, task : Task]

PollerType ==
  {NoPoll}
  \cup [at : {"apply", "insert"}, page : SUBSET RowType, left : SUBSET RowType]
  \cup [at : {"more"}, since : Nat]

(* The shape of both card databases, the central table and the processes:
   a poller holds rows of the server, an operation its card and events. *)
TypeOK ==
  /\ sourceRow \in [Cards -> Seq(VALID_STATUSES)]
  /\ \A c \in Cards : Len(sourceRow[c]) <= MaxVersion
  /\ writer \in [Writers -> WriterType]
  /\ emitted \subseteq Event /\ inserting \subseteq Event
  /\ materialized \subseteq Event /\ skipped \subseteq Event
  /\ central \in [Cards -> CentralType \cup {NoTask}]
  /\ changeSeq \in Nat /\ inboxCursor \in Nat
  /\ targetRows \in [Cards -> Seq(CardType)]
  /\ poller \in [Pollers -> PollerType]
  /\ lost \in 0 .. MaxLost /\ failures \in 0 .. MaxFailures

(* Version v of card c had status s at the source. *)
WasWritten(c, v, s) == v \in DOMAIN sourceRow[c] /\ s = sourceRow[c][v]

(* No reader of the central table or of the target database ever sees a
   (version, status) pair the source never committed: the row emit_event
   describes is read after the commit, when a later update may have
   overtaken it (card_tools.update_card), travels in any order, and is mapped
   to the sync status and back. *)
NoInventedState ==
  \A c \in Cards :
    /\ central[c] # NoTask =>
         WasWritten(c, central[c].version, sync_status_to_local(central[c].status))
    /\ \A i \in DOMAIN targetRows[c] :
         WasWritten(c, targetRows[c][i].version, targetRows[c][i].status)

(* The row of registry.tasks is at least as new as every task event
   materialized so far, whatever order they arrived in
   (store._materialize_task: "the stored (newer) row wins"). An older row is
   left only by an event whose INSERT collided with another batch's. *)
NewestWins ==
  \A ev \in materialized : central[ev.task.card].version >= ev.task.version

(* With several batches at a time an event may be dropped, but the row never
   goes back to an older version, and every change moves it past every
   cursor: a poller that has seen it will be shown it again. *)
CentralMovesForward ==
  [][\A c \in Cards : central'[c] # central[c] =>
       /\ central'[c].version >= central[c].version
       /\ \A d \in Cards : central[d] # NoTask => central'[c].seq > central[d].seq
       /\ central'[c].seq > inboxCursor]_vars

(* One poller: whatever lies at or below the stored cursor, which no poll
   will ever ask for again, is in the target database as it is centrally
   (task_inbox: the cursor moves "ONLY after every task on the page applied
   cleanly"), and pages applied again after failed polls leave one card per
   global id (apply_task_projection "never creates a duplicate"). *)
CursorCovers ==
  \A c \in Cards :
    /\ Len(targetRows[c]) <= 1
    /\ (central[c] # NoTask /\ central[c].seq <= inboxCursor) =>
         targetRows[c] = <<[version |-> central[c].version,
                            status |-> sync_status_to_local(central[c].status)]>>

(* One poller: a card of the target never goes back to an older version,
   although apply_task_projection compares no versions. *)
TargetMovesForward ==
  [][\A c \in Cards : targetRows[c] # <<>> =>
       targetRows'[c][1].version >= targetRows[c][1].version]_vars

(* Neither the central row nor the target's card ever goes back. *)
VersionsMoveForward == CentralMovesForward /\ TargetMovesForward

(* Every card of the target is what the source's card is. *)
InSync ==
  \A c \in Cards : sourceRow[c] # <<>> =>
    /\ targetRows[c] # <<>>
    /\ \A i \in DOMAIN targetRows[c] :
         targetRows[c][i] = [version |-> Len(sourceRow[c]),
                             status |-> sourceRow[c][Len(sourceRow[c])]]

(* The cards stop changing and polls stop failing, and the target ends up
   with the source's last version of every card, unless an event was lost on
   its way or skipped because its INSERT collided with another batch's. *)
Converges == <>(lost > 0 \/ skipped # {}) \/ <>[]InSync
=============================================================================
