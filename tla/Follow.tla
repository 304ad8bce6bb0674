------------------------------- MODULE Follow -------------------------------
(***************************************************************************)
(* The tail of the event feed: `status --follow` (services/m3_client)      *)
(* shows a board with the newest events and then, tick by tick, every      *)
(* event newer than its cursor.  GET /v1/events/recent pages backwards     *)
(* from the newest event, while events keep arriving; the cursor is kept   *)
(* on the server under the client's id, so a restart resumes.              *)
(*                                                                         *)
(* An event is its ingest_seq.  The positions missing from log belong to   *)
(* other repositories or are gaps of the identity column.                  *)
(***************************************************************************)
EXTENDS Integers, FiniteSets

CONSTANTS
  Limit,          \* page size
  MaxPages,       \* max_pages of walk_new_events
  InitialEvents,  \* events in the feed before the client first starts
  MaxSeq,         \* bound: positions handed out by the server
  MaxFailures,    \* bound: requests that fail
  MaxStops        \* bound: times the client is stopped

ASSUME FollowAssumption ==
  /\ Limit \in Nat \ {0} /\ MaxPages \in Nat \ {0}
  /\ InitialEvents \in Nat /\ MaxSeq \in Nat /\ InitialEvents <= MaxSeq
  /\ MaxFailures \in Nat /\ MaxStops \in Nat

VARIABLES
  log,        \* ops.events as the client's filter sees it
  lastSeq,    \* the last ingest_seq handed out
  remote,     \* ops.sync_cursors.last_seq of this client id
  client,     \* where the client's loop is
  cursor,     \* its local cursor
  walk,       \* walk_new_events: after_seq, top_seq, pages, collected, truncated
  unprinted,  \* collected events still to be printed
  printed,    \* events this run of the client has printed
  shown,      \* events ever printed or on a board
  start,      \* the position the client took as its baseline
  failures, stops

vars == <<log, lastSeq, remote, client, cursor, walk, unprinted, printed, shown,
          start, failures, stops>>
feed == <<log, lastSeq>>
bounds == <<failures, stops>>

None == -1

SetMax(S) == CHOOSE x \in S : \A y \in S : y <= x
SetMin(S) == CHOOSE x \in S : \A y \in S : x <= y
Larger(a, b) == IF a >= b THEN a ELSE b

NoWalk == [after |-> None, top |-> None, pages |-> 0, collected |-> {}, truncated |-> FALSE]

Init ==
  /\ log = 1 .. InitialEvents
  /\ lastSeq = InitialEvents
  /\ remote = None
  /\ client = "off"
  /\ cursor = None
  /\ walk = NoWalk
  /\ unprinted = {} /\ printed = {} /\ shown = {}
  /\ start = InitialEvents
  /\ failures = 0 /\ stops = 0

(***************************************************************************)
(* The server.                                                             *)
(***************************************************************************)
Ingest ==
  /\ lastSeq < MaxSeq
  /\ lastSeq' = lastSeq + 1
  /\ log' \in {log, log \cup {lastSeq + 1}}
  /\ UNCHANGED <<remote, client, cursor, walk, unprinted, printed, shown, start, bounds>>

(* recent_events: the newest events older than after. *)
Page(after) ==
  LET older == {e \in log : after = None \/ e < after}
  IN  {e \in older : Cardinality({d \in older : d > e}) < Limit}

(***************************************************************************)
(* The client.                                                             *)
(***************************************************************************)
(* The board, then the stored position; without one, or when the request for
   it fails, the client starts from the newest event of the board. *)
Start(loaded) ==
  /\ client = "off"
  /\ loaded \/ failures < MaxFailures
  /\ failures' = IF loaded THEN failures ELSE failures + 1
  /\ shown' = shown \cup Page(None)
  /\ IF loaded /\ remote # None
     THEN cursor' = remote /\ UNCHANGED start
     ELSE /\ cursor' = IF log = {} THEN None ELSE SetMax(log)
          /\ start' = lastSeq
  /\ client' = "idle"
  /\ printed' = {}
  /\ UNCHANGED <<feed, remote, walk, unprinted, stops>>

Tick ==
  /\ client = "idle"
  /\ client' = "walk"
  /\ walk' = NoWalk
  /\ UNCHANGED <<feed, remote, cursor, unprinted, printed, shown, start, bounds>>

(* Mutant of NewOnPage: the event at the cursor counts as new. *)
NewOnPageInclusive(page) == {e \in page : e >= cursor}

NewOnPage(page) == {e \in page : e > cursor}

(* Mutant of WalkEnds: one page is always enough. *)
WalkEndsAtOnce(page, pages) == TRUE

(* An empty page, the baseline of a client without a cursor, an event already
   seen, or the last page allowed. *)
WalkEnds(page, pages) ==
  \/ page = {}
  \/ cursor = None
  \/ NewOnPage(page) # page
  \/ pages >= MaxPages

(* Mutant of NewCursor: one position too far. *)
NewCursorPastTop(w) == IF w.top = None THEN cursor ELSE Larger(w.top + 1, cursor)

(* The cursor a walk that has ended returns. *)
NewCursor(w) ==
  CASE w.top = None -> cursor
    [] w.top # None /\ cursor = None -> w.top
    [] w.top # None /\ cursor # None /\ w.truncated ->
         Larger(SetMin(w.collected), cursor)
    [] OTHER -> Larger(w.top, cursor)

(* One request of walk_new_events and the pass over its page. *)
FetchPage ==
  LET page  == Page(walk.after)
      pages == walk.pages + 1
      new   == IF cursor = None THEN {} ELSE NewOnPage(page)
      w     == [after |-> IF page = {} THEN walk.after ELSE SetMin(page),
                top |-> IF walk.top = None /\ page # {} THEN SetMax(page) ELSE walk.top,
                pages |-> pages,
                collected |-> walk.collected \cup new,
                truncated |-> page # {} /\ cursor # None /\ new = page /\ pages >= MaxPages]
  IN  /\ client = "walk"
      /\ IF WalkEnds(page, pages)
         THEN /\ cursor' = NewCursor(w)
              /\ client' = IF w.collected = {} THEN "idle" ELSE "print"
              /\ unprinted' = w.collected
              /\ walk' = NoWalk
         ELSE /\ walk' = w
              /\ UNCHANGED <<cursor, client, unprinted>>
      /\ UNCHANGED <<feed, remote, printed, shown, start, bounds>>

(* ApiError out of a fetch: the collected events are dropped, the cursor stays. *)
FetchFails ==
  /\ client = "walk"
  /\ failures < MaxFailures
  /\ failures' = failures + 1
  /\ client' = "idle"
  /\ walk' = NoWalk
  /\ UNCHANGED <<feed, remote, cursor, unprinted, printed, shown, start, stops>>

(* The collected events in chronological order. *)
PrintEvent ==
  /\ client = "print"
  /\ LET e == SetMin(unprinted) IN
     /\ unprinted' = unprinted \ {e}
     /\ printed' = printed \cup {e}
     /\ shown' = shown \cup {e}
     /\ client' = IF unprinted = {e} THEN "put" ELSE "print"
  /\ UNCHANGED <<feed, remote, cursor, walk, start, bounds>>

(* put_sync_cursor; an error is logged and ignored. *)
PutSyncCursor ==
  /\ client = "put"
  /\ remote' = cursor
  /\ client' = "idle"
  /\ UNCHANGED <<feed, cursor, walk, unprinted, printed, shown, start, bounds>>

PutFails ==
  /\ client = "put"
  /\ failures < MaxFailures
  /\ failures' = failures + 1
  /\ client' = "idle"
  /\ UNCHANGED <<feed, remote, cursor, walk, unprinted, printed, shown, start, stops>>

(* Ctrl-C or a crash, at any point. *)
Stop ==
  /\ client # "off"
  /\ stops < MaxStops
  /\ stops' = stops + 1
  /\ client' = "off"
  /\ cursor' = None
  /\ walk' = NoWalk
  /\ unprinted' = {}
  /\ UNCHANGED <<feed, remote, printed, shown, start, failures>>

Progress == Start(TRUE) \/ Tick \/ FetchPage \/ PrintEvent \/ PutSyncCursor

Next == Ingest \/ Progress \/ Start(FALSE) \/ FetchFails \/ PutFails \/ Stop

Spec == Init /\ [][Next]_vars

(* The loop goes on while the process runs, requests that do not fail are
   answered, and a client that was stopped is started again. *)
FairSpec == Spec /\ WF_vars(Progress)

(***************************************************************************)
(* Properties.                                                             *)
(***************************************************************************)
Position == {None} \cup 0 .. lastSeq

(* No position, cursor or collected event lies beyond what the server has
   handed out. *)
TypeOK ==
  /\ lastSeq \in 0 .. MaxSeq /\ log \subseteq 1 .. lastSeq
  /\ remote \in Position /\ cursor \in Position /\ start \in Position
  /\ client \in {"off", "idle", "walk", "print", "put"}
  /\ walk \in [after : Position, top : Position, pages : Nat,
               collected : SUBSET log, truncated : BOOLEAN]
  /\ unprinted \subseteq log /\ printed \subseteq log /\ shown \subseteq log
  /\ failures \in 0 .. MaxFailures /\ stops \in 0 .. MaxStops

(* The events a cursor declares seen. *)
Seen(position) == {e \in log : start < e /\ e <= position}

(* Every event the cursor, local or stored, has passed since the client's
   baseline has been shown, or is about to be printed by this run: a burst
   of any size between two ticks, events arriving between two pages, a failed
   page and a restart drop nothing (follow.py: "no drops/dups across
   pages"). *)
NoDrop ==
  /\ Seen(remote) \subseteq shown
  /\ Seen(cursor) \subseteq shown \cup unprinted

(* One run of the client prints in the order of ingest_seq and prints nothing
   twice: what is still to be printed is newer than all it has printed. *)
PrintsForward == \A e \in unprinted, d \in printed : d < e

(* Every event that arrives after the baseline is shown eventually. *)
ShowsEverything ==
  \A e \in 1 .. MaxSeq : e \in log ~> (e \in shown \/ e <= start)
=============================================================================
