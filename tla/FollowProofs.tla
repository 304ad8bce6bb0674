---------------------------- MODULE FollowProofs ----------------------------
(***************************************************************************)
(* Proofs about module Follow, for any page size, number of pages, events, *)
(* failed requests and restarts.                                           *)
(*                                                                         *)
(* A walk goes backwards while the feed grows: what it owes the properties *)
(* is that, between the cursor and its top, everything is collected or     *)
(* still older than the last page (Collecting), and that while something   *)
(* is older every page so far was full, which bounds the pages a walk of a *)
(* feed of at most MaxSeq events can need.                                 *)
(***************************************************************************)
EXTENDS Follow, FiniteSetTheorems, WellFoundedInduction, TLAPS

(* The feed between the cursor and the newest event fits in the pages a    *)
(* walk may take: without it a walk is cut short and prints events out of  *)
(* order.                                                                  *)
WalksComplete == MaxSeq <= (MaxPages - 1) * Limit

Older(after) == {e \in log : after = None \/ e < after}

-----------------------------------------------------------------------------
(* The operators of the model                                              *)

LEMMA MinExists ==
  ASSUME NEW S \in SUBSET Nat, S # {}
  PROVE  SetMin(S) \in S /\ \A y \in S : SetMin(S) <= y
<1>1. PICK k \in S : \A j \in S : ~(<<j, k>> \in OpToRel(<, Nat))
  BY NatLessThanWellFounded, WFMin
<1>2. \A j \in S : ~(j < k)
  BY <1>1 DEF OpToRel
<1>3. \E x \in S : \A y \in S : x <= y
  BY <1>2
<1> QED
  BY <1>3 DEF SetMin

LEMMA MaxExists ==
  ASSUME NEW n \in Nat, NEW S \in SUBSET (0 .. n), S # {}
  PROVE  SetMax(S) \in S /\ \A y \in S : y <= SetMax(S)
<1> DEFINE T == {n - x : x \in S}
<1>1. T \in SUBSET Nat /\ T # {}
  <2>1. \A x \in S : n - x \in Nat
    OBVIOUS
  <2> QED
    BY <2>1
<1>2. SetMin(T) \in T /\ \A y \in T : SetMin(T) <= y
  BY <1>1, MinExists
<1>3. PICK x \in S : SetMin(T) = n - x
  BY <1>2
<1>4. \A y \in S : n - y \in T
  OBVIOUS
<1>5. \A y \in S : n - x <= n - y
  BY <1>2, <1>3, <1>4
<1>6. \A y \in S : y <= x
  BY <1>5
<1> QED
  BY <1>6 DEF SetMax

LEMMA FeedFinite ==
  ASSUME lastSeq \in Nat, NEW S \in SUBSET (1 .. lastSeq)
  PROVE  IsFiniteSet(S) /\ Cardinality(S) \in Nat /\ Cardinality(S) <= lastSeq
<1>1. IsFiniteSet(1 .. lastSeq) /\ Cardinality(1 .. lastSeq) = lastSeq
  BY FS_Interval
<1>2. IsFiniteSet(S) /\ Cardinality(S) <= Cardinality(1 .. lastSeq)
  BY <1>1, FS_Subset
<1>3. Cardinality(S) \in Nat
  BY <1>2, FS_CardinalityType
<1> QED
  BY <1>1, <1>2, <1>3

(* A page has every event older than after that is newer than one of its   *)
(* own.                                                                    *)
LEMMA PageClosed ==
  ASSUME lastSeq \in Nat, log \subseteq 1 .. lastSeq, NEW after,
         NEW x \in Page(after), NEW e \in Older(after), e > x
  PROVE  e \in Page(after)
<1> DEFINE ofE == {d \in Older(after) : d > e}
           ofX == {d \in Older(after) : d > x}
<1>1. x \in Older(after) /\ Cardinality(ofX) < Limit
  BY DEF Page, Older
<1>2. ofE \subseteq ofX /\ ofX \subseteq 1 .. lastSeq
  <2>1. Older(after) \subseteq 1 .. lastSeq
    BY DEF Older
  <2>2. \A d \in Older(after) : d > e => d > x
    BY <1>1, <2>1
  <2> QED
    BY <2>1, <2>2
<1>3. IsFiniteSet(ofX) /\ Cardinality(ofX) \in Nat
  BY <1>2, FeedFinite
<1>4. Cardinality(ofE) <= Cardinality(ofX) /\ Cardinality(ofE) \in Nat
  BY <1>2, <1>3, FS_Subset, FS_CardinalityType
<1> HIDE DEF ofE, ofX
<1>5. Cardinality(ofE) < Limit
  BY <1>1, <1>3, <1>4, FollowAssumption
<1> QED
  BY <1>5 DEF ofE, Page, Older

(* A page that leaves an older event out is full.                          *)
LEMMA PageFull ==
  ASSUME lastSeq \in Nat, log \subseteq 1 .. lastSeq, NEW after,
         NEW e \in Older(after), e \notin Page(after)
  PROVE  Cardinality(Page(after)) >= Limit
<1> DEFINE left == Older(after) \ Page(after)
           m == SetMax(left)
           above == {d \in Older(after) : d > m}
<1>0. Older(after) \subseteq log
  BY DEF Older
<1>1. left \in SUBSET (0 .. lastSeq) /\ left # {}
  <2>1. 1 .. lastSeq \subseteq 0 .. lastSeq
    OBVIOUS
  <2> QED
    BY <1>0, <2>1
<1>2. m \in left /\ \A y \in left : y <= m
  <2> HIDE DEF left
  <2> QED
    BY <1>1, MaxExists
<1>3. ~(Cardinality(above) < Limit)
  BY <1>2 DEF Page, Older
<1>4. above \subseteq Page(after)
  <2> SUFFICES ASSUME NEW d \in above, d \notin Page(after) PROVE FALSE
    OBVIOUS
  <2>1. d \in left /\ d > m /\ d \in Int /\ m \in Int
    BY <1>1, <1>2
  <2> QED
    BY <1>2, <2>1
<1>5. Page(after) \subseteq 1 .. lastSeq
  BY DEF Page, Older
<1> HIDE DEF above
<1>6. Cardinality(above) \in Nat /\ Cardinality(above) <= Cardinality(Page(after)) /\ Cardinality(Page(after)) \in Nat
  BY <1>4, <1>5, FeedFinite, FS_Subset, FS_CardinalityType
<1> QED
  BY <1>3, <1>6, FollowAssumption

LEMMA PageOfFeed ==
  ASSUME lastSeq \in Nat, log \subseteq 1 .. lastSeq, NEW after
  PROVE  /\ Page(after) \subseteq log /\ Page(after) \subseteq Older(after)
         /\ Page(after) # {} =>
              /\ SetMin(Page(after)) \in Page(after) /\ \A y \in Page(after) : SetMin(Page(after)) <= y
              /\ SetMax(Page(after)) \in Page(after) /\ \A y \in Page(after) : y <= SetMax(Page(after))
<1>1. Page(after) \subseteq log /\ Page(after) \subseteq Older(after)
  BY DEF Page, Older
<1>2. 1 .. lastSeq \subseteq Nat /\ 1 .. lastSeq \subseteq 0 .. lastSeq
  OBVIOUS
<1>3. Page(after) \in SUBSET Nat /\ Page(after) \in SUBSET (0 .. lastSeq)
  BY <1>1, <1>2
<1> QED
  BY <1>1, <1>3, MinExists, MaxExists

-----------------------------------------------------------------------------
(* Types                                                                   *)

(* Where the client is says which part of its state is in use.             *)
Phases ==
  /\ client = "print" <=> unprinted # {}
  /\ client # "walk" => walk = NoWalk
  /\ client = "off" => cursor = None

Typed == TypeOK /\ Phases

(* The page a request gets, and the walk after it.                         *)
Got == Page(walk.after)
New == IF cursor = None THEN {} ELSE NewOnPage(Got)
Walked ==
  [after |-> IF Got = {} THEN walk.after ELSE SetMin(Got),
   top |-> IF walk.top = None /\ Got # {} THEN SetMax(Got) ELSE walk.top,
   pages |-> walk.pages + 1,
   collected |-> walk.collected \cup New,
   truncated |-> Got # {} /\ cursor # None /\ New = Got /\ walk.pages + 1 >= MaxPages]

LEMMA FetchCases ==
  ASSUME FetchPage
  PROVE  /\ client = "walk"
         /\ \/ /\ WalkEnds(Got, walk.pages + 1)
               /\ cursor' = NewCursor(Walked) /\ unprinted' = Walked.collected /\ walk' = NoWalk
               /\ client' = IF Walked.collected = {} THEN "idle" ELSE "print"
            \/ /\ ~WalkEnds(Got, walk.pages + 1)
               /\ walk' = Walked /\ UNCHANGED <<cursor, client, unprinted>>
         /\ UNCHANGED <<feed, remote, printed, shown, start, bounds>>
BY DEF FetchPage, Got, New, Walked

LEMMA Positions == ASSUME lastSeq \in Nat PROVE \A e \in 1 .. lastSeq : e \in Position /\ e \in Nat /\ e # None
BY DEF Position, None

LEMMA WalkedType ==
  ASSUME TypeOK
  PROVE  /\ Walked \in [after : Position, top : Position, pages : Nat, collected : SUBSET log, truncated : BOOLEAN]
         /\ NewCursor(Walked) \in Position
<1> USE DEF TypeOK
<1>1. lastSeq \in Nat /\ log \subseteq 1 .. lastSeq
  BY FollowAssumption
<1>2. Got \subseteq log /\ New \subseteq log
  BY <1>1, PageOfFeed DEF Got, New, NewOnPage
<1>3. Got # {} => SetMin(Got) \in Position /\ SetMax(Got) \in Position
  <2>1. Got # {} => SetMin(Got) \in log /\ SetMax(Got) \in log
    BY <1>1, PageOfFeed DEF Got
  <2> QED
    BY <2>1, <1>1, Positions
<1>4. Walked \in [after : Position, top : Position, pages : Nat, collected : SUBSET log, truncated : BOOLEAN]
  <2>1. (IF Got = {} THEN walk.after ELSE SetMin(Got)) \in Position
    BY <1>3
  <2>2. (IF walk.top = None /\ Got # {} THEN SetMax(Got) ELSE walk.top) \in Position
    BY <1>3
  <2>3. walk.pages \in Nat /\ walk.collected \in SUBSET log
    OBVIOUS
  <2>5. walk.pages + 1 \in Nat
    BY <2>3
  <2>6. walk.collected \cup New \in SUBSET log
    BY <2>3, <1>2
  <2>4. (Got # {} /\ cursor # None /\ New = Got /\ walk.pages + 1 >= MaxPages) \in BOOLEAN
    OBVIOUS
  <2> QED
    BY <2>1, <2>2, <2>4, <2>5, <2>6 DEF Walked
<1>5. Walked.truncated => Walked.collected # {}
  BY DEF Walked
<1>6. Walked.collected # {} => SetMin(Walked.collected) \in Position
  <2>1. 1 .. lastSeq \subseteq Nat /\ Walked.collected \subseteq log
    BY <1>4
  <2>2. Walked.collected # {} => SetMin(Walked.collected) \in log
    BY <2>1, <1>1, MinExists
  <2> QED
    BY <2>2, <1>1, Positions
<1> HIDE DEF Walked
<1> QED
  BY <1>4, <1>5, <1>6 DEF NewCursor, Larger

LEMMA TypedInit == Init => Typed
<1> SUFFICES ASSUME Init PROVE Typed
  OBVIOUS
<1> USE FollowAssumption DEF Init, Position, None
<1>1. lastSeq \in 0 .. MaxSeq /\ log \subseteq 1 .. lastSeq
  OBVIOUS
<1>2. walk \in [after : Position, top : Position, pages : Nat, collected : SUBSET log, truncated : BOOLEAN]
  BY DEF NoWalk
<1>3. remote \in Position /\ cursor \in Position /\ start \in Position
  OBVIOUS
<1> QED
  BY <1>1, <1>2, <1>3 DEF Typed, TypeOK, Phases

LEMMA TypedStep == Typed /\ [Next]_vars => Typed'
<1> SUFFICES ASSUME Typed, [Next]_vars PROVE Typed'
  OBVIOUS
<1>0. lastSeq \in Nat /\ log \subseteq 1 .. lastSeq
  BY FollowAssumption DEF Typed, TypeOK
<1> USE FollowAssumption DEF Typed, TypeOK, Phases
<1>01. NoWalk \in [after : Position, top : Position, pages : Nat, collected : SUBSET log, truncated : BOOLEAN]
  BY DEF NoWalk, Position
<1>1. CASE Ingest
  <2>1. lastSeq' \in 0 .. MaxSeq /\ log' \subseteq 1 .. lastSeq' /\ log \subseteq log'
    BY <1>0, <1>1 DEF Ingest
  <2>2. Position \subseteq Position'
    BY <1>0, <1>1 DEF Ingest, Position
  <2>3. walk' \in [after : Position, top : Position, pages : Nat, collected : SUBSET log, truncated : BOOLEAN]'
    BY <1>1, <2>1, <2>2 DEF Ingest
  <2>4. unprinted' \subseteq log' /\ printed' \subseteq log' /\ shown' \subseteq log'
    BY <1>1, <2>1 DEF Ingest
  <2> QED
    BY <1>1, <2>1, <2>2, <2>3, <2>4 DEF Ingest, bounds
<1>2. ASSUME NEW loaded \in BOOLEAN, Start(loaded) PROVE Typed'
  <2>1. UNCHANGED <<feed, remote, walk, unprinted, stops>> /\ client' = "idle" /\ printed' = {}
    BY <1>2 DEF Start
  <2>2. Position' = Position
    BY <2>1 DEF Position, feed
  <2>3. log # {} => SetMax(log) \in Position
    <3>1. 1 .. lastSeq \subseteq 0 .. lastSeq
      OBVIOUS
    <3>2. log # {} => SetMax(log) \in log
      BY <3>1, <1>0, MaxExists
    <3> QED
      BY <3>2, <1>0, Positions
  <2>4. cursor' \in Position /\ start' \in Position
    BY <1>2, <2>3, <1>0 DEF Start, Position
  <2>5. shown' \subseteq log
    BY <1>2, <1>0, PageOfFeed DEF Start
  <2>6. failures' \in 0 .. MaxFailures
    BY <1>2 DEF Start
  <2>7. unprinted = {} /\ walk = NoWalk
    BY <1>2 DEF Start
  <2> QED
    BY <1>01, <2>1, <2>2, <2>4, <2>5, <2>6, <2>7 DEF feed
<1>3. CASE Tick
  BY <1>01, <1>3 DEF Tick, feed, bounds, Position
<1>4. CASE FetchPage
  <2> USE DEF feed, bounds
  <2>1. Position' = Position
    BY <1>4, FetchCases DEF Position
  <2>2. client = "walk" /\ unprinted = {}
    BY <1>4, FetchCases
  <2>3. CASE WalkEnds(Got, walk.pages + 1) /\ cursor' = NewCursor(Walked) /\ unprinted' = Walked.collected /\ walk' = NoWalk
             /\ client' = IF Walked.collected = {} THEN "idle" ELSE "print"
    BY <1>01, <1>4, <2>1, <2>3, FetchCases, WalkedType
  <2>4. CASE walk' = Walked /\ UNCHANGED <<cursor, client, unprinted>>
    BY <1>4, <2>1, <2>2, <2>4, FetchCases, WalkedType
  <2> QED
    BY <1>4, <2>3, <2>4, FetchCases
<1>5. CASE FetchFails
  BY <1>01, <1>5 DEF FetchFails, feed, Position
<1>6. CASE PrintEvent
  <2>1. unprinted # {} /\ unprinted \in SUBSET Nat
    <3>1. 1 .. lastSeq \subseteq Nat
      OBVIOUS
    <3> QED
      BY <3>1, <1>0, <1>6 DEF PrintEvent
  <2>2. SetMin(unprinted) \in unprinted
    BY <2>1, MinExists
  <2> QED
    BY <1>6, <2>2 DEF PrintEvent, feed, bounds, Position
<1>7. CASE PutSyncCursor
  BY <1>7 DEF PutSyncCursor, feed, bounds, Position
<1>10. CASE PutFails
  BY <1>10 DEF PutFails, feed, Position
<1>8. CASE Stop
  BY <1>01, <1>8 DEF Stop, feed, Position
<1>9. CASE UNCHANGED vars
  BY <1>9 DEF vars, feed, bounds, Position
<1> QED
  BY <1>1, <1>2, <1>3, <1>4, <1>5, <1>6, <1>7, <1>8, <1>9, <1>10 DEF Next, Progress

(* Module Follow is type correct: no position, cursor or collected event   *)
(* lies beyond what the server has handed out, however long the feed.      *)
THEOREM FollowTypeCorrect == Spec => []TypeOK
<1>1. Typed => TypeOK
  BY DEF Typed
<1> QED
  BY <1>1, TypedInit, TypedStep, PTL DEF Spec
-----------------------------------------------------------------------------
(***************************************************************************)
(* The inductive invariant                                                 *)
(***************************************************************************)
(* Between the cursor and its top a walk has collected everything or will  *)
(* still ask for it, and its pages were full if anything is left.          *)
Collecting ==
  client = "walk" =>
    /\ ~walk.truncated /\ walk.pages < MaxPages
    /\ walk.top = None <=> walk.after = None
    /\ walk.top = None => walk.collected = {} /\ walk.pages = 0
    /\ walk.top # None => cursor # None /\ walk.after <= walk.top
    /\ \A e \in walk.collected : cursor < e /\ walk.after <= e /\ e <= walk.top
    /\ \A e \in log : cursor < e /\ e <= walk.top => e \in walk.collected \/ e < walk.after
    /\ Cardinality(walk.collected) >= walk.pages * Limit \/ \A e \in log : walk.after <= e

(* Nothing printed, or waiting to be, is beyond the cursor.                *)
Behind == client # "off" => \A e \in printed \cup unprinted : e <= cursor

Based == log # {} /\ (client # "off" => cursor # None)

Inv == Collecting /\ Behind /\ PrintsForward

-----------------------------------------------------------------------------
(* Walking                                                                 *)

LEMMA Walking ==
  ASSUME Typed, Collecting, client = "walk"
  PROVE  /\ lastSeq \in Nat /\ lastSeq <= MaxSeq /\ log \subseteq 1 .. lastSeq
         /\ \A e \in log : e \in Nat /\ e # None
         /\ Got \subseteq log /\ walk.collected \subseteq log /\ walk.pages \in Nat
         /\ walk.after \in Int /\ walk.top \in Int /\ cursor \in Int
         /\ \A e \in Got : walk.after # None => e < walk.after
         /\ \A e \in Got : walk.top # None => e <= walk.top
         /\ IsFiniteSet(walk.collected) /\ Cardinality(walk.collected) \in Nat
         /\ IsFiniteSet(Got) /\ Cardinality(Got) \in Nat
         /\ walk.collected \cap Got = {}
         /\ Cardinality(walk.collected \cup Got) = Cardinality(walk.collected) + Cardinality(Got)
<1>1. lastSeq \in Nat /\ lastSeq <= MaxSeq /\ log \subseteq 1 .. lastSeq /\ walk.collected \subseteq log
      /\ walk.pages \in Nat /\ walk.after \in Position /\ walk.top \in Position /\ cursor \in Position
  BY FollowAssumption DEF Typed, TypeOK
<1>2. walk.after \in Int /\ walk.top \in Int /\ cursor \in Int
  BY <1>1 DEF Position, None
<1>3. \A e \in log : e \in Nat /\ e # None
  BY <1>1, Positions
<1>4. Got \subseteq log /\ Got \subseteq Older(walk.after)
  BY <1>1, PageOfFeed DEF Got
<1>5. \A e \in Got : walk.after # None => e < walk.after
  BY <1>4 DEF Older
<1>6. \A e \in Got : walk.top # None => e <= walk.top
  BY <1>2, <1>3, <1>4, <1>5 DEF Collecting
<1>7. IsFiniteSet(walk.collected) /\ Cardinality(walk.collected) \in Nat /\ IsFiniteSet(Got) /\ Cardinality(Got) \in Nat
  BY <1>1, <1>4, FeedFinite
<1>8. walk.collected \cap Got = {}
  <2>1. CASE walk.after = None
    BY <2>1 DEF Collecting
  <2>2. ASSUME walk.after # None, NEW e \in walk.collected, e \in Got PROVE FALSE
    <3>1. walk.after <= e /\ e < walk.after /\ e \in Nat
      BY <1>1, <1>3, <1>5, <2>2 DEF Collecting
    <3> QED
      BY <3>1, <1>2
  <2> QED
    BY <2>1, <2>2
<1>9. Cardinality(walk.collected \cup Got) = Cardinality(walk.collected) + Cardinality(Got)
  <2>1. Cardinality(walk.collected \cup Got)
          = Cardinality(walk.collected) + Cardinality(Got) - Cardinality(walk.collected \cap Got)
    BY <1>7, FS_Union
  <2>2. Cardinality(walk.collected \cap Got) = 0
    BY <1>8, FS_EmptySet
  <2> QED
    BY <2>1, <2>2, <1>7
<1> QED
  BY <1>1, <1>2, <1>3, <1>4, <1>5, <1>6, <1>7, <1>8, <1>9

(* The walk goes on: its page was of new events only.                      *)
LEMMA WalkGoesOn ==
  ASSUME Typed, Collecting, client = "walk", ~WalkEnds(Got, walk.pages + 1)
  PROVE  /\ Got # {} /\ cursor # None /\ Walked.collected = walk.collected \cup Got
         /\ ~Walked.truncated /\ Walked.pages < MaxPages
         /\ Walked.top # None /\ Walked.after # None /\ Walked.after <= Walked.top
         /\ \A e \in Walked.collected : cursor < e /\ Walked.after <= e /\ e <= Walked.top
         /\ \A e \in log : cursor < e /\ e <= Walked.top => e \in Walked.collected \/ e < Walked.after
         /\ \/ Cardinality(Walked.collected) >= Walked.pages * Limit
            \/ \A e \in log : Walked.after <= e
<1>1. Got # {} /\ cursor # None /\ New = Got /\ walk.pages + 1 < MaxPages /\ \A e \in Got : cursor < e
  BY Walking, FollowAssumption DEF WalkEnds, New, NewOnPage
<1>2. /\ Walked.after = SetMin(Got) /\ Walked.pages = walk.pages + 1 /\ Walked.collected = walk.collected \cup Got
      /\ Walked.top = IF walk.top = None THEN SetMax(Got) ELSE walk.top
  BY <1>1 DEF Walked
<1>3. ~Walked.truncated
  <2>1. ~(walk.pages + 1 >= MaxPages)
    BY <1>1, Walking, FollowAssumption
  <2> QED
    BY <2>1 DEF Walked
<1>4. /\ SetMin(Got) \in Got /\ \A y \in Got : SetMin(Got) <= y
      /\ SetMax(Got) \in Got /\ \A y \in Got : y <= SetMax(Got)
  BY <1>1, Walking, PageOfFeed DEF Got
<1>5. \A e \in Got : e \in Nat /\ e <= Walked.top
  BY <1>2, <1>4, Walking
<1>6. Walked.top # None /\ Walked.after # None /\ Walked.after \in Nat /\ Walked.after <= Walked.top /\ Walked.top \in Int
  BY <1>2, <1>4, <1>5, Walking
<1>7. ASSUME NEW e \in walk.collected PROVE cursor < e /\ Walked.after <= e /\ e <= Walked.top
  <2>1. walk.top # None /\ walk.after # None /\ walk.after <= e /\ e <= walk.top /\ cursor < e
    BY <1>7 DEF Collecting
  <2>2. SetMin(Got) < walk.after /\ SetMin(Got) \in Nat
    BY <2>1, <1>4, Walking
  <2> QED
    BY <2>1, <2>2, <1>2, Walking
<1>8. ASSUME NEW e \in log, cursor < e, e <= Walked.top, e \notin Walked.collected PROVE e < Walked.after
  <2>1. e \in Older(walk.after)
    <3>1. CASE walk.top = None
      BY <3>1 DEF Collecting, Older
    <3>2. CASE walk.top # None
      BY <3>2, <1>2, <1>8 DEF Collecting, Older
    <3> QED
      BY <3>1, <3>2
  <2>2. ~(e > SetMin(Got))
    BY <2>1, <1>2, <1>4, <1>8, PageClosed, Walking DEF Got
  <2>3. e # SetMin(Got)
    BY <1>2, <1>4, <1>8
  <2>4. SetMin(Got) \in Nat /\ e \in Nat
    BY <1>4, <1>5, Walking
  <2> QED
    BY <2>2, <2>3, <2>4, <1>2
<1>9. ASSUME NEW e \in log, ~(Walked.after <= e) PROVE Cardinality(Walked.collected) >= Walked.pages * Limit
  <2>1. e < SetMin(Got) /\ e \in Nat /\ SetMin(Got) \in Nat
    BY <1>2, <1>4, <1>5, <1>9, Walking
  <2>2. e \notin Got
    BY <2>1, <1>4
  <2>3. e \in Older(walk.after)
    <3>1. walk.after # None => SetMin(Got) < walk.after
      BY <1>4, Walking
    <3> QED
      BY <2>1, <3>1, Walking DEF Older
  <2>4. Cardinality(Got) >= Limit
    BY <2>2, <2>3, PageFull, Walking DEF Got
  <2>5. Cardinality(walk.collected) >= walk.pages * Limit
    <3>1. CASE walk.top = None
      <4>1. walk.collected = {} /\ walk.pages = 0
        BY <3>1 DEF Collecting
      <4> QED
        BY <4>1, FS_EmptySet, FollowAssumption
    <3>2. CASE walk.top # None
      <4>1. walk.after # None
        BY <3>2 DEF Collecting
      <4>2. SetMin(Got) \in log /\ ~(walk.after <= SetMin(Got))
        BY <4>1, <1>4, <2>1, Walking
      <4> QED
        BY <4>2 DEF Collecting
    <3> QED
      BY <3>1, <3>2
  <2>6. (walk.pages + 1) * Limit = walk.pages * Limit + Limit /\ walk.pages * Limit \in Nat
    BY Walking, FollowAssumption
  <2>7. Cardinality(walk.collected) + Cardinality(Got) >= walk.pages * Limit + Limit
    BY <2>4, <2>5, <2>6, Walking, FollowAssumption
  <2> QED
    BY <2>6, <2>7, <1>2, Walking
<1> QED
  BY <1>1, <1>2, <1>3, <1>5, <1>6, <1>7, <1>8, <1>9, <1>4

(* What the pages of a walk hold is newer than the cursor and was handed   *)
(* out, so a feed that fits in them is never cut short.                    *)
LEMMA NeverTruncated ==
  ASSUME WalksComplete, Typed, Collecting, client = "walk"
  PROVE  ~Walked.truncated
<1> SUFFICES ASSUME Walked.truncated PROVE FALSE
  OBVIOUS
<1>1. Got # {} /\ walk.pages + 1 >= MaxPages
  BY DEF Walked
<1>2. Cardinality(walk.collected) >= walk.pages * Limit
  <2>1. CASE walk.top = None
    <3>1. walk.collected = {} /\ walk.pages = 0
      BY <2>1 DEF Collecting
    <3> QED
      BY <3>1, FS_EmptySet, FollowAssumption
  <2>2. CASE walk.top # None
    <3>1. PICK e \in Got : e < walk.after
      BY <1>1, <2>2, Walking DEF Collecting
    <3>2. e \in log /\ ~(walk.after <= e)
      BY <3>1, Walking
    <3> QED
      BY <3>2 DEF Collecting
  <2> QED
    BY <2>1, <2>2
<1>3. walk.pages * Limit >= (MaxPages - 1) * Limit
  <2>1. walk.pages >= MaxPages - 1 /\ walk.pages \in Nat /\ MaxPages - 1 \in Nat /\ Limit \in Nat
    BY <1>1, Walking, FollowAssumption
  <2>2. walk.pages = MaxPages - 1
    BY <2>1, Walking, FollowAssumption DEF Collecting
  <2> QED
    BY <2>1, <2>2
<1>4. Cardinality(Got) > 0
  BY <1>1, Walking, FS_EmptySet
<1>5. Cardinality(walk.collected \cup Got) > MaxSeq
  <2>1. (MaxPages - 1) * Limit \in Int /\ walk.pages * Limit \in Int /\ MaxSeq \in Nat
    BY Walking, FollowAssumption
  <2> QED
    BY <2>1, <1>2, <1>3, <1>4, Walking DEF WalksComplete
<1>6. Cardinality(walk.collected \cup Got) \in Nat /\ Cardinality(walk.collected \cup Got) <= lastSeq
  <2>1. walk.collected \cup Got \in SUBSET (1 .. lastSeq)
    BY Walking
  <2> QED
    BY <2>1, FeedFinite, Walking
<1> QED
  BY <1>5, <1>6, Walking, FollowAssumption

(* The walk is over: the cursor moves to its top, and whatever it passes   *)
(* has been collected.                                                     *)
LEMMA WalkIsOver ==
  ASSUME WalksComplete, Typed, Collecting, client = "walk", WalkEnds(Got, walk.pages + 1)
  PROVE  /\ NewCursor(Walked) \in Int /\ cursor <= NewCursor(Walked)
         /\ Walked.top # None => NewCursor(Walked) # None
         /\ \A e \in Walked.collected : cursor < e /\ e <= NewCursor(Walked) /\ e \in Nat
         /\ cursor # None => \A e \in log : cursor < e /\ e <= NewCursor(Walked) => e \in Walked.collected
<1>1. NewCursor(Walked) = IF Walked.top = None THEN cursor
                          ELSE IF cursor = None THEN Walked.top ELSE Larger(Walked.top, cursor)
  BY NeverTruncated DEF NewCursor
<1>2. Walked.collected = walk.collected \cup New /\ New \subseteq Got /\ \A e \in New : cursor < e
  <2>1. New \subseteq Got /\ \A e \in New : cursor < e
    BY Walking DEF New, NewOnPage
  <2> QED
    BY <2>1 DEF Walked
<1>3. Got # {} => SetMax(Got) \in Got /\ \A y \in Got : y <= SetMax(Got)
  BY Walking, PageOfFeed DEF Got
<1>4. Walked.top = IF walk.top = None /\ Got # {} THEN SetMax(Got) ELSE walk.top
  BY DEF Walked
<1>5. Walked.top \in Int /\ (Walked.top # None => Walked.top \in Nat)
  <2>1. Walked.top \in Position
    BY WalkedType DEF Typed
  <2> QED
    BY <2>1, Walking DEF Position, None
<1>6. Walked.top = None => walk.top = None /\ Got = {}
  BY <1>3, <1>4, Walking
<1>7. NewCursor(Walked) \in Int /\ cursor <= NewCursor(Walked) /\ (Walked.top # None => Walked.top <= NewCursor(Walked))
  <2>1. cursor \in Int
    BY Walking
  <2> QED
    BY <1>1, <1>5, <2>1 DEF Larger, None
<1>8. \A e \in Walked.collected : e <= Walked.top /\ Walked.top # None /\ cursor < e /\ e \in Nat
  <2>1. ASSUME NEW e \in walk.collected PROVE e <= Walked.top /\ Walked.top # None /\ cursor < e /\ e \in Nat
    BY <2>1, <1>4, Walking DEF Collecting
  <2>2. ASSUME NEW e \in New PROVE e <= Walked.top /\ Walked.top # None /\ cursor < e /\ e \in Nat
    <3>1. e \in Got /\ cursor < e /\ e \in Nat
      BY <2>2, <1>2, Walking
    <3> QED
      BY <3>1, <1>3, <1>4, <1>6, Walking
  <2> QED
    BY <2>1, <2>2, <1>2
<1>9. ASSUME cursor # None, NEW e \in log, cursor < e, e <= NewCursor(Walked) PROVE e \in Walked.collected
  <2>1. Walked.top # None /\ e <= Walked.top /\ e \in Nat
    BY <1>1, <1>5, <1>9, Walking DEF Larger
  <2> SUFFICES ASSUME e \notin walk.collected, e \notin New PROVE FALSE
    BY <1>2
  <2>2. e \in Older(walk.after)
    <3>1. CASE walk.top = None
      BY <3>1 DEF Collecting, Older
    <3>2. CASE walk.top # None
      BY <3>2, <1>4, <1>9, <2>1 DEF Collecting, Older
    <3> QED
      BY <3>1, <3>2
  <2>3. e \notin Got
    BY <1>9 DEF New, NewOnPage
  <2>4. CASE Got = {}
    <3>1. walk.top # None /\ walk.after # None
      BY <2>1, <2>4, <1>4 DEF Collecting
    <3>2. Cardinality(Got) >= Limit
      BY <2>2, <2>3, PageFull, Walking DEF Got
    <3> QED
      BY <3>2, <2>4, FS_EmptySet, FollowAssumption
  <2>5. CASE Got # {} /\ New # Got
    <3>1. PICK x \in Got : ~(x > cursor)
      BY <2>5, <1>9 DEF New, NewOnPage
    <3>2. e > x
      <4>1. x \in Nat /\ cursor \in Int
        BY <3>1, Walking
      <4> QED
        BY <3>1, <4>1, <1>9, <2>1
    <3> QED
      BY <3>2, <2>2, <2>3, PageClosed, Walking DEF Got
  <2>6. CASE Got # {} /\ New = Got
    <3>1. walk.pages + 1 >= MaxPages
      BY <1>9, <2>6 DEF WalkEnds, New
    <3>2. Walked.truncated
      BY <1>9, <2>6, <3>1 DEF Walked
    <3> QED
      BY <3>2, NeverTruncated
  <2> QED
    BY <2>4, <2>5, <2>6
<1>10. Walked.top # None => NewCursor(Walked) # None
  BY <1>5, <1>7 DEF None
<1>11. \A e \in Walked.collected : e <= NewCursor(Walked)
  BY <1>5, <1>7, <1>8
<1> QED
  BY <1>7, <1>8, <1>9, <1>10, <1>11

-----------------------------------------------------------------------------
(* What every step keeps.  Only the server and the client's next page add  *)
(* to what a walk has to know.                                             *)

LEMMA CollectingStep == Typed /\ Collecting /\ [Next]_vars => Collecting'
<1> SUFFICES ASSUME Typed, Collecting, [Next]_vars, client' = "walk"
             PROVE  /\ ~walk'.truncated /\ walk'.pages < MaxPages
                    /\ walk'.top = None <=> walk'.after = None
                    /\ walk'.top = None => walk'.collected = {} /\ walk'.pages = 0
                    /\ walk'.top # None => cursor' # None /\ walk'.after <= walk'.top
                    /\ \A e \in walk'.collected : cursor' < e /\ walk'.after <= e /\ e <= walk'.top
                    /\ \A e \in log' : cursor' < e /\ e <= walk'.top => e \in walk'.collected \/ e < walk'.after
                    /\ Cardinality(walk'.collected) >= walk'.pages * Limit \/ \A e \in log' : walk'.after <= e
  BY DEF Collecting
<1>1. CASE Ingest
  <2>1. /\ client = "walk" /\ walk' = walk /\ cursor' = cursor /\ lastSeq' = lastSeq + 1
        /\ log \subseteq log' /\ log' \subseteq log \cup {lastSeq + 1}
    BY <1>1 DEF Ingest
  <2>2. walk.after <= lastSeq /\ walk.top <= lastSeq /\ walk.after \in Int /\ walk.top \in Int /\ lastSeq \in Nat
    BY <2>1, FollowAssumption DEF Typed, TypeOK, Position, None
  <2>3. ~(lastSeq + 1 <= walk.top) /\ walk.after <= lastSeq + 1
    BY <2>2
  <2> QED
    BY <2>1, <2>3 DEF Collecting
<1>2. ASSUME NEW loaded \in BOOLEAN, Start(loaded) PROVE FALSE
  BY <1>2 DEF Start
<1>3. CASE Tick
  <2>1. walk' = NoWalk /\ log' = log /\ cursor' = cursor
    BY <1>3 DEF Tick, feed
  <2>2. Cardinality({}) = 0 /\ 0 * Limit = 0 /\ MaxPages > 0
    BY FS_EmptySet, FollowAssumption
  <2>3. \A e \in log : ~(e <= None)
    <3>1. \A e \in 1 .. lastSeq : ~(e <= None)
      BY FollowAssumption DEF Typed, TypeOK, None
    <3> QED
      BY <3>1 DEF Typed, TypeOK
  <2> QED
    BY <2>1, <2>2, <2>3 DEF NoWalk
<1>4. CASE FetchPage
  <2>1. client = "walk" /\ ~WalkEnds(Got, walk.pages + 1) /\ walk' = Walked /\ cursor' = cursor /\ log' = log
    BY <1>4, FetchCases DEF feed
  <2> QED
    BY <2>1, WalkGoesOn
<1>5. CASE FetchFails \/ PrintEvent \/ PutSyncCursor \/ PutFails \/ Stop
  BY <1>5 DEF FetchFails, PrintEvent, PutSyncCursor, PutFails, Stop
<1>6. CASE UNCHANGED vars
  BY <1>6 DEF vars, feed, Collecting
<1> QED
  BY <1>1, <1>2, <1>3, <1>4, <1>5, <1>6 DEF Next, Progress

(* The events a client prints are behind its cursor, and each walk prints  *)
(* what is beyond it.                                                      *)
LEMMA PrintingStep ==
  ASSUME WalksComplete, Typed, Collecting, Behind, PrintsForward, [Next]_vars
  PROVE  Behind' /\ PrintsForward'
<1>0. unprinted \in SUBSET Nat /\ printed \in SUBSET Nat
  <2>1. lastSeq \in Nat /\ 1 .. lastSeq \subseteq Nat
    BY FollowAssumption DEF Typed, TypeOK
  <2> QED
    BY <2>1 DEF Typed, TypeOK
<1>1. CASE Ingest
  BY <1>1 DEF Ingest, Behind, PrintsForward
<1>2. ASSUME NEW loaded \in BOOLEAN, Start(loaded) PROVE Behind' /\ PrintsForward'
  <2>1. printed' = {} /\ unprinted' = {}
    BY <1>2 DEF Start, Typed, Phases
  <2> QED
    BY <2>1 DEF Behind, PrintsForward
<1>3. CASE Tick
  BY <1>3 DEF Tick, Behind, PrintsForward
<1>4. CASE FetchPage
  <2>1. client = "walk" /\ unprinted = {} /\ printed' = printed
    BY <1>4, FetchCases DEF Typed, Phases
  <2>2. \A d \in printed : d <= cursor /\ d \in Nat
    BY <2>1, <1>0 DEF Behind
  <2>3. CASE WalkEnds(Got, walk.pages + 1) /\ cursor' = NewCursor(Walked) /\ unprinted' = Walked.collected
    <3>1. cursor \in Int /\ cursor' \in Int /\ cursor <= cursor' /\ \A e \in unprinted' : cursor < e /\ e <= cursor' /\ e \in Nat
      BY <2>1, <2>3, WalkIsOver, Walking
    <3>2. \A d \in printed' : d <= cursor'
      BY <2>1, <2>2, <3>1
    <3>3. \A e \in unprinted', d \in printed' : d < e
      BY <2>1, <2>2, <3>1
    <3> QED
      BY <3>1, <3>2, <3>3 DEF Behind, PrintsForward
  <2>4. CASE UNCHANGED <<cursor, client, unprinted>>
    BY <2>1, <2>4 DEF Behind, PrintsForward
  <2> QED
    BY <1>4, <2>3, <2>4, FetchCases
<1>5. CASE FetchFails
  BY <1>5 DEF FetchFails, Behind, PrintsForward
<1>6. CASE PrintEvent
  <2> DEFINE e == SetMin(unprinted)
  <2>1. unprinted # {} /\ unprinted' = unprinted \ {e} /\ printed' = printed \cup {e} /\ cursor' = cursor /\ client = "print"
    BY <1>6 DEF PrintEvent, Typed, Phases
  <2>2. e \in unprinted /\ \A y \in unprinted : e <= y
    BY <2>1, <1>0, MinExists
  <2>3. PrintsForward'
    <3> SUFFICES ASSUME NEW x \in unprinted', NEW d \in printed' PROVE d < x
      BY DEF PrintsForward
    <3>1. x \in unprinted /\ x # e /\ x \in Nat /\ e \in Nat /\ e <= x
      BY <2>1, <2>2, <1>0
    <3> QED
      BY <2>1, <3>1 DEF PrintsForward
  <2>4. Behind'
    BY <2>1, <2>2 DEF Behind
  <2> QED
    BY <2>3, <2>4
<1>7. CASE PutSyncCursor \/ PutFails
  BY <1>7 DEF PutSyncCursor, PutFails, Behind, PrintsForward
<1>8. CASE Stop
  BY <1>8 DEF Stop, Behind, PrintsForward
<1>9. CASE UNCHANGED vars
  BY <1>9 DEF vars, Behind, PrintsForward
<1> QED
  BY <1>1, <1>2, <1>3, <1>4, <1>5, <1>6, <1>7, <1>8, <1>9 DEF Next, Progress

(* A client that has a baseline shows what its cursors pass.               *)
LEMMA ShowingStep ==
  ASSUME WalksComplete, Typed, Collecting, Based, NoDrop, [Next]_vars
  PROVE  Based' /\ NoDrop'
<1>0. /\ lastSeq \in Nat /\ log \subseteq 1 .. lastSeq
      /\ remote \in Int /\ remote <= lastSeq /\ cursor \in Int /\ cursor <= lastSeq /\ start \in Int
  BY FollowAssumption DEF Typed, TypeOK, Position, None
<1>1. CASE Ingest
  <2>1. /\ log \subseteq log' /\ log' \subseteq log \cup {lastSeq + 1}
        /\ UNCHANGED <<remote, cursor, client, unprinted, shown, start>>
    BY <1>1 DEF Ingest
  <2>2. ~(lastSeq + 1 <= remote) /\ ~(lastSeq + 1 <= cursor)
    BY <1>0
  <2>3. Seen(remote)' \subseteq Seen(remote) /\ Seen(cursor)' \subseteq Seen(cursor)
    BY <2>1, <2>2 DEF Seen
  <2> QED
    BY <2>1, <2>3 DEF Based, NoDrop
<1>2. ASSUME NEW loaded \in BOOLEAN, Start(loaded) PROVE Based' /\ NoDrop'
  <2>1. log' = log /\ remote' = remote /\ shown \subseteq shown' /\ unprinted' = unprinted
    BY <1>2 DEF Start, feed
  <2>2. CASE loaded /\ remote # None
    <3>1. cursor' = remote /\ start' = start
      BY <1>2, <2>2 DEF Start
    <3> QED
      BY <2>1, <2>2, <3>1 DEF Based, NoDrop, Seen
  <2>3. CASE ~(loaded /\ remote # None)
    <3>1. cursor' = SetMax(log) /\ start' = lastSeq
      BY <1>2, <2>3 DEF Start, Based
    <3>2. SetMax(log) \in log
      <4>1. 1 .. lastSeq \subseteq 0 .. lastSeq
        OBVIOUS
      <4> QED
        BY <4>1, <1>0, MaxExists DEF Based
    <3>3. cursor' # None
      BY <3>1, <3>2, <1>0 DEF None
    <3>4. Seen(remote)' = {} /\ Seen(cursor)' = {}
      <4>1. \A e \in log : ~(lastSeq < e)
        BY <1>0
      <4> QED
        BY <2>1, <3>1, <4>1 DEF Seen
    <3> QED
      BY <2>1, <3>3, <3>4 DEF Based, NoDrop
  <2> QED
    BY <2>2, <2>3
<1>3. CASE Tick
  BY <1>3 DEF Tick, feed, Based, NoDrop, Seen
<1>4. CASE FetchPage
  <2>1. client = "walk" /\ unprinted = {} /\ cursor # None
        /\ log' = log /\ remote' = remote /\ shown' = shown /\ start' = start
    BY <1>4, FetchCases DEF Typed, Phases, Based, feed
  <2>2. CASE WalkEnds(Got, walk.pages + 1) /\ cursor' = NewCursor(Walked) /\ unprinted' = Walked.collected
    <3>1. /\ cursor' \in Int
          /\ \A e \in log : cursor < e /\ e <= cursor' => e \in unprinted'
      BY <2>1, <2>2, WalkIsOver
    <3>2. cursor' # None
      <4>1. cursor >= 0 /\ cursor <= cursor'
        BY <2>1, <2>2, <1>0, WalkIsOver DEF Typed, TypeOK, Position, None
      <4> QED
        BY <4>1, <3>1, <1>0 DEF None
    <3>3. Seen(cursor)' \subseteq Seen(cursor) \cup unprinted'
      <4> SUFFICES ASSUME NEW e \in log, start < e, e <= cursor', ~(e <= cursor) PROVE e \in unprinted'
        BY <2>1 DEF Seen
      <4>1. e \in Int /\ cursor < e
        BY <1>0
      <4> QED
        BY <3>1, <4>1
    <3> QED
      BY <2>1, <3>2, <3>3 DEF Based, NoDrop, Seen
  <2>3. CASE UNCHANGED <<cursor, client, unprinted>>
    BY <2>1, <2>3 DEF Based, NoDrop, Seen
  <2> QED
    BY <1>4, <2>2, <2>3, FetchCases
<1>5. CASE FetchFails
  BY <1>5 DEF FetchFails, feed, Based, NoDrop, Seen
<1>6. CASE PrintEvent
  BY <1>6 DEF PrintEvent, feed, Based, NoDrop, Seen
<1>7. CASE PutSyncCursor
  <2>1. unprinted = {}
    BY <1>7 DEF PutSyncCursor, Typed, Phases
  <2> QED
    BY <1>7, <2>1 DEF PutSyncCursor, feed, Based, NoDrop, Seen
<1>8. CASE PutFails
  BY <1>8 DEF PutFails, feed, Based, NoDrop, Seen
<1>9. CASE Stop
  <2>1. cursor' = None /\ client' = "off" /\ log' = log /\ remote' = remote /\ shown' = shown /\ start' = start
    BY <1>9 DEF Stop, feed
  <2>2. Seen(cursor)' = {}
    <3>1. \A e \in log : ~(e <= -1)
      BY <1>0
    <3> QED
      BY <2>1, <3>1 DEF Seen, None
  <2> QED
    BY <2>1, <2>2 DEF Based, NoDrop, Seen
<1>10. CASE UNCHANGED vars
  BY <1>10 DEF vars, feed, Based, NoDrop, Seen
<1> QED
  BY <1>1, <1>2, <1>3, <1>4, <1>5, <1>6, <1>7, <1>8, <1>9, <1>10 DEF Next, Progress

-----------------------------------------------------------------------------
(* While no walk is cut short, one run of the client prints in the order   *)
(* of ingest_seq and prints nothing twice.                                 *)
THEOREM FollowPrintsForward == ASSUME WalksComplete PROVE Spec => []PrintsForward
<1>1. Init => Typed /\ Inv
  BY TypedInit DEF Init, Inv, Collecting, Behind, PrintsForward
<1>2. Typed /\ Inv /\ [Next]_vars => (Typed /\ Inv)'
  BY TypedStep, CollectingStep, PrintingStep DEF Inv
<1>3. Inv => PrintsForward
  BY DEF Inv
<1> QED
  BY <1>1, <1>2, <1>3, PTL DEF Spec

(* While no walk is cut short, and if the feed had an event when the       *)
(* client first started, every event that the cursor, local or stored,     *)
(* has passed has been shown or is about to be printed, whatever arrived   *)
(* between two pages, failed or was stopped.                               *)
THEOREM FollowDropsNothing == ASSUME WalksComplete, InitialEvents >= 1 PROVE Spec => []NoDrop
<1>1. Init => Typed /\ Collecting /\ Based /\ NoDrop
  <2> SUFFICES ASSUME Init PROVE Collecting /\ Based /\ NoDrop
    BY TypedInit
  <2>1. 1 \in log
    BY FollowAssumption DEF Init
  <2>2. \A e \in log : e <= start /\ e \in Nat /\ start \in Nat
    BY FollowAssumption DEF Init
  <2>3. Seen(remote) = {} /\ Seen(cursor) = {}
    BY <2>2 DEF Seen
  <2> QED
    BY <2>1, <2>3 DEF Init, Collecting, Based, NoDrop
<1>2. Typed /\ Collecting /\ Based /\ NoDrop /\ [Next]_vars => (Typed /\ Collecting /\ Based /\ NoDrop)'
  BY TypedStep, CollectingStep, ShowingStep
<1> QED
  BY <1>1, <1>2, PTL DEF Spec
=============================================================================
