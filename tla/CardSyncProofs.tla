--------------------------- MODULE CardSyncProofs ---------------------------
(***************************************************************************)
(* Proofs about module CardSync, for any number of cards, versions,        *)
(* writers, ingests and failed polls: first for any number of pollers,     *)
(* then, with a finite page and one poller, what the stored cursor covers. *)
(***************************************************************************)
EXTENDS CardSync, FiniteSetTheorems, SequenceTheorems, WellFoundedInduction, TLAPS

Genuine(t) == WasWritten(t.card, t.version, t.status)
GenuineRow(r) == WasWritten(r.card, r.version, sync_status_to_local(r.status))

(* The source: a row read back is the one the operation wrote, or a later  *)
(* one.                                                                    *)
SourceOK ==
  /\ sourceRow \in [Cards -> Seq(VALID_STATUSES)]
  /\ \A c \in Cards : Len(sourceRow[c]) <= MaxVersion
  /\ IsFiniteSet(Written)

WriterOK ==
  /\ writer \in [Writers -> WriterType]
  /\ \A w \in Writers :
       /\ writer[w].at = "read" => writer[w].op \in DOMAIN sourceRow[writer[w].card]
       /\ writer[w].at = "emit" => Genuine(writer[w].task)

EventsOK ==
  \A S \in {emitted, inserting, materialized, skipped} :
    S \subseteq Event /\ \A ev \in S : Genuine(ev.task)

CentralOK ==
  /\ central \in [Cards -> CentralType \cup {NoTask}] /\ changeSeq \in Nat
  /\ \A c \in Cards : central[c] # NoTask => GenuineRow(Row(c)) /\ central[c].seq <= changeSeq

(* The target: a page is never empty, and comes from the server.           *)
PollerOK ==
  /\ poller \in [Pollers -> PollerType]
  /\ \A q \in Pollers :
       /\ poller[q].at \in {"apply", "insert"} =>
            /\ poller[q].page # {} /\ poller[q].left \subseteq poller[q].page
            /\ \A r \in poller[q].page : GenuineRow(r) /\ r.seq <= changeSeq
       /\ poller[q].at = "insert" => poller[q].left # {}
       /\ poller[q].at = "more" => poller[q].since <= changeSeq

TargetOK ==
  /\ targetRows \in [Cards -> Seq(CardType)]
  /\ \A c \in Cards : \A i \in DOMAIN targetRows[c] :
       WasWritten(c, targetRows[c][i].version, targetRows[c][i].status)
  /\ inboxCursor \in Nat /\ inboxCursor <= changeSeq

CountersOK == lost \in 0 .. MaxLost /\ failures \in 0 .. MaxFailures

Typed == SourceOK /\ WriterOK /\ EventsOK /\ CentralOK /\ PollerOK /\ TargetOK /\ CountersOK

-----------------------------------------------------------------------------
(* The operators of the model                                              *)

LEMMA StatusMaps ==
  /\ \A s \in VALID_STATUSES :
       local_status_to_sync(s) \in TaskSyncStatus /\ sync_status_to_local(local_status_to_sync(s)) = s
  /\ \A s \in TaskSyncStatus : sync_status_to_local(s) \in VALID_STATUSES
BY DEF VALID_STATUSES, TaskSyncStatus, local_status_to_sync, sync_status_to_local

LEMMA WrittenPairs == \A c, v : <<c, v>> \in Written <=> c \in Cards /\ v \in DOMAIN sourceRow[c]
BY DEF Written

(* A card has no more versions than all cards together.                    *)
LEMMA VersionsCounted ==
  ASSUME SourceOK, NEW c \in Cards
  PROVE  Cardinality(Written) \in Nat /\ Len(sourceRow[c]) <= Cardinality(Written)
<1> DEFINE mine == {c} \X (1 .. Len(sourceRow[c]))
<1>1. sourceRow[c] \in Seq(VALID_STATUSES) /\ Len(sourceRow[c]) \in Nat /\ DOMAIN sourceRow[c] = 1 .. Len(sourceRow[c])
  BY DEF SourceOK
<1>2. mine \subseteq Written
  BY <1>1 DEF Written
<1>3. IsFiniteSet({c}) /\ Cardinality({c}) = 1
  BY FS_Singleton
<1>4. IsFiniteSet(1 .. Len(sourceRow[c])) /\ Cardinality(1 .. Len(sourceRow[c])) = Len(sourceRow[c])
  BY <1>1, FS_Interval
<1>5. Cardinality(mine) = Len(sourceRow[c])
  <2>1. Cardinality(mine) = 1 * Len(sourceRow[c])
    <3> DEFINE numbers == 1 .. Len(sourceRow[c])
    <3> HIDE DEF numbers
    <3>1. IsFiniteSet({c}) /\ IsFiniteSet(numbers) /\ Cardinality({c}) = 1 /\ Cardinality(numbers) = Len(sourceRow[c])
      BY <1>3, <1>4 DEF numbers
    <3>2. Cardinality({c} \X numbers) = Cardinality({c}) * Cardinality(numbers)
      BY <3>1, FS_Product
    <3> QED
      BY <3>1, <3>2 DEF numbers
  <2> QED
    BY <2>1, <1>1
<1>6. Cardinality(mine) <= Cardinality(Written) /\ Cardinality(Written) \in Nat
  BY <1>2, FS_Subset, FS_CardinalityType DEF SourceOK
<1> QED
  BY <1>5, <1>6

LEMMA LeastNat ==
  ASSUME NEW S \in SUBSET Nat, S # {}
  PROVE  \E k \in S : \A j \in S : k <= j
<1>1. PICK k \in S : \A j \in S : ~(<<j, k>> \in OpToRel(<, Nat))
  BY NatLessThanWellFounded, WFMin
<1>2. \A j \in S : ~(j < k)
  BY <1>1 DEF OpToRel
<1> QED
  BY <1>2

LEMMA FirstRow ==
  ASSUME NEW rows, rows # {}, \A r \in rows : r.seq \in Nat
  PROVE  FirstOf(rows) \in rows /\ \A x \in rows : FirstOf(rows).seq <= x.seq
<1> DEFINE S == {r.seq : r \in rows}
<1>1. S \subseteq Nat /\ S # {}
  OBVIOUS
<1>2. PICK k \in S : \A j \in S : k <= j
  <2> HIDE DEF S
  <2> QED
    BY <1>1, LeastNat
<1>3. \E r \in rows : \A x \in rows : r.seq <= x.seq
  BY <1>2
<1> QED
  BY <1>3 DEF FirstOf

LEMMA LastRow ==
  ASSUME NEW rows, rows # {}, NEW n \in Nat, \A r \in rows : r.seq \in Nat /\ r.seq <= n
  PROVE  \E m \in rows : NextSince(rows) = m.seq /\ \A x \in rows : x.seq <= m.seq
<1> DEFINE S == {n - r.seq : r \in rows}
<1>1. S \subseteq Nat /\ S # {}
  <2>1. \A r \in rows : n - r.seq \in Nat
    OBVIOUS
  <2> QED
    BY <2>1
<1>2. PICK k \in S : \A j \in S : k <= j
  <2> HIDE DEF S
  <2> QED
    BY <1>1, LeastNat
<1>4. PICK m \in rows : k = n - m.seq
  BY <1>2
<1>5. \A x \in rows : n - x.seq \in S
  OBVIOUS
<1>6. \A x \in rows : n - m.seq <= n - x.seq
  BY <1>2, <1>4, <1>5
<1>7. \A x \in rows : x.seq <= m.seq
  BY <1>4, <1>6
<1> QED
  BY <1>7 DEF NextSince

LEMMA CentralRows ==
  ASSUME CentralOK
  PROVE  /\ \A c \in Cards : central[c] # NoTask => central[c] \in CentralType /\ Row(c) \in RowType
         /\ \A since : \A r \in Page(since) : \E c \in ChangedSince(since) : r = Row(c)
         /\ \A since \in Nat : ChangedSince(since) # {} => Page(since) # {}
<1>1. \A c \in Cards : central[c] # NoTask => central[c] \in CentralType /\ Row(c) \in RowType
  BY DEF CentralOK, CentralType, RowType, Row
<1>2. \A since : \A r \in Page(since) : \E c \in ChangedSince(since) : r = Row(c)
  BY DEF Page
<1>3. ASSUME NEW since \in Nat, ChangedSince(since) # {} PROVE Page(since) # {}
  <2> DEFINE rows == {Row(c) : c \in ChangedSince(since)}
             r == FirstOf(rows)
  <2>0. \A c \in ChangedSince(since) : Row(c).seq = central[c].seq /\ central[c].seq \in Nat
    BY <1>1 DEF ChangedSince, CentralType, Row
  <2>1. rows # {} /\ \A x \in rows : x.seq \in Nat
    BY <1>3, <2>0
  <2>2. r \in rows /\ \A x \in rows : r.seq <= x.seq
    <3> HIDE DEF rows
    <3> QED
      BY <2>1, FirstRow
  <2>3. PICK c \in ChangedSince(since) : r = Row(c)
    BY <2>2
  <2>4. \A d \in ChangedSince(since) : central[c].seq <= central[d].seq
    <3>1. \A d \in ChangedSince(since) : Row(d) \in rows /\ Row(d).seq = central[d].seq
      BY <2>0
    <3> QED
      BY <2>2, <2>3, <3>1
  <2>6. {d \in ChangedSince(since) : central[d].seq < central[c].seq} = {}
    BY <2>0, <2>4
  <2>7. Cardinality({d \in ChangedSince(since) : central[d].seq < central[c].seq}) < Limit
    BY <2>6, FS_EmptySet, CardSyncAssumption
  <2> QED
    BY <2>7 DEF Page
<1> QED
  BY <1>1, <1>2, <1>3

(* A poller's record, by its stage.                                        *)
LEMMA PollerShape ==
  ASSUME PollerOK, NEW q \in Pollers
  PROVE  /\ poller[q].at = "idle" => poller[q] = NoPoll
         /\ poller[q].at = "more" => poller[q] \in [at : {"more"}, since : Nat]
         /\ poller[q].at \in {"apply", "insert"} =>
              poller[q] \in [at : {"apply", "insert"}, page : SUBSET RowType, left : SUBSET RowType]
<1>1. poller[q] \in PollerType
  BY DEF PollerOK
<1> QED
  BY <1>1 DEF PollerType, NoPoll

LEMMA WriterShape ==
  ASSUME WriterOK, NEW w \in Writers
  PROVE  /\ writer[w].at = "read" =>
              writer[w] \in [at : {"read"}, op : 1 .. MaxVersion, card : Cards, kinds : KindsType]
         /\ writer[w].at = "emit" =>
              writer[w] \in [at : {"emit"}, op : 1 .. MaxVersion, kinds : KindsType, task : Task]
<1>1. writer[w] \in WriterType
  BY DEF WriterOK
<1> QED
  BY <1>1 DEF WriterType, NoWriter

(* Who changes what.                                                       *)
LEMMA Frames ==
  /\ \A w \in Writers : Write(w) \/ LoseEvents(w) => UNCHANGED <<server, target>>
  /\ Materialize \/ (\E ev \in emitted \cup inserting : SkipMaterialize(ev)) => UNCHANGED <<source, target>>
  /\ \A q \in Pollers : Poll(q) \/ PollFails(q) => UNCHANGED <<source, emitted, lost, server>>
<1>1. \A w \in Writers : Write(w) \/ LoseEvents(w) => UNCHANGED <<server, target>>
  BY DEF Write, CreateCard, UpdateCard, CompleteCard, ReadBack, EmitTaskEvent, LoseEvents
<1>2. Materialize \/ (\E ev \in emitted \cup inserting : SkipMaterialize(ev)) => UNCHANGED <<source, target>>
  BY DEF Materialize, MaterializeUpdate, MaterializeMiss, MaterializeInsert, SkipMaterialize
<1>3. ASSUME NEW q \in Pollers, Poll(q) \/ PollFails(q) PROVE UNCHANGED <<source, emitted, lost, server>>
  BY <1>3 DEF Poll, StartPoll, NextPage, ApplyUpdate, ApplyMiss, ApplyInsert, WriteInboxCursor, SaveCursor, PollFails
<1> QED
  BY <1>1, <1>2, <1>3

-----------------------------------------------------------------------------
(* The source                                                              *)

(* No committed version is ever taken back.                                *)
Grows ==
  \A c \in Cards : \A v \in DOMAIN sourceRow[c] :
    v \in DOMAIN sourceRow'[c] /\ sourceRow'[c][v] = sourceRow[c][v]

(* t will have been written: Genuine in the next state, of a t of this one. *)
GenuineNext(t) == t.version \in DOMAIN sourceRow'[t.card] /\ t.status = sourceRow'[t.card][t.version]

LEMMA GenuineStays ==
  ASSUME Grows, NEW t \in Task, Genuine(t)
  PROVE  GenuineNext(t)
BY DEF Grows, Task, Genuine, WasWritten, GenuineNext

LEMMA NewVersion ==
  ASSUME SourceOK, NEW c \in Cards, NEW s \in VALID_STATUSES, Cardinality(Written) < MaxVersion,
         sourceRow' = [sourceRow EXCEPT ![c] = Append(@, s)]
  PROVE  /\ SourceOK' /\ Grows
         /\ Len(sourceRow'[c]) = Len(sourceRow[c]) + 1
         /\ Len(sourceRow[c]) + 1 \in DOMAIN sourceRow'[c] /\ sourceRow'[c][Len(sourceRow[c]) + 1] = s
         /\ Len(sourceRow[c]) + 1 \in 1 .. MaxVersion
<1> DEFINE n == Len(sourceRow[c])
<1>1. sourceRow[c] \in Seq(VALID_STATUSES) /\ n \in Nat /\ DOMAIN sourceRow[c] = 1 .. n
  BY DEF SourceOK
<1>2. /\ sourceRow'[c] = Append(sourceRow[c], s) /\ sourceRow'[c] \in Seq(VALID_STATUSES)
      /\ Len(sourceRow'[c]) = n + 1 /\ DOMAIN sourceRow'[c] = 1 .. n + 1 /\ sourceRow'[c][n + 1] = s
      /\ \A v \in 1 .. n : sourceRow'[c][v] = sourceRow[c][v]
  BY <1>1 DEF SourceOK
<1>3. \A d \in Cards : d # c => sourceRow'[d] = sourceRow[d]
  BY DEF SourceOK
<1>4. n + 1 <= MaxVersion
  BY <1>1, VersionsCounted, CardSyncAssumption
<1>5. sourceRow' \in [Cards -> Seq(VALID_STATUSES)]
  BY <1>2 DEF SourceOK
<1>6. \A d \in Cards : Len(sourceRow'[d]) <= MaxVersion
  BY <1>2, <1>3, <1>4 DEF SourceOK
<1>7. IsFiniteSet(Written)'
  <2>1. \A d \in Cards : DOMAIN sourceRow'[d] = IF d = c THEN 1 .. n + 1 ELSE DOMAIN sourceRow[d]
    BY <1>2, <1>3
  <2>2. Written' \subseteq Written \cup {<<c, n + 1>>}
    <3> SUFFICES ASSUME NEW d \in Cards, NEW v \in DOMAIN sourceRow'[d] PROVE <<d, v>> \in Written \cup {<<c, n + 1>>}
      BY DEF Written
    <3>1. CASE d # c
      BY <3>1, <2>1, WrittenPairs
    <3>2. CASE d = c
      <4>1. v \in 1 .. n \/ v = n + 1
        BY <3>2, <2>1, <1>1
      <4> QED
        BY <3>2, <4>1, <1>1, WrittenPairs
    <3> QED
      BY <3>1, <3>2
  <2>3. IsFiniteSet(Written \cup {<<c, n + 1>>})
    BY FS_AddElement DEF SourceOK
  <2> QED
    BY <2>2, <2>3, FS_Subset
<1>8. Grows
  BY <1>1, <1>2, <1>3 DEF Grows
<1> QED
  BY <1>1, <1>2, <1>4, <1>5, <1>6, <1>7, <1>8 DEF SourceOK

LEMMA RowReadBack ==
  ASSUME SourceOK, NEW c \in Cards, sourceRow[c] # <<>>
  PROVE  RowOf(c) \in Task /\ Genuine(RowOf(c))
<1>1. sourceRow[c] \in Seq(VALID_STATUSES) /\ Len(sourceRow[c]) \in Nat /\ DOMAIN sourceRow[c] = 1 .. Len(sourceRow[c])
      /\ Len(sourceRow[c]) <= MaxVersion
  BY DEF SourceOK
<1>2. Len(sourceRow[c]) >= 1
  BY <1>1
<1>3. sourceRow[c][Len(sourceRow[c])] \in VALID_STATUSES
  BY <1>1, <1>2
<1> QED
  BY <1>1, <1>2, <1>3, CardSyncAssumption DEF RowOf, Task, Genuine, WasWritten

(* What a writer still has to emit.                                        *)
LEMMA EmitShape ==
  ASSUME NEW x \in [at : {"emit"}, op : 1 .. MaxVersion, kinds : KindsType, task : Task]
  PROVE  /\ [task |-> x.task, kind |-> Head(x.kinds), op |-> x.op] \in Event
         /\ \/ AfterEmit(x) = NoWriter
            \/ /\ AfterEmit(x) \in [at : {"emit"}, op : 1 .. MaxVersion, kinds : KindsType, task : Task]
               /\ AfterEmit(x).task = x.task
<1>1. x.kinds \in KindsType
  OBVIOUS
<1>2. Head(x.kinds) \in {"created", "updated", "completed"}
  BY <1>1 DEF KindsType
<1>3. Len(x.kinds) # 1 => Tail(x.kinds) \in KindsType
  <2>1. Len(<<"created">>) = 1 /\ Len(<<"updated">>) = 1 /\ Len(<<"completed">>) = 1
    OBVIOUS
  <2>2. Tail(<<"updated", "completed">>) = <<"completed">>
    OBVIOUS
  <2> QED
    BY <1>1, <2>1, <2>2 DEF KindsType
<1> QED
  BY <1>2, <1>3 DEF AfterEmit, Event

LEMMA SourceInit == Init => SourceOK /\ WriterOK /\ EventsOK
<1> SUFFICES ASSUME Init PROVE SourceOK /\ WriterOK /\ EventsOK
  OBVIOUS
<1>1. sourceRow \in [Cards -> Seq(VALID_STATUSES)] /\ \A c \in Cards : Len(sourceRow[c]) = 0
  BY DEF Init
<1>2. Written = {}
  BY DEF Init, Written
<1>3. SourceOK
  BY <1>1, <1>2, FS_EmptySet, CardSyncAssumption DEF SourceOK
<1> QED
  BY <1>3 DEF Init, WriterOK, EventsOK, WriterType, NoWriter

(* A writer's step: the source goes on, and what the writer will emit was  *)
(* written.                                                                *)
LEMMA WriterStep ==
  ASSUME Typed, NEW w \in Writers, Write(w) \/ LoseEvents(w)
  PROVE  /\ SourceOK' /\ WriterOK' /\ Grows
         /\ emitted \subseteq emitted'
         /\ \A ev \in emitted' \ emitted : ev \in Event /\ GenuineNext(ev.task)
         /\ lost' \in 0 .. MaxLost
<1> DEFINE EmitType == [at : {"emit"}, op : 1 .. MaxVersion, kinds : KindsType, task : Task]
<1>0. SourceOK /\ WriterOK /\ lost \in 0 .. MaxLost
  BY DEF Typed, CountersOK
<1>1. ASSUME NEW x \in WriterType, writer' = [writer EXCEPT ![w] = x], Grows,
             x.at = "read" => x.op \in DOMAIN sourceRow'[x.card],
             x.at = "emit" => GenuineNext(x.task)
      PROVE  WriterOK'
  <2>1. writer' \in [Writers -> WriterType] /\ writer'[w] = x /\ \A v \in Writers : v # w => writer'[v] = writer[v]
    BY <1>0, <1>1 DEF WriterOK
  <2>2. ASSUME NEW v \in Writers, writer'[v].at = "read" PROVE writer'[v].op \in DOMAIN sourceRow'[writer'[v].card]
    <3>1. CASE v = w
      BY <3>1, <2>1, <2>2, <1>1
    <3>2. CASE v # w
      <4>1. writer[v].card \in Cards /\ writer[v].op \in DOMAIN sourceRow[writer[v].card]
        BY <3>2, <2>1, <2>2, <1>0, WriterShape DEF WriterOK
      <4> QED
        BY <3>2, <4>1, <2>1, <1>1 DEF Grows
    <3> QED
      BY <3>1, <3>2
  <2>3. ASSUME NEW v \in Writers, writer'[v].at = "emit" PROVE GenuineNext(writer'[v].task)
    <3>1. CASE v = w
      BY <3>1, <2>1, <2>3, <1>1
    <3>2. CASE v # w
      <4>1. writer[v].task \in Task /\ Genuine(writer[v].task)
        BY <3>2, <2>1, <2>3, <1>0, WriterShape DEF WriterOK
      <4> QED
        BY <3>2, <4>1, <2>1, <1>1, GenuineStays
    <3> QED
      BY <3>1, <3>2
  <2> QED
    BY <2>1, <2>2, <2>3 DEF WriterOK, Genuine, WasWritten, GenuineNext
<1>2. sourceRow' = sourceRow => SourceOK' /\ Grows
  BY <1>0 DEF SourceOK, Written, Grows
<1>3. NoWriter \in WriterType /\ NoWriter.at = "idle"
  BY DEF WriterType, NoWriter
<1>4. EmitType \subseteq WriterType
  BY DEF WriterType
<1>5. ASSUME NEW c \in Cards, CreateCard(w, c)
      PROVE  SourceOK' /\ WriterOK' /\ Grows /\ emitted' = emitted /\ lost' = lost
  <2>1. sourceRow' = [sourceRow EXCEPT ![c] = Append(@, "Created")] /\ Len(sourceRow[c]) = 0
    BY <1>5, <1>0 DEF CreateCard, SourceOK
  <2>2. "Created" \in VALID_STATUSES /\ "created" \in {"created"}
    BY DEF VALID_STATUSES
  <2>3. SourceOK' /\ Grows /\ 1 \in DOMAIN sourceRow'[c] /\ sourceRow'[c][1] = "Created" /\ 1 \in 1 .. MaxVersion
    <3>1. Cardinality(Written) < MaxVersion
      BY <1>5 DEF CreateCard
    <3>2. /\ SourceOK' /\ Grows /\ Len(sourceRow[c]) + 1 \in DOMAIN sourceRow'[c]
          /\ sourceRow'[c][Len(sourceRow[c]) + 1] = "Created" /\ Len(sourceRow[c]) + 1 \in 1 .. MaxVersion
      BY <1>0, <2>1, <2>2, <3>1, NewVersion
    <3> QED
      BY <2>1, <3>2
  <2> DEFINE t == [card |-> c, version |-> 1, status |-> "Created"]
             x == [at |-> "emit", op |-> 1, kinds |-> <<"created">>, task |-> t]
  <2>4. t \in Task /\ GenuineNext(t)
    BY <2>2, <2>3 DEF Task, GenuineNext
  <2>5. x \in WriterType
    BY <2>3, <2>4, <1>4 DEF KindsType
  <2> QED
    BY <1>1, <1>5, <2>3, <2>4, <2>5 DEF CreateCard
<1>6. ASSUME NEW c \in Cards, NEW s \in VALID_STATUSES, NEW kinds \in KindsType, UpdateCard(w, c, s, kinds)
      PROVE  SourceOK' /\ WriterOK' /\ Grows /\ emitted' = emitted /\ lost' = lost
  <2> DEFINE n == Len(sourceRow[c]) + 1
             x == [at |-> "read", op |-> n, card |-> c, kinds |-> kinds]
  <2>1. SourceOK' /\ Grows /\ n \in DOMAIN sourceRow'[c] /\ n \in 1 .. MaxVersion
    BY <1>0, <1>6, NewVersion DEF UpdateCard
  <2>2. x \in WriterType
    BY <2>1 DEF WriterType
  <2> QED
    BY <1>1, <1>6, <2>1, <2>2 DEF UpdateCard
<1>7. CASE ReadBack(w)
  <2>1. writer[w] \in [at : {"read"}, op : 1 .. MaxVersion, card : Cards, kinds : KindsType]
    BY <1>0, <1>7, WriterShape DEF ReadBack
  <2>2. writer[w].card \in Cards /\ writer[w].op \in DOMAIN sourceRow[writer[w].card]
    BY <1>0, <1>7, <2>1 DEF WriterOK, ReadBack
  <2>3. sourceRow[writer[w].card] # <<>>
    BY <2>2
  <2>4. RowOf(writer[w].card) \in Task /\ Genuine(RowOf(writer[w].card))
    BY <1>0, <2>2, <2>3, RowReadBack
  <2> DEFINE x == [at |-> "emit", op |-> writer[w].op, kinds |-> writer[w].kinds, task |-> RowOf(writer[w].card)]
  <2>5. x \in WriterType
    BY <2>1, <2>4, <1>4
  <2>6. writer' = [writer EXCEPT ![w] = x] /\ sourceRow' = sourceRow /\ emitted' = emitted /\ lost' = lost
    BY <1>7 DEF ReadBack
  <2>7. GenuineNext(x.task)
    BY <1>2, <2>4, <2>6, GenuineStays
  <2> QED
    BY <1>0, <1>1, <1>2, <2>5, <2>6, <2>7
<1>8. ASSUME writer[w].at = "emit", writer' = [writer EXCEPT ![w] = AfterEmit(@)], sourceRow' = sourceRow
      PROVE  WriterOK' /\ GenuineNext(writer[w].task)
             /\ [task |-> writer[w].task, kind |-> Head(writer[w].kinds), op |-> writer[w].op] \in Event
  <2>1. writer[w] \in EmitType /\ Genuine(writer[w].task)
    BY <1>0, <1>8, WriterShape DEF WriterOK
  <2>2. AfterEmit(writer[w]) \in WriterType
    BY <2>1, <1>3, <1>4, EmitShape
  <2>3. AfterEmit(writer[w]).at = "emit" => AfterEmit(writer[w]).task = writer[w].task
    BY <2>1, <1>3, EmitShape
  <2>4. AfterEmit(writer[w]).at # "read"
    BY <2>1, <1>3, EmitShape
  <2>5. GenuineNext(writer[w].task)
    BY <2>1, <1>2, <1>8, GenuineStays
  <2>6. WriterOK'
    BY <1>1, <1>2, <1>8, <2>2, <2>3, <2>4, <2>5
  <2> QED
    BY <2>1, <2>5, <2>6, EmitShape
<1>9. CASE EmitTaskEvent(w)
  <2> DEFINE ev == [task |-> writer[w].task, kind |-> Head(writer[w].kinds), op |-> writer[w].op]
  <2>1. emitted' = emitted \cup {ev} /\ sourceRow' = sourceRow /\ lost' = lost
    BY <1>9 DEF EmitTaskEvent
  <2>2. WriterOK' /\ ev \in Event /\ GenuineNext(ev.task)
    BY <1>8, <1>9, <2>1 DEF EmitTaskEvent
  <2> HIDE DEF ev
  <2> QED
    BY <1>0, <1>2, <2>1, <2>2
<1>10. CASE LoseEvents(w)
  <2>1. sourceRow' = sourceRow /\ emitted' = emitted /\ lost' \in 0 .. MaxLost
    BY <1>0, <1>10, CardSyncAssumption DEF LoseEvents
  <2>2. CASE writer' = [writer EXCEPT ![w] = NoWriter]
    BY <1>1, <1>2, <1>3, <2>1, <2>2
  <2>3. CASE writer[w].at = "emit" /\ writer' = [writer EXCEPT ![w] = AfterEmit(@)]
    BY <1>8, <1>2, <2>1, <2>3
  <2> QED
    BY <1>2, <1>10, <2>1, <2>2, <2>3 DEF LoseEvents
<1>11. <<"updated">> \in KindsType /\ <<"updated", "completed">> \in KindsType /\ "Complete" \in VALID_STATUSES
  BY DEF KindsType, VALID_STATUSES
<1> QED
  BY <1>0, <1>5, <1>6, <1>7, <1>2, <1>9, <1>10, <1>11 DEF Write, CompleteCard, ReadBack

-----------------------------------------------------------------------------
(* The server and the target                                               *)

LEMMA RowsStay ==
  ASSUME Grows, NEW r \in RowType, GenuineRow(r)
  PROVE  GenuineRow(r)'
BY StatusMaps DEF Grows, RowType, GenuineRow, WasWritten

(* An event writes the central row that a poller will read back as the     *)
(* version the source committed.                                           *)
LEMMA NewRow ==
  ASSUME Typed, NEW t \in Task, Genuine(t),
         central' = [central EXCEPT ![t.card] = CentralRow(t, changeSeq + 1)], changeSeq' = changeSeq + 1,
         UNCHANGED source
  PROVE  /\ CentralOK'
         /\ central'[t.card].version = t.version /\ central'[t.card].seq = changeSeq + 1
         /\ \A c \in Cards : c # t.card => central'[c] = central[c]
<1>1. CentralOK /\ changeSeq \in Nat
  BY DEF Typed, CentralOK
<1>2. t.card \in Cards /\ t.version \in 1 .. MaxVersion /\ t.status \in VALID_STATUSES
  BY DEF Task
<1>3. CentralRow(t, changeSeq + 1) \in CentralType
  BY <1>1, <1>2, StatusMaps DEF CentralRow, CentralType
<1>4. /\ central' \in [Cards -> CentralType \cup {NoTask}]
      /\ central'[t.card] = CentralRow(t, changeSeq + 1) /\ \A c \in Cards : c # t.card => central'[c] = central[c]
  BY <1>1, <1>2, <1>3 DEF CentralOK
<1>5. sourceRow' = sourceRow
  BY DEF source
<1>6. ASSUME NEW c \in Cards, central'[c] # NoTask PROVE GenuineRow(Row(c))' /\ central'[c].seq <= changeSeq'
  <2>1. CASE c = t.card
    BY <2>1, <1>1, <1>2, <1>4, <1>5, StatusMaps DEF GenuineRow, Row, CentralRow, Genuine, WasWritten
  <2>2. CASE c # t.card
    <3>1. GenuineRow(Row(c)) /\ central[c].seq <= changeSeq /\ central[c].seq \in Nat
      BY <2>2, <1>1, <1>4, <1>6, CentralRows DEF CentralOK, CentralType
    <3> QED
      BY <2>2, <3>1, <1>1, <1>4, <1>5 DEF GenuineRow, Row, WasWritten
  <2> QED
    BY <2>1, <2>2
<1> QED
  BY <1>1, <1>4, <1>6 DEF CentralOK, CentralRow

LEMMA ServerStep ==
  ASSUME Typed, Materialize \/ (\E ev \in emitted \cup inserting : SkipMaterialize(ev))
  PROVE  EventsOK' /\ CentralOK' /\ changeSeq' \in Nat /\ changeSeq <= changeSeq' /\ lost' \in 0 .. MaxLost
<1>0. /\ UNCHANGED source /\ sourceRow' = sourceRow /\ CentralOK /\ changeSeq \in Nat /\ EventsOK
      /\ lost \in 0 .. MaxLost
  BY Frames DEF Typed, CentralOK, CountersOK, source
<1>1. \A ev \in emitted \cup inserting : ev \in Event /\ ev.task \in Task /\ Genuine(ev.task)
  BY <1>0 DEF EventsOK, Event
<1>2. ASSUME NEW ev \in emitted \cup inserting,
             \A S \in {emitted', inserting', materialized', skipped'} :
               S \subseteq emitted \cup inserting \cup materialized \cup skipped \cup {ev}
      PROVE  EventsOK'
  <2>1. \A e \in emitted \cup inserting \cup materialized \cup skipped \cup {ev} : e \in Event /\ Genuine(e.task)
    BY <1>0 DEF EventsOK
  <2>2. \A e \in emitted \cup inserting \cup materialized \cup skipped \cup {ev} : Genuine(e.task)'
    BY <2>1, <1>0 DEF Genuine, WasWritten
  <2> QED
    BY <1>2, <2>1, <2>2 DEF EventsOK
<1>3. UNCHANGED <<central, changeSeq>> => CentralOK' /\ changeSeq' \in Nat /\ changeSeq <= changeSeq'
  BY <1>0 DEF CentralOK, GenuineRow, Row, WasWritten
<1>4. ASSUME NEW ev \in emitted, MaterializeUpdate(ev) PROVE EventsOK' /\ CentralOK' /\ changeSeq' \in Nat /\ changeSeq <= changeSeq' /\ lost' = lost
  <2>1. EventsOK' /\ lost' = lost
    BY <1>2, <1>4 DEF MaterializeUpdate
  <2>2. CASE GuardAdmits(ev.task)
    BY <1>0, <1>1, <1>4, <2>1, <2>2, NewRow DEF MaterializeUpdate
  <2>3. CASE ~GuardAdmits(ev.task)
    BY <1>3, <1>4, <2>1, <2>3 DEF MaterializeUpdate
  <2> QED
    BY <2>2, <2>3
<1>5. ASSUME NEW ev \in emitted, MaterializeMiss(ev) PROVE EventsOK' /\ UNCHANGED <<central, changeSeq>> /\ lost' = lost
  BY <1>2, <1>5 DEF MaterializeMiss
<1>6. ASSUME NEW ev \in inserting, MaterializeInsert(ev) PROVE EventsOK' /\ CentralOK' /\ changeSeq' \in Nat /\ changeSeq <= changeSeq' /\ lost' = lost
  <2>1. EventsOK' /\ lost' = lost
    BY <1>2, <1>6 DEF MaterializeInsert
  <2>2. CASE central[ev.task.card] = NoTask
    BY <1>0, <1>1, <1>6, <2>1, <2>2, NewRow DEF MaterializeInsert
  <2>3. CASE central[ev.task.card] # NoTask
    BY <1>3, <1>6, <2>1, <2>3 DEF MaterializeInsert
  <2> QED
    BY <2>2, <2>3
<1>7. ASSUME NEW ev \in emitted \cup inserting, SkipMaterialize(ev)
      PROVE  EventsOK' /\ UNCHANGED <<central, changeSeq>> /\ lost' \in 0 .. MaxLost
  BY <1>0, <1>2, <1>7, CardSyncAssumption DEF SkipMaterialize
<1> QED
  BY <1>0, <1>3, <1>4, <1>5, <1>6, <1>7 DEF Materialize

(* What a poller may hold.                                                 *)
Holds(x) ==
  /\ x \in PollerType
  /\ x.at \in {"apply", "insert"} =>
       /\ x.page # {} /\ x.left \subseteq x.page
       /\ \A r \in x.page : GenuineRow(r) /\ r.seq <= changeSeq
  /\ x.at = "insert" => x.left # {}
  /\ x.at = "more" => x.since <= changeSeq

LEMMA PollerPut ==
  ASSUME Typed, NEW q \in Pollers, NEW x, Holds(x), poller' = [poller EXCEPT ![q] = x],
         UNCHANGED <<source, server>>
  PROVE  PollerOK'
<1>1. sourceRow' = sourceRow /\ changeSeq' = changeSeq /\ PollerOK
  BY DEF source, server, Typed
<1>2. poller' \in [Pollers -> PollerType] /\ poller'[q] = x /\ \A p \in Pollers : p # q => poller'[p] = poller[p]
  BY <1>1 DEF PollerOK, Holds
<1>3. \A p \in Pollers : Holds(poller[p])
  BY <1>1 DEF PollerOK, Holds
<1>4. \A p \in Pollers : Holds(poller'[p])
  BY <1>2, <1>3
<1>5. \A r : GenuineRow(r)' <=> GenuineRow(r)
  BY <1>1 DEF GenuineRow, WasWritten
<1> QED
  BY <1>1, <1>2, <1>4, <1>5 DEF PollerOK, Holds

(* An answer holds rows of the server, and is not empty.                   *)
LEMMA PageHeld ==
  ASSUME CentralOK, NEW since \in Nat, ChangedSince(since) # {}
  PROVE  Holds([at |-> "apply", page |-> Page(since), left |-> Page(since)])
<1>1. Page(since) # {}
  BY CentralRows
<1>2. \A r \in Page(since) : r \in RowType /\ GenuineRow(r) /\ r.seq <= changeSeq
  <2> SUFFICES ASSUME NEW r \in Page(since) PROVE r \in RowType /\ GenuineRow(r) /\ r.seq <= changeSeq
    OBVIOUS
  <2>1. PICK c \in ChangedSince(since) : r = Row(c)
    BY CentralRows
  <2>2. c \in Cards /\ central[c] # NoTask
    BY DEF ChangedSince
  <2> QED
    BY <2>1, <2>2, CentralRows DEF CentralOK, Row
<1>3. Page(since) \subseteq RowType
  BY <1>2
<1> DEFINE x == [at |-> "apply", page |-> Page(since), left |-> Page(since)]
<1>4. x \in PollerType
  BY <1>3 DEF PollerType
<1> QED
  BY <1>1, <1>2, <1>4 DEF Holds

LEMMA IdleHeld == Holds(NoPoll)
BY DEF Holds, NoPoll, PollerType

(* The row a poller applies next.                                          *)
LEMMA NextApplied ==
  ASSUME Typed, NEW q \in Pollers, poller[q].at \in {"apply", "insert"}, poller[q].left # {}
  PROVE  LET t == FirstOf(poller[q].left) IN
         /\ t \in poller[q].left /\ t \in poller[q].page /\ t \in RowType /\ GenuineRow(t)
         /\ \A x \in poller[q].left : t.seq <= x.seq
         /\ Projection(t) \in CardType
         /\ WasWritten(t.card, Projection(t).version, Projection(t).status)
<1> DEFINE t == FirstOf(poller[q].left)
<1>1. poller[q] \in [at : {"apply", "insert"}, page : SUBSET RowType, left : SUBSET RowType]
  BY PollerShape DEF Typed
<1>2. \A r \in poller[q].left : r.seq \in Nat
  BY <1>1 DEF RowType
<1>3. t \in poller[q].left /\ \A x \in poller[q].left : t.seq <= x.seq
  BY <1>2, FirstRow
<1>4. t \in poller[q].page /\ t \in RowType /\ GenuineRow(t)
  BY <1>1, <1>3 DEF Typed, PollerOK
<1> HIDE DEF t
<1>5. Projection(t) \in CardType /\ WasWritten(t.card, Projection(t).version, Projection(t).status)
  BY <1>4, StatusMaps DEF Projection, RowType, CardType, GenuineRow
<1> QED
  BY <1>3, <1>4, <1>5 DEF t

(* The cursor a finished page leaves behind.                               *)
LEMMA NextCursor ==
  ASSUME Typed, NEW q \in Pollers, poller[q].at \in {"apply", "insert"}
  PROVE  LET n == NextSince(poller[q].page) IN
         /\ n \in Nat /\ n <= changeSeq
         /\ \A r \in poller[q].page : r.seq <= n
         /\ \E r \in poller[q].page : r.seq = n
<1>1. poller[q] \in [at : {"apply", "insert"}, page : SUBSET RowType, left : SUBSET RowType]
  BY PollerShape DEF Typed
<1>2. poller[q].page # {} /\ \A r \in poller[q].page : r.seq \in Nat /\ r.seq <= changeSeq
  BY <1>1 DEF Typed, PollerOK, RowType
<1>3. changeSeq \in Nat
  BY DEF Typed, CentralOK
<1>4. PICK m \in poller[q].page : NextSince(poller[q].page) = m.seq /\ \A x \in poller[q].page : x.seq <= m.seq
  BY <1>2, <1>3, LastRow
<1> QED
  BY <1>2, <1>4

LEMMA TargetPut ==
  ASSUME Typed, NEW c \in Cards, NEW x \in Seq(CardType), \A i \in DOMAIN x : WasWritten(c, x[i].version, x[i].status),
         targetRows' = [targetRows EXCEPT ![c] = x], inboxCursor' = inboxCursor, UNCHANGED <<source, server>>
  PROVE  TargetOK'
<1>1. sourceRow' = sourceRow /\ changeSeq' = changeSeq /\ TargetOK
  BY DEF source, server, Typed
<1>2. targetRows' \in [Cards -> Seq(CardType)] /\ targetRows'[c] = x /\ \A d \in Cards : d # c => targetRows'[d] = targetRows[d]
  BY <1>1 DEF TargetOK
<1> QED
  BY <1>1, <1>2 DEF TargetOK, WasWritten

LEMMA PollStep ==
  ASSUME Typed, NEW q \in Pollers, Poll(q) \/ PollFails(q)
  PROVE  PollerOK' /\ TargetOK' /\ failures' \in 0 .. MaxFailures
<1>0. UNCHANGED <<source, server>> /\ sourceRow' = sourceRow /\ changeSeq' = changeSeq
  BY Frames DEF source, server
<1>1. /\ CentralOK /\ PollerOK /\ TargetOK /\ failures \in 0 .. MaxFailures
      /\ changeSeq \in Nat /\ inboxCursor \in Nat /\ inboxCursor <= changeSeq
  BY DEF Typed, CountersOK, CentralOK, TargetOK
<1>2. UNCHANGED <<targetRows, inboxCursor>> => TargetOK'
  BY <1>0, <1>1 DEF TargetOK, WasWritten
<1>3. ASSUME NEW since \in Nat, GotPage(q, since) PROVE PollerOK'
  <2>1. CASE ChangedSince(since) = {}
    BY <1>0, <1>3, <2>1, IdleHeld, PollerPut DEF GotPage
  <2>2. CASE ChangedSince(since) # {}
    BY <1>0, <1>1, <1>3, <2>2, PageHeld, PollerPut DEF GotPage
  <2> QED
    BY <2>1, <2>2
<1>4. CASE StartPoll(q)
  <2>1. GotPage(q, inboxCursor) /\ UNCHANGED <<targetRows, inboxCursor>> /\ failures' = failures
    BY <1>4 DEF StartPoll
  <2> QED
    BY <1>1, <1>2, <1>3, <2>1
<1>5. CASE NextPage(q)
  <2>1. GotPage(q, poller[q].since) /\ UNCHANGED <<targetRows, inboxCursor>> /\ failures' = failures
    BY <1>5 DEF NextPage
  <2>2. poller[q].since \in Nat
    BY <1>1, <1>5, PollerShape DEF NextPage
  <2> QED
    BY <1>1, <1>2, <1>3, <2>1, <2>2
<1>6. ASSUME poller[q].at \in {"apply", "insert"}, NEW L \in SUBSET poller[q].left
      PROVE  Holds([[poller[q] EXCEPT !.left = L] EXCEPT !.at = "apply"])
  <2>1. poller[q] \in [at : {"apply", "insert"}, page : SUBSET RowType, left : SUBSET RowType]
    BY <1>1, <1>6, PollerShape
  <2> DEFINE x == [[poller[q] EXCEPT !.left = L] EXCEPT !.at = "apply"]
  <2>2. x \in [at : {"apply"}, page : SUBSET RowType, left : SUBSET RowType] /\ x.page = poller[q].page /\ x.left = L
    BY <2>1
  <2>3. x \in PollerType
    BY <2>2 DEF PollerType
  <2> HIDE DEF x
  <2>4. Holds(x)
    BY <1>1, <1>6, <2>2, <2>3 DEF PollerOK, Holds
  <2> QED
    BY <2>4 DEF x
<1>7. CASE ApplyUpdate(q)
  <2> DEFINE t == FirstOf(poller[q].left)
             c == t.card
             x == [i \in DOMAIN targetRows[c] |-> Projection(t)]
             y == [poller[q] EXCEPT !.left = poller[q].left \ {t}]
  <2>1. /\ poller[q].at = "apply" /\ poller[q].left # {}
        /\ targetRows' = [targetRows EXCEPT ![c] = x] /\ inboxCursor' = inboxCursor /\ failures' = failures
        /\ poller' = [poller EXCEPT ![q] = y]
    BY <1>7 DEF ApplyUpdate
  <2>2. c \in Cards /\ Projection(t) \in CardType /\ WasWritten(c, Projection(t).version, Projection(t).status)
    BY <2>1, NextApplied DEF RowType
  <2> HIDE DEF t, c
  <2>3. x \in Seq(CardType) /\ \A i \in DOMAIN x : x[i] = Projection(t)
    <3>1. targetRows[c] \in Seq(CardType)
      BY <1>1, <2>2 DEF TargetOK
    <3>2. Len(targetRows[c]) \in Nat /\ DOMAIN targetRows[c] = 1 .. Len(targetRows[c])
      BY <3>1
    <3>3. x \in [1 .. Len(targetRows[c]) -> CardType]
      BY <2>2, <3>2
    <3> QED
      BY <3>2, <3>3
  <2>4. TargetOK'
    BY <1>0, <2>1, <2>2, <2>3, TargetPut
  <2>5. Holds(y)
    <3>1. y = [[poller[q] EXCEPT !.left = poller[q].left \ {t}] EXCEPT !.at = "apply"]
      BY <1>1, <2>1, PollerShape
    <3> QED
      BY <1>6, <2>1, <3>1
  <2> HIDE DEF y
  <2> QED
    BY <1>0, <1>1, <2>1, <2>4, <2>5, PollerPut
<1>8. CASE ApplyMiss(q)
  <2> DEFINE y == [poller[q] EXCEPT !.at = "insert"]
  <2>1. /\ poller[q].at = "apply" /\ poller[q].left # {} /\ UNCHANGED <<targetRows, inboxCursor>> /\ failures' = failures
        /\ poller' = [poller EXCEPT ![q] = y]
    BY <1>8 DEF ApplyMiss
  <2>2. poller[q] \in [at : {"apply", "insert"}, page : SUBSET RowType, left : SUBSET RowType]
    BY <1>1, <2>1, PollerShape
  <2>3. y \in [at : {"insert"}, page : SUBSET RowType, left : SUBSET RowType] /\ y.page = poller[q].page /\ y.left = poller[q].left
    BY <2>2
  <2>4. y \in PollerType
    BY <2>3 DEF PollerType
  <2> HIDE DEF y
  <2>5. Holds(y)
    BY <1>1, <2>1, <2>3, <2>4 DEF PollerOK, Holds
  <2> QED
    BY <1>0, <1>1, <1>2, <2>1, <2>5, PollerPut
<1>9. CASE ApplyInsert(q)
  <2> DEFINE t == FirstOf(poller[q].left)
             c == t.card
             x == Append(targetRows[c], Projection(t))
             y == [[poller[q] EXCEPT !.left = poller[q].left \ {t}] EXCEPT !.at = "apply"]
  <2>1. /\ poller[q].at = "insert" /\ poller[q].left # {}
        /\ targetRows' = [targetRows EXCEPT ![c] = x] /\ inboxCursor' = inboxCursor /\ failures' = failures
    BY <1>1, <1>9 DEF ApplyInsert, PollerOK
  <2>2. c \in Cards /\ Projection(t) \in CardType /\ WasWritten(c, Projection(t).version, Projection(t).status)
    BY <2>1, NextApplied DEF RowType
  <2>3. poller' = [poller EXCEPT ![q] = y]
    <3>1. poller[q] \in [at : {"apply", "insert"}, page : SUBSET RowType, left : SUBSET RowType]
      BY <1>1, <2>1, PollerShape
    <3> HIDE DEF t, c
    <3>2. poller' = [poller EXCEPT ![q] = [[poller[q] EXCEPT !.at = "apply"] EXCEPT !.left = poller[q].left \ {t}]]
      BY <1>9, <3>1 DEF ApplyInsert, t
    <3>3. [[poller[q] EXCEPT !.at = "apply"] EXCEPT !.left = poller[q].left \ {t}] = y
      BY <3>1
    <3> QED
      BY <3>2, <3>3
  <2> HIDE DEF t, c
  <2>4. x \in Seq(CardType) /\ \A i \in DOMAIN x : WasWritten(c, x[i].version, x[i].status)
    <3>1. targetRows[c] \in Seq(CardType) /\ \A i \in DOMAIN targetRows[c] : WasWritten(c, targetRows[c][i].version, targetRows[c][i].status)
      BY <1>1, <2>2 DEF TargetOK
    <3>2. /\ DOMAIN x = 1 .. Len(targetRows[c]) + 1 /\ DOMAIN targetRows[c] = 1 .. Len(targetRows[c]) /\ Len(targetRows[c]) \in Nat
          /\ x[Len(targetRows[c]) + 1] = Projection(t) /\ \A i \in 1 .. Len(targetRows[c]) : x[i] = targetRows[c][i]
      BY <2>2, <3>1
    <3>3. \A i \in DOMAIN x : i \in DOMAIN targetRows[c] \/ i = Len(targetRows[c]) + 1
      BY <3>2
    <3>4. x \in Seq(CardType)
      BY <2>2, <3>1
    <3> HIDE DEF x
    <3> QED
      BY <2>2, <3>1, <3>2, <3>3, <3>4
  <2>5. TargetOK'
    <3> HIDE DEF x
    <3> QED
      BY <1>0, <2>1, <2>2, <2>4, TargetPut
  <2>6. Holds(y)
    BY <1>6, <2>1
  <2> HIDE DEF y
  <2> QED
    BY <1>0, <1>1, <2>1, <2>3, <2>5, <2>6, PollerPut
<1>10. CASE WriteInboxCursor(q)
  <2> DEFINE n == NextSince(poller[q].page)
             y == IF Cardinality(poller[q].page) < Limit THEN NoPoll ELSE [at |-> "more", since |-> n]
  <2>1. /\ poller[q].at = "apply" /\ inboxCursor' = n /\ targetRows' = targetRows /\ failures' = failures
        /\ poller' = [poller EXCEPT ![q] = y]
    BY <1>10 DEF WriteInboxCursor, SaveCursor
  <2>2. n \in Nat /\ n <= changeSeq
    BY <2>1, NextCursor
  <2> HIDE DEF n
  <2>3. Holds([at |-> "more", since |-> n])
    BY <2>2 DEF Holds, PollerType
  <2>4. Holds(y)
    BY <2>3, IdleHeld
  <2>5. TargetOK'
    BY <1>0, <1>1, <2>1, <2>2 DEF TargetOK, WasWritten
  <2> HIDE DEF y
  <2> QED
    BY <1>0, <1>1, <2>1, <2>4, <2>5, PollerPut
<1>11. CASE PollFails(q)
  <2>1. poller' = [poller EXCEPT ![q] = NoPoll] /\ UNCHANGED <<targetRows, inboxCursor>>
    BY <1>11 DEF PollFails
  <2>2. failures' \in 0 .. MaxFailures
    BY <1>1, <1>11, CardSyncAssumption DEF PollFails
  <2> QED
    BY <1>0, <1>2, <2>1, <2>2, IdleHeld, PollerPut
<1> QED
  BY <1>4, <1>5, <1>7, <1>8, <1>9, <1>10, <1>11 DEF Poll

LEMMA TypedInit == Init => Typed
<1> SUFFICES ASSUME Init PROVE Typed
  OBVIOUS
<1>1. CentralOK /\ TargetOK
  BY DEF Init, CentralOK, TargetOK
<1>2. PollerOK
  BY DEF Init, PollerOK, PollerType, NoPoll
<1>3. CountersOK
  BY CardSyncAssumption DEF Init, CountersOK
<1> QED
  BY <1>1, <1>2, <1>3, SourceInit DEF Typed

LEMMA TypedStep == Typed /\ [Next]_vars => Typed'
<1> SUFFICES ASSUME Typed, [Next]_vars PROVE Typed'
  OBVIOUS
<1>0. SourceOK /\ WriterOK /\ EventsOK /\ CentralOK /\ PollerOK /\ TargetOK /\ CountersOK
  BY DEF Typed
<1> HIDE DEF Typed
<1>1. UNCHANGED source => SourceOK' /\ WriterOK' /\ Grows
  BY <1>0 DEF source, SourceOK, WriterOK, Written, Genuine, WasWritten, Grows
<1>2. ASSUME Grows, UNCHANGED server, emitted' = emitted PROVE EventsOK'
  <2>1. \A ev \in emitted \cup inserting \cup materialized \cup skipped : ev \in Event /\ ev.task \in Task /\ Genuine(ev.task)
    BY <1>0 DEF EventsOK, Event
  <2>2. \A ev \in emitted \cup inserting \cup materialized \cup skipped : GenuineNext(ev.task)
    BY <2>1, <1>2, GenuineStays
  <2> QED
    BY <1>2, <2>1, <2>2 DEF EventsOK, server, GenuineNext, Genuine, WasWritten
<1>3. ASSUME Grows, UNCHANGED <<central, changeSeq>> PROVE CentralOK'
  <2>1. \A c \in Cards : central[c] # NoTask => Row(c) \in RowType /\ GenuineRow(Row(c)) /\ central[c].seq <= changeSeq
    BY <1>0, CentralRows DEF CentralOK
  <2>2. ASSUME NEW c \in Cards, central[c] # NoTask PROVE GenuineRow(Row(c))'
    <3>1. WasWritten(c, central[c].version, sync_status_to_local(central[c].status)) /\ central[c].version \in DOMAIN sourceRow'[c]
          /\ sourceRow'[c][central[c].version] = sourceRow[c][central[c].version]
      BY <1>3, <2>1, <2>2 DEF GenuineRow, Row, WasWritten, Grows
    <3> QED
      BY <1>3, <3>1 DEF GenuineRow, Row, WasWritten
  <2> QED
    BY <1>0, <1>3, <2>1, <2>2 DEF CentralOK
<1>4. ASSUME Grows, changeSeq' \in Nat, changeSeq <= changeSeq', UNCHANGED <<poller, targetRows, inboxCursor>>
      PROVE  PollerOK' /\ TargetOK'
  <2>0. changeSeq \in Nat
    BY <1>0 DEF CentralOK
  <2>1. ASSUME NEW q \in Pollers, poller[q].at \in {"apply", "insert"}, NEW r \in poller[q].page
        PROVE  GenuineRow(r)' /\ r.seq <= changeSeq'
    <3>1. r \in RowType /\ GenuineRow(r) /\ r.seq <= changeSeq
      BY <2>1, <1>0, PollerShape DEF PollerOK
    <3>2. r.seq \in Nat
      BY <3>1 DEF RowType
    <3> QED
      BY <3>1, <3>2, <2>0, <1>4, RowsStay
  <2>2. ASSUME NEW q \in Pollers, poller[q].at = "more" PROVE poller[q].since <= changeSeq'
    <3>1. poller[q].since \in Nat /\ poller[q].since <= changeSeq
      BY <2>2, <1>0, PollerShape DEF PollerOK
    <3> QED
      BY <3>1, <2>0, <1>4
  <2>3. PollerOK'
    BY <1>0, <1>4, <2>1, <2>2 DEF PollerOK
  <2>4. ASSUME NEW c \in Cards, NEW i \in DOMAIN targetRows[c] PROVE WasWritten(c, targetRows[c][i].version, targetRows[c][i].status)'
    BY <1>0, <1>4 DEF TargetOK, WasWritten, Grows
  <2>5. inboxCursor' \in Nat /\ inboxCursor' <= changeSeq'
    BY <1>0, <1>4, <2>0 DEF TargetOK
  <2>6. TargetOK'
    BY <1>0, <1>4, <2>4, <2>5 DEF TargetOK, WasWritten
  <2> QED
    BY <2>3, <2>6
<1>5. ASSUME NEW w \in Writers, Write(w) \/ LoseEvents(w) PROVE Typed'
  <2>1. UNCHANGED <<server, target>>
    BY <1>5, Frames
  <2>2. /\ SourceOK' /\ WriterOK' /\ Grows
        /\ \A ev \in emitted' \ emitted : ev \in Event /\ GenuineNext(ev.task)
        /\ lost' \in 0 .. MaxLost
    BY <1>5, WriterStep
  <2>3. CentralOK' /\ PollerOK' /\ TargetOK'
    <3>1. UNCHANGED <<central, changeSeq, poller, targetRows, inboxCursor>> /\ changeSeq \in Nat
      BY <2>1, <1>0 DEF server, target, CentralOK
    <3>2. changeSeq' \in Nat /\ changeSeq <= changeSeq'
      BY <3>1
    <3> QED
      BY <2>2, <3>1, <3>2, <1>3, <1>4
  <2>4. EventsOK'
    <3>1. \A ev \in emitted \cup inserting \cup materialized \cup skipped : ev \in Event /\ ev.task \in Task /\ Genuine(ev.task)
      BY <1>0 DEF EventsOK, Event
    <3>2. \A ev \in emitted \cup inserting \cup materialized \cup skipped : GenuineNext(ev.task)
      BY <3>1, <2>2, GenuineStays
    <3>3. \A ev \in emitted' : ev \in Event /\ GenuineNext(ev.task)
      BY <3>1, <3>2, <2>2
    <3> QED
      BY <2>1, <3>1, <3>2, <3>3 DEF EventsOK, server, GenuineNext, Genuine, WasWritten
  <2>5. CountersOK'
    BY <2>1, <2>2, <1>0 DEF CountersOK, target
  <2> QED
    BY <2>2, <2>3, <2>4, <2>5 DEF Typed
<1>6. CASE Materialize \/ (\E ev \in emitted \cup inserting : SkipMaterialize(ev))
  <2>1. UNCHANGED <<source, target>>
    BY <1>6, Frames
  <2>2. EventsOK' /\ CentralOK' /\ changeSeq' \in Nat /\ changeSeq <= changeSeq' /\ lost' \in 0 .. MaxLost
    BY <1>6, ServerStep
  <2>3. PollerOK' /\ TargetOK' /\ CountersOK'
    BY <1>0, <1>1, <1>4, <2>1, <2>2 DEF target, CountersOK
  <2> QED
    BY <1>1, <2>1, <2>2, <2>3 DEF Typed
<1>7. ASSUME NEW q \in Pollers, Poll(q) \/ PollFails(q) PROVE Typed'
  <2>1. UNCHANGED <<source, emitted, lost, server>>
    BY <1>7, Frames
  <2>2. PollerOK' /\ TargetOK' /\ failures' \in 0 .. MaxFailures
    BY <1>7, PollStep
  <2>3. EventsOK' /\ CentralOK' /\ CountersOK'
    BY <1>0, <1>1, <1>2, <1>3, <2>1, <2>2 DEF server, CountersOK
  <2> QED
    BY <1>1, <2>1, <2>2, <2>3 DEF Typed
<1>8. CASE UNCHANGED vars
  <2>1. UNCHANGED <<source, emitted, lost, server, target>>
    BY <1>8 DEF vars
  <2>2. UNCHANGED <<central, changeSeq, poller, targetRows, inboxCursor, failures>> /\ changeSeq \in Nat
    BY <2>1, <1>0 DEF server, target, CentralOK
  <2>3. changeSeq' \in Nat /\ changeSeq <= changeSeq'
    BY <2>2
  <2>4. EventsOK' /\ CentralOK' /\ PollerOK' /\ TargetOK' /\ CountersOK'
    BY <1>0, <1>1, <1>2, <1>3, <1>4, <2>1, <2>2, <2>3 DEF CountersOK
  <2> QED
    BY <1>1, <2>1, <2>4 DEF Typed
<1> QED
  BY <1>5, <1>6, <1>7, <1>8 DEF Next

-----------------------------------------------------------------------------
(* Any number of pollers                                                   *)

(* The central table changes a row at a time, forward, and beyond every    *)
(* earlier change.                                                         *)
Advances ==
  \/ UNCHANGED <<central, changeSeq>>
  \/ /\ changeSeq' = changeSeq + 1
     /\ \E c \in Cards :
          /\ central'[c] # NoTask /\ central'[c].version >= central[c].version /\ central'[c].seq = changeSeq + 1
          /\ \A d \in Cards : d # c => central'[d] = central[d]

LEMMA CentralAdvances ==
  ASSUME Typed, [Next]_vars
  PROVE  /\ Advances
         /\ \A ev \in materialized' \ materialized : ev.task \in Task /\ central'[ev.task.card].version >= ev.task.version
<1>0. CentralOK /\ changeSeq \in Nat /\ EventsOK
  BY DEF Typed, CentralOK
<1>1. \A ev \in emitted \cup inserting : ev.task \in Task /\ Genuine(ev.task)
  BY <1>0 DEF EventsOK, Event
<1>2. \A t \in Task : t.card \in Cards /\ t.version \in 1 .. MaxVersion
  BY DEF Task
<1>3. \A c \in Cards : central[c].version \in Nat /\ (central[c] = NoTask => central[c].version = 0)
  BY <1>0, CardSyncAssumption DEF CentralOK, CentralType, NoTask
<1>4. ASSUME NEW ev \in emitted \cup inserting, central[ev.task.card] = NoTask \/ GuardAdmits(ev.task),
             central' = [central EXCEPT ![ev.task.card] = CentralRow(ev.task, changeSeq + 1)], changeSeq' = changeSeq + 1,
             UNCHANGED source
      PROVE  Advances /\ central'[ev.task.card].version >= ev.task.version
  <2> DEFINE t == ev.task
             c == t.card
  <2>1. t \in Task /\ Genuine(t) /\ c \in Cards /\ t.version \in 1 .. MaxVersion
    BY <1>1, <1>2
  <2>2. /\ CentralOK' /\ central'[c].version = t.version /\ central'[c].seq = changeSeq + 1
        /\ \A d \in Cards : d # c => central'[d] = central[d]
    BY <1>4, <2>1, NewRow
  <2>3. central'[c] # NoTask
    BY <2>1, <2>2 DEF NoTask
  <2>4. t.version >= central[c].version
    BY <1>3, <1>4, <2>1 DEF GuardAdmits
  <2> QED
    BY <1>4, <2>1, <2>2, <2>3, <2>4 DEF Advances
<1>5. ASSUME NEW ev \in emitted, MaterializeUpdate(ev)
      PROVE  Advances /\ materialized' = materialized \cup {ev} /\ central'[ev.task.card].version >= ev.task.version
  <2>1. UNCHANGED source /\ materialized' = materialized \cup {ev}
    BY <1>5 DEF MaterializeUpdate
  <2>2. CASE GuardAdmits(ev.task)
    BY <1>4, <1>5, <2>1, <2>2 DEF MaterializeUpdate
  <2>3. CASE ~GuardAdmits(ev.task)
    <3>1. UNCHANGED <<central, changeSeq>>
      BY <1>5, <2>3 DEF MaterializeUpdate
    <3>2. central[ev.task.card].version >= ev.task.version
      BY <1>1, <1>2, <1>3, <2>3 DEF GuardAdmits
    <3> QED
      BY <2>1, <3>1, <3>2 DEF Advances
  <2> QED
    BY <2>2, <2>3
<1>6. ASSUME NEW ev \in inserting, MaterializeInsert(ev)
      PROVE  Advances /\ (materialized' = materialized \/
               (materialized' = materialized \cup {ev} /\ central'[ev.task.card].version >= ev.task.version))
  <2>1. UNCHANGED source
    BY <1>6 DEF MaterializeInsert
  <2>2. CASE central[ev.task.card] = NoTask
    BY <1>4, <1>6, <2>1, <2>2 DEF MaterializeInsert
  <2>3. CASE central[ev.task.card] # NoTask
    BY <1>6, <2>3 DEF MaterializeInsert, Advances
  <2> QED
    BY <2>2, <2>3
<1>7. CASE UNCHANGED <<central, changeSeq, materialized>>
  BY <1>7 DEF Advances
<1>8. \A w \in Writers : Write(w) \/ LoseEvents(w) => UNCHANGED <<central, changeSeq, materialized>>
  BY Frames DEF server
<1>9. \A q \in Pollers : Poll(q) \/ PollFails(q) => UNCHANGED <<central, changeSeq, materialized>>
  BY Frames DEF server
<1>10. /\ \A ev \in emitted : MaterializeMiss(ev) => UNCHANGED <<central, changeSeq, materialized>>
       /\ \A ev \in emitted \cup inserting : SkipMaterialize(ev) => UNCHANGED <<central, changeSeq, materialized>>
  BY DEF MaterializeMiss, SkipMaterialize
<1>11. UNCHANGED vars => UNCHANGED <<central, changeSeq, materialized>>
  BY DEF vars, server
<1> QED
  BY <1>1, <1>5, <1>6, <1>7, <1>8, <1>9, <1>10, <1>11 DEF Next, Materialize

LEMMA CentralForward ==
  ASSUME Typed, [Next]_vars
  PROVE  \A c \in Cards :
           /\ central'[c].version >= central[c].version /\ (central[c] # NoTask => central'[c] # NoTask)
           /\ central'[c] # central[c] =>
                /\ central'[c] # NoTask /\ central'[c].seq = changeSeq + 1
                /\ \A d \in Cards : d # c => central'[d] = central[d]
<1>1. \A c \in Cards : central[c].version \in Nat
  BY CardSyncAssumption DEF Typed, CentralOK, CentralType, NoTask
<1> QED
  BY <1>1, CentralAdvances DEF Advances

LEMMA NewestStep == Typed /\ NewestWins /\ [Next]_vars => NewestWins'
<1> SUFFICES ASSUME Typed, NewestWins, [Next]_vars, NEW ev \in materialized'
             PROVE  central'[ev.task.card].version >= ev.task.version
  BY DEF NewestWins
<1>1. CASE ev \notin materialized
  BY <1>1, CentralAdvances
<1>2. CASE ev \in materialized
  <2>1. ev.task.card \in Cards /\ ev.task.version \in Nat /\ central[ev.task.card].version >= ev.task.version
    BY <1>2, CardSyncAssumption DEF NewestWins, Typed, EventsOK, Event, Task
  <2>2. central'[ev.task.card].version >= central[ev.task.card].version
    BY <2>1, CentralForward
  <2>3. central[ev.task.card].version \in Nat /\ central'[ev.task.card].version \in Nat
    BY <2>1, TypedStep, CardSyncAssumption DEF Typed, CentralOK, CentralType, NoTask
  <2> QED
    BY <2>1, <2>2, <2>3
<1> QED
  BY <1>1, <1>2

LEMMA Invariance == Spec => []Typed
BY TypedInit, TypedStep, PTL DEF Spec

(* Module CardSync is type correct.                                        *)
THEOREM CardSyncTypeCorrect == Spec => []TypeOK
<1>1. Typed => TypeOK
  BY DEF Typed, SourceOK, WriterOK, EventsOK, CentralOK, PollerOK, TargetOK, CountersOK, TypeOK
<1> QED
  BY <1>1, Invariance, PTL

(* No reader of the central table or of a target sees a version with a     *)
(* status that the source never committed, in whatever order events and    *)
(* pages arrive and whatever is lost on the way.                           *)
THEOREM NothingInvented == Spec => []NoInventedState
<1>1. Typed => NoInventedState
  BY CentralRows DEF Typed, CentralOK, TargetOK, NoInventedState, GenuineRow, Row
<1> QED
  BY <1>1, Invariance, PTL

(* The central row is at least as new as every event materialized.         *)
THEOREM CentralKeepsNewest == Spec => []NewestWins
<1>1. Init => NewestWins
  BY DEF Init, NewestWins
<1> QED
  BY <1>1, NewestStep, TypedInit, TypedStep, PTL DEF Spec

(* The central row of a card never goes back, and every change of it moves *)
(* it past every cursor.                                                   *)
THEOREM CentralGoesForward == Spec => CentralMovesForward
<1>1. ASSUME Typed, [Next]_vars
      PROVE  \A c \in Cards : central'[c] # central[c] =>
               /\ central'[c].version >= central[c].version
               /\ \A d \in Cards : central[d] # NoTask => central'[c].seq > central[d].seq
               /\ central'[c].seq > inboxCursor
  <2>1. changeSeq \in Nat /\ inboxCursor \in Nat /\ inboxCursor <= changeSeq
    BY <1>1 DEF Typed, CentralOK, TargetOK
  <2>2. \A d \in Cards : central[d] # NoTask => central[d].seq \in Nat /\ central[d].seq <= changeSeq
    BY <1>1 DEF Typed, CentralOK, CentralType
  <2> QED
    BY <1>1, <2>1, <2>2, CentralForward
<1> QED
  BY <1>1, Invariance, PTL DEF Spec, CentralMovesForward

-----------------------------------------------------------------------------
(* One poller                                                              *)

Arrived == {c \in Cards : central[c] # NoTask}

(* No two rows of the central table carry the same change.                 *)
SeqsApart ==
  /\ IsFiniteSet(Arrived)
  /\ \A c, d \in Arrived : central[c].seq = central[d].seq => c = d

(* A row of a page is, or was, the central row of its card, and beyond the *)
(* cursor.                                                                 *)
RowsKnown(page) ==
  /\ \A r, s \in page : r.card = s.card => r = s
  /\ \A r \in page :
       /\ r.seq > inboxCursor
       /\ r.card \in Arrived /\ r.seq <= central[r.card].seq /\ r.version <= central[r.card].version
       /\ r.seq = central[r.card].seq => r = Row(r.card)

(* Between the cursor and any row of its page, nothing was left out.       *)
Complete(page) ==
  \A r \in page, c \in Arrived :
    inboxCursor < central[c].seq /\ central[c].seq <= r.seq => Row(c) \in page

(* What has been applied is in the target, and what is left is not older   *)
(* than what the target has.                                               *)
Applied(x) ==
  /\ \A r \in x.page \ x.left : targetRows[r.card] = <<Projection(r)>>
  /\ \A r \in x.left : targetRows[r.card] # <<>> => targetRows[r.card][1].version <= r.version
  /\ x.at = "insert" => targetRows[FirstOf(x.left).card] = <<>>

Polling(x) ==
  /\ x.at \in {"apply", "insert"} => RowsKnown(x.page) /\ Complete(x.page) /\ Applied(x)
  /\ x.at = "more" => x.since = inboxCursor

NotAhead == \A c \in Cards : targetRows[c] # <<>> => targetRows[c][1].version <= central[c].version

Covered == SeqsApart /\ NotAhead /\ CursorCovers /\ \A q \in Pollers : Polling(poller[q])

OnePoller == \A p, q \in Pollers : p = q

(* The types of what a poll holds, for arithmetic.                         *)
LEMMA PageTypes ==
  ASSUME Typed, NEW q \in Pollers, poller[q].at \in {"apply", "insert"}
  PROVE  /\ poller[q] \in [at : {"apply", "insert"}, page : SUBSET RowType, left : SUBSET RowType]
         /\ poller[q].left \subseteq poller[q].page
         /\ \A r \in poller[q].page : r \in RowType /\ r.card \in Cards /\ r.seq \in Nat /\ r.version \in Nat /\ r.seq <= changeSeq
<1>1. poller[q] \in [at : {"apply", "insert"}, page : SUBSET RowType, left : SUBSET RowType]
  BY PollerShape DEF Typed
<1>2. \A r \in poller[q].page : r \in RowType
  BY <1>1
<1>3. \A r \in RowType : r.card \in Cards /\ r.seq \in Nat /\ r.version \in Nat
  BY CardSyncAssumption DEF RowType
<1> QED
  BY <1>1, <1>2, <1>3 DEF Typed, PollerOK

LEMMA StateTypes ==
  ASSUME Typed
  PROVE  /\ changeSeq \in Nat /\ inboxCursor \in Nat /\ inboxCursor <= changeSeq
         /\ \A c \in Cards : central[c].version \in Nat
         /\ \A c \in Arrived : c \in Cards /\ central[c] \in CentralType /\ central[c].seq \in Nat /\ central[c].seq <= changeSeq
         /\ \A c \in Cards : targetRows[c] \in Seq(CardType) /\ Len(targetRows[c]) \in Nat
         /\ \A c \in Cards : targetRows[c] # <<>> => targetRows[c][1].version \in Nat
<1>1. \A c \in Cards : central[c].version \in Nat
  BY CardSyncAssumption DEF Typed, CentralOK, CentralType, NoTask
<1>2. \A c \in Arrived : c \in Cards /\ central[c] \in CentralType /\ central[c].seq \in Nat /\ central[c].seq <= changeSeq
  BY CentralRows DEF Typed, CentralOK, Arrived, CentralType
<1>3. \A c \in Cards : targetRows[c] \in Seq(CardType) /\ Len(targetRows[c]) \in Nat
  BY DEF Typed, TargetOK
<1>4. \A c \in Cards : targetRows[c] # <<>> => targetRows[c][1] \in CardType
  BY <1>3
<1>5. \A x \in CardType : x.version \in Nat
  BY CardSyncAssumption DEF CardType
<1>6. changeSeq \in Nat /\ inboxCursor \in Nat /\ inboxCursor <= changeSeq
  BY DEF Typed, CentralOK, TargetOK
<1> QED
  BY <1>1, <1>2, <1>3, <1>4, <1>5, <1>6

(* The server goes on under a poll.                                        *)
LEMMA ServerKeeps ==
  ASSUME Typed, Covered, [Next]_vars, UNCHANGED <<poller, targetRows, inboxCursor>>
  PROVE  Covered'
<1>0. \A c \in Cards : central'[c] # central[c] => central'[c].seq > changeSeq /\ central'[c].seq \in Nat
  BY CentralForward, StateTypes
<1>1. Arrived \subseteq Arrived' /\ \A c \in Arrived' : c \notin Arrived => central'[c] # central[c]
  BY CentralForward DEF Arrived
<1>2. SeqsApart'
  <2>1. IsFiniteSet(Arrived)'
    <3>1. CASE UNCHANGED <<central, changeSeq>>
      BY <3>1 DEF Covered, SeqsApart, Arrived
    <3>2. ASSUME NEW c \in Cards, \A d \in Cards : d # c => central'[d] = central[d] PROVE IsFiniteSet(Arrived)'
      <4>1. Arrived' \subseteq Arrived \cup {c}
        BY <3>2 DEF Arrived
      <4>2. IsFiniteSet(Arrived \cup {c})
        BY FS_AddElement DEF Covered, SeqsApart
      <4> QED
        BY <4>1, <4>2, FS_Subset
    <3> QED
      BY <3>1, <3>2, CentralAdvances DEF Advances
  <2>2. ASSUME NEW c \in Arrived', NEW d \in Arrived', central'[c].seq = central'[d].seq PROVE c = d
    <3>1. c \in Cards /\ d \in Cards
      BY DEF Arrived
    <3>2. CASE central'[c] = central[c] /\ central'[d] = central[d]
      BY <1>1, <2>2, <3>2 DEF Covered, SeqsApart
    <3>3. CASE central'[c] # central[c]
      <4>1. d # c => central'[d] = central[d]
        BY <3>1, <3>3, CentralForward
      <4>2. d # c => central[d].seq <= changeSeq
        BY <1>1, <4>1, StateTypes
      <4> QED
        BY <1>0, <2>2, <3>1, <3>3, <4>1, <4>2, StateTypes
    <3>4. CASE central'[d] # central[d]
      <4>1. d # c => central'[c] = central[c]
        BY <3>1, <3>4, CentralForward
      <4>2. d # c => central[c].seq <= changeSeq
        BY <1>1, <4>1, StateTypes
      <4> QED
        BY <1>0, <2>2, <3>1, <3>4, <4>1, <4>2, StateTypes
    <3> QED
      BY <3>2, <3>3, <3>4
  <2> QED
    BY <2>1, <2>2 DEF SeqsApart
<1>3. NotAhead'
  <2> SUFFICES ASSUME NEW c \in Cards, targetRows[c] # <<>> PROVE targetRows[c][1].version <= central'[c].version
    BY DEF NotAhead
  <2>1. targetRows[c][1].version <= central[c].version
    BY DEF Covered, NotAhead
  <2>2. central'[c].version >= central[c].version /\ central'[c].version \in Nat
    BY CentralForward, TypedStep, StateTypes, CardSyncAssumption DEF Typed, CentralOK, CentralType, NoTask
  <2> QED
    BY <2>1, <2>2, StateTypes
<1>4. CursorCovers'
  <2> SUFFICES ASSUME NEW c \in Cards
               PROVE  /\ Len(targetRows[c]) <= 1
                      /\ (central'[c] # NoTask /\ central'[c].seq <= inboxCursor) =>
                           targetRows[c] = <<[version |-> central'[c].version,
                                              status |-> sync_status_to_local(central'[c].status)]>>
    BY DEF CursorCovers
  <2>1. central'[c] # central[c] => ~(central'[c].seq <= inboxCursor)
    BY <1>0, StateTypes
  <2> QED
    BY <2>1 DEF Covered, CursorCovers
<1>5. ASSUME NEW q \in Pollers PROVE Polling(poller[q])'
  <2>0. poller'[q] = poller[q] /\ Polling(poller[q])
    BY DEF Covered
  <2>1. CASE poller[q].at \in {"apply", "insert"}
    <3> DEFINE page == poller[q].page
    <3>1. RowsKnown(page) /\ Complete(page) /\ Applied(poller[q])
      BY <2>0, <2>1 DEF Polling
    <3>2. ASSUME NEW r \in page
          PROVE  /\ r.card \in Arrived' /\ r.seq <= central'[r.card].seq /\ r.version <= central'[r.card].version
                 /\ r.seq = central'[r.card].seq => r = Row(r.card)'
      <4>1. /\ r.card \in Arrived /\ r.seq <= central[r.card].seq /\ r.version <= central[r.card].version
            /\ r.seq = central[r.card].seq => r = Row(r.card)
        BY <3>1 DEF RowsKnown
      <4>2. r.seq \in Nat /\ r.seq <= changeSeq /\ r.version \in Nat /\ r.card \in Cards
        BY <2>1, PageTypes
      <4>3. CASE central'[r.card] = central[r.card]
        BY <1>1, <4>1, <4>3 DEF Row
      <4>4. CASE central'[r.card] # central[r.card]
        <5>1. central'[r.card].seq > changeSeq /\ central'[r.card].seq \in Nat /\ changeSeq \in Nat
          BY <1>0, <4>2, <4>4, StateTypes
        <5>2. central'[r.card].version >= central[r.card].version /\ central'[r.card].version \in Nat /\ central[r.card].version \in Nat
          BY <4>2, CentralForward, TypedStep, StateTypes, CardSyncAssumption DEF Typed, CentralOK, CentralType, NoTask
        <5> QED
          BY <1>1, <4>1, <4>2, <5>1, <5>2
      <4> QED
        BY <4>3, <4>4
    <3>3. RowsKnown(poller[q].page)'
      BY <2>0, <3>1, <3>2 DEF RowsKnown
    <3>4. Complete(poller[q].page)'
      <4> SUFFICES ASSUME NEW r \in page, NEW c \in Arrived', inboxCursor < central'[c].seq, central'[c].seq <= r.seq
                   PROVE  Row(c)' \in page
        BY <2>0 DEF Complete
      <4>1. r.seq <= changeSeq /\ r.seq \in Nat /\ changeSeq \in Nat
        BY <2>1, PageTypes, StateTypes
      <4>2. c \in Cards
        BY DEF Arrived
      <4>3. central'[c] = central[c] /\ c \in Arrived
        BY <1>0, <1>1, <4>1, <4>2
      <4>4. Row(c)' = Row(c)
        BY <4>3 DEF Row
      <4> QED
        BY <3>1, <4>3, <4>4 DEF Complete
    <3>5. Applied(poller[q])'
      BY <2>0, <3>1 DEF Applied, Projection
    <3> QED
      BY <2>0, <2>1, <3>3, <3>4, <3>5 DEF Polling
  <2>2. CASE poller[q].at \notin {"apply", "insert"}
    BY <2>0, <2>2 DEF Polling
  <2> QED
    BY <2>1, <2>2
<1> QED
  BY <1>2, <1>3, <1>4, <1>5 DEF Covered

(* What a request answers is true, complete and not older than the target. *)
LEMMA Fetched ==
  ASSUME Typed, Covered
  PROVE  LET page == Page(inboxCursor) IN
         /\ RowsKnown(page) /\ Complete(page)
         /\ \A r \in page : targetRows[r.card] # <<>> => targetRows[r.card][1].version <= r.version
<1> DEFINE page == Page(inboxCursor)
           older(c) == {d \in ChangedSince(inboxCursor) : central[d].seq < central[c].seq}
<1>1. \A c : c \in ChangedSince(inboxCursor) <=> c \in Arrived /\ central[c].seq > inboxCursor
  BY DEF ChangedSince, Arrived
<1>2. \A r : r \in page <=> \E c \in ChangedSince(inboxCursor) : r = Row(c) /\ Cardinality(older(c)) < Limit
  BY DEF Page
<1>3. \A c \in Arrived : /\ Row(c).card = c /\ Row(c).seq = central[c].seq /\ Row(c).version = central[c].version
                         /\ c \in Cards /\ central[c].seq \in Nat /\ central[c].version \in Nat
  BY StateTypes DEF Row
<1>4. RowsKnown(page)
  <2>1. ASSUME NEW r \in page PROVE r.card \in Arrived /\ r = Row(r.card) /\ r.seq > inboxCursor
    <3>1. PICK c \in ChangedSince(inboxCursor) : r = Row(c)
      BY <1>2
    <3> QED
      BY <1>1, <1>3, <3>1
  <2>2. ASSUME NEW r \in page
        PROVE  r.seq <= central[r.card].seq /\ r.version <= central[r.card].version
    <3>1. r.card \in Arrived /\ r.seq = central[r.card].seq /\ r.version = central[r.card].version
      BY <1>3, <2>1
    <3> QED
      BY <1>3, <3>1
  <2>3. \A r, s \in page : r.card = s.card => r = s
    BY <2>1
  <2> HIDE DEF page
  <2> QED
    BY <2>1, <2>2, <2>3 DEF RowsKnown
<1>5. Complete(page)
  <2> SUFFICES ASSUME NEW r \in page, NEW c \in Arrived, inboxCursor < central[c].seq, central[c].seq <= r.seq
               PROVE  Row(c) \in page
    BY DEF Complete
  <2>1. PICK d \in ChangedSince(inboxCursor) : r = Row(d) /\ Cardinality(older(d)) < Limit
    BY <1>2
  <2>2. central[c].seq <= central[d].seq /\ central[c].seq \in Nat /\ central[d].seq \in Nat
    BY <1>1, <1>3, <2>1
  <2>3. c \in ChangedSince(inboxCursor)
    BY <1>1, <1>3, StateTypes
  <2>4. older(c) \subseteq older(d)
    <3>1. \A e \in ChangedSince(inboxCursor) : central[e].seq \in Nat
      BY <1>1, <1>3
    <3> QED
      BY <2>2, <3>1
  <2>5. older(d) \subseteq Arrived /\ IsFiniteSet(Arrived)
    BY <1>1 DEF Covered, SeqsApart
  <2> HIDE DEF older
  <2>6. IsFiniteSet(older(d)) /\ IsFiniteSet(older(c))
    BY <2>4, <2>5, FS_Subset
  <2>7. Cardinality(older(c)) <= Cardinality(older(d)) /\ Cardinality(older(c)) \in Nat /\ Cardinality(older(d)) \in Nat
    BY <2>4, <2>6, FS_Subset, FS_CardinalityType
  <2>8. Cardinality(older(c)) < Limit
    BY <2>1, <2>7, CardSyncAssumption
  <2> QED
    BY <1>2, <2>3, <2>8
<1>6. ASSUME NEW r \in page, targetRows[r.card] # <<>> PROVE targetRows[r.card][1].version <= r.version
  <2>1. PICK c \in ChangedSince(inboxCursor) : r = Row(c)
    BY <1>2
  <2>2. r.card = c /\ r.version = central[c].version /\ c \in Cards
    BY <1>1, <1>3, <2>1
  <2> QED
    BY <1>6, <2>2 DEF Covered, NotAhead
<1> QED
  BY <1>4, <1>5, <1>6

LEMMA PollerMoves ==
  ASSUME OnePoller, Typed, Covered, NEW q \in Pollers, NEW x, Polling(x), poller' = [poller EXCEPT ![q] = x],
         UNCHANGED <<central, targetRows, inboxCursor>>
  PROVE  Covered'
<1>1. poller'[q] = x /\ \A p \in Pollers : p = q
  BY DEF OnePoller, Typed, PollerOK
<1>2. Polling(poller[q])'
  BY <1>1 DEF Polling, RowsKnown, Complete, Applied, Row, Arrived, Projection
<1> QED
  BY <1>1, <1>2 DEF Covered, SeqsApart, Arrived, NotAhead, CursorCovers

LEMMA IdlePolling == Polling(NoPoll)
BY DEF Polling, NoPoll

(* A row that is applied replaces the target's card, which was not newer.  *)
LEMMA RowApplied ==
  ASSUME OnePoller, Typed, Covered, NEW q \in Pollers, NEW t,
         poller[q].at \in {"apply", "insert"}, t \in poller[q].left,
         targetRows'[t.card] = <<Projection(t)>>, \A c \in Cards : c # t.card => targetRows'[c] = targetRows[c],
         poller'[q] = [at |-> "apply", page |-> poller[q].page, left |-> poller[q].left \ {t}],
         UNCHANGED <<central, inboxCursor>>
  PROVE  /\ Covered'
         /\ \A c \in Cards : targetRows[c] # <<>> => targetRows'[c][1].version >= targetRows[c][1].version
<1> DEFINE x == poller[q]
<1>1. RowsKnown(x.page) /\ Complete(x.page) /\ Applied(x)
  BY DEF Covered, Polling
<1>2. x.left \subseteq x.page /\ t \in x.page /\ t.card \in Cards /\ t.seq \in Nat /\ t.version \in Nat
  BY PageTypes
<1>3. /\ poller'[q].at = "apply" /\ poller'[q].page = x.page /\ poller'[q].left = x.left \ {t}
      /\ \A p \in Pollers : p = q
  BY DEF OnePoller
<1>4. targetRows'[t.card] = <<Projection(t)>> /\ \A c \in Cards : c # t.card => targetRows'[c] = targetRows[c]
  OBVIOUS
<1>5. /\ t.seq > inboxCursor /\ t.card \in Arrived /\ t.seq <= central[t.card].seq
      /\ t.version <= central[t.card].version
  BY <1>1, <1>2 DEF RowsKnown
<1>6. Projection(t).version = t.version /\ Len(<<Projection(t)>>) = 1 /\ <<Projection(t)>>[1] = Projection(t)
  BY DEF Projection
<1>7. central[t.card].seq \in Nat /\ inboxCursor \in Nat
  BY <1>5, StateTypes
<1> HIDE DEF x
<1>8. NotAhead'
  BY <1>4, <1>5, <1>6 DEF Covered, NotAhead
<1>9. CursorCovers'
  <2>1. ~(central[t.card].seq <= inboxCursor)
    BY <1>5, <1>7, <1>2
  <2> SUFFICES ASSUME NEW c \in Cards
               PROVE  /\ Len(targetRows'[c]) <= 1
                      /\ (central[c] # NoTask /\ central[c].seq <= inboxCursor) =>
                           targetRows'[c] = <<[version |-> central[c].version,
                                               status |-> sync_status_to_local(central[c].status)]>>
    BY DEF CursorCovers
  <2>2. CASE c # t.card
    <3>1. targetRows'[c] = targetRows[c]
      BY <1>4, <2>2
    <3> QED
      BY <3>1 DEF Covered, CursorCovers
  <2>3. CASE c = t.card
    <3>1. Len(targetRows'[c]) = 1
      BY <1>4, <1>6, <2>3
    <3>2. ~(central[c].seq <= inboxCursor)
      BY <2>1, <2>3, Zenon
    <3> QED
      BY <3>1, <3>2
  <2> QED
    BY <2>2, <2>3
<1>10. RowsKnown(poller[q].page)' /\ Complete(poller[q].page)'
  BY <1>1, <1>3 DEF RowsKnown, Complete, Row, Arrived
<1>11. Applied(poller[q])'
  <2>1. \A r \in x.page : r.card \in Cards /\ (r.card = t.card => r = t)
    BY <1>1, <1>2, PageTypes DEF RowsKnown, x
  <2>2. \A r \in x.page \ (x.left \ {t}) : targetRows'[r.card] = <<Projection(r)>>
    BY <1>1, <1>4, <2>1 DEF Applied
  <2>3. \A r \in x.left \ {t} : targetRows'[r.card] = targetRows[r.card]
    BY <1>2, <1>4, <2>1
  <2>4. \A r \in x.left \ {t} : targetRows'[r.card] # <<>> => targetRows'[r.card][1].version <= r.version
    BY <1>1, <2>3 DEF Applied
  <2> QED
    BY <1>3, <2>2, <2>4 DEF Applied, Projection
<1>12. Polling(poller[q])'
  BY <1>3, <1>10, <1>11 DEF Polling
<1>13. ASSUME NEW c \in Cards, targetRows[c] # <<>> PROVE targetRows'[c][1].version >= targetRows[c][1].version
  <2>1. targetRows[c][1].version \in Nat
    BY <1>13, StateTypes
  <2>2. CASE c = t.card
    BY <1>1, <1>2, <1>4, <1>6, <1>13, <2>1, <2>2 DEF Applied, x
  <2> QED
    BY <1>4, <2>1, <2>2
<1> QED
  BY <1>3, <1>8, <1>9, <1>12, <1>13 DEF Covered, SeqsApart, Arrived

LEMMA PollKeeps ==
  ASSUME OnePoller, Typed, Covered, NEW q \in Pollers, Poll(q) \/ PollFails(q)
  PROVE  /\ Covered'
         /\ \A c \in Cards : targetRows[c] # <<>> => targetRows'[c][1].version >= targetRows[c][1].version
<1>0. UNCHANGED central
  BY Frames DEF server
<1>1. Polling(poller[q]) /\ CursorCovers /\ \A p \in Pollers : p = q
  BY DEF Covered, OnePoller
<1>2. UNCHANGED targetRows => \A c \in Cards : targetRows[c] # <<>> => targetRows'[c][1].version >= targetRows[c][1].version
  <2>1. \A c \in Cards : targetRows[c] # <<>> => targetRows[c][1].version \in Nat
    BY StateTypes
  <2> QED
    BY <2>1
<1>3. ASSUME GotPage(q, inboxCursor), UNCHANGED <<targetRows, inboxCursor>> PROVE Covered'
  <2>1. CASE ChangedSince(inboxCursor) = {}
    BY <1>0, <1>3, <2>1, IdlePolling, PollerMoves DEF GotPage
  <2>2. CASE ChangedSince(inboxCursor) # {}
    <3> DEFINE page == Page(inboxCursor)
               x == [at |-> "apply", page |-> page, left |-> page]
    <3>1. RowsKnown(page) /\ Complete(page) /\ \A r \in page : targetRows[r.card] # <<>> => targetRows[r.card][1].version <= r.version
      BY Fetched
    <3> HIDE DEF page
    <3>2. Polling(x)
      BY <3>1 DEF Polling, Applied
    <3>3. poller' = [poller EXCEPT ![q] = x]
      BY <1>3, <2>2 DEF GotPage, page
    <3> HIDE DEF x
    <3> QED
      BY <1>0, <1>3, <3>2, <3>3, PollerMoves
  <2> QED
    BY <2>1, <2>2
<1>4. CASE StartPoll(q)
  BY <1>2, <1>3, <1>4 DEF StartPoll
<1>5. CASE NextPage(q)
  <2>1. poller[q].since = inboxCursor
    BY <1>1, <1>5 DEF NextPage, Polling
  <2> QED
    BY <1>2, <1>3, <1>5, <2>1 DEF NextPage
<1>6. CASE ApplyUpdate(q)
  <2> DEFINE t == FirstOf(poller[q].left)
             x == poller[q]
  <2>1. /\ x.at = "apply" /\ x.left # {} /\ inboxCursor' = inboxCursor
        /\ targetRows[t.card] # <<>>
        /\ targetRows' = [targetRows EXCEPT ![t.card] = [i \in DOMAIN targetRows[t.card] |-> Projection(t)]]
        /\ poller' = [poller EXCEPT ![q] = [x EXCEPT !.left = x.left \ {t}]]
    BY <1>6 DEF ApplyUpdate
  <2>2. t \in x.left /\ t.card \in Cards
    BY <2>1, NextApplied DEF RowType
  <2>3. x \in [at : {"apply", "insert"}, page : SUBSET RowType, left : SUBSET RowType]
    BY <2>1, PageTypes
  <2> HIDE DEF t, x
  <2>4. [x EXCEPT !.left = x.left \ {t}] = [at |-> "apply", page |-> x.page, left |-> x.left \ {t}]
    BY <2>1, <2>3
  <2>5. [i \in DOMAIN targetRows[t.card] |-> Projection(t)] = <<Projection(t)>>
    <3>1. targetRows[t.card] \in Seq(CardType) /\ Len(targetRows[t.card]) \in Nat /\ Len(targetRows[t.card]) <= 1
      BY <1>1, <2>2, StateTypes DEF CursorCovers
    <3>2. Len(targetRows[t.card]) # 0
      BY <2>1, <3>1, EmptySeq
    <3> DEFINE n == Len(targetRows[t.card])
    <3>3. n = 1
      <4>1. n \in Nat /\ n <= 1 /\ n # 0
        BY <3>1, <3>2
      <4> HIDE DEF n
      <4> QED
        BY <4>1
    <3>4. DOMAIN targetRows[t.card] = 1 .. 1
      BY <3>1, <3>3
    <3> QED
      BY <3>4
  <2>6. poller'[q] = [at |-> "apply", page |-> x.page, left |-> x.left \ {t}]
    BY <2>1, <2>4 DEF Typed, PollerOK
  <2>7. targetRows'[t.card] = <<Projection(t)>> /\ \A c \in Cards : c # t.card => targetRows'[c] = targetRows[c]
    BY <2>1, <2>2, <2>5 DEF Typed, TargetOK
  <2> QED
    BY <1>0, <2>1, <2>2, <2>6, <2>7, RowApplied DEF x
<1>7. CASE ApplyMiss(q)
  <2> DEFINE x == poller[q]
             y == [x EXCEPT !.at = "insert"]
  <2>1. /\ x.at = "apply" /\ x.left # {} /\ UNCHANGED <<targetRows, inboxCursor>>
        /\ targetRows[FirstOf(x.left).card] = <<>>
        /\ poller' = [poller EXCEPT ![q] = y]
    BY <1>7 DEF ApplyMiss
  <2>2. x \in [at : {"apply", "insert"}, page : SUBSET RowType, left : SUBSET RowType]
    BY <2>1, PageTypes
  <2>3. y.at = "insert" /\ y.page = x.page /\ y.left = x.left
    BY <2>2
  <2> HIDE DEF y
  <2>4. Polling(y)
    BY <1>1, <2>1, <2>3 DEF Polling, Applied
  <2> QED
    BY <1>0, <1>2, <2>1, <2>4, PollerMoves
<1>8. CASE ApplyInsert(q)
  <2> DEFINE t == FirstOf(poller[q].left)
             x == poller[q]
  <2>1. /\ x.at = "insert" /\ x.left # {} /\ inboxCursor' = inboxCursor /\ targetRows[t.card] = <<>>
    BY <1>1, <1>8 DEF ApplyInsert, Polling, Applied, Typed, PollerOK
  <2>2. t \in x.left /\ t.card \in Cards
    BY <2>1, NextApplied DEF RowType
  <2>3. x \in [at : {"apply", "insert"}, page : SUBSET RowType, left : SUBSET RowType]
    BY <2>1, PageTypes
  <2>4. targetRows' = [targetRows EXCEPT ![t.card] = Append(targetRows[t.card], Projection(t))]
    BY <1>8 DEF ApplyInsert
  <2> HIDE DEF x
  <2>5. poller' = [poller EXCEPT ![q] = [[x EXCEPT !.at = "apply"] EXCEPT !.left = x.left \ {t}]]
    BY <1>8, <2>3 DEF ApplyInsert, x
  <2> HIDE DEF t
  <2>6. [[x EXCEPT !.at = "apply"] EXCEPT !.left = x.left \ {t}] = [at |-> "apply", page |-> x.page, left |-> x.left \ {t}]
    <3> DEFINE y == [x EXCEPT !.at = "apply"]
    <3>1. y.at = "apply" /\ y.page = x.page /\ y.left = x.left /\ y \in [at : {"apply"}, page : SUBSET RowType, left : SUBSET RowType]
      BY <2>3
    <3> HIDE DEF y
    <3>2. [y EXCEPT !.left = x.left \ {t}] = [at |-> "apply", page |-> x.page, left |-> x.left \ {t}]
      BY <3>1
    <3> QED
      BY <3>2 DEF y
  <2>7. poller'[q] = [at |-> "apply", page |-> x.page, left |-> x.left \ {t}]
    BY <2>5, <2>6 DEF Typed, PollerOK
  <2>8. targetRows'[t.card] = <<Projection(t)>> /\ \A c \in Cards : c # t.card => targetRows'[c] = targetRows[c]
    BY <2>1, <2>2, <2>4 DEF Typed, TargetOK
  <2> QED
    BY <1>0, <2>1, <2>2, <2>7, <2>8, RowApplied DEF x
<1>9. CASE WriteInboxCursor(q)
  <2> DEFINE n == NextSince(poller[q].page)
             x == poller[q]
             y == IF Cardinality(x.page) < Limit THEN NoPoll ELSE [at |-> "more", since |-> n]
  <2>1. /\ x.at = "apply" /\ x.left = {} /\ inboxCursor' = n /\ UNCHANGED targetRows
        /\ poller' = [poller EXCEPT ![q] = y]
    BY <1>9 DEF WriteInboxCursor, SaveCursor
  <2>2. /\ n \in Nat /\ \E r \in x.page : r.seq = n
        /\ Complete(x.page) /\ \A r \in x.page : targetRows[r.card] = <<Projection(r)>>
    BY <1>1, <2>1, NextCursor DEF Polling, Applied
  <2> HIDE DEF n
  <2>3. CursorCovers'
    <3> SUFFICES ASSUME NEW c \in Cards, central[c] # NoTask, central[c].seq <= n, ~(central[c].seq <= inboxCursor)
                 PROVE  targetRows[c] = <<[version |-> central[c].version, status |-> sync_status_to_local(central[c].status)]>>
      BY <1>0, <1>1, <2>1 DEF CursorCovers
    <3>1. c \in Arrived /\ central[c].seq > inboxCursor
      BY StateTypes DEF Arrived
    <3>2. Row(c) \in x.page
      BY <2>2, <3>1 DEF Complete
    <3> QED
      BY <2>2, <3>2 DEF Row, Projection
  <2>4. poller'[q] = y
    BY <2>1 DEF Typed, PollerOK
  <2>5. Polling(poller[q])'
    BY <2>1, <2>4 DEF Polling, NoPoll
  <2>6. SeqsApart' /\ NotAhead'
    BY <1>0, <2>1 DEF Covered, SeqsApart, Arrived, NotAhead
  <2> QED
    BY <1>1, <1>2, <2>1, <2>3, <2>5, <2>6 DEF Covered
<1>10. CASE PollFails(q)
  BY <1>0, <1>2, <1>10, IdlePolling, PollerMoves DEF PollFails
<1> QED
  BY <1>4, <1>5, <1>6, <1>7, <1>8, <1>9, <1>10 DEF Poll

LEMMA CoveredInit == Init => Covered
<1> SUFFICES ASSUME Init PROVE Covered
  OBVIOUS
<1>1. Arrived = {}
  BY DEF Init, Arrived
<1>2. SeqsApart
  BY <1>1, FS_EmptySet DEF SeqsApart
<1>3. NotAhead /\ CursorCovers
  BY DEF Init, NotAhead, CursorCovers
<1> QED
  BY <1>2, <1>3, IdlePolling DEF Init, Covered

LEMMA CoveredStep ==
  ASSUME OnePoller, Typed, Covered, [Next]_vars
  PROVE  /\ Covered'
         /\ \A c \in Cards : targetRows[c] # <<>> => targetRows'[c][1].version >= targetRows[c][1].version
<1>1. ASSUME UNCHANGED target PROVE Covered' /\ \A c \in Cards : targetRows[c] # <<>> => targetRows'[c][1].version >= targetRows[c][1].version
  <2>1. \A c \in Cards : targetRows[c] # <<>> => targetRows[c][1].version \in Nat
    BY StateTypes
  <2> QED
    BY <1>1, <2>1, ServerKeeps DEF target
<1>2. \/ UNCHANGED target
      \/ \E q \in Pollers : Poll(q) \/ PollFails(q)
  BY Frames DEF Next, vars
<1> QED
  BY <1>1, <1>2, PollKeeps

LEMMA CoveredAlways == ASSUME OnePoller PROVE Spec => [](Typed /\ Covered)
<1>1. Typed /\ Covered /\ [Next]_vars => (Typed /\ Covered)'
  BY TypedStep, CoveredStep
<1> QED
  BY <1>1, TypedInit, CoveredInit, PTL DEF Spec

(* With one poller, whatever lies at or below the stored cursor is in the  *)
(* target as it is centrally, in one row: no poll, whole or broken off at  *)
(* any step, moves the cursor past a change it has not applied             *)
(* (task_inbox.poll_once, apply_task_projection).                          *)
THEOREM CursorCoversApplied == ASSUME OnePoller PROVE Spec => []CursorCovers
<1>1. Covered => CursorCovers
  BY DEF Covered
<1> QED
  BY <1>1, CoveredAlways, PTL

(* With one poller, neither the central row nor the target's card ever     *)
(* goes back to an older version.                                          *)
THEOREM VersionsGoForward == ASSUME OnePoller PROVE Spec => VersionsMoveForward
<1>1. ASSUME Typed, Covered, [Next]_vars
      PROVE  \A c \in Cards : targetRows[c] # <<>> => targetRows'[c][1].version >= targetRows[c][1].version
  BY <1>1, CoveredStep
<1>2. Spec => TargetMovesForward
  BY <1>1, CoveredAlways, PTL DEF Spec, TargetMovesForward
<1> QED
  BY <1>2, CentralGoesForward DEF VersionsMoveForward
=============================================================================
