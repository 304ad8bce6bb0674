---------------------------- MODULE OutboxProofs ----------------------------
(***************************************************************************)
(* Proofs about Outbox and OutboxRecreate, for any set of events, any      *)
(* number of drain workers and any batch, window, sample and fault bounds. *)
(*                                                                         *)
(* NoLineSkipped is not inductive: the cursor a worker writes was computed *)
(* when its batch was read, steps of other workers earlier. The inductive  *)
(* invariant says what a worker that holds a batch still owes              *)
(* (BatchCovers), that every offset in play is the end of a line           *)
(* (Boundary), so that a line parses the same way in every read, and that  *)
(* whole and spoiled lines stay apart (LinesOK, RecordedOK, DiscardedOK).  *)
(***************************************************************************)
EXTENDS OutboxRecreate, TLAPS

(* Chunk i is glued onto a fragment. *)
Glued(i) == i > 1 /\ ~outbox[i - 1].nl

(* Events that end a line that parses, and events that end one that cannot. *)
Clean == {e \in Events : \E i \in 1 .. Len(outbox) :
            outbox[i].ev = e /\ outbox[i].nl /\ ~Glued(i)}
Spoiled == {e \in Events : \E i \in 1 .. Len(outbox) :
            outbox[i].ev = e /\ outbox[i].nl /\ Glued(i)}

Boundary(n) == n <= Len(outbox) /\ (n > 0 => outbox[n].nl)

LinesOK ==
  /\ \A i \in 1 .. Len(outbox) : outbox[i].ev \notin fresh \cup Oversize
  /\ \A i, j \in 1 .. Len(outbox) : outbox[i].ev = outbox[j].ev => i = j

RecordedOK ==
  /\ central \subseteq Clean \ Rejectable
  /\ ingestErrors \subseteq Clean \cap Rejectable
  /\ \A evs \in late : evs \subseteq Clean

DiscardedOK ==
  \A e \in Discarded : e \notin fresh /\ e \in Oversize \cup Spoiled \cup ingestErrors

CursorOK ==
  /\ Boundary(cursor.offset)
  /\ \A i \in 1 .. cursor.offset : outbox[i].nl => outbox[i].ev \in Settled

(* What worker d still owes for the lines before upto[d]. *)
Owed(d) == IF pc[d] = "resolving" THEN toDead[d] ELSE send[d] \cup junk[d]

BatchCovers(d) ==
  pc[d] \in {"posting", "answered", "resolving"} =>
    \A i \in 1 .. upto[d] : outbox[i].nl => outbox[i].ev \in Settled \cup Owed(d)

BatchOK(d) ==
  /\ send[d] \subseteq Clean
  /\ junk[d] \subseteq Spoiled
  /\ Boundary(upto[d])
  /\ toDead[d] \subseteq Spoiled \cup ingestErrors
  /\ pc[d] = "answered" =>
       send[d] \ Rejectable \subseteq central /\ send[d] \cap Rejectable \subseteq ingestErrors

Inv ==
  /\ LinesOK
  /\ RecordedOK
  /\ DiscardedOK
  /\ CursorOK
  /\ \A d \in Drainers : BatchOK(d) /\ BatchCovers(d)

-----------------------------------------------------------------------------
(* Appending a chunk keeps the ones before it. *)
LEMMA AppendFacts ==
  ASSUME NEW s \in Seq(Chunk), NEW c \in Chunk
  PROVE  /\ Append(s, c) \in Seq(Chunk)
         /\ Len(Append(s, c)) = Len(s) + 1
         /\ \A i \in 1 .. Len(s) : Append(s, c)[i] = s[i]
         /\ Append(s, c)[Len(s) + 1] = c
OBVIOUS

(* A generation token is a sequence of chunks. *)
LEMMA GenerationType ==
  ASSUME NEW s \in Seq(Chunk)
  PROVE  Generation(s) \in Seq(Chunk)
BY OutboxAssumption DEF Generation, MinOf

(* Where a read starts is within the file and not behind the stored offset. *)
LEMMA ReadCursorBounds ==
  ASSUME TypeOK
  PROVE  /\ ReadCursor \in Nat
         /\ ReadCursor <= Len(outbox)
         /\ ReadCursor \in {0, cursor.offset}
BY DEF TypeOK, ReadCursor

(* The lines of a read are chunks of the file behind its start. *)
LEMMA LinesFromBounds ==
  ASSUME TypeOK, NEW start \in Nat, NEW i \in LinesFrom(start)
  PROVE  i \in Nat /\ i > start /\ i <= Len(outbox) /\ outbox[i] \in Chunk /\ outbox[i].nl
BY OutboxAssumption DEF TypeOK, LinesFrom, MinOf

(* No step of a producer, a worker or the server leaves the state space. *)
LEMMA TypeStep ==
  ASSUME TypeOK, [Next]_vars PROVE TypeOK'
<1> USE DEF TypeOK
<1>1. ASSUME NEW e \in Events, AppendLine(e) PROVE TypeOK'
  <2>1. [ev |-> e, nl |-> TRUE] \in Chunk
    BY DEF Chunk
  <2>2. QED
    BY <1>1, <2>1, AppendFacts DEF AppendLine, server, batch, faults
<1>2. ASSUME NEW e \in Events, AppendOversize(e) PROVE TypeOK'
  BY <1>2 DEF AppendOversize, server, batch, faults
<1>3. ASSUME NEW e \in Events, AppendTorn(e) PROVE TypeOK'
  <2>1. [ev |-> e, nl |-> FALSE] \in Chunk
    BY DEF Chunk
  <2>2. QED
    BY <1>3, <2>1, AppendFacts DEF AppendTorn, server, batch
<1>4. ASSUME NEW d \in Drainers, Register(d) PROVE TypeOK'
  BY <1>4 DEF Register, files, server, batch, faults
<1>5. ASSUME NEW d \in Drainers, ReadPending(d) PROVE TypeOK'
  <2>1. PICK last \in LinesFrom(ReadCursor) :
          LET lines == {i \in LinesFrom(ReadCursor) : i <= last}
              good  == {outbox[i].ev : i \in {j \in lines : ~Malformed(ReadCursor, j)}}
              bad   == {outbox[i].ev : i \in {j \in lines : Malformed(ReadCursor, j)}}
          IN  /\ send' = [send EXCEPT ![d] = good]
              /\ junk' = [junk EXCEPT ![d] = bad]
              /\ upto' = [upto EXCEPT ![d] = last]
              /\ IF good = {}
                 THEN /\ pc' = [pc EXCEPT ![d] = "resolving"]
                      /\ toDead' = [toDead EXCEPT ![d] = bad]
                 ELSE /\ pc' = [pc EXCEPT ![d] = "posting"]
                      /\ UNCHANGED toDead
    BY <1>5 DEF ReadPending
  <2> DEFINE lines == {i \in LinesFrom(ReadCursor) : i <= last}
             good  == {outbox[i].ev : i \in {j \in lines : ~Malformed(ReadCursor, j)}}
             bad   == {outbox[i].ev : i \in {j \in lines : Malformed(ReadCursor, j)}}
  <2>2. good \subseteq Events /\ bad \subseteq Events /\ last \in Nat
    <3>1. ReadCursor \in Nat
      BY ReadCursorBounds
    <3>2. \A i \in LinesFrom(ReadCursor) : i \in Nat /\ outbox[i].ev \in Events
      BY <3>1, LinesFromBounds DEF Chunk
    <3> QED
      BY <3>2
  <2> HIDE DEF good, bad
  <2>3. /\ send' = [send EXCEPT ![d] = good]
        /\ junk' = [junk EXCEPT ![d] = bad]
        /\ upto' = [upto EXCEPT ![d] = last]
        /\ pc' \in {[pc EXCEPT ![d] = "resolving"], [pc EXCEPT ![d] = "posting"]}
        /\ toDead' \in {[toDead EXCEPT ![d] = bad], toDead}
    BY <2>1 DEF good, bad
  <2>4. UNCHANGED <<files, server, late, faults>>
    BY <1>5 DEF ReadPending
  <2>5. QED
    BY <2>2, <2>3, <2>4 DEF files, server, faults
<1>6. ASSUME NEW d \in Drainers, Serve(d) PROVE TypeOK'
  BY <1>6 DEF Serve, Ingest, files, batch, faults
<1>7. ASSUME NEW d \in Drainers, Receive(d) PROVE TypeOK'
  BY <1>7 DEF Receive, files, server, batch, faults
<1>8. ASSUME NEW d \in Drainers, TooLarge(d) PROVE TypeOK'
  BY <1>8 DEF TooLarge, Forget, files, server, faults
<1>9. ASSUME NEW d \in Drainers, TransportFailure(d) PROVE TypeOK'
  BY <1>9 DEF TransportFailure, Forget, files, server
<1>10. ASSUME NEW d \in Drainers, WriteDeadLetter(d) PROVE TypeOK'
  BY <1>10 DEF WriteDeadLetter, server, batch, faults
<1>11. ASSUME NEW d \in Drainers, WriteCursor(d) PROVE TypeOK'
  BY <1>11, GenerationType DEF WriteCursor, Forget, server, faults
<1>12. ASSUME NEW d \in Drainers, Crash(d) PROVE TypeOK'
  BY <1>12 DEF Crash, Forget, files, server
<1>13. ASSUME NEW evs \in late, ServeLate(evs) PROVE TypeOK'
  BY <1>13 DEF ServeLate, Ingest, files, batch, faults
<1>14. CASE UNCHANGED vars
  BY <1>14 DEF vars
<1>15. QED
  BY <1>1, <1>2, <1>3, <1>4, <1>5, <1>6, <1>7, <1>8, <1>9, <1>10, <1>11,
     <1>12, <1>13, <1>14 DEF Next, Produce, Drain

(***************************************************************************)
(* Type correctness of the whole specification: offsets stay natural       *)
(* numbers and every batch holds events only, whatever the faults.         *)
(***************************************************************************)
THEOREM TypeCorrect == Spec => []TypeOK
<1>1. Init => TypeOK
  BY DEF Init, TypeOK, NoCursor, None
<1>2. TypeOK /\ [Next]_vars => TypeOK'
  BY TypeStep
<1>3. QED
  BY <1>1, <1>2, PTL DEF Spec

(***************************************************************************)
(* How the parts of the invariant move.                                    *)
(***************************************************************************)

(* Growing the file by one chunk spoils no line and moves no boundary. *)
LEMMA GrowingFile ==
  ASSUME TypeOK, NEW c \in Chunk, outbox' = Append(outbox, c)
  PROVE  /\ Clean \subseteq Clean' /\ Spoiled \subseteq Spoiled'
         /\ \A n \in Nat : Boundary(n) => Boundary(n)'
         /\ \A n \in Nat : Boundary(n) => \A i \in 1 .. n : outbox'[i] = outbox[i]
<1>1. /\ Len(outbox') = Len(outbox) + 1
      /\ \A i \in 1 .. Len(outbox) : outbox'[i] = outbox[i]
      /\ Len(outbox) \in Nat
  BY AppendFacts DEF TypeOK
<1>2. \A i \in 1 .. Len(outbox) : Glued(i)' = Glued(i)
  BY <1>1 DEF Glued
<1>3. \A n \in Nat : Boundary(n) => Boundary(n)'
  BY <1>1 DEF Boundary
<1>4. Clean \subseteq Clean' /\ Spoiled \subseteq Spoiled'
  BY <1>1, <1>2 DEF Clean, Spoiled
<1>5. QED
  BY <1>1, <1>3, <1>4 DEF Boundary

(* An unchanged file has the same lines. *)
LEMMA SameFile ==
  ASSUME UNCHANGED outbox
  PROVE  /\ Clean' = Clean /\ Spoiled' = Spoiled
         /\ \A n : Boundary(n)' = Boundary(n)
BY DEF Clean, Spoiled, Glued, Boundary

(* A line that parses is not one that cannot: events are unique. *)
LEMMA CleanOrSpoiled ==
  ASSUME LinesOK PROVE Clean \cap Spoiled = {}
BY DEF LinesOK, Clean, Spoiled

(* A settled event stays settled. *)
LEMMA SettledGrows ==
  ASSUME TypeOK, [Next]_vars PROVE Settled \subseteq Settled'
<1>1. central \subseteq central'
  BY DEF Next, vars, Produce, Drain, AppendLine, AppendOversize, AppendTorn, Register,
         ReadPending, Serve, ServeLate, Ingest, Receive, TooLarge, TransportFailure,
         WriteDeadLetter, WriteCursor, Crash, files, server, batch, faults
<1>2. \A e \in Events : dead'[e] >= dead[e]
  <2>1. CASE UNCHANGED dead
    BY <2>1 DEF TypeOK
  <2>2. CASE \E e \in Events : dead' = [dead EXCEPT ![e] = @ + 1]
    BY <2>2 DEF TypeOK
  <2>3. QED
    <3>1. ASSUME NEW e \in Events, AppendOversize(e)
          PROVE  \E f \in Events : dead' = [dead EXCEPT ![f] = @ + 1]
      BY <3>1 DEF AppendOversize
    <3>2. ASSUME NEW d \in Drainers, WriteDeadLetter(d)
          PROVE  \E f \in Events : dead' = [dead EXCEPT ![f] = @ + 1]
      BY <3>2 DEF WriteDeadLetter, TypeOK
    <3>3. QED
      BY <2>1, <2>2, <3>1, <3>2
      DEF Next, vars, Produce, Drain, AppendLine, AppendTorn, Register,
          ReadPending, Serve, ServeLate, Receive, TooLarge, TransportFailure,
          WriteCursor, Crash, files
<1>3. QED
  BY <1>1, <1>2, TypeStep DEF Settled, Discarded, TypeOK

(* What every step leaves in place. *)
Grows ==
  /\ Clean \subseteq Clean' /\ Spoiled \subseteq Spoiled'
  /\ Settled \subseteq Settled'
  /\ central \subseteq central' /\ ingestErrors \subseteq ingestErrors'
  /\ \A n \in Nat : Boundary(n) => Boundary(n)'
  /\ \A n \in Nat : Boundary(n) => \A i \in 1 .. n : outbox'[i] = outbox[i]

LEMMA StepGrows ==
  ASSUME TypeOK, [Next]_vars PROVE Grows
<1>1. central \subseteq central' /\ ingestErrors \subseteq ingestErrors'
  BY DEF Next, vars, Produce, Drain, AppendLine, AppendOversize, AppendTorn, Register,
         ReadPending, Serve, ServeLate, Ingest, Receive, TooLarge, TransportFailure,
         WriteDeadLetter, WriteCursor, Crash, files, server, batch, faults
<1>2. \/ UNCHANGED outbox
      \/ \E c \in Chunk : outbox' = Append(outbox, c)
  BY DEF Next, vars, Produce, Drain, AppendLine, AppendOversize, AppendTorn, Register,
         ReadPending, Serve, ServeLate, Receive, TooLarge, TransportFailure,
         WriteDeadLetter, WriteCursor, Crash, files, Chunk
<1>3. CASE UNCHANGED outbox
  BY <1>1, <1>3, SettledGrows, SameFile DEF Grows
<1>4. CASE \E c \in Chunk : outbox' = Append(outbox, c)
  BY <1>1, <1>4, SettledGrows, GrowingFile DEF Grows
<1>5. QED
  BY <1>2, <1>3, <1>4

(* A worker that does not move keeps its part of the invariant. *)
LEMMA OtherWorker ==
  ASSUME TypeOK, Grows, NEW d \in Drainers, BatchOK(d), BatchCovers(d),
         pc'[d] = pc[d], send'[d] = send[d], junk'[d] = junk[d],
         upto'[d] = upto[d], toDead'[d] = toDead[d]
  PROVE  BatchOK(d)' /\ BatchCovers(d)'
<1>1. upto[d] \in Nat /\ Boundary(upto[d])
  BY DEF TypeOK, BatchOK
<1>2. BatchOK(d)'
  BY <1>1 DEF BatchOK, Grows
<1>3. Owed(d)' = Owed(d)
  BY DEF Owed
<1>4. BatchCovers(d)'
  BY <1>1, <1>3 DEF BatchCovers, Grows
<1>5. QED
  BY <1>2, <1>4

(* A worker without a batch owes nothing. *)
LEMMA NoBatch ==
  ASSUME TypeOK, TypeOK', NEW d \in Drainers,
         Forget(d), pc'[d] \in {"offline", "ready"}
  PROVE  BatchOK(d)' /\ BatchCovers(d)'
<1>1. send'[d] = {} /\ junk'[d] = {} /\ upto'[d] = 0 /\ toDead'[d] = {}
  BY DEF Forget, TypeOK
<1>2. Len(outbox') \in Nat
  BY DEF TypeOK
<1>3. QED
  BY <1>1, <1>2 DEF BatchOK, BatchCovers, Boundary

(* A cursor nobody writes stays behind settled lines. *)
LEMMA SameCursor ==
  ASSUME TypeOK, Grows, CursorOK, UNCHANGED cursor PROVE CursorOK'
<1>1. cursor.offset \in Nat
  BY DEF TypeOK
<1>2. QED
  BY <1>1 DEF CursorOK, Grows

(* Without a producer, a server or a dead letter involved, the lines, the
   central store and the dead letters are as they were. *)
LEMMA SameStores ==
  ASSUME LinesOK, RecordedOK, DiscardedOK, UNCHANGED <<fresh, outbox, dead, central, ingestErrors>>,
         \A evs \in late' : evs \in late \/ evs \subseteq Clean
  PROVE  LinesOK' /\ RecordedOK' /\ DiscardedOK'
<1>1. Clean' = Clean /\ Spoiled' = Spoiled
  BY SameFile
<1>2. LinesOK'
  BY DEF LinesOK
<1>3. RecordedOK'
  BY <1>1 DEF RecordedOK
<1>4. DiscardedOK'
  BY <1>1 DEF DiscardedOK, Discarded
<1>5. QED
  BY <1>2, <1>3, <1>4

(* A line, or a fragment of one, is appended. *)
LEMMA AppendKeepsInv ==
  ASSUME TypeOK, TypeOK', Inv, Grows, NEW e \in fresh \ Oversize, NEW c \in Chunk, c.ev = e,
         fresh' = fresh \ {e}, outbox' = Append(outbox, c),
         UNCHANGED <<cursor, dead, server, late, pc, batch, toDead>>
  PROVE  Inv'
<1>1. LinesOK'
  <2>1. /\ Len(outbox') = Len(outbox) + 1 /\ outbox'[Len(outbox) + 1] = c /\ Len(outbox) \in Nat
        /\ \A i \in 1 .. Len(outbox) : outbox'[i] = outbox[i]
    BY AppendFacts DEF TypeOK
  <2> QED
    BY <2>1 DEF Inv, LinesOK
<1>2. RecordedOK'
  BY DEF Inv, RecordedOK, Grows, server
<1>3. DiscardedOK'
  BY DEF Inv, DiscardedOK, Discarded, Grows, server
<1>4. CursorOK'
  BY SameCursor DEF Inv
<1>5. ASSUME NEW d \in Drainers PROVE BatchOK(d)' /\ BatchCovers(d)'
  BY OtherWorker DEF Inv, batch
<1>6. QED
  BY <1>1, <1>2, <1>3, <1>4, <1>5 DEF Inv

(* What read_pending puts into a batch: the lines between the cursor and
   last, each parsed as it would be in any other read. *)
LEMMA ReadKeepsInv ==
  ASSUME TypeOK, TypeOK', Inv, Grows, NEW d \in Drainers, ReadPending(d)
  PROVE  BatchOK(d)' /\ BatchCovers(d)'
<1> DEFINE start == ReadCursor
<1>1. PICK last \in LinesFrom(start) :
        LET lines == {i \in LinesFrom(start) : i <= last}
            good  == {outbox[i].ev : i \in {j \in lines : ~Malformed(start, j)}}
            bad   == {outbox[i].ev : i \in {j \in lines : Malformed(start, j)}}
        IN  /\ send' = [send EXCEPT ![d] = good]
            /\ junk' = [junk EXCEPT ![d] = bad]
            /\ upto' = [upto EXCEPT ![d] = last]
            /\ IF good = {}
               THEN /\ pc' = [pc EXCEPT ![d] = "resolving"]
                    /\ toDead' = [toDead EXCEPT ![d] = bad]
               ELSE /\ pc' = [pc EXCEPT ![d] = "posting"]
                    /\ UNCHANGED toDead
  BY DEF ReadPending
<1> DEFINE lines == {i \in LinesFrom(start) : i <= last}
           good  == {outbox[i].ev : i \in {j \in lines : ~Malformed(start, j)}}
           bad   == {outbox[i].ev : i \in {j \in lines : Malformed(start, j)}}
<1>2. UNCHANGED <<outbox, central, ingestErrors, dead>>
  BY DEF ReadPending, files, server
<1>3. /\ start \in Nat /\ start <= Len(outbox) /\ Len(outbox) \in Nat
      /\ start > 0 => outbox[start].nl
      /\ \A i \in 1 .. start : outbox[i].nl => outbox[i].ev \in Settled
  BY ReadCursorBounds DEF Inv, CursorOK, Boundary, TypeOK
<1>4. \A i \in lines : /\ i \in 1 .. Len(outbox) /\ i > start /\ outbox[i].nl
                       /\ outbox[i].ev \in Events
                       /\ Malformed(start, i) <=> Glued(i)
  BY <1>3, LinesFromBounds DEF Malformed, Glued, Chunk
<1>5. good \subseteq Clean /\ bad \subseteq Spoiled
  BY <1>4 DEF Clean, Spoiled
<1>6. last \in Nat /\ last > start /\ last <= Len(outbox) /\ outbox[last].nl
  BY <1>3, LinesFromBounds
<1>7. \A i \in 1 .. last : outbox[i].nl => outbox[i].ev \in Settled \cup good \cup bad
  <2>1. ASSUME NEW i \in 1 .. last, outbox[i].nl, i > start PROVE i \in lines
    BY <1>3, <1>6, <2>1, OutboxAssumption DEF LinesFrom, MinOf
  <2>2. QED
    BY <1>3, <2>1
<1> HIDE DEF good, bad, lines, start
<1>8. /\ send'[d] = good /\ junk'[d] = bad /\ upto'[d] = last
      /\ \/ pc'[d] = "resolving" /\ toDead'[d] = bad /\ good = {}
         \/ pc'[d] = "posting" /\ toDead'[d] = toDead[d]
  BY <1>1 DEF good, bad, lines, TypeOK
<1>9. Clean' = Clean /\ Spoiled' = Spoiled /\ Boundary(last)' /\ Settled' = Settled
  BY <1>2, <1>6, SameFile DEF Boundary, Settled, Discarded
<1>10. BatchOK(d)'
  BY <1>2, <1>5, <1>8, <1>9 DEF BatchOK, Inv
<1>11. BatchCovers(d)'
  BY <1>2, <1>7, <1>8, <1>9 DEF BatchCovers, Owed
<1>12. QED
  BY <1>10, <1>11

(* The inductive step, one action at a time. *)
LEMMA InvStep ==
  ASSUME TypeOK, Inv, [Next]_vars PROVE Inv'
<1>1. TypeOK' /\ Grows
  BY TypeStep, StepGrows
<1>2. ASSUME NEW e \in Events, AppendLine(e) PROVE Inv'
  <2>1. [ev |-> e, nl |-> TRUE] \in Chunk
    BY DEF Chunk
  <2>2. QED
    BY <1>1, <1>2, <2>1, AppendKeepsInv DEF AppendLine
<1>3. ASSUME NEW e \in Events, AppendTorn(e) PROVE Inv'
  <2>1. [ev |-> e, nl |-> FALSE] \in Chunk
    BY DEF Chunk
  <2>2. QED
    BY <1>1, <1>3, <2>1, AppendKeepsInv DEF AppendTorn
<1>4. ASSUME NEW e \in Events, AppendOversize(e) PROVE Inv'
  <2>1. UNCHANGED <<outbox, cursor, central, ingestErrors, late, pc, send, junk, upto, toDead>>
    BY <1>4 DEF AppendOversize, server, batch
  <2>2. Clean' = Clean /\ Spoiled' = Spoiled
    BY <2>1, SameFile
  <2>3. LinesOK'
    BY <1>4, <2>1 DEF AppendOversize, LinesOK, Inv
  <2>4. RecordedOK'
    BY <2>1, <2>2 DEF RecordedOK, Inv
  <2>5. DiscardedOK'
    BY <1>4, <2>1, <2>2 DEF AppendOversize, DiscardedOK, Discarded, Inv, TypeOK
  <2>6. CursorOK'
    BY <1>1, <2>1, SameCursor DEF Inv
  <2>7. ASSUME NEW d \in Drainers PROVE BatchOK(d)' /\ BatchCovers(d)'
    BY <1>1, <2>1, OtherWorker DEF Inv
  <2>8. QED
    BY <2>3, <2>4, <2>5, <2>6, <2>7 DEF Inv
<1>5. ASSUME NEW d \in Drainers, Register(d) PROVE Inv'
  <2>1. UNCHANGED <<fresh, outbox, cursor, dead, central, ingestErrors, late, send, junk, upto, toDead>>
    BY <1>5 DEF Register, files, server, batch
  <2>2. LinesOK' /\ RecordedOK' /\ DiscardedOK'
    BY <2>1, SameStores DEF Inv
  <2>3. CursorOK'
    BY <1>1, <2>1, SameCursor DEF Inv
  <2>4. BatchOK(d)' /\ BatchCovers(d)'
    <3>1. pc'[d] = "ready"
      BY <1>5 DEF Register, TypeOK
    <3>2. QED
      BY <2>1, <3>1, SameFile DEF Inv, BatchOK, BatchCovers
  <2>5. ASSUME NEW x \in Drainers, x # d PROVE BatchOK(x)' /\ BatchCovers(x)'
    BY <1>1, <1>5, <2>1, <2>5, OtherWorker DEF Register, Inv, TypeOK
  <2>6. QED
    BY <2>2, <2>3, <2>4, <2>5 DEF Inv
<1>6. ASSUME NEW d \in Drainers, ReadPending(d) PROVE Inv'
  <2>1. UNCHANGED <<fresh, outbox, cursor, dead, central, ingestErrors, late>>
    BY <1>6 DEF ReadPending, files, server
  <2>2. LinesOK' /\ RecordedOK' /\ DiscardedOK'
    BY <2>1, SameStores DEF Inv
  <2>3. CursorOK'
    BY <1>1, <2>1, SameCursor DEF Inv
  <2>4. BatchOK(d)' /\ BatchCovers(d)'
    BY <1>1, <1>6, ReadKeepsInv
  <2>5. ASSUME NEW x \in Drainers, x # d PROVE BatchOK(x)' /\ BatchCovers(x)'
    <3>1. /\ pc'[x] = pc[x] /\ send'[x] = send[x] /\ junk'[x] = junk[x]
          /\ upto'[x] = upto[x] /\ toDead'[x] = toDead[x]
      BY <1>6, <2>5 DEF ReadPending, TypeOK
    <3>2. QED
      BY <1>1, <3>1, OtherWorker DEF Inv
  <2>6. QED
    BY <2>2, <2>3, <2>4, <2>5 DEF Inv
<1>7. ASSUME NEW d \in Drainers, Serve(d) PROVE Inv'
  <2>1. UNCHANGED <<fresh, outbox, cursor, dead, late, send, junk, upto, toDead>>
    BY <1>7 DEF Serve, files, batch
  <2>2. Clean' = Clean /\ Spoiled' = Spoiled
    BY <2>1, SameFile
  <2>3. /\ send[d] \subseteq Clean
        /\ central' = central \cup (send[d] \ Rejectable)
        /\ ingestErrors' = ingestErrors \cup (send[d] \cap Rejectable)
    BY <1>7 DEF Serve, Ingest, Inv, BatchOK
  <2>4. LinesOK'
    BY <2>1 DEF LinesOK, Inv
  <2>5. RecordedOK'
    BY <2>1, <2>2, <2>3 DEF RecordedOK, Inv
  <2>6. DiscardedOK'
    BY <2>1, <2>2, <2>3 DEF DiscardedOK, Discarded, Inv
  <2>7. CursorOK'
    BY <1>1, <2>1, SameCursor DEF Inv
  <2>8. BatchOK(d)' /\ BatchCovers(d)'
    <3>1. pc[d] = "posting" /\ pc'[d] = "answered"
      BY <1>7 DEF Serve, TypeOK
    <3>2. BatchOK(d)'
      BY <2>1, <2>2, <2>3, SameFile DEF BatchOK, Inv
    <3>3. BatchCovers(d)'
      BY <1>1, <2>1, <3>1 DEF BatchCovers, Owed, Grows, Inv
    <3>4. QED
      BY <3>2, <3>3
  <2>9. ASSUME NEW x \in Drainers, x # d PROVE BatchOK(x)' /\ BatchCovers(x)'
    BY <1>1, <1>7, <2>1, <2>9, OtherWorker DEF Serve, Inv, TypeOK
  <2>10. QED
    BY <2>4, <2>5, <2>6, <2>7, <2>8, <2>9 DEF Inv
<1>8. ASSUME NEW evs \in late, ServeLate(evs) PROVE Inv'
  <2>1. UNCHANGED <<fresh, outbox, cursor, dead, pc, send, junk, upto, toDead>>
    BY <1>8 DEF ServeLate, files, batch
  <2>2. Clean' = Clean /\ Spoiled' = Spoiled
    BY <2>1, SameFile
  <2>3. /\ evs \subseteq Clean /\ late' = late \ {evs}
        /\ central' = central \cup (evs \ Rejectable)
        /\ ingestErrors' = ingestErrors \cup (evs \cap Rejectable)
    BY <1>8 DEF ServeLate, Ingest, Inv, RecordedOK
  <2>4. LinesOK'
    BY <2>1 DEF LinesOK, Inv
  <2>5. RecordedOK'
    BY <2>2, <2>3 DEF RecordedOK, Inv
  <2>6. DiscardedOK'
    BY <2>1, <2>2, <2>3 DEF DiscardedOK, Discarded, Inv
  <2>7. CursorOK'
    BY <1>1, <2>1, SameCursor DEF Inv
  <2>8. ASSUME NEW x \in Drainers PROVE BatchOK(x)' /\ BatchCovers(x)'
    BY <1>1, <2>1, OtherWorker DEF Inv
  <2>9. QED
    BY <2>4, <2>5, <2>6, <2>7, <2>8 DEF Inv
<1>9. ASSUME NEW d \in Drainers, Receive(d) PROVE Inv'
  <2>1. UNCHANGED <<fresh, outbox, cursor, dead, central, ingestErrors, late, send, junk, upto>>
    BY <1>9 DEF Receive, files, server, batch
  <2>2. LinesOK' /\ RecordedOK' /\ DiscardedOK'
    BY <2>1, SameStores DEF Inv
  <2>3. CursorOK'
    BY <1>1, <2>1, SameCursor DEF Inv
  <2>4. BatchOK(d)' /\ BatchCovers(d)'
    <3>1. /\ pc[d] = "answered" /\ pc'[d] = "resolving"
          /\ toDead'[d] = junk[d] \cup (send[d] \cap Rejectable)
      BY <1>9 DEF Receive, TypeOK
    <3>2. BatchOK(d)'
      BY <2>1, <3>1, SameFile DEF BatchOK, Inv
    <3>3. \A e \in send[d] \cup junk[d] : e \in Settled \cup toDead'[d]
      BY <3>1 DEF BatchOK, Inv, Settled
    <3>4. BatchCovers(d)'
      BY <2>1, <3>1, <3>3 DEF BatchCovers, Owed, Inv, Settled, Discarded
    <3>5. QED
      BY <3>2, <3>4
  <2>5. ASSUME NEW x \in Drainers, x # d PROVE BatchOK(x)' /\ BatchCovers(x)'
    BY <1>1, <1>9, <2>1, <2>5, OtherWorker DEF Receive, Inv, TypeOK
  <2>6. QED
    BY <2>2, <2>3, <2>4, <2>5 DEF Inv
<1>10. ASSUME NEW d \in Drainers, TooLarge(d) \/ TransportFailure(d) \/ Crash(d) PROVE Inv'
  <2>1. /\ UNCHANGED <<fresh, outbox, cursor, dead, central, ingestErrors>>
        /\ Forget(d) /\ pc' = [pc EXCEPT ![d] = "offline"]
        /\ late' = late \/ late' = late \cup {send[d]}
    BY <1>10 DEF TooLarge, TransportFailure, Crash, files, server
  <2>2. LinesOK' /\ RecordedOK' /\ DiscardedOK'
    <3>1. \A evs \in late' : evs \in late \/ evs \subseteq Clean
      BY <2>1 DEF Inv, BatchOK
    <3>2. QED
      BY <2>1, <3>1, SameStores DEF Inv
  <2>3. CursorOK'
    BY <1>1, <2>1, SameCursor DEF Inv
  <2>4. BatchOK(d)' /\ BatchCovers(d)'
    BY <1>1, <2>1, NoBatch DEF TypeOK
  <2>5. ASSUME NEW x \in Drainers, x # d PROVE BatchOK(x)' /\ BatchCovers(x)'
    BY <1>1, <2>1, <2>5, OtherWorker DEF Forget, Inv, TypeOK
  <2>6. QED
    BY <2>2, <2>3, <2>4, <2>5 DEF Inv
<1>11. ASSUME NEW d \in Drainers, WriteDeadLetter(d) PROVE Inv'
  <2>1. PICK e \in toDead[d] : /\ dead' = [dead EXCEPT ![e] = @ + 1]
                               /\ toDead' = [toDead EXCEPT ![d] = @ \ {e}]
    BY <1>11 DEF WriteDeadLetter
  <2>2. UNCHANGED <<fresh, outbox, cursor, central, ingestErrors, late, pc, send, junk, upto>>
    BY <1>11 DEF WriteDeadLetter, server, batch
  <2>3. Clean' = Clean /\ Spoiled' = Spoiled
    BY <2>2, SameFile
  <2>4. e \in Spoiled \cup ingestErrors /\ e \in Events
    BY <2>1 DEF Inv, BatchOK, TypeOK
  <2>5. e \notin fresh
    BY <2>4 DEF Inv, LinesOK, RecordedOK, Clean, Spoiled
  <2>6. Discarded' = Discarded \cup {e}
    BY <2>1, <2>4 DEF Discarded, TypeOK
  <2>7. LinesOK'
    BY <2>2 DEF LinesOK, Inv
  <2>8. RecordedOK'
    BY <2>2, <2>3 DEF RecordedOK, Inv
  <2>9. DiscardedOK'
    BY <2>2, <2>3, <2>4, <2>5, <2>6 DEF DiscardedOK, Inv
  <2>10. CursorOK'
    BY <1>1, <2>2, SameCursor DEF Inv
  <2>11. BatchOK(d)' /\ BatchCovers(d)'
    <3>1. pc[d] = "resolving" /\ pc'[d] = "resolving" /\ toDead'[d] = toDead[d] \ {e}
      BY <1>11, <2>1, <2>2 DEF WriteDeadLetter, TypeOK
    <3>2. BatchOK(d)'
      BY <2>2, <2>3, <3>1, SameFile DEF BatchOK, Inv
    <3>3. BatchCovers(d)'
      BY <2>2, <2>6, <3>1 DEF BatchCovers, Owed, Inv, Settled
    <3>4. QED
      BY <3>2, <3>3
  <2>12. ASSUME NEW x \in Drainers, x # d PROVE BatchOK(x)' /\ BatchCovers(x)'
    BY <1>1, <2>1, <2>2, <2>12, OtherWorker DEF Inv, TypeOK
  <2>13. QED
    BY <2>7, <2>8, <2>9, <2>10, <2>11, <2>12 DEF Inv
<1>12. ASSUME NEW d \in Drainers, WriteCursor(d) PROVE Inv'
  <2>1. /\ UNCHANGED <<fresh, outbox, dead, central, ingestErrors, late>>
        /\ Forget(d) /\ pc' = [pc EXCEPT ![d] = "ready"]
        /\ pc[d] = "resolving" /\ toDead[d] = {} /\ cursor'.offset = upto[d]
    BY <1>12 DEF WriteCursor, server
  <2>2. LinesOK' /\ RecordedOK' /\ DiscardedOK'
    BY <2>1, SameStores DEF Inv
  <2>3. CursorOK'
    <3>1. PICK n \in Nat : n = upto[d]
      BY DEF TypeOK
    <3>2. Boundary(n)' /\ \A i \in 1 .. n : outbox[i].nl => outbox[i].ev \in Settled
      BY <2>1, <3>1, SameFile DEF Inv, BatchOK, BatchCovers, Owed
    <3>3. Settled' = Settled
      BY <2>1 DEF Settled, Discarded
    <3>4. QED
      BY <2>1, <3>1, <3>2, <3>3 DEF CursorOK
  <2>4. BatchOK(d)' /\ BatchCovers(d)'
    BY <1>1, <2>1, NoBatch DEF TypeOK
  <2>5. ASSUME NEW x \in Drainers, x # d PROVE BatchOK(x)' /\ BatchCovers(x)'
    BY <1>1, <2>1, <2>5, OtherWorker DEF Forget, Inv, TypeOK
  <2>6. QED
    BY <2>2, <2>3, <2>4, <2>5 DEF Inv
<1>13. CASE UNCHANGED vars
  <2>1. LinesOK' /\ RecordedOK' /\ DiscardedOK'
    BY <1>13, SameStores DEF vars, Inv
  <2>2. CursorOK'
    BY <1>1, <1>13, SameCursor DEF vars, Inv
  <2>3. ASSUME NEW d \in Drainers PROVE BatchOK(d)' /\ BatchCovers(d)'
    BY <1>1, <1>13, OtherWorker DEF vars, Inv
  <2>4. QED
    BY <2>1, <2>2, <2>3 DEF Inv
<1>14. QED
  BY <1>2, <1>3, <1>4, <1>5, <1>6, <1>7, <1>8, <1>9, <1>10, <1>11, <1>12, <1>13
  DEF Next, Produce, Drain

(* The inductive invariant holds of every reachable state. *)
LEMMA Invariance == Spec => [](TypeOK /\ Inv)
<1>1. Init => TypeOK /\ Inv
  <2>1. Init => TypeOK
    BY DEF Init, TypeOK, NoCursor, None
  <2>2. Init => Inv
    BY DEF Init, Inv, LinesOK, RecordedOK, DiscardedOK, CursorOK, BatchOK, BatchCovers,
           Boundary, Discarded, NoCursor
  <2>3. QED
    BY <2>1, <2>2
<1>2. TypeOK /\ Inv /\ [Next]_vars => (TypeOK /\ Inv)'
  BY TypeStep, InvStep
<1>3. QED
  BY <1>1, <1>2, PTL DEF Spec

(***************************************************************************)
(* No line is ever skipped: wherever the next read starts, every line      *)
(* before it is recorded centrally or dead-lettered, for any number of     *)
(* concurrent workers, failed, late and repeated requests, crashes between *)
(* any two steps and cursor resets.                                        *)
(***************************************************************************)
THEOREM NoLineEverSkipped == Spec => []NoLineSkipped
<1>1. TypeOK /\ Inv => NoLineSkipped
  BY ReadCursorBounds DEF Inv, CursorOK, NoLineSkipped
<1>2. QED
  BY <1>1, Invariance, PTL

(***************************************************************************)
(* An event is never both recorded centrally and dead-lettered.            *)
(***************************************************************************)
THEOREM AlwaysSettledOneWay == Spec => []SettledOneWay
<1>1. TypeOK /\ Inv => SettledOneWay
  <2> SUFFICES ASSUME TypeOK, Inv, NEW e \in central, e \in Discarded PROVE FALSE
    BY DEF SettledOneWay
  <2>1. e \in Clean /\ e \notin Rejectable
    BY DEF Inv, RecordedOK
  <2>2. e \notin Oversize
    BY <2>1 DEF Inv, LinesOK, Clean
  <2>3. e \notin Spoiled
    BY <2>1, CleanOrSpoiled DEF Inv
  <2>4. QED
    BY <2>1, <2>2, <2>3 DEF Inv, DiscardedOK, RecordedOK
<1>2. QED
  BY <1>1, Invariance, PTL

(***************************************************************************)
(* Only an oversized line, a line glued onto a fragment, or an event with  *)
(* a central error row is dead-lettered: a good line never is.             *)
(***************************************************************************)
THEOREM OnlyBadLinesEverDiscarded == Spec => []OnlyBadLinesDiscarded
<1>1. TypeOK /\ Inv => OnlyBadLinesDiscarded
  <2> SUFFICES ASSUME TypeOK, Inv, NEW e \in Discarded, e \in Spoiled PROVE EndsTornLine(e)
    BY DEF OnlyBadLinesDiscarded, Inv, DiscardedOK
  <2>1. PICK i \in 1 .. Len(outbox) : outbox[i].ev = e /\ outbox[i].nl /\ Glued(i)
    BY DEF Spoiled
  <2>2. i \in 2 .. Len(outbox) /\ ~outbox[i - 1].nl /\ outbox[i] \in Chunk
    BY <2>1 DEF Glued, TypeOK
  <2>3. outbox[i] = [ev |-> e, nl |-> TRUE]
    BY <2>1, <2>2 DEF Chunk
  <2>4. QED
    BY <2>2, <2>3 DEF EndsTornLine
<1>2. QED
  BY <1>1, Invariance, PTL

-----------------------------------------------------------------------------
(***************************************************************************)
(* Outbox implements Delivery.                                             *)
(***************************************************************************)

(* What is appended ends a line that parses or one that cannot. *)
LEMMA AppendedLines ==
  ASSUME TypeOK PROVE Appended = Clean \cup Spoiled
<1>1. \A i \in 1 .. Len(outbox) : outbox[i].ev \in Events
  <2>1. \A i \in 1 .. Len(outbox) : outbox[i] \in Chunk
    BY DEF TypeOK
  <2>2. QED
    BY <2>1 DEF Chunk
<1>2. ASSUME NEW e \in Appended PROVE e \in Clean \cup Spoiled
  <2>1. PICK i \in 1 .. Len(outbox) : outbox[i].nl /\ outbox[i].ev = e
    BY <1>2 DEF Appended
  <2>2. QED
    BY <1>1, <2>1 DEF Clean, Spoiled
<1>3. ASSUME NEW e \in Clean \cup Spoiled PROVE e \in Appended
  <2>1. PICK i \in 1 .. Len(outbox) : outbox[i].nl /\ outbox[i].ev = e
    BY <1>3 DEF Clean, Spoiled
  <2>2. QED
    BY <2>1 DEF Appended
<1>4. QED
  BY <1>2, <1>3

(* A clean event the server accepts has not been discarded. *)
LEMMA AcceptedNotDiscarded ==
  ASSUME TypeOK, Inv, NEW e \in Clean \ Rejectable PROVE e \notin Discarded
<1>1. e \notin Oversize /\ e \notin Spoiled
  BY CleanOrSpoiled DEF Inv, LinesOK, Clean
<1>2. QED
  BY <1>1 DEF Inv, DiscardedOK, RecordedOK

(* One ingest transaction records a batch of queued events. *)
LEMMA IngestRecords ==
  ASSUME TypeOK, Inv, NEW evs \in SUBSET Clean, Ingest(evs), UNCHANGED <<outbox, dead>>
  PROVE  Abstract!DNext
<1> DEFINE S == (evs \ Rejectable) \ central
<1>1. S \in SUBSET Events /\ S \subseteq Appended
  BY AppendedLines DEF Clean
<1>2. S \cap Discarded = {}
  BY AcceptedNotDiscarded
<1>3. Appended' = Appended /\ Discarded' = Discarded /\ central' = central \cup S
  BY DEF Appended, Discarded, Ingest
<1> HIDE DEF S
<1>4. S \subseteq Appended \ Settled
  BY <1>1, <1>2 DEF S, Settled
<1>5. (Appended \ Settled)' = (Appended \ Settled) \ S
  BY <1>3 DEF Settled
<1>6. Abstract!Record(S)
  BY <1>3, <1>4, <1>5 DEF Abstract!Record
<1>7. QED
  BY <1>1, <1>6 DEF Abstract!DNext

(* Every step of Outbox is a step of Delivery, or changes nothing there. *)
LEMMA StepRefines ==
  ASSUME TypeOK, Inv, [Next]_vars PROVE [Abstract!DNext]_(Abstract!dvars)
<1> DEFINE Stutters == UNCHANGED <<Appended \ Settled, central, Discarded>>
<1>0. Stutters => UNCHANGED Abstract!dvars
  BY DEF Abstract!dvars
<1>1. ASSUME UNCHANGED <<outbox, dead, central>> PROVE Stutters
  BY <1>1 DEF Appended, Settled, Discarded
<1> HIDE DEF Stutters
<1>2. ASSUME NEW e \in Events, AppendLine(e) PROVE Abstract!DNext
  <2>1. [ev |-> e, nl |-> TRUE] \in Chunk /\ outbox' = Append(outbox, [ev |-> e, nl |-> TRUE])
    BY <1>2 DEF AppendLine, Chunk
  <2>2. Appended' = Appended \cup {e}
    <3>1. /\ Len(outbox') = Len(outbox) + 1 /\ Len(outbox) \in Nat
          /\ \A i \in 1 .. Len(outbox) : outbox'[i] = outbox[i]
          /\ outbox'[Len(outbox) + 1] = [ev |-> e, nl |-> TRUE]
      BY <2>1, AppendFacts DEF TypeOK
    <3>2. {j \in 1 .. Len(outbox') : outbox'[j].nl}
            = {j \in 1 .. Len(outbox) : outbox[j].nl} \cup {Len(outbox) + 1}
      BY <3>1
    <3>3. QED
      BY <3>1, <3>2 DEF Appended
  <2>3. e \notin Appended \cup central \cup Discarded
    <3>1. e \in fresh
      BY <1>2 DEF AppendLine
    <3>2. QED
      BY <3>1, AppendedLines DEF Inv, LinesOK, Clean, Spoiled, RecordedOK, DiscardedOK
  <2>4. UNCHANGED <<central, Discarded>>
    BY <1>2 DEF AppendLine, server, Discarded
  <2>5. Abstract!Enqueue(e)
    BY <2>2, <2>3, <2>4 DEF Abstract!Enqueue, Abstract!New, Settled
  <2>6. QED
    BY <2>5 DEF Abstract!DNext
<1>3. ASSUME NEW e \in Events, AppendTorn(e) PROVE Stutters
  <2>1. [ev |-> e, nl |-> FALSE] \in Chunk /\ outbox' = Append(outbox, [ev |-> e, nl |-> FALSE])
    BY <1>3 DEF AppendTorn, Chunk
  <2>2. Appended' = Appended
    BY <2>1, AppendFacts DEF Appended, TypeOK
  <2>3. UNCHANGED <<central, Discarded>>
    BY <1>3 DEF AppendTorn, server, Discarded
  <2>4. QED
    BY <2>2, <2>3 DEF Stutters, Settled
<1>4. ASSUME NEW e \in Events, AppendOversize(e) PROVE Abstract!DNext
  <2>1. Discarded' = Discarded \cup {e} /\ Appended' = Appended /\ UNCHANGED central
    BY <1>4 DEF AppendOversize, server, Discarded, Appended, TypeOK
  <2>2. e \notin Appended \cup central \cup Discarded
    BY <1>4, AppendedLines DEF AppendOversize, Inv, LinesOK, Clean, Spoiled, RecordedOK, DiscardedOK
  <2>3. Abstract!Refuse(e)
    BY <2>1, <2>2 DEF Abstract!Refuse, Abstract!New, Settled
  <2>4. QED
    BY <2>3 DEF Abstract!DNext
<1>5. ASSUME NEW d \in Drainers, Serve(d) PROVE Abstract!DNext
  BY <1>5, IngestRecords DEF Serve, files, Inv, BatchOK
<1>6. ASSUME NEW evs \in late, ServeLate(evs) PROVE Abstract!DNext
  BY <1>6, IngestRecords DEF ServeLate, files, Inv, RecordedOK
<1>7. ASSUME NEW d \in Drainers, WriteDeadLetter(d) PROVE Abstract!DNext \/ Stutters
  <2>1. PICK e \in toDead[d] : dead' = [dead EXCEPT ![e] = @ + 1]
    BY <1>7 DEF WriteDeadLetter
  <2>2. e \in Events /\ e \in Spoiled \cup ingestErrors
    BY <2>1 DEF Inv, BatchOK, TypeOK
  <2>3. Discarded' = Discarded \cup {e} /\ UNCHANGED <<outbox, central>>
    BY <1>7, <2>1, <2>2 DEF WriteDeadLetter, server, Discarded, TypeOK
  <2>4. Appended' = Appended
    BY <2>3 DEF Appended
  <2>5. e \in Appended /\ e \notin central
    BY <2>2, AppendedLines, CleanOrSpoiled DEF Inv, RecordedOK
  <2>6. CASE e \in Discarded
    BY <2>3, <2>4, <2>6 DEF Stutters, Settled
  <2>7. CASE e \notin Discarded
    <3>1. Abstract!Discard(e)
      BY <2>3, <2>4, <2>5, <2>7 DEF Abstract!Discard, Settled
    <3>2. QED
      BY <2>2, <3>1 DEF Abstract!DNext
  <2>8. QED
    BY <2>6, <2>7
<1>8. ASSUME NEW d \in Drainers,
             \/ Register(d) \/ ReadPending(d) \/ Receive(d) \/ TooLarge(d)
             \/ TransportFailure(d) \/ WriteCursor(d) \/ Crash(d)
      PROVE  Stutters
  BY <1>1, <1>8 DEF Register, ReadPending, Receive, TooLarge, TransportFailure,
                    WriteCursor, Crash, files, server
<1>9. CASE UNCHANGED vars
  BY <1>0, <1>1, <1>9 DEF vars
<1>10. CASE Next
  BY <1>0, <1>2, <1>3, <1>4, <1>5, <1>6, <1>7, <1>8, <1>10 DEF Next, Produce, Drain
<1>11. QED
  BY <1>9, <1>10

(***************************************************************************)
(* The outbox and its workers implement Delivery: every appended event     *)
(* stays queued until it is recorded or dead-lettered, one way and for     *)
(* good.                                                                   *)
(***************************************************************************)
THEOREM OutboxImplementsDelivery == Spec => DeliverySafety
<1>1. Init => Abstract!DInit
  BY DEF Init, Abstract!DInit, Appended, Settled, Discarded
<1>2. TypeOK /\ Inv /\ [Next]_vars => [Abstract!DNext]_(Abstract!dvars)
  BY StepRefines
<1>3. QED
  BY <1>1, <1>2, Invariance, PTL DEF Spec, DeliverySafety, Abstract!DSafety

-----------------------------------------------------------------------------
(***************************************************************************)
(* An outbox that is deleted and created again (OutboxRecreate) while no   *)
(* worker holds a batch.  What was recorded need not be in the file any    *)
(* more, so the invariant speaks of the file there is now: the stored      *)
(* cursor is of this file (Current), or its generation token starts with a *)
(* chunk that is not in the file and never will be (Stale); and a worker   *)
(* holds a batch only while the file it read is there (Held).              *)
(***************************************************************************)
Current ==
  /\ cursor.offset <= Len(outbox)
  /\ \A i \in 1 .. cursor.offset : outbox[i].nl => outbox[i].ev \in Settled
  /\ cursor.offset > 0 => cursor.gen # None /\ cursor.gen[1] = outbox[1]

Stale ==
  /\ cursor.gen # None
  /\ cursor.gen[1].ev \notin fresh
  /\ \A i \in 1 .. Len(outbox) : outbox[i].ev # cursor.gen[1].ev

Held(d) ==
  /\ pc[d] \in {"offline", "ready"} => send[d] = {} /\ junk[d] = {} /\ upto[d] = 0 /\ toDead[d] = {}
  /\ upto[d] <= Len(outbox)
  /\ pc[d] = "answered" => send[d] \ Rejectable \subseteq central
  /\ BatchCovers(d)

RInv == LinesOK /\ (Current \/ Stale) /\ \A d \in Drainers : Held(d)

-----------------------------------------------------------------------------
(* The token of a file that is not empty starts with its first chunk.      *)
LEMMA GenerationHead ==
  ASSUME NEW s \in Seq(Chunk), Len(s) > 0
  PROVE  /\ Generation(s) # None /\ Generation(s)[1] = s[1]
         /\ Len(Generation(s)) = MinOf(Sample, Len(s))
<1>1. MinOf(Sample, Len(s)) \in 1 .. Len(s)
  BY OutboxAssumption DEF MinOf
<1>2. PICK n \in 1 .. Len(s) : n = MinOf(Sample, Len(s))
  BY <1>1
<1>3. Len(SubSeq(s, 1, n)) = n /\ SubSeq(s, 1, n)[1] = s[1]
  BY <1>2
<1>4. SubSeq(s, 1, n) # <<>>
  BY <1>3
<1> QED
  BY <1>2, <1>3, <1>4 DEF Generation, None

(* A stale cursor is not used, and a current one has settled lines in      *)
(* front of it.                                                            *)
LEMMA StaleIsReset == TypeOK /\ Stale => ReadCursor = 0
<1> SUFFICES ASSUME TypeOK, Stale PROVE ReadCursor = 0
  OBVIOUS
<1>1. CASE Len(outbox) = 0
  BY <1>1 DEF ReadCursor, TypeOK
<1>2. CASE Len(outbox) > 0
  <2>1. Generation(outbox) # None /\ Generation(outbox)[1] = outbox[1]
    BY <1>2, GenerationHead DEF TypeOK
  <2>2. cursor.gen # Generation(outbox)
    <3>1. 1 \in 1 .. Len(outbox)
      BY <1>2 DEF TypeOK
    <3>2. outbox[1] # cursor.gen[1]
      BY <3>1 DEF Stale
    <3> QED
      BY <2>1, <3>2
  <2> QED
    BY <2>1, <2>2 DEF ReadCursor, Stale
<1> QED
  BY <1>1, <1>2 DEF TypeOK

LEMMA ReadsBehindSettled == ASSUME TypeOK, Current \/ Stale PROVE NoLineSkipped
BY StaleIsReset, ReadCursorBounds DEF Current, NoLineSkipped, TypeOK

(* How a step of Outbox changes the file: not, or by an event of a         *)
(* producer.                                                               *)
LEMMA FileStep ==
  ASSUME TypeOK, [Next]_vars
  PROVE  \/ outbox' = outbox /\ fresh' \subseteq fresh
         \/ \E c \in Chunk : c.ev \in fresh \ Oversize /\ outbox' = Append(outbox, c) /\ fresh' = fresh \ {c.ev}
<1>1. ASSUME NEW e \in Events, NEW nl \in BOOLEAN, e \in fresh \ Oversize, fresh' = fresh \ {e},
             outbox' = Append(outbox, [ev |-> e, nl |-> nl])
      PROVE  \E c \in Chunk : c.ev \in fresh \ Oversize /\ outbox' = Append(outbox, c) /\ fresh' = fresh \ {c.ev}
  <2>1. [ev |-> e, nl |-> nl] \in Chunk /\ [ev |-> e, nl |-> nl].ev = e
    BY DEF Chunk
  <2> QED
    BY <1>1, <2>1
<1>2. ASSUME NEW e \in Events, AppendLine(e) \/ AppendTorn(e)
      PROVE  \E c \in Chunk : c.ev \in fresh \ Oversize /\ outbox' = Append(outbox, c) /\ fresh' = fresh \ {c.ev}
  BY <1>1, <1>2 DEF AppendLine, AppendTorn
<1>3. ASSUME NEW e \in Events, AppendOversize(e) PROVE outbox' = outbox /\ fresh' \subseteq fresh
  BY <1>3 DEF AppendOversize
<1>4. CASE UNCHANGED files \/ UNCHANGED <<fresh, outbox>>
  BY <1>4 DEF files
<1> QED
  BY <1>2, <1>3, <1>4
  DEF Next, vars, Produce, Drain, Register, ReadPending, Serve, ServeLate, Receive, TooLarge,
      TransportFailure, WriteDeadLetter, WriteCursor, Crash

(* The lines and the kind of a cursor nobody writes stay, whatever is      *)
(* appended.                                                               *)
LEMMA FileKeeps ==
  ASSUME TypeOK, LinesOK, [Next]_vars
  PROVE  /\ LinesOK'
         /\ Len(outbox) <= Len(outbox') /\ \A i \in 1 .. Len(outbox) : outbox'[i] = outbox[i]
         /\ UNCHANGED cursor /\ Current => Current'
         /\ UNCHANGED cursor /\ Stale => Stale'
<1>0. Settled \subseteq Settled' /\ Len(outbox) \in Nat /\ cursor.offset \in Nat
  BY SettledGrows DEF TypeOK
<1>1. CASE outbox' = outbox /\ fresh' \subseteq fresh
  BY <1>0, <1>1 DEF LinesOK, Current, Stale
<1>2. ASSUME NEW c \in Chunk, c.ev \in fresh \ Oversize, outbox' = Append(outbox, c), fresh' = fresh \ {c.ev}
      PROVE  /\ LinesOK'
             /\ Len(outbox) <= Len(outbox') /\ \A i \in 1 .. Len(outbox) : outbox'[i] = outbox[i]
             /\ UNCHANGED cursor /\ Current => Current'
             /\ UNCHANGED cursor /\ Stale => Stale'
  <2>1. /\ Len(outbox') = Len(outbox) + 1 /\ outbox'[Len(outbox) + 1] = c
        /\ \A i \in 1 .. Len(outbox) : outbox'[i] = outbox[i]
    BY <1>2, AppendFacts DEF TypeOK
  <2>2. LinesOK'
    BY <1>0, <1>2, <2>1 DEF LinesOK
  <2>3. UNCHANGED cursor /\ Current => Current'
    BY <1>0, <2>1 DEF Current
  <2>4. UNCHANGED cursor /\ Stale => Stale'
    BY <1>0, <1>2, <2>1 DEF Stale
  <2> QED
    BY <1>0, <2>1, <2>2, <2>3, <2>4
<1> QED
  BY <1>1, <1>2, FileStep

-----------------------------------------------------------------------------
(* What read_pending hands over: the lines from where it starts to the end *)
(* of the batch.                                                           *)
LEMMA WhatIsRead ==
  ASSUME TypeOK, NEW d \in Drainers, ReadPending(d)
  PROVE  /\ upto'[d] \in Nat /\ ReadCursor < upto'[d] /\ upto'[d] <= Len(outbox)
         /\ \A i \in ReadCursor + 1 .. upto'[d] : outbox[i].nl => outbox[i].ev \in send'[d] \cup junk'[d]
         /\ \A e \in send'[d] \cup junk'[d] : \E i \in ReadCursor + 1 .. upto'[d] : outbox[i].ev = e
         /\ \/ pc'[d] = "resolving" /\ toDead'[d] = junk'[d] /\ send'[d] = {}
            \/ pc'[d] = "posting" /\ toDead'[d] = toDead[d]
<1> DEFINE start == ReadCursor
<1>1. PICK last \in LinesFrom(start) :
        LET lines == {i \in LinesFrom(start) : i <= last}
            good  == {outbox[i].ev : i \in {j \in lines : ~Malformed(start, j)}}
            bad   == {outbox[i].ev : i \in {j \in lines : Malformed(start, j)}}
        IN  /\ send' = [send EXCEPT ![d] = good]
            /\ junk' = [junk EXCEPT ![d] = bad]
            /\ upto' = [upto EXCEPT ![d] = last]
            /\ IF good = {}
               THEN /\ pc' = [pc EXCEPT ![d] = "resolving"]
                    /\ toDead' = [toDead EXCEPT ![d] = bad]
               ELSE /\ pc' = [pc EXCEPT ![d] = "posting"]
                    /\ UNCHANGED toDead
  BY DEF ReadPending
<1> DEFINE lines == {i \in LinesFrom(start) : i <= last}
           good  == {outbox[i].ev : i \in {j \in lines : ~Malformed(start, j)}}
           bad   == {outbox[i].ev : i \in {j \in lines : Malformed(start, j)}}
<1>2. start \in Nat /\ start <= Len(outbox) /\ Len(outbox) \in Nat
  BY ReadCursorBounds DEF TypeOK
<1>3. last \in Nat /\ last > start /\ last <= Len(outbox)
  BY <1>2, LinesFromBounds
<1>4. \A i \in lines : i \in start + 1 .. last
  BY <1>2, <1>3, LinesFromBounds
<1>5. \A i \in start + 1 .. last : outbox[i].nl => i \in lines
  BY <1>2, <1>3, OutboxAssumption DEF LinesFrom, MinOf
<1>6. \A i \in lines : outbox[i].ev \in good \cup bad
  OBVIOUS
<1>7. \A e \in good \cup bad : \E i \in lines : outbox[i].ev = e
  OBVIOUS
<1> HIDE DEF good, bad, lines
<1>8. /\ send'[d] = good /\ junk'[d] = bad /\ upto'[d] = last
      /\ \/ pc'[d] = "resolving" /\ toDead'[d] = bad /\ good = {}
         \/ pc'[d] = "posting" /\ toDead'[d] = toDead[d]
  BY <1>1 DEF good, bad, lines, TypeOK
<1> HIDE DEF start
<1>9. /\ \A i \in start + 1 .. last : outbox[i].nl => outbox[i].ev \in good \cup bad
      /\ \A e \in good \cup bad : \E i \in start + 1 .. last : outbox[i].ev = e
  BY <1>4, <1>5, <1>6, <1>7
<1> QED
  BY <1>3, <1>8, <1>9 DEF start

(* The workers that do not take the step hold what they held.              *)
Stands(d) ==
  pc'[d] = pc[d] /\ send'[d] = send[d] /\ junk'[d] = junk[d] /\ upto'[d] = upto[d] /\ toDead'[d] = toDead[d]

LEMMA OthersStand ==
  ASSUME TypeOK, NEW d \in Drainers, Drain(d), NEW x \in Drainers, x # d PROVE Stands(x)
<1>1. CASE ReadPending(d)
  BY <1>1 DEF ReadPending, Stands, TypeOK
<1>2. CASE ~ReadPending(d)
  BY <1>2 DEF Drain, Register, Serve, Receive, TooLarge, TransportFailure, WriteDeadLetter, WriteCursor,
              Crash, Forget, Stands, TypeOK, batch
<1> QED
  BY <1>1, <1>2

LEMMA HeldStands ==
  ASSUME TypeOK, LinesOK, [Next]_vars, NEW d \in Drainers, Held(d), Stands(d) PROVE Held(d)'
<1>1. upto[d] \in Nat /\ Len(outbox) <= Len(outbox') /\ Len(outbox) \in Nat /\ Len(outbox') \in Nat
  <2>1. TypeOK'
    BY TypeStep
  <2>2. upto[d] \in Nat /\ Len(outbox) \in Nat
    BY DEF TypeOK
  <2>3. Len(outbox') \in Nat
    BY <2>1 DEF TypeOK
  <2>4. Len(outbox) <= Len(outbox')
    BY FileKeeps
  <2> QED
    BY <2>2, <2>3, <2>4
<1>2. central \subseteq central' /\ Settled \subseteq Settled'
  BY StepGrows DEF Grows
<1>3. Owed(d)' = Owed(d)
  BY DEF Owed, Stands
<1>4. BatchCovers(d)'
  BY <1>1, <1>2, <1>3, FileKeeps DEF BatchCovers, Held, Stands
<1> QED
  BY <1>1, <1>2, <1>4 DEF Held, Stands

(* What a worker holds after a step of its own.                            *)
LEMMA HeldMoves ==
  ASSUME TypeOK, RInv, [Next]_vars, NEW d \in Drainers, Drain(d) PROVE Held(d)'
<1>0. /\ TypeOK' /\ Settled \subseteq Settled' /\ Held(d)
      /\ Len(outbox) \in Nat /\ upto[d] \in Nat
  <2>1. TypeOK' /\ Settled \subseteq Settled'
    BY TypeStep, SettledGrows
  <2>2. Len(outbox) \in Nat /\ upto[d] \in Nat
    BY DEF TypeOK
  <2> QED
    BY <2>1, <2>2 DEF RInv
<1>1. CASE Register(d)
  BY <1>0, <1>1 DEF Register, Held, BatchCovers, TypeOK, files, server, batch
<1>2. CASE ReadPending(d)
  <2>1. /\ UNCHANGED <<outbox, central, dead>> /\ pc[d] = "ready"
    BY <1>2 DEF ReadPending, files, server
  <2>2. Settled' = Settled
    BY <2>1 DEF Settled, Discarded
  <2>3. ReadCursor \in Nat /\ NoLineSkipped
    BY ReadCursorBounds, ReadsBehindSettled DEF RInv
  <2>4. \A i \in 1 .. upto'[d] : outbox[i].nl => outbox[i].ev \in Settled \cup send'[d] \cup junk'[d]
    <3>1. \A i \in 1 .. ReadCursor : outbox[i].nl => outbox[i].ev \in Settled
      BY <2>3 DEF NoLineSkipped
    <3>2. \A i \in ReadCursor + 1 .. upto'[d] : outbox[i].nl => outbox[i].ev \in send'[d] \cup junk'[d]
      BY <1>2, WhatIsRead
    <3>3. upto'[d] \in Nat
      BY <1>2, WhatIsRead
    <3> QED
      BY <2>3, <3>1, <3>2, <3>3
  <2>5. /\ upto'[d] <= Len(outbox)
        /\ \/ pc'[d] = "resolving" /\ toDead'[d] = junk'[d] /\ send'[d] = {}
           \/ pc'[d] = "posting"
    BY <1>2, WhatIsRead
  <2> QED
    BY <2>1, <2>2, <2>4, <2>5 DEF Held, BatchCovers, Owed
<1>3. CASE Serve(d)
  <2>1. pc[d] = "posting" /\ pc'[d] = "answered" /\ central' = central \cup (send[d] \ Rejectable)
        /\ UNCHANGED <<outbox, send, junk, upto, toDead>>
    BY <1>3 DEF Serve, Ingest, files, batch, TypeOK
  <2> QED
    BY <1>0, <2>1 DEF Held, BatchCovers, Owed
<1>4. CASE Receive(d)
  <2>1. /\ pc[d] = "answered" /\ pc'[d] = "resolving"
        /\ toDead'[d] = junk[d] \cup (send[d] \cap Rejectable)
        /\ UNCHANGED <<outbox, central, send, junk, upto>>
    BY <1>4 DEF Receive, TypeOK, files, server, batch
  <2>2. \A e \in send[d] \cup junk[d] : e \in Settled \cup toDead'[d]
    BY <1>0, <2>1 DEF Held, Settled
  <2> QED
    BY <1>0, <2>1, <2>2 DEF Held, BatchCovers, Owed
<1>5. CASE TooLarge(d) \/ TransportFailure(d) \/ Crash(d) \/ WriteCursor(d)
  <2>1. /\ pc'[d] \in {"offline", "ready"} /\ UNCHANGED outbox
        /\ send'[d] = {} /\ junk'[d] = {} /\ upto'[d] = 0 /\ toDead'[d] = {}
    BY <1>5 DEF TooLarge, TransportFailure, Crash, WriteCursor, Forget, TypeOK, files
  <2> QED
    BY <1>0, <2>1 DEF Held, BatchCovers
<1>6. CASE WriteDeadLetter(d)
  <2>1. PICK e \in toDead[d] : /\ dead' = [dead EXCEPT ![e] = @ + 1]
                               /\ toDead' = [toDead EXCEPT ![d] = @ \ {e}]
    BY <1>6 DEF WriteDeadLetter
  <2>2. pc[d] = "resolving" /\ UNCHANGED <<outbox, central, pc, send, junk, upto>>
    BY <1>6 DEF WriteDeadLetter, server, batch
  <2>3. toDead'[d] = toDead[d] \ {e} /\ e \in Settled'
    BY <2>1 DEF TypeOK, Settled, Discarded
  <2> QED
    BY <1>0, <2>2, <2>3 DEF Held, BatchCovers, Owed
<1> QED
  BY <1>1, <1>2, <1>3, <1>4, <1>5, <1>6 DEF Drain

(* A cursor is written by a worker whose file is still there.              *)
LEMMA CursorMoves ==
  ASSUME TypeOK, RInv, NEW d \in Drainers, WriteCursor(d) PROVE Current'
<1>1. /\ pc[d] = "resolving" /\ toDead[d] = {} /\ UNCHANGED <<outbox, central, dead>>
      /\ cursor'.offset = upto[d] /\ cursor'.gen = Generation(outbox)
  BY DEF WriteCursor, server
<1>2. Held(d) /\ upto[d] \in Nat /\ Len(outbox) \in Nat /\ outbox \in Seq(Chunk)
  BY DEF RInv, TypeOK
<1>3. Settled' = Settled
  BY <1>1 DEF Settled, Discarded
<1>4. upto[d] > 0 => Generation(outbox) # None /\ Generation(outbox)[1] = outbox[1]
  BY <1>2, GenerationHead DEF Held
<1> QED
  BY <1>1, <1>2, <1>3, <1>4 DEF Current, Held, BatchCovers, Owed

LEMMA RInvStep ==
  ASSUME TypeOK, RInv, [Next]_vars PROVE RInv'
<1>1. LinesOK'
  BY FileKeeps DEF RInv
<1>2. (Current \/ Stale)'
  <2>1. UNCHANGED cursor \/ \E d \in Drainers : WriteCursor(d)
    BY DEF Next, vars, Produce, Drain, AppendLine, AppendOversize, AppendTorn, Register, ReadPending,
           Serve, ServeLate, Receive, TooLarge, TransportFailure, WriteDeadLetter, Crash, files
  <2> QED
    BY <2>1, FileKeeps, CursorMoves DEF RInv
<1>3. ASSUME NEW d \in Drainers PROVE Held(d)'
  <2>1. CASE Drain(d)
    BY <2>1, HeldMoves
  <2>2. ASSUME NEW x \in Drainers, Drain(x), x # d PROVE Held(d)'
    BY <2>2, OthersStand, HeldStands DEF RInv
  <2>3. CASE Produce \/ (\E evs \in late : ServeLate(evs)) \/ UNCHANGED vars
    <3>1. Stands(d)
      BY <2>3 DEF Produce, AppendLine, AppendOversize, AppendTorn, ServeLate, vars, batch, Stands
    <3> QED
      BY <3>1, HeldStands DEF RInv
  <2> QED
    BY <2>1, <2>2, <2>3 DEF Next
<1> QED
  BY <1>1, <1>2, <1>3 DEF RInv

(* The file goes away: its cursor, if it stays, is stale from now on.      *)
LEMMA RecreateStep ==
  ASSUME TypeOK, RInv, Racy = FALSE, Recreate PROVE TypeOK' /\ RInv'
<1>1. /\ outbox' = <<>> /\ cursor' \in {cursor, NoCursor} /\ failures' = failures + 1
      /\ UNCHANGED <<fresh, dead, central, ingestErrors, late, pc, send, junk, upto, toDead, torn, crashes>>
      /\ \A d \in Drainers : pc[d] \in {"offline", "ready"}
  BY DEF Recreate, Quiet, server, batch
<1>2. TypeOK'
  <2>1. <<>> \in Seq(Chunk) /\ failures + 1 \in Nat
    BY DEF TypeOK
  <2>2. NoCursor \in [offset : Nat, gen : Seq(Chunk)]
    BY <2>1 DEF NoCursor, None
  <2>3. cursor' \in [offset : Nat, gen : Seq(Chunk)] /\ outbox' \in Seq(Chunk) /\ failures' \in Nat
    BY <1>1, <2>1, <2>2 DEF TypeOK
  <2> QED
    BY <1>1, <2>3 DEF TypeOK
<1>3. LinesOK' /\ Len(outbox') = 0
  BY <1>1 DEF LinesOK
<1>4. (Current \/ Stale)'
  <2>1. CASE cursor'.offset = 0
    BY <1>1, <1>3, <2>1 DEF Current
  <2>2. CASE cursor'.offset # 0
    <3>1. cursor' = cursor /\ cursor.offset \in Nat /\ cursor.offset > 0
      BY <1>1, <2>2 DEF NoCursor, TypeOK
    <3>2. CASE Stale
      BY <1>1, <1>3, <3>1, <3>2 DEF Stale
    <3>3. CASE Current
      <4>1. cursor.gen # None /\ cursor.gen[1] = outbox[1] /\ 1 \in 1 .. Len(outbox)
        BY <3>1, <3>3 DEF Current, TypeOK
      <4>2. cursor.gen[1].ev \notin fresh
        BY <4>1 DEF RInv, LinesOK
      <4> QED
        BY <1>1, <1>3, <3>1, <4>1, <4>2 DEF Stale
    <3> QED
      BY <3>2, <3>3 DEF RInv
  <2> QED
    BY <2>1, <2>2
<1>5. ASSUME NEW d \in Drainers PROVE Held(d)'
  BY <1>1, <1>3 DEF Held, BatchCovers, RInv
<1> QED
  BY <1>2, <1>3, <1>4, <1>5 DEF RInv

LEMMA RInvInit == Init => TypeOK /\ RInv
<1>1. Init => TypeOK
  BY DEF Init, TypeOK, NoCursor, None
<1>2. Init => RInv
  BY DEF Init, RInv, LinesOK, Current, Held, BatchCovers, NoCursor
<1> QED
  BY <1>1, <1>2

(* Deleting and re-creating the outbox skips no line of the new file, for  *)
(* any number of workers, samples, failures and crashes, as long as it     *)
(* does not happen under a worker that holds a batch.                      *)
THEOREM QuietRecreationSkipsNoLine ==
  ASSUME Racy = FALSE PROVE RSpec => []NoLineSkipped
<1>1. TypeOK /\ RInv /\ [RNext]_vars => (TypeOK /\ RInv)'
  BY TypeStep, RInvStep, RecreateStep DEF RNext
<1>2. TypeOK /\ RInv => NoLineSkipped
  BY ReadsBehindSettled DEF RInv
<1> QED
  BY <1>1, <1>2, RInvInit, PTL DEF RSpec

(***************************************************************************)
(* One dead letter per bad line, for one worker that is not killed and a   *)
(* token that one chunk determines.  What the next read would start with   *)
(* has no dead letter yet, but for what the worker that is settling its    *)
(* batch has already written (Pending).                                    *)
(***************************************************************************)
Pending(w, i) == pc[w] = "resolving" => i > upto[w] \/ outbox[i].ev \in toDead[w]

OneChunk == cursor.gen # None => Len(cursor.gen) = 1

Once(w) ==
  /\ \A e \in fresh : dead[e] = 0
  /\ OneChunk
  /\ \A i \in ReadCursor + 1 .. Len(outbox) : Pending(w, i) => dead[outbox[i].ev] = 0
  /\ \A e \in send[w] \cup junk[w] \cup toDead[w] : \E i \in ReadCursor + 1 .. upto[w] : outbox[i].ev = e
  /\ pc[w] \notin {"offline", "ready"} => ReadCursor <= upto[w]

OInv(w) == DeadLetteredOnce /\ Once(w)

(* Two tokens of one chunk are the same if they start with the same.       *)
LEMMA CurrentIsUsed == Sample = 1 /\ TypeOK /\ Current /\ OneChunk => ReadCursor = cursor.offset
<1> SUFFICES ASSUME Sample = 1, TypeOK, Current, OneChunk PROVE ReadCursor = cursor.offset
  OBVIOUS
<1>1. CASE cursor.offset = 0
  BY <1>1 DEF ReadCursor, TypeOK
<1>2. CASE cursor.offset > 0
  <2>1. Len(outbox) > 0 /\ outbox \in Seq(Chunk) /\ cursor.gen \in Seq(Chunk)
    BY <1>2 DEF Current, TypeOK
  <2>2. Len(cursor.gen) = 1 /\ cursor.gen[1] = outbox[1]
    BY <1>2 DEF Current, OneChunk
  <2>3. Generation(outbox) \in Seq(Chunk) /\ Len(Generation(outbox)) = 1 /\ Generation(outbox)[1] = outbox[1]
    BY <2>1, GenerationHead, GenerationType DEF MinOf
  <2>4. cursor.gen = Generation(outbox)
    BY <2>1, <2>2, <2>3
  <2> QED
    BY <1>2, <2>4 DEF ReadCursor, Current, TypeOK
<1> QED
  BY <1>1, <1>2 DEF TypeOK

LEMMA StartsAt == TypeOK => ReadCursor \in Nat
BY ReadCursorBounds

(* What is appended does not move the start of the next read.              *)
LEMMA ReadCursorStays ==
  ASSUME TypeOK, RInv, Sample = 1, OneChunk, [Next]_vars, UNCHANGED cursor
  PROVE  ReadCursor' = ReadCursor
<1>1. TypeOK'
  BY TypeStep
<1>2. CASE Stale
  <2>1. Stale'
    BY <1>2, FileKeeps DEF RInv
  <2>2. ReadCursor = 0
    BY <1>2, StaleIsReset
  <2>3. ReadCursor' = 0
    <3>1. (TypeOK /\ Stale => ReadCursor = 0)'
      BY StaleIsReset, PTL
    <3> QED
      BY <1>1, <2>1, <3>1
  <2> QED
    BY <2>2, <2>3
<1>3. CASE Current
  <2>1. Current'
    BY <1>3, FileKeeps DEF RInv
  <2>2. ReadCursor = cursor.offset
    BY <1>3, CurrentIsUsed
  <2>3. OneChunk'
    BY DEF OneChunk
  <2>4. ReadCursor' = cursor'.offset
    <3>1. (Sample = 1 /\ TypeOK /\ Current /\ OneChunk => ReadCursor = cursor.offset)'
      BY CurrentIsUsed, PTL
    <3> QED
      BY <1>1, <2>1, <2>3, <3>1
  <2> QED
    BY <2>2, <2>4
<1> QED
  BY <1>2, <1>3 DEF RInv

(* The steps of others, and those of the worker that write no dead letter  *)
(* and no cursor.                                                          *)
LEMMA OnceStep ==
  ASSUME TypeOK, RInv, NEW w, Drainers = {w}, MaxCrashes = 0, Sample = 1, OInv(w), [Next]_vars
  PROVE  OInv(w)'
<1>0. /\ TypeOK' /\ LinesOK /\ Held(w) /\ w \in Drainers
      /\ Len(outbox) \in Nat /\ Len(outbox') \in Nat /\ Len(outbox) <= Len(outbox') /\ upto[w] \in Nat
      /\ \A i \in 1 .. Len(outbox) : outbox'[i] = outbox[i] /\ outbox[i].ev \in Events /\ outbox[i].ev \notin fresh
      /\ \A i, j \in 1 .. Len(outbox) : outbox[i].ev = outbox[j].ev => i = j
  <2>1. \A i \in 1 .. Len(outbox) : outbox[i] \in Chunk
    BY DEF TypeOK
  <2>2. \A i \in 1 .. Len(outbox) : outbox[i].ev \in Events
    BY <2>1 DEF Chunk
  <2>3. TypeOK' /\ Len(outbox) \in Nat /\ Len(outbox') \in Nat /\ w \in Drainers /\ upto[w] \in Nat
    BY TypeStep DEF TypeOK
  <2> QED
    BY <2>2, <2>3, FileKeeps DEF RInv, LinesOK
<1>1. ReadCursor \in Nat /\ ReadCursor <= Len(outbox)
  BY ReadCursorBounds
<1>2. UNCHANGED cursor => ReadCursor' = ReadCursor /\ OneChunk'
  BY ReadCursorStays DEF OInv, Once, OneChunk
<1>3. ASSUME NEW e \in Events, AppendLine(e) \/ AppendTorn(e) PROVE OInv(w)'
  <2>1. PICK c \in Chunk : c.ev \in fresh /\ outbox' = Append(outbox, c) /\ fresh' = fresh \ {c.ev}
    <3>1. [ev |-> e, nl |-> TRUE] \in Chunk /\ [ev |-> e, nl |-> FALSE] \in Chunk
      BY DEF Chunk
    <3> QED
      BY <1>3, <3>1 DEF AppendLine, AppendTorn
  <2>2. UNCHANGED <<cursor, dead, pc, send, junk, upto, toDead>>
    BY <1>3 DEF AppendLine, AppendTorn, batch
  <2>3. Len(outbox') = Len(outbox) + 1 /\ outbox'[Len(outbox) + 1] = c
    BY <2>1, AppendFacts DEF TypeOK
  <2>4. \A i \in ReadCursor + 1 .. Len(outbox') : Pending(w, i)' => dead'[outbox'[i].ev] = 0
    BY <1>0, <1>1, <2>1, <2>2, <2>3 DEF OInv, Once, Pending
  <2>5. \A x \in send[w] \cup junk[w] \cup toDead[w] : \E i \in ReadCursor + 1 .. upto[w] : outbox'[i].ev = x
    BY <1>0, <1>1 DEF OInv, Once, Held
  <2> QED
    BY <1>2, <2>1, <2>2, <2>4, <2>5 DEF OInv, Once, DeadLetteredOnce
<1>4. ASSUME NEW e \in Events, AppendOversize(e) PROVE OInv(w)'
  <2>1. /\ e \in fresh /\ fresh' = fresh \ {e} /\ dead' = [dead EXCEPT ![e] = @ + 1]
        /\ UNCHANGED <<outbox, cursor, pc, send, junk, upto, toDead>>
    BY <1>4 DEF AppendOversize, batch
  <2>2. dead'[e] = 1 /\ \A x \in Events : x # e => dead'[x] = dead[x]
    BY <2>1 DEF OInv, Once, TypeOK
  <2>3. \A i \in ReadCursor + 1 .. Len(outbox) : dead'[outbox[i].ev] = dead[outbox[i].ev]
    BY <1>0, <1>1, <2>1, <2>2
  <2>4. \A x \in fresh' : dead'[x] = 0
    BY <2>1, <2>2 DEF OInv, Once, TypeOK
  <2> QED
    BY <1>0, <1>1, <1>2, <2>1, <2>2, <2>3, <2>4 DEF OInv, Once, Pending, DeadLetteredOnce
<1>5. CASE ReadPending(w)
  <2>1. UNCHANGED <<fresh, outbox, cursor, dead>> /\ pc[w] = "ready"
    BY <1>5 DEF ReadPending, files
  <2>2. /\ upto'[w] \in Nat /\ ReadCursor < upto'[w]
        /\ \A e \in send'[w] \cup junk'[w] : \E i \in ReadCursor + 1 .. upto'[w] : outbox[i].ev = e
        /\ toDead'[w] = junk'[w] \/ toDead'[w] = {}
    BY <1>0, <1>5, <2>1, WhatIsRead DEF Held
  <2>3. \A i \in ReadCursor + 1 .. Len(outbox) : dead[outbox[i].ev] = 0
    BY <2>1 DEF OInv, Once, Pending
  <2> QED
    BY <1>1, <1>2, <2>1, <2>2, <2>3 DEF OInv, Once, DeadLetteredOnce
<1>6. CASE Register(w) \/ Serve(w)
  <2>1. /\ UNCHANGED <<fresh, outbox, cursor, dead, send, junk, upto, toDead>>
        /\ pc[w] # "resolving" /\ pc'[w] # "resolving"
        /\ pc'[w] \notin {"offline", "ready"} => pc[w] \notin {"offline", "ready"}
    BY <1>0, <1>6 DEF Register, Serve, files, batch, TypeOK
  <2> QED
    BY <1>2, <2>1 DEF OInv, Once, Pending, DeadLetteredOnce
<1>7. CASE Receive(w)
  <2>1. /\ UNCHANGED <<fresh, outbox, cursor, dead, send, junk, upto>>
        /\ pc[w] = "answered" /\ pc'[w] = "resolving"
        /\ toDead'[w] = junk[w] \cup (send[w] \cap Rejectable)
    BY <1>0, <1>7 DEF Receive, files, batch, TypeOK
  <2> QED
    BY <1>2, <2>1 DEF OInv, Once, Pending, DeadLetteredOnce
<1>8. CASE TooLarge(w) \/ TransportFailure(w)
  <2>1. /\ UNCHANGED <<fresh, outbox, cursor, dead>>
        /\ pc[w] # "resolving" /\ pc'[w] = "offline"
        /\ send'[w] = {} /\ junk'[w] = {} /\ toDead'[w] = {}
    BY <1>0, <1>8 DEF TooLarge, TransportFailure, Forget, files, TypeOK
  <2> QED
    BY <1>2, <2>1 DEF OInv, Once, Pending, DeadLetteredOnce
<1>9. CASE WriteDeadLetter(w)
  <2>1. PICK e \in toDead[w] : /\ dead' = [dead EXCEPT ![e] = @ + 1]
                               /\ toDead' = [toDead EXCEPT ![w] = @ \ {e}]
    BY <1>9 DEF WriteDeadLetter
  <2>2. pc[w] = "resolving" /\ UNCHANGED <<fresh, outbox, cursor, pc, send, junk, upto>>
    BY <1>9 DEF WriteDeadLetter, batch
  <2>3. PICK k \in ReadCursor + 1 .. upto[w] : outbox[k].ev = e
    BY <2>1 DEF OInv, Once
  <2>4. k \in 1 .. Len(outbox) /\ k \in ReadCursor + 1 .. Len(outbox) /\ e \in Events /\ e \notin fresh
    BY <1>0, <1>1, <2>3 DEF Held
  <2>5. dead[e] = 0
    BY <2>1, <2>2, <2>3, <2>4 DEF OInv, Once, Pending
  <2>6. toDead'[w] = toDead[w] \ {e} /\ dead'[e] = 1 /\ \A x \in Events : x # e => dead'[x] = dead[x]
    BY <1>0, <2>1, <2>4, <2>5 DEF TypeOK
  <2>7. ASSUME NEW i \in ReadCursor + 1 .. Len(outbox), i > upto[w] \/ outbox[i].ev \in toDead'[w]
        PROVE  dead'[outbox[i].ev] = 0
    <3>1. i \in 1 .. Len(outbox) /\ outbox[i].ev \in Events
      BY <1>0, <1>1
    <3>2. outbox[i].ev # e
      BY <1>0, <1>1, <2>3, <2>4, <2>6, <2>7, <3>1
    <3> QED
      BY <2>2, <2>6, <2>7, <3>1, <3>2 DEF OInv, Once, Pending
  <2>8. \A x \in fresh : dead'[x] = 0
    BY <2>4, <2>6 DEF OInv, Once, TypeOK
  <2> QED
    BY <1>2, <2>2, <2>6, <2>7, <2>8 DEF OInv, Once, Pending, DeadLetteredOnce
<1>10. CASE WriteCursor(w)
  <2>1. /\ UNCHANGED <<fresh, outbox, dead>> /\ pc[w] = "resolving" /\ toDead[w] = {}
        /\ pc'[w] = "ready" /\ send'[w] = {} /\ junk'[w] = {} /\ toDead'[w] = {}
        /\ cursor'.offset = upto[w] /\ cursor'.gen = Generation(outbox)
    BY <1>0, <1>10 DEF WriteCursor, Forget, TypeOK
  <2>2. OneChunk'
    <3>1. CASE Len(outbox) = 0
      <4>1. Generation(outbox) = None
        BY <3>1, OutboxAssumption DEF Generation, None, MinOf, TypeOK
      <4> QED
        BY <2>1, <4>1 DEF OneChunk
    <3>2. CASE Len(outbox) > 0
      BY <2>1, <3>2, GenerationHead DEF MinOf, TypeOK, OneChunk
    <3> QED
      BY <1>0, <3>1, <3>2
  <2>3. ReadCursor' = upto[w]
    <3>1. Current'
      BY <1>0, <1>10, CursorMoves
    <3>2. (Sample = 1 /\ TypeOK /\ Current /\ OneChunk => ReadCursor = cursor.offset)'
      BY CurrentIsUsed, PTL
    <3> QED
      BY <1>0, <2>1, <2>2, <3>1, <3>2
  <2>4. \A i \in upto[w] + 1 .. Len(outbox) : dead[outbox[i].ev] = 0
    <3>1. ReadCursor <= upto[w]
      BY <2>1 DEF OInv, Once
    <3>2. \A i \in upto[w] + 1 .. Len(outbox) : i \in ReadCursor + 1 .. Len(outbox) /\ i > upto[w]
      BY <1>0, <1>1, <3>1
    <3> QED
      BY <3>2 DEF OInv, Once, Pending
  <2> QED
    BY <2>1, <2>2, <2>3, <2>4 DEF OInv, Once, DeadLetteredOnce
<1>11. ~Crash(w)
  BY DEF Crash, TypeOK
<1>12. CASE (\E evs \in late : ServeLate(evs)) \/ UNCHANGED vars
  <2>1. UNCHANGED <<fresh, outbox, cursor, dead, pc, send, junk, upto, toDead>>
    BY <1>12 DEF ServeLate, files, batch, vars
  <2> QED
    BY <1>2, <2>1 DEF OInv, Once, Pending, DeadLetteredOnce
<1> QED
  BY <1>3, <1>4, <1>5, <1>6, <1>7, <1>8, <1>9, <1>10, <1>11, <1>12 DEF Next, Produce, Drain

LEMMA OnceRecreate ==
  ASSUME TypeOK, RInv, Racy = FALSE, NEW w, Drainers = {w}, OInv(w), Recreate PROVE OInv(w)'
<1>1. /\ outbox' = <<>> /\ cursor' \in {cursor, NoCursor} /\ pc[w] \in {"offline", "ready"}
      /\ UNCHANGED <<fresh, dead, pc, send, junk, upto, toDead>>
  BY DEF Recreate, Quiet, batch
<1>2. Held(w) /\ TypeOK'
  BY RecreateStep DEF RInv
<1>3. Len(outbox') = 0 /\ ReadCursor' \in Nat
  <2>1. (TypeOK => ReadCursor \in Nat)'
    BY StartsAt, PTL
  <2> QED
    BY <1>1, <1>2, <2>1
<1>4. OneChunk'
  BY <1>1 DEF OInv, Once, OneChunk, NoCursor
<1>5. send[w] = {} /\ junk[w] = {} /\ toDead[w] = {}
  BY <1>1, <1>2 DEF Held
<1>6. ReadCursor' + 1 .. Len(outbox') = {}
  <2>1. PICK n \in Nat : n = ReadCursor'
    BY <1>3
  <2>2. n + 1 .. 0 = {}
    OBVIOUS
  <2> QED
    BY <1>3, <2>1, <2>2
<1> QED
  BY <1>1, <1>4, <1>5, <1>6 DEF OInv, Once, DeadLetteredOnce

(* A bad line leaves one dead letter, whatever requests fail, arrive late  *)
(* or are repeated and however often the file is re-created: for one       *)
(* worker that is not killed while it settles a batch, and a token that    *)
(* the first append determines.                                            *)
THEOREM OneDeadLetterPerLine ==
  ASSUME NEW w, Drainers = {w}, Racy = FALSE, MaxCrashes = 0, Sample = 1
  PROVE  RSpec => []DeadLetteredOnce
<1>1. Init => OInv(w)
  <2> SUFFICES ASSUME Init PROVE OInv(w)
    OBVIOUS
  <2>1. /\ w \in Drainers /\ pc[w] = "offline" /\ send[w] = {} /\ junk[w] = {} /\ toDead[w] = {}
        /\ Len(outbox) = 0 /\ cursor.gen = None /\ dead = [e \in Events |-> 0] /\ fresh = Events
    BY DEF Init, NoCursor
  <2>2. \A i \in ReadCursor + 1 .. Len(outbox) : FALSE
    BY <2>1, RInvInit, ReadCursorBounds
  <2> QED
    BY <2>1, <2>2 DEF OInv, Once, OneChunk, DeadLetteredOnce
<1>2. TypeOK /\ RInv /\ OInv(w) /\ [RNext]_vars => (TypeOK /\ RInv /\ OInv(w))'
  BY TypeStep, RInvStep, RecreateStep, OnceStep, OnceRecreate DEF RNext
<1>3. OInv(w) => DeadLetteredOnce
  BY DEF OInv
<1> QED
  BY <1>1, <1>2, <1>3, RInvInit, PTL DEF RSpec
=============================================================================
