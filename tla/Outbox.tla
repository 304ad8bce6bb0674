------------------------------- MODULE Outbox -------------------------------
(***************************************************************************)
(* The durable outbox of one repository (outbox/store.py), the producers   *)
(* that append to it (outbox/emit.py), the drain workers that ship it      *)
(* (outbox/drain.py) and the idempotent batch ingest of the central API    *)
(* (services/api/app.py, services/api/store.py).                           *)
(*                                                                         *)
(* outbox.jsonl is a sequence of chunks. A chunk is what one append left   *)
(* in the file: a whole line (nl = TRUE) or, when the write was cut short  *)
(* (ENOSPC, a killed process), a fragment with no newline (nl = FALSE),    *)
(* onto which the next append is glued. A line is a maximal run of chunks  *)
(* ended by a newline; it parses exactly when the run has one chunk.  Byte *)
(* offsets are counted in chunks.                                          *)
(***************************************************************************)
EXTENDS Integers, Sequences, FiniteSets

CONSTANTS
  Events,        \* event ids; each is minted by one emit_event call
  Oversize,      \* events whose line exceeds MAX_LINE_BYTES
  Rejectable,    \* events the server rejects (invalid envelope, machine binding)
  Drainers,      \* drain worker processes of this repository
  BatchSize,     \* AGENT_OS_SYNC_BATCH
  ReadWindow,    \* max_bytes of one read_pending, in chunks
  ServerMax,     \* _MAX_BATCH_EVENTS of the API
  Sample,        \* _GENERATION_SAMPLE_BYTES, in chunks
  MaxTorn,       \* bound: appends cut short
  MaxFailures,   \* bound: requests that fail or time out
  MaxCrashes     \* bound: drain processes killed

ASSUME OutboxAssumption ==
  /\ Oversize \subseteq Events
  /\ Rejectable \subseteq Events
  /\ IsFiniteSet(Events)
  /\ BatchSize \in Nat \ {0}
  /\ ReadWindow \in Nat \ {0}
  /\ ServerMax \in Nat \ {0}
  /\ Sample \in Nat \ {0}
  /\ MaxTorn \in Nat
  /\ MaxFailures \in Nat
  /\ MaxCrashes \in Nat

VARIABLES
  fresh,         \* events no producer has emitted yet
  outbox,        \* outbox.jsonl
  cursor,        \* cursor.json: offset and generation token
  dead,          \* dead-letter.jsonl: records per event (of the line it ends)
  central,       \* ops.events
  ingestErrors,  \* events with a row in ops.ingest_errors
  late,          \* requests whose client gave up but that may still arrive
  pc,            \* where each drain worker is
  send,          \* the parsed events of its batch
  junk,          \* the unparseable lines of its batch
  upto,          \* end_offset of the last line of its batch
  toDead,        \* what it has still to dead-letter
  torn, failures, crashes          \* faults so far

files   == <<fresh, outbox, cursor, dead>>
server  == <<central, ingestErrors>>
batch   == <<send, junk, upto>>
faults  == <<torn, failures, crashes>>
vars == <<fresh, outbox, cursor, dead, central, ingestErrors, late,
          pc, send, junk, upto, toDead, torn, failures, crashes>>

Chunk == [ev : Events, nl : BOOLEAN]

None == <<>>     \* the generation token of an absent or empty outbox
NoCursor == [offset |-> 0, gen |-> None]

MinOf(m, n) == IF m <= n THEN m ELSE n

(***************************************************************************)
(* store.py: the generation token, the cursor, the pending lines.          *)
(***************************************************************************)

(* Mutant of Generation: the file has no generation. *)
NoGeneration(file) == None

(* The first Sample chunks; event ids are unique, so the prefix stands for
   its hash. *)
Generation(file) == SubSeq(file, 1, MinOf(Sample, Len(file)))

ReadCursor ==
  IF \/ /\ cursor.gen # None
        /\ Generation(outbox) # None
        /\ cursor.gen # Generation(outbox)
     \/ cursor.offset > Len(outbox)
  THEN 0
  ELSE cursor.offset

(* The lines a read from start sees: the newlines within max_bytes. *)
LinesFrom(start) ==
  {i \in start + 1 .. MinOf(start + ReadWindow, Len(outbox)) : outbox[i].nl}

(* Mutant of Malformed: a fragment spoils every later line of the read. *)
MalformedOnwards(start, i) == \E j \in start + 1 .. i - 1 : ~outbox[j].nl

(* The line ended by chunk i, read from start, is a fragment with another
   append glued onto it. *)
Malformed(start, i) == i - 1 > start /\ ~outbox[i - 1].nl

(* Mutant of EndsBatch: only a full batch is returned. *)
EndsFullBatch(start, last) ==
  /\ last \in LinesFrom(start)
  /\ Cardinality({i \in LinesFrom(start) : i <= last}) = BatchSize

(* last ends the batch: the BatchSize-th line, or the last one there is. *)
EndsBatch(start, last) ==
  LET lines  == LinesFrom(start)
      taken  == {i \in lines : i <= last}
  IN  /\ last \in lines
      /\ \/ Cardinality(taken) = BatchSize
         \/ Cardinality(taken) < BatchSize /\ taken = lines

Init ==
  /\ fresh = Events
  /\ outbox = <<>>
  /\ cursor = NoCursor
  /\ dead = [e \in Events |-> 0]
  /\ central = {}
  /\ ingestErrors = {}
  /\ late = {}
  /\ pc = [d \in Drainers |-> "offline"]
  /\ send = [d \in Drainers |-> {}]
  /\ junk = [d \in Drainers |-> {}]
  /\ upto = [d \in Drainers |-> 0]
  /\ toDead = [d \in Drainers |-> {}]
  /\ torn = 0 /\ failures = 0 /\ crashes = 0

(* What drain_batch keeps in local variables is gone when it returns, raises
   or dies. *)
Forget(d) ==
  /\ send' = [send EXCEPT ![d] = {}]
  /\ junk' = [junk EXCEPT ![d] = {}]
  /\ upto' = [upto EXCEPT ![d] = 0]
  /\ toDead' = [toDead EXCEPT ![d] = {}]

(***************************************************************************)
(* Producers (emit_event -> append_line), any number of processes: every   *)
(* append lands whole at the end of the file, in some order.               *)
(***************************************************************************)
AppendLine(e) ==
  /\ e \in fresh \ Oversize
  /\ fresh' = fresh \ {e}
  /\ outbox' = Append(outbox, [ev |-> e, nl |-> TRUE])
  /\ UNCHANGED <<cursor, dead, server, late, pc, batch, toDead, faults>>

AppendOversize(e) ==
  /\ e \in fresh \cap Oversize
  /\ fresh' = fresh \ {e}
  /\ dead' = [dead EXCEPT ![e] = @ + 1]
  /\ UNCHANGED <<outbox, cursor, server, late, pc, batch, toDead, faults>>

(* A short write that is never completed; emit_event swallows the error. *)
AppendTorn(e) ==
  /\ torn < MaxTorn
  /\ e \in fresh \ Oversize
  /\ fresh' = fresh \ {e}
  /\ outbox' = Append(outbox, [ev |-> e, nl |-> FALSE])
  /\ torn' = torn + 1
  /\ UNCHANGED <<cursor, dead, server, late, pc, batch, toDead, failures, crashes>>

(***************************************************************************)
(* The drain worker (run_forever, drain_all, drain_batch).                 *)
(***************************************************************************)

(* register() succeeded; run_forever drains only after that. A failed
   attempt sleeps and tries again: no step. *)
Register(d) ==
  /\ pc[d] = "offline"
  /\ pc' = [pc EXCEPT ![d] = "ready"]
  /\ UNCHANGED <<files, server, late, batch, toDead, faults>>

(* Mutant of ReadPending: unparseable lines are dead-lettered as they are met,
   before the request. *)
ReadPendingDeadLettersAtOnce(d) ==
  /\ pc[d] = "ready"
  /\ LET start == ReadCursor IN
     \E last \in LinesFrom(start) :
        LET lines == {i \in LinesFrom(start) : i <= last}
            good  == {outbox[i].ev : i \in {j \in lines : ~Malformed(start, j)}}
            bad   == {outbox[i].ev : i \in {j \in lines : Malformed(start, j)}}
        IN  /\ EndsBatch(start, last)
            /\ send' = [send EXCEPT ![d] = good]
            /\ upto' = [upto EXCEPT ![d] = last]
            /\ dead' = [e \in Events |-> dead[e] + (IF e \in bad THEN 1 ELSE 0)]
            /\ pc' = [pc EXCEPT ![d] = IF good = {} THEN "resolving" ELSE "posting"]
  /\ UNCHANGED <<fresh, outbox, cursor, junk, toDead, server, late, faults>>

(* read_pending, and the split of the batch into what can be sent and what
   cannot be parsed. Without a complete line there is no step ("empty"). *)
ReadPending(d) ==
  /\ pc[d] = "ready"
  /\ LET start == ReadCursor IN
     \E last \in LinesFrom(start) :
        LET lines == {i \in LinesFrom(start) : i <= last}
            good  == {outbox[i].ev : i \in {j \in lines : ~Malformed(start, j)}}
            bad   == {outbox[i].ev : i \in {j \in lines : Malformed(start, j)}}
        IN  /\ EndsBatch(start, last)
            /\ send' = [send EXCEPT ![d] = good]
            /\ junk' = [junk EXCEPT ![d] = bad]
            /\ upto' = [upto EXCEPT ![d] = last]
            /\ IF good = {}
               THEN /\ pc' = [pc EXCEPT ![d] = "resolving"]
                    /\ toDead' = [toDead EXCEPT ![d] = bad]
               ELSE /\ pc' = [pc EXCEPT ![d] = "posting"]
                    /\ UNCHANGED toDead
  /\ UNCHANGED <<files, server, late, faults>>

(* The ingest transaction: known events are duplicates, rejected ones leave
   an error row, the others are inserted; committed as a whole. *)
Ingest(evs) ==
  /\ Cardinality(evs) <= ServerMax
  /\ central' = central \cup (evs \ Rejectable)
  /\ ingestErrors' = ingestErrors \cup (evs \cap Rejectable)

Serve(d) ==
  /\ pc[d] = "posting"
  /\ Ingest(send[d])
  /\ pc' = [pc EXCEPT ![d] = "answered"]
  /\ UNCHANGED <<files, late, batch, toDead, faults>>

(* A request its client no longer waits for is served all the same. *)
ServeLate(evs) ==
  /\ evs \in late
  /\ Ingest(evs)
  /\ late' = late \ {evs}
  /\ UNCHANGED <<files, pc, batch, toDead, faults>>

(* HTTP 200 with an aligned verdict for every event. *)
Receive(d) ==
  /\ pc[d] = "answered"
  /\ toDead' = [toDead EXCEPT ![d] = junk[d] \cup (send[d] \cap Rejectable)]
  /\ pc' = [pc EXCEPT ![d] = "resolving"]
  /\ UNCHANGED <<files, server, late, batch, faults>>

(* HTTP 413: the batch is over the server's limit, whatever the client does. *)
TooLarge(d) ==
  /\ pc[d] = "posting"
  /\ Cardinality(send[d]) > ServerMax
  /\ pc' = [pc EXCEPT ![d] = "offline"]
  /\ Forget(d)
  /\ UNCHANGED <<files, server, late, faults>>

(* Mutant of TransportFailure: the batch is given up for dead. *)
TransportFailureGivesUp(d) ==
  /\ failures < MaxFailures
  /\ pc[d] \in {"posting", "answered"}
  /\ failures' = failures + 1
  /\ late' = IF pc[d] = "posting" THEN late \cup {send[d]} ELSE late
  /\ toDead' = [toDead EXCEPT ![d] = send[d] \cup junk[d]]
  /\ pc' = [pc EXCEPT ![d] = "resolving"]
  /\ UNCHANGED <<files, server, batch, torn, crashes>>

(* TransportError: refused, timed out, 5xx, unreadable answer. The request
   may or may not have reached the server, or may reach it later. *)
TransportFailure(d) ==
  /\ failures < MaxFailures
  /\ pc[d] \in {"posting", "answered"}
  /\ failures' = failures + 1
  /\ late' = IF pc[d] = "posting" THEN late \cup {send[d]} ELSE late
  /\ pc' = [pc EXCEPT ![d] = "offline"]
  /\ Forget(d)
  /\ UNCHANGED <<files, server, torn, crashes>>

(* Dead-letters are written one by one, all of them before the cursor. *)
WriteDeadLetter(d) ==
  /\ pc[d] = "resolving"
  /\ \E e \in toDead[d] :
       /\ dead' = [dead EXCEPT ![e] = @ + 1]
       /\ toDead' = [toDead EXCEPT ![d] = @ \ {e}]
  /\ UNCHANGED <<fresh, outbox, cursor, server, late, pc, batch, faults>>

(* Mutant of WriteCursor: the cursor is advanced before the dead letters are
   all written. *)
WriteCursorFirst(d) ==
  /\ pc[d] = "resolving"
  /\ cursor' = [offset |-> upto[d], gen |-> Generation(outbox)]
  /\ pc' = [pc EXCEPT ![d] = "ready"]
  /\ Forget(d)
  /\ UNCHANGED <<fresh, outbox, dead, server, late, faults>>

(* The token is computed from the file as it is now. *)
WriteCursor(d) ==
  /\ pc[d] = "resolving"
  /\ toDead[d] = {}
  /\ cursor' = [offset |-> upto[d], gen |-> Generation(outbox)]
  /\ pc' = [pc EXCEPT ![d] = "ready"]
  /\ Forget(d)
  /\ UNCHANGED <<fresh, outbox, dead, server, late, faults>>

(* The process dies (killed, or an OSError no handler catches) and is
   started again: all it knew is gone. *)
Crash(d) ==
  /\ crashes < MaxCrashes
  /\ pc[d] # "offline"
  /\ crashes' = crashes + 1
  /\ late' = IF pc[d] = "posting" THEN late \cup {send[d]} ELSE late
  /\ pc' = [pc EXCEPT ![d] = "offline"]
  /\ Forget(d)
  /\ UNCHANGED <<files, server, torn, failures>>

Produce == \E e \in Events : AppendLine(e) \/ AppendOversize(e) \/ AppendTorn(e)

Drain(d) ==
  \/ Register(d) \/ ReadPending(d)
  \/ Serve(d) \/ Receive(d) \/ TooLarge(d) \/ TransportFailure(d)
  \/ WriteDeadLetter(d) \/ WriteCursor(d) \/ Crash(d)

Next ==
  \/ Produce
  \/ \E d \in Drainers : Drain(d)
  \/ \E evs \in late : ServeLate(evs)

Spec == Init /\ [][Next]_vars

(* A running worker keeps running and the network answers whenever it does
   not use up one of the failures. *)
Progress(d) ==
  \/ Register(d) \/ ReadPending(d) \/ Serve(d) \/ Receive(d)
  \/ WriteDeadLetter(d) \/ WriteCursor(d)

FairSpec == Spec /\ \A d \in Drainers : WF_vars(Progress(d))

-----------------------------------------------------------------------------
(***************************************************************************)
(* Properties.                                                             *)
(***************************************************************************)
(* The shape of the files, of the tables of the server and of what a worker
   holds between two calls of drain_batch. *)
TypeOK ==
  /\ fresh \subseteq Events
  /\ outbox \in Seq(Chunk)
  /\ cursor \in [offset : Nat, gen : Seq(Chunk)]
  /\ dead \in [Events -> Nat]
  /\ central \subseteq Events
  /\ ingestErrors \subseteq Events
  /\ late \subseteq SUBSET Events
  /\ pc \in [Drainers -> {"offline", "ready", "posting", "answered", "resolving"}]
  /\ send \in [Drainers -> SUBSET Events]
  /\ junk \in [Drainers -> SUBSET Events]
  /\ upto \in [Drainers -> Nat]
  /\ toDead \in [Drainers -> SUBSET Events]
  /\ torn \in Nat /\ failures \in Nat /\ crashes \in Nat

Discarded == {e \in Events : dead[e] > 0}
Settled == central \cup Discarded

(* Every line the next read_pending would start behind is settled: recorded
   centrally or preserved in the dead-letter log ("advancing a byte-offset
   cursor only for events the server has durably accepted", drain.py). Two
   workers, retries, late requests, crashes and cursor resets included. *)
NoLineSkipped ==
  \A i \in 1 .. ReadCursor : outbox[i].nl => outbox[i].ev \in Settled

(* No event is both recorded centrally and dead-lettered: drain_batch writes
   dead letters only after the verdict is in, so a request that failed on the
   client but reached the server is retried, never given up. *)
SettledOneWay == central \cap Discarded = {}

(* The event ends a line onto whose front a fragment is glued. *)
EndsTornLine(e) ==
  \E i \in 2 .. Len(outbox) :
     outbox[i] = [ev |-> e, nl |-> TRUE] /\ ~outbox[i - 1].nl

(* Only an oversized line, a line spoiled by a fragment directly in front of
   it, or an event the server has an error row for is ever dead-lettered: a
   fragment spoils one line, not the lines after it. *)
OnlyBadLinesDiscarded ==
  \A e \in Discarded : e \in Oversize \cup ingestErrors \/ EndsTornLine(e)

(* One dead-letter record per bad line, never one per retry (drain.py, doc of
   drain_batch). *)
DeadLetteredOnce == \A e \in Events : dead[e] <= 1

(* Outbox implements Delivery: what is queued is what is appended whole and
   not settled yet. *)
Appended == {outbox[i].ev : i \in {j \in 1 .. Len(outbox) : outbox[j].nl}}

Abstract == INSTANCE Delivery WITH
  queued    <- Appended \ Settled,
  recorded  <- central,
  discarded <- Discarded

(* Every appended event is settled, exactly one way, and for good. *)
DeliverySafety == Abstract!DSafety

(* ... and, while a worker runs and failures end, every appended event is
   eventually settled. *)
DeliveryImplemented == Abstract!DSpec
=============================================================================
