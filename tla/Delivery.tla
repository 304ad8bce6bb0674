------------------------------ MODULE Delivery ------------------------------
(***************************************************************************)
(* What the sync plane promises for the events of one repository, whatever *)
(* the network, the drain worker and the files underneath do: an event     *)
(* whose line reached the outbox stays queued until it is settled, it is   *)
(* settled exactly one way (recorded centrally, or dead-lettered on the    *)
(* machine), and a settled event stays settled.                            *)
(*                                                                         *)
(* Module Outbox implements this specification; OutboxProofs proves the    *)
(* safety part for every value of its constants.                           *)
(***************************************************************************)
CONSTANT Events      \* event ids (unique ULIDs)

VARIABLES
  queued,            \* events waiting in the outbox
  recorded,          \* events in the central log
  discarded          \* events preserved in the local dead-letter log

dvars == <<queued, recorded, discarded>>

DInit == queued = {} /\ recorded = {} /\ discarded = {}

New(e) == e \notin queued \cup recorded \cup discarded

(* A producer's append succeeds. *)
Enqueue(e) ==
  /\ New(e)
  /\ queued' = queued \cup {e}
  /\ UNCHANGED <<recorded, discarded>>

(* A line the producer refuses to append goes straight to the dead letters. *)
Refuse(e) ==
  /\ New(e)
  /\ discarded' = discarded \cup {e}
  /\ UNCHANGED <<queued, recorded>>

(* A whole batch is recorded in one transaction. *)
Record(S) ==
  /\ S \subseteq queued
  /\ queued' = queued \ S
  /\ recorded' = recorded \cup S
  /\ UNCHANGED discarded

Discard(e) ==
  /\ e \in queued
  /\ queued' = queued \ {e}
  /\ discarded' = discarded \cup {e}
  /\ UNCHANGED recorded

DNext ==
  \/ \E e \in Events : Enqueue(e) \/ Refuse(e) \/ Discard(e)
  \/ \E S \in SUBSET Events : Record(S)

(* One way of settling e: with the batch that holds it, or alone. *)
Settle(e) == Discard(e) \/ \E S \in SUBSET Events : e \in S /\ Record(S)

DSafety == DInit /\ [][DNext]_dvars

DSpec == DSafety /\ \A e \in Events : WF_dvars(Settle(e))
=============================================================================
