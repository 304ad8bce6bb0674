------------------------------ MODULE MemoryEtl ------------------------------
(***************************************************************************)
(* Local corpus, central corpus and the one-time migration between them    *)
(* (scripts/memory_etl_sql_server.py), all running at once: the migration  *)
(* copies the local store with SQLite's backup, reads what the hub already *)
(* has of it, and inserts the rest one committed document at a time.       *)
(***************************************************************************)
EXTENDS LocalMemory, CentralMemory

CONSTANT MaxRuns

ASSUME EtlAssumption == MaxRuns \in Nat

VARIABLES
  etl,        \* the migration
  runs,       \* migrations started so far
  etlSeen,    \* history: texts the hub stored at some time during the migration
  quiet       \* history: nobody else wrote to the hub during the migration

etlVars == <<etl, runs, etlSeen, quiet>>
vars == <<localVars, centralVars, etlVars>>

NotRunning == [pc |-> "idle", docs |-> <<>>, rows |-> <<>>, owned |-> {}, at |-> 1,
               preview |-> {}, out |-> {}]

Init == LocalInit /\ CentralInit /\ etl = NotRunning /\ runs = 0 /\ etlSeen = {} /\ quiet = TRUE

Extracted == [doc : Docs, text : Texts, usable : {"all", "some", "none"}]

AllLocked == UNION {req[h].held : h \in Handlers}

(* SQLite's backup copies the committed rows in one snapshot; vectors that *)
(* are missing or do not unpack to their dimension are not usable.         *)
BackupCopy(order) ==
  [i \in DOMAIN order |-> [doc |-> order[i], text |-> local[order[i]].text,
                           usable |-> local[order[i]].usable]]

(* Extraction from the copy, then the first half of MemoryStore._preload:  *)
(* the hub's rows with the extracted ids.                                  *)
Extract ==
  /\ etl.pc = "idle" /\ runs < MaxRuns /\ ingests = 0
  /\ DOMAIN local \cap AllLocked = {}
  /\ \E order \in SetToSeqs(DOMAIN local) :
       etl' = [NotRunning EXCEPT !.pc = "hashes",
                 !.docs = BackupCopy(order),
                 !.rows = Restrict(central, DOMAIN local \cap DOMAIN central)]
  /\ runs' = runs + 1
  /\ etlSeen' = StoredTexts(central) /\ quiet' = TRUE
  /\ UNCHANGED <<localVars, centralVars>>

Invalid(x) == x.usable = "none"

(* --dry-run: what a load would insert, without writing; of documents with *)
(* the same text, the first.                                               *)
Insertable(x, known, owned) == x.doc \notin known /\ x.text \notin owned /\ ~Invalid(x)

Preview(docs, known, owned) ==
  {docs[i].doc : i \in
     {j \in DOMAIN docs :
        /\ Insertable(docs[j], known, owned)
        /\ \A k \in 1..j-1 : Insertable(docs[k], known, owned) => docs[k].text # docs[j].text}}

(* The second half of the preload: the owners of the hashes.               *)
PreloadByHash ==
  /\ etl.pc = "hashes"
  /\ \A d \in AllLocked : central[d].text \notin TextsOf(etl.docs)
  /\ LET owned == StoredTexts(etl.rows) \cup (StoredTexts(central) \cap TextsOf(etl.docs))
     IN etl' = [etl EXCEPT !.pc = IF etl.docs = <<>> THEN "done" ELSE "load", !.owned = owned,
                           !.preview = Preview(etl.docs, DOMAIN etl.rows, owned)]
  /\ UNCHANGED <<localVars, centralVars, runs, etlSeen, quiet>>

TalliedEarly(how, text) ==
  etl' = [etl EXCEPT !.at = @ + 1, !.pc = IF etl.at = Len(etl.docs) THEN "done" ELSE "load",
                     !.out = @ \cup {[doc |-> etl.docs[etl.at].doc, how |-> how]},
                     !.owned = @ \cup {etl.docs[etl.at].text}]
Tallied(how, text) ==
  etl' = [etl EXCEPT !.at = @ + 1, !.pc = IF etl.at = Len(etl.docs) THEN "done" ELSE "load",
                     !.out = @ \cup {[doc |-> etl.docs[etl.at].doc, how |-> how]},
                     !.owned = @ \cup text]

Loading == etl.pc = "load"

(* A document the hub has by id or by hash is skipped; one without a       *)
(* usable vector fails its validation.                                     *)
SkipOrReject ==
  /\ Loading
  /\ LET x == etl.docs[etl.at]
     IN \/ (x.doc \in DOMAIN etl.rows \/ x.text \in etl.owned) /\ Tallied("skipped", {})
        \/ ~(x.doc \in DOMAIN etl.rows \/ x.text \in etl.owned) /\ Invalid(x) /\ Tallied("failed", {})
  /\ UNCHANGED <<localVars, centralVars, runs, etlSeen, quiet>>

Loadable(x) == Insertable(x, DOMAIN etl.rows, etl.owned)

Clashing(x) == {d \in DOMAIN central : d = x.doc \/ central[d].text = x.text}

(* INSERT of the document and of its usable chunks, committed; any error   *)
(* rolls the document back and reports it.                                 *)
LoadDocument ==
  /\ Loading /\ Loadable(etl.docs[etl.at])
  /\ LET x == etl.docs[etl.at]
     IN \/ /\ Clashing(x) = {}
           /\ Commit(Put(central, x.doc, [text |-> x.text, meta |-> EtlMeta, usable |-> x.usable]))
           /\ etlSeen' = etlSeen \cup {x.text}
           /\ Tallied("new", {x.text})
           /\ UNCHANGED faults
        \/ /\ Clashing(x) \ AllLocked # {}
           /\ Tallied("failed", {})
           /\ UNCHANGED <<central, seen, etlSeen, faults>>
        \/ /\ faults < MaxFaults /\ faults' = faults + 1
           /\ Tallied("failed", {})
           /\ UNCHANGED <<central, seen, etlSeen>>
  /\ UNCHANGED <<localVars, req, requests, runs, quiet>>

(* The report is printed.                                                  *)
Report ==
  /\ etl.pc = "done"
  /\ etl' = NotRunning /\ etlSeen' = {} /\ quiet' = TRUE
  /\ UNCHANGED <<localVars, centralVars, runs>>

EtlNext == Extract \/ PreloadByHash \/ SkipOrReject \/ LoadDocument \/ Report

(* While the migration runs, a commit of anybody else ends its quiet.      *)
Central ==
  /\ ingests = 0 /\ CentralNext
  /\ quiet' = (etl.pc = "idle" \/ (quiet /\ central' = central))
  /\ etlSeen' = IF etl.pc = "idle" THEN {} ELSE etlSeen \cup StoredTexts(central')
  /\ UNCHANGED <<localVars, etl, runs>>

(* A bound: local ingests do not run beside hub traffic.  The stores meet  *)
(* only in the snapshot Extract takes, which is one of Corpora either way. *)
Local == requests = 0 /\ runs = 0 /\ LocalNext /\ UNCHANGED <<centralVars, etlVars>>

Next == Local \/ Central \/ EtlNext

Spec == Init /\ [][Next]_vars

-----------------------------------------------------------------------------
(* Properties *)

TypeOK ==
  /\ LocalTypeOK /\ CentralTypeOK
  /\ etl.pc \in {"idle", "hashes", "load", "done"}
  /\ etl.docs \in Seq(Extracted) /\ etl.at \in 1..Len(etl.docs) + 1
  /\ etl.rows \in Store /\ etl.out \subseteq Tally
  /\ runs \in 0..MaxRuns

(* The migration loses nothing: a document of the local corpus that it     *)
(* does not report as failed has its text on the hub, or had it there      *)
(* while the migration ran, or the hub has had its id.                     *)
MigrationLosesNothing ==
  etl.pc = "done" =>
    \A i \in DOMAIN etl.docs :
      LET x == etl.docs[i]
      IN \/ [doc |-> x.doc, how |-> "failed"] \in etl.out
         \/ x.text \in etlSeen
         \/ x.doc \in DOMAIN etl.rows

(* "This preview can never drift from what a real load would do": if       *)
(* nobody else wrote and no insert failed, the documents inserted are the  *)
(* ones the dry run named.                                                 *)
PreviewHonest ==
  etl.pc = "done" /\ quiet /\ faults = 0 =>
    {t.doc : t \in {u \in etl.out : u.how = "new"}} = etl.preview

(* The migration never changes or removes a row the hub has.               *)
MigrationOnlyAdds ==
  [][etl' # etl => \A d \in DOMAIN central : d \in DOMAIN central' /\ central'[d] = central[d]]_vars

(* Every document of an ingest or migration is accounted for once.         *)
Accounts ==
  /\ Accounted
  /\ \A s \in Servers : srv[s].pc = "done" =>
       \A d \in DocsOf(srv[s].batch) : Cardinality({t \in srv[s].out : t.doc = d}) = 1
  /\ etl.pc = "done" =>
       \A i \in DOMAIN etl.docs : Cardinality({t \in etl.out : t.doc = etl.docs[i].doc}) = 1

(* What the three writers do to a stored document: both ingests leave text *)
(* and metadata of one source, and the migration leaves it alone.          *)
OneSource == CentralOneSource /\ LocalOneSource /\ MigrationOnlyAdds

(* What an answer says of a document is so: each is named once, and no     *)
(* text reported as kept was swallowed.                                    *)
AnswersTrue == Accounts /\ NothingSwallowed

(* The migration keeps its types, loses nothing and does what its dry run  *)
(* announced.                                                              *)
MigrationFaithful == TypeOK /\ MigrationLosesNothing /\ PreviewHonest
=============================================================================
