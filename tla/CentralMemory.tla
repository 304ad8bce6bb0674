---------------------------- MODULE CentralMemory ----------------------------
(***************************************************************************)
(* The hub's memory.documents and memory.chunks tables under concurrent    *)
(* POST /v1/memory/ingest requests (services/api/memory_store.py).         *)
(*                                                                         *)
(* A request reads the rows of its ids and then the owners of its hashes   *)
(* (two statements, READ COMMITTED, no transaction around what follows),   *)
(* decides from what it read, embeds, and then works through its documents *)
(* one transaction at a time.  A transaction that replaces a document      *)
(* deletes the old row, which stays locked until the insert is committed   *)
(* or rolled back; a document without a row has nothing to lock, so two    *)
(* requests can both find it missing.                                      *)
(***************************************************************************)
EXTENDS MemoryDocs

CONSTANTS Handlers, MaxRequests, MaxFaults

ASSUME CentralAssumption == MaxRequests \in Nat /\ MaxFaults \in Nat

VARIABLES
  central,    \* the committed rows
  req,        \* the handlers' requests
  requests,   \* documents received so far
  faults,     \* model or driver failures so far
  seen        \* history: per request, the texts stored at some time since it came

centralVars == <<central, req, requests, faults, seen>>

(* held is the deleted row of an open transaction; keyed is history: the   *)
(* documents whose insert met a row of the same id.                        *)
Idle == [pc |-> "idle", batch |-> <<>>, meta |-> EtlMeta, rows |-> <<>>, plan |-> <<>>,
         todo |-> {}, out |-> {}, held |-> {}, existed |-> FALSE, keyed |-> {}]

CentralInit ==
  /\ central = <<>>
  /\ req = [h \in Handlers |-> Idle]
  /\ requests = 0 /\ faults = 0
  /\ seen = [h \in Handlers |-> {}]

Active(h) == req[h].pc # "idle"
Locked(h) == UNION {req[g].held : g \in Handlers \ {h}}

Commit(rows) ==
  /\ central' = rows
  /\ seen' = [g \in Handlers |-> IF Active(g) THEN seen[g] \cup StoredTexts(rows) ELSE {}]

NoCommit == UNCHANGED <<central, seen>>

-----------------------------------------------------------------------------
(* Preload and plan *)

(* The first SELECT: the rows with the ids of the batch.                   *)
Receive(h, b, m) ==
  /\ ~Active(h)
  /\ requests + Len(b) <= MaxRequests
  /\ DocsOf(b) \cap Locked(h) = {}
  /\ req' = [req EXCEPT ![h] = [Idle EXCEPT !.pc = "hashes", !.batch = b, !.meta = m,
                                  !.rows = Restrict(central, DocsOf(b) \cap DOMAIN central)]]
  /\ requests' = requests + Len(b)
  /\ seen' = [seen EXCEPT ![h] = StoredTexts(central)]
  /\ UNCHANGED <<central, faults>>

(* Whom the two SELECTs name as the owner of a text: the row found by its  *)
(* hash, else a row found by id.  The unique index leaves one candidate.   *)
HashOwner(rows, now, text) ==
  LET byHash == {d \in DOMAIN now : now[d].text = text}
      byId   == {d \in DOMAIN rows : rows[d].text = text}
  IN IF byHash # {} THEN byHash ELSE byId

(* Cross-identity dedup: a text that a row has under another id is not     *)
(* written again, and of several documents of the batch that would write   *)
(* the same text the first one does.                                       *)
Reconciled(src, rows, now) == \E d \in HashOwner(rows, now, src.text) : d # src.doc

Writes(src, m, rows, now) == Classify(src, m, rows) = "write" /\ ~Reconciled(src, rows, now)

CentralKind(b, i, m, rows, now) ==
  LET kind == Classify(b[i], m, rows)
      first == \A j \in 1..i-1 : b[j].text = b[i].text => ~Writes(b[j], m, rows, now)
  IN IF kind = "write" /\ ~(Writes(b[i], m, rows, now) /\ first) THEN "unchanged" ELSE kind

CentralPlan(b, m, rows, now) ==
  [i \in DOMAIN b |-> [doc |-> b[i].doc, text |-> b[i].text,
                       kind |-> CentralKind(b, i, m, rows, now)]]

(* One model call for all documents to write: if it fails the request is   *)
(* answered with an error and nothing is written.                          *)
EmbedFails(h, plan) ==
  /\ \E i \in DOMAIN plan : plan[i].kind = "write"
  /\ faults < MaxFaults
  /\ req' = [req EXCEPT ![h] = Idle]
  /\ faults' = faults + 1

(* The second SELECT, the plan and the part of the summary it settles, and *)
(* the embedding of what is to be written.                                 *)
Preload(h) ==
  LET plan == CentralPlan(req[h].batch, req[h].meta, req[h].rows, central)
      work == WorkOf(plan)
  IN /\ req[h].pc = "hashes"
     /\ \A d \in Locked(h) : central[d].text \notin TextsOf(req[h].batch)
     /\ \/ /\ req' = [req EXCEPT ![h].pc = IF work = {} THEN "done" ELSE "work",
                      ![h].plan = plan, ![h].todo = work, ![h].out = SettledOf(plan)]
           /\ UNCHANGED faults
        \/ EmbedFails(h, plan)
     /\ UNCHANGED requests /\ NoCommit

-----------------------------------------------------------------------------
(* One transaction per document *)

Current(h) == NextJob(req[h].plan, req[h].todo)
Turn(h, kind) == req[h].pc = "work" /\ Current(h).kind = kind

(* The rows whose key or content hash the insert collides with: locked     *)
(* ones make it wait, committed ones make it fail.                         *)
Colliding(h) ==
  {d \in DOMAIN central \ req[h].held : d = Current(h).doc \/ central[d].text = Current(h).text}

(* The transaction ended: its locks go, the document is tallied, and after *)
(* the last one the summary is returned.                                   *)
Rest(h) == {i \in req[h].todo : req[h].plan[i].doc # Current(h).doc}

Ended(h, how) ==
  req' = [req EXCEPT ![h].pc = IF Rest(h) = {} THEN "done" ELSE "work",
                     ![h].todo = Rest(h), ![h].held = {}, ![h].existed = FALSE,
                     ![h].keyed = IF req[h].pc = "insert" /\ Current(h).doc \in Colliding(h)
                                  THEN @ \cup {Current(h).doc} ELSE @,
                     ![h].out = @ \cup {[doc |-> Current(h).doc, how |-> how]}]

(* SELECT 1 and DELETE of the document about to be written.                *)
DeleteDocument(h) ==
  LET d == Current(h).doc
  IN /\ Turn(h, "write")
     /\ d \notin Locked(h)
     /\ req' = [req EXCEPT ![h].pc = "insert", ![h].held = {d} \cap DOMAIN central,
                           ![h].existed = d \in DOMAIN central]
     /\ UNCHANGED <<requests, faults>> /\ NoCommit

WrittenKeepsMeta(h) ==
  [text |-> Current(h).text, usable |-> "all",
   meta |-> IF Current(h).doc \in DOMAIN central THEN central[Current(h).doc].meta ELSE req[h].meta]
Written(h) == [text |-> Current(h).text, meta |-> req[h].meta, usable |-> "all"]

InsertDocumentNotCommitted(h) ==
  /\ req[h].pc = "insert"
  /\ Colliding(h) = {}
  /\ Ended(h, IF req[h].existed THEN "replaced" ELSE "new")
  /\ UNCHANGED <<requests, faults>> /\ NoCommit

InsertDocument(h) ==
  /\ req[h].pc = "insert"
  /\ Colliding(h) = {}
  /\ Commit(Put(central, Current(h).doc, Written(h)))
  /\ Ended(h, IF req[h].existed THEN "replaced" ELSE "new")
  /\ UNCHANGED <<requests, faults>>

(* pyodbc.IntegrityError: rolled back and counted as unchanged.            *)
IntegrityError(h) ==
  /\ req[h].pc = "insert"
  /\ Colliding(h) \ Locked(h) # {}
  /\ Ended(h, "unchanged")
  /\ UNCHANGED <<requests, faults>> /\ NoCommit

(* Two transactions wait for each other's row: the server ends one of them *)
(* with an error that is no IntegrityError.                                *)
DeadlockVictim(h) ==
  /\ req[h].pc = "insert"
  /\ \E g \in Handlers \ {h} : /\ req[g].pc = "insert"
                               /\ Colliding(h) \cap req[g].held # {}
                               /\ Colliding(g) \cap req[h].held # {}
  /\ Ended(h, "failed")
  /\ UNCHANGED <<requests, faults>> /\ NoCommit

UpdateDocumentMetadata(h) ==
  LET d == Current(h).doc
  IN /\ Turn(h, "update")
     /\ d \notin Locked(h)
     /\ Commit(SetMeta(central, d, req[h].meta))
     /\ Ended(h, "updated")
     /\ UNCHANGED <<requests, faults>>

RemoveDocument(h) ==
  LET d == Current(h).doc
  IN /\ Turn(h, "remove")
     /\ d \notin Locked(h)
     /\ Commit(Drop(central, d))
     /\ Ended(h, "removed")
     /\ UNCHANGED <<requests, faults>>

(* Any other driver error fails the one document.                          *)
DocumentFails(h) ==
  /\ req[h].pc \in {"work", "insert"}
  /\ faults < MaxFaults
  /\ Ended(h, "failed")
  /\ faults' = faults + 1
  /\ UNCHANGED requests /\ NoCommit

(* The summary is returned.                                                *)
Answer(h) ==
  /\ req[h].pc = "done"
  /\ req' = [req EXCEPT ![h] = Idle] /\ seen' = [seen EXCEPT ![h] = {}]
  /\ UNCHANGED <<central, requests, faults>>

Work(h) ==
  \/ Preload(h) \/ DeleteDocument(h) \/ InsertDocument(h) \/ IntegrityError(h)
  \/ DeadlockVictim(h) \/ UpdateDocumentMetadata(h) \/ RemoveDocument(h) \/ DocumentFails(h)
  \/ Answer(h)

CentralNext ==
  \E h \in Handlers : Work(h) \/ \E b \in Batches, m \in Metas : Receive(h, b, m)

-----------------------------------------------------------------------------
(* Properties *)

CentralTypeOK ==
  /\ central \in Store
  /\ requests \in 0..MaxRequests /\ faults \in 0..MaxFaults
  /\ \A h \in Handlers :
       /\ req[h].pc \in {"idle", "hashes", "work", "insert", "done"}
       /\ req[h].batch \in Batches \cup {<<>>}
       /\ req[h].rows \in Store
       /\ req[h].plan \in Seq(Job) /\ req[h].todo \subseteq DOMAIN req[h].plan
       /\ req[h].out \subseteq Tally
       /\ req[h].held \subseteq DOMAIN central
       /\ seen[h] \subseteq Texts

(* A commit gives a document the text and the metadata of one request: a   *)
(* metadata update lands on the text it was sent with, unless another      *)
(* request changed the document since this one read it.                    *)
CentralOneSource ==
  [][\A h \in Handlers : req'[h] # req[h] /\ central' # central =>
       \A i \in DOMAIN req[h].batch :
         LET src == req[h].batch[i]
         IN src.doc = Current(h).doc =>
              Overtaken(src.doc, req[h].rows, central) \/ Holds(central', src, req[h].meta)]_centralVars

(* The answer accounts for every document of the request exactly once.     *)
Accounted ==
  \A h \in Handlers : req[h].pc = "done" =>
    \A d \in DocsOf(req[h].batch) : Cardinality({t \in req[h].out : t.doc = d}) = 1

(* A text was stored, under its own or another id, at some time during the *)
(* request whose answer reports its document as new, replaced or unchanged *)
(* ("reconcile to the existing row").  Two cases are left: a document with *)
(* that text failed, or two requests wrote a new document at once and the  *)
(* second met its primary key; a later document of the batch with the same *)
(* text is then reported as unchanged all the same.                        *)
NothingSwallowed ==
  \A h \in Handlers : req[h].pc = "done" =>
    LET b == req[h].batch
        Excused(d) == d \in req[h].keyed \/ [doc |-> d, how |-> "failed"] \in req[h].out
    IN \A i \in DOMAIN b :
         \/ b[i].text \in seen[h] \cup {Empty}
         \/ \E j \in DOMAIN b : b[j].text = b[i].text /\ Excused(b[j].doc)

(* What a request that runs alone and without faults leaves: it is through *)
(* with the jobs of one kind before it starts with those of the next.      *)
Applied(now, job, m) ==
  CASE job.kind = "write" ->
         IF \E d \in DOMAIN now \ {job.doc} : now[d].text = job.text
         THEN now ELSE Put(now, job.doc, [text |-> job.text, meta |-> m, usable |-> "all"])
    [] job.kind = "update" -> SetMeta(now, job.doc, m)
    [] OTHER -> Drop(now, job.doc)

Phase(rows, plan, kind, m) ==
  LET after[i \in 0..Len(plan)] ==
        IF i = 0 THEN rows
        ELSE IF plan[i].kind = kind THEN Applied(after[i-1], plan[i], m) ELSE after[i-1]
  IN after[Len(plan)]

Alone(rows, b, m) ==
  LET plan == CentralPlan(b, m, rows, rows)
  IN Phase(Phase(Phase(rows, plan, "write", m), plan, "update", m), plan, "remove", m)

AsOftenAsDocuments(rows, b, m) ==
  LET after[i \in 0..Len(b)] == IF i = 0 THEN rows ELSE Alone(after[i-1], b, m)
  IN after[Len(b)]

(* From whatever state races and faults have left, ingesting a batch again *)
(* as often as it has documents stores all its texts: a document           *)
(* reconciled with a row that the same batch replaces is lost by the first *)
(* pass and written by a later one.                                        *)
RepeatedIngestHeals ==
  (\A h \in Handlers : ~Active(h)) =>
    \A b \in Batches, m \in Metas : TextsOf(b) \subseteq StoredTexts(AsOftenAsDocuments(central, b, m))
=============================================================================
