----------------------------- MODULE LocalMemory -----------------------------
(***************************************************************************)
(* The machine-wide SQLite corpus (mcp/memory/store.py) that the MCP       *)
(* servers of all checkouts of a machine share.  An ingest reads the       *)
(* documents table, decides, embeds, and writes everything in one deferred *)
(* transaction with a savepoint per document.  In WAL mode a transaction   *)
(* that has read an old snapshot cannot write: the savepoint of each       *)
(* document then fails, and with it the whole ingest.                      *)
(***************************************************************************)
EXTENDS MemoryDocs

CONSTANTS Servers, MaxIngests

ASSUME LocalAssumption == MaxIngests \in Nat

VARIABLES
  local,      \* the committed rows
  version,    \* commits so far
  srv,        \* the servers' ingests
  ingests     \* documents handed over so far

localVars == <<local, version, srv, ingests>>

Resting == [pc |-> "idle", batch |-> <<>>, meta |-> EtlMeta, rows |-> <<>>,
            plan |-> <<>>, todo |-> {}, out |-> {}, snap |-> {}]

LocalInit ==
  /\ local \in Corpora
  /\ version = 0 /\ ingests = 0
  /\ srv = [s \in Servers |-> Resting]

(* Preload in a transaction of its own, then the plan.                     *)
LocalPlan(b, m, rows) ==
  [i \in DOMAIN b |-> [doc |-> b[i].doc, text |-> b[i].text, kind |-> Classify(b[i], m, rows)]]

IngestDocuments(s, b, m) ==
  /\ srv[s].pc = "idle"
  /\ ingests + Len(b) <= MaxIngests
  /\ LET plan == LocalPlan(b, m, local)
     IN srv' = [srv EXCEPT ![s] = [Resting EXCEPT !.pc = "embed", !.batch = b, !.meta = m,
                  !.rows = local, !.plan = plan, !.todo = WorkOf(plan), !.out = SettledOf(plan)]]
  /\ ingests' = ingests + Len(b)
  /\ UNCHANGED <<local, version>>

First(s) == NextJob(srv[s].plan, srv[s].todo)

(* The model call, which may fail, then BEGIN.  The first statement of a   *)
(* write or a removal is a SELECT, which fixes the snapshot; an update     *)
(* starts by writing.                                                      *)
BeginWrites(s) ==
  /\ srv[s].pc = "embed"
  /\ \/ srv' = [srv EXCEPT ![s].pc = "write",
                           ![s].snap = IF srv[s].todo # {} /\ First(s).kind # "update"
                                       THEN {version} ELSE {}]
     \/ /\ srv[s].todo # {} /\ First(s).kind = "write"
        /\ srv' = [srv EXCEPT ![s] = Resting]
  /\ UNCHANGED <<local, version, ingests>>

Done(job, rows) ==
  [doc |-> job.doc,
   how |-> CASE job.kind = "update" -> "updated" [] job.kind = "remove" -> "removed"
             [] OTHER -> IF job.doc \in DOMAIN rows THEN "replaced" ELSE "new"]

(* The rows after the savepoints of an ingest, of which no two are about   *)
(* one document: a write replaces the row, its chunks and its vectors.     *)
Savepoints(m, rows, jobs) ==
  LET Of(kind) == {j.doc : j \in {k \in jobs : k.kind = kind}}
      text(d) == (CHOOSE j \in jobs : j.doc = d).text
  IN [d \in (DOMAIN rows \cup Of("write")) \ Of("remove") |->
        IF d \in Of("write") THEN [text |-> text(d), meta |-> m, usable |-> "all"]
        ELSE IF d \in Of("update") THEN [rows[d] EXCEPT !.meta = m] ELSE rows[d]]

(* The transaction: the documents of lost fail in their savepoints, the    *)
(* others are committed together.                                          *)
Commits(s, lost) ==
  LET jobs == {srv[s].plan[i] : i \in srv[s].todo}
      kept == {j \in jobs : j.doc \notin lost}
  IN /\ local' = Savepoints(srv[s].meta, local, kept)
     /\ version' = IF kept = {} THEN version ELSE version + 1
     /\ srv' = [srv EXCEPT ![s].pc = "done", ![s].todo = {},
                  ![s].out = @ \cup {IF j.doc \in lost THEN [doc |-> j.doc, how |-> "failed"]
                                     ELSE Done(j, local) : j \in jobs}]

Stale(s) == \E v \in srv[s].snap : v # version

WriteDocuments(s) ==
  /\ srv[s].pc = "write"
  /\ LET docs == {srv[s].plan[i].doc : i \in srv[s].todo}
     IN IF Stale(s) THEN Commits(s, docs)
        ELSE \E lost \in {{}} \cup {{d} : d \in docs} : Commits(s, lost)
  /\ UNCHANGED ingests

(* The summary is returned.                                                *)
Return(s) ==
  /\ srv[s].pc = "done"
  /\ srv' = [srv EXCEPT ![s] = Resting]
  /\ UNCHANGED <<local, version, ingests>>

LocalNext ==
  \E s \in Servers :
       \/ \E b \in Batches, m \in Metas : IngestDocuments(s, b, m)
       \/ BeginWrites(s)
       \/ WriteDocuments(s)
       \/ Return(s)

-----------------------------------------------------------------------------
(* Properties *)

LocalTypeOK ==
  /\ local \in Store
  /\ version \in 0..MaxIngests /\ ingests \in 0..MaxIngests
  /\ \A s \in Servers :
       /\ srv[s].pc \in {"idle", "embed", "write", "done"}
       /\ srv[s].rows \in Store
       /\ srv[s].plan \in Seq(Job) /\ srv[s].todo \subseteq DOMAIN srv[s].plan
       /\ srv[s].out \subseteq Tally
       /\ srv[s].snap \subseteq 0..MaxIngests

(* A commit gives a document the text and the metadata of one source: a    *)
(* metadata update lands on the text it was sent with, unless another      *)
(* server committed the document since this one read it.                   *)
LocalOneSource ==
  [][\A s \in Servers : srv[s].pc = "write" /\ srv'[s] # srv[s] =>
       \A i \in DOMAIN srv[s].batch :
         LET src == srv[s].batch[i]
             failed == [doc |-> src.doc, how |-> "failed"] \in srv'[s].out
         IN failed \/ Overtaken(src.doc, srv[s].rows, local) \/ Holds(local', src, srv[s].meta)]_localVars
=============================================================================
