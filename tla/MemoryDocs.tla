----------------------------- MODULE MemoryDocs -----------------------------
(***************************************************************************)
(* What the local and the central vector memory share: the documents a     *)
(* caller hands over, the rows a store keeps, and the classification that  *)
(* decides which documents are written, updated, removed or left alone.    *)
(*                                                                         *)
(* A text stands for a document's chunks, its vectors and its content hash *)
(* (texts differ exactly when their hashes do); Empty is a document that   *)
(* yields no chunk.  A meta stands for title, type, path, provenance, date *)
(* and, centrally, the source machine: one ingest gives all its documents  *)
(* the same one.  EtlMeta is the one the migration gives, and stands for   *)
(* that of rows from before the run.                                       *)
(***************************************************************************)
EXTENDS Naturals, Sequences, SequencesExt, Functions, FiniteSets

CONSTANTS Docs, Texts, Metas, Empty, EtlMeta, MaxBatch

ASSUME MemoryAssumption ==
  /\ Empty \notin Texts /\ EtlMeta \notin Metas /\ Metas # {}
  /\ IsFiniteSet(Docs) /\ MaxBatch \in Nat

Source == [doc : Docs, text : Texts \cup {Empty}]

(* A row of the documents table with its chunk and vector rows.  usable    *)
(* says for how many of the chunks the vector can be read back.            *)
Row == [text : Texts, meta : Metas \cup {EtlMeta}, usable : {"all", "some", "none"}]

Store == UNION {[D -> Row] : D \in SUBSET Docs}

DocsOf(batch) == {batch[i].doc : i \in DOMAIN batch}
TextsOf(batch) == {batch[i].text : i \in DOMAIN batch} \ {Empty}

(* The documents of one ingest: ids do not repeat, since an adapter        *)
(* derives them from distinct paths or conversations.  An empty document   *)
(* comes alone (a bound: it does not interact with the others).            *)
Batches == {b \in UNION {[1..n -> Source] : n \in 1..MaxBatch} :
              /\ \A i, j \in DOMAIN b : b[i].doc = b[j].doc => i = j
              /\ Len(b) > 1 => \A i \in DOMAIN b : b[i].text # Empty}

(* Corpora to start from: a row for every document, the vectors of at most *)
(* one of them damaged since.                                              *)
Corpora ==
  {c \in [Docs -> Row] : /\ \A d \in Docs : c[d].meta = EtlMeta
                         /\ \A d, e \in Docs : c[d].usable # "all" /\ c[e].usable # "all" => d = e}

StoredTexts(rows) == {rows[d].text : d \in DOMAIN rows}

Put(rows, d, row) == [e \in DOMAIN rows \cup {d} |-> IF e = d THEN row ELSE rows[e]]
Drop(rows, d) == Restrict(rows, DOMAIN rows \ {d})

SetMeta(rows, d, m) ==
  IF d \in DOMAIN rows THEN [rows EXCEPT ![d].meta = m] ELSE rows

SameContentById(src, rows) == src.doc \in DOMAIN rows
SameContent(src, rows) ==
  src.doc \in DOMAIN rows /\ rows[src.doc].text = src.text

MetadataDiffers(src, m, rows) == rows[src.doc].meta # m

(* The fate of one document as both stores decide it by id: rows are the   *)
(* rows read beforehand.                                                   *)
Classify(src, m, rows) ==
  CASE src.text = Empty -> IF src.doc \in DOMAIN rows THEN "remove" ELSE "skipped"
    [] SameContent(src, rows) ->
         IF MetadataDiffers(src, m, rows) THEN "update" ELSE "unchanged"
    [] OTHER -> "write"

(* The store shows a source the way it was sent.                           *)
Holds(rows, src, m) ==
  IF src.text = Empty THEN src.doc \notin DOMAIN rows
  ELSE SameContent(src, rows) /\ rows[src.doc].meta = m

(* Somebody else changed the row of a document since it was read.          *)
Overtaken(d, read, now) ==
  ~(d \in DOMAIN read <=> d \in DOMAIN now) \/ (d \in DOMAIN now /\ now[d] # read[d])

(* A plan is a job per document; what is left of it are positions.  Work   *)
(* is done in this order: all writes, then updates, then removals.         *)
Kinds == {"write", "update", "remove", "skipped", "unchanged"}
Job == [doc : Docs, text : Texts \cup {Empty}, kind : Kinds]

WorkOf(plan) == {i \in DOMAIN plan : plan[i].kind \in {"write", "update", "remove"}}

NextJob(plan, todo) ==
  LET Of(kind) == {i \in todo : plan[i].kind = kind}
      turn == IF Of("write") # {} THEN Of("write")
              ELSE IF Of("update") # {} THEN Of("update") ELSE todo
  IN plan[Min(turn)]

(* A summary says of each document how it ended; the documents that need   *)
(* no work are counted before any work starts.                             *)
Outcomes == {"new", "replaced", "unchanged", "updated", "removed", "skipped", "failed"}
Tally == [doc : Docs, how : Outcomes]

SettledOf(plan) ==
  {[doc |-> plan[i].doc, how |-> plan[i].kind] :
     i \in {j \in DOMAIN plan : plan[j].kind \in {"skipped", "unchanged"}}}
=============================================================================
