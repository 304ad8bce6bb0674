---------------------------- MODULE MemoryProofs ----------------------------
(***************************************************************************)
(* Proofs about modules MemoryEtl and MemoryCore.                          *)
(* MemoryEtl, for any number of documents, texts, servers, requests,       *)
(* migrations and faults: what an answer says is so, a commit has one      *)
(* source, ingesting a batch again heals, and the migration only adds,     *)
(* loses nothing and does what its dry run announced.                      *)
(* MemoryCore, for any export, text, corpus, pools and searches: a         *)
(* conversation becomes a thread, chunks hold all of a text or of a        *)
(* conversation in order and within the budget, an answer has the best     *)
(* first and leaves out only what is worse, and nothing less than an       *)
(* undisturbed query asked for.                                            *)
(***************************************************************************)
EXTENDS MemoryEtl, MemoryCore, FiniteSetTheorems, SequenceTheorems, WellFoundedInduction, TLAPS

-----------------------------------------------------------------------------
(* Rows                                                                    *)

LEMMA StoreShape ==
  \A rows : rows \in Store <=> rows \in [DOMAIN rows -> Row] /\ DOMAIN rows \subseteq Docs
<1>1. ASSUME NEW rows, rows \in Store
      PROVE  rows \in [DOMAIN rows -> Row] /\ DOMAIN rows \subseteq Docs
  <2>1. PICK D \in SUBSET Docs : rows \in [D -> Row]
    BY <1>1 DEF Store
  <2> QED
    BY <2>1
<1>2. ASSUME NEW rows, rows \in [DOMAIN rows -> Row], DOMAIN rows \subseteq Docs
      PROVE  rows \in Store
  BY <1>2 DEF Store
<1> QED
  BY <1>1, <1>2

LEMMA RowFields ==
  \A r \in Row : /\ r.text \in Texts /\ r.meta \in Metas \cup {EtlMeta} /\ r.usable \in {"all", "some", "none"}
                 /\ r = [text |-> r.text, meta |-> r.meta, usable |-> r.usable]
BY DEF Row

LEMMA RowMade ==
  \A t \in Texts, m \in Metas \cup {EtlMeta}, u \in {"all", "some", "none"} :
    [text |-> t, meta |-> m, usable |-> u] \in Row
BY DEF Row

LEMMA RowMetaPut ==
  \A r \in Row : \A m : [r EXCEPT !.meta = m] = [text |-> r.text, meta |-> m, usable |-> r.usable]
BY DEF Row

LEMMA RowMetaKept ==
  \A r \in Row, m \in Metas \cup {EtlMeta} :
    LET new == [r EXCEPT !.meta = m] IN new \in Row /\ new.text = r.text /\ new.meta = m
BY DEF Row

LEMMA TextsStored ==
  ASSUME NEW rows \in Store
  PROVE  /\ StoredTexts(rows) \subseteq Texts
         /\ \A d \in DOMAIN rows : d \in Docs /\ rows[d] \in Row /\ rows[d].text \in Texts /\ rows[d].text \in StoredTexts(rows)
         /\ \A t \in StoredTexts(rows) : \E d \in DOMAIN rows : rows[d].text = t
<1>1. rows \in [DOMAIN rows -> Row] /\ DOMAIN rows \subseteq Docs
  BY StoreShape
<1>2. \A d \in DOMAIN rows : rows[d] \in Row
  BY <1>1
<1>3. \A d \in DOMAIN rows : rows[d].text \in Texts
  BY <1>2, RowFields
<1> QED
  BY <1>1, <1>2, <1>3 DEF StoredTexts

LEMMA PutRow ==
  ASSUME NEW rows \in Store, NEW d \in Docs, NEW row \in Row
  PROVE  /\ Put(rows, d, row) \in Store
         /\ DOMAIN Put(rows, d, row) = DOMAIN rows \cup {d}
         /\ Put(rows, d, row)[d] = row
         /\ \A e \in DOMAIN rows : e # d => Put(rows, d, row)[e] = rows[e]
         /\ StoredTexts(Put(rows, d, row)) \subseteq StoredTexts(rows) \cup {row.text}
<1>1. rows \in [DOMAIN rows -> Row] /\ DOMAIN rows \subseteq Docs
  BY StoreShape
<1>2. Put(rows, d, row) = [e \in DOMAIN rows \cup {d} |-> IF e = d THEN row ELSE rows[e]]
  BY DEF Put
<1>3. DOMAIN Put(rows, d, row) = DOMAIN rows \cup {d}
  BY <1>2
<1>4. Put(rows, d, row)[d] = row /\ \A e \in DOMAIN rows : e # d => Put(rows, d, row)[e] = rows[e]
  BY <1>2
<1>5. Put(rows, d, row) \in [DOMAIN rows \cup {d} -> Row]
  BY <1>1, <1>2
<1>6. Put(rows, d, row) \in Store
  BY <1>1, <1>3, <1>5, StoreShape
<1>7. ASSUME NEW t \in StoredTexts(Put(rows, d, row))
      PROVE  t \in StoredTexts(rows) \cup {row.text}
  <2>1. PICK e \in DOMAIN rows \cup {d} : Put(rows, d, row)[e].text = t
    BY <1>3, <1>6, TextsStored
  <2>2. CASE e = d
    BY <1>4, <2>1, <2>2
  <2>3. CASE e # d
    BY <1>4, <2>1, <2>3 DEF StoredTexts
  <2> QED
    BY <2>2, <2>3
<1> QED
  BY <1>3, <1>4, <1>6, <1>7

LEMMA DropRow ==
  ASSUME NEW rows \in Store, NEW d
  PROVE  /\ Drop(rows, d) \in Store
         /\ DOMAIN Drop(rows, d) = DOMAIN rows \ {d}
         /\ \A e \in DOMAIN rows \ {d} : Drop(rows, d)[e] = rows[e]
         /\ StoredTexts(Drop(rows, d)) \subseteq StoredTexts(rows)
<1>1. rows \in [DOMAIN rows -> Row] /\ DOMAIN rows \subseteq Docs
  BY StoreShape
<1>2. Drop(rows, d) = [e \in DOMAIN rows \ {d} |-> rows[e]]
  BY DEF Drop, Restrict
<1>3. DOMAIN Drop(rows, d) = DOMAIN rows \ {d} /\ \A e \in DOMAIN rows \ {d} : Drop(rows, d)[e] = rows[e]
  BY <1>2
<1>4. Drop(rows, d) \in [DOMAIN rows \ {d} -> Row]
  BY <1>1, <1>2
<1>5. Drop(rows, d) \in Store
  BY <1>1, <1>3, <1>4, StoreShape
<1>6. StoredTexts(Drop(rows, d)) \subseteq StoredTexts(rows)
  BY <1>3 DEF StoredTexts
<1> QED
  BY <1>3, <1>5, <1>6

LEMMA SetRowMeta ==
  ASSUME NEW rows \in Store, NEW d, NEW m \in Metas \cup {EtlMeta}
  PROVE  /\ SetMeta(rows, d, m) \in Store
         /\ DOMAIN SetMeta(rows, d, m) = DOMAIN rows
         /\ \A e \in DOMAIN rows : SetMeta(rows, d, m)[e].text = rows[e].text
         /\ d \in DOMAIN rows => SetMeta(rows, d, m)[d].meta = m
         /\ StoredTexts(SetMeta(rows, d, m)) = StoredTexts(rows)
<1>1. rows \in [DOMAIN rows -> Row] /\ DOMAIN rows \subseteq Docs
  BY StoreShape
<1>2. CASE d \in DOMAIN rows
  <2> DEFINE row == [text |-> rows[d].text, meta |-> m, usable |-> rows[d].usable]
  <2>1. rows[d] \in Row
    BY <1>1, <1>2
  <2>2. row \in Row
    BY <2>1, RowFields, RowMade
  <2>3. SetMeta(rows, d, m) = [rows EXCEPT ![d] = row]
    <3>1. SetMeta(rows, d, m) = [rows EXCEPT ![d] = [rows[d] EXCEPT !.meta = m]]
      BY <1>1, <1>2 DEF SetMeta
    <3>2. [rows[d] EXCEPT !.meta = m] = row
      BY <2>1, RowMetaPut
    <3> QED
      BY <3>1, <3>2
  <2>4. row.text = rows[d].text /\ row.meta = m
    OBVIOUS
  <2> HIDE DEF row
  <2>5. SetMeta(rows, d, m) \in [DOMAIN rows -> Row] /\ DOMAIN SetMeta(rows, d, m) = DOMAIN rows
    BY <1>1, <1>2, <2>2, <2>3
  <2>6. \A e \in DOMAIN rows : SetMeta(rows, d, m)[e] = IF e = d THEN row ELSE rows[e]
    BY <1>1, <1>2, <2>3
  <2>7. \A e \in DOMAIN rows : SetMeta(rows, d, m)[e].text = rows[e].text
    BY <2>4, <2>6
  <2>8. SetMeta(rows, d, m) \in Store
    BY <1>1, <2>5, StoreShape
  <2>9. StoredTexts(SetMeta(rows, d, m)) = StoredTexts(rows)
    BY <2>5, <2>7 DEF StoredTexts
  <2> QED
    BY <1>2, <2>4, <2>5, <2>6, <2>7, <2>8, <2>9
<1>3. CASE d \notin DOMAIN rows
  BY <1>3 DEF SetMeta
<1> QED
  BY <1>2, <1>3

LEMMA RestrictRows ==
  ASSUME NEW rows \in Store, NEW D \in SUBSET DOMAIN rows
  PROVE  /\ Restrict(rows, D) \in Store
         /\ DOMAIN Restrict(rows, D) = D
         /\ \A d \in D : Restrict(rows, D)[d] = rows[d]
         /\ StoredTexts(Restrict(rows, D)) \subseteq StoredTexts(rows)
<1>1. rows \in [DOMAIN rows -> Row] /\ DOMAIN rows \subseteq Docs
  BY StoreShape
<1>2. Restrict(rows, D) = [d \in D |-> rows[d]]
  BY DEF Restrict
<1>3. DOMAIN Restrict(rows, D) = D /\ \A d \in D : Restrict(rows, D)[d] = rows[d]
  BY <1>2
<1>4. Restrict(rows, D) \in [D -> Row] /\ D \subseteq Docs
  BY <1>1, <1>2
<1>5. Restrict(rows, D) \in Store
  BY <1>3, <1>4, StoreShape
<1> QED
  BY <1>3, <1>5 DEF StoredTexts

LEMMA NoRows ==
  <<>> \in Store /\ DOMAIN <<>> = {} /\ StoredTexts(<<>>) = {}
<1>1. DOMAIN <<>> = {} /\ <<>> \in [{} -> Row]
  OBVIOUS
<1> QED
  BY <1>1, StoreShape DEF StoredTexts

-----------------------------------------------------------------------------
(* Plans                                                                   *)

LEMMA LeastNat ==
  ASSUME NEW S \in SUBSET Nat, S # {}
  PROVE  \E k \in S : \A j \in S : k <= j
<1>1. PICK k \in S : \A j \in S : ~(<<j, k>> \in OpToRel(<, Nat))
  BY NatLessThanWellFounded, WFMin
<1>2. \A j \in S : ~(j < k)
  BY <1>1 DEF OpToRel
<1> QED
  BY <1>2

LEMMA MinExists ==
  ASSUME NEW S \in SUBSET Nat, S # {}
  PROVE  Min(S) \in S /\ \A j \in S : Min(S) <= j
BY LeastNat DEF Min

LEMMA BatchShape ==
  ASSUME NEW b \in Batches
  PROVE  /\ b \in Seq(Source) /\ Len(b) \in Nat /\ Len(b) >= 1 /\ DOMAIN b = 1 .. Len(b)
         /\ \A i \in DOMAIN b : b[i] \in Source /\ b[i].doc \in Docs /\ b[i].text \in Texts \cup {Empty}
         /\ \A i, j \in DOMAIN b : b[i].doc = b[j].doc => i = j
         /\ b # <<>>
<1>1. PICK n \in 1 .. MaxBatch : b \in [1 .. n -> Source]
  BY DEF Batches
<1>2. n \in Nat /\ n >= 1
  BY <1>1, MemoryAssumption
<1>3. b \in Seq(Source) /\ Len(b) = n /\ DOMAIN b = 1 .. n
  BY <1>1, <1>2
<1>4. \A i \in DOMAIN b : b[i] \in Source
  BY <1>1
<1>5. \A i \in DOMAIN b : b[i].doc \in Docs /\ b[i].text \in Texts \cup {Empty}
  BY <1>4 DEF Source
<1>6. \A i, j \in DOMAIN b : b[i].doc = b[j].doc => i = j
  BY DEF Batches
<1>7. b # <<>>
  BY <1>2, <1>3
<1> QED
  BY <1>2, <1>3, <1>4, <1>5, <1>6, <1>7

(* A plan has a job for each document of its batch, in their order.        *)
Fits(plan, b) ==
  /\ plan \in Seq(Job) /\ DOMAIN plan = DOMAIN b
  /\ \A i \in DOMAIN b : plan[i].doc = b[i].doc /\ plan[i].text = b[i].text

LEMMA JobFields ==
  \A j \in Job : j.doc \in Docs /\ j.text \in Texts \cup {Empty} /\ j.kind \in Kinds
BY DEF Job

LEMMA JobMade ==
  \A d \in Docs, t \in Texts \cup {Empty}, k \in Kinds : [doc |-> d, text |-> t, kind |-> k] \in Job
BY DEF Job

LEMMA PlanFields ==
  ASSUME NEW b \in Batches, NEW plan, Fits(plan, b)
  PROVE  /\ \A i \in DOMAIN b : i \in Nat /\ plan[i] \in Job /\ plan[i].kind \in Kinds /\ plan[i].doc \in Docs
         /\ \A i, j \in DOMAIN b : plan[i].doc = plan[j].doc => i = j
         /\ DOMAIN plan = DOMAIN b
<1>1. DOMAIN b \subseteq Nat
  BY BatchShape
<1>2. \A i \in DOMAIN b : plan[i] \in Job
  BY DEF Fits
<1>3. \A i \in DOMAIN b : plan[i].kind \in Kinds /\ plan[i].doc \in Docs
  BY <1>2, JobFields
<1> QED
  BY <1>1, <1>2, <1>3, BatchShape DEF Fits

(* The next job is one of those that are left.                             *)
LEMMA NextJobLeft ==
  ASSUME NEW plan, NEW todo \in SUBSET Nat, todo # {}
  PROVE  \E k \in todo : NextJob(plan, todo) = plan[k]
<1> DEFINE writes == {i \in todo : plan[i].kind = "write"}
           updates == {i \in todo : plan[i].kind = "update"}
           turn == IF writes # {} THEN writes ELSE IF updates # {} THEN updates ELSE todo
<1>1. turn \subseteq todo /\ turn # {}
  OBVIOUS
<1>2. Min(turn) \in turn
  <2> HIDE DEF turn
  <2> QED
    BY <1>1, MinExists
<1>3. NextJob(plan, todo) = plan[Min(turn)]
  BY DEF NextJob
<1> HIDE DEF turn
<1> QED
  BY <1>1, <1>2, <1>3

(* What Classify says of a document of a batch.                            *)
LEMMA Classified ==
  ASSUME NEW src \in Source, NEW m, NEW rows \in Store
  PROVE  /\ Classify(src, m, rows) \in Kinds
         /\ Classify(src, m, rows) \in {"remove", "skipped"} <=> src.text = Empty
         /\ Classify(src, m, rows) = "skipped" => src.doc \notin DOMAIN rows
         /\ Classify(src, m, rows) = "update" => SameContent(src, rows) 
         /\ Classify(src, m, rows) = "unchanged" => SameContent(src, rows) /\ rows[src.doc].meta = m
<1>0. src.text = Empty => ~SameContent(src, rows)
  BY TextsStored, MemoryAssumption DEF SameContent
<1>1. CASE src.text = Empty
  <2>1. Classify(src, m, rows) = IF src.doc \in DOMAIN rows THEN "remove" ELSE "skipped"
    BY <1>0, <1>1 DEF Classify
  <2> QED
    BY <1>1, <2>1 DEF Kinds
<1>2. CASE src.text # Empty /\ SameContent(src, rows)
  <2>1. Classify(src, m, rows) = IF rows[src.doc].meta # m THEN "update" ELSE "unchanged"
    BY <1>2 DEF Classify, MetadataDiffers
  <2> QED
    BY <1>2, <2>1 DEF Kinds
<1>3. CASE src.text # Empty /\ ~SameContent(src, rows)
  <2>1. Classify(src, m, rows) = "write"
    BY <1>3 DEF Classify
  <2> QED
    BY <1>3, <2>1 DEF Kinds
<1> QED
  BY <1>1, <1>2, <1>3

LEMMA LocalPlanned ==
  ASSUME NEW b \in Batches, NEW m, NEW rows \in Store
  PROVE  /\ Fits(LocalPlan(b, m, rows), b)
         /\ \A i \in DOMAIN b : LocalPlan(b, m, rows)[i].kind = Classify(b[i], m, rows)
<1> DEFINE plan == LocalPlan(b, m, rows)
<1>1. DOMAIN plan = 1 .. Len(b) /\ Len(b) \in Nat
  BY BatchShape DEF LocalPlan
<1>2. \A i \in DOMAIN b : plan[i] = [doc |-> b[i].doc, text |-> b[i].text, kind |-> Classify(b[i], m, rows)]
  BY DEF LocalPlan
<1>3. \A i \in DOMAIN b : plan[i] \in Job
  <2> SUFFICES ASSUME NEW i \in DOMAIN b PROVE plan[i] \in Job
    OBVIOUS
  <2>1. b[i] \in Source /\ b[i].doc \in Docs /\ b[i].text \in Texts \cup {Empty}
    BY BatchShape
  <2>2. Classify(b[i], m, rows) \in Kinds
    BY <2>1, Classified
  <2> QED
    BY <1>2, <2>1, <2>2, JobMade
<1>4. plan \in Seq(Job)
  <2>1. plan = [i \in 1 .. Len(b) |-> plan[i]]
    BY BatchShape DEF LocalPlan
  <2>2. \A i \in 1 .. Len(b) : plan[i] \in Job
    BY <1>3, BatchShape
  <2> QED
    BY <1>1, <2>1, <2>2
<1>5. DOMAIN plan = DOMAIN b
  BY BatchShape, <1>1
<1> HIDE DEF plan
<1>6. \A i \in DOMAIN b : plan[i].doc = b[i].doc /\ plan[i].text = b[i].text /\ plan[i].kind = Classify(b[i], m, rows)
  <2> SUFFICES ASSUME NEW i \in DOMAIN b
               PROVE  plan[i].doc = b[i].doc /\ plan[i].text = b[i].text /\ plan[i].kind = Classify(b[i], m, rows)
    OBVIOUS
  <2> DEFINE kind == Classify(b[i], m, rows)
  <2>1. plan[i] = [doc |-> b[i].doc, text |-> b[i].text, kind |-> kind]
    BY <1>2
  <2> HIDE DEF kind
  <2>2. plan[i].doc = b[i].doc /\ plan[i].text = b[i].text /\ plan[i].kind = kind
    BY <2>1
  <2> QED
    BY <2>2 DEF kind
<1> QED
  BY <1>4, <1>5, <1>6 DEF Fits, plan

LEMMA CentralPlanned ==
  ASSUME NEW b \in Batches, NEW m, NEW rows \in Store, NEW now
  PROVE  /\ Fits(CentralPlan(b, m, rows, now), b)
         /\ \A i \in DOMAIN b : CentralPlan(b, m, rows, now)[i].kind = CentralKind(b, i, m, rows, now)
         /\ \A i \in DOMAIN b : CentralKind(b, i, m, rows, now) \in Kinds
<1> DEFINE plan == CentralPlan(b, m, rows, now)
<1>0. \A i \in DOMAIN b : CentralKind(b, i, m, rows, now) \in Kinds
  <2> SUFFICES ASSUME NEW i \in DOMAIN b PROVE CentralKind(b, i, m, rows, now) \in Kinds
    OBVIOUS
  <2>1. Classify(b[i], m, rows) \in Kinds
    BY BatchShape, Classified
  <2> QED
    BY <2>1 DEF CentralKind, Kinds
<1>1. DOMAIN plan = 1 .. Len(b) /\ Len(b) \in Nat
  BY BatchShape DEF CentralPlan
<1>2. \A i \in DOMAIN b : plan[i] = [doc |-> b[i].doc, text |-> b[i].text, kind |-> CentralKind(b, i, m, rows, now)]
  BY DEF CentralPlan
<1>3. \A i \in DOMAIN b : plan[i] \in Job
  <2> SUFFICES ASSUME NEW i \in DOMAIN b PROVE plan[i] \in Job
    OBVIOUS
  <2>1. b[i].doc \in Docs /\ b[i].text \in Texts \cup {Empty}
    BY BatchShape
  <2> QED
    BY <1>0, <1>2, <2>1, JobMade
<1>4. plan \in Seq(Job)
  <2>1. plan = [i \in 1 .. Len(b) |-> plan[i]]
    BY BatchShape DEF CentralPlan
  <2>2. \A i \in 1 .. Len(b) : plan[i] \in Job
    BY <1>3, BatchShape
  <2> QED
    BY <1>1, <2>1, <2>2
<1>5. DOMAIN plan = DOMAIN b
  BY BatchShape, <1>1
<1> HIDE DEF plan
<1>6. \A i \in DOMAIN b : plan[i].doc = b[i].doc /\ plan[i].text = b[i].text /\ plan[i].kind = CentralKind(b, i, m, rows, now)
  <2> SUFFICES ASSUME NEW i \in DOMAIN b
               PROVE  plan[i].doc = b[i].doc /\ plan[i].text = b[i].text /\ plan[i].kind = CentralKind(b, i, m, rows, now)
    OBVIOUS
  <2> DEFINE kind == CentralKind(b, i, m, rows, now)
  <2>1. plan[i] = [doc |-> b[i].doc, text |-> b[i].text, kind |-> kind]
    BY <1>2
  <2> HIDE DEF kind
  <2>2. plan[i].doc = b[i].doc /\ plan[i].text = b[i].text /\ plan[i].kind = kind
    BY <2>1
  <2> QED
    BY <2>2 DEF kind
<1> QED
  BY <1>0, <1>4, <1>5, <1>6 DEF Fits, plan

(* A document that is not written, updated, removed or empty has its text  *)
(* in a row that was read, or an earlier one of the batch writes it.       *)
LEMMA LeftAlone ==
  ASSUME NEW b \in Batches, NEW m, NEW rows \in Store, NEW now \in Store, NEW i \in DOMAIN b,
         CentralKind(b, i, m, rows, now) \notin {"write", "remove", "skipped"}
  PROVE  \/ b[i].text \in StoredTexts(rows) \cup StoredTexts(now)
         \/ \E j \in DOMAIN b : b[j].text = b[i].text /\ CentralKind(b, j, m, rows, now) = "write"
<1>1. b[i] \in Source /\ DOMAIN b = 1 .. Len(b) /\ Len(b) \in Nat
  BY BatchShape
<1>2. CASE Classify(b[i], m, rows) \in {"update", "unchanged"}
  BY <1>1, <1>2, Classified, TextsStored DEF SameContent
<1>3. CASE Classify(b[i], m, rows) = "write"
  <2>1. CASE Reconciled(b[i], rows, now)
    <3>1. PICK d \in HashOwner(rows, now, b[i].text) : TRUE
      BY <2>1 DEF Reconciled
    <3> QED
      BY <3>1, TextsStored DEF HashOwner
  <2>2. CASE ~Reconciled(b[i], rows, now)
    <3> DEFINE rivals == {j \in 1 .. i : b[j].text = b[i].text /\ Writes(b[j], m, rows, now)}
    <3>1. i \in rivals /\ rivals \subseteq Nat
      BY <1>1, <1>3, <2>2 DEF Writes
    <3>2. PICK k \in rivals : \A j \in rivals : k <= j
      <4> HIDE DEF rivals
      <4> QED
        BY <3>1, LeastNat
    <3>3. \A j \in 1 .. k - 1 : b[j].text = b[k].text => ~Writes(b[j], m, rows, now)
      BY <1>1, <3>2
    <3>4. k \in DOMAIN b /\ b[k].text = b[i].text /\ Writes(b[k], m, rows, now)
      BY <1>1, <3>2
    <3>5. CentralKind(b, k, m, rows, now) = "write"
      BY <3>3, <3>4 DEF CentralKind, Writes
    <3> QED
      BY <3>4, <3>5
  <2> QED
    BY <2>1, <2>2
<1>4. CASE Classify(b[i], m, rows) \in {"remove", "skipped"}
  BY <1>4 DEF CentralKind
<1> QED
  BY <1>1, <1>2, <1>3, <1>4, Classified DEF Kinds

-----------------------------------------------------------------------------
(* Tallies                                                                 *)

(* A job is left, or its document is accounted for, once.                  *)
TalliedOnce(plan, todo, out) ==
  /\ out \subseteq Tally
  /\ \A i \in DOMAIN plan : i \in todo \/ \E t \in out : t.doc = plan[i].doc
  /\ \A i \in todo : \A t \in out : t.doc # plan[i].doc
  /\ \A t, u \in out : t.doc = u.doc => t = u

LEMMA TallyMade ==
  \A d \in Docs, o \in Outcomes :
    /\ [doc |-> d, how |-> o] \in Tally
    /\ [doc |-> d, how |-> o].doc = d /\ [doc |-> d, how |-> o].how = o
BY DEF Tally

LEMMA SettledFirst ==
  ASSUME NEW b \in Batches, NEW plan, Fits(plan, b)
  PROVE  TalliedOnce(plan, WorkOf(plan), SettledOf(plan))
<1> DEFINE settled == {j \in DOMAIN plan : plan[j].kind \in {"skipped", "unchanged"}}
           Of(i) == [doc |-> plan[i].doc, how |-> plan[i].kind]
<1>1. \A i \in DOMAIN plan : plan[i].doc \in Docs /\ plan[i].kind \in Kinds
  BY PlanFields
<1>2. \A i, j \in DOMAIN plan : plan[i].doc = plan[j].doc => i = j
  BY PlanFields
<1>3. \A i \in settled : Of(i) \in Tally /\ Of(i).doc = plan[i].doc
  BY <1>1, TallyMade DEF Outcomes
<1>4. SettledOf(plan) = {Of(i) : i \in settled}
  BY DEF SettledOf
<1>5. \A i \in DOMAIN plan : i \in WorkOf(plan) <=> i \notin settled
  BY <1>1 DEF WorkOf, Kinds
<1>6. WorkOf(plan) \subseteq DOMAIN plan /\ settled \subseteq DOMAIN plan
  BY DEF WorkOf
<1> HIDE DEF settled, Of
<1> QED
  BY <1>2, <1>3, <1>4, <1>5, <1>6 DEF TalliedOnce

LEMMA TallyAdded ==
  ASSUME NEW plan, NEW todo \in SUBSET DOMAIN plan, NEW out, TalliedOnce(plan, todo, out),
         NEW k \in todo, NEW how \in Outcomes, plan[k].doc \in Docs,
         \A i, j \in DOMAIN plan : plan[i].doc = plan[j].doc => i = j
  PROVE  TalliedOnce(plan, todo \ {k}, out \cup {[doc |-> plan[k].doc, how |-> how]})
<1> DEFINE t == [doc |-> plan[k].doc, how |-> how]
<1>1. t \in Tally /\ t.doc = plan[k].doc
  BY TallyMade
<1> HIDE DEF t
<1>2. TalliedOnce(plan, todo \ {k}, out \cup {t})
  BY <1>1 DEF TalliedOnce
<1> QED
  BY <1>2 DEF t

LEMMA TallyComplete ==
  ASSUME NEW b \in Batches, NEW plan, Fits(plan, b), NEW out, TalliedOnce(plan, {}, out), NEW d \in DocsOf(b)
  PROVE  Cardinality({t \in out : t.doc = d}) = 1
<1>1. PICK i \in DOMAIN b : b[i].doc = d
  BY DEF DocsOf
<1>2. plan[i].doc = d /\ i \in DOMAIN plan
  BY <1>1 DEF Fits
<1>3. PICK t \in out : t.doc = d
  BY <1>2 DEF TalliedOnce
<1>4. {u \in out : u.doc = d} = {t}
  BY <1>3 DEF TalliedOnce
<1> QED
  BY <1>4, FS_Singleton

-----------------------------------------------------------------------------
(* Requests                                                                *)

ReqType ==
  [pc : {"idle", "hashes", "work", "insert", "done"}, batch : Batches \cup {<<>>}, meta : Metas \cup {EtlMeta},
   rows : Store, plan : Seq(Job), todo : SUBSET Nat, out : SUBSET Tally, held : SUBSET Docs,
   existed : BOOLEAN, keyed : SUBSET Docs]

Planned == {"work", "insert", "done"}

(* A request by itself.                                                    *)
Shaped(x) ==
  /\ x \in ReqType
  /\ x.todo \subseteq DOMAIN x.plan
  /\ x.pc # "idle" => x.batch \in Batches /\ x.meta \in Metas
  /\ x.pc \in Planned =>
       /\ Fits(x.plan, x.batch) /\ x.todo \subseteq WorkOf(x.plan) /\ TalliedOnce(x.plan, x.todo, x.out)
       /\ \A i \in DOMAIN x.batch :
            /\ x.plan[i].kind = "update" => SameContent(x.batch[i], x.rows)
            /\ x.plan[i].kind = "remove" => x.batch[i].text = Empty
            /\ x.plan[i].kind = "write" => x.batch[i].text # Empty
  /\ x.pc \in {"work", "insert"} => x.todo # {}
  /\ x.pc = "done" => x.todo = {}
  /\ x.pc # "insert" => x.held = {}
  /\ x.pc = "insert" => NextJob(x.plan, x.todo).kind = "write"

(* Every text of a request has been stored since it came, or is still to   *)
(* be written, or a document with it failed or met its primary key.        *)
Kept(x, sn) ==
  \A i \in DOMAIN x.batch :
    \/ x.batch[i].text \in sn \cup {Empty}
    \/ \E j \in DOMAIN x.batch :
         /\ x.batch[j].text = x.batch[i].text
         /\ \/ x.batch[j].doc \in x.keyed
            \/ [doc |-> x.batch[j].doc, how |-> "failed"] \in x.out
            \/ j \in x.todo /\ x.plan[j].kind = "write"

(* A request and the rows: what it has locked is there, what it has read   *)
(* and what is stored now has been seen.                                   *)
Backed(x, now, sn) ==
  /\ x.held \subseteq DOMAIN now
  /\ sn \subseteq Texts
  /\ x.pc # "idle" => StoredTexts(now) \subseteq sn /\ StoredTexts(x.rows) \subseteq sn
  /\ x.pc \in Planned => Kept(x, sn)

Requests ==
  /\ central \in Store
  /\ requests \in 0 .. MaxRequests /\ faults \in 0 .. MaxFaults
  /\ req = [h \in Handlers |-> req[h]] /\ seen = [h \in Handlers |-> seen[h]]
  /\ \A h \in Handlers : Shaped(req[h]) /\ Backed(req[h], central, seen[h])

LEMMA ReqFields ==
  \A x \in ReqType :
    /\ x.pc \in {"idle", "hashes", "work", "insert", "done"} /\ x.batch \in Batches \cup {<<>>}
    /\ x.meta \in Metas \cup {EtlMeta} /\ x.rows \in Store /\ x.plan \in Seq(Job) /\ x.todo \subseteq Nat
    /\ x.out \subseteq Tally /\ x.held \subseteq Docs /\ x.existed \in BOOLEAN /\ x.keyed \subseteq Docs
BY DEF ReqType

LEMMA IdleShaped == Shaped(Idle) /\ Idle.pc = "idle" /\ Idle.held = {}
<1>1. /\ Idle.pc = "idle" /\ Idle.held = {} /\ Idle.todo = {} /\ Idle.plan = <<>>
  BY DEF Idle
<1>2. Idle \in ReqType
  <2>1. <<>> \in Store /\ <<>> \in Seq(Job)
    BY NoRows
  <2> QED
    BY <2>1 DEF Idle, ReqType
<1> QED
  BY <1>1, <1>2 DEF Shaped, Planned

(* The work goes on with one of the documents that are left.               *)
LEMMA CurrentJob ==
  ASSUME NEW h \in Handlers, Shaped(req[h]), req[h].pc \in {"work", "insert"}
  PROVE  \E k \in req[h].todo :
           /\ Current(h) = req[h].plan[k] /\ k \in DOMAIN req[h].batch /\ k \in DOMAIN req[h].plan
           /\ Current(h).doc = req[h].batch[k].doc /\ Current(h).text = req[h].batch[k].text
           /\ Current(h).doc \in Docs /\ Current(h).kind \in {"write", "update", "remove"}
           /\ Rest(h) = req[h].todo \ {k}
<1> DEFINE x == req[h]
<1>1. /\ x \in ReqType /\ x.batch \in Batches /\ Fits(x.plan, x.batch) /\ x.todo \subseteq WorkOf(x.plan) /\ x.todo # {}
      /\ x.todo \subseteq DOMAIN x.plan
  BY DEF Shaped, Planned
<1>2. x.todo \subseteq Nat
  BY <1>1, ReqFields
<1>3. PICK k \in x.todo : NextJob(x.plan, x.todo) = x.plan[k]
  BY <1>1, <1>2, NextJobLeft
<1>4. k \in DOMAIN x.plan /\ DOMAIN x.plan = DOMAIN x.batch
  BY <1>1 DEF Fits
<1>5. x.plan[k].doc = x.batch[k].doc /\ x.plan[k].text = x.batch[k].text
  BY <1>1, <1>4 DEF Fits
<1>6. x.plan[k].kind \in {"write", "update", "remove"}
  BY <1>1 DEF WorkOf
<1>7. \A i, j \in DOMAIN x.plan : x.plan[i].doc = x.plan[j].doc => i = j
  BY <1>1, PlanFields
<1>8. x.plan[k].doc \in Docs
  BY <1>1, <1>4, PlanFields
<1>9. Current(h) = x.plan[k]
  BY <1>3 DEF Current
<1>10. Rest(h) = x.todo \ {k}
  BY <1>1, <1>4, <1>7, <1>9 DEF Rest
<1> QED
  BY <1>4, <1>5, <1>6, <1>8, <1>9, <1>10

(* The record of one handler is replaced.                                  *)
LEMMA EndedFields ==
  ASSUME NEW h \in Handlers, req = [g \in Handlers |-> req[g]], Shaped(req[h]), NEW how, Ended(h, how)
  PROVE  /\ req' = [g \in Handlers |-> req'[g]]
         /\ \A g \in Handlers : g # h => req'[g] = req[g]
         /\ req'[h].pc = (IF Rest(h) = {} THEN "done" ELSE "work")
         /\ req'[h].batch = req[h].batch /\ req'[h].meta = req[h].meta /\ req'[h].rows = req[h].rows
         /\ req'[h].plan = req[h].plan /\ req'[h].todo = Rest(h) /\ req'[h].held = {} /\ req'[h].existed = FALSE
         /\ req'[h].keyed = (IF req[h].pc = "insert" /\ Current(h).doc \in Colliding(h)
                             THEN req[h].keyed \cup {Current(h).doc} ELSE req[h].keyed)
         /\ req'[h].out = req[h].out \cup {[doc |-> Current(h).doc, how |-> how]}
         /\ req'[h] = [pc |-> req'[h].pc, batch |-> req'[h].batch, meta |-> req'[h].meta, rows |-> req'[h].rows,
                       plan |-> req'[h].plan, todo |-> req'[h].todo, out |-> req'[h].out, held |-> req'[h].held,
                       existed |-> req'[h].existed, keyed |-> req'[h].keyed]
<1> DEFINE pc == IF Rest(h) = {} THEN "done" ELSE "work"
           todo == Rest(h)
           keyed == IF req[h].pc = "insert" /\ Current(h).doc \in Colliding(h)
                    THEN req[h].keyed \cup {Current(h).doc} ELSE req[h].keyed
           out == req[h].out \cup {[doc |-> Current(h).doc, how |-> how]}
<1>1. req[h] \in ReqType
  BY DEF Shaped
<1>2. req' = [req EXCEPT ![h].pc = pc, ![h].todo = todo, ![h].held = {}, ![h].existed = FALSE, ![h].keyed = keyed,
                         ![h].out = out]
  BY DEF Ended
<1> HIDE DEF pc, todo, keyed, out
<1>3. /\ req' = [g \in Handlers |-> req'[g]]
      /\ \A g \in Handlers : g # h => req'[g] = req[g]
      /\ req'[h].pc = pc /\ req'[h].batch = req[h].batch /\ req'[h].meta = req[h].meta /\ req'[h].rows = req[h].rows
      /\ req'[h].plan = req[h].plan /\ req'[h].todo = todo /\ req'[h].held = {} /\ req'[h].existed = FALSE
      /\ req'[h].keyed = keyed /\ req'[h].out = out
      /\ req'[h] = [pc |-> req'[h].pc, batch |-> req'[h].batch, meta |-> req'[h].meta, rows |-> req'[h].rows,
                    plan |-> req'[h].plan, todo |-> req'[h].todo, out |-> req'[h].out, held |-> req'[h].held,
                    existed |-> req'[h].existed, keyed |-> req'[h].keyed]
  BY <1>1, <1>2 DEF ReqType
<1> QED
  BY <1>3 DEF pc, todo, keyed, out

-----------------------------------------------------------------------------
(* Steps of requests                                                       *)

LEMMA BackedGrows ==
  ASSUME NEW x, NEW now, NEW sn, Backed(x, now, sn),
         NEW later, NEW known, x.held \subseteq DOMAIN later, known \subseteq Texts,
         x.pc # "idle" => sn \subseteq known /\ StoredTexts(later) \subseteq known
  PROVE  Backed(x, later, known)
<1>1. x.pc \in Planned => Kept(x, known)
  <2> SUFFICES ASSUME x.pc \in Planned PROVE Kept(x, known)
    OBVIOUS
  <2>1. Kept(x, sn) /\ sn \subseteq known
    BY DEF Backed, Planned
  <2> QED
    BY <2>1 DEF Kept
<1>2. x.pc # "idle" => StoredTexts(later) \subseteq known /\ StoredTexts(x.rows) \subseteq known
  BY DEF Backed
<1> QED
  BY <1>1, <1>2 DEF Backed

(* A step of one handler that commits nothing.                             *)
LEMMA StepApart ==
  ASSUME Requests, NEW h \in Handlers, UNCHANGED central,
         req' = [g \in Handlers |-> req'[g]], \A g \in Handlers : g # h => req'[g] = req[g],
         seen' = [g \in Handlers |-> seen'[g]], \A g \in Handlers : g # h => seen'[g] = seen[g],
         requests' \in 0 .. MaxRequests, faults' \in 0 .. MaxFaults,
         Shaped(req'[h]), Backed(req'[h], central, seen'[h])
  PROVE  Requests'
BY DEF Requests

(* A commit, by one of the handlers or by the migration, that leaves the   *)
(* rows other handlers have locked.                                        *)
LEMMA StepCommits ==
  ASSUME Requests, NEW H \in SUBSET Handlers, NEW rows \in Store, Commit(rows),
         req' = [g \in Handlers |-> req'[g]], \A g \in Handlers \ H : req'[g] = req[g],
         \A g \in Handlers \ H : req[g].held \subseteq DOMAIN rows,
         requests' \in 0 .. MaxRequests, faults' \in 0 .. MaxFaults,
         \A h \in H : Shaped(req'[h]) /\ Backed(req'[h], rows, seen'[h])
  PROVE  Requests'
<1>1. central' = rows /\ seen' = [g \in Handlers |-> IF Active(g) THEN seen[g] \cup StoredTexts(rows) ELSE {}]
  BY DEF Commit
<1>2. ASSUME NEW g \in Handlers \ H PROVE Backed(req'[g], central', seen'[g])
  <2>1. req'[g] = req[g] /\ Backed(req[g], central, seen[g]) /\ req[g].held \subseteq DOMAIN rows
    BY <1>2 DEF Requests
  <2>2. seen[g] \subseteq Texts
    BY <2>1 DEF Backed
  <2>3. StoredTexts(rows) \subseteq Texts
    BY TextsStored
  <2>4. seen'[g] = IF Active(g) THEN seen[g] \cup StoredTexts(rows) ELSE {}
    BY <1>1
  <2>5. seen'[g] \subseteq Texts
    BY <2>2, <2>3, <2>4
  <2>6. req[g].pc # "idle" => seen[g] \subseteq seen'[g] /\ StoredTexts(rows) \subseteq seen'[g]
    BY <2>4 DEF Active
  <2>7. Backed(req[g], rows, seen'[g])
    BY <2>1, <2>5, <2>6, BackedGrows
  <2> QED
    BY <1>1, <2>1, <2>7
<1>3. \A g \in Handlers \ H : Shaped(req'[g])
  BY DEF Requests
<1>4. seen' = [g \in Handlers |-> seen'[g]]
  BY <1>1
<1> QED
  BY <1>1, <1>2, <1>3, <1>4 DEF Requests

LEMMA EndedShape ==
  ASSUME Requests, NEW h \in Handlers, NEW how \in Outcomes, req[h].pc \in {"work", "insert"}, Ended(h, how)
  PROVE  /\ Shaped(req'[h]) /\ req'[h].pc \in {"work", "done"}
         /\ req' = [g \in Handlers |-> req'[g]] /\ \A g \in Handlers : g # h => req'[g] = req[g]
<1>1. Shaped(req[h]) /\ req = [g \in Handlers |-> req[g]]
  BY DEF Requests
<1>2. PICK k \in req[h].todo :
        /\ Current(h) = req[h].plan[k] /\ k \in DOMAIN req[h].batch /\ k \in DOMAIN req[h].plan
        /\ Current(h).doc \in Docs /\ Rest(h) = req[h].todo \ {k}
  BY <1>1, CurrentJob
<1> DEFINE x == req[h] y == req'[h]
<1>3. /\ req' = [g \in Handlers |-> req'[g]] /\ \A g \in Handlers : g # h => req'[g] = req[g]
      /\ y.pc = (IF Rest(h) = {} THEN "done" ELSE "work")
      /\ y.batch = x.batch /\ y.meta = x.meta /\ y.rows = x.rows /\ y.plan = x.plan /\ y.todo = Rest(h)
      /\ y.held = {} /\ y.existed = FALSE
      /\ y.keyed = (IF x.pc = "insert" /\ Current(h).doc \in Colliding(h) THEN x.keyed \cup {Current(h).doc} ELSE x.keyed)
      /\ y.out = x.out \cup {[doc |-> Current(h).doc, how |-> how]}
      /\ y = [pc |-> y.pc, batch |-> y.batch, meta |-> y.meta, rows |-> y.rows, plan |-> y.plan, todo |-> y.todo,
              out |-> y.out, held |-> y.held, existed |-> y.existed, keyed |-> y.keyed]
  BY <1>1, EndedFields
<1>4. x \in ReqType /\ x.batch \in Batches /\ x.meta \in Metas /\ Fits(x.plan, x.batch)
      /\ x.todo \subseteq WorkOf(x.plan) /\ TalliedOnce(x.plan, x.todo, x.out) /\ x.todo \subseteq DOMAIN x.plan
  BY <1>1 DEF Shaped, Planned
<1>5. [doc |-> Current(h).doc, how |-> how] \in Tally
  BY <1>2, TallyMade
<1>6. y \in ReqType
  <2>1. /\ x.batch \in Batches \cup {<<>>} /\ x.meta \in Metas \cup {EtlMeta} /\ x.rows \in Store
        /\ x.plan \in Seq(Job) /\ x.todo \subseteq Nat /\ x.out \subseteq Tally /\ x.keyed \subseteq Docs
    BY <1>4, ReqFields
  <2>2. y.pc \in {"idle", "hashes", "work", "insert", "done"}
    BY <1>3
  <2>3. y.todo \subseteq Nat /\ y.out \subseteq Tally /\ y.held \subseteq Docs /\ y.existed \in BOOLEAN /\ y.keyed \subseteq Docs
    BY <1>2, <1>3, <1>5, <2>1
  <2>4. y.batch \in Batches \cup {<<>>} /\ y.meta \in Metas \cup {EtlMeta} /\ y.rows \in Store /\ y.plan \in Seq(Job)
    BY <1>3, <2>1
  <2> HIDE DEF x, y
  <2> QED
    BY <1>3, <2>2, <2>3, <2>4 DEF ReqType
<1>7. TalliedOnce(y.plan, y.todo, y.out)
  <2>1. \A i, j \in DOMAIN x.plan : x.plan[i].doc = x.plan[j].doc => i = j
    BY <1>4, PlanFields
  <2>2. TalliedOnce(x.plan, x.todo \ {k}, x.out \cup {[doc |-> x.plan[k].doc, how |-> how]})
    BY <1>2, <1>4, <2>1, TallyAdded
  <2> QED
    BY <1>2, <1>3, <2>2
<1>8. \A i \in DOMAIN x.batch :
        /\ x.plan[i].kind = "update" => SameContent(x.batch[i], x.rows)
        /\ x.plan[i].kind = "remove" => x.batch[i].text = Empty
        /\ x.plan[i].kind = "write" => x.batch[i].text # Empty
  BY <1>1 DEF Shaped, Planned
<1>9. y.pc \in {"work", "done"} /\ (y.pc = "work" => y.todo # {}) /\ (y.pc = "done" => y.todo = {})
  BY <1>3
<1>10. Fits(y.plan, y.batch) /\ y.todo \subseteq WorkOf(y.plan) /\ y.todo \subseteq DOMAIN y.plan /\ y.batch \in Batches /\ y.meta \in Metas
  BY <1>2, <1>3, <1>4
<1>11. \A i \in DOMAIN y.batch :
        /\ y.plan[i].kind = "update" => SameContent(y.batch[i], y.rows)
        /\ y.plan[i].kind = "remove" => y.batch[i].text = Empty
        /\ y.plan[i].kind = "write" => y.batch[i].text # Empty
  BY <1>3, <1>8
<1> HIDE DEF x
<1>12. Shaped(y)
  BY <1>3, <1>6, <1>7, <1>9, <1>10, <1>11 DEF Shaped
<1> QED
  BY <1>3, <1>9, <1>12

LEMMA EndedBacked ==
  ASSUME Requests, NEW h \in Handlers, NEW how \in Outcomes, req[h].pc \in {"work", "insert"}, Ended(h, how),
         NEW now, NEW sn, seen[h] \subseteq sn, sn \subseteq Texts, StoredTexts(now) \subseteq sn,
         \/ Current(h).kind # "write" \/ Current(h).text \in sn \/ how = "failed"
         \/ req[h].pc = "insert" /\ Current(h).doc \in Colliding(h)
  PROVE  Backed(req'[h], now, sn)
<1>1. Shaped(req[h]) /\ req = [g \in Handlers |-> req[g]] /\ Backed(req[h], central, seen[h])
  BY DEF Requests
<1>2. PICK k \in req[h].todo :
        /\ Current(h) = req[h].plan[k] /\ k \in DOMAIN req[h].batch
        /\ Current(h).doc = req[h].batch[k].doc /\ Current(h).text = req[h].batch[k].text
        /\ Rest(h) = req[h].todo \ {k}
  BY <1>1, CurrentJob
<1> DEFINE x == req[h] y == req'[h]
<1>3. /\ y.pc = (IF Rest(h) = {} THEN "done" ELSE "work")
      /\ y.batch = x.batch /\ y.rows = x.rows /\ y.plan = x.plan /\ y.todo = Rest(h)
      /\ y.held = {}
      /\ y.keyed = (IF x.pc = "insert" /\ Current(h).doc \in Colliding(h) THEN x.keyed \cup {Current(h).doc} ELSE x.keyed)
      /\ y.out = x.out \cup {[doc |-> Current(h).doc, how |-> how]}
  BY <1>1, EndedFields
<1>4. Kept(x, seen[h]) /\ StoredTexts(x.rows) \subseteq seen[h]
  BY <1>1 DEF Backed, Planned
<1>5. Kept(y, sn)
  <2> SUFFICES ASSUME NEW i \in DOMAIN x.batch
               PROVE  \/ x.batch[i].text \in sn \cup {Empty}
                      \/ \E j \in DOMAIN x.batch :
                           /\ x.batch[j].text = x.batch[i].text
                           /\ \/ x.batch[j].doc \in y.keyed
                              \/ [doc |-> x.batch[j].doc, how |-> "failed"] \in y.out
                              \/ j \in y.todo /\ x.plan[j].kind = "write"
    BY <1>3 DEF Kept
  <2>1. CASE x.batch[i].text \in seen[h] \cup {Empty}
    BY <2>1
  <2>2. ASSUME NEW j \in DOMAIN x.batch, x.batch[j].text = x.batch[i].text,
               \/ x.batch[j].doc \in x.keyed
               \/ [doc |-> x.batch[j].doc, how |-> "failed"] \in x.out
               \/ j # k /\ j \in x.todo /\ x.plan[j].kind = "write"
        PROVE  \/ x.batch[j].doc \in y.keyed
               \/ [doc |-> x.batch[j].doc, how |-> "failed"] \in y.out
               \/ j \in y.todo /\ x.plan[j].kind = "write"
    BY <1>2, <1>3, <2>2
  <2>3. CASE x.batch[k].text = x.batch[i].text /\ x.plan[k].kind = "write"
    <3>1. CASE Current(h).text \in sn
      BY <1>2, <2>3, <3>1
    <3>2. CASE how = "failed"
      BY <1>2, <1>3, <2>3, <3>2
    <3>3. CASE x.pc = "insert" /\ Current(h).doc \in Colliding(h)
      BY <1>2, <1>3, <2>3, <3>3
    <3> QED
      BY <1>2, <2>3, <3>1, <3>2, <3>3
  <2> QED
    BY <1>4, <2>1, <2>2, <2>3 DEF Kept
<1>6. y.pc # "idle" => StoredTexts(now) \subseteq sn /\ StoredTexts(y.rows) \subseteq sn
  BY <1>3, <1>4
<1> QED
  BY <1>3, <1>5, <1>6 DEF Backed

LEMMA RequestsInit == CentralInit => Requests
<1> SUFFICES ASSUME CentralInit PROVE Requests
  OBVIOUS
<1>1. central = <<>> /\ requests = 0 /\ faults = 0 /\ req = [h \in Handlers |-> Idle] /\ seen = [h \in Handlers |-> {}]
  BY DEF CentralInit
<1>2. central \in Store
  BY <1>1, NoRows
<1>3. \A h \in Handlers : req[h] = Idle /\ seen[h] = {}
  BY <1>1
<1>4. Shaped(Idle) /\ Backed(Idle, central, {})
  BY IdleShaped DEF Backed, Planned
<1>5. requests \in 0 .. MaxRequests /\ faults \in 0 .. MaxFaults
  BY <1>1, CentralAssumption
<1>6. req = [h \in Handlers |-> req[h]] /\ seen = [h \in Handlers |-> seen[h]]
  BY <1>1
<1> HIDE DEF Idle
<1> QED
  BY <1>2, <1>3, <1>4, <1>5, <1>6 DEF Requests

LEMMA Received ==
  ASSUME NEW b \in Batches, NEW m \in Metas, NEW rows \in Store
  PROVE  [Idle EXCEPT !.pc = "hashes", !.batch = b, !.meta = m, !.rows = rows]
         = [pc |-> "hashes", batch |-> b, meta |-> m, rows |-> rows, plan |-> <<>>, todo |-> {}, out |-> {},
            held |-> {}, existed |-> FALSE, keyed |-> {}]
<1>1. Idle \in ReqType
  BY IdleShaped DEF Shaped
<1>2. /\ Idle.plan = <<>> /\ Idle.todo = {} /\ Idle.out = {} /\ Idle.held = {} /\ Idle.existed = FALSE
      /\ Idle.keyed = {}
  BY DEF Idle
<1> HIDE DEF Idle
<1>3. ASSUME NEW y \in ReqType
      PROVE  LET z == [y EXCEPT !.pc = "hashes", !.batch = b, !.meta = m, !.rows = rows]
             IN /\ z \in ReqType
                /\ z.pc = "hashes" /\ z.batch = b /\ z.meta = m /\ z.rows = rows /\ z.plan = y.plan /\ z.todo = y.todo
                /\ z.out = y.out /\ z.held = y.held /\ z.existed = y.existed /\ z.keyed = y.keyed
  BY DEF ReqType
<1>4. \A z \in ReqType :
        z = [pc |-> z.pc, batch |-> z.batch, meta |-> z.meta, rows |-> z.rows, plan |-> z.plan, todo |-> z.todo,
             out |-> z.out, held |-> z.held, existed |-> z.existed, keyed |-> z.keyed]
  BY DEF ReqType
<1> DEFINE z == [Idle EXCEPT !.pc = "hashes", !.batch = b, !.meta = m, !.rows = rows]
<1>5. /\ z \in ReqType
      /\ z.pc = "hashes" /\ z.batch = b /\ z.meta = m /\ z.rows = rows /\ z.plan = <<>> /\ z.todo = {}
      /\ z.out = {} /\ z.held = {} /\ z.existed = FALSE /\ z.keyed = {}
  BY <1>1, <1>2, <1>3
<1>6. z = [pc |-> z.pc, batch |-> z.batch, meta |-> z.meta, rows |-> z.rows, plan |-> z.plan, todo |-> z.todo,
           out |-> z.out, held |-> z.held, existed |-> z.existed, keyed |-> z.keyed]
  <2> HIDE DEF z
  <2> QED
    BY <1>4, <1>5
<1> HIDE DEF z
<1>7. z = [pc |-> "hashes", batch |-> b, meta |-> m, rows |-> rows, plan |-> <<>>, todo |-> {}, out |-> {},
           held |-> {}, existed |-> FALSE, keyed |-> {}]
  BY <1>5, <1>6
<1> QED
  BY <1>7 DEF z

LEMMA ReceiveStep ==
  ASSUME Requests, NEW h \in Handlers, NEW b \in Batches, NEW m \in Metas, Receive(h, b, m)
  PROVE  Requests'
<1> DEFINE rows == Restrict(central, DocsOf(b) \cap DOMAIN central)
           x == [pc |-> "hashes", batch |-> b, meta |-> m, rows |-> rows, plan |-> <<>>, todo |-> {}, out |-> {},
                 held |-> {}, existed |-> FALSE, keyed |-> {}]
<1>1. central \in Store /\ requests \in 0 .. MaxRequests /\ faults \in 0 .. MaxFaults
      /\ req = [g \in Handlers |-> req[g]] /\ seen = [g \in Handlers |-> seen[g]]
  BY DEF Requests
<1>2. rows \in Store /\ StoredTexts(rows) \subseteq StoredTexts(central)
  BY <1>1, RestrictRows
<1>3. req' = [req EXCEPT ![h] = x]
  <2>1. [Idle EXCEPT !.pc = "hashes", !.batch = b, !.meta = m, !.rows = rows] = x
    BY <1>2, Received
  <2> QED
    BY <2>1 DEF Receive
<1>4. /\ req' = [g \in Handlers |-> req'[g]] /\ req'[h] = x
      /\ \A g \in Handlers : g # h => req'[g] = req[g]
  <2> HIDE DEF x
  <2> QED
    BY <1>1, <1>3
<1>5. seen' = [seen EXCEPT ![h] = StoredTexts(central)]
  BY DEF Receive
<1>6. /\ seen' = [g \in Handlers |-> seen'[g]] /\ seen'[h] = StoredTexts(central)
      /\ \A g \in Handlers : g # h => seen'[g] = seen[g]
  BY <1>1, <1>5
<1>7. /\ x.pc = "hashes" /\ x.batch = b /\ x.meta = m /\ x.rows = rows /\ x.plan = <<>> /\ x.todo = {} /\ x.held = {}
  OBVIOUS
<1>8. x \in ReqType
  BY <1>2 DEF ReqType
<1>9. Shaped(x) /\ Backed(x, central, StoredTexts(central))
  <2> HIDE DEF x
  <2>1. Shaped(x)
    BY <1>7, <1>8 DEF Shaped, Planned
  <2>2. Backed(x, central, StoredTexts(central))
    BY <1>1, <1>2, <1>7, TextsStored DEF Backed, Planned
  <2> QED
    BY <2>1, <2>2
<1>10. requests' \in 0 .. MaxRequests /\ faults' \in 0 .. MaxFaults /\ UNCHANGED central
  BY <1>1, BatchShape, CentralAssumption DEF Receive
<1> HIDE DEF x
<1> QED
  BY <1>4, <1>6, <1>9, <1>10, StepApart

(* The kinds of a plan, and who writes the texts that nobody has stored.   *)
LEMMA PlanKinds ==
  ASSUME NEW b \in Batches, NEW m, NEW rows \in Store, NEW now \in Store, NEW i \in DOMAIN b
  PROVE  /\ CentralKind(b, i, m, rows, now) = "update" => SameContent(b[i], rows)
         /\ CentralKind(b, i, m, rows, now) \in {"remove", "skipped"} => b[i].text = Empty
         /\ CentralKind(b, i, m, rows, now) = "write" => b[i].text # Empty
         /\ \/ b[i].text \in StoredTexts(rows) \cup StoredTexts(now) \cup {Empty}
            \/ \E j \in DOMAIN b : b[j].text = b[i].text /\ CentralKind(b, j, m, rows, now) = "write"
<1> DEFINE kind == CentralKind(b, i, m, rows, now)
<1>1. b[i] \in Source
  BY BatchShape
<1>2. kind \in {"update", "remove", "skipped", "write"} => kind = Classify(b[i], m, rows)
  BY DEF CentralKind
<1>3. /\ Classify(b[i], m, rows) \in {"remove", "skipped"} <=> b[i].text = Empty
      /\ Classify(b[i], m, rows) = "update" => SameContent(b[i], rows)
  BY <1>1, Classified
<1>4. CASE kind \in {"write", "remove", "skipped"}
  <2> HIDE DEF kind
  <2>1. kind = "write" \/ b[i].text = Empty
    BY <1>2, <1>3, <1>4
  <2> QED
    BY <1>2, <1>3, <1>4, <2>1 DEF kind
<1>5. CASE kind \notin {"write", "remove", "skipped"}
  <2>1. \/ b[i].text \in StoredTexts(rows) \cup StoredTexts(now)
        \/ \E j \in DOMAIN b : b[j].text = b[i].text /\ CentralKind(b, j, m, rows, now) = "write"
    BY <1>5, LeftAlone
  <2> QED
    BY <1>2, <1>3, <1>5, <2>1
<1> QED
  BY <1>4, <1>5

LEMMA IdleBacked ==
  ASSUME NEW now, NEW sn, sn \subseteq Texts
  PROVE  Backed(Idle, now, sn)
BY IdleShaped DEF Backed, Planned

LEMMA PreloadStep ==
  ASSUME Requests, NEW h \in Handlers, Preload(h)
  PROVE  Requests'
<1> DEFINE x == req[h] y == req'[h]
           plan == CentralPlan(req[h].batch, req[h].meta, req[h].rows, central)
           undone == WorkOf(plan)
<1>1. /\ central \in Store /\ requests \in 0 .. MaxRequests /\ faults \in 0 .. MaxFaults
      /\ req = [g \in Handlers |-> req[g]] /\ seen = [g \in Handlers |-> seen[g]]
      /\ Shaped(x) /\ Backed(x, central, seen[h])
  BY DEF Requests
<1>2. /\ x.pc = "hashes" /\ UNCHANGED <<central, seen, requests>>
      /\ \/ /\ req' = [req EXCEPT ![h].pc = IF undone = {} THEN "done" ELSE "work",
                         ![h].plan = plan, ![h].todo = undone, ![h].out = SettledOf(plan)]
            /\ UNCHANGED faults
         \/ /\ req' = [req EXCEPT ![h] = Idle] /\ faults < MaxFaults /\ faults' = faults + 1
  BY DEF Preload, EmbedFails, NoCommit
<1>3. x \in ReqType /\ x.batch \in Batches /\ x.meta \in Metas /\ x.held = {}
  BY <1>1, <1>2 DEF Shaped
<1>4. x.rows \in Store /\ x.keyed \subseteq Docs /\ x.existed \in BOOLEAN /\ x.out \subseteq Tally
  BY <1>3, ReqFields
<1>5. seen' = [g \in Handlers |-> seen'[g]] /\ \A g \in Handlers : seen'[g] = seen[g]
  BY <1>1, <1>2
<1>6. seen[h] \subseteq Texts /\ StoredTexts(central) \subseteq seen[h] /\ StoredTexts(x.rows) \subseteq seen[h]
  BY <1>1, <1>2 DEF Backed
<1>7. CASE /\ req' = [req EXCEPT ![h].pc = IF undone = {} THEN "done" ELSE "work",
                        ![h].plan = plan, ![h].todo = undone, ![h].out = SettledOf(plan)]
           /\ UNCHANGED faults
  <2>1. Fits(plan, x.batch)
    BY <1>3, <1>4, CentralPlanned
  <2>2. TalliedOnce(plan, undone, SettledOf(plan))
    BY <1>3, <2>1, SettledFirst
  <2>3. undone \subseteq DOMAIN plan /\ DOMAIN plan = DOMAIN x.batch /\ DOMAIN x.batch \subseteq Nat
    BY <1>3, <2>1, BatchShape DEF WorkOf, Fits
  <2>4. /\ req' = [g \in Handlers |-> req'[g]] /\ \A g \in Handlers : g # h => req'[g] = req[g]
        /\ y.pc = (IF undone = {} THEN "done" ELSE "work")
        /\ y.batch = x.batch /\ y.meta = x.meta /\ y.rows = x.rows /\ y.plan = plan /\ y.todo = undone
        /\ y.held = x.held /\ y.existed = x.existed /\ y.keyed = x.keyed /\ y.out = SettledOf(plan)
        /\ y = [pc |-> y.pc, batch |-> y.batch, meta |-> y.meta, rows |-> y.rows, plan |-> y.plan, todo |-> y.todo,
                out |-> y.out, held |-> y.held, existed |-> y.existed, keyed |-> y.keyed]
    <3> HIDE DEF plan, undone
    <3> QED
      BY <1>1, <1>3, <1>7 DEF ReqType
  <2>5. y \in ReqType
    <3>1. plan \in Seq(Job) /\ SettledOf(plan) \subseteq Tally /\ undone \subseteq Nat
      BY <2>1, <2>2, <2>3 DEF Fits, TalliedOnce
    <3> HIDE DEF x, y, plan, undone
    <3> QED
      BY <1>3, <1>4, <2>4, <3>1 DEF ReqType
  <2>6. /\ Kept(y, seen[h])
        /\ \A i \in DOMAIN x.batch :
              /\ y.plan[i].kind = "update" => SameContent(x.batch[i], x.rows)
              /\ y.plan[i].kind = "remove" => x.batch[i].text = Empty
              /\ y.plan[i].kind = "write" => x.batch[i].text # Empty
    <3> DEFINE b == x.batch m == x.meta rows == x.rows
    <3>1. b \in Batches /\ rows \in Store /\ central \in Store /\ y.batch = b /\ y.plan = plan /\ y.todo = WorkOf(plan)
      BY <1>1, <1>3, <1>4, <2>4
    <3>2. DOMAIN plan = DOMAIN b /\ \A i \in DOMAIN b : plan[i].kind = CentralKind(b, i, m, rows, central)
      <4>1. plan = CentralPlan(b, m, rows, central)
        OBVIOUS
      <4> HIDE DEF plan, b, m, rows
      <4>2. b \in Batches /\ rows \in Store
        BY <3>1
      <4>3. /\ Fits(CentralPlan(b, m, rows, central), b)
            /\ \A i \in DOMAIN b : CentralPlan(b, m, rows, central)[i].kind = CentralKind(b, i, m, rows, central)
        BY <4>2, CentralPlanned
      <4> QED
        BY <4>1, <4>3 DEF Fits
    <3>3. StoredTexts(rows) \subseteq seen[h] /\ StoredTexts(central) \subseteq seen[h]
      BY <1>6
    <3> HIDE DEF x, y, plan, undone, b, m, rows
    <3>4. \A i \in DOMAIN b :
            /\ plan[i].kind = "update" => SameContent(b[i], rows)
            /\ plan[i].kind = "remove" => b[i].text = Empty
            /\ plan[i].kind = "write" => b[i].text # Empty
            /\ \/ b[i].text \in seen[h] \cup {Empty}
               \/ \E j \in DOMAIN b : b[j].text = b[i].text /\ CentralKind(b, j, m, rows, central) = "write"
      BY <3>1, <3>2, <3>3, PlanKinds
    <3>5. \A j \in DOMAIN b : plan[j].kind = "write" => j \in WorkOf(plan)
      BY <3>2 DEF WorkOf
    <3>6. Kept(y, seen[h])
      BY <3>1, <3>2, <3>4, <3>5 DEF Kept
    <3> QED
      BY <3>1, <3>4, <3>6 DEF b, rows
  <2>7. Shaped(y)
    <3> HIDE DEF x, y, plan, undone
    <3>1. Fits(y.plan, y.batch) /\ y.todo \subseteq WorkOf(y.plan) /\ TalliedOnce(y.plan, y.todo, y.out)
      BY <2>1, <2>2, <2>4 DEF undone
    <3>2. y.todo \subseteq DOMAIN y.plan /\ y.batch \in Batches /\ y.meta \in Metas /\ y.held = {}
      BY <1>3, <2>3, <2>4
    <3>3. y.pc \in {"work", "done"} /\ (y.pc = "work" => y.todo # {}) /\ (y.pc = "done" => y.todo = {})
      BY <2>4
    <3>4. \A i \in DOMAIN y.batch :
            /\ y.plan[i].kind = "update" => SameContent(y.batch[i], y.rows)
            /\ y.plan[i].kind = "remove" => y.batch[i].text = Empty
            /\ y.plan[i].kind = "write" => y.batch[i].text # Empty
      BY <2>4, <2>6
    <3> QED
      BY <2>5, <3>1, <3>2, <3>3, <3>4 DEF Shaped
  <2>8. Backed(y, central, seen'[h])
    <3>1. y.held = {} /\ y.rows = x.rows /\ seen'[h] = seen[h]
      BY <1>3, <1>5, <2>4
    <3> HIDE DEF x, y
    <3> QED
      BY <1>6, <2>6, <3>1 DEF Backed
  <2> QED
    BY <1>1, <1>2, <1>5, <1>7, <2>4, <2>7, <2>8, StepApart
<1>8. CASE req' = [req EXCEPT ![h] = Idle] /\ faults < MaxFaults /\ faults' = faults + 1
  <2>1. req' = [g \in Handlers |-> req'[g]] /\ y = Idle /\ \A g \in Handlers : g # h => req'[g] = req[g]
    BY <1>1, <1>8
  <2>2. Shaped(y) /\ Backed(y, central, seen'[h])
    BY <1>5, <1>6, <2>1, IdleShaped, IdleBacked
  <2>3. faults' \in 0 .. MaxFaults
    BY <1>1, <1>8, CentralAssumption
  <2> QED
    BY <1>1, <1>2, <1>5, <2>1, <2>2, <2>3, StepApart
<1> QED
  BY <1>2, <1>7, <1>8

LEMMA DeleteStep ==
  ASSUME Requests, NEW h \in Handlers, DeleteDocument(h)
  PROVE  Requests'
<1> DEFINE x == req[h] y == req'[h] d == Current(h).doc
<1>1. /\ central \in Store /\ requests \in 0 .. MaxRequests /\ faults \in 0 .. MaxFaults
      /\ req = [g \in Handlers |-> req[g]] /\ seen = [g \in Handlers |-> seen[g]]
      /\ Shaped(x) /\ Backed(x, central, seen[h])
  BY DEF Requests
<1>2. /\ x.pc = "work" /\ Current(h).kind = "write" /\ UNCHANGED <<central, seen, requests, faults>>
      /\ req' = [req EXCEPT ![h].pc = "insert", ![h].held = {d} \cap DOMAIN central,
                            ![h].existed = d \in DOMAIN central]
  BY DEF DeleteDocument, Turn, NoCommit
<1>3. x \in ReqType /\ x.held = {}
  BY <1>1, <1>2 DEF Shaped
<1>4. /\ req' = [g \in Handlers |-> req'[g]] /\ \A g \in Handlers : g # h => req'[g] = req[g]
      /\ y.pc = "insert" /\ y.held = {d} \cap DOMAIN central /\ y.existed = (d \in DOMAIN central)
      /\ y.batch = x.batch /\ y.meta = x.meta /\ y.rows = x.rows /\ y.plan = x.plan /\ y.todo = x.todo
      /\ y.keyed = x.keyed /\ y.out = x.out
      /\ y = [pc |-> y.pc, batch |-> y.batch, meta |-> y.meta, rows |-> y.rows, plan |-> y.plan, todo |-> y.todo,
              out |-> y.out, held |-> y.held, existed |-> y.existed, keyed |-> y.keyed]
  <2> HIDE DEF d
  <2> QED
    BY <1>1, <1>2, <1>3 DEF ReqType
<1>5. d \in Docs
  BY <1>1, <1>2, CurrentJob
<1>6. y \in ReqType
  <2>1. /\ x.batch \in Batches \cup {<<>>} /\ x.meta \in Metas \cup {EtlMeta} /\ x.rows \in Store
        /\ x.plan \in Seq(Job) /\ x.todo \subseteq Nat /\ x.out \subseteq Tally /\ x.keyed \subseteq Docs
    BY <1>3, ReqFields
  <2>2. y.existed \in BOOLEAN
    BY <1>4
  <2>3. y.held \subseteq Docs
    BY <1>4, <1>5
  <2>4. y.pc \in {"idle", "hashes", "work", "insert", "done"}
    BY <1>4
  <2>5. /\ y.batch \in Batches \cup {<<>>} /\ y.meta \in Metas \cup {EtlMeta} /\ y.rows \in Store
        /\ y.plan \in Seq(Job) /\ y.todo \subseteq Nat /\ y.out \subseteq Tally /\ y.keyed \subseteq Docs
    BY <1>4, <2>1
  <2> HIDE DEF x, y
  <2> QED
    BY <1>4, <2>2, <2>3, <2>4, <2>5 DEF ReqType
<1>7. NextJob(y.plan, y.todo).kind = "write"
  BY <1>2, <1>4 DEF Current
<1>8. Shaped(y)
  <2> HIDE DEF y
  <2> QED
    BY <1>1, <1>2, <1>4, <1>6, <1>7 DEF Shaped, Planned
<1>9. Backed(y, central, seen'[h])
  <2>1. seen'[h] = seen[h]
    BY <1>2
  <2>2. Kept(y, seen[h])
    <3>1. Kept(x, seen[h])
      BY <1>1, <1>2 DEF Backed, Planned
    <3> QED
      BY <1>4, <3>1 DEF Kept
  <2>3. StoredTexts(central) \subseteq seen[h] /\ StoredTexts(y.rows) \subseteq seen[h] /\ seen[h] \subseteq Texts
    BY <1>1, <1>2, <1>4 DEF Backed
  <2> HIDE DEF y
  <2> QED
    BY <1>4, <2>1, <2>2, <2>3 DEF Backed
<1>10. seen' = [g \in Handlers |-> seen'[g]] /\ \A g \in Handlers : seen'[g] = seen[g]
  BY <1>1, <1>2
<1> HIDE DEF x, y
<1>11. Shaped(req'[h]) /\ Backed(req'[h], central, seen'[h])
  BY <1>8, <1>9 DEF y
<1> QED
  BY <1>1, <1>2, <1>4, <1>10, <1>11, StepApart

(* A transaction that ends without a commit.                               *)
LEMMA RolledBack ==
  ASSUME Requests, NEW h \in Handlers, NEW how \in Outcomes, req[h].pc \in {"work", "insert"}, Ended(h, how),
         NoCommit, UNCHANGED requests, faults' \in 0 .. MaxFaults,
         \/ Current(h).kind # "write" \/ Current(h).text \in StoredTexts(central) \/ how = "failed"
         \/ req[h].pc = "insert" /\ Current(h).doc \in Colliding(h)
  PROVE  Requests'
<1>1. /\ central \in Store /\ requests \in 0 .. MaxRequests /\ Backed(req[h], central, seen[h])
      /\ seen = [g \in Handlers |-> seen[g]]
  BY DEF Requests
<1>2. UNCHANGED <<central, seen>>
  BY DEF NoCommit
<1>3. /\ Shaped(req'[h])
      /\ req' = [g \in Handlers |-> req'[g]] /\ \A g \in Handlers : g # h => req'[g] = req[g]
  BY EndedShape
<1>4. seen[h] \subseteq Texts /\ StoredTexts(central) \subseteq seen[h]
  BY <1>1 DEF Backed
<1>5. Backed(req'[h], central, seen[h])
  BY <1>4, EndedBacked
<1>6. seen' = [g \in Handlers |-> seen'[g]] /\ \A g \in Handlers : seen'[g] = seen[g]
  BY <1>1, <1>2
<1> QED
  BY <1>1, <1>2, <1>3, <1>5, <1>6, StepApart

(* A transaction that commits new rows.                                    *)
LEMMA Committed ==
  ASSUME Requests, NEW h \in Handlers, NEW how \in Outcomes, req[h].pc \in {"work", "insert"}, Ended(h, how),
         NEW rows \in Store, Commit(rows), UNCHANGED <<requests, faults>>,
         \A g \in Handlers : g # h => req[g].held \subseteq DOMAIN rows,
         Current(h).kind # "write" \/ Current(h).text \in StoredTexts(rows)
  PROVE  Requests'
<1>1. /\ requests \in 0 .. MaxRequests /\ faults \in 0 .. MaxFaults /\ Backed(req[h], central, seen[h])
  BY DEF Requests
<1>2. seen'[h] = seen[h] \cup StoredTexts(rows)
  BY DEF Commit, Active
<1>3. /\ Shaped(req'[h])
      /\ req' = [g \in Handlers |-> req'[g]] /\ \A g \in Handlers : g # h => req'[g] = req[g]
  BY EndedShape
<1>4. seen[h] \subseteq seen'[h] /\ seen'[h] \subseteq Texts /\ StoredTexts(rows) \subseteq seen'[h]
  BY <1>1, <1>2, TextsStored DEF Backed
<1>5. Current(h).kind # "write" \/ Current(h).text \in seen'[h]
  BY <1>4
<1>6. Backed(req'[h], rows, seen'[h])
  BY <1>4, <1>5, EndedBacked
<1> DEFINE H == {h}
<1>7. /\ H \in SUBSET Handlers /\ (\A g \in Handlers \ H : req'[g] = req[g])
      /\ (\A g \in Handlers \ H : req[g].held \subseteq DOMAIN rows)
      /\ \A g \in H : Shaped(req'[g]) /\ Backed(req'[g], rows, seen'[g])
  BY <1>3, <1>6
<1> HIDE DEF H
<1> QED
  BY <1>1, <1>3, <1>7, StepCommits

LEMMA WrittenRow ==
  ASSUME Requests, NEW h \in Handlers, req[h].pc = "insert"
  PROVE  /\ Current(h).kind = "write" /\ Current(h).doc \in Docs /\ Current(h).text \in Texts
         /\ Written(h) \in Row /\ Written(h).text = Current(h).text /\ Written(h).meta = req[h].meta
<1>1. Shaped(req[h]) /\ req[h].meta \in Metas /\ req[h].batch \in Batches
  BY DEF Requests, Shaped
<1>2. PICK k \in req[h].todo :
        /\ Current(h) = req[h].plan[k] /\ k \in DOMAIN req[h].batch
        /\ Current(h).text = req[h].batch[k].text /\ Current(h).doc \in Docs
  BY <1>1, CurrentJob
<1>3. Current(h).kind = "write"
  BY <1>1 DEF Shaped, Current
<1>4. req[h].batch[k].text # Empty
  BY <1>1, <1>2, <1>3 DEF Shaped, Planned
<1>5. Current(h).text \in Texts
  BY <1>1, <1>2, <1>4, BatchShape
<1>6. Written(h) \in Row /\ Written(h).text = Current(h).text /\ Written(h).meta = req[h].meta
  BY <1>1, <1>5, RowMade DEF Written
<1> QED
  BY <1>2, <1>3, <1>5, <1>6

LEMMA InsertStep ==
  ASSUME Requests, NEW h \in Handlers, InsertDocument(h)
  PROVE  Requests'
<1> DEFINE rows == Put(central, Current(h).doc, Written(h))
           how == IF req[h].existed THEN "replaced" ELSE "new"
<1>1. req[h].pc = "insert" /\ Commit(rows) /\ Ended(h, how) /\ UNCHANGED <<requests, faults>>
  BY DEF InsertDocument
<1>2. Current(h).doc \in Docs /\ Written(h) \in Row /\ Written(h).text = Current(h).text
  BY <1>1, WrittenRow
<1>3. central \in Store /\ \A g \in Handlers : req[g].held \subseteq DOMAIN central
  BY DEF Requests, Backed
<1>4. /\ rows \in Store /\ DOMAIN rows = DOMAIN central \cup {Current(h).doc} /\ rows[Current(h).doc] = Written(h)
  <2> DEFINE d == Current(h).doc row == Written(h)
  <2>1. d \in Docs /\ row \in Row /\ central \in Store
    BY <1>2, <1>3
  <2> HIDE DEF d, row
  <2>2. /\ Put(central, d, row) \in Store /\ DOMAIN Put(central, d, row) = DOMAIN central \cup {d}
        /\ Put(central, d, row)[d] = row
    BY <2>1, PutRow
  <2> QED
    BY <2>2 DEF d, row
<1>5. how \in Outcomes
  BY DEF Outcomes
<1> HIDE DEF rows, how
<1>6. Current(h).text \in StoredTexts(rows)
  BY <1>2, <1>4 DEF StoredTexts
<1>7. \A g \in Handlers : req[g].held \subseteq DOMAIN rows
  BY <1>3, <1>4
<1> QED
  BY <1>1, <1>4, <1>5, <1>6, <1>7, Committed

LEMMA UpdateStep ==
  ASSUME Requests, NEW h \in Handlers, UpdateDocumentMetadata(h)
  PROVE  Requests'
<1> DEFINE rows == SetMeta(central, Current(h).doc, req[h].meta)
<1>1. /\ req[h].pc = "work" /\ Current(h).kind = "update" /\ Commit(rows) /\ Ended(h, "updated")
      /\ UNCHANGED <<requests, faults>>
  BY DEF UpdateDocumentMetadata, Turn
<1>2. central \in Store /\ (\A g \in Handlers : req[g].held \subseteq DOMAIN central) /\ req[h].meta \in Metas
  BY <1>1 DEF Requests, Backed, Shaped
<1>3. rows \in Store /\ DOMAIN rows = DOMAIN central
  BY <1>2, SetRowMeta
<1>4. "updated" \in Outcomes
  BY DEF Outcomes
<1> HIDE DEF rows
<1> QED
  BY <1>1, <1>2, <1>3, <1>4, Committed

LEMMA RemoveStep ==
  ASSUME Requests, NEW h \in Handlers, RemoveDocument(h)
  PROVE  Requests'
<1> DEFINE rows == Drop(central, Current(h).doc)
<1>1. /\ req[h].pc = "work" /\ Current(h).kind = "remove" /\ Commit(rows) /\ Ended(h, "removed")
      /\ UNCHANGED <<requests, faults>> /\ Current(h).doc \notin Locked(h)
  BY DEF RemoveDocument, Turn
<1>2. central \in Store /\ \A g \in Handlers : req[g].held \subseteq DOMAIN central
  BY DEF Requests, Backed
<1>3. rows \in Store /\ DOMAIN rows = DOMAIN central \ {Current(h).doc}
  BY <1>2, DropRow
<1>4. \A g \in Handlers : g # h => Current(h).doc \notin req[g].held
  BY <1>1 DEF Locked
<1>5. "removed" \in Outcomes
  BY DEF Outcomes
<1> HIDE DEF rows
<1>6. \A g \in Handlers : g # h => req[g].held \subseteq DOMAIN rows
  BY <1>2, <1>3, <1>4
<1> QED
  BY <1>1, <1>3, <1>5, <1>6, Committed

LEMMA FailedStep ==
  ASSUME Requests, NEW h \in Handlers, IntegrityError(h) \/ DeadlockVictim(h) \/ DocumentFails(h)
  PROVE  Requests'
<1>0. central \in Store /\ faults \in 0 .. MaxFaults
  BY DEF Requests
<1>1. CASE IntegrityError(h)
  <2>1. /\ req[h].pc = "insert" /\ Ended(h, "unchanged") /\ UNCHANGED <<requests, faults>> /\ NoCommit
        /\ Colliding(h) # {}
    BY <1>1 DEF IntegrityError
  <2>2. PICK d \in Colliding(h) : TRUE
    BY <2>1
  <2>3. d \in DOMAIN central /\ (d = Current(h).doc \/ central[d].text = Current(h).text)
    BY <2>2 DEF Colliding
  <2>4. Current(h).doc \in Colliding(h) \/ Current(h).text \in StoredTexts(central)
    BY <2>2, <2>3 DEF StoredTexts
  <2>5. "unchanged" \in Outcomes
    BY DEF Outcomes
  <2> QED
    BY <1>0, <2>1, <2>4, <2>5, RolledBack
<1>2. CASE DeadlockVictim(h)
  <2>1. req[h].pc = "insert" /\ Ended(h, "failed") /\ UNCHANGED <<requests, faults>> /\ NoCommit
    BY <1>2 DEF DeadlockVictim
  <2>2. "failed" \in Outcomes
    BY DEF Outcomes
  <2> QED
    BY <1>0, <2>1, <2>2, RolledBack
<1>3. CASE DocumentFails(h)
  <2>1. /\ req[h].pc \in {"work", "insert"} /\ Ended(h, "failed") /\ UNCHANGED requests /\ NoCommit
        /\ faults < MaxFaults /\ faults' = faults + 1
    BY <1>3 DEF DocumentFails
  <2>2. "failed" \in Outcomes
    BY DEF Outcomes
  <2>3. faults' \in 0 .. MaxFaults
    BY <1>0, <2>1, CentralAssumption
  <2> QED
    BY <2>1, <2>2, <2>3, RolledBack
<1> QED
  BY <1>1, <1>2, <1>3

LEMMA AnswerStep ==
  ASSUME Requests, NEW h \in Handlers, Answer(h)
  PROVE  Requests'
<1>1. /\ central \in Store /\ requests \in 0 .. MaxRequests /\ faults \in 0 .. MaxFaults
      /\ req = [g \in Handlers |-> req[g]] /\ seen = [g \in Handlers |-> seen[g]]
  BY DEF Requests
<1>2. /\ req' = [req EXCEPT ![h] = Idle] /\ seen' = [seen EXCEPT ![h] = {}] /\ UNCHANGED <<central, requests, faults>>
  BY DEF Answer
<1>3. req'[h] = Idle /\ seen'[h] = {}
  BY <1>1, <1>2
<1>4. /\ req' = [g \in Handlers |-> req'[g]] /\ \A g \in Handlers : g # h => req'[g] = req[g]
      /\ seen' = [g \in Handlers |-> seen'[g]] /\ \A g \in Handlers : g # h => seen'[g] = seen[g]
  <2> HIDE DEF Idle
  <2> QED
    BY <1>1, <1>2
<1>5. Shaped(req'[h]) /\ Backed(req'[h], central, seen'[h])
  BY <1>3, IdleShaped, IdleBacked
<1> QED
  BY <1>1, <1>2, <1>4, <1>5, StepApart

LEMMA CentralStep ==
  ASSUME Requests, CentralNext
  PROVE  Requests'
<1>1. PICK h \in Handlers : Work(h) \/ \E b \in Batches, m \in Metas : Receive(h, b, m)
  BY DEF CentralNext
<1> QED
  BY <1>1, ReceiveStep, PreloadStep, DeleteStep, InsertStep, UpdateStep, RemoveStep, FailedStep, AnswerStep DEF Work

-----------------------------------------------------------------------------
(* The local store                                                         *)

SrvType ==
  [pc : {"idle", "embed", "write", "done"}, batch : Batches \cup {<<>>}, meta : Metas \cup {EtlMeta},
   rows : Store, plan : Seq(Job), todo : SUBSET Nat, out : SUBSET Tally, snap : SUBSET Nat]

IngestShaped(x) ==
  /\ x \in SrvType
  /\ x.todo \subseteq DOMAIN x.plan
  /\ x.pc # "idle" =>
       /\ x.batch \in Batches /\ x.meta \in Metas
       /\ Fits(x.plan, x.batch) /\ x.todo \subseteq WorkOf(x.plan) /\ TalliedOnce(x.plan, x.todo, x.out)
       /\ \A i \in DOMAIN x.batch : x.plan[i].kind = Classify(x.batch[i], x.meta, x.rows)
  /\ x.pc \in {"embed", "write"} => x.todo = WorkOf(x.plan)
  /\ x.pc = "done" => x.todo = {}

Busy == {s \in Servers : srv[s].pc \in {"embed", "write"}}

(* An ingest commits once, and hands over at least one document.           *)
Ingests ==
  /\ local \in Store
  /\ srv = [s \in Servers |-> srv[s]]
  /\ version \in Nat /\ ingests \in 0 .. MaxIngests
  /\ IsFiniteSet(Busy) /\ version + Cardinality(Busy) <= ingests
  /\ \A s \in Servers : IngestShaped(srv[s]) /\ srv[s].snap \subseteq 0 .. version

LEMMA SrvFields ==
  \A x \in SrvType :
    /\ x.pc \in {"idle", "embed", "write", "done"} /\ x.batch \in Batches \cup {<<>>}
    /\ x.meta \in Metas \cup {EtlMeta} /\ x.rows \in Store /\ x.plan \in Seq(Job) /\ x.todo \subseteq Nat
    /\ x.out \subseteq Tally /\ x.snap \subseteq Nat
BY DEF SrvType

LEMMA RestingShaped == IngestShaped(Resting) /\ Resting.pc = "idle" /\ Resting.snap = {}
<1>1. /\ Resting.pc = "idle" /\ Resting.snap = {} /\ Resting.todo = {} /\ Resting.plan = <<>>
  BY DEF Resting
<1>2. Resting \in SrvType
  <2>1. <<>> \in Store /\ <<>> \in Seq(Job)
    BY NoRows
  <2> QED
    BY <2>1 DEF Resting, SrvType
<1> QED
  BY <1>1, <1>2 DEF IngestShaped

(* What the savepoints of one ingest leave.                                *)
LEMMA SavedRows ==
  ASSUME NEW rows \in Store, NEW m \in Metas, NEW jobs \in SUBSET Job,
         \A j, k \in jobs : j.doc = k.doc => j = k,
         \A j \in jobs : j.kind = "write" => j.text \in Texts
  PROVE  LET after == Savepoints(m, rows, jobs)
         IN /\ after \in Store
            /\ \A j \in jobs :
                 /\ j.kind = "write" => /\ j.doc \in DOMAIN after
                                        /\ after[j.doc].text = j.text /\ after[j.doc].meta = m
                 /\ j.kind = "update" /\ j.doc \in DOMAIN rows =>
                      /\ j.doc \in DOMAIN after
                      /\ after[j.doc].text = rows[j.doc].text /\ after[j.doc].meta = m
                 /\ j.kind = "remove" => j.doc \notin DOMAIN after
            /\ \A d : (\A j \in jobs : j.doc # d) =>
                 /\ d \in DOMAIN after <=> d \in DOMAIN rows
                 /\ d \in DOMAIN rows => after[d] = rows[d]
<1> DEFINE W == {j.doc : j \in {k \in jobs : k.kind = "write"}}
           U == {j.doc : j \in {k \in jobs : k.kind = "update"}}
           R == {j.doc : j \in {k \in jobs : k.kind = "remove"}}
           text(d) == (CHOOSE j \in jobs : j.doc = d).text
           after == Savepoints(m, rows, jobs)
           new(d) == IF d \in W THEN [text |-> text(d), meta |-> m, usable |-> "all"]
                     ELSE IF d \in U THEN [rows[d] EXCEPT !.meta = m] ELSE rows[d]
<1>1. after = [d \in (DOMAIN rows \cup W) \ R |-> new(d)]
  BY DEF Savepoints
<1>2. rows \in [DOMAIN rows -> Row] /\ DOMAIN rows \subseteq Docs
  BY StoreShape
<1>3. \A j \in jobs : j.doc \in Docs /\ text(j.doc) = j.text
  BY JobFields
<1>4. W \subseteq Docs /\ \A d \in W : text(d) \in Texts
  BY <1>3
<1>5. \A j \in jobs : /\ j.kind = "write" <=> j.doc \in W
                      /\ j.kind = "update" <=> j.doc \in U
                      /\ j.kind = "remove" <=> j.doc \in R
  OBVIOUS
<1>6. \A d : (\A j \in jobs : j.doc # d) => d \notin W \cup U \cup R
  OBVIOUS
<1>7. \A d \in W : new(d) \in Row /\ new(d).text = text(d) /\ new(d).meta = m
  <2> SUFFICES ASSUME NEW d \in W PROVE new(d) \in Row /\ new(d).text = text(d) /\ new(d).meta = m
    OBVIOUS
  <2> DEFINE t == text(d)
  <2>1. new(d) = [text |-> t, meta |-> m, usable |-> "all"] /\ t \in Texts
    BY <1>4
  <2>2. t = text(d)
    OBVIOUS
  <2> HIDE DEF new, text, t
  <2>3. LET r == [text |-> t, meta |-> m, usable |-> "all"]
        IN r \in Row /\ r.text = t /\ r.meta = m
    BY <2>1, RowMade
  <2> QED
    BY <2>1, <2>2, <2>3
<1>8. \A d \in DOMAIN rows \ W : d \in U => new(d) \in Row /\ new(d).text = rows[d].text /\ new(d).meta = m
  <2> SUFFICES ASSUME NEW d \in DOMAIN rows \ W, d \in U
               PROVE  new(d) \in Row /\ new(d).text = rows[d].text /\ new(d).meta = m
    OBVIOUS
  <2>1. new(d) = [rows[d] EXCEPT !.meta = m] /\ rows[d] \in Row
    BY <1>2
  <2> HIDE DEF new
  <2>2. LET r == [rows[d] EXCEPT !.meta = m]
        IN r \in Row /\ r.text = rows[d].text /\ r.meta = m
    BY <2>1, RowMetaKept
  <2> QED
    BY <2>1, <2>2
<1>9. \A d \in DOMAIN rows \ W : d \notin U => new(d) = rows[d] /\ new(d) \in Row
  BY <1>2
<1> HIDE DEF W, U, R, text, after, new
<1>10. DOMAIN after = (DOMAIN rows \cup W) \ R /\ \A d \in DOMAIN after : after[d] = new(d)
  BY <1>1
<1>11. after \in [DOMAIN after -> Row] /\ DOMAIN after \subseteq Docs
  BY <1>1, <1>2, <1>4, <1>7, <1>8, <1>9, <1>10
<1>12. after \in Store
  BY <1>11, StoreShape
<1>13. ASSUME NEW j \in jobs
       PROVE  /\ j.kind = "write" => /\ j.doc \in DOMAIN after
                                     /\ after[j.doc].text = j.text /\ after[j.doc].meta = m
              /\ j.kind = "update" /\ j.doc \in DOMAIN rows =>
                   /\ j.doc \in DOMAIN after
                   /\ after[j.doc].text = rows[j.doc].text /\ after[j.doc].meta = m
              /\ j.kind = "remove" => j.doc \notin DOMAIN after
  <2>1. /\ j.kind = "write" <=> j.doc \in W
        /\ j.kind = "update" <=> j.doc \in U
        /\ j.kind = "remove" <=> j.doc \in R
    BY <1>5
  <2>2. CASE j.kind = "write"
    BY <1>3, <1>7, <1>10, <2>1, <2>2
  <2>3. CASE j.kind = "update"
    BY <1>8, <1>10, <2>1, <2>3
  <2>4. CASE j.kind = "remove"
    BY <1>10, <2>1, <2>4
  <2> QED
    BY <2>2, <2>3, <2>4
<1>14. ASSUME NEW d, \A j \in jobs : j.doc # d
       PROVE  /\ d \in DOMAIN after <=> d \in DOMAIN rows
              /\ d \in DOMAIN rows => after[d] = rows[d]
  BY <1>6, <1>9, <1>10, <1>14
<1> QED
  BY <1>12, <1>13, <1>14 DEF after

Handed(b, m, rows, plan, todo, out) ==
  [Resting EXCEPT !.pc = "embed", !.batch = b, !.meta = m, !.rows = rows, !.plan = plan, !.todo = todo, !.out = out]

LEMMA HandedOver ==
  ASSUME NEW b \in Batches, NEW m \in Metas, NEW rows \in Store, NEW plan \in Seq(Job), NEW todo \in SUBSET Nat,
         NEW out \in SUBSET Tally
  PROVE  LET z == Handed(b, m, rows, plan, todo, out)
         IN /\ z \in SrvType
            /\ z.pc = "embed" /\ z.batch = b /\ z.meta = m /\ z.rows = rows /\ z.plan = plan /\ z.todo = todo
            /\ z.out = out /\ z.snap = {}
<1>1. Resting \in SrvType /\ Resting.snap = {}
  BY RestingShaped DEF IngestShaped
<1> HIDE DEF Resting
<1> QED
  BY <1>1 DEF SrvType, Handed

(* The jobs an ingest is left with.                                        *)
LEMMA JobsLeft ==
  ASSUME NEW x, IngestShaped(x), x.pc # "idle"
  PROVE  LET jobs == {x.plan[i] : i \in x.todo}
         IN /\ jobs \subseteq Job /\ x.batch \in Batches /\ x.meta \in Metas /\ x.rows \in Store
            /\ \A j, k \in jobs : j.doc = k.doc => j = k
            /\ \A j \in jobs : j.kind = "write" => j.text \in Texts
            /\ \A j \in jobs : j.doc \in Docs /\ j.kind \in {"write", "update", "remove"}
            /\ \A i \in DOMAIN x.batch : i \notin x.todo => \A j \in jobs : j.doc # x.batch[i].doc
<1>1. /\ x \in SrvType /\ x.batch \in Batches /\ x.meta \in Metas /\ Fits(x.plan, x.batch)
      /\ x.todo \subseteq WorkOf(x.plan) /\ x.todo \subseteq DOMAIN x.plan
      /\ \A i \in DOMAIN x.batch : x.plan[i].kind = Classify(x.batch[i], x.meta, x.rows)
  BY DEF IngestShaped
<1>2. x.rows \in Store
  BY <1>1, SrvFields
<1>3. DOMAIN x.plan = DOMAIN x.batch /\ \A i \in DOMAIN x.batch : x.plan[i] \in Job
  BY <1>1, PlanFields
<1>4. \A i, j \in DOMAIN x.batch : x.plan[i].doc = x.plan[j].doc => i = j
  BY <1>1, PlanFields
<1>5. \A i \in x.todo : x.plan[i].kind \in {"write", "update", "remove"} /\ x.plan[i].doc \in Docs
  BY <1>1, <1>3, JobFields DEF WorkOf
<1>6. ASSUME NEW i \in x.todo, x.plan[i].kind = "write" PROVE x.plan[i].text \in Texts
  <2>1. i \in DOMAIN x.batch /\ x.plan[i].text = x.batch[i].text /\ Classify(x.batch[i], x.meta, x.rows) = "write"
    BY <1>1, <1>3, <1>6 DEF Fits
  <2>2. x.batch[i] \in Source /\ x.batch[i].text \in Texts \cup {Empty}
    BY <1>1, <2>1, BatchShape
  <2>3. x.batch[i].text # Empty
    BY <1>2, <2>1, <2>2, Classified
  <2> QED
    BY <2>1, <2>2, <2>3
<1>7. \A i \in DOMAIN x.batch : x.plan[i].doc = x.batch[i].doc
  BY <1>1 DEF Fits
<1> QED
  BY <1>1, <1>2, <1>3, <1>4, <1>5, <1>6, <1>7

LEMMA TalliedAll ==
  ASSUME NEW plan, NEW todo \in SUBSET DOMAIN plan, NEW out, TalliedOnce(plan, todo, out),
         NEW more \in SUBSET Tally,
         \A i \in todo : \E t \in more : t.doc = plan[i].doc,
         \A t \in more : \E i \in todo : t.doc = plan[i].doc,
         \A t, u \in more : t.doc = u.doc => t = u
  PROVE  TalliedOnce(plan, {}, out \cup more)
BY DEF TalliedOnce

(* What one commit of an ingest adds to its summary.                       *)
Noted(x, lost, rows) ==
  LET jobs == {x.plan[i] : i \in x.todo}
  IN {IF j.doc \in lost THEN [doc |-> j.doc, how |-> "failed"] ELSE Done(j, rows) : j \in jobs}

LEMMA CommitTallied ==
  ASSUME NEW x, IngestShaped(x), x.pc # "idle", NEW lost, NEW rows
  PROVE  /\ Noted(x, lost, rows) \subseteq Tally
         /\ TalliedOnce(x.plan, {}, x.out \cup Noted(x, lost, rows))
         /\ \A i \in x.todo : x.plan[i].doc \in lost => [doc |-> x.plan[i].doc, how |-> "failed"] \in Noted(x, lost, rows)
<1> DEFINE jobs == {x.plan[i] : i \in x.todo}
           Of(j) == IF j.doc \in lost THEN [doc |-> j.doc, how |-> "failed"] ELSE Done(j, rows)
           more == {Of(j) : j \in jobs}
<1>1. /\ \A j \in jobs : j.doc \in Docs
      /\ \A j, k \in jobs : j.doc = k.doc => j = k
  BY JobsLeft
<1>2. TalliedOnce(x.plan, x.todo, x.out) /\ x.todo \in SUBSET DOMAIN x.plan
  BY DEF IngestShaped
<1>3. ASSUME NEW j \in jobs PROVE Of(j) \in Tally /\ Of(j).doc = j.doc
  <2>1. j.doc \in Docs
    BY <1>1
  <2>2. CASE j.doc \in lost
    BY <2>1, <2>2, TallyMade DEF Outcomes
  <2>3. CASE j.doc \notin lost
    <3> DEFINE how == CASE j.kind = "update" -> "updated" [] j.kind = "remove" -> "removed"
                        [] OTHER -> IF j.doc \in DOMAIN rows THEN "replaced" ELSE "new"
               d == j.doc
    <3>1. how \in Outcomes
      BY DEF Outcomes
    <3>2. Of(j) = [doc |-> d, how |-> how]
      BY <2>3 DEF Done
    <3>3. d \in Docs /\ d = j.doc
      BY <2>1
    <3> HIDE DEF how, d, Of
    <3> QED
      BY <3>1, <3>2, <3>3, TallyMade
  <2> QED
    BY <2>2, <2>3
<1>4. \A i \in x.todo : x.plan[i] \in jobs
  OBVIOUS
<1>5. \A j \in jobs : \E i \in x.todo : j = x.plan[i]
  OBVIOUS
<1>6. more = Noted(x, lost, rows)
  BY DEF Noted
<1>7. \A i \in x.todo : x.plan[i].doc \in lost => [doc |-> x.plan[i].doc, how |-> "failed"] \in more
  <2> SUFFICES ASSUME NEW i \in x.todo, x.plan[i].doc \in lost
               PROVE  [doc |-> x.plan[i].doc, how |-> "failed"] \in more
    OBVIOUS
  <2>1. x.plan[i] \in jobs /\ Of(x.plan[i]) = [doc |-> x.plan[i].doc, how |-> "failed"]
    OBVIOUS
  <2> QED
    BY <2>1
<1> HIDE DEF jobs, Of
<1>8. more \subseteq Tally
  BY <1>3
<1>9. \A i \in x.todo : \E t \in more : t.doc = x.plan[i].doc
  BY <1>3, <1>4
<1>10. \A t \in more : \E i \in x.todo : t.doc = x.plan[i].doc
  BY <1>3, <1>5
<1>11. \A t, u \in more : t.doc = u.doc => t = u
  BY <1>1, <1>3
<1> HIDE DEF more
<1>12. TalliedOnce(x.plan, {}, x.out \cup more)
  BY <1>2, <1>8, <1>9, <1>10, <1>11, TalliedAll
<1> QED
  BY <1>6, <1>7, <1>8, <1>12

LEMMA SrvStep ==
  ASSUME Ingests, NEW s \in Servers, local' \in Store, version' \in Nat, version <= version',
         ingests' \in 0 .. MaxIngests, IsFiniteSet(Busy'), version' + Cardinality(Busy') <= ingests',
         srv' = [r \in Servers |-> srv'[r]], \A r \in Servers : r # s => srv'[r] = srv[r],
         IngestShaped(srv'[s]), srv'[s].snap \subseteq 0 .. version'
  PROVE  Ingests'
<1>1. version \in Nat
  BY DEF Ingests
<1>2. ASSUME NEW r \in Servers PROVE IngestShaped(srv'[r]) /\ srv'[r].snap \subseteq 0 .. version'
  BY <1>1 DEF Ingests
<1> QED
  BY <1>2 DEF Ingests

(* Who is busy after the step of one server.                               *)
LEMMA BusyAfter ==
  ASSUME Ingests, NEW s \in Servers, srv' = [r \in Servers |-> srv'[r]],
         \A r \in Servers : r # s => srv'[r] = srv[r]
  PROVE  /\ IsFiniteSet(Busy') /\ Cardinality(Busy) \in Nat /\ Cardinality(Busy') \in Nat
         /\ srv'[s].pc \in {"embed", "write"} =>
              Cardinality(Busy') = IF s \in Busy THEN Cardinality(Busy) ELSE Cardinality(Busy) + 1
         /\ srv'[s].pc \notin {"embed", "write"} =>
              Cardinality(Busy') = IF s \in Busy THEN Cardinality(Busy) - 1 ELSE Cardinality(Busy)
<1>1. IsFiniteSet(Busy) /\ Cardinality(Busy) \in Nat
  BY FS_CardinalityType DEF Ingests
<1>2. srv'[s].pc \in {"embed", "write"} => Busy' = Busy \cup {s}
  BY DEF Busy
<1>3. srv'[s].pc \notin {"embed", "write"} => Busy' = Busy \ {s}
  BY DEF Busy
<1>4. /\ IsFiniteSet(Busy \cup {s})
      /\ Cardinality(Busy \cup {s}) = IF s \in Busy THEN Cardinality(Busy) ELSE Cardinality(Busy) + 1
  BY <1>1, FS_AddElement
<1>5. /\ IsFiniteSet(Busy \ {s})
      /\ Cardinality(Busy \ {s}) = IF s \in Busy THEN Cardinality(Busy) - 1 ELSE Cardinality(Busy)
  BY <1>1, FS_RemoveElement
<1>6. IsFiniteSet(Busy') /\ Cardinality(Busy') \in Nat
  BY <1>2, <1>3, <1>4, <1>5, FS_CardinalityType
<1> QED
  BY <1>1, <1>2, <1>3, <1>4, <1>5, <1>6

LEMMA IngestsInit == LocalInit => Ingests
<1> SUFFICES ASSUME LocalInit PROVE Ingests
  OBVIOUS
<1>1. local \in Corpora /\ version = 0 /\ ingests = 0 /\ srv = [s \in Servers |-> Resting]
  BY DEF LocalInit
<1>2. local \in [Docs -> Row]
  BY <1>1 DEF Corpora
<1>3. local \in Store
  BY <1>2, StoreShape
<1>4. \A s \in Servers : srv[s] = Resting
  BY <1>1
<1>5. Busy = {}
  BY <1>4, RestingShaped DEF Busy
<1>6. IsFiniteSet(Busy) /\ Cardinality(Busy) = 0
  BY <1>5, FS_EmptySet
<1>7. srv = [s \in Servers |-> srv[s]]
  BY <1>1
<1> HIDE DEF Resting
<1>8. \A s \in Servers : IngestShaped(srv[s]) /\ srv[s].snap \subseteq 0 .. version
  BY <1>4, RestingShaped
<1> QED
  BY <1>1, <1>3, <1>6, <1>7, <1>8, LocalAssumption DEF Ingests

LEMMA IngestStep ==
  ASSUME Ingests, NEW s \in Servers, NEW b \in Batches, NEW m \in Metas, IngestDocuments(s, b, m)
  PROVE  Ingests'
<1> DEFINE plan == LocalPlan(b, m, local)
           z == Handed(b, m, local, plan, WorkOf(plan), SettledOf(plan))
<1>1. /\ local \in Store /\ version \in Nat /\ ingests \in 0 .. MaxIngests /\ srv = [r \in Servers |-> srv[r]]
      /\ version + Cardinality(Busy) <= ingests
  BY DEF Ingests
<1>2. /\ srv[s].pc = "idle" /\ ingests + Len(b) <= MaxIngests /\ ingests' = ingests + Len(b)
      /\ UNCHANGED <<local, version>> /\ srv' = [srv EXCEPT ![s] = z]
  BY DEF IngestDocuments, Handed
<1>3. /\ Fits(plan, b) /\ \A i \in DOMAIN b : plan[i].kind = Classify(b[i], m, local)
  BY <1>1, LocalPlanned
<1>4. Len(b) \in Nat /\ Len(b) >= 1
  BY BatchShape
<1> HIDE DEF plan
<1>5. /\ plan \in Seq(Job) /\ WorkOf(plan) \subseteq DOMAIN plan /\ WorkOf(plan) \subseteq Nat
  BY <1>3, PlanFields DEF Fits, WorkOf
<1>6. TalliedOnce(plan, WorkOf(plan), SettledOf(plan)) /\ SettledOf(plan) \subseteq Tally
  BY <1>3, SettledFirst DEF TalliedOnce
<1>7. /\ z \in SrvType
      /\ z.pc = "embed" /\ z.batch = b /\ z.meta = m /\ z.rows = local /\ z.plan = plan /\ z.todo = WorkOf(plan)
      /\ z.out = SettledOf(plan) /\ z.snap = {}
  BY <1>1, <1>3, <1>5, <1>6, HandedOver
<1> HIDE DEF z
<1>8. IngestShaped(z)
  BY <1>3, <1>5, <1>6, <1>7 DEF IngestShaped
<1>9. srv' = [r \in Servers |-> srv'[r]] /\ srv'[s] = z /\ \A r \in Servers : r # s => srv'[r] = srv[r]
  BY <1>1, <1>2
<1>10. s \notin Busy
  BY <1>2 DEF Busy
<1>11. /\ IsFiniteSet(Busy') /\ Cardinality(Busy) \in Nat /\ Cardinality(Busy') = Cardinality(Busy) + 1
  BY <1>7, <1>9, <1>10, BusyAfter
<1>12. version' + Cardinality(Busy') <= ingests' /\ ingests' \in 0 .. MaxIngests
  BY <1>1, <1>2, <1>4, <1>11, LocalAssumption
<1>13. srv'[s].snap \subseteq 0 .. version' /\ version' \in Nat /\ version <= version' /\ local' \in Store
  BY <1>1, <1>2, <1>7, <1>9
<1> QED
  BY <1>8, <1>9, <1>11, <1>12, <1>13, SrvStep

LEMMA BeginStep ==
  ASSUME Ingests, NEW s \in Servers, BeginWrites(s)
  PROVE  Ingests'
<1> DEFINE x == srv[s] y == srv'[s]
           snap == IF x.todo # {} /\ First(s).kind # "update" THEN {version} ELSE {}
<1>1. /\ local \in Store /\ version \in Nat /\ ingests \in 0 .. MaxIngests /\ srv = [r \in Servers |-> srv[r]]
      /\ version + Cardinality(Busy) <= ingests /\ IngestShaped(x)
  BY DEF Ingests
<1>2. /\ x.pc = "embed" /\ UNCHANGED <<local, version, ingests>>
      /\ \/ srv' = [srv EXCEPT ![s].pc = "write", ![s].snap = snap]
         \/ srv' = [srv EXCEPT ![s] = Resting]
  BY DEF BeginWrites
<1>3. s \in Busy
  BY <1>2 DEF Busy
<1>4. CASE srv' = [srv EXCEPT ![s].pc = "write", ![s].snap = snap]
  <2>1. x \in SrvType
    BY <1>1 DEF IngestShaped
  <2>2. snap \subseteq Nat /\ snap \subseteq 0 .. version
    BY <1>1
  <2> HIDE DEF snap
  <2>3. /\ srv' = [r \in Servers |-> srv'[r]] /\ (\A r \in Servers : r # s => srv'[r] = srv[r])
        /\ y \in SrvType /\ y.pc = "write" /\ y.snap = snap
        /\ y.batch = x.batch /\ y.meta = x.meta /\ y.rows = x.rows /\ y.plan = x.plan /\ y.todo = x.todo /\ y.out = x.out
    BY <1>1, <1>4, <2>1, <2>2 DEF SrvType
  <2> HIDE DEF x, y
  <2>4. IngestShaped(y)
    BY <1>1, <1>2, <2>3 DEF IngestShaped
  <2> USE DEF x, y
  <2>5. IsFiniteSet(Busy') /\ Cardinality(Busy') = Cardinality(Busy)
    BY <1>3, <2>3, BusyAfter
  <2>6. version' + Cardinality(Busy') <= ingests' /\ ingests' \in 0 .. MaxIngests /\ local' \in Store
        /\ version' \in Nat /\ version <= version'
    BY <1>1, <1>2, <2>5
  <2>7. srv'[s].snap \subseteq 0 .. version' /\ IngestShaped(srv'[s])
    BY <1>2, <2>2, <2>3, <2>4
  <2> HIDE DEF x, y
  <2> QED
    BY <2>3, <2>5, <2>6, <2>7, SrvStep
<1>5. CASE srv' = [srv EXCEPT ![s] = Resting]
  <2> HIDE DEF Resting
  <2>1. srv' = [r \in Servers |-> srv'[r]] /\ srv'[s] = Resting /\ \A r \in Servers : r # s => srv'[r] = srv[r]
    BY <1>1, <1>5
  <2>2. /\ IsFiniteSet(Busy') /\ Cardinality(Busy) \in Nat /\ Cardinality(Busy') \in Nat
        /\ Cardinality(Busy') = Cardinality(Busy) - 1
    BY <1>3, <2>1, BusyAfter, RestingShaped
  <2>3. version' + Cardinality(Busy') <= ingests' /\ ingests' \in 0 .. MaxIngests /\ local' \in Store
        /\ version' \in Nat /\ version <= version'
    BY <1>1, <1>2, <2>2
  <2>4. srv'[s].snap \subseteq 0 .. version' /\ IngestShaped(srv'[s])
    BY <2>1, RestingShaped
  <2> QED
    BY <2>1, <2>2, <2>3, <2>4, SrvStep
<1> QED
  BY <1>2, <1>4, <1>5

LEMMA ReturnStep ==
  ASSUME Ingests, NEW s \in Servers, Return(s)
  PROVE  Ingests'
<1>1. /\ local \in Store /\ version \in Nat /\ ingests \in 0 .. MaxIngests /\ srv = [r \in Servers |-> srv[r]]
      /\ version + Cardinality(Busy) <= ingests
  BY DEF Ingests
<1>2. srv[s].pc = "done" /\ UNCHANGED <<local, version, ingests>> /\ srv' = [srv EXCEPT ![s] = Resting]
  BY DEF Return
<1> HIDE DEF Resting
<1>3. srv' = [r \in Servers |-> srv'[r]] /\ srv'[s] = Resting /\ \A r \in Servers : r # s => srv'[r] = srv[r]
  BY <1>1, <1>2
<1>4. s \notin Busy
  BY <1>2 DEF Busy
<1>5. IsFiniteSet(Busy') /\ Cardinality(Busy') = Cardinality(Busy)
  BY <1>3, <1>4, BusyAfter, RestingShaped
<1>6. version' + Cardinality(Busy') <= ingests' /\ ingests' \in 0 .. MaxIngests /\ local' \in Store
      /\ version' \in Nat /\ version <= version'
  BY <1>1, <1>2, <1>5
<1>7. srv'[s].snap \subseteq 0 .. version' /\ IngestShaped(srv'[s])
  BY <1>3, RestingShaped
<1> QED
  BY <1>3, <1>5, <1>6, <1>7, SrvStep

(* The transaction of an ingest: what it leaves, and that the summary says *)
(* so of each document.                                                    *)
LEMMA CommitFields ==
  ASSUME Ingests, NEW s \in Servers, srv[s].pc = "write", NEW lost, Commits(s, lost)
  PROVE  LET jobs == {srv[s].plan[i] : i \in srv[s].todo}
             kept == {j \in jobs : j.doc \notin lost}
         IN /\ local' = Savepoints(srv[s].meta, local, kept)
            /\ version' = IF kept = {} THEN version ELSE version + 1
            /\ srv' = [r \in Servers |-> srv'[r]] /\ (\A r \in Servers : r # s => srv'[r] = srv[r])
            /\ srv'[s] \in SrvType /\ srv'[s].pc = "done" /\ srv'[s].todo = {}
            /\ srv'[s].out = srv[s].out \cup Noted(srv[s], lost, local)
            /\ srv'[s].batch = srv[s].batch /\ srv'[s].meta = srv[s].meta /\ srv'[s].rows = srv[s].rows
            /\ srv'[s].plan = srv[s].plan /\ srv'[s].snap = srv[s].snap
<1> DEFINE x == srv[s]
           jobs == {x.plan[i] : i \in x.todo}
           more == Noted(x, lost, local)
           kept == {j \in jobs : j.doc \notin lost}
<1>1. srv = [r \in Servers |-> srv[r]] /\ IngestShaped(x) /\ x \in SrvType
  BY DEF Ingests, IngestShaped
<1>2. /\ local' = Savepoints(x.meta, local, kept) /\ version' = IF kept = {} THEN version ELSE version + 1
      /\ srv' = [srv EXCEPT ![s].pc = "done", ![s].todo = {}, ![s].out = @ \cup more]
  BY DEF Commits, Noted
<1>3. more \subseteq Tally
  BY <1>1, CommitTallied
<1> HIDE DEF more
<1>4. /\ srv' = [r \in Servers |-> srv'[r]] /\ (\A r \in Servers : r # s => srv'[r] = srv[r])
      /\ srv'[s] \in SrvType /\ srv'[s].pc = "done" /\ srv'[s].todo = {} /\ srv'[s].out = x.out \cup more
      /\ srv'[s].batch = x.batch /\ srv'[s].meta = x.meta /\ srv'[s].rows = x.rows
      /\ srv'[s].plan = x.plan /\ srv'[s].snap = x.snap
  BY <1>1, <1>2, <1>3 DEF SrvType
<1> QED
  BY <1>2, <1>4 DEF more

LEMMA CommitStep ==
  ASSUME Ingests, NEW s \in Servers, srv[s].pc = "write", NEW lost, Commits(s, lost), UNCHANGED ingests
  PROVE  Ingests'
<1> DEFINE x == srv[s] y == srv'[s]
           jobs == {x.plan[i] : i \in x.todo}
           more == Noted(x, lost, local)
           kept == {j \in jobs : j.doc \notin lost}
<1>1. /\ local \in Store /\ version \in Nat /\ ingests \in 0 .. MaxIngests
      /\ version + Cardinality(Busy) <= ingests /\ IngestShaped(x) /\ x.snap \subseteq 0 .. version
  BY DEF Ingests
<1>2. /\ local' = Savepoints(x.meta, local, kept) /\ version' = IF kept = {} THEN version ELSE version + 1
      /\ srv' = [r \in Servers |-> srv'[r]] /\ (\A r \in Servers : r # s => srv'[r] = srv[r])
      /\ y \in SrvType /\ y.pc = "done" /\ y.todo = {} /\ y.out = x.out \cup more
      /\ y.batch = x.batch /\ y.meta = x.meta /\ y.rows = x.rows /\ y.plan = x.plan /\ y.snap = x.snap
  BY CommitFields
<1>3. /\ jobs \subseteq Job /\ x.batch \in Batches /\ x.meta \in Metas
      /\ \A j, k \in jobs : j.doc = k.doc => j = k
      /\ \A j \in jobs : j.kind = "write" => j.text \in Texts
  BY <1>1, JobsLeft
<1>4. kept \in SUBSET Job /\ kept \subseteq jobs
  BY <1>3
<1>5. TalliedOnce(x.plan, {}, x.out \cup more)
  BY <1>1, CommitTallied
<1>6. s \in Busy
  BY DEF Busy
<1>7. /\ IsFiniteSet(Busy') /\ Cardinality(Busy) \in Nat /\ Cardinality(Busy') \in Nat
      /\ Cardinality(Busy') = Cardinality(Busy) - 1
  BY <1>2, <1>6, BusyAfter
<1> HIDE DEF jobs, kept, more
<1>8. local' \in Store
  BY <1>1, <1>2, <1>3, <1>4, SavedRows
<1>9. version' \in Nat /\ version <= version' /\ version' + Cardinality(Busy') <= ingests' /\ ingests' \in 0 .. MaxIngests
  BY <1>1, <1>2, <1>7
<1>10. /\ Fits(x.plan, x.batch)
       /\ \A i \in DOMAIN x.batch : x.plan[i].kind = Classify(x.batch[i], x.meta, x.rows)
  BY <1>1 DEF IngestShaped
<1>11. y.snap \subseteq 0 .. version'
  BY <1>1, <1>2, <1>9
<1> HIDE DEF x, y
<1>12. IngestShaped(y)
  BY <1>2, <1>3, <1>5, <1>10 DEF IngestShaped
<1>13. IngestShaped(srv'[s]) /\ srv'[s].snap \subseteq 0 .. version'
  BY <1>11, <1>12 DEF y
<1> QED
  BY <1>2, <1>7, <1>8, <1>9, <1>13, SrvStep

LEMMA WriteCommits ==
  ASSUME NEW s \in Servers, WriteDocuments(s)
  PROVE  srv[s].pc = "write" /\ UNCHANGED ingests /\ \E lost : Commits(s, lost)
BY DEF WriteDocuments

LEMMA LocalStep ==
  ASSUME Ingests, LocalNext
  PROVE  Ingests'
<1>1. PICK s \in Servers :
        \/ \E b \in Batches, m \in Metas : IngestDocuments(s, b, m)
        \/ BeginWrites(s) \/ WriteDocuments(s) \/ Return(s)
  BY DEF LocalNext
<1>2. CASE WriteDocuments(s)
  BY <1>2, WriteCommits, CommitStep
<1> QED
  BY <1>1, <1>2, IngestStep, BeginStep, ReturnStep

(* A commit leaves every document it does not report as failed the way it  *)
(* was sent, if no other server changed the document since it was read.    *)
LEMMA CommitHolds ==
  ASSUME Ingests, NEW s \in Servers, srv[s].pc = "write", NEW lost, Commits(s, lost), NEW i \in DOMAIN srv[s].batch,
         [doc |-> srv[s].batch[i].doc, how |-> "failed"] \notin srv'[s].out,
         ~Overtaken(srv[s].batch[i].doc, srv[s].rows, local)
  PROVE  Holds(local', srv[s].batch[i], srv[s].meta)
<1> DEFINE x == srv[s] src == x.batch[i] d == src.doc
           jobs == {x.plan[k] : k \in x.todo}
           more == Noted(x, lost, local)
           kept == {j \in jobs : j.doc \notin lost}
<1>1. local \in Store /\ IngestShaped(x)
  BY DEF Ingests
<1>2. local' = Savepoints(x.meta, local, kept) /\ srv'[s].out = x.out \cup more
  BY CommitFields
<1>3. /\ jobs \subseteq Job /\ x.batch \in Batches /\ x.meta \in Metas /\ x.rows \in Store
      /\ \A j, k \in jobs : j.doc = k.doc => j = k
      /\ \A j \in jobs : j.kind = "write" => j.text \in Texts
      /\ i \notin x.todo => \A j \in jobs : j.doc # d
  BY <1>1, JobsLeft
<1>4. kept \in SUBSET Job /\ kept \subseteq jobs
  BY <1>3
<1>5. /\ x.todo = WorkOf(x.plan) /\ Fits(x.plan, x.batch)
      /\ x.plan[i].kind = Classify(src, x.meta, x.rows)
  BY <1>1 DEF IngestShaped
<1>6. x.plan[i].doc = d /\ x.plan[i].text = src.text /\ i \in DOMAIN x.plan
  BY <1>5 DEF Fits
<1>7. src \in Source
  BY <1>3, BatchShape
<1> DEFINE kind == Classify(src, x.meta, x.rows) after == Savepoints(x.meta, local, kept)
<1>8. /\ kind \in Kinds
      /\ kind \in {"remove", "skipped"} <=> src.text = Empty
      /\ kind = "skipped" => d \notin DOMAIN x.rows
      /\ kind = "update" => SameContent(src, x.rows)
      /\ kind = "unchanged" => SameContent(src, x.rows) /\ x.rows[d].meta = x.meta
  BY <1>3, <1>7, Classified
<1>9. /\ d \in DOMAIN x.rows <=> d \in DOMAIN local
      /\ d \in DOMAIN local => local[d] = x.rows[d]
  BY DEF Overtaken
<1>10. i \in x.todo => x.plan[i] \in kept
  <2> SUFFICES ASSUME i \in x.todo, d \in lost PROVE FALSE
    BY <1>6
  <2>1. [doc |-> x.plan[i].doc, how |-> "failed"] \in more
    BY <1>1, <1>6, CommitTallied
  <2> QED
    BY <1>2, <1>6, <2>1
<1>11. i \notin x.todo => \A j \in kept : j.doc # d
  BY <1>3, <1>4
<1>12. i \in x.todo <=> kind \in {"write", "update", "remove"}
  BY <1>5, <1>6 DEF WorkOf
<1> HIDE DEF jobs, kept, after, kind
<1>13. /\ \A j \in kept :
            /\ j.kind = "write" => j.doc \in DOMAIN after /\ after[j.doc].text = j.text /\ after[j.doc].meta = x.meta
            /\ j.kind = "update" /\ j.doc \in DOMAIN local =>
                 j.doc \in DOMAIN after /\ after[j.doc].text = local[j.doc].text /\ after[j.doc].meta = x.meta
            /\ j.kind = "remove" => j.doc \notin DOMAIN after
       /\ \A e : (\A j \in kept : j.doc # e) =>
            (e \in DOMAIN after <=> e \in DOMAIN local) /\ (e \in DOMAIN local => after[e] = local[e])
  BY <1>1, <1>3, <1>4, SavedRows DEF after
<1>14. x.plan[i].kind = kind
  BY <1>5 DEF kind
<1>15. Holds(after, src, x.meta)
  <2> HIDE DEF src, x
  <2>1. CASE kind = "write"
    BY <1>6, <1>8, <1>10, <1>12, <1>13, <1>14, <2>1 DEF Holds, SameContent
  <2>2. CASE kind = "update"
    BY <1>6, <1>8, <1>9, <1>10, <1>12, <1>13, <1>14, <2>2 DEF Holds, SameContent
  <2>3. CASE kind = "remove"
    BY <1>6, <1>8, <1>10, <1>12, <1>13, <1>14, <2>3 DEF Holds
  <2>4. CASE kind = "skipped"
    BY <1>8, <1>9, <1>11, <1>12, <1>13, <2>4 DEF Holds
  <2>5. CASE kind = "unchanged"
    BY <1>8, <1>9, <1>11, <1>12, <1>13, <2>5 DEF Holds, SameContent
  <2> QED
    BY <1>8, <2>1, <2>2, <2>3, <2>4, <2>5 DEF Kinds
<1> QED
  BY <1>2, <1>15 DEF after

-----------------------------------------------------------------------------
(* The migration                                                           *)

EtlType ==
  [pc : {"idle", "hashes", "load", "done"}, docs : Seq(Extracted), rows : Store, owned : SUBSET Texts, at : Nat,
   preview : SUBSET Docs, out : SUBSET Tally]

(* The migration by itself.                                                *)
EtlShaped(x) ==
  /\ x \in EtlType
  /\ x.at \in 1 .. Len(x.docs) + 1
  /\ \A i, j \in DOMAIN x.docs : x.docs[i].doc = x.docs[j].doc => i = j
  /\ x.pc \in {"idle", "hashes"} => x.at = 1 /\ x.out = {} /\ x.owned = {}
  /\ x.pc = "load" => x.at <= Len(x.docs)
  /\ x.pc = "done" => x.at = Len(x.docs) + 1
  /\ TalliedOnce(x.docs, x.at .. Len(x.docs), x.out)
  /\ \A t \in x.out : \E i \in 1 .. x.at - 1 : t.doc = x.docs[i].doc
  /\ \A d \in x.preview : \E i \in DOMAIN x.docs : d = x.docs[i].doc

(* What the migration has read and passed over has been on the hub.        *)
EtlCovered(x, now, sn) ==
  /\ x.pc # "idle" => StoredTexts(now) \subseteq sn /\ StoredTexts(x.rows) \subseteq sn
  /\ x.owned \subseteq sn
  /\ \A i \in 1 .. x.at - 1 :
       \/ [doc |-> x.docs[i].doc, how |-> "failed"] \in x.out
       \/ x.docs[i].text \in sn
       \/ x.docs[i].doc \in DOMAIN x.rows

LoadableOf(x, i) == Insertable(x.docs[i], DOMAIN x.rows, x.owned)

(* The dry run named of the documents left the ones that can be loaded,    *)
(* each text once, and of the others the ones that were.                   *)
Announced(x) ==
  /\ \A i \in x.at .. Len(x.docs) :
       x.docs[i].doc \in x.preview <=>
         /\ LoadableOf(x, i)
         /\ \A k \in x.at .. i - 1 : LoadableOf(x, k) => x.docs[k].text # x.docs[i].text
  /\ \A i \in 1 .. x.at - 1 : x.docs[i].doc \in x.preview <=> [doc |-> x.docs[i].doc, how |-> "new"] \in x.out

(* Nothing the hub has was missed.                                         *)
Known(x, now) ==
  \A i \in x.at .. Len(x.docs) :
    /\ x.docs[i].doc \in DOMAIN now => x.docs[i].doc \in DOMAIN x.rows
    /\ x.pc # "hashes" /\ x.docs[i].text \in StoredTexts(now) => x.docs[i].text \in x.owned

Undisturbed == quiet /\ faults = 0

Migrating ==
  /\ runs \in 0 .. MaxRuns
  /\ EtlShaped(etl) /\ EtlCovered(etl, central, etlSeen)
  /\ Undisturbed /\ etl.pc # "idle" => Known(etl, central)
  /\ Undisturbed /\ etl.pc \in {"load", "done"} => Announced(etl)

LEMMA EtlFields ==
  \A x \in EtlType :
    /\ x.pc \in {"idle", "hashes", "load", "done"} /\ x.docs \in Seq(Extracted) /\ x.rows \in Store
    /\ x.owned \subseteq Texts /\ x.at \in Nat /\ x.preview \subseteq Docs /\ x.out \subseteq Tally
BY DEF EtlType

LEMMA NotRunningShaped == EtlShaped(NotRunning) /\ NotRunning.pc = "idle" /\ NotRunning.owned = {} /\ NotRunning.at = 1
<1>1. /\ NotRunning.pc = "idle" /\ NotRunning.docs = <<>> /\ NotRunning.owned = {} /\ NotRunning.at = 1
      /\ NotRunning.preview = {} /\ NotRunning.out = {}
  BY DEF NotRunning
<1>2. NotRunning \in EtlType
  <2>1. <<>> \in Store /\ <<>> \in Seq(Extracted)
    BY NoRows
  <2> QED
    BY <2>1 DEF NotRunning, EtlType
<1>3. TalliedOnce(<<>>, 1 .. Len(<<>>), {})
  BY DEF TalliedOnce
<1>4. DOMAIN <<>> = {} /\ Len(<<>>) = 0
  OBVIOUS
<1> HIDE DEF NotRunning
<1>5. /\ NotRunning.at \in 1 .. Len(NotRunning.docs) + 1
      /\ \A i, j \in DOMAIN NotRunning.docs : NotRunning.docs[i].doc = NotRunning.docs[j].doc => i = j
      /\ TalliedOnce(NotRunning.docs, NotRunning.at .. Len(NotRunning.docs), NotRunning.out)
  BY <1>1, <1>3, <1>4
<1> QED
  BY <1>1, <1>2, <1>5 DEF EtlShaped

LEMMA ExtractedDocs ==
  ASSUME NEW x, EtlShaped(x)
  PROVE  /\ Len(x.docs) \in Nat /\ DOMAIN x.docs = 1 .. Len(x.docs) /\ x.at \in 1 .. Len(x.docs) + 1 /\ x.at \in Nat
         /\ \A i \in DOMAIN x.docs :
              /\ x.docs[i].doc \in Docs /\ x.docs[i].text \in Texts /\ x.docs[i].usable \in {"all", "some", "none"}
         /\ \A i, j \in DOMAIN x.docs : x.docs[i].doc = x.docs[j].doc => i = j
<1>1. x \in EtlType /\ x.at \in 1 .. Len(x.docs) + 1
  BY DEF EtlShaped
<1>2. x.docs \in Seq(Extracted) /\ x.at \in Nat
  BY <1>1, EtlFields
<1>3. Len(x.docs) \in Nat /\ DOMAIN x.docs = 1 .. Len(x.docs) /\ \A i \in DOMAIN x.docs : x.docs[i] \in Extracted
  BY <1>2
<1>4. \A e \in Extracted : e.doc \in Docs /\ e.text \in Texts /\ e.usable \in {"all", "some", "none"}
  BY DEF Extracted
<1> QED
  BY <1>1, <1>2, <1>3, <1>4 DEF EtlShaped

(* The migration has passed one document.                                  *)
PassedOn(x, y, how, text) ==
  /\ y.at = x.at + 1 /\ y.pc = (IF x.at = Len(x.docs) THEN "done" ELSE "load")
  /\ y.docs = x.docs /\ y.rows = x.rows /\ y.preview = x.preview
  /\ y.owned = x.owned \cup text
  /\ y.out = x.out \cup {[doc |-> x.docs[x.at].doc, how |-> how]}

LEMMA TalliedShaped ==
  ASSUME EtlShaped(etl), etl.pc = "load", NEW how \in Outcomes, NEW text \in SUBSET Texts, Tallied(how, text)
  PROVE  PassedOn(etl, etl', how, text) /\ EtlShaped(etl')
<1> DEFINE x == etl y == etl' n == Len(x.docs) a == x.at t == [doc |-> x.docs[x.at].doc, how |-> how]
<1>1. /\ x \in EtlType /\ a <= n /\ TalliedOnce(x.docs, a .. n, x.out)
      /\ (\A u \in x.out : \E i \in 1 .. a - 1 : u.doc = x.docs[i].doc)
      /\ \A d \in x.preview : \E i \in DOMAIN x.docs : d = x.docs[i].doc
  BY DEF EtlShaped
<1>2. /\ n \in Nat /\ DOMAIN x.docs = 1 .. n /\ a \in 1 .. n + 1
      /\ \A i \in DOMAIN x.docs : x.docs[i].doc \in Docs
      /\ \A i, j \in DOMAIN x.docs : x.docs[i].doc = x.docs[j].doc => i = j
  BY ExtractedDocs
<1>3. a \in 1 .. n /\ a \in DOMAIN x.docs /\ x.docs[a].doc \in Docs
  BY <1>1, <1>2
<1>4. t \in Tally /\ t.doc = x.docs[a].doc
  BY <1>3, TallyMade
<1> DEFINE pc == IF a = n THEN "done" ELSE "load"
           at == a + 1
           out == x.out \cup {t}
           owned == x.owned \cup text
<1>5. etl' = [etl EXCEPT !.at = at, !.pc = pc, !.out = out, !.owned = owned]
  BY DEF Tallied
<1>6. y \in EtlType /\ PassedOn(x, y, how, text)
  <2>0. /\ pc \in {"idle", "hashes", "load", "done"} /\ at \in Nat /\ out \subseteq Tally /\ owned \subseteq Texts
    BY <1>1, <1>2, <1>4, EtlFields
  <2>1. /\ y \in EtlType
        /\ y.at = at /\ y.pc = pc /\ y.docs = x.docs /\ y.rows = x.rows /\ y.preview = x.preview
        /\ y.owned = owned /\ y.out = out
    <3> HIDE DEF at, pc, out, owned
    <3> QED
      BY <1>1, <1>5, <2>0 DEF EtlType
  <2> QED
    BY <2>1 DEF PassedOn
<1> HIDE DEF y
<1>7. /\ y.at = a + 1 /\ y.pc = (IF a = n THEN "done" ELSE "load") /\ y.docs = x.docs /\ y.preview = x.preview
      /\ y.out = x.out \cup {t}
  BY <1>6 DEF PassedOn
<1>8. TalliedOnce(x.docs, (a + 1) .. n, x.out \cup {t})
  <2>1. TalliedOnce(x.docs, (a .. n) \ {a}, x.out \cup {t})
    <3> DEFINE todo == a .. n
    <3>1. todo \in SUBSET DOMAIN x.docs /\ a \in todo /\ TalliedOnce(x.docs, todo, x.out)
      BY <1>1, <1>2, <1>3
    <3> HIDE DEF todo
    <3>2. TalliedOnce(x.docs, todo \ {a}, x.out \cup {[doc |-> x.docs[a].doc, how |-> how]})
      BY <1>2, <1>3, <3>1, TallyAdded
    <3> QED
      BY <3>2 DEF todo
  <2>2. (a .. n) \ {a} = (a + 1) .. n
    BY <1>2, <1>3
  <2> QED
    BY <2>1, <2>2
<1>9. \A u \in x.out \cup {t} : \E i \in 1 .. (a + 1) - 1 : u.doc = x.docs[i].doc
  <2>1. a \in 1 .. (a + 1) - 1 /\ \A i \in 1 .. a - 1 : i \in 1 .. (a + 1) - 1
    BY <1>3, <1>2
  <2> HIDE DEF x, t, a
  <2> QED
    BY <2>1, <1>1, <1>4
<1>10. /\ y.at \in 1 .. Len(y.docs) + 1
       /\ y.pc = "load" => y.at <= Len(y.docs)
       /\ y.pc = "done" => y.at = Len(y.docs) + 1
       /\ y.pc \notin {"idle", "hashes"}
  BY <1>2, <1>3, <1>7
<1>11. /\ TalliedOnce(y.docs, y.at .. Len(y.docs), y.out)
       /\ \A u \in y.out : \E i \in 1 .. y.at - 1 : u.doc = y.docs[i].doc
       /\ \A d \in y.preview : \E i \in DOMAIN y.docs : d = y.docs[i].doc
       /\ \A i, j \in DOMAIN y.docs : y.docs[i].doc = y.docs[j].doc => i = j
  BY <1>1, <1>2, <1>7, <1>8, <1>9
<1>12. EtlShaped(y)
  BY <1>6, <1>10, <1>11 DEF EtlShaped
<1> QED
  BY <1>6, <1>12 DEF y

LEMMA PassedCovered ==
  ASSUME NEW x, NEW y, NEW how, NEW text, EtlShaped(x), x.pc = "load", PassedOn(x, y, how, text),
         NEW now, NEW sn, EtlCovered(x, now, sn), NEW later, NEW known,
         sn \subseteq known, StoredTexts(later) \subseteq known, text \subseteq known,
         \/ how = "failed" \/ x.docs[x.at].text \in known \/ x.docs[x.at].doc \in DOMAIN x.rows
  PROVE  EtlCovered(y, later, known)
<1>1. x.at \in Nat /\ x.at >= 1
  BY ExtractedDocs
<1>2. /\ y.at = x.at + 1 /\ y.docs = x.docs /\ y.rows = x.rows /\ y.owned = x.owned \cup text
      /\ y.out = x.out \cup {[doc |-> x.docs[x.at].doc, how |-> how]}
  BY DEF PassedOn
<1>3. StoredTexts(x.rows) \subseteq known /\ x.owned \subseteq known
  BY DEF EtlCovered
<1>4. ASSUME NEW i \in 1 .. y.at - 1
      PROVE  \/ [doc |-> x.docs[i].doc, how |-> "failed"] \in y.out
             \/ x.docs[i].text \in known
             \/ x.docs[i].doc \in DOMAIN x.rows
  <2>1. CASE i = x.at
    BY <1>2, <2>1
  <2>2. CASE i # x.at
    <3>1. i \in 1 .. x.at - 1
      BY <1>1, <1>2, <1>4, <2>2
    <3> QED
      BY <1>2, <3>1 DEF EtlCovered
  <2> QED
    BY <2>1, <2>2
<1> QED
  BY <1>2, <1>3, <1>4 DEF EtlCovered

LEMMA TallyEqual ==
  \A d, e, o, p : [doc |-> d, how |-> o] = [doc |-> e, how |-> p] <=> d = e /\ o = p
<1> SUFFICES ASSUME NEW d, NEW e, NEW o, NEW p, [doc |-> d, how |-> o] = [doc |-> e, how |-> p] PROVE d = e /\ o = p
  OBVIOUS
<1>1. [doc |-> d, how |-> o].doc = [doc |-> e, how |-> p].doc /\ [doc |-> d, how |-> o].how = [doc |-> e, how |-> p].how
  OBVIOUS
<1> QED
  BY <1>1

(* The announcement stays true of a document that is passed, if it was     *)
(* inserted exactly when it could be.                                      *)
LEMMA PassedAnnounced ==
  ASSUME NEW x, NEW y, NEW how, NEW text, EtlShaped(x), x.pc = "load", PassedOn(x, y, how, text), Announced(x),
         \/ how = "new" /\ LoadableOf(x, x.at) /\ text = {x.docs[x.at].text}
         \/ how # "new" /\ ~LoadableOf(x, x.at) /\ text = {}
  PROVE  Announced(y)
<1> DEFINE a == x.at n == Len(x.docs) D(i) == x.docs[i].doc T(i) == x.docs[i].text
           New(d) == [doc |-> d, how |-> "new"]
           LX(i) == LoadableOf(x, i) LY(i) == LoadableOf(y, i)
<1>1. /\ n \in Nat /\ DOMAIN x.docs = 1 .. n /\ a \in Nat /\ a >= 1 /\ a <= n
      /\ \A i, j \in 1 .. n : D(i) = D(j) => i = j
  BY ExtractedDocs DEF EtlShaped
<1>2. /\ y.at = a + 1 /\ y.docs = x.docs /\ y.rows = x.rows /\ y.owned = x.owned \cup text /\ y.preview = x.preview
      /\ y.out = x.out \cup {[doc |-> D(a), how |-> how]}
  BY DEF PassedOn
<1>3. \A i : LY(i) <=> LX(i) /\ T(i) \notin text
  BY <1>2 DEF LoadableOf, Insertable
<1>4. /\ \A i \in a .. n : D(i) \in x.preview <=> LX(i) /\ \A k \in a .. i - 1 : LX(k) => T(k) # T(i)
      /\ \A i \in 1 .. a - 1 : D(i) \in x.preview <=> New(D(i)) \in x.out
  BY DEF Announced
<1>5. \A t \in x.out : t.doc # D(a)
  BY <1>1 DEF EtlShaped, TalliedOnce
<1>6. \A d : New(d) \in y.out <=> New(d) \in x.out \/ (d = D(a) /\ how = "new")
  BY <1>2, TallyEqual
<1>7. New(D(a)) \notin x.out
  <2>1. New(D(a)).doc = D(a)
    OBVIOUS
  <2> HIDE DEF New
  <2> QED
    BY <1>5, <2>1
<1>8. how = "new" <=> LX(a)
  OBVIOUS
<1>9. LX(a) => text = {T(a)}
  OBVIOUS
<1>10. ~LX(a) => text = {}
  OBVIOUS
<1>13. Announced(y) <=>
         /\ \A i \in y.at .. Len(y.docs) : y.docs[i].doc \in y.preview <=>
              LY(i) /\ \A k \in y.at .. i - 1 : LY(k) => y.docs[k].text # y.docs[i].text
         /\ \A i \in 1 .. y.at - 1 : y.docs[i].doc \in y.preview <=> New(y.docs[i].doc) \in y.out
  BY DEF Announced
<1> HIDE DEF a, n, D, T, New, LX, LY
<1>11. ASSUME NEW i \in a + 1 .. n
       PROVE  D(i) \in x.preview <=> LY(i) /\ \A k \in a + 1 .. i - 1 : LY(k) => T(k) # T(i)
  <2>1. D(i) \in x.preview <=> LX(i) /\ \A k \in a .. i - 1 : LX(k) => T(k) # T(i)
    BY <1>1, <1>4
  <2>2. \A k : k \in a .. i - 1 <=> k = a \/ k \in a + 1 .. i - 1
    BY <1>1, <1>11
  <2>3. CASE LX(a)
    BY <1>3, <1>9, <2>1, <2>2, <2>3
  <2>4. CASE ~LX(a)
    BY <1>3, <1>10, <2>1, <2>2, <2>4
  <2> QED
    BY <2>3, <2>4
<1>12. ASSUME NEW i \in 1 .. a
       PROVE  D(i) \in x.preview <=> New(D(i)) \in y.out
  <2>1. CASE i = a
    <3>1. a .. a - 1 = {} /\ a \in a .. n
      BY <1>1
    <3>2. D(a) \in x.preview <=> LX(a)
      BY <1>4, <3>1
    <3> QED
      BY <1>6, <1>7, <1>8, <2>1, <3>2
  <2>2. CASE i # a
    <3>1. i \in 1 .. a - 1 /\ i \in 1 .. n /\ a \in 1 .. n
      BY <1>1, <2>2
    <3>2. D(i) # D(a)
      BY <1>1, <2>2, <3>1
    <3> QED
      BY <1>4, <1>6, <3>1, <3>2
  <2> QED
    BY <2>1, <2>2
<1>14. y.at = a + 1 /\ Len(y.docs) = n /\ y.preview = x.preview /\ y.at - 1 = a
  BY <1>1, <1>2 DEF n
<1>15. \A i : y.docs[i].doc = D(i) /\ y.docs[i].text = T(i)
  BY <1>2 DEF D, T
<1> QED
  BY <1>11, <1>12, <1>13, <1>14, <1>15

LEMMA PassedKnown ==
  ASSUME NEW x, NEW y, NEW how, NEW text, EtlShaped(x), x.pc = "load", PassedOn(x, y, how, text),
         NEW now, Known(x, now), NEW later,
         \A i \in DOMAIN x.docs : x.docs[i].doc \in DOMAIN later => x.docs[i].doc \in DOMAIN now \/ i = x.at,
         StoredTexts(later) \subseteq StoredTexts(now) \cup text
  PROVE  Known(y, later)
<1>1. /\ Len(x.docs) \in Nat /\ DOMAIN x.docs = 1 .. Len(x.docs) /\ x.at \in Nat /\ x.at >= 1
  BY ExtractedDocs
<1>2. y.at = x.at + 1 /\ y.docs = x.docs /\ y.rows = x.rows /\ y.owned = x.owned \cup text
  BY DEF PassedOn
<1>3. ASSUME NEW i \in y.at .. Len(y.docs)
      PROVE  /\ x.docs[i].doc \in DOMAIN later => x.docs[i].doc \in DOMAIN x.rows
             /\ x.docs[i].text \in StoredTexts(later) => x.docs[i].text \in x.owned \cup text
  <2>1. i \in x.at .. Len(x.docs) /\ i # x.at /\ i \in DOMAIN x.docs
    BY <1>1, <1>2, <1>3
  <2> QED
    BY <2>1 DEF Known
<1> QED
  BY <1>2, <1>3 DEF Known

LEMMA PassStep ==
  ASSUME Migrating, etl.pc = "load", NEW how \in Outcomes, NEW text \in SUBSET Texts, Tallied(how, text), UNCHANGED runs,
         etlSeen \subseteq etlSeen', StoredTexts(central') \subseteq etlSeen', text \subseteq etlSeen',
         \/ how = "failed" \/ etl.docs[etl.at].text \in etlSeen' \/ etl.docs[etl.at].doc \in DOMAIN etl.rows,
         Undisturbed' =>
           /\ Undisturbed
           /\ \/ how = "new" /\ LoadableOf(etl, etl.at) /\ text = {etl.docs[etl.at].text}
              \/ how # "new" /\ ~LoadableOf(etl, etl.at) /\ text = {}
           /\ \A i \in DOMAIN etl.docs :
                etl.docs[i].doc \in DOMAIN central' => etl.docs[i].doc \in DOMAIN central \/ i = etl.at
           /\ StoredTexts(central') \subseteq StoredTexts(central) \cup text
  PROVE  Migrating'
<1>1. EtlShaped(etl) /\ EtlCovered(etl, central, etlSeen) /\ runs \in 0 .. MaxRuns
  BY DEF Migrating
<1>2. PassedOn(etl, etl', how, text) /\ EtlShaped(etl')
  BY <1>1, TalliedShaped
<1>3. EtlCovered(etl', central', etlSeen')
  BY <1>1, <1>2, PassedCovered
<1>4. Undisturbed' => Known(etl, central) /\ Announced(etl)
  BY DEF Migrating
<1>5. Undisturbed' => Known(etl', central')
  BY <1>1, <1>2, <1>4, PassedKnown
<1>6. Undisturbed' => Announced(etl')
  BY <1>1, <1>2, <1>4, PassedAnnounced
<1> QED
  BY <1>1, <1>2, <1>3, <1>5, <1>6 DEF Migrating

LEMMA SkipOrRejectStep ==
  ASSUME Migrating, SkipOrReject
  PROVE  Migrating'
<1> DEFINE x == etl.docs[etl.at]
<1>1. /\ etl.pc = "load" /\ UNCHANGED <<central, faults, runs, etlSeen, quiet>>
      /\ \/ (x.doc \in DOMAIN etl.rows \/ x.text \in etl.owned) /\ Tallied("skipped", {})
         \/ ~(x.doc \in DOMAIN etl.rows \/ x.text \in etl.owned) /\ Invalid(x) /\ Tallied("failed", {})
  BY DEF SkipOrReject, Loading, centralVars
<1>2. ~LoadableOf(etl, etl.at)
  BY <1>1 DEF LoadableOf, Insertable
<1>3. EtlCovered(etl, central, etlSeen)
  BY DEF Migrating
<1>4. StoredTexts(central') \subseteq etlSeen' /\ etlSeen \subseteq etlSeen' /\ etl.owned \subseteq etlSeen'
  BY <1>1, <1>3 DEF EtlCovered
<1>5. Undisturbed' => Undisturbed
  BY <1>1 DEF Undisturbed
<1>6. "skipped" \in Outcomes /\ "failed" \in Outcomes /\ {} \in SUBSET Texts
  BY DEF Outcomes
<1>7. /\ \A i \in DOMAIN etl.docs :
           etl.docs[i].doc \in DOMAIN central' => etl.docs[i].doc \in DOMAIN central \/ i = etl.at
      /\ StoredTexts(central') \subseteq StoredTexts(central) \cup {}
  BY <1>1
<1>8. CASE (x.doc \in DOMAIN etl.rows \/ x.text \in etl.owned) /\ Tallied("skipped", {})
  <2>1. x.text \in etlSeen' \/ x.doc \in DOMAIN etl.rows
    BY <1>4, <1>8
  <2> QED
    BY <1>1, <1>2, <1>4, <1>5, <1>6, <1>7, <1>8, <2>1, PassStep
<1>9. CASE Tallied("failed", {})
  BY <1>1, <1>2, <1>4, <1>5, <1>6, <1>7, <1>9, PassStep
<1> QED
  BY <1>1, <1>8, <1>9

(* The row the migration inserts.                                          *)
Loaded ==
  LET x == etl.docs[etl.at] IN Put(central, x.doc, [text |-> x.text, meta |-> EtlMeta, usable |-> x.usable])

LEMMA LoadedRow ==
  ASSUME Requests, Migrating, etl.pc = "load", Clashing(etl.docs[etl.at]) = {}
  PROVE  /\ Loaded \in Store /\ DOMAIN Loaded = DOMAIN central \cup {etl.docs[etl.at].doc}
         /\ \A d \in DOMAIN central : Loaded[d] = central[d]
         /\ StoredTexts(Loaded) \subseteq StoredTexts(central) \cup {etl.docs[etl.at].text}
         /\ etl.docs[etl.at].text \in Texts
<1> DEFINE x == etl.docs[etl.at] d == x.doc t == x.text
           row == [text |-> x.text, meta |-> EtlMeta, usable |-> x.usable]
<1>1. central \in Store /\ EtlShaped(etl)
  BY DEF Requests, Migrating
<1>2. etl.at \in DOMAIN etl.docs
  BY <1>1, ExtractedDocs DEF EtlShaped
<1>3. d \in Docs /\ t \in Texts /\ x.usable \in {"all", "some", "none"}
  BY <1>1, <1>2, ExtractedDocs
<1>4. row \in Row
  BY <1>3, RowMade
<1>5. row.text = t
  OBVIOUS
<1>6. d \notin DOMAIN central
  BY DEF Clashing
<1>7. Loaded = Put(central, d, row)
  BY DEF Loaded
<1> HIDE DEF x, d, t, row
<1>8. d \in Docs /\ row \in Row /\ central \in Store
  BY <1>1, <1>3, <1>4
<1>9. Put(central, d, row) \in Store /\ DOMAIN Put(central, d, row) = DOMAIN central \cup {d}
  BY <1>8, PutRow
<1>10. \A e \in DOMAIN central : e # d => Put(central, d, row)[e] = central[e]
  BY <1>8 DEF Put
<1>11. StoredTexts(Put(central, d, row)) \subseteq StoredTexts(central) \cup {row.text}
  BY <1>8, PutRow
<1>12. /\ Loaded \in Store /\ DOMAIN Loaded = DOMAIN central \cup {d}
       /\ \A e \in DOMAIN central : Loaded[e] = central[e]
       /\ StoredTexts(Loaded) \subseteq StoredTexts(central) \cup {t}
       /\ t \in Texts
  BY <1>3, <1>5, <1>6, <1>7, <1>9, <1>10, <1>11
<1> QED
  BY <1>12 DEF x, d, t

LEMMA LoadStep ==
  ASSUME Requests, Migrating, LoadDocument
  PROVE  Requests' /\ Migrating'
<1> DEFINE x == etl.docs[etl.at]
           rows == Loaded
<1>1. etl.pc = "load" /\ Loadable(x) /\ UNCHANGED <<req, requests, runs, quiet>>
  BY DEF LoadDocument, Loading
<1>2. /\ central \in Store /\ faults \in 0 .. MaxFaults /\ requests \in 0 .. MaxRequests
      /\ req = [g \in Handlers |-> req[g]] /\ \A g \in Handlers : req[g].held \subseteq DOMAIN central
  BY DEF Requests, Backed
<1>3. LoadableOf(etl, etl.at)
  BY <1>1 DEF Loadable, LoadableOf
<1>4. EtlCovered(etl, central, etlSeen) /\ EtlShaped(etl)
  BY DEF Migrating
<1>5. StoredTexts(central) \subseteq etlSeen
  BY <1>1, <1>4 DEF EtlCovered
<1>6. "new" \in Outcomes /\ "failed" \in Outcomes /\ {} \in SUBSET Texts
  BY DEF Outcomes
<1>7. CASE /\ Clashing(x) = {} /\ Commit(rows) /\ etlSeen' = etlSeen \cup {x.text} /\ Tallied("new", {x.text})
           /\ UNCHANGED faults
  <2>1. /\ rows \in Store /\ DOMAIN rows = DOMAIN central \cup {x.doc}
        /\ StoredTexts(rows) \subseteq StoredTexts(central) \cup {x.text} /\ x.text \in Texts
    BY <1>1, <1>7, LoadedRow
  <2> DEFINE H == {}
  <2>2. /\ H \in SUBSET Handlers /\ (\A g \in Handlers \ H : req'[g] = req[g] /\ req[g].held \subseteq DOMAIN rows)
        /\ \A g \in H : Shaped(req'[g]) /\ Backed(req'[g], rows, seen'[g])
    BY <1>1, <1>2, <2>1
  <2>3. central' = rows
    BY <1>7 DEF Commit
  <2>4. /\ req' = [g \in Handlers |-> req'[g]] /\ requests' \in 0 .. MaxRequests /\ faults' \in 0 .. MaxFaults
    BY <1>1, <1>2, <1>7
  <2>5. \A i \in DOMAIN etl.docs : etl.docs[i].doc = x.doc => i = etl.at
    BY <1>1, <1>4, ExtractedDocs DEF EtlShaped
  <2>6. Undisturbed' => Undisturbed
    BY <1>1, <1>7 DEF Undisturbed
  <2> DEFINE text == {x.text}
  <2>7. text \in SUBSET Texts /\ text \subseteq etlSeen' /\ etlSeen \subseteq etlSeen' /\ x.text \in etlSeen'
    BY <1>7, <2>1
  <2>8. text = {etl.docs[etl.at].text}
    OBVIOUS
  <2> HIDE DEF rows, H
  <2>9. Requests'
    BY <1>7, <2>1, <2>2, <2>4, StepCommits
  <2>10. /\ \A i \in DOMAIN etl.docs :
              etl.docs[i].doc \in DOMAIN central' => etl.docs[i].doc \in DOMAIN central \/ i = etl.at
         /\ StoredTexts(central') \subseteq StoredTexts(central) \cup text
         /\ StoredTexts(central') \subseteq etlSeen'
    BY <1>5, <1>7, <2>1, <2>3, <2>5
  <2>11. Tallied("new", text)
    BY <1>7
  <2> HIDE DEF text
  <2>12. Migrating'
    BY <1>1, <1>3, <1>6, <2>6, <2>7, <2>8, <2>10, <2>11, PassStep
  <2> QED
    BY <2>9, <2>12
<1>8. CASE /\ Clashing(x) \ AllLocked # {} /\ Tallied("failed", {}) /\ UNCHANGED <<central, seen, etlSeen, faults>>
  <2>1. Requests'
    BY <1>1, <1>8 DEF Requests
  <2>2. ~Undisturbed
    <3> SUFFICES ASSUME Undisturbed PROVE FALSE
      OBVIOUS
    <3>1. Known(etl, central)
      BY <1>1 DEF Migrating
    <3>2. etl.at \in etl.at .. Len(etl.docs)
      BY <1>1, <1>4, ExtractedDocs DEF EtlShaped
    <3>3. /\ x.doc \in DOMAIN central => x.doc \in DOMAIN etl.rows
          /\ x.text \in StoredTexts(central) => x.text \in etl.owned
      BY <1>1, <3>1, <3>2 DEF Known
    <3>4. x.doc \notin DOMAIN etl.rows /\ x.text \notin etl.owned
      BY <1>3 DEF LoadableOf, Insertable
    <3> QED
      BY <1>8, <3>3, <3>4 DEF Clashing, StoredTexts
  <2>3. ~Undisturbed'
    BY <1>1, <1>8, <2>2 DEF Undisturbed
  <2>4. StoredTexts(central') \subseteq etlSeen' /\ etlSeen \subseteq etlSeen'
    BY <1>5, <1>8
  <2>5. Migrating'
    BY <1>1, <1>6, <1>8, <2>3, <2>4, PassStep
  <2> QED
    BY <2>1, <2>5
<1>9. CASE /\ faults < MaxFaults /\ faults' = faults + 1 /\ Tallied("failed", {}) /\ UNCHANGED <<central, seen, etlSeen>>
  <2>1. faults' \in 0 .. MaxFaults /\ faults' # 0
    BY <1>2, <1>9, CentralAssumption
  <2>2. Requests'
    BY <1>1, <1>9, <2>1 DEF Requests
  <2>3. ~Undisturbed'
    BY <2>1 DEF Undisturbed
  <2>4. StoredTexts(central') \subseteq etlSeen' /\ etlSeen \subseteq etlSeen'
    BY <1>5, <1>9
  <2>5. Migrating'
    BY <1>1, <1>6, <1>9, <2>3, <2>4, PassStep
  <2> QED
    BY <2>2, <2>5
<1> QED
  BY <1>7, <1>8, <1>9 DEF LoadDocument, Loaded

LEMMA ReportStep ==
  ASSUME Migrating, Report
  PROVE  Migrating'
<1>1. etl' = NotRunning /\ etlSeen' = {} /\ UNCHANGED <<central, runs>> /\ runs \in 0 .. MaxRuns
  BY DEF Report, Migrating, centralVars
<1>2. EtlShaped(etl') /\ etl'.pc = "idle" /\ etl'.owned = {} /\ etl'.at = 1
  BY <1>1, NotRunningShaped
<1>3. EtlCovered(etl', central', etlSeen')
  BY <1>2 DEF EtlCovered
<1> QED
  BY <1>1, <1>2, <1>3 DEF Migrating

(* The backup: every document of the local store once, as it was.          *)
LEMMA BackupTaken ==
  ASSUME local \in Store, NEW order \in SetToSeqs(DOMAIN local)
  PROVE  /\ BackupCopy(order) \in Seq(Extracted)
         /\ \A i \in DOMAIN BackupCopy(order) : BackupCopy(order)[i].doc \in DOMAIN local
         /\ \A i, j \in DOMAIN BackupCopy(order) : BackupCopy(order)[i].doc = BackupCopy(order)[j].doc => i = j
<1> DEFINE n == Cardinality(DOMAIN local) docs == BackupCopy(order)
           Copy(i) == [doc |-> order[i], text |-> local[order[i]].text, usable |-> local[order[i]].usable]
<1>1. n \in Nat
  BY StoreShape, MemoryAssumption, FS_Subset, FS_CardinalityType
<1>2. order \in [1 .. n -> DOMAIN local] /\ \A i, j \in 1 .. n : i # j => order[i] # order[j]
  BY DEF SetToSeqs
<1>3. docs = [i \in 1 .. n |-> Copy(i)]
  BY <1>2 DEF BackupCopy
<1>4. ASSUME NEW i \in 1 .. n PROVE Copy(i) \in Extracted /\ Copy(i).doc = order[i]
  <2>1. order[i] \in DOMAIN local
    BY <1>2
  <2>2. order[i] \in Docs /\ local[order[i]] \in Row
    BY <2>1, TextsStored
  <2>3. local[order[i]].text \in Texts /\ local[order[i]].usable \in {"all", "some", "none"}
    BY <2>2, RowFields
  <2> QED
    BY <2>2, <2>3 DEF Extracted
<1> HIDE DEF Copy, docs, n
<1>5. docs \in Seq(Extracted) /\ DOMAIN docs = 1 .. n /\ \A i \in 1 .. n : docs[i] = Copy(i)
  BY <1>1, <1>3, <1>4
<1>6. \A i \in 1 .. n : docs[i].doc = order[i] /\ order[i] \in DOMAIN local
  BY <1>2, <1>4, <1>5
<1> QED
  BY <1>2, <1>5, <1>6 DEF docs

Begun(docs, rows) == [NotRunning EXCEPT !.pc = "hashes", !.docs = docs, !.rows = rows]

LEMMA BegunFields ==
  ASSUME NEW docs \in Seq(Extracted), NEW rows \in Store
  PROVE  LET z == Begun(docs, rows)
         IN /\ z \in EtlType
            /\ z.pc = "hashes" /\ z.docs = docs /\ z.rows = rows /\ z.owned = {} /\ z.at = 1 /\ z.preview = {} /\ z.out = {}
<1>1. NotRunning \in EtlType /\ NotRunning.owned = {} /\ NotRunning.at = 1 /\ NotRunning.preview = {} /\ NotRunning.out = {}
  BY NotRunningShaped DEF EtlShaped, NotRunning
<1> HIDE DEF NotRunning
<1> QED
  BY <1>1 DEF EtlType, Begun

LEMMA ExtractStep ==
  ASSUME central \in Store, local \in Store, Migrating, Extract
  PROVE  Migrating'
<1>1. PICK order \in SetToSeqs(DOMAIN local) :
        etl' = Begun(BackupCopy(order), Restrict(central, DOMAIN local \cap DOMAIN central))
  BY DEF Extract, Begun
<1>2. /\ runs < MaxRuns /\ runs' = runs + 1 /\ etlSeen' = StoredTexts(central) /\ UNCHANGED central
  BY DEF Extract, centralVars
<1> DEFINE docs == BackupCopy(order) rows == Restrict(central, DOMAIN local \cap DOMAIN central) y == etl'
<1>3. /\ docs \in Seq(Extracted) /\ (\A i \in DOMAIN docs : docs[i].doc \in DOMAIN local)
      /\ \A i, j \in DOMAIN docs : docs[i].doc = docs[j].doc => i = j
  BY BackupTaken
<1>4. /\ rows \in Store /\ DOMAIN rows = DOMAIN local \cap DOMAIN central
      /\ StoredTexts(rows) \subseteq StoredTexts(central)
  BY RestrictRows
<1> HIDE DEF docs, rows
<1>5. /\ y \in EtlType /\ y.pc = "hashes" /\ y.docs = docs /\ y.rows = rows /\ y.owned = {} /\ y.at = 1
      /\ y.preview = {} /\ y.out = {}
  <2>1. y = Begun(docs, rows)
    BY <1>1 DEF docs, rows
  <2> HIDE DEF y
  <2> QED
    BY <1>3, <1>4, <2>1, BegunFields
<1>6. Len(docs) \in Nat /\ DOMAIN docs = 1 .. Len(docs)
  BY <1>3
<1>7. TalliedOnce(docs, 1 .. Len(docs), {})
  BY <1>6 DEF TalliedOnce
<1> HIDE DEF y
<1>8. EtlShaped(y)
  BY <1>3, <1>5, <1>6, <1>7 DEF EtlShaped
<1>9. EtlCovered(y, central, StoredTexts(central))
  BY <1>4, <1>5 DEF EtlCovered
<1>10. Known(y, central)
  BY <1>3, <1>4, <1>5, <1>6 DEF Known
<1>11. runs' \in 0 .. MaxRuns
  BY <1>2, EtlAssumption DEF Migrating
<1> QED
  BY <1>2, <1>5, <1>8, <1>9, <1>10, <1>11 DEF Migrating, y

LEMMA PreloadByHashStep ==
  ASSUME central \in Store, Migrating, PreloadByHash
  PROVE  Migrating'
<1> DEFINE x == etl y == etl'
           owned == StoredTexts(x.rows) \cup (StoredTexts(central) \cap TextsOf(x.docs))
           pc == IF x.docs = <<>> THEN "done" ELSE "load"
           preview == Preview(x.docs, DOMAIN x.rows, owned)
           n == Len(x.docs)
<1>1. /\ x.pc = "hashes" /\ UNCHANGED <<central, faults, runs, etlSeen, quiet>>
      /\ etl' = [etl EXCEPT !.pc = pc, !.owned = owned, !.preview = preview]
  BY DEF PreloadByHash, centralVars
<1>2. EtlShaped(x) /\ EtlCovered(x, central, etlSeen) /\ runs \in 0 .. MaxRuns
  BY DEF Migrating
<1>3. x \in EtlType /\ x.at = 1 /\ x.out = {}
  BY <1>1, <1>2 DEF EtlShaped
<1>4. /\ n \in Nat /\ DOMAIN x.docs = 1 .. n
      /\ \A i \in 1 .. n : x.docs[i].doc \in Docs /\ x.docs[i].text \in Texts
      /\ \A i, j \in 1 .. n : x.docs[i].doc = x.docs[j].doc => i = j
  BY <1>2, ExtractedDocs
<1>5. x.rows \in Store /\ x.docs \in Seq(Extracted)
  BY <1>3, EtlFields
<1>6. owned \subseteq Texts /\ owned \subseteq etlSeen
  <2>1. StoredTexts(x.rows) \subseteq Texts /\ StoredTexts(central) \subseteq Texts
    BY <1>5, TextsStored
  <2>2. StoredTexts(x.rows) \subseteq etlSeen /\ StoredTexts(central) \subseteq etlSeen
    BY <1>1, <1>2 DEF EtlCovered
  <2> QED
    BY <2>1, <2>2
<1>7. \A i \in 1 .. n : x.docs[i].text \in StoredTexts(central) => x.docs[i].text \in owned
  BY <1>4, MemoryAssumption DEF TextsOf
<1> HIDE DEF owned
<1>8. \A d : d \in preview <=> \E i \in 1 .. n :
               /\ d = x.docs[i].doc /\ Insertable(x.docs[i], DOMAIN x.rows, owned)
               /\ \A k \in 1 .. i - 1 : Insertable(x.docs[k], DOMAIN x.rows, owned) => x.docs[k].text # x.docs[i].text
  BY <1>4 DEF Preview
<1>9. preview \subseteq Docs
  BY <1>4, <1>8
<1> HIDE DEF preview
<1>10. pc \in {"load", "done"} /\ (pc = "load" => n >= 1) /\ (pc = "done" => n = 0)
  BY <1>5
<1> HIDE DEF pc
<1>11. /\ y \in EtlType /\ y.pc = pc /\ y.owned = owned /\ y.preview = preview
       /\ y.docs = x.docs /\ y.rows = x.rows /\ y.at = x.at /\ y.out = x.out
  BY <1>1, <1>3, <1>6, <1>9, <1>10 DEF EtlType
<1> HIDE DEF x, y
<1>12. EtlShaped(y)
  <2>1. /\ TalliedOnce(x.docs, x.at .. Len(x.docs), x.out)
        /\ \A i, j \in DOMAIN x.docs : x.docs[i].doc = x.docs[j].doc => i = j
    BY <1>2 DEF EtlShaped
  <2>2. \A d \in y.preview : \E i \in DOMAIN y.docs : d = y.docs[i].doc
    BY <1>4, <1>8, <1>11
  <2>3. /\ y.at \in 1 .. Len(y.docs) + 1 /\ (y.pc = "load" => y.at <= Len(y.docs))
        /\ (y.pc = "done" => y.at = Len(y.docs) + 1)
    BY <1>3, <1>4, <1>10, <1>11
  <2> QED
    BY <1>3, <1>10, <1>11, <2>1, <2>2, <2>3 DEF EtlShaped
<1>13. EtlCovered(y, central, etlSeen)
  BY <1>1, <1>2, <1>3, <1>6, <1>11 DEF EtlCovered
<1>14. Undisturbed => Known(y, central)
  <2>1. Undisturbed => Known(x, central)
    BY <1>1 DEF Migrating, x
  <2> QED
    BY <1>1, <1>3, <1>7, <1>11, <2>1 DEF Known
<1>15. Announced(y)
  <2> DEFINE L(i) == LoadableOf(y, i) D(i) == y.docs[i].doc T(i) == y.docs[i].text
             P(i) == L(i) /\ \A k \in 1 .. i - 1 : L(k) => T(k) # T(i)
  <2>1. \A d : d \in y.preview <=> \E i \in 1 .. n : d = D(i) /\ P(i)
    BY <1>8, <1>11 DEF LoadableOf
  <2>2. \A i, j \in 1 .. n : D(i) = D(j) => i = j
    BY <1>4, <1>11
  <2>3. Len(y.docs) = n /\ y.at = 1
    BY <1>3, <1>11
  <2>4. Announced(y) <=>
          /\ \A i \in y.at .. Len(y.docs) : D(i) \in y.preview <=> L(i) /\ \A k \in y.at .. i - 1 : L(k) => T(k) # T(i)
          /\ \A i \in 1 .. y.at - 1 : D(i) \in y.preview <=> [doc |-> D(i), how |-> "new"] \in y.out
    BY DEF Announced
  <2> HIDE DEF L, D, T, n
  <2>5. \A i \in 1 .. n : D(i) \in y.preview <=> P(i)
    <3> HIDE DEF P
    <3> QED
      BY <2>1, <2>2
  <2>6. 1 .. y.at - 1 = {}
    BY <2>3
  <2> QED
    BY <2>3, <2>4, <2>5, <2>6
<1>16. Undisturbed' = Undisturbed
  BY <1>1 DEF Undisturbed
<1> QED
  BY <1>1, <1>2, <1>12, <1>13, <1>14, <1>15, <1>16 DEF Migrating, y

LEMMA FaultsGrow ==
  ASSUME CentralNext
  PROVE  faults' = faults \/ faults' = faults + 1
<1>1. PICK h \in Handlers : Work(h) \/ \E b \in Batches, m \in Metas : Receive(h, b, m)
  BY DEF CentralNext
<1>2. CASE \E b \in Batches, m \in Metas : Receive(h, b, m)
  BY <1>2 DEF Receive
<1>3. CASE Preload(h)
  BY <1>3 DEF Preload, EmbedFails
<1>4. CASE DeleteDocument(h) \/ InsertDocument(h) \/ IntegrityError(h) \/ DeadlockVictim(h)
  BY <1>4 DEF DeleteDocument, InsertDocument, IntegrityError, DeadlockVictim
<1>5. CASE UpdateDocumentMetadata(h) \/ RemoveDocument(h) \/ DocumentFails(h) \/ Answer(h)
  BY <1>5 DEF UpdateDocumentMetadata, RemoveDocument, DocumentFails, Answer
<1> QED
  BY <1>1, <1>2, <1>3, <1>4, <1>5 DEF Work

(* Requests beside a migration.                                            *)
LEMMA BesideStep ==
  ASSUME Requests, Migrating, Central
  PROVE  Migrating'
<1>1. /\ CentralNext /\ UNCHANGED <<etl, runs>>
      /\ quiet' = (etl.pc = "idle" \/ (quiet /\ central' = central))
      /\ etlSeen' = IF etl.pc = "idle" THEN {} ELSE etlSeen \cup StoredTexts(central')
  BY DEF Central
<1>2. runs \in 0 .. MaxRuns /\ EtlShaped(etl) /\ EtlCovered(etl, central, etlSeen)
  BY DEF Migrating
<1>3. EtlCovered(etl, central', etlSeen')
  <2>1. CASE etl.pc = "idle"
    <3>1. etl.owned = {} /\ etl.at = 1
      BY <1>2, <2>1 DEF EtlShaped
    <3> QED
      BY <2>1, <3>1 DEF EtlCovered
  <2>2. CASE etl.pc # "idle"
    <3>1. etlSeen \subseteq etlSeen' /\ StoredTexts(central') \subseteq etlSeen'
      BY <1>1, <2>2
    <3> QED
      BY <1>2, <2>2, <3>1 DEF EtlCovered
  <2> QED
    BY <2>1, <2>2
<1>4. faults \in Nat /\ (faults' = 0 => faults = 0)
  BY <1>1, FaultsGrow DEF Requests
<1>5. Undisturbed' /\ etl.pc # "idle" => Undisturbed /\ central' = central
  BY <1>1, <1>4 DEF Undisturbed
<1> QED
  BY <1>1, <1>2, <1>3, <1>5 DEF Migrating

-----------------------------------------------------------------------------
(* The invariant                                                           *)

Inv == Requests /\ Ingests /\ Migrating

LEMMA RequestsKept ==
  ASSUME Requests, UNCHANGED centralVars
  PROVE  Requests'
BY DEF Requests, centralVars

LEMMA IngestsKept ==
  ASSUME Ingests, UNCHANGED localVars
  PROVE  Ingests'
BY DEF Ingests, Busy, localVars

LEMMA MigratingKept ==
  ASSUME Migrating, UNCHANGED <<centralVars, etlVars>>
  PROVE  Migrating'
BY DEF Migrating, Undisturbed, centralVars, etlVars

LEMMA InvInit == Init => Inv
<1> SUFFICES ASSUME Init PROVE Inv
  OBVIOUS
<1>1. LocalInit /\ CentralInit /\ etl = NotRunning /\ runs = 0 /\ etlSeen = {}
  BY DEF Init
<1>2. EtlShaped(etl) /\ etl.pc = "idle" /\ etl.owned = {} /\ etl.at = 1
  BY <1>1, NotRunningShaped
<1>3. EtlCovered(etl, central, etlSeen)
  BY <1>2 DEF EtlCovered
<1>4. Migrating
  BY <1>1, <1>2, <1>3, EtlAssumption DEF Migrating
<1> QED
  BY <1>1, <1>4, RequestsInit, IngestsInit DEF Inv

LEMMA InvStep ==
  ASSUME Inv, [Next]_vars
  PROVE  Inv'
<1>1. Requests /\ Ingests /\ Migrating
  BY DEF Inv
<1>2. CASE Local
  <2>1. LocalNext /\ UNCHANGED <<centralVars, etlVars>>
    BY <1>2 DEF Local
  <2> QED
    BY <1>1, <2>1, LocalStep, RequestsKept, MigratingKept DEF Inv
<1>3. CASE Central
  <2>1. CentralNext /\ UNCHANGED localVars
    BY <1>3 DEF Central
  <2> QED
    BY <1>1, <1>3, <2>1, CentralStep, IngestsKept, BesideStep DEF Inv
<1>4. CASE Extract \/ PreloadByHash \/ SkipOrReject \/ Report
  <2>1. UNCHANGED <<localVars, centralVars>>
    BY <1>4 DEF Extract, PreloadByHash, SkipOrReject, Report
  <2>2. Requests' /\ Ingests'
    BY <1>1, <2>1, RequestsKept, IngestsKept
  <2>3. central \in Store /\ local \in Store
    BY <1>1 DEF Requests, Ingests
  <2>4. Migrating'
    BY <1>1, <1>4, <2>3, ExtractStep, PreloadByHashStep, SkipOrRejectStep, ReportStep
  <2> QED
    BY <2>2, <2>4 DEF Inv
<1>5. CASE LoadDocument
  <2>1. UNCHANGED localVars
    BY <1>5 DEF LoadDocument
  <2> QED
    BY <1>1, <1>5, <2>1, LoadStep, IngestsKept DEF Inv
<1>6. CASE UNCHANGED vars
  <2>1. UNCHANGED <<localVars, centralVars, etlVars>>
    BY <1>6 DEF vars
  <2> QED
    BY <1>1, <2>1, RequestsKept, IngestsKept, MigratingKept DEF Inv
<1> QED
  BY <1>2, <1>3, <1>4, <1>5, <1>6 DEF Next, EtlNext

LEMMA InvHolds == Spec => []Inv
<1>1. Inv /\ [Next]_vars => Inv'
  BY InvStep
<1> QED
  BY <1>1, InvInit, PTL DEF Spec

-----------------------------------------------------------------------------
(* Theorems                                                                *)

LEMMA InvTypes == Inv => TypeOK
<1> SUFFICES ASSUME Inv PROVE TypeOK
  OBVIOUS
<1>1. Requests /\ Ingests /\ Migrating
  BY DEF Inv
<1>2. CentralTypeOK
  <2>1. ASSUME NEW h \in Handlers
        PROVE  /\ req[h] \in ReqType /\ req[h].todo \subseteq DOMAIN req[h].plan
               /\ req[h].held \subseteq DOMAIN central /\ seen[h] \subseteq Texts
    BY <1>1 DEF Requests, Shaped, Backed
  <2> QED
    BY <1>1, <2>1, ReqFields DEF CentralTypeOK, Requests
<1>3. LocalTypeOK
  <2>1. Cardinality(Busy) \in Nat
    BY <1>1, FS_CardinalityType DEF Ingests
  <2>2. version \in Nat /\ ingests \in 0 .. MaxIngests /\ version + Cardinality(Busy) <= ingests
    BY <1>1 DEF Ingests
  <2>3. version \in 0 .. MaxIngests /\ 0 .. version \subseteq 0 .. MaxIngests
    BY <2>1, <2>2, LocalAssumption
  <2>4. ASSUME NEW s \in Servers
        PROVE  srv[s] \in SrvType /\ srv[s].todo \subseteq DOMAIN srv[s].plan /\ srv[s].snap \subseteq 0 .. version
    BY <1>1 DEF Ingests, IngestShaped
  <2>5. local \in Store
    BY <1>1 DEF Ingests
  <2> QED
    BY <2>2, <2>3, <2>4, <2>5, SrvFields DEF LocalTypeOK
<1>4. etl \in EtlType /\ etl.at \in 1 .. Len(etl.docs) + 1 /\ runs \in 0 .. MaxRuns
  BY <1>1 DEF Migrating, EtlShaped
<1> QED
  BY <1>2, <1>3, <1>4, EtlFields DEF TypeOK

LEMMA InvAccounts == Inv => Accounts
<1> SUFFICES ASSUME Inv PROVE Accounts
  OBVIOUS
<1>1. Requests /\ Ingests /\ Migrating
  BY DEF Inv
<1>2. ASSUME NEW h \in Handlers, req[h].pc = "done", NEW d \in DocsOf(req[h].batch)
      PROVE  Cardinality({t \in req[h].out : t.doc = d}) = 1
  <2>1. /\ req[h].batch \in Batches /\ Fits(req[h].plan, req[h].batch)
        /\ TalliedOnce(req[h].plan, {}, req[h].out)
    BY <1>1, <1>2 DEF Requests, Shaped, Planned
  <2> QED
    BY <1>2, <2>1, TallyComplete
<1>3. ASSUME NEW s \in Servers, srv[s].pc = "done", NEW d \in DocsOf(srv[s].batch)
      PROVE  Cardinality({t \in srv[s].out : t.doc = d}) = 1
  <2>1. /\ srv[s].batch \in Batches /\ Fits(srv[s].plan, srv[s].batch)
        /\ TalliedOnce(srv[s].plan, {}, srv[s].out)
    BY <1>1, <1>3 DEF Ingests, IngestShaped
  <2> QED
    BY <1>3, <2>1, TallyComplete
<1>4. ASSUME etl.pc = "done", NEW i \in DOMAIN etl.docs
      PROVE  Cardinality({t \in etl.out : t.doc = etl.docs[i].doc}) = 1
  <2> DEFINE d == etl.docs[i].doc n == Len(etl.docs)
  <2>1. EtlShaped(etl) /\ etl.at = n + 1 /\ TalliedOnce(etl.docs, etl.at .. n, etl.out)
    BY <1>1, <1>4 DEF Migrating, EtlShaped
  <2>2. i \notin etl.at .. n
    BY <1>4, <2>1, ExtractedDocs
  <2>3. PICK t \in etl.out : t.doc = d
    BY <1>4, <2>1, <2>2 DEF TalliedOnce
  <2>4. {u \in etl.out : u.doc = d} = {t}
    BY <2>1, <2>3 DEF TalliedOnce
  <2> QED
    BY <2>4, FS_Singleton
<1> QED
  BY <1>2, <1>3, <1>4 DEF Accounts, Accounted

LEMMA InvNothingSwallowed == Inv => NothingSwallowed
<1> SUFFICES ASSUME Inv, NEW h \in Handlers, req[h].pc = "done", NEW i \in DOMAIN req[h].batch
             PROVE  \/ req[h].batch[i].text \in seen[h] \cup {Empty}
                    \/ \E j \in DOMAIN req[h].batch :
                         /\ req[h].batch[j].text = req[h].batch[i].text
                         /\ \/ req[h].batch[j].doc \in req[h].keyed
                            \/ [doc |-> req[h].batch[j].doc, how |-> "failed"] \in req[h].out
  BY DEF NothingSwallowed
<1>1. Shaped(req[h]) /\ Backed(req[h], central, seen[h])
  BY DEF Inv, Requests
<1>2. req[h].todo = {} /\ Kept(req[h], seen[h])
  BY <1>1 DEF Shaped, Backed, Planned
<1> QED
  BY <1>2 DEF Kept

LEMMA InvMigration == Inv => MigrationLosesNothing /\ PreviewHonest
<1> SUFFICES ASSUME Inv, etl.pc = "done"
             PROVE  /\ \A i \in DOMAIN etl.docs :
                         \/ [doc |-> etl.docs[i].doc, how |-> "failed"] \in etl.out
                         \/ etl.docs[i].text \in etlSeen
                         \/ etl.docs[i].doc \in DOMAIN etl.rows
                    /\ Undisturbed => {t.doc : t \in {u \in etl.out : u.how = "new"}} = etl.preview
  BY DEF MigrationLosesNothing, PreviewHonest, Undisturbed
<1>1. EtlShaped(etl) /\ EtlCovered(etl, central, etlSeen) /\ (Undisturbed => Announced(etl))
  BY DEF Inv, Migrating
<1>2. DOMAIN etl.docs = 1 .. etl.at - 1
  BY <1>1, ExtractedDocs DEF EtlShaped
<1>3. ASSUME Undisturbed
      PROVE  {t.doc : t \in {u \in etl.out : u.how = "new"}} = etl.preview
  <2>1. \A i \in DOMAIN etl.docs : etl.docs[i].doc \in etl.preview <=> [doc |-> etl.docs[i].doc, how |-> "new"] \in etl.out
    BY <1>1, <1>2, <1>3 DEF Announced
  <2>2. etl.out \subseteq Tally /\ \A t \in etl.out : \E i \in DOMAIN etl.docs : t.doc = etl.docs[i].doc
    BY <1>1, <1>2 DEF EtlShaped, TalliedOnce
  <2>3. \A t \in Tally : t = [doc |-> t.doc, how |-> t.how]
    BY DEF Tally
  <2>4. ASSUME NEW t \in etl.out, t.how = "new" PROVE t.doc \in etl.preview
    <3>1. PICK i \in DOMAIN etl.docs : t.doc = etl.docs[i].doc
      BY <2>2
    <3>2. t = [doc |-> etl.docs[i].doc, how |-> "new"]
      BY <2>2, <2>3, <2>4, <3>1
    <3> QED
      BY <2>1, <3>1, <3>2
  <2>5. ASSUME NEW d \in etl.preview PROVE \E t \in etl.out : t.how = "new" /\ t.doc = d
    <3>1. PICK i \in DOMAIN etl.docs : d = etl.docs[i].doc
      BY <1>1 DEF EtlShaped
    <3>2. [doc |-> d, how |-> "new"] \in etl.out
      BY <2>1, <3>1
    <3> QED
      BY <3>2
  <2> QED
    BY <2>4, <2>5
<1> QED
  BY <1>1, <1>2, <1>3 DEF EtlCovered

(* ingest_documents of both stores and the migration's load name every     *)
(* document in their summary exactly once, and no text the hub's summary   *)
(* reports as new, replaced or unchanged was swallowed: it was stored      *)
(* during the request, or a document with it is reported as failed or met  *)
(* the primary key another request had just written.                       *)
THEOREM AnswersAreTrue == Spec => []AnswersTrue
<1>1. Inv => AnswersTrue
  BY InvAccounts, InvNothingSwallowed DEF AnswersTrue
<1> QED
  BY <1>1, InvHolds, PTL

(* memory_etl_sql_server.py keeps its types, drops no document of the      *)
(* backup without reporting it, and inserts exactly what its dry run named *)
(* when nobody else writes to the hub and no insert fails.                 *)
THEOREM MigrationIsFaithful == Spec => []MigrationFaithful
<1>1. Inv => MigrationFaithful
  BY InvTypes, InvMigration DEF MigrationFaithful
<1> QED
  BY <1>1, InvHolds, PTL

(* A commit of the hub leaves the document it is about as its request sent *)
(* it, if no other request changed the document since this one read it.    *)
LEMMA CentralCommit ==
  ASSUME Inv, Next, NEW h \in Handlers, req'[h] # req[h], central' # central,
         NEW i \in DOMAIN req[h].batch, req[h].batch[i].doc = Current(h).doc,
         ~Overtaken(req[h].batch[i].doc, req[h].rows, central)
  PROVE  Holds(central', req[h].batch[i], req[h].meta)
<1> DEFINE x == req[h] src == x.batch[i] d == src.doc
<1>1. Requests /\ central \in Store /\ req = [g \in Handlers |-> req[g]] /\ Shaped(x)
  BY DEF Inv, Requests
<1>2. InsertDocument(h) \/ UpdateDocumentMetadata(h) \/ RemoveDocument(h)
  <2>1. CentralNext
    BY DEF Next, Local, Central, EtlNext, Extract, PreloadByHash, SkipOrReject, LoadDocument, Report, centralVars
  <2>2. PICK g \in Handlers : Work(g) \/ \E b \in Batches, m \in Metas : Receive(g, b, m)
    BY <2>1 DEF CentralNext
  <2>3. InsertDocument(g) \/ UpdateDocumentMetadata(g) \/ RemoveDocument(g)
    BY <2>2 DEF Work, Receive, Preload, DeleteDocument, IntegrityError, DeadlockVictim, DocumentFails, Answer, NoCommit
  <2>4. \E how : Ended(g, how)
    BY <2>3 DEF InsertDocument, UpdateDocumentMetadata, RemoveDocument
  <2>5. g = h
    BY <1>1, <2>4, EndedFields DEF Inv, Requests
  <2> QED
    BY <2>3, <2>5
<1>3. x.pc \in {"work", "insert"}
  BY <1>2 DEF InsertDocument, UpdateDocumentMetadata, RemoveDocument, Turn
<1>4. x.batch \in Batches /\ x.meta \in Metas /\ x.rows \in Store
  BY <1>1, <1>3, ReqFields DEF Shaped
<1>5. PICK k \in x.todo :
        /\ Current(h) = x.plan[k] /\ k \in DOMAIN x.batch
        /\ Current(h).doc = x.batch[k].doc /\ Current(h).text = x.batch[k].text
  BY <1>1, <1>3, CurrentJob
<1>6. k = i
  BY <1>4, <1>5, BatchShape
<1>7. d = Current(h).doc /\ src.text = Current(h).text
  BY <1>5, <1>6
<1>8. CASE InsertDocument(h)
  <2>1. x.pc = "insert" /\ central' = Put(central, d, Written(h))
    BY <1>7, <1>8 DEF InsertDocument, Commit
  <2>2. d \in Docs /\ src.text \in Texts /\ Written(h) \in Row /\ Written(h).text = src.text /\ Written(h).meta = x.meta
    BY <1>1, <1>7, <2>1, WrittenRow
  <2> HIDE DEF x, src, d
  <2>3. d \in DOMAIN central' /\ central'[d] = Written(h)
    <3> DEFINE row == Written(h)
    <3>1. d \in Docs /\ row \in Row /\ central \in Store
      BY <1>1, <2>2
    <3> HIDE DEF row
    <3>2. DOMAIN Put(central, d, row) = DOMAIN central \cup {d} /\ Put(central, d, row)[d] = row
      BY <3>1, PutRow
    <3> QED
      BY <2>1, <3>2 DEF row
  <2>4. Holds(central', src, x.meta)
    BY <2>2, <2>3, MemoryAssumption DEF Holds, SameContent, d
  <2> QED
    BY <2>4 DEF x, src
<1>9. CASE UpdateDocumentMetadata(h)
  <2>1. Current(h).kind = "update" /\ central' = SetMeta(central, d, x.meta)
    BY <1>7, <1>9 DEF UpdateDocumentMetadata, Turn, Commit
  <2>2. SameContent(src, x.rows)
    BY <1>1, <1>3, <1>5, <1>6, <2>1 DEF Shaped, Planned
  <2>3. d \in DOMAIN x.rows /\ x.rows[d].text = src.text /\ src.text \in Texts
    BY <1>4, <2>2, TextsStored DEF SameContent
  <2>4. d \in DOMAIN central /\ central[d] = x.rows[d]
    BY <2>3 DEF Overtaken
  <2> HIDE DEF x, src, d
  <2>5. /\ DOMAIN SetMeta(central, d, x.meta) = DOMAIN central
        /\ SetMeta(central, d, x.meta)[d].text = central[d].text /\ SetMeta(central, d, x.meta)[d].meta = x.meta
    BY <1>1, <1>4, <2>4, SetRowMeta
  <2>6. Holds(central', src, x.meta)
    BY <2>1, <2>3, <2>4, <2>5, MemoryAssumption DEF Holds, SameContent, d
  <2> QED
    BY <2>6 DEF x, src
<1>10. CASE RemoveDocument(h)
  <2>1. Current(h).kind = "remove" /\ central' = Drop(central, d)
    BY <1>7, <1>10 DEF RemoveDocument, Turn, Commit
  <2>2. src.text = Empty
    BY <1>1, <1>3, <1>5, <1>6, <2>1 DEF Shaped, Planned
  <2>3. d \notin DOMAIN central'
    <3> HIDE DEF d
    <3>1. DOMAIN Drop(central, d) = DOMAIN central \ {d}
      BY <1>1, DropRow
    <3> QED
      BY <2>1, <3>1
  <2> QED
    BY <2>2, <2>3 DEF Holds
<1> QED
  BY <1>2, <1>8, <1>9, <1>10

LEMMA LocalCommit ==
  ASSUME Inv, Next, NEW s \in Servers, srv[s].pc = "write", srv'[s] # srv[s], NEW i \in DOMAIN srv[s].batch,
         [doc |-> srv[s].batch[i].doc, how |-> "failed"] \notin srv'[s].out,
         ~Overtaken(srv[s].batch[i].doc, srv[s].rows, local)
  PROVE  Holds(local', srv[s].batch[i], srv[s].meta)
<1>1. Ingests /\ srv = [r \in Servers |-> srv[r]]
  BY DEF Inv, Ingests
<1>2. LocalNext
  BY DEF Next, Local, Central, EtlNext, Extract, PreloadByHash, SkipOrReject, LoadDocument, Report, localVars
<1>3. PICK r \in Servers :
        \/ \E b \in Batches, m \in Metas : IngestDocuments(r, b, m)
        \/ BeginWrites(r) \/ WriteDocuments(r) \/ Return(r)
  BY <1>2 DEF LocalNext
<1>4. \A q \in Servers : q # r => srv'[q] = srv[q]
  BY <1>1, <1>3 DEF IngestDocuments, BeginWrites, WriteDocuments, Commits, Return
<1>5. r = s
  BY <1>4
<1>6. WriteDocuments(s)
  BY <1>3, <1>5 DEF IngestDocuments, BeginWrites, Return
<1>7. PICK lost : Commits(s, lost)
  BY <1>6, WriteCommits
<1> QED
  BY <1>1, <1>7, CommitHolds

LEMMA OnlyAdds ==
  ASSUME Inv, Next, etl' # etl, NEW d \in DOMAIN central
  PROVE  d \in DOMAIN central' /\ central'[d] = central[d]
<1>1. EtlNext
  BY DEF Next, Local, Central, etlVars
<1>2. CASE UNCHANGED central
  BY <1>2
<1>3. CASE LoadDocument /\ central' # central
  <2>1. etl.pc = "load" /\ Clashing(etl.docs[etl.at]) = {} /\ Commit(Loaded)
    BY <1>3 DEF LoadDocument, Loading, Loaded
  <2>2. DOMAIN Loaded = DOMAIN central \cup {etl.docs[etl.at].doc} /\ Loaded[d] = central[d]
    BY <2>1, LoadedRow DEF Inv
  <2> QED
    BY <2>1, <2>2 DEF Commit
<1> QED
  BY <1>1, <1>2, <1>3 DEF EtlNext, Extract, PreloadByHash, SkipOrReject, Report, centralVars

(* What the three writers do to a stored document: ingest_documents of     *)
(* either store leaves text and metadata of the source it was sent, unless *)
(* it reports the document as failed or another writer overtook it, and    *)
(* the migration's load never changes or removes a row.                    *)
THEOREM CommitsHaveOneSource == Spec => OneSource
<1>1. Inv /\ [Next]_vars =>
        [\A h \in Handlers : req'[h] # req[h] /\ central' # central =>
           \A i \in DOMAIN req[h].batch :
             LET src == req[h].batch[i]
             IN src.doc = Current(h).doc =>
                  Overtaken(src.doc, req[h].rows, central) \/ Holds(central', src, req[h].meta)]_centralVars
  BY CentralCommit DEF vars, centralVars
<1>2. Inv /\ [Next]_vars =>
        [\A s \in Servers : srv[s].pc = "write" /\ srv'[s] # srv[s] =>
           \A i \in DOMAIN srv[s].batch :
             LET src == srv[s].batch[i]
                 failed == [doc |-> src.doc, how |-> "failed"] \in srv'[s].out
             IN failed \/ Overtaken(src.doc, srv[s].rows, local) \/ Holds(local', src, srv[s].meta)]_localVars
  BY LocalCommit DEF vars, localVars
<1>3. Inv /\ [Next]_vars =>
        [etl' # etl => \A d \in DOMAIN central : d \in DOMAIN central' /\ central'[d] = central[d]]_vars
  BY OnlyAdds DEF vars, etlVars
<1> QED
  BY <1>1, <1>2, <1>3, InvHolds, PTL DEF Spec, OneSource, CentralOneSource, LocalOneSource, MigrationOnlyAdds

-----------------------------------------------------------------------------
(* Module MemoryCore: calls that do not write.                             *)

(* Places of a list.                                                       *)
LEMMA RangeSize == \A n \in Nat : IsFiniteSet(1 .. n) /\ Cardinality(1 .. n) = n
<1> SUFFICES ASSUME NEW n \in Nat PROVE IsFiniteSet(1 .. n) /\ Cardinality(1 .. n) = n
  OBVIOUS
<1>1. 1 \in Int /\ n \in Int
  OBVIOUS
<1>2. IsFiniteSet(1 .. n) /\ Cardinality(1 .. n) = IF 1 > n THEN 0 ELSE n - 1 + 1
  BY <1>1, FS_Interval
<1> QED
  BY <1>2

(***************************************************************************)
(* The walk through a conversation.  Every node of the chain is the link   *)
(* of the one before, and the walk stands at the link of the last.         *)
(***************************************************************************)
Link(x, n) == IF x.current # None THEN x.parent[n] ELSE x.child[n]

WalkInv ==
  job = "walk" =>
    /\ work \in [map : Mappings, at : Nodes \cup {None}, chain : Seq(Nodes)]
    /\ \A i, j \in 1 .. Len(work.chain) : work.chain[i] = work.chain[j] => i = j
    /\ \A i \in 1 .. Len(work.chain) - 1 : work.chain[i + 1] = Link(work.map, work.chain[i])
    /\ IF work.chain = <<>> THEN work.map.current # None => work.at = work.map.current
       ELSE /\ work.at = Link(work.map, work.chain[Len(work.chain)])
            /\ work.map.current # None => work.chain[1] = work.map.current

LEMMA LinkType ==
  ASSUME NEW x \in Mappings
  PROVE  /\ \A n \in Nodes : Link(x, n) \in Nodes \cup {None}
         /\ x.current \in Nodes \cup {None}
         /\ Starts(x) \subseteq Nodes
<1> DEFINE upward == [parent : [Nodes -> Nodes \cup {None}], child : [Nodes -> {None}],
                      broken : SUBSET Nodes, current : Nodes]
           forward == [parent : [Nodes -> {None, Dangling}], child : [Nodes -> Nodes \cup {None}],
                       broken : SUBSET Nodes, current : {None}]
<1>1. CASE x \in upward
  BY <1>1, ConversationAssumption DEF Link, Starts
<1>2. CASE x \in forward
  BY <1>2, ConversationAssumption DEF Link, Starts, Roots
<1> QED
  BY <1>1, <1>2 DEF Mappings

(* A chain without repetition has as many nodes as places.                 *)
LEMMA RangeOfInjective ==
  ASSUME NEW S, NEW t \in Seq(S), \A i, j \in 1 .. Len(t) : t[i] = t[j] => i = j
  PROVE  IsFiniteSet(Range(t)) /\ Cardinality(Range(t)) = Len(t)
<1>1. t \in Bijection(1 .. Len(t), Range(t))
  BY DEF Bijection, Injection, Surjection, IsInjective, Range
<1>2. IsFiniteSet(1 .. Len(t)) /\ Cardinality(1 .. Len(t)) = Len(t)
  <2>1. Len(t) \in Nat
    OBVIOUS
  <2> QED
    BY <2>1, RangeSize
<1> QED
  BY <1>1, <1>2, FS_Bijection DEF ExistsBijection

LEMMA WalkInit == CallInit => WalkInv
BY DEF CallInit, WalkInv

LEMMA WalkStep == WalkInv /\ [CallNext]_callVars => WalkInv'
<1> SUFFICES ASSUME WalkInv, [CallNext]_callVars, job' = "walk" PROVE WalkInv'
  BY DEF WalkInv
<1>1. CASE UNCHANGED callVars
  BY <1>1 DEF WalkInv, callVars
<1>2. CASE OpenConversation
  <2>1. PICK x \in Mappings : \E n \in Starts(x) : work' = [map |-> x, at |-> n, chain |-> <<>>]
    BY <1>2 DEF OpenConversation, Begin
  <2>2. PICK n \in Starts(x) : work' = [map |-> x, at |-> n, chain |-> <<>>]
    BY <2>1
  <2>3. n \in Nodes /\ (x.current # None => n = x.current)
    BY LinkType, <2>1 DEF Starts
  <2> QED
    BY <2>2, <2>3 DEF WalkInv
<1>3. CASE Walk
  <2> DEFINE n == Len(work.chain)
             c == Append(work.chain, work.at)
  <2>1. /\ job = "walk" /\ MayVisit(work)
        /\ work' = [map |-> work.map, at |-> Link(work.map, work.at), chain |-> c]
    BY <1>3 DEF Walk, Visit, Link, WalkInv
  <2>2. /\ work.map \in Mappings /\ work.at \in Nodes /\ work.chain \in Seq(Nodes) /\ n \in Nat
        /\ \A i \in 1 .. n : work.chain[i] # work.at
    BY <2>1 DEF WalkInv, MayVisit, Range
  <2>3. /\ c \in Seq(Nodes) /\ Len(c) = n + 1 /\ c # <<>>
        /\ c[n + 1] = work.at
        /\ \A i \in 1 .. n : c[i] = work.chain[i]
    <3>1. /\ c \in Seq(Nodes) /\ Len(c) = n + 1 /\ c[n + 1] = work.at
          /\ \A i \in 1 .. n : c[i] = work.chain[i]
      BY <2>2, AppendProperties
    <3> HIDE DEF c, n
    <3>2. Len(c) # 0
      BY <3>1, <2>2
    <3>3. c # <<>>
      BY <3>2
    <3> QED
      BY <3>1, <3>3
  <2>4. work'.map = work.map /\ work'.at = Link(work.map, work.at) /\ work'.chain = c
    BY <2>1
  <2>5. work' \in [map : Mappings, at : Nodes \cup {None}, chain : Seq(Nodes)]
    BY <2>1, <2>2, <2>3, LinkType
  <2>6. \A i, j \in 1 .. n + 1 : c[i] = c[j] => i = j
    BY <2>1, <2>2, <2>3 DEF WalkInv
  <2>7. \A i \in 1 .. n : c[i + 1] = Link(work.map, c[i])
    <3> SUFFICES ASSUME NEW i \in 1 .. n PROVE c[i + 1] = Link(work.map, c[i])
      OBVIOUS
    <3>1. CASE i < n
      <4>1. i \in 1 .. n - 1 /\ i + 1 \in 1 .. n
        BY <2>2, <3>1
      <4> QED
        BY <4>1, <2>1, <2>3 DEF WalkInv
    <3>2. CASE i = n
      <4>1. work.chain # <<>>
        BY <2>2, <3>2
      <4> QED
        BY <4>1, <2>1, <2>2, <2>3, <3>2 DEF WalkInv
    <3> QED
      BY <3>1, <3>2, <2>2
  <2>8. work.map.current # None => c[1] = work.map.current
    <3>1. CASE work.chain = <<>>
      BY <3>1, <2>1, <2>2, <2>3 DEF WalkInv
    <3>2. CASE work.chain # <<>>
      <4>1. 1 \in 1 .. n
        BY <3>2, <2>2
      <4> QED
        BY <4>1, <3>2, <2>1, <2>3 DEF WalkInv
    <3> QED
      BY <3>1, <3>2
  <2> QED
    BY <2>2, <2>3, <2>4, <2>5, <2>6, <2>7, <2>8 DEF WalkInv
<1> QED
  BY <1>1, <1>2, <1>3
  DEF CallNext, Linearized, TakeMessage, DropMessage, CloseConversation, OpenText, TakeParagraph,
      CloseText, StartQuery, RefuseQuery, VectorCandidateIds, LexicalCandidateIds, LexicalFrom,
      Finalize, ReturnQuery, Ingest, Begin, End, WalkInv

LEMMA WalkEnds == WalkInv => ThreadLinear
<1> SUFFICES ASSUME WalkInv, job = "walk", ~MayVisit(work) PROVE ThreadFollowsLinks(work)
  BY DEF ThreadLinear
<1> DEFINE c == work.chain
           n == Len(work.chain)
           t == Thread(work)
           up == work.map.current # None
<1>1. /\ c \in Seq(Nodes) /\ n \in Nat /\ work.map \in Mappings
      /\ \A i, j \in 1 .. n : c[i] = c[j] => i = j
      /\ \A i \in 1 .. n - 1 : c[i + 1] = Link(work.map, c[i])
  BY DEF WalkInv
<1>2. /\ t \in Seq(Nodes) /\ Len(t) = n
      /\ \A i \in 1 .. n : t[i] = IF up THEN c[n - i + 1] ELSE c[i]
  <2>1. CASE up
    <3>1. t = [i \in 1 .. n |-> c[(n - i) + 1]]
      BY <2>1 DEF Thread, Reverse
    <3>2. \A i \in 1 .. n : (n - i) + 1 \in 1 .. n /\ c[(n - i) + 1] \in Nodes
      BY <1>1
    <3> QED
      BY <3>1, <3>2, <2>1, <1>1
  <2>2. CASE ~up
    BY <2>2, <1>1 DEF Thread
  <2> QED
    BY <2>1, <2>2
<1>3. Cardinality(Range(t)) = Len(t)
  <2>1. ASSUME NEW i \in 1 .. n, NEW j \in 1 .. n, t[i] = t[j] PROVE i = j
    <3>1. CASE up
      <4>1. n - i + 1 \in 1 .. n /\ n - j + 1 \in 1 .. n
        BY <1>1
      <4>2. n - i + 1 = n - j + 1
        BY <4>1, <3>1, <2>1, <1>1, <1>2
      <4> QED
        BY <4>2, <1>1
    <3>2. CASE ~up
      BY <3>2, <2>1, <1>1, <1>2
    <3> QED
      BY <3>1, <3>2
  <2> QED
    BY <2>1, <1>2, RangeOfInjective
<1>4. work.map.current \in Nodes \ work.map.broken => t # <<>> /\ t[Len(t)] = work.map.current
  <2> SUFFICES ASSUME work.map.current \in Nodes \ work.map.broken
               PROVE  n > 0 /\ t[n] = work.map.current
    BY <1>1, <1>2
  <2>1. up
    BY ConversationAssumption
  <2>2. c # <<>>
    <3> SUFFICES ASSUME c = <<>> PROVE FALSE
      OBVIOUS
    <3>1. work.at = work.map.current
      BY <2>1 DEF WalkInv
    <3>2. work.at \notin Range(c)
      BY DEF Range
    <3> QED
      BY <3>1, <3>2, ConversationAssumption DEF MayVisit
  <2> QED
    BY <2>1, <2>2, <1>1, <1>2 DEF WalkInv
<1>5. ASSUME NEW i \in 1 .. Len(t) - 1
      PROVE  IF up THEN work.map.parent[t[i + 1]] = t[i] ELSE work.map.child[t[i]] = t[i + 1]
  <2>1. i \in 1 .. n /\ i + 1 \in 1 .. n /\ i \in 1 .. n - 1
    BY <1>1, <1>2
  <2>2. CASE up
    <3>1. n - i \in 1 .. n - 1 /\ n - (i + 1) + 1 = n - i
      BY <2>1, <1>1
    <3>2. c[(n - i) + 1] = work.map.parent[c[n - i]]
      BY <3>1, <1>1, <2>2 DEF Link
    <3> QED
      BY <3>1, <3>2, <2>1, <2>2, <1>2
  <2>3. CASE ~up
    BY <2>1, <2>3, <1>1, <1>2 DEF Link
  <2> QED
    BY <2>2, <2>3
<1> QED
  BY <1>3, <1>4, <1>5 DEF ThreadFollowsLinks

(* The walk through a conversation ends with a thread, whatever its links. *)
THEOREM ConversationsAreThreads == CallSpec => []ThreadLinear
<1>1. CallSpec => []WalkInv
  BY WalkInit, WalkStep, PTL DEF CallSpec
<1> QED
  BY <1>1, WalkEnds, PTL

-----------------------------------------------------------------------------
(* Sorting by score *)

(* The last of some ids.                                                   *)
LEMMA LastByScore ==
  ASSUME NEW S \in SUBSET Int, NEW score \in [S -> Int]
  PROVE  \A T \in SUBSET S : IsFiniteSet(T) /\ T # {} =>
           \E x \in T : \A y \in T \ {x} : Before(score, y, x)
<1> DEFINE Lasts(T) == \E x \in T : \A y \in T \ {x} : Before(score, y, x)
           Bad == {n \in Nat : \E T \in SUBSET S :
                     IsFiniteSet(T) /\ T # {} /\ Cardinality(T) = n /\ ~Lasts(T)}
<1>1. SUFFICES ASSUME Bad # {} PROVE FALSE
  <2>1. \A T \in SUBSET S : IsFiniteSet(T) => Cardinality(T) \in Nat
    BY FS_CardinalityType
  <2> QED
    BY <1>1, <2>1
<1>2. PICK n \in Bad : \A m \in Bad : n <= m
  BY <1>1, LeastNat
<1>3. PICK T \in SUBSET S : IsFiniteSet(T) /\ T # {} /\ Cardinality(T) = n /\ ~Lasts(T)
  BY <1>2
<1>4. PICK e \in T : TRUE
  BY <1>3
<1> DEFINE U == T \ {e}
<1>5. U \in SUBSET S /\ IsFiniteSet(U) /\ Cardinality(U) = n - 1 /\ n \in Nat /\ n - 1 \in Nat
  <2>1. IsFiniteSet(U) /\ Cardinality(U) = n - 1
    BY <1>3, <1>4, FS_RemoveElement
  <2>2. Cardinality(U) \in Nat
    BY <2>1, FS_CardinalityType
  <2> QED
    BY <2>1, <2>2, <1>2
<1>6. U # {} => Lasts(U)
  <2>1. ~(n <= n - 1)
    BY <1>5
  <2>2. n - 1 \notin Bad
    <3> HIDE DEF Bad
    <3> QED
      BY <2>1, <1>2
  <2> HIDE DEF U, Lasts
  <2> QED
    BY <2>2, <1>5
<1>7. CASE U = {}
  BY <1>3, <1>4, <1>7
<1>8. CASE U # {}
  <2>1. PICK x \in U : \A y \in U \ {x} : Before(score, y, x)
    BY <1>6, <1>8
  <2> HIDE DEF Lasts, Bad
  <2>2. \A a \in T : a \in Int /\ score[a] \in Int
    OBVIOUS
  <2>3. CASE Before(score, e, x)
    <3>1. \A y \in T \ {x} : Before(score, y, x)
      BY <2>1, <2>3
    <3> QED
      BY <3>1, <2>1, <1>3 DEF Lasts
  <2>4. CASE ~Before(score, e, x)
    <3>1. Before(score, x, e)
      BY <2>4, <2>1, <2>2, <1>4 DEF Before
    <3>2. \A y \in T \ {e} : Before(score, y, e)
      BY <2>1, <2>2, <3>1, <1>4 DEF Before
    <3> QED
      BY <3>2, <1>4, <1>3 DEF Lasts
  <2> QED
    BY <2>3, <2>4
<1> QED
  BY <1>7, <1>8

(* Ids can be sorted.                                                      *)
LEMMA SortedExists ==
  ASSUME NEW S \in SUBSET Int, NEW score \in [S -> Int], IsFiniteSet(S)
  PROVE  \E f \in [1 .. Cardinality(S) -> S] :
           /\ \A i, j \in 1 .. Cardinality(S) : i < j => Before(score, f[i], f[j])
           /\ \A a \in S : \E i \in 1 .. Cardinality(S) : f[i] = a
<1> DEFINE Sorts(f, T, n) == /\ \A i, j \in 1 .. n : i < j => Before(score, f[i], f[j])
                             /\ \A a \in T : \E i \in 1 .. n : f[i] = a
           Good(T, n) == \E f \in [1 .. n -> T] : Sorts(f, T, n)
           Bad == {n \in Nat : \E T \in SUBSET S : IsFiniteSet(T) /\ Cardinality(T) = n /\ ~Good(T, n)}
<1>1. SUFFICES ASSUME Bad # {} PROVE FALSE
  <2>1. Cardinality(S) \in Nat
    BY FS_CardinalityType
  <2>2. Good(S, Cardinality(S))
    BY <1>1, <2>1
  <2> QED
    BY <2>2
<1>2. PICK n \in Bad : \A m \in Bad : n <= m
  BY <1>1, LeastNat
<1>3. PICK T \in SUBSET S : IsFiniteSet(T) /\ Cardinality(T) = n /\ ~Good(T, n)
  BY <1>2
<1>4. n \in Nat
  BY <1>2
<1>5. T # {}
  <2> SUFFICES ASSUME T = {} PROVE FALSE
    OBVIOUS
  <2>1. n = 0
    BY <1>3, FS_EmptySet
  <2>2. <<>> \in [1 .. n -> T] /\ Sorts(<<>>, T, n)
    BY <2>1
  <2> QED
    BY <2>2, <1>3
<1>6. PICK x \in T : \A y \in T \ {x} : Before(score, y, x)
  BY <1>3, <1>5, LastByScore
<1> DEFINE U == T \ {x}
<1>7. IsFiniteSet(U) /\ Cardinality(U) = n - 1 /\ n - 1 \in Nat
  <2>1. IsFiniteSet(U) /\ Cardinality(U) = n - 1
    BY <1>3, <1>6, FS_RemoveElement
  <2> QED
    BY <2>1, FS_CardinalityType
<1>8. Good(U, n - 1)
  <2>1. n - 1 \notin Bad
    BY <1>2, <1>4
  <2> QED
    BY <2>1, <1>7
<1>9. PICK f \in [1 .. n - 1 -> U] : Sorts(f, U, n - 1)
  BY <1>8
<1> DEFINE g == [i \in 1 .. n |-> IF i = n THEN x ELSE f[i]]
<1>10. g \in [1 .. n -> T]
  BY <1>4, <1>9
<1>11. \A i \in 1 .. n - 1 : g[i] = f[i] /\ f[i] \in U
  BY <1>4, <1>9
<1>12. n \in 1 .. n /\ g[n] = x
  BY <1>4, <1>7
<1>13. ASSUME NEW i \in 1 .. n, NEW j \in 1 .. n, i < j PROVE Before(score, g[i], g[j])
  <2>1. i \in 1 .. n - 1
    BY <1>4, <1>13
  <2>2. CASE j = n
    BY <2>1, <2>2, <1>6, <1>11, <1>12
  <2>3. CASE j # n
    <3>1. j \in 1 .. n - 1
      BY <1>4, <2>3
    <3> QED
      BY <3>1, <2>1, <1>9, <1>11, <1>13
  <2> QED
    BY <2>2, <2>3
<1>14. ASSUME NEW a \in T PROVE \E i \in 1 .. n : g[i] = a
  <2>1. CASE a = x
    BY <2>1, <1>12
  <2>2. CASE a # x
    <3>1. PICK i \in 1 .. n - 1 : f[i] = a
      BY <2>2, <1>9
    <3> QED
      BY <3>1, <1>11, <1>4
  <2> QED
    BY <2>1, <2>2
<1> HIDE DEF g
<1> QED
  BY <1>3, <1>10, <1>13, <1>14

(* What sorting by score returns.                                          *)
LEMMA SortedByScore ==
  ASSUME NEW S \in SUBSET Int, NEW score \in [S -> Int], IsFiniteSet(S)
  PROVE  /\ ByScore(S, score) \in [1 .. Cardinality(S) -> S]
         /\ \A i, j \in 1 .. Cardinality(S) :
              i < j => Before(score, ByScore(S, score)[i], ByScore(S, score)[j])
         /\ \A a \in S : \E i \in 1 .. Cardinality(S) : ByScore(S, score)[i] = a
<1> DEFINE n == Cardinality(S)
           Orders(f) == \A i, j \in DOMAIN f : i < j => Before(score, f[i], f[j])
<1>1. n \in Nat
  BY FS_CardinalityType
<1>2. PICK f \in [1 .. n -> S] :
        /\ \A i, j \in 1 .. n : i < j => Before(score, f[i], f[j])
        /\ \A a \in S : \E i \in 1 .. n : f[i] = a
  BY SortedExists
<1>3. ASSUME NEW i \in 1 .. n, NEW j \in 1 .. n, i # j PROVE f[i] # f[j]
  <2>1. f[i] \in Int /\ f[j] \in Int /\ score[f[i]] \in Int /\ score[f[j]] \in Int
    BY <1>2
  <2>2. CASE i < j
    BY <2>1, <2>2, <1>2 DEF Before
  <2>3. CASE j < i
    BY <2>1, <2>3, <1>2 DEF Before
  <2> QED
    BY <2>2, <2>3, <1>1, <1>3
<1>4. f \in SetToSeqs(S) /\ Orders(f)
  BY <1>1, <1>2, <1>3 DEF SetToSeqs
<1>5. ByScore(S, score) \in SetToSeqs(S) /\ Orders(ByScore(S, score))
  BY <1>4 DEF ByScore
<1> DEFINE g == ByScore(S, score)
<1>6. g \in [1 .. n -> S] /\ \A i, j \in 1 .. n : i # j => g[i] # g[j]
  BY <1>5 DEF SetToSeqs
<1>7. \A i, j \in 1 .. n : i < j => Before(score, g[i], g[j])
  BY <1>5, <1>6
<1>8. \A a \in S : \E i \in 1 .. n : g[i] = a
  <2>1. g \in Injection(1 .. n, S)
    BY <1>6 DEF Injection, IsInjective
  <2>2. IsFiniteSet(1 .. n) /\ Cardinality(1 .. n) = Cardinality(S)
    BY <1>1, RangeSize
  <2>3. g \in Surjection(1 .. n, S)
    BY <2>1, <2>2, FS_Injection
  <2> QED
    BY <2>3 DEF Surjection
<1> HIDE DEF g
<1> QED
  BY <1>6, <1>7, <1>8 DEF g

-----------------------------------------------------------------------------
(* Going through a list, keeping some of it *)

NoRepetition(s) == \A i, j \in 1 .. Len(s) : s[i] = s[j] => i = j

(* f[i] is what has been kept of the first i.                              *)
Gathers(f, list) ==
  /\ f[0] = <<>>
  /\ \A i \in 1 .. Len(list) : f[i] \in {f[i - 1], Append(f[i - 1], list[i])}

(* So it has the ones that were appended, in order and once.               *)
Took(f, list, i) == f[i] = Append(f[i - 1], list[i])
Gathered(f, list, S, i) ==
  /\ f[i] \in Seq(S)
  /\ NoRepetition(f[i])
  /\ \A x : x \in Range(f[i]) <=> \E j \in 1 .. i : x = list[j] /\ Took(f, list, j)

LEMMA Gathering ==
  ASSUME NEW S, NEW list \in Seq(S), NoRepetition(list), NEW f, Gathers(f, list)
  PROVE  \A i \in 0 .. Len(list) : Gathered(f, list, S, i)
<1> DEFINE n == Len(list)
           Takes(j) == f[j] = Append(f[j - 1], list[j])
           P(i) == /\ f[i] \in Seq(S) /\ NoRepetition(f[i])
                   /\ \A x : x \in Range(f[i]) <=> \E j \in 1 .. i : x = list[j] /\ Takes(j)
           Bad == {i \in 0 .. n : ~P(i)}
<1> SUFFICES Bad = {}
  BY DEF Gathered, Took
<1>1. SUFFICES ASSUME Bad # {} PROVE FALSE
  OBVIOUS
<1>2. n \in Nat /\ (\A i \in 1 .. n : list[i] \in S) /\ Bad \subseteq Nat
  OBVIOUS
<1>3. PICK i \in Bad : \A l \in Bad : i <= l
  BY <1>1, <1>2, LeastNat
<1>4. i \in 0 .. n /\ ~P(i)
  BY <1>3
<1>5. i # 0
  <2> SUFFICES ASSUME i = 0 PROVE FALSE
    OBVIOUS
  <2>1. f[i] = <<>> /\ 1 .. i = {}
    BY DEF Gathers
  <2>2. <<>> \in Seq(S) /\ Len(<<>>) = 0
    BY EmptySeq
  <2>3. Range(<<>>) = {} /\ NoRepetition(<<>>)
    BY DEF Range, NoRepetition
  <2> QED
    BY <2>1, <2>2, <2>3, <1>4
<1>6. i \in 1 .. n /\ i - 1 \in 0 .. n /\ P(i - 1)
  <2>1. i \in 1 .. n /\ i - 1 \in 0 .. n /\ ~(i <= i - 1)
    BY <1>2, <1>4, <1>5
  <2>2. i - 1 \notin Bad
    <3> HIDE DEF Bad
    <3> QED
      BY <2>1, <1>3
  <2> HIDE DEF P
  <2> QED
    BY <2>1, <2>2
<1> HIDE DEF Bad
<1> DEFINE r == f[i - 1]
           c == Append(r, list[i])
<1>7. r \in Seq(S) /\ Len(r) \in Nat /\ NoRepetition(r)
  BY <1>6
<1>8. /\ c \in Seq(S) /\ Len(c) = Len(r) + 1 /\ c[Len(r) + 1] = list[i]
      /\ \A j \in 1 .. Len(r) : c[j] = r[j]
  BY <1>2, <1>6, <1>7, AppendProperties
<1>9. \A j : j \in 1 .. i <=> j \in 1 .. i - 1 \/ j = i
  BY <1>2, <1>6
<1>10. CASE f[i] = c
  <2>1. \A x : x \in Range(c) <=> x \in Range(r) \/ x = list[i]
    <3>1. \A x : x \in Range(r) <=> \E j \in 1 .. Len(r) : x = r[j]
      BY <1>7 DEF Range
    <3>2. \A x : x \in Range(c) <=> \E j \in 1 .. Len(r) + 1 : x = c[j]
      BY <1>8 DEF Range
    <3>3. \A j : j \in 1 .. Len(r) + 1 <=> j \in 1 .. Len(r) \/ j = Len(r) + 1
      BY <1>7
    <3>4. Len(r) + 1 \in 1 .. Len(r) + 1
      BY <1>7
    <3> HIDE DEF c, r
    <3>5. \A j \in 1 .. Len(r) + 1 : c[j] \in Range(r) \/ c[j] = list[i]
      BY <3>1, <3>3, <1>8
    <3>6. list[i] \in Range(c) /\ \A j \in 1 .. Len(r) : r[j] \in Range(c)
      BY <3>2, <3>3, <3>4, <1>8
    <3> QED
      BY <3>1, <3>2, <3>5, <3>6
  <2>2. Takes(i)
    BY <1>10
  <2>3. list[i] \notin Range(r)
    <3>1. \A j \in 1 .. i - 1 : j \in 1 .. n /\ j # i
      BY <1>2, <1>6
    <3> QED
      BY <3>1, <1>6 DEF NoRepetition
  <2>4. NoRepetition(c)
    <3> SUFFICES ASSUME NEW j \in 1 .. Len(r) + 1, NEW l \in 1 .. Len(r) + 1, c[j] = c[l] PROVE j = l
      BY <1>8 DEF NoRepetition
    <3>1. \A m \in 1 .. Len(r) : c[m] \in Range(r)
      BY <1>7, <1>8 DEF Range
    <3>2. j \in 1 .. Len(r) /\ l \in 1 .. Len(r) => j = l
      BY <1>7, <1>8 DEF NoRepetition
    <3> QED
      BY <3>1, <3>2, <1>7, <1>8, <2>3
  <2>5. \A x : x \in Range(c) <=> \E j \in 1 .. i : x = list[j] /\ Takes(j)
    <3> HIDE DEF Takes, c
    <3> QED
      BY <2>1, <2>2, <1>6, <1>9
  <2> QED
    BY <2>4, <2>5, <1>4, <1>8, <1>10
<1>11. CASE f[i] # c
  <2>1. f[i] = r /\ ~Takes(i)
    BY <1>6, <1>11 DEF Gathers
  <2>2. \A x : x \in Range(r) <=> \E j \in 1 .. i : x = list[j] /\ Takes(j)
    <3> HIDE DEF Takes
    <3> QED
      BY <2>1, <1>6, <1>9
  <2> QED
    BY <2>1, <2>2, <1>4, <1>7
<1> QED
  BY <1>10, <1>11

(* Whatever is kept, such an f exists.                                     *)
Selects(f, list, n, S, keep) ==
  /\ f \in [0 .. n -> Seq(S)]
  /\ f[0] = <<>>
  /\ \A i \in 1 .. n : f[i] = IF <<f[i - 1], i>> \in keep THEN Append(f[i - 1], list[i]) ELSE f[i - 1]

LEMMA GatheringExists ==
  ASSUME NEW S, NEW n \in Nat, NEW list, \A i \in 1 .. n : list[i] \in S, NEW keep
  PROVE  \E f : Selects(f, list, n, S, keep)
<1> DEFINE Loop(a, i) == IF <<a, i>> \in keep THEN Append(a, list[i]) ELSE a
           Solves(f, m) == f[0] = <<>> /\ \A i \in 1 .. m : f[i] = Loop(f[i - 1], i)
           Bad == {m \in 0 .. n : ~ \E f \in [0 .. m -> Seq(S)] : Solves(f, m)}
<1>1. SUFFICES ASSUME Bad # {} PROVE FALSE
  <2>1. n \in 0 .. n
    OBVIOUS
  <2> QED
    BY <1>1, <2>1 DEF Selects
<1>2. Bad \subseteq Nat
  OBVIOUS
<1>3. PICK m \in Bad : \A l \in Bad : m <= l
  BY <1>1, <1>2, LeastNat
<1>4. m \in 0 .. n /\ ~ \E f \in [0 .. m -> Seq(S)] : Solves(f, m)
  BY <1>3
<1>5. m # 0
  <2> SUFFICES ASSUME m = 0 PROVE FALSE
    OBVIOUS
  <2> DEFINE f == [i \in 0 .. 0 |-> <<>>]
  <2>1. f \in [0 .. m -> Seq(S)] /\ f[0] = <<>> /\ 1 .. m = {}
    OBVIOUS
  <2> QED
    BY <2>1, <1>4
<1>6. m - 1 \in 0 .. n /\ m - 1 \notin Bad
  <2> HIDE DEF Bad
  <2>1. m - 1 \in 0 .. n /\ ~(m <= m - 1)
    BY <1>4, <1>5
  <2> QED
    BY <2>1, <1>3
<1>7. PICK f \in [0 .. m - 1 -> Seq(S)] : Solves(f, m - 1)
  BY <1>6
<1> DEFINE g == [i \in 0 .. m |-> IF i = m THEN Loop(f[m - 1], m) ELSE f[i]]
<1>8. Loop(f[m - 1], m) \in Seq(S)
  BY <1>4, <1>5, <1>7
<1>9. g \in [0 .. m -> Seq(S)] /\ g[m] = Loop(f[m - 1], m) /\ \A i \in 0 .. m - 1 : g[i] = f[i]
  BY <1>4, <1>5, <1>7, <1>8
<1> HIDE DEF g
<1>10. g[0] = <<>>
  BY <1>4, <1>5, <1>7, <1>9
<1>11. ASSUME NEW i \in 1 .. m PROVE g[i] = Loop(g[i - 1], i)
  <2>1. CASE i = m
    <3>1. g[m - 1] = f[m - 1]
      BY <1>4, <1>5, <1>9
    <3> QED
      BY <3>1, <2>1, <1>9
  <2>2. CASE i # m
    <3>1. i \in 1 .. m - 1 /\ i \in 0 .. m - 1 /\ i - 1 \in 0 .. m - 1
      BY <2>2, <1>4
    <3> QED
      BY <3>1, <1>7, <1>9
  <2> QED
    BY <2>1, <2>2
<1> QED
  BY <1>9, <1>10, <1>11, <1>4

(* The rows that are left are those of the ids that have one.              *)
LEMMA WhatHasRows ==
  ASSUME NEW S, NEW list \in Seq(S), NoRepetition(list), NEW present
  PROVE  /\ WithRows(list, present) \in Seq(S)
         /\ NoRepetition(WithRows(list, present))
         /\ Range(WithRows(list, present)) = Range(list) \cap present
<1> DEFINE n == Len(list)
           Loop(f) == [i \in 0 .. n |->
                         IF i = 0 THEN <<>>
                         ELSE IF list[i] \in present THEN Append(f[i - 1], list[i]) ELSE f[i - 1]]
           keep == {p \in Seq(S) \X (1 .. n) : list[p[2]] \in present}
<1>1. n \in Nat /\ \A i \in 1 .. n : list[i] \in S
  OBVIOUS
<1>2. \A a \in Seq(S), i \in 1 .. n : <<a, i>> \in keep <=> list[i] \in present
  OBVIOUS
<1> HIDE DEF keep
<1>3. PICK g : Selects(g, list, n, S, keep)
  BY <1>1, GatheringExists, Zenon
<1>4. g = Loop(g)
  <2>1. \A i \in 0 .. n : i = 0 \/ i \in 1 .. n
    BY <1>1
  <2>2. ASSUME NEW i \in 1 .. n
        PROVE  g[i] = IF list[i] \in present THEN Append(g[i - 1], list[i]) ELSE g[i - 1]
    <3>1. i - 1 \in 0 .. n
      BY <1>1
    <3>2. g[i - 1] \in Seq(S)
      BY <3>1, <1>3 DEF Selects
    <3> QED
      BY <3>2, <1>2, <1>3 DEF Selects
  <2> QED
    BY <2>1, <2>2, <1>3 DEF Selects
<1> DEFINE f == CHOOSE rows : rows = Loop(rows)
<1>5. f = Loop(f)
  BY <1>4
<1>6. WithRows(list, present) = f[n]
  BY DEF WithRows
<1> HIDE DEF f
<1>7. /\ f[0] = <<>>
      /\ \A i \in 1 .. n : f[i] = IF list[i] \in present THEN Append(f[i - 1], list[i]) ELSE f[i - 1]
  <2>1. 0 \in 0 .. n /\ \A i \in 1 .. n : i \in 0 .. n /\ i # 0
    BY <1>1
  <2> QED
    BY <2>1, <1>5
<1>8. Gathers(f, list)
  BY <1>7 DEF Gathers
<1>9. n \in 0 .. n /\ \A i \in 1 .. n : i - 1 \in 0 .. n
  BY <1>1
<1>10. \A i \in 0 .. n : Gathered(f, list, S, i)
  BY <1>8, Gathering
<1>11. ASSUME NEW j \in 1 .. n PROVE Took(f, list, j) <=> list[j] \in present
  <2>1. f[j - 1] \in Seq(S)
    BY <1>9, <1>10 DEF Gathered
  <2>2. Len(Append(f[j - 1], list[j])) = Len(f[j - 1]) + 1 /\ Len(f[j - 1]) \in Nat
    BY <2>1, <1>1, AppendProperties
  <2>3. Append(f[j - 1], list[j]) # f[j - 1]
    BY <2>2
  <2> QED
    BY <2>3, <1>7 DEF Took
<1>12. \A x : x \in Range(f[n]) <=> x \in Range(list) /\ x \in present
  <2>1. \A x : x \in Range(list) <=> \E j \in 1 .. n : x = list[j]
    BY DEF Range
  <2> QED
    <3>1. \A x : x \in Range(f[n]) <=> \E j \in 1 .. n : x = list[j] /\ Took(f, list, j)
      BY <1>9, <1>10 DEF Gathered
    <3> QED
      BY <2>1, <3>1, <1>11
<1> QED
  BY <1>6, <1>9, <1>10, <1>12 DEF Gathered

-----------------------------------------------------------------------------
(* The quota per document *)

(* Places without repetition are as many as what is there.                 *)
LEMMA AsManyThere ==
  ASSUME NEW S, NEW s \in Seq(S), NoRepetition(s), NEW Q \in SUBSET (1 .. Len(s)), NEW X,
         \A x : x \in X <=> \E q \in Q : x = s[q]
  PROVE  IsFiniteSet(Q) /\ IsFiniteSet(X) /\ Cardinality(Q) = Cardinality(X)
<1> DEFINE f == [q \in Q |-> s[q]]
<1>1. IsFiniteSet(Q)
  <2>1. Len(s) \in Nat
    OBVIOUS
  <2>2. IsFiniteSet(1 .. Len(s))
    BY <2>1, RangeSize
  <2> QED
    BY <2>2, FS_Subset
<1>2. f \in [Q -> X]
  OBVIOUS
<1>3. \A a, b \in Q : f[a] = f[b] => a = b
  BY DEF NoRepetition
<1>4. \A x \in X : \E q \in Q : f[q] = x
  OBVIOUS
<1> HIDE DEF f
<1>5. f \in Bijection(Q, X)
  BY <1>2, <1>3, <1>4 DEF Bijection, Injection, Surjection, IsInjective
<1> QED
  BY <1>1, <1>5, FS_Bijection DEF ExistsBijection

KeepsBest(kept, list, doc, quota, k) ==
  /\ NoRepetition(kept) /\ Range(kept) \subseteq Range(list)
  /\ \A d : Cardinality({i \in DOMAIN kept : doc[kept[i]] = d}) <= quota
  /\ \A i \in 1 .. Len(list) : list[i] \notin Range(kept) =>
       \/ Cardinality({j \in 1 .. i - 1 : list[j] \in Range(kept)}) = k
       \/ Cardinality({j \in 1 .. i - 1 :
                         list[j] \in Range(kept) /\ doc[list[j]] = doc[list[i]]}) = quota

LEMMA QuotaKeepsBest ==
  ASSUME NEW S, NEW list \in Seq(S), NoRepetition(list), NEW doc, NEW quota \in Nat, NEW k \in Nat
  PROVE  KeepsBest(DedupByDoc(list, doc, quota, k), list, doc, quota, k)
<1> DEFINE n == Len(list)
           Loop(f) == [i \in 0 .. n |->
                         IF i = 0 THEN <<>>
                         ELSE IF Refused(f[i - 1], doc, list[i], quota, k) THEN f[i - 1]
                         ELSE Append(f[i - 1], list[i])]
           keep == {p \in Seq(S) \X (1 .. n) : ~Refused(p[1], doc, list[p[2]], quota, k)}
<1>1. n \in Nat /\ \A i \in 1 .. n : list[i] \in S
  OBVIOUS
<1>2. \A a \in Seq(S), i \in 1 .. n : <<a, i>> \in keep <=> ~Refused(a, doc, list[i], quota, k)
  OBVIOUS
<1> HIDE DEF keep
<1>3. PICK g : Selects(g, list, n, S, keep)
  BY <1>1, GatheringExists, Zenon
<1>4. g = Loop(g)
  <2>1. \A i \in 0 .. n : i = 0 \/ i \in 1 .. n
    BY <1>1
  <2>2. ASSUME NEW i \in 1 .. n
        PROVE  g[i] = IF Refused(g[i - 1], doc, list[i], quota, k) THEN g[i - 1] ELSE Append(g[i - 1], list[i])
    <3>1. i - 1 \in 0 .. n
      BY <1>1
    <3>2. g[i - 1] \in Seq(S)
      BY <3>1, <1>3 DEF Selects
    <3> QED
      BY <3>2, <1>2, <1>3 DEF Selects
  <2> QED
    BY <2>1, <2>2, <1>3 DEF Selects
<1> DEFINE f == CHOOSE kept : kept = Loop(kept)
<1>5. f = Loop(f)
  BY <1>4
<1>6. DedupByDoc(list, doc, quota, k) = f[n]
  BY DEF DedupByDoc
<1> HIDE DEF f
<1>7. /\ f[0] = <<>>
      /\ \A i \in 1 .. n : f[i] = IF Refused(f[i - 1], doc, list[i], quota, k) THEN f[i - 1]
                                ELSE Append(f[i - 1], list[i])
  <2>1. 0 \in 0 .. n /\ \A i \in 1 .. n : i \in 0 .. n /\ i # 0
    BY <1>1
  <2> QED
    BY <2>1, <1>5
<1>8. Gathers(f, list)
  BY <1>7 DEF Gathers
<1>9. \A i \in 0 .. n : Gathered(f, list, S, i)
  BY <1>8, Gathering
<1>10. n \in 0 .. n /\ \A i \in 1 .. n : i \in 0 .. n /\ i - 1 \in 0 .. n
  BY <1>1
<1> HIDE DEF Loop
<1> DEFINE Of(s, d) == {m \in DOMAIN s : doc[s[m]] = d}
<1>11. ASSUME NEW i \in 0 .. n PROVE f[i] \in Seq(S) /\ NoRepetition(f[i]) /\ Len(f[i]) \in Nat
  BY <1>9 DEF Gathered
(* Neither the number asked for nor the quota is exceeded on the way.      *)
<1>12. \A i \in 0 .. n : Len(f[i]) <= k /\ \A d : Cardinality(Of(f[i], d)) <= quota
  <2> DEFINE P(i) == Len(f[i]) <= k /\ \A d : Cardinality(Of(f[i], d)) <= quota
             Bad == {i \in 0 .. n : ~P(i)}
  <2>1. SUFFICES ASSUME Bad # {} PROVE FALSE
    OBVIOUS
  <2>2. Bad \subseteq Nat
    OBVIOUS
  <2>3. PICK i \in Bad : \A l \in Bad : i <= l
    BY <2>1, <2>2, LeastNat
  <2>4. i \in 0 .. n /\ ~P(i)
    BY <2>3
  <2>5. i # 0
    <3> SUFFICES ASSUME i = 0 PROVE FALSE
      OBVIOUS
    <3>1. f[i] = <<>> /\ Len(<<>>) = 0 /\ \A d : Of(<<>>, d) = {}
      BY <1>7
    <3>2. P(i)
      BY <3>1, FS_EmptySet
    <3> QED
      BY <3>2, <2>4
  <2>6. i \in 1 .. n /\ P(i - 1)
    <3>1. i \in 1 .. n /\ i - 1 \in 0 .. n /\ ~(i <= i - 1)
      BY <1>1, <2>4, <2>5
    <3>2. i - 1 \notin Bad
      <4> HIDE DEF Bad
      <4> QED
        BY <3>1, <2>3
    <3> QED
      BY <3>1, <3>2
  <2> HIDE DEF Bad
  <2> DEFINE r == f[i - 1]
             x == list[i]
             c == Append(r, x)
  <2>7. r \in Seq(S) /\ Len(r) \in Nat /\ x \in S
    BY <2>6, <1>1, <1>10, <1>11
  <2>8. CASE Refused(r, doc, x, quota, k)
    <3>1. f[i] = r
      BY <2>6, <2>8, <1>7
    <3> QED
      BY <3>1, <2>4, <2>6
  <2>9. CASE ~Refused(r, doc, x, quota, k)
    <3>1. f[i] = c
      BY <2>6, <2>9, <1>7
    <3>2. /\ c \in Seq(S) /\ Len(c) = Len(r) + 1 /\ c[Len(r) + 1] = x
          /\ \A j \in 1 .. Len(r) : c[j] = r[j]
      BY <2>7, AppendProperties
    <3>3. \A d : IsFiniteSet(Of(r, d)) /\ Cardinality(Of(r, d)) \in Nat /\ Len(r) + 1 \notin Of(r, d)
      <4> TAKE d
      <4>1. Of(r, d) \in SUBSET (1 .. Len(r)) /\ Len(r) + 1 \notin 1 .. Len(r)
        BY <2>7
      <4>2. IsFiniteSet(Of(r, d))
        BY <4>1, <2>7, RangeSize, FS_Subset
      <4> QED
        BY <4>1, <4>2, FS_CardinalityType
    <3>4. \A d : Of(c, d) = IF doc[x] = d THEN Of(r, d) \cup {Len(r) + 1} ELSE Of(r, d)
      BY <2>7, <3>2
    <3>5. Len(r) < k /\ Cardinality(Of(r, doc[x])) < quota
      <4>1. Refused(r, doc, x, quota, k) <=> Len(r) >= k \/ Cardinality(Of(r, doc[x])) >= quota
        BY DEF Refused
      <4> HIDE DEF Of
      <4> QED
        BY <4>1, <2>7, <2>9, <3>3
    <3>6. ASSUME NEW d PROVE Cardinality(Of(c, d)) <= quota
      <4>1. CASE doc[x] = d
        <5> HIDE DEF Of
        <5>1. Cardinality(Of(r, d) \cup {Len(r) + 1}) = Cardinality(Of(r, d)) + 1
          BY <3>3, FS_AddElement
        <5>2. Of(c, d) = Of(r, d) \cup {Len(r) + 1}
          BY <4>1, <3>4
        <5>3. Cardinality(Of(r, d)) \in Nat /\ Cardinality(Of(r, d)) < quota
          BY <4>1, <3>3, <3>5
        <5> QED
          BY <5>1, <5>2, <5>3
      <4>2. CASE doc[x] # d
        <5> HIDE DEF Of
        <5> QED
          BY <4>2, <3>4, <2>6
      <4> QED
        BY <4>1, <4>2
    <3>7. Len(c) <= k
      BY <3>2, <3>5, <2>7
    <3> QED
      BY <3>1, <3>6, <3>7, <2>4
  <2> QED
    BY <2>8, <2>9
<1>13. \A j \in 1 .. n : list[j] \in Range(f[n]) <=> Took(f, list, j)
  <2>1. \A x : x \in Range(f[n]) <=> \E j \in 1 .. n : x = list[j] /\ Took(f, list, j)
    BY <1>9, <1>10 DEF Gathered
  <2> QED
    BY <2>1 DEF NoRepetition
<1>14. ASSUME NEW i \in 1 .. n, list[i] \notin Range(f[n])
       PROVE  \/ Cardinality({j \in 1 .. i - 1 : list[j] \in Range(f[n])}) = k
              \/ Cardinality({j \in 1 .. i - 1 :
                                list[j] \in Range(f[n]) /\ doc[list[j]] = doc[list[i]]}) = quota
  <2> DEFINE r == f[i - 1]
             e == doc[list[i]]
             A == {j \in 1 .. i - 1 : list[j] \in Range(f[n])}
             B == {j \in 1 .. i - 1 : list[j] \in Range(f[n]) /\ doc[list[j]] = e}
             X == {x \in Range(r) : doc[x] = e}
  <2>1. Refused(r, doc, list[i], quota, k)
    BY <1>7, <1>13, <1>14 DEF Took
  <2>2. r \in Seq(S) /\ NoRepetition(r) /\ Len(r) \in Nat
    BY <1>10, <1>11
  <2>3. A \in SUBSET (1 .. n) /\ B \in SUBSET (1 .. n) /\ \A j \in 1 .. i - 1 : j \in 1 .. n
    BY <1>1
  <2>4. \A x : x \in Range(r) <=> \E j \in 1 .. i - 1 : x = list[j] /\ Took(f, list, j)
    BY <1>9, <1>10 DEF Gathered
  <2>5. \A x : x \in Range(r) <=> \E q \in A : x = list[q]
    BY <2>3, <2>4, <1>13
  <2>6. \A x : x \in X <=> \E q \in B : x = list[q]
    BY <2>3, <2>4, <1>13
  <2>7. \A x : x \in Range(r) <=> \E q \in 1 .. Len(r) : x = r[q]
    BY <2>2 DEF Range
  <2>8. \A x : x \in X <=> \E q \in Of(r, e) : x = r[q]
    BY <2>2 DEF Range
  <2>9. Of(r, e) \in SUBSET (1 .. Len(r)) /\ 1 .. Len(r) \in SUBSET (1 .. Len(r))
    BY <2>2
  <2> HIDE DEF A, B, X, Of, r
  <2>10. Cardinality(A) = Cardinality(Range(r)) /\ Cardinality(B) = Cardinality(X)
    BY <2>3, <2>5, <2>6, AsManyThere
  <2>11. Cardinality(1 .. Len(r)) = Cardinality(Range(r)) /\ Cardinality(Of(r, e)) = Cardinality(X)
    <3>1. Cardinality(1 .. Len(r)) = Cardinality(Range(r))
      BY <2>2, <2>7, <2>9, AsManyThere
    <3>2. Cardinality(Of(r, e)) = Cardinality(X)
      BY <2>2, <2>8, <2>9, AsManyThere
    <3> QED
      BY <3>1, <3>2
  <2>12. Cardinality(1 .. Len(r)) = Len(r)
    BY <2>2, RangeSize
  <2>13. Len(r) <= k /\ Cardinality(Of(r, e)) <= quota /\ Cardinality(Of(r, e)) \in Nat
    <3>1. IsFiniteSet(Of(r, e))
      BY <2>2, <2>9, RangeSize, FS_Subset
    <3> QED
      BY <3>1, <1>10, <1>12, FS_CardinalityType DEF r
  <2>14. Len(r) >= k \/ Cardinality(Of(r, e)) >= quota
    BY <2>1 DEF Refused, Of
  <2>15. Cardinality(A) = k \/ Cardinality(B) = quota
    BY <2>2, <2>10, <2>11, <2>12, <2>13, <2>14
  <2> QED
    BY <2>15 DEF A, B
<1>15. Range(f[n]) \subseteq Range(list)
  <2>1. \A x : x \in Range(f[n]) <=> \E j \in 1 .. n : x = list[j] /\ Took(f, list, j)
    BY <1>9, <1>10 DEF Gathered
  <2>2. \A x : x \in Range(list) <=> \E j \in 1 .. n : x = list[j]
    BY DEF Range
  <2> QED
    BY <2>1, <2>2
<1>16. \A d : Cardinality({i \in DOMAIN f[n] : doc[f[n][i]] = d}) <= quota
  BY <1>10, <1>12
<1> HIDE DEF Of
<1> QED
  BY <1>6, <1>10, <1>11, <1>14, <1>15, <1>16 DEF KeepsBest

-----------------------------------------------------------------------------
(* Fusion *)

LEMMA ExactDivision == \A q \in Nat, d \in Nat \ {0} : (q * d) \div d = q
<1> SUFFICES ASSUME NEW q \in Nat, NEW d \in Nat \ {0} PROVE (q * d) \div d = q
  OBVIOUS
<1> DEFINE a == q * d
           x == a \div d
           y == a % d
<1>1. a \in Nat /\ x \in Int /\ y \in 0 .. d - 1 /\ a = d * x + y
  OBVIOUS
<1> HIDE DEF x, y
<1>2. CASE x > q
  <2>1. d * x >= d * (q + 1)
    BY <1>1, <1>2
  <2>2. d * (q + 1) = q * d + d
    OBVIOUS
  <2> QED
    BY <1>1, <2>1, <2>2
<1>3. CASE x < q
  <2>1. d * (x + 1) <= d * q
    BY <1>1, <1>3
  <2>2. d * (x + 1) = d * x + d /\ d * q = q * d
    BY <1>1
  <2> QED
    BY <1>1, <2>1, <2>2
<1> QED
  BY <1>1, <1>2, <1>3 DEF x

(* The scale is a multiple of every denominator.                           *)
Multiple(a, d) == \E q \in Nat \ {0} : a = q * d

LEMMA ScaleExact ==
  ASSUME NEW lists, NEW n \in Nat, n = Larger(Len(lists[1]), Len(lists[2]))
  PROVE  Scale(lists) \in Nat \ {0} /\ \A r \in 1 .. n : Multiple(Scale(lists), RRF_K + r)
<1> DEFINE Loop(f) == [r \in 0 .. n |-> IF r = 0 THEN 1 ELSE f[r - 1] * (RRF_K + r)]
           Solves(f, m) == f[0] = 1 /\ \A r \in 1 .. m : f[r] = f[r - 1] * (RRF_K + r)
           Good(f, m) == f \in [0 .. m -> Nat \ {0}] /\ Solves(f, m)
           Bad == {m \in 0 .. n : ~ \E f : Good(f, m)}
<1>1. Bad = {}
  <2>1. SUFFICES ASSUME Bad # {} PROVE FALSE
    OBVIOUS
  <2>2. Bad \subseteq Nat
    OBVIOUS
  <2>3. PICK m \in Bad : \A l \in Bad : m <= l
    BY <2>1, <2>2, LeastNat
  <2>4. m \in 0 .. n /\ ~ \E f : Good(f, m)
    BY <2>3
  <2>5. m # 0
    <3> SUFFICES ASSUME m = 0 PROVE FALSE
      OBVIOUS
    <3> DEFINE f == [r \in 0 .. 0 |-> 1]
    <3>1. f \in [0 .. m -> Nat \ {0}] /\ f[0] = 1 /\ 1 .. m = {}
      OBVIOUS
    <3> QED
      BY <3>1, <2>4
  <2>6. m - 1 \in 0 .. n /\ m - 1 \notin Bad
    <3> HIDE DEF Bad
    <3>1. m - 1 \in 0 .. n /\ ~(m <= m - 1)
      BY <2>4, <2>5
    <3> QED
      BY <3>1, <2>3
  <2>7. PICK f : Good(f, m - 1)
    BY <2>6
  <2> HIDE DEF Bad
  <2> DEFINE g == [r \in 0 .. m |-> IF r = m THEN f[m - 1] * (RRF_K + m) ELSE f[r]]
  <2>8. f[m - 1] \in Nat \ {0} /\ RRF_K + m \in Nat \ {0}
    BY <2>4, <2>5, <2>7 DEF RRF_K
  <2>9. f[m - 1] * (RRF_K + m) \in Nat \ {0}
    BY <2>8
  <2>10. g \in [0 .. m -> Nat \ {0}] /\ g[m] = f[m - 1] * (RRF_K + m) /\ \A r \in 0 .. m - 1 : g[r] = f[r]
    BY <2>4, <2>5, <2>7, <2>9
  <2> HIDE DEF g
  <2>11. g[0] = 1
    BY <2>4, <2>5, <2>7, <2>10
  <2>12. ASSUME NEW r \in 1 .. m PROVE g[r] = g[r - 1] * (RRF_K + r)
    <3>1. CASE r = m
      <4>1. g[m - 1] = f[m - 1]
        BY <2>4, <2>5, <2>10
      <4> QED
        BY <4>1, <3>1, <2>10
    <3>2. CASE r # m
      <4>1. r \in 1 .. m - 1 /\ r \in 0 .. m - 1 /\ r - 1 \in 0 .. m - 1
        BY <3>2, <2>4
      <4> QED
        BY <4>1, <2>7, <2>10
    <3> QED
      BY <3>1, <3>2
  <2> QED
    BY <2>10, <2>11, <2>12, <2>4
<1>2. PICK g : Good(g, n)
  <2>1. n \in 0 .. n
    OBVIOUS
  <2> QED
    BY <1>1, <2>1
<1>3. g = Loop(g)
  <2>1. \A r \in 0 .. n : r = 0 \/ r \in 1 .. n
    OBVIOUS
  <2> QED
    BY <1>2, <2>1
<1> DEFINE f == CHOOSE product : product = Loop(product)
<1>4. f = Loop(f)
  BY <1>3
<1>5. Scale(lists) = f[n]
  BY DEF Scale
<1> HIDE DEF f
<1>6. Solves(f, n)
  <2>1. 0 \in 0 .. n /\ \A r \in 1 .. n : r \in 0 .. n /\ r # 0
    OBVIOUS
  <2> QED
    BY <2>1, <1>4
<1> HIDE DEF Loop, Bad, Good
<1> DEFINE P(i) == f[i] \in Nat \ {0} /\ \A r \in 1 .. i : Multiple(f[i], RRF_K + r)
           Others == {i \in 0 .. n : ~P(i)}
<1>7. SUFFICES ASSUME Others # {} PROVE FALSE
  <2>1. n \in 0 .. n
    OBVIOUS
  <2>2. P(n)
    BY <1>7, <2>1
  <2> QED
    BY <2>2, <1>5
<1>8. Others \subseteq Nat
  OBVIOUS
<1>9. PICK i \in Others : \A l \in Others : i <= l
  BY <1>7, <1>8, LeastNat
<1>10. i \in 0 .. n /\ ~P(i)
  BY <1>9
<1>11. i # 0
  <2> SUFFICES ASSUME i = 0 PROVE FALSE
    OBVIOUS
  <2>1. f[i] = 1 /\ 1 .. i = {}
    BY <1>6
  <2> QED
    BY <2>1, <1>10
<1>12. i \in 1 .. n /\ P(i - 1)
  <2>1. i \in 1 .. n /\ i - 1 \in 0 .. n /\ ~(i <= i - 1)
    BY <1>10, <1>11
  <2>2. i - 1 \notin Others
    <3> HIDE DEF Others
    <3> QED
      BY <2>1, <1>9
  <2> QED
    BY <2>1, <2>2
<1> HIDE DEF Others
<1>13. f[i] = f[i - 1] * (RRF_K + i) /\ f[i - 1] \in Nat \ {0} /\ RRF_K + i \in Nat \ {0}
  BY <1>6, <1>12 DEF RRF_K
<1>14. f[i] \in Nat \ {0}
  BY <1>13
<1>15. ASSUME NEW r \in 1 .. i PROVE Multiple(f[i], RRF_K + r)
  <2>1. CASE r = i
    BY <2>1, <1>13 DEF Multiple
  <2>2. CASE r # i
    <3>1. r \in 1 .. i - 1
      BY <2>2, <1>12
    <3>2. PICK q \in Nat \ {0} : f[i - 1] = q * (RRF_K + r)
      BY <3>1, <1>12 DEF Multiple
    <3>3. q * (RRF_K + i) \in Nat \ {0} /\ RRF_K + r \in Nat \ {0}
      BY <1>13, <3>1 DEF RRF_K
    <3>4. f[i] = (q * (RRF_K + i)) * (RRF_K + r)
      BY <1>13, <3>2, <3>3
    <3> QED
      BY <3>3, <3>4 DEF Multiple
  <2> QED
    BY <2>1, <2>2
<1> QED
  BY <1>10, <1>14, <1>15

(* How the searches rank two ids, as BestFirst has it.                     *)
Rank(l, id) == IF id \in Range(l) THEN CHOOSE r \in DOMAIN l : l[r] = id ELSE 0
Ahead(l, a, b) == Rank(l, a) # 0 /\ (Rank(l, b) = 0 \/ Rank(l, a) < Rank(l, b))

LEMMA ShareFollowsRank ==
  ASSUME NEW S, NEW list \in Seq(S), NEW scale \in Nat \ {0},
         \A r \in 1 .. Len(list) : Multiple(scale, RRF_K + r)
  PROVE  /\ \A a : Share(list, a, scale) \in Nat
         /\ \A a : Rank(list, a) = 0 => Share(list, a, scale) = 0
         /\ \A a, b : Ahead(list, a, b) => Share(list, a, scale) > Share(list, b, scale)
<1> DEFINE n == Len(list)
<1>1. ASSUME NEW a, a \in Range(list)
      PROVE  /\ Rank(list, a) \in 1 .. n
             /\ \E q \in Nat \ {0} : Share(list, a, scale) = q /\ scale = q * (RRF_K + Rank(list, a))
  <2>1. \E r \in DOMAIN list : list[r] = a
    BY <1>1 DEF Range
  <2>2. Rank(list, a) \in 1 .. n
    BY <2>1, <1>1 DEF Rank
  <2>3. PICK q \in Nat \ {0} : scale = q * (RRF_K + Rank(list, a))
    BY <2>2 DEF Multiple
  <2>4. Share(list, a, scale) = scale \div (RRF_K + Rank(list, a))
    BY <1>1 DEF Share, Rank
  <2>5. RRF_K + Rank(list, a) \in Nat \ {0}
    BY <2>2 DEF RRF_K
  <2>6. scale \div (RRF_K + Rank(list, a)) = q
    BY <2>3, <2>5, ExactDivision
  <2> QED
    BY <2>2, <2>3, <2>4, <2>6
<1>2. ASSUME NEW a, a \notin Range(list) PROVE Rank(list, a) = 0 /\ Share(list, a, scale) = 0
  BY <1>2 DEF Rank, Share
<1>3. ASSUME NEW a, NEW b, Ahead(list, a, b) PROVE Share(list, a, scale) > Share(list, b, scale)
  <2>1. a \in Range(list)
    BY <1>2, <1>3 DEF Ahead
  <2>2. PICK q \in Nat \ {0} : Share(list, a, scale) = q /\ scale = q * (RRF_K + Rank(list, a))
    BY <2>1, <1>1
  <2>3. CASE b \notin Range(list)
    BY <2>2, <2>3, <1>2
  <2>4. CASE b \in Range(list)
    <3>1. PICK p \in Nat \ {0} : Share(list, b, scale) = p /\ scale = p * (RRF_K + Rank(list, b))
      BY <2>4, <1>1
    <3>2. PICK c, d \in Nat \ {0} : c = RRF_K + Rank(list, a) /\ d = RRF_K + Rank(list, b) /\ c < d
      <4>1. Rank(list, a) \in 1 .. n /\ Rank(list, b) \in 1 .. n /\ Rank(list, a) < Rank(list, b)
        BY <2>1, <2>4, <1>1, <1>3 DEF Ahead
      <4> QED
        BY <4>1 DEF RRF_K
    <3>3. q * c = p * d
      BY <2>2, <3>1, <3>2
    <3>4. q > p
      <4> SUFFICES ASSUME q <= p PROVE FALSE
        OBVIOUS
      <4>1. q * c <= p * c
        OBVIOUS
      <4>2. p * c < p * d
        BY <3>2
      <4> QED
        BY <4>1, <4>2, <3>3
    <3> QED
      BY <2>2, <3>1, <3>4
  <2> QED
    BY <2>3, <2>4
<1> QED
  BY <1>1, <1>2, <1>3

Candidates(list) == list \in Seq(Ids) /\ NoRepetition(list)

LEMMA IdsFinite == \A T \in SUBSET Ids : IsFiniteSet(T) /\ Cardinality(T) \in Nat /\ T \subseteq Int
BY CallAssumption, FS_Subset, FS_CardinalityType DEF Ids

(* The fused ranking has the ids of both lists, best first, and of those   *)
(* the first k are kept.                                                   *)
Better(lists, a, b) ==
  /\ \A l \in 1 .. 2 : Ahead(lists[l], a, b) \/ (Rank(lists[l], a) = 0 /\ Rank(lists[l], b) = 0)
  /\ \E l \in 1 .. 2 : Ahead(lists[l], a, b)

Fuses(fused, lists, ids, k) ==
  /\ Candidates(fused) /\ Range(fused) \subseteq ids
  /\ Len(fused) = Smaller(k, Cardinality(ids)) /\ Cardinality(ids) \in Nat
  /\ \A a \in ids, i \in 1 .. Len(fused) : Score(lists, a) > Score(lists, fused[i]) =>
       \E j \in 1 .. i - 1 : fused[j] = a
  /\ \A a, b : Better(lists, a, b) => a \in ids /\ Score(lists, a) > Score(lists, b)

LEMMA FusedIs ==
  ASSUME NEW lists, Candidates(lists[1]), Candidates(lists[2]), NEW k \in Nat
  PROVE  Fuses(FuseRankedIds(lists, k), lists, Range(lists[1]) \cup Range(lists[2]), k)
<1> DEFINE ids == Range(lists[1]) \cup Range(lists[2])
           fused == FuseRankedIds(lists, k)
           R == ReciprocalRankFusion(lists)
           m == Cardinality(ids)
           score == [id \in ids |-> Score(lists, id)]
           scale == Scale(lists)
           n == Larger(Len(lists[1]), Len(lists[2]))
<1>1. /\ lists[1] \in Seq(Ids) /\ Len(lists[1]) \in Nat /\ n \in Nat /\ Len(lists[1]) <= n
      /\ lists[2] \in Seq(Ids) /\ Len(lists[2]) \in Nat /\ Len(lists[2]) <= n
  BY DEF Candidates, Larger
<1>2. ids \in SUBSET Ids
  BY <1>1 DEF Range
<1>3. IsFiniteSet(ids) /\ m \in Nat /\ ids \in SUBSET Int
  BY <1>2, IdsFinite
<1>4. scale \in Nat \ {0} /\ \A r \in 1 .. n : Multiple(scale, RRF_K + r)
  BY <1>1, ScaleExact
<1> HIDE DEF ids, m, scale, n
<1>5. ASSUME NEW l \in 1 .. 2
      PROVE  /\ \A a : Share(lists[l], a, scale) \in Nat
             /\ \A a : Rank(lists[l], a) = 0 => Share(lists[l], a, scale) = 0
             /\ \A a, b : Ahead(lists[l], a, b) => Share(lists[l], a, scale) > Share(lists[l], b, scale)
  <2>1. lists[l] \in Seq(Ids) /\ \A r \in 1 .. Len(lists[l]) : r \in 1 .. n
    BY <1>1
  <2> QED
    BY <2>1, <1>4, ShareFollowsRank
<1>6. \A a : Score(lists, a) = Share(lists[1], a, scale) + Share(lists[2], a, scale)
  BY DEF Score, scale
<1>7. \A a : Score(lists, a) \in Nat
  BY <1>5, <1>6
<1>8. score \in [ids -> Int]
  BY <1>7
<1>9. R = ByScore(ids, score)
  BY DEF ReciprocalRankFusion, ids
<1> HIDE DEF R, score
<1>10. /\ R \in [1 .. m -> ids]
       /\ \A i, j \in 1 .. m : i < j => Before(score, R[i], R[j])
       /\ \A a \in ids : \E i \in 1 .. m : R[i] = a
  BY <1>3, <1>8, <1>9, SortedByScore DEF m
<1>11. \A a \in ids : score[a] = Score(lists, a) /\ score[a] \in Int /\ a \in Int
  BY <1>7, <1>3 DEF score
<1>12. R \in Seq(ids) /\ Len(R) = m
  BY <1>3, <1>10
<1> DEFINE s == Smaller(k, m)
<1>13. s \in 0 .. m /\ s <= k
  BY <1>3 DEF Smaller
<1>14. fused = SubSeq(R, 1, s)
  BY <1>12 DEF FuseRankedIds, R
<1> HIDE DEF fused, s
<1>15. /\ fused \in Seq(ids) /\ Len(fused) = s
       /\ \A i \in 1 .. s : fused[i] = R[i] /\ i \in 1 .. m
  BY <1>3, <1>12, <1>13, <1>14
<1>16. \A i, j \in 1 .. m : i < j => R[i] # R[j]
  BY <1>10, <1>11 DEF Before
<1>17. NoRepetition(fused)
  BY <1>3, <1>13, <1>15, <1>16 DEF NoRepetition
<1>18. ASSUME NEW a \in ids, NEW i \in 1 .. Len(fused), Score(lists, a) > Score(lists, fused[i])
       PROVE  \E j \in 1 .. i - 1 : fused[j] = a
  <2>1. i \in 1 .. s /\ i \in 1 .. m /\ fused[i] = R[i] /\ R[i] \in ids
    BY <1>10, <1>15
  <2>2. PICK j \in 1 .. m : R[j] = a
    BY <1>10
  <2>3. score[a] > score[R[i]]
    BY <2>1, <1>11, <1>18
  <2>4. ~(i < j) /\ i # j
    <3>1. i < j => Before(score, R[i], a)
      BY <2>1, <2>2, <1>10
    <3> QED
      BY <3>1, <2>1, <2>2, <2>3, <1>11 DEF Before
  <2>5. j \in 1 .. i - 1 /\ j \in 1 .. s
    BY <2>1, <2>2, <2>4, <1>3, <1>13
  <2> QED
    BY <2>2, <2>5, <1>15
<1>19. ASSUME NEW a, NEW b, Better(lists, a, b)
       PROVE  a \in ids /\ Score(lists, a) > Score(lists, b)
  <2>1. 1 \in 1 .. 2 /\ 2 \in 1 .. 2 /\ \A l \in 1 .. 2 : l = 1 \/ l = 2
    OBVIOUS
  <2>2. \A l \in 1 .. 2 : Share(lists[l], a, scale) >= Share(lists[l], b, scale)
    BY <1>5, <1>19 DEF Better
  <2>3. \E l \in 1 .. 2 : Share(lists[l], a, scale) > Share(lists[l], b, scale)
    BY <1>5, <1>19 DEF Better
  <2>4. Score(lists, a) > Score(lists, b)
    BY <2>1, <2>2, <2>3, <1>5, <1>6
  <2>5. a \in ids
    BY <1>19, <2>1 DEF Better, Ahead, Rank, ids
  <2> QED
    BY <2>4, <2>5
<1>20. Candidates(fused) /\ Range(fused) \subseteq ids
  <2>1. Range(fused) \subseteq ids /\ fused \in Seq(Ids)
    BY <1>2, <1>15 DEF Range
  <2> QED
    BY <2>1, <1>17 DEF Candidates
<1> QED
  BY <1>3, <1>15, <1>18, <1>19, <1>20 DEF Fuses, fused, ids, m, s

-----------------------------------------------------------------------------
(* Queries *)

(* The pools hold what is asked for, and the full-text and vector search   *)
(* are never asked for less than is fused.                                 *)
LEMMA PoolsSuffice ==
  ASSUME NEW a \in Args, ValidateQueryArgs(a)
  PROVE  /\ a.topk \in Nat \ {0} /\ PoolTarget(a) \in Nat /\ a.topk <= PoolTarget(a)
         /\ CandidatePool(PoolTarget(a)) \in Nat /\ PoolTarget(a) <= CandidatePool(PoolTarget(a))
<1>1. /\ MinPool \in Nat /\ DedupPool \in Nat /\ RerankPool \in Nat /\ MaxRerank \in Nat /\ PoolLimit \in Nat
      /\ MaxTopK \in Nat /\ PoolFactor \in Nat \ {0} /\ DedupFactor \in Nat \ {0}
      /\ MaxTopK <= PoolLimit /\ MaxRerank <= PoolLimit /\ RerankPool <= PoolLimit
  BY PoolAssumption
<1>2. a.topk \in Nat \ {0} /\ a.topk <= PoolLimit
  BY <1>1 DEF ValidateQueryArgs
<1>3. a.rerank \in BOOLEAN
  BY DEF Args
<1> DEFINE reranked == IF a.rerank THEN Larger(a.topk, ResolveRerankPool(a.pool, a.topk)) ELSE a.topk
<1>4. reranked \in Nat /\ a.topk <= reranked /\ reranked <= PoolLimit
  <2>1. CASE ~a.rerank
    BY <2>1, <1>2
  <2>2. CASE a.rerank
    <3>1. a.pool = Unset \/ (a.pool # Unset /\ a.pool \in 1 .. MaxRerank)
      BY <2>2 DEF ValidateQueryArgs, RerankPoolOK
    <3>2. PICK p \in Nat : p <= PoolLimit /\ p = IF a.pool = Unset THEN RerankPool ELSE a.pool
      BY <3>1, <1>1
    <3>3. ResolveRerankPool(a.pool, a.topk) = Larger(p, a.topk)
      BY <3>2 DEF ResolveRerankPool
    <3> QED
      BY <2>2, <3>2, <3>3, <1>1, <1>2 DEF Larger
  <2> QED
    BY <2>1, <2>2, <1>3
<1> HIDE DEF reranked
<1>5. ResolveDedupPool(a.topk) \in Nat /\ ResolveDedupPool(a.topk) <= PoolLimit
  <2>1. a.topk * DedupFactor \in Nat
    BY <1>1, <1>2
  <2> QED
    BY <2>1, <1>1 DEF ResolveDedupPool, Larger, Smaller
<1>6. PoolTarget(a) = IF a.quota = Unset THEN reranked ELSE Larger(reranked, ResolveDedupPool(a.topk))
  BY DEF PoolTarget, reranked
<1>7. PoolTarget(a) \in Nat /\ a.topk <= PoolTarget(a) /\ PoolTarget(a) <= PoolLimit
  BY <1>2, <1>4, <1>5, <1>6, <1>1 DEF Larger
<1>8. \A p \in Nat : p * PoolFactor \in Nat /\ p <= p * PoolFactor
  BY <1>1
<1>9. PICK p \in Nat : p = PoolTarget(a)
  BY <1>7
<1>10. CandidatePool(p) \in Nat /\ p <= CandidatePool(p)
  BY <1>1, <1>7, <1>8, <1>9 DEF CandidatePool, Larger, Smaller
<1> QED
  BY <1>2, <1>7, <1>9, <1>10

(* What a query holds between its reads.                                   *)
CheckingInv == job = "checking" => work = [args |-> work.args] /\ work.args \in Args

Reads ==
  /\ work.args \in Args /\ ValidateQueryArgs(work.args)
  /\ work.corpus \in Views

VectorInv ==
  job = "vector" =>
    /\ work = [args |-> work.args, corpus |-> work.corpus, disturbed |-> work.disturbed, vec |-> work.vec]
    /\ Reads /\ Candidates(work.vec)
    /\ ~work.disturbed =>
         /\ Range(work.vec) \subseteq Matching(work.corpus)
         /\ Len(work.vec) = Smaller(CandidatePool(PoolTarget(work.args)), Cardinality(Matching(work.corpus)))

FusedInv ==
  job = "fused" =>
    /\ work = [args |-> work.args, corpus |-> work.corpus, disturbed |-> work.disturbed,
               lists |-> work.lists, fused |-> work.fused]
    /\ Reads /\ Candidates(work.lists[1]) /\ Candidates(work.lists[2])
    /\ work.fused = FuseRankedIds(work.lists, PoolTarget(work.args))
    /\ ~work.disturbed =>
         /\ Range(work.lists[1]) \subseteq Matching(work.corpus)
         /\ Range(work.lists[2]) \subseteq Matching(work.corpus)
         /\ Len(work.lists[1]) = Smaller(CandidatePool(PoolTarget(work.args)), Cardinality(Matching(work.corpus)))

AnsweredInv ==
  job = "answered" =>
    /\ Reads /\ Candidates(work.ranked)
    /\ work.answer = Sliced(work.ranked, Doc, work.args)
    /\ ~work.disturbed =>
         /\ Range(work.ranked) \subseteq Matching(work.corpus)
         /\ Len(work.ranked) >= Smaller(work.args.topk, Cardinality(Matching(work.corpus)))

QueryInv == CheckingInv /\ VectorInv /\ FusedInv /\ AnsweredInv

LEMMA RankingsAre ==
  ASSUME NEW ids \in SUBSET Ids, NEW n \in Nat, NEW list \in Rankings(ids, n)
  PROVE  Candidates(list) /\ Range(list) \subseteq ids
<1>1. PICK s \in SUBSET ids : list \in SetToSeqs(s)
  BY DEF Rankings
<1>2. Cardinality(s) \in Nat
  BY <1>1, IdsFinite
<1>3. /\ list \in [1 .. Cardinality(s) -> s]
      /\ \A i, j \in 1 .. Cardinality(s) : i # j => list[i] # list[j]
  BY <1>1 DEF SetToSeqs
<1>4. list \in Seq(s) /\ Len(list) = Cardinality(s)
  BY <1>2, <1>3
<1>5. list \in Seq(Ids) /\ Range(list) \subseteq ids
  BY <1>4 DEF Range
<1> QED
  BY <1>3, <1>4, <1>5 DEF Candidates, NoRepetition

LEMMA MatchingIs == \A c : Matching(c) \in SUBSET Ids /\ Matching(c) \subseteq Present(c)
BY DEF Matching, Present

LEMMA VectorReads == ASSUME QueryInv, VectorCandidateIds PROVE VectorInv'
<1>1. /\ job = "checking" /\ ValidateQueryArgs(work.args) /\ job' = "vector"
      /\ work.args \in Args
  BY DEF QueryInv, CheckingInv, VectorCandidateIds
<1> DEFINE pool == CandidatePool(PoolTarget(work.args))
<1>2. PICK c \in Views : \E list \in Rankings(Matching(c), pool) :
        /\ Len(list) = Smaller(pool, Cardinality(Matching(c)))
        /\ work' = [args |-> work.args, corpus |-> c, disturbed |-> FALSE, vec |-> list]
  BY DEF VectorCandidateIds
<1>3. PICK list \in Rankings(Matching(c), pool) :
        /\ Len(list) = Smaller(pool, Cardinality(Matching(c)))
        /\ work' = [args |-> work.args, corpus |-> c, disturbed |-> FALSE, vec |-> list]
  BY <1>2
<1>4. pool \in Nat
  BY <1>1, PoolsSuffice
<1>5. Candidates(list) /\ Range(list) \subseteq Matching(c)
  BY <1>3, <1>4, MatchingIs, RankingsAre
<1>6. /\ work'.args = work.args /\ work'.corpus = c /\ work'.disturbed = FALSE /\ work'.vec = list
      /\ work' = [args |-> work'.args, corpus |-> work'.corpus, disturbed |-> work'.disturbed, vec |-> work'.vec]
  BY <1>3
<1> QED
  BY <1>1, <1>2, <1>3, <1>5, <1>6 DEF VectorInv, Reads

LEMMA LexicalReads == ASSUME QueryInv, LexicalCandidateIds PROVE FusedInv'
<1>1. /\ job = "vector" /\ job' = "fused" /\ VectorInv
      /\ Reads /\ Candidates(work.vec)
  BY DEF QueryInv, VectorInv, LexicalCandidateIds, LexicalFrom
<1> DEFINE pool == CandidatePool(PoolTarget(work.args))
           M == Matching(work.corpus)
<1>2. PICK list \in Rankings(M, pool) :
        work' = [args |-> work.args, corpus |-> work.corpus, disturbed |-> work.disturbed,
                 lists |-> <<work.vec, list>>,
                 fused |-> FuseRankedIds(<<work.vec, list>>, PoolTarget(work.args))]
  BY DEF LexicalCandidateIds, LexicalFrom
<1>3. pool \in Nat
  BY <1>1, PoolsSuffice DEF Reads
<1>4. Candidates(list) /\ Range(list) \subseteq M
  BY <1>2, <1>3, MatchingIs, RankingsAre
<1>5. PICK lists : lists = <<work.vec, list>>
  OBVIOUS
<1>6. lists[1] = work.vec /\ lists[2] = list
  BY <1>5
<1>7. work' = [args |-> work.args, corpus |-> work.corpus, disturbed |-> work.disturbed,
               lists |-> lists, fused |-> FuseRankedIds(lists, PoolTarget(work.args))]
  BY <1>2, <1>5
<1>8. /\ work'.args = work.args /\ work'.corpus = work.corpus /\ work'.disturbed = work.disturbed
      /\ work'.lists = lists /\ work'.fused = FuseRankedIds(lists, PoolTarget(work.args))
      /\ work' = [args |-> work'.args, corpus |-> work'.corpus, disturbed |-> work'.disturbed,
                  lists |-> work'.lists, fused |-> work'.fused]
  BY <1>7
<1> QED
  BY <1>1, <1>4, <1>6, <1>8 DEF VectorInv, FusedInv, Reads

LEMMA RankedIs == ASSUME QueryInv, Finalize PROVE AnsweredInv'
<1>1. job = "fused" /\ job' = "answered" /\ FusedInv
  BY DEF QueryInv, Finalize
<1> DEFINE a == work.args
           c == work.corpus
           M == Matching(c)
           k == PoolTarget(a)
           lists == work.lists
           ids == Range(lists[1]) \cup Range(lists[2])
           fused == work.fused
           rows == WithRows(fused, Present(c))
           R == Range(rows)
<1>2. PICK score \in [R -> IF a.rerank THEN 1 .. 2 ELSE {0}] :
        LET ranked == IF a.rerank THEN RerankOrder(rows, score) ELSE rows
        IN work' = [args |-> a, corpus |-> c, disturbed |-> work.disturbed,
                    ranked |-> ranked, answer |-> Sliced(ranked, Doc, a)]
  BY DEF Finalize
<1> DEFINE ranked == IF a.rerank THEN RerankOrder(rows, score) ELSE rows
<1>3. /\ a \in Args /\ ValidateQueryArgs(a) /\ c \in Views
      /\ Candidates(lists[1]) /\ Candidates(lists[2]) /\ fused = FuseRankedIds(lists, k)
  BY <1>1 DEF FusedInv, Reads
<1>4. /\ a.topk \in Nat \ {0} /\ k \in Nat /\ a.topk <= k
      /\ CandidatePool(k) \in Nat /\ k <= CandidatePool(k)
  BY <1>3, PoolsSuffice
<1>5. /\ Candidates(fused) /\ Range(fused) \subseteq ids
      /\ Len(fused) = Smaller(k, Cardinality(ids)) /\ Cardinality(ids) \in Nat
  <2>1. Fuses(fused, lists, ids, k)
    BY <1>3, <1>4, FusedIs
  <2> QED
    BY <2>1 DEF Fuses
<1>6. /\ rows \in Seq(Ids) /\ NoRepetition(rows) /\ R = Range(fused) \cap Present(c)
  BY <1>5, WhatHasRows DEF Candidates
<1>7. R \in SUBSET Int /\ IsFiniteSet(R) /\ Cardinality(R) \in Nat /\ R \in SUBSET Ids
  <2>1. R \in SUBSET Ids
    BY <1>6 DEF Range
  <2> QED
    BY <2>1, IdsFinite
<1>8. Cardinality(R) = Len(rows) /\ Len(rows) \in Nat
  <2>1. \A x : x \in R <=> \E q \in 1 .. Len(rows) : x = rows[q]
    BY <1>6 DEF Range
  <2>2. Len(rows) \in Nat /\ 1 .. Len(rows) \in SUBSET (1 .. Len(rows))
    BY <1>6
  <2> HIDE DEF rows, R
  <2>3. Cardinality(1 .. Len(rows)) = Cardinality(R)
    BY <2>1, <2>2, <1>6, AsManyThere
  <2> QED
    BY <2>2, <2>3, RangeSize
<1> HIDE DEF rows, R, ids
<1>9. Candidates(ranked) /\ Range(ranked) = R /\ Len(ranked) = Len(rows)
  <2>1. CASE ~a.rerank
    BY <2>1, <1>6 DEF Candidates, R
  <2>2. CASE a.rerank
    <3> DEFINE g == ByScore(R, score)
               n == Cardinality(R)
    <3>1. ranked = g
      BY <2>2 DEF RerankOrder, R
    <3>2. score \in [R -> Int]
      BY <1>2, <2>2
    <3>3. /\ g \in [1 .. n -> R]
          /\ \A i, j \in 1 .. n : i < j => Before(score, g[i], g[j])
          /\ \A x \in R : \E i \in 1 .. n : g[i] = x
      BY <3>2, <1>7, SortedByScore
    <3> HIDE DEF g, ranked
    <3>4. g \in Seq(Ids) /\ Len(g) = n
      BY <3>3, <1>7
    <3>5. Range(g) = R
      BY <3>3, <3>4 DEF Range
    <3>6. \A x \in R : score[x] \in Int /\ x \in Int
      BY <3>2, <1>7
    <3>7. ASSUME NEW i \in 1 .. n, NEW j \in 1 .. n, i < j PROVE g[i] # g[j]
      BY <3>3, <3>6, <3>7 DEF Before
    <3>8. NoRepetition(g)
      BY <3>4, <3>7, <1>7 DEF NoRepetition
    <3> QED
      BY <3>1, <3>4, <3>5, <3>8, <1>8 DEF Candidates
  <2> QED
    BY <2>1, <2>2
<1>10. /\ work'.args = a /\ work'.corpus = c /\ work'.disturbed = work.disturbed
       /\ work'.ranked = ranked /\ work'.answer = Sliced(ranked, Doc, a)
  <2>1. work' = [args |-> a, corpus |-> c, disturbed |-> work.disturbed,
                 ranked |-> ranked, answer |-> Sliced(ranked, Doc, a)]
    BY <1>2 DEF rows
  <2> HIDE DEF ranked
  <2> QED
    BY <2>1
<1> HIDE DEF ranked
<1>11. ASSUME ~work.disturbed
       PROVE  R \subseteq M /\ Len(rows) >= Smaller(a.topk, Cardinality(M))
  <2>1. /\ Range(lists[1]) \subseteq M /\ Range(lists[2]) \subseteq M
        /\ Len(lists[1]) = Smaller(CandidatePool(k), Cardinality(M))
    BY <1>1, <1>11 DEF FusedInv
  <2>2. ids \in SUBSET M /\ M \in SUBSET Ids /\ M \subseteq Present(c)
    BY <2>1, MatchingIs DEF ids
  <2>3. R \subseteq M /\ R = Range(fused)
    BY <1>5, <1>6, <2>2
  <2>4. Cardinality(M) \in Nat /\ IsFiniteSet(ids)
    BY <2>2, IdsFinite
  <2>5. Cardinality(Range(lists[1])) = Len(lists[1]) /\ Len(lists[1]) \in Nat
    <3>1. lists[1] \in Seq(Ids) /\ \A i, j \in 1 .. Len(lists[1]) : lists[1][i] = lists[1][j] => i = j
      BY <1>3 DEF Candidates, NoRepetition
    <3>2. Len(lists[1]) \in Nat
      BY <3>1
    <3>3. \A x : x \in Range(lists[1]) <=> \E q \in 1 .. Len(lists[1]) : x = lists[1][q]
      BY <3>1 DEF Range
    <3>4. 1 .. Len(lists[1]) \in SUBSET (1 .. Len(lists[1])) /\ NoRepetition(lists[1])
      BY <3>1 DEF NoRepetition
    <3>5. Cardinality(1 .. Len(lists[1])) = Cardinality(Range(lists[1]))
      BY <3>1, <3>3, <3>4, AsManyThere
    <3> QED
      BY <3>2, <3>5, RangeSize
  <2>6. Len(lists[1]) <= Cardinality(ids)
    <3>1. Range(lists[1]) \in SUBSET ids
      BY DEF ids
    <3> QED
      BY <3>1, <2>4, <2>5, FS_Subset
  <2>7. Len(fused) = Len(rows)
    <3>1. fused \in Seq(Ids) /\ NoRepetition(fused)
      BY <1>5 DEF Candidates
    <3>2. Len(fused) \in Nat /\ 1 .. Len(fused) \in SUBSET (1 .. Len(fused))
      BY <3>1
    <3>3. \A x : x \in Range(fused) <=> \E q \in 1 .. Len(fused) : x = fused[q]
      BY <3>1 DEF Range
    <3>4. Cardinality(1 .. Len(fused)) = Cardinality(Range(fused))
      BY <3>1, <3>2, <3>3, AsManyThere
    <3> QED
      BY <3>2, <3>4, <2>3, <1>8, RangeSize
  <2>8. Smaller(k, Cardinality(ids)) >= Smaller(a.topk, Cardinality(M))
    BY <1>4, <1>5, <2>1, <2>4, <2>5, <2>6 DEF Smaller
  <2> QED
    BY <2>3, <2>7, <2>8, <1>5
<1> QED
  BY <1>1, <1>3, <1>9, <1>10, <1>11 DEF AnsweredInv, Reads

-----------------------------------------------------------------------------
(* What a call holds *)

MessageInv ==
  job = "messages" =>
    /\ work = [left |-> work.left, taken |-> work.taken, stream |-> work.stream]
    /\ work.left \in Nat /\ work.taken \in Nat /\ work.taken + work.left <= Cardinality(Nodes)

Stages == {"idle", "walk", "messages", "prose", "checking", "vector", "fused", "answered"}

CallInv == job \in Stages /\ WalkInv /\ MessageInv /\ QueryInv

(* A chain is no longer than there are nodes.                              *)
LEMMA ChainFits ==
  ASSUME WalkInv, job = "walk"
  PROVE  /\ work.at \in Nodes \cup {None} /\ work.chain \in Seq(Nodes)
         /\ Len(work.chain) \in 0 .. Cardinality(Nodes) /\ Cardinality(Nodes) \in Nat
         /\ Len(Thread(work)) = Len(work.chain)
<1>1. /\ work.at \in Nodes \cup {None} /\ work.chain \in Seq(Nodes)
      /\ \A i, j \in 1 .. Len(work.chain) : work.chain[i] = work.chain[j] => i = j
  BY DEF WalkInv
<1>2. Cardinality(Range(work.chain)) = Len(work.chain)
  BY <1>1, RangeOfInjective
<1>3. Range(work.chain) \in SUBSET Nodes /\ Len(work.chain) \in Nat
  BY <1>1 DEF Range
<1>4. Cardinality(Range(work.chain)) <= Cardinality(Nodes) /\ Cardinality(Nodes) \in Nat
  BY <1>3, CallAssumption, FS_Subset, FS_CardinalityType
<1>5. Len(Thread(work)) = Len(work.chain)
  BY <1>1, <1>3 DEF Thread, Reverse
<1> QED
  BY <1>1, <1>2, <1>3, <1>4, <1>5

LEMMA MessageStep == WalkInv /\ MessageInv /\ [CallNext]_callVars => MessageInv'
<1> SUFFICES ASSUME WalkInv, MessageInv, [CallNext]_callVars, job' = "messages" PROVE MessageInv'
  BY DEF MessageInv
<1>1. CASE UNCHANGED callVars
  BY <1>1 DEF MessageInv, callVars
<1>2. CASE Linearized
  <2>1. job = "walk" /\ work' = [left |-> Len(Thread(work)), taken |-> 0, stream |-> NoMessages]
    BY <1>2 DEF Linearized
  <2>2. Len(Thread(work)) \in Nat /\ Len(Thread(work)) <= Cardinality(Nodes)
    BY <2>1, ChainFits
  <2>3. work'.left = Len(Thread(work)) /\ work'.taken = 0 /\ work'.stream = NoMessages
    BY <2>1
  <2> QED
    BY <2>1, <2>2, <2>3 DEF MessageInv
<1>3. CASE TakeMessage
  <2>1. /\ job = "messages" /\ work.left > 0
        /\ \E s : work' = [left |-> work.left - 1, taken |-> work.taken + 1, stream |-> s]
    BY <1>3 DEF TakeMessage
  <2>2. PICK s : work' = [left |-> work.left - 1, taken |-> work.taken + 1, stream |-> s]
    BY <2>1
  <2>3. /\ work.left \in Nat /\ work.taken \in Nat /\ work.taken + work.left <= Cardinality(Nodes)
        /\ Cardinality(Nodes) \in Nat
    BY <2>1, CallAssumption, FS_CardinalityType DEF MessageInv
  <2>4. work'.left = work.left - 1 /\ work'.taken = work.taken + 1 /\ work'.stream = s
    BY <2>2
  <2> QED
    BY <2>1, <2>2, <2>3, <2>4 DEF MessageInv
<1>4. CASE DropMessage
  <2>1. /\ job = "messages" /\ work.left > 0
        /\ work' = [left |-> work.left - 1, taken |-> work.taken, stream |-> work.stream]
    BY <1>4 DEF DropMessage, MessageInv
  <2>2. /\ work.left \in Nat /\ work.taken \in Nat /\ work.taken + work.left <= Cardinality(Nodes)
        /\ Cardinality(Nodes) \in Nat
    BY <2>1, CallAssumption, FS_CardinalityType DEF MessageInv
  <2>3. work'.left = work.left - 1 /\ work'.taken = work.taken /\ work'.stream = work.stream
    BY <2>1
  <2> QED
    BY <2>1, <2>2, <2>3 DEF MessageInv
<1> QED
  BY <1>1, <1>2, <1>3, <1>4
  DEF CallNext, OpenConversation, Walk, CloseConversation, OpenText, TakeParagraph,
      CloseText, StartQuery, RefuseQuery, VectorCandidateIds, LexicalCandidateIds, LexicalFrom,
      Finalize, ReturnQuery, Ingest, Begin, End, MessageInv

LEMMA StageStep == job \in Stages /\ [CallNext]_callVars => job' \in Stages
BY DEF CallNext, callVars, Stages, OpenConversation, Walk, Linearized, TakeMessage, DropMessage, CloseConversation,
       OpenText, TakeParagraph, CloseText, StartQuery, RefuseQuery, VectorCandidateIds, LexicalCandidateIds,
       LexicalFrom, Finalize, ReturnQuery, Ingest, Begin, End

(* Another call may change the corpus; the query is then disturbed, and    *)
(* what it has read stays as it was.                                       *)
LEMMA IngestKeepsReads == ASSUME QueryInv, Ingest PROVE VectorInv' /\ FusedInv' /\ job' \in {"vector", "fused"}
<1>1. /\ job \in {"vector", "fused"} /\ job' = job
      /\ \E c \in Views : work' = [work EXCEPT !.corpus = c, !.disturbed = TRUE]
  BY DEF Ingest
<1>2. PICK c \in Views : work' = [work EXCEPT !.corpus = c, !.disturbed = TRUE]
  BY <1>1
<1>3. CASE job = "vector"
  <2>1. VectorInv
    BY DEF QueryInv
  <2>2. work' = [args |-> work.args, corpus |-> c, disturbed |-> TRUE, vec |-> work.vec]
    BY <2>1, <1>2, <1>3 DEF VectorInv
  <2>3. work'.args = work.args /\ work'.corpus = c /\ work'.disturbed = TRUE /\ work'.vec = work.vec
    BY <2>2
  <2> QED
    BY <2>1, <2>2, <2>3, <1>1, <1>3 DEF VectorInv, FusedInv, Reads
<1>4. CASE job = "fused"
  <2>1. FusedInv
    BY DEF QueryInv
  <2>2. work' = [args |-> work.args, corpus |-> c, disturbed |-> TRUE, lists |-> work.lists, fused |-> work.fused]
    BY <2>1, <1>2, <1>4 DEF FusedInv
  <2>3. /\ work'.args = work.args /\ work'.corpus = c /\ work'.disturbed = TRUE
        /\ work'.lists = work.lists /\ work'.fused = work.fused
    BY <2>2
  <2> QED
    BY <2>1, <2>2, <2>3, <1>1, <1>4 DEF VectorInv, FusedInv, Reads
<1> QED
  BY <1>1, <1>3, <1>4

LEMMA QueryStep == QueryInv /\ [CallNext]_callVars => QueryInv'
<1> SUFFICES ASSUME QueryInv, [CallNext]_callVars PROVE QueryInv'
  OBVIOUS
<1>1. CASE UNCHANGED callVars
  BY <1>1 DEF QueryInv, CheckingInv, VectorInv, FusedInv, AnsweredInv, Reads, callVars
<1>2. CASE StartQuery
  <2>1. PICK a \in Args : job' = "checking" /\ work' = [args |-> a]
    BY <1>2 DEF StartQuery, Begin
  <2>2. work'.args = a
    BY <2>1
  <2> QED
    BY <2>1, <2>2 DEF QueryInv, CheckingInv, VectorInv, FusedInv, AnsweredInv
<1>3. CASE VectorCandidateIds
  <2>1. VectorInv' /\ job' = "vector"
    BY <1>3, VectorReads DEF VectorCandidateIds
  <2> QED
    BY <2>1 DEF QueryInv, CheckingInv, FusedInv, AnsweredInv
<1>4. CASE LexicalCandidateIds
  <2>1. FusedInv' /\ job' = "fused"
    BY <1>4, LexicalReads DEF LexicalCandidateIds, LexicalFrom
  <2> QED
    BY <2>1 DEF QueryInv, CheckingInv, VectorInv, AnsweredInv
<1>5. CASE Finalize
  <2>1. AnsweredInv' /\ job' = "answered"
    BY <1>5, RankedIs DEF Finalize
  <2> QED
    BY <2>1 DEF QueryInv, CheckingInv, VectorInv, FusedInv
<1>6. CASE Ingest
  <2>1. VectorInv' /\ FusedInv' /\ job' \in {"vector", "fused"}
    BY <1>6, IngestKeepsReads
  <2> QED
    BY <2>1 DEF QueryInv, CheckingInv, AnsweredInv
<1>7. CASE job' \in {"idle", "walk", "messages", "prose"}
  BY <1>7 DEF QueryInv, CheckingInv, VectorInv, FusedInv, AnsweredInv
<1> QED
  BY <1>1, <1>2, <1>3, <1>4, <1>5, <1>6, <1>7
  DEF CallNext, OpenConversation, Walk, Linearized, TakeMessage, DropMessage, CloseConversation, OpenText,
      TakeParagraph, CloseText, RefuseQuery, ReturnQuery, Begin, End

LEMMA CallInvHolds == CallSpec => []CallInv
<1>1. CallInit => CallInv
  BY DEF CallInit, CallInv, Stages, WalkInv, MessageInv, QueryInv, CheckingInv, VectorInv, FusedInv, AnsweredInv
<1>2. CallInv /\ [CallNext]_callVars => CallInv'
  BY StageStep, WalkStep, MessageStep, QueryStep DEF CallInv
<1> QED
  BY <1>1, <1>2, PTL DEF CallSpec

-----------------------------------------------------------------------------
(* What follows *)

LEMMA InvCallTypes == CallInv => CallTypeOK
<1> SUFFICES ASSUME CallInv PROVE CallTypeOK
  OBVIOUS
<1>1. ASSUME job = "walk"
      PROVE  work.at \in Nodes \cup {None} /\ work.chain \in SeqOf(Nodes, Cardinality(Nodes))
  <2>1. /\ work.at \in Nodes \cup {None} /\ work.chain \in Seq(Nodes)
        /\ Len(work.chain) \in 0 .. Cardinality(Nodes)
    BY <1>1, ChainFits DEF CallInv
  <2>2. work.chain \in [1 .. Len(work.chain) -> Nodes]
    BY <2>1
  <2> QED
    BY <2>1, <2>2 DEF SeqOf
<1>2. job = "messages" => work.taken + work.left <= Cardinality(Nodes)
  BY DEF CallInv, MessageInv
<1>3. ASSUME job = "fused" PROVE Len(work.fused) <= PoolTarget(work.args)
  <2>1. /\ Reads /\ Candidates(work.lists[1]) /\ Candidates(work.lists[2])
        /\ work.fused = FuseRankedIds(work.lists, PoolTarget(work.args))
    BY <1>3 DEF CallInv, QueryInv, FusedInv
  <2>2. PoolTarget(work.args) \in Nat
    BY <2>1, PoolsSuffice DEF Reads
  <2> DEFINE ids == Range(work.lists[1]) \cup Range(work.lists[2])
  <2>3. Fuses(work.fused, work.lists, ids, PoolTarget(work.args))
    BY <2>1, <2>2, FusedIs
  <2>4. Cardinality(ids) \in Nat /\ Len(work.fused) = Smaller(PoolTarget(work.args), Cardinality(ids))
    BY <2>3 DEF Fuses
  <2> QED
    BY <2>2, <2>4 DEF Smaller
<1> QED
  BY <1>1, <1>2, <1>3 DEF CallTypeOK, CallInv, Stages

LEMMA InvFusion == CallInv => FusionRespectsBoth
<1> SUFFICES ASSUME CallInv, job = "fused" PROVE FusionRespectsBoth
  BY DEF FusionRespectsBoth
<1> DEFINE lists == work.lists
           ids == Range(lists[1]) \cup Range(lists[2])
           fused == work.fused
<1>1. /\ Reads /\ Candidates(lists[1]) /\ Candidates(lists[2])
      /\ fused = FuseRankedIds(lists, PoolTarget(work.args))
  BY DEF CallInv, QueryInv, FusedInv
<1>2. PoolTarget(work.args) \in Nat
  BY <1>1, PoolsSuffice DEF Reads
<1>3. Fuses(fused, lists, ids, PoolTarget(work.args))
  BY <1>1, <1>2, FusedIs
<1>4. ASSUME NEW i \in DOMAIN fused, NEW a \in Ids, Better(lists, a, fused[i])
      PROVE  \E j \in 1 .. i - 1 : fused[j] = a
  <2> HIDE DEF ids
  <2>1. a \in ids /\ Score(lists, a) > Score(lists, fused[i])
    BY <1>3, <1>4 DEF Fuses
  <2>2. i \in 1 .. Len(fused)
    BY <1>3 DEF Fuses, Candidates
  <2> QED
    BY <2>1, <2>2, <1>3 DEF Fuses
<1> QED
  BY <1>4 DEF FusionRespectsBoth, Better, Rank, Ahead

(* The answer is the best of what was ranked.                              *)
LEMMA SliceIs ==
  ASSUME CallInv, job = "answered", work.args.quota = Unset
  PROVE  LET k == Smaller(work.args.topk, Len(work.ranked))
         IN /\ work.ranked \in Seq(Ids) /\ NoRepetition(work.ranked) /\ k \in 0 .. Len(work.ranked)
            /\ work.args.topk \in Nat
            /\ Len(work.answer) = k /\ DOMAIN work.answer = 1 .. k
            /\ \A i \in 1 .. k : work.answer[i] = work.ranked[i]
            /\ \A i \in 1 .. Len(work.ranked) : work.ranked[i] \in Range(work.answer) <=> i <= k
<1> DEFINE r == work.ranked
           k == Smaller(work.args.topk, Len(r))
<1>1. Reads /\ Candidates(r) /\ work.answer = Sliced(r, Doc, work.args)
  BY DEF CallInv, QueryInv, AnsweredInv
<1>2. r \in Seq(Ids) /\ NoRepetition(r) /\ Len(r) \in Nat
  BY <1>1 DEF Candidates
<1>3. work.args.topk \in Nat
  BY <1>1, PoolsSuffice DEF Reads
<1>4. k \in 0 .. Len(r)
  BY <1>2, <1>3 DEF Smaller
<1>5. work.answer = SubSeq(r, 1, k)
  BY <1>1 DEF Sliced
<1> HIDE DEF k
<1>6. Len(work.answer) = k /\ DOMAIN work.answer = 1 .. k /\ \A i \in 1 .. k : work.answer[i] = r[i]
  BY <1>2, <1>4, <1>5
<1>7. \A i \in 1 .. Len(r) : r[i] \in Range(work.answer) <=> i <= k
  <2>1. \A x : x \in Range(work.answer) <=> \E j \in 1 .. k : x = r[j]
    BY <1>6 DEF Range
  <2>2. \A j \in 1 .. k : j \in 1 .. Len(r)
    BY <1>4, <1>2
  <2>3. \A i, j \in 1 .. Len(r) : r[i] = r[j] => i = j
    BY <1>2 DEF NoRepetition
  <2>4. \A i \in 1 .. Len(r) : i <= k <=> i \in 1 .. k
    BY <1>4, <1>2
  <2> QED
    BY <2>1, <2>2, <2>3, <2>4
<1> QED
  BY <1>2, <1>3, <1>4, <1>6, <1>7 DEF k

LEMMA InvBestKept == CallInv => BestKept
<1> SUFFICES ASSUME CallInv, job = "answered" PROVE BestKept
  BY DEF BestKept
<1> DEFINE r == work.ranked
           topk == work.args.topk
           quota == work.args.quota
           kept(i) == r[i] \in Range(work.answer)
           better(i) == {j \in 1 .. i - 1 : kept(j)}
<1>1. /\ work.args \in Args /\ Reads /\ Candidates(r)
      /\ work.answer = Sliced(r, Doc, work.args)
  BY DEF CallInv, QueryInv, AnsweredInv, Reads
<1>2. r \in Seq(Ids) /\ NoRepetition(r) /\ Len(r) \in Nat /\ DOMAIN r = 1 .. Len(r)
  BY <1>1 DEF Candidates
<1>3. topk \in Nat
  BY <1>1, PoolsSuffice DEF Reads
<1>4. CASE quota = Unset
  <2> DEFINE k == Smaller(topk, Len(r))
  <2>1. k \in 0 .. Len(r) /\ \A i \in 1 .. Len(r) : kept(i) <=> i <= k
    BY <1>4, SliceIs
  <2>2. ASSUME NEW i \in 1 .. Len(r), ~kept(i) PROVE Cardinality(better(i)) = topk
    <3>1. k = topk /\ topk < i
      BY <2>1, <2>2, <1>2, <1>3 DEF Smaller
    <3>2. better(i) = 1 .. topk
      <4> HIDE DEF k
      <4>1. \A j \in 1 .. i - 1 : j \in 1 .. Len(r)
        BY <1>2
      <4>2. \A j \in 1 .. i - 1 : kept(j) <=> j <= topk
        BY <4>1, <2>1, <3>1
      <4> HIDE DEF kept
      <4> QED
        BY <4>2, <3>1, <1>3
    <3> QED
      BY <3>2, <1>3, RangeSize
  <2> QED
    BY <2>2, <1>2, <1>4 DEF BestKept
<1>5. CASE quota # Unset
  <2>1. quota \in Nat
    BY <1>1, <1>5 DEF Args
  <2>2. work.answer = DedupByDoc(r, Doc, quota, topk)
    BY <1>1, <1>5 DEF Sliced
  <2>3. KeepsBest(work.answer, r, Doc, quota, topk)
    BY <1>2, <1>3, <2>1, <2>2, QuotaKeepsBest
  <2>4. \A i \in 1 .. Len(r) : r[i] \notin Range(work.answer) =>
          \/ Cardinality({j \in 1 .. i - 1 : r[j] \in Range(work.answer)}) = topk
          \/ Cardinality({j \in 1 .. i - 1 :
                            r[j] \in Range(work.answer) /\ Doc[r[j]] = Doc[r[i]]}) = quota
    BY <2>3 DEF KeepsBest
  <2>5. ASSUME NEW i \in 1 .. Len(r)
        PROVE {j \in better(i) : Doc[r[j]] = Doc[r[i]]}
              = {j \in 1 .. i - 1 : r[j] \in Range(work.answer) /\ Doc[r[j]] = Doc[r[i]]}
    OBVIOUS
  <2>6. ASSUME NEW i \in DOMAIN r, ~kept(i)
        PROVE  \/ Cardinality(better(i)) = topk
               \/ Cardinality({j \in better(i) : Doc[r[j]] = Doc[r[i]]}) = quota
    BY <2>4, <2>5, <2>6, <1>2
  <2> QED
    BY <2>3, <2>6, <1>5 DEF BestKept, KeepsBest
<1> QED
  BY <1>4, <1>5

LEMMA InvExact == CallInv => ExactUnlessDisturbed
<1> SUFFICES ASSUME CallInv, job = "answered", ~work.disturbed
             PROVE  /\ work.args.quota = Unset =>
                         Len(work.answer) >= Smaller(work.args.topk, Cardinality(Matching(work.corpus)))
                    /\ Range(work.answer) \subseteq Matching(work.corpus)
  BY DEF ExactUnlessDisturbed, FullUnlessDisturbed, FilteredUnlessDisturbed
<1> DEFINE r == work.ranked
           M == Matching(work.corpus)
           topk == work.args.topk
<1>1. /\ work.args \in Args /\ Reads /\ Candidates(r) /\ Range(r) \subseteq M
      /\ Len(r) >= Smaller(topk, Cardinality(M))
      /\ work.answer = Sliced(r, Doc, work.args)
  BY DEF CallInv, QueryInv, AnsweredInv, Reads
<1>2. topk \in Nat /\ r \in Seq(Ids) /\ NoRepetition(r) /\ Len(r) \in Nat
  BY <1>1, PoolsSuffice DEF Reads, Candidates
<1>3. Cardinality(M) \in Nat
  BY MatchingIs, IdsFinite
<1>4. CASE work.args.quota = Unset
  <2> DEFINE k == Smaller(topk, Len(r))
  <2>1. /\ Len(work.answer) = k /\ DOMAIN work.answer = 1 .. k /\ k \in 0 .. Len(r)
        /\ \A i \in 1 .. k : work.answer[i] = r[i]
    BY <1>4, SliceIs
  <2>2. Range(work.answer) \subseteq Range(r)
    <3> HIDE DEF k
    <3>1. \A i \in 1 .. k : i \in DOMAIN r
      BY <2>1, <1>2
    <3> QED
      BY <2>1, <3>1 DEF Range
  <2>3. k >= Smaller(topk, Cardinality(M))
    BY <1>1, <1>2, <1>3 DEF Smaller
  <2> QED
    BY <2>1, <2>2, <2>3, <1>1
<1>5. CASE work.args.quota # Unset
  <2>1. work.args.quota \in Nat
    BY <1>1, <1>5 DEF Args
  <2>2. work.answer = DedupByDoc(r, Doc, work.args.quota, topk)
    BY <1>1, <1>5 DEF Sliced
  <2>3. Range(work.answer) \subseteq Range(r)
    <3>1. KeepsBest(work.answer, r, Doc, work.args.quota, topk)
      BY <1>2, <2>1, <2>2, QuotaKeepsBest
    <3> QED
      BY <3>1 DEF KeepsBest
  <2> QED
    BY <2>3, <1>1, <1>5
<1> QED
  BY <1>4, <1>5

(* What both searches rank better is ranked better, and kept.              *)
THEOREM AnswersAreBestFirst == CallSpec => []BestFirst
<1>1. CallInv => BestFirst
  BY InvCallTypes, InvFusion, InvBestKept DEF BestFirst
<1> QED
  BY <1>1, CallInvHolds, PTL

(* A query that nothing disturbed is answered exactly.                     *)
THEOREM QuietAnswersAreExact == CallSpec => []ExactUnlessDisturbed
BY InvExact, CallInvHolds, PTL

-----------------------------------------------------------------------------
(* Loops over a list *)

LEMMA UpTo ==
  ASSUME NEW n \in Nat, NEW good, 0 \in good, \A i \in 1 .. n : i - 1 \in good => i \in good
  PROVE  \A i \in 0 .. n : i \in good
<1> DEFINE Bad == {i \in 0 .. n : i \notin good}
<1>1. SUFFICES ASSUME Bad # {} PROVE FALSE
  OBVIOUS
<1>2. Bad \subseteq Nat
  OBVIOUS
<1>3. PICK i \in Bad : \A l \in Bad : i <= l
  BY <1>1, <1>2, LeastNat
<1>4. i \in 1 .. n /\ i - 1 \in 0 .. n /\ ~(i <= i - 1) /\ i \notin good
  BY <1>3
<1>5. i - 1 \notin Bad
  <2> HIDE DEF Bad
  <2> QED
    BY <1>3, <1>4
<1> QED
  BY <1>4, <1>5

(* A loop has a result, of the kind that its step keeps.                   *)
Loops(f, A, n, start, step) ==
  /\ f \in [0 .. n -> A]
  /\ f[0] = start
  /\ \A i \in 1 .. n : f[i] = step[<<f[i - 1], i>>]

LEMMA LoopExists ==
  ASSUME NEW A, NEW n \in Nat, NEW start, start \in A,
         NEW step, \A a \in A, i \in 1 .. n : step[<<a, i>>] \in A
  PROVE  \E f : Loops(f, A, n, start, step)
<1> DEFINE good == {m \in 0 .. n : \E f : Loops(f, A, m, start, step)}
<1>1. 0 \in good
  <2> DEFINE f == [i \in 0 .. 0 |-> start]
  <2>1. f \in [0 .. 0 -> A] /\ f[0] = start /\ 1 .. 0 = {}
    OBVIOUS
  <2>2. Loops(f, A, 0, start, step)
    BY <2>1 DEF Loops
  <2> QED
    BY <2>2
<1>2. ASSUME NEW m \in 1 .. n, m - 1 \in good PROVE m \in good
  <2>1. PICK f : Loops(f, A, m - 1, start, step)
    BY <1>2
  <2> DEFINE x == step[<<f[m - 1], m>>]
             g == [i \in 0 .. m |-> IF i = m THEN x ELSE f[i]]
  <2>2. m - 1 \in 0 .. m - 1 /\ m \in Nat /\ m # 0
    OBVIOUS
  <2>3. x \in A
    <3>1. f[m - 1] \in A
      BY <2>1, <2>2 DEF Loops
    <3> QED
      BY <3>1
  <2>4. \A i \in 0 .. m : i \in 0 .. m - 1 \/ i = m
    OBVIOUS
  <2>5. \A i \in 0 .. m - 1 : f[i] \in A /\ i # m /\ i \in 0 .. m
    BY <2>1 DEF Loops
  <2>6. g \in [0 .. m -> A] /\ g[m] = x /\ \A i \in 0 .. m - 1 : g[i] = f[i]
    BY <2>2, <2>3, <2>4, <2>5
  <2> HIDE DEF g
  <2>7. g[0] = start /\ g[m - 1] = f[m - 1]
    BY <2>1, <2>2, <2>6 DEF Loops
  <2>8. ASSUME NEW i \in 1 .. m PROVE g[i] = step[<<g[i - 1], i>>]
    <3>1. CASE i = m
      BY <3>1, <2>6, <2>7
    <3>2. CASE i # m
      <4>1. i \in 1 .. m - 1 /\ i \in 0 .. m - 1 /\ i - 1 \in 0 .. m - 1
        BY <3>2
      <4> QED
        BY <4>1, <2>1, <2>6 DEF Loops
    <3> QED
      BY <3>1, <3>2
  <2>9. Loops(g, A, m, start, step)
    BY <2>6, <2>7, <2>8 DEF Loops
  <2> QED
    BY <2>9
<1> HIDE DEF good
<1>3. n \in good
  <2>1. \A i \in 0 .. n : i \in good
    BY <1>1, <1>2, UpTo
  <2>2. n \in 0 .. n
    OBVIOUS
  <2> QED
    BY <2>1, <2>2
<1> QED
  BY <1>3 DEF good

-----------------------------------------------------------------------------
(* Sums *)

Sums(f, list) ==
  /\ f \in [0 .. Len(list) -> Nat]
  /\ f[0] = 0
  /\ \A i \in 1 .. Len(list) : f[i] = f[i - 1] + list[i]

LEMMA TotalIs == ASSUME NEW list \in Seq(Nat) PROVE \E f : Sums(f, list) /\ Total(list) = f[Len(list)]
<1> DEFINE n == Len(list)
           Loop(f) == [i \in 0 .. n |-> IF i = 0 THEN 0 ELSE f[i - 1] + list[i]]
           step == [p \in Nat \X (1 .. n) |-> p[1] + list[p[2]]]
<1>1. n \in Nat /\ \A i \in 1 .. n : list[i] \in Nat
  OBVIOUS
<1>2. \A a \in Nat, i \in 1 .. n : step[<<a, i>>] = a + list[i] /\ a + list[i] \in Nat
  BY <1>1
<1> HIDE DEF step
<1>3. PICK g : Loops(g, Nat, n, 0, step)
  BY <1>1, <1>2, LoopExists
<1>4. \A i \in 1 .. n : g[i] = g[i - 1] + list[i]
  <2> TAKE i \in 1 .. n
  <2>1. i - 1 \in 0 .. n
    BY <1>1
  <2> QED
    BY <2>1, <1>2, <1>3 DEF Loops
<1>5. Sums(g, list)
  BY <1>3, <1>4 DEF Sums, Loops
<1>6. g = Loop(g)
  <2>1. \A i \in 0 .. n : i = 0 \/ i \in 1 .. n
    BY <1>1
  <2> QED
    BY <2>1, <1>3, <1>4 DEF Loops
<1> DEFINE f == CHOOSE after : after = Loop(after)
<1>7. f = Loop(f)
  BY <1>6
<1>8. Total(list) = f[n]
  BY DEF Total, Fold
<1> HIDE DEF f
<1>9. f[0] = 0 /\ \A i \in 1 .. n : f[i] = f[i - 1] + list[i]
  <2>1. 0 \in 0 .. n /\ \A i \in 1 .. n : i \in 0 .. n /\ i # 0
    BY <1>1
  <2> QED
    BY <2>1, <1>7
<1> DEFINE good == {i \in 0 .. n : f[i] = g[i]}
<1>10. \A i \in 0 .. n : i \in good
  <2>1. 0 \in good
    BY <1>1, <1>3, <1>9 DEF Loops
  <2>2. \A i \in 1 .. n : i - 1 \in good => i \in good
    BY <1>1, <1>4, <1>9
  <2> HIDE DEF good
  <2> QED
    BY <2>1, <2>2, <1>1, UpTo
<1>11. f[n] = g[n]
  BY <1>1, <1>10
<1> QED
  BY <1>5, <1>8, <1>11

LEMMA SumsAgree ==
  ASSUME NEW list \in Seq(Nat), NEW more \in Seq(Nat), NEW f, Sums(f, list), NEW g, Sums(g, more),
         NEW n \in 0 .. Len(list), n <= Len(more), \A i \in 1 .. n : list[i] = more[i]
  PROVE  f[n] = g[n]
<1> DEFINE good == {i \in 0 .. n : f[i] = g[i]}
<1>1. n \in Nat /\ Len(list) \in Nat /\ Len(more) \in Nat
  OBVIOUS
<1>2. 0 \in good
  BY DEF Sums
<1>3. ASSUME NEW i \in 1 .. n, i - 1 \in good PROVE i \in good
  <2>1. i \in 1 .. Len(list) /\ i \in 1 .. Len(more) /\ i \in 0 .. n
    BY <1>1
  <2> QED
    BY <2>1, <1>3 DEF Sums
<1> HIDE DEF good
<1>4. n \in good
  <2>1. \A i \in 0 .. n : i \in good
    BY <1>1, <1>2, <1>3, UpTo
  <2>2. n \in 0 .. n
    BY <1>1
  <2> QED
    BY <2>1, <2>2
<1> QED
  BY <1>4 DEF good

LEMMA TotalNone == Total(<<>>) = 0
<1>1. PICK f : Sums(f, <<>>) /\ Total(<<>>) = f[Len(<<>>)]
  <2>1. <<>> \in Seq(Nat)
    OBVIOUS
  <2> QED
    BY <2>1, TotalIs, Zenon
<1>2. Len(<<>>) = 0
  OBVIOUS
<1> QED
  BY <1>1, <1>2 DEF Sums

LEMMA TotalAppend ==
  ASSUME NEW list \in Seq(Nat), NEW x \in Nat
  PROVE  Total(list) \in Nat /\ Total(Append(list, x)) = Total(list) + x
<1> DEFINE n == Len(list)
           more == Append(list, x)
<1>1. n \in Nat
  OBVIOUS
<1>2. more \in Seq(Nat) /\ Len(more) = n + 1 /\ more[n + 1] = x /\ \A i \in 1 .. n : more[i] = list[i]
  BY AppendProperties
<1>3. PICK f : Sums(f, list) /\ Total(list) = f[n]
  BY TotalIs
<1> HIDE DEF more
<1>4. PICK g : Sums(g, more) /\ Total(more) = g[Len(more)]
  BY <1>2, TotalIs
<1>5. f[n] = g[n]
  <2>1. n \in 0 .. Len(list) /\ n <= Len(more)
    BY <1>1, <1>2
  <2> QED
    <3>1. Sums(f, list) /\ Sums(g, more) /\ \A i \in 1 .. n : list[i] = more[i]
      BY <1>2, <1>3, <1>4
    <3>2. more \in Seq(Nat)
      BY <1>2
    <3> HIDE DEF n
    <3> QED
      BY <3>1, <3>2, <2>1, SumsAgree
<1>6. g[n + 1] = g[n] + x
  <2>1. n + 1 \in 1 .. Len(more) /\ (n + 1) - 1 = n
    BY <1>1, <1>2
  <2> QED
    BY <2>1, <1>2, <1>4 DEF Sums
<1>7. f[n] \in Nat
  BY <1>1, <1>3 DEF Sums
<1> QED
  BY <1>2, <1>3, <1>4, <1>5, <1>6, <1>7 DEF more

(* A part of a list sums up to the difference of two sums from its start.  *)
LEMMA TokensIs ==
  ASSUME NEW segs \in Seq(Nat), NEW f, Sums(f, segs), NEW i \in 1 .. Len(segs) + 1
  PROVE  \A j \in i - 1 .. Len(segs) : Tokens(segs, i, j) = f[j] - f[i - 1]
<1> DEFINE n == Len(segs)
           good == {d \in 0 .. n - (i - 1) : Tokens(segs, i, (i - 1) + d) = f[(i - 1) + d] - f[i - 1]}
<1>1. n \in Nat /\ i \in Nat /\ i - 1 \in 0 .. n /\ n - (i - 1) \in Nat
  OBVIOUS
<1>2. 0 \in good
  <2>1. SubSeq(segs, i, i - 1) = <<>>
    BY <1>1
  <2>2. (i - 1) + 0 = i - 1 /\ f[i - 1] \in Nat /\ 0 \in 0 .. n - (i - 1)
    <3>1. \A k \in 0 .. n : f[k] \in Nat
      BY DEF Sums
    <3> QED
      BY <3>1, <1>1
  <2>3. Tokens(segs, i, i - 1) = 0
    BY <2>1, TotalNone DEF Tokens
  <2> QED
    BY <2>2, <2>3
<1>3. ASSUME NEW d \in 1 .. n - (i - 1), d - 1 \in good PROVE d \in good
  <2> DEFINE j == (i - 1) + d
  <2>1. j \in 1 .. n /\ i <= j /\ j - 1 = (i - 1) + (d - 1) /\ j - 1 \in 0 .. n /\ d \in 0 .. n - (i - 1)
    BY <1>1
  <2>2. Tokens(segs, i, j - 1) = f[j - 1] - f[i - 1]
    BY <2>1, <1>3
  <2>3. SubSeq(segs, i, j) = Append(SubSeq(segs, i, j - 1), segs[j]) /\ SubSeq(segs, i, j - 1) \in Seq(Nat)
    <3>1. i \in 1 .. Len(segs) /\ j \in i .. Len(segs) /\ segs[j] \in Nat
      BY <1>1, <2>1
    <3> HIDE DEF j
    <3>2. SubSeq(segs, i, j) = SubSeq(segs, i, j - 1) \o <<segs[j]>>
      BY <3>1, SubSeqRecursiveSecond
    <3>3. i \in Int /\ j - 1 \in Int /\ \A k \in i .. j - 1 : segs[k] \in Nat
      BY <3>1, <1>1
    <3>4. SubSeq(segs, i, j - 1) \in Seq(Nat)
      BY <3>3, SubSeqProperties
    <3> QED
      BY <3>1, <3>2, <3>4, AppendIsConcat
  <2>4. segs[j] \in Nat /\ f[j] = f[j - 1] + segs[j] /\ f[j - 1] \in Nat /\ f[i - 1] \in Nat
    <3>1. \A k \in 0 .. n : f[k] \in Nat
      BY DEF Sums
    <3> HIDE DEF j
    <3>2. f[j] = f[j - 1] + segs[j]
      BY <2>1 DEF Sums
    <3> QED
      BY <3>1, <3>2, <2>1, <1>1
  <2> HIDE DEF j
  <2>5. Tokens(segs, i, j) = Tokens(segs, i, j - 1) + segs[j]
    BY <2>3, <2>4, TotalAppend DEF Tokens
  <2>6. Tokens(segs, i, j) = f[j] - f[i - 1]
    BY <2>2, <2>4, <2>5
  <2> QED
    BY <2>1, <2>6 DEF j
<1> HIDE DEF good
<1>4. \A d \in 0 .. n - (i - 1) : d \in good
  BY <1>1, <1>2, <1>3, UpTo
<1>5. ASSUME NEW j \in i - 1 .. n PROVE Tokens(segs, i, j) = f[j] - f[i - 1]
  <2>1. j - (i - 1) \in 0 .. n - (i - 1) /\ (i - 1) + (j - (i - 1)) = j
    BY <1>1
  <2>2. j - (i - 1) \in good
    BY <2>1, <1>4
  <2> QED
    BY <2>1, <2>2 DEF good
<1> QED
  BY <1>5

(* What a part of the segments sums up to, and what it does when a segment *)
(* is added at the end or left out in front.                               *)
TokensOf(segs, i) ==
  /\ Tokens(segs, i, i - 1) = 0
  /\ \A j \in i - 1 .. Len(segs) : Tokens(segs, i, j) \in Nat
  /\ \A k \in i .. Len(segs) + 1 : \A j \in k - 1 .. Len(segs) : Tokens(segs, k, j) <= Tokens(segs, i, j)

LEMMA TokensBounded ==
  ASSUME NEW segs \in Seq(Nat), NEW i \in 1 .. Len(segs) + 1
  PROVE  TokensOf(segs, i)
<1> DEFINE n == Len(segs)
<1>1. n \in Nat /\ i - 1 \in 0 .. n /\ i - 1 \in i - 1 .. n
  OBVIOUS
<1>2. PICK f : Sums(f, segs)
  BY TotalIs
<1>3. \A j \in 0 .. n : f[j] \in Nat
  BY <1>2 DEF Sums
<1>4. \A k \in 1 .. n + 1 : \A j \in k - 1 .. n : Tokens(segs, k, j) = f[j] - f[k - 1]
  BY <1>2, TokensIs
<1>5. ASSUME NEW a \in 0 .. n PROVE \A b \in a .. n : f[a] <= f[b]
  <2> DEFINE good == {d \in 0 .. n - a : f[a] <= f[a + d]}
  <2>1. n - a \in Nat /\ 0 \in 0 .. n - a /\ a + 0 = a
    BY <1>1
  <2>2. 0 \in good
    BY <2>1, <1>3
  <2>3. ASSUME NEW d \in 1 .. n - a, d - 1 \in good PROVE d \in good
    <3>1. a + d \in 1 .. n /\ (a + d) - 1 = a + (d - 1) /\ a + (d - 1) \in 0 .. n /\ d \in 0 .. n - a
      BY <1>1
    <3> DEFINE e == a + d
    <3>2. f[e] = f[e - 1] + segs[e] /\ segs[e] \in Nat
      <4>1. e \in 1 .. n
        BY <3>1
      <4> HIDE DEF e
      <4> QED
        BY <4>1, <1>2 DEF Sums
    <3>3. f[a] <= f[e - 1]
      BY <2>3, <3>1
    <3>4. e - 1 \in 0 .. n /\ e \in 0 .. n
      BY <3>1, <1>1
    <3>5. f[a] \in Nat /\ f[e - 1] \in Nat
      BY <3>4, <1>3
    <3>6. f[a] <= f[a + d]
      <4> HIDE DEF e
      <4>1. f[a] <= f[e]
        BY <3>2, <3>3, <3>5
      <4> QED
        BY <4>1 DEF e
    <3> QED
      BY <3>1, <3>6
  <2> HIDE DEF good
  <2>4. \A d \in 0 .. n - a : d \in good
    BY <2>1, <2>2, <2>3, UpTo
  <2>5. \A b \in a .. n : b - a \in 0 .. n - a /\ a + (b - a) = b
    BY <1>1
  <2> QED
    BY <2>4, <2>5 DEF good
<1>6. Tokens(segs, i, i - 1) = 0
  BY <1>1, <1>3, <1>4
<1>7. ASSUME NEW j \in i - 1 .. n PROVE Tokens(segs, i, j) \in Nat
  <2>1. j \in 0 .. n /\ f[i - 1] <= f[j]
    BY <1>1, <1>5
  <2> QED
    BY <2>1, <1>1, <1>3, <1>4
<1>8. ASSUME NEW k \in i .. n + 1, NEW j \in k - 1 .. n PROVE Tokens(segs, k, j) <= Tokens(segs, i, j)
  <2>1. k \in 1 .. n + 1 /\ j \in i - 1 .. n /\ k - 1 \in 0 .. n /\ j \in 0 .. n /\ k - 1 \in i - 1 .. n
    BY <1>1
  <2>2. f[i - 1] <= f[k - 1]
    BY <2>1, <1>1, <1>5
  <2>3. Tokens(segs, k, j) = f[j] - f[k - 1]
    BY <2>1, <1>4
  <2>4. Tokens(segs, i, j) = f[j] - f[i - 1]
    BY <2>1, <1>4
  <2>5. f[j] \in Nat /\ f[k - 1] \in Nat /\ f[i - 1] \in Nat
    BY <2>1, <1>1, <1>3
  <2> QED
    BY <2>2, <2>3, <2>4, <2>5
<1> QED
  BY <1>6, <1>7, <1>8 DEF TokensOf

LEMMA TokensAdded ==
  ASSUME NEW segs \in Seq(Nat), NEW x \in Nat, NEW i \in 1 .. Len(segs) + 1
  PROVE  /\ Tokens(Append(segs, x), i, Len(segs) + 1) = Tokens(segs, i, Len(segs)) + x
         /\ \A j \in i - 1 .. Len(segs) : Tokens(Append(segs, x), i, j) = Tokens(segs, i, j)
<1> DEFINE n == Len(segs)
           more == Append(segs, x)
<1>1. n \in Nat /\ i - 1 \in 0 .. n
  OBVIOUS
<1>2. more \in Seq(Nat) /\ Len(more) = n + 1 /\ more[n + 1] = x /\ \A j \in 1 .. n : more[j] = segs[j]
  BY AppendProperties
<1> HIDE DEF more
<1>3. PICK f : Sums(f, segs)
  BY TotalIs
<1>4. PICK g : Sums(g, more)
  BY <1>2, TotalIs
<1>5. ASSUME NEW m \in 0 .. n PROVE f[m] = g[m] /\ f[m] \in Nat
  <2>1. m <= Len(more) /\ \A j \in 1 .. m : segs[j] = more[j]
    BY <1>1, <1>2
  <2>2. f[m] = g[m]
    BY <2>1, <1>2, <1>3, <1>4, SumsAgree
  <2>3. f[m] \in Nat
    BY <1>3 DEF Sums
  <2> QED
    BY <2>2, <2>3
<1>6. g[n + 1] = g[n] + x
  <2>1. n + 1 \in 1 .. Len(more) /\ (n + 1) - 1 = n
    BY <1>1, <1>2
  <2> QED
    BY <2>1, <1>2, <1>4 DEF Sums
<1>7. \A j \in i - 1 .. n : Tokens(segs, i, j) = f[j] - f[i - 1]
  BY <1>3, TokensIs
<1>8. \A j \in i - 1 .. n + 1 : Tokens(more, i, j) = g[j] - g[i - 1]
  <2>1. i \in 1 .. Len(more) + 1
    BY <1>1, <1>2
  <2> QED
    BY <2>1, <1>2, <1>4, TokensIs
<1>9. Tokens(more, i, n + 1) = Tokens(segs, i, n) + x
  <2>1. n \in i - 1 .. n /\ n + 1 \in i - 1 .. n + 1 /\ n \in 0 .. n
    BY <1>1
  <2>2. Tokens(more, i, n + 1) = g[n + 1] - g[i - 1] /\ Tokens(segs, i, n) = f[n] - f[i - 1]
    BY <2>1, <1>7, <1>8
  <2>3. f[n] = g[n] /\ f[n] \in Nat /\ f[i - 1] = g[i - 1] /\ f[i - 1] \in Nat
    BY <2>1, <1>1, <1>5
  <2> QED
    BY <2>2, <2>3, <1>6
<1>10. ASSUME NEW j \in i - 1 .. n PROVE Tokens(more, i, j) = Tokens(segs, i, j)
  <2>1. j \in i - 1 .. n + 1 /\ j \in 0 .. n
    BY <1>1
  <2> QED
    BY <2>1, <1>1, <1>5, <1>7, <1>8
<1> QED
  BY <1>9, <1>10 DEF more

-----------------------------------------------------------------------------
(* Packing prose *)

Sizes == 0 .. Target

(* The chunk b comes after the chunk a.                                    *)
Follows(segs, a, b) ==
  /\ b[1] > a[1] /\ b[1] <= a[2] + 1 /\ b[2] > a[2]
  /\ Tokens(segs, b[1], a[2]) <= Overlap

ChunkOf(segs, c) ==
  /\ c \in Nat \X Nat /\ 1 <= c[1] /\ c[1] <= c[2] /\ c[2] <= Len(segs)
  /\ Tokens(segs, c[1], c[2]) <= Target

(* The chunks made so far, and the segments of the open one, which is not  *)
(* empty once there are segments.                                          *)
Packed(p) ==
  /\ p = [segs |-> p.segs, from |-> p.from, chunks |-> p.chunks]
  /\ p.segs \in Seq(Sizes) /\ p.from \in 1 .. Len(p.segs) + 1
  /\ p.segs # <<>> => p.from <= Len(p.segs)
  /\ Tokens(p.segs, p.from, Len(p.segs)) <= Target
  /\ p.chunks \in Seq(Nat \X Nat)
  /\ \A i \in 1 .. Len(p.chunks) : ChunkOf(p.segs, p.chunks[i])
  /\ \A i \in 1 .. Len(p.chunks) - 1 : Follows(p.segs, p.chunks[i], p.chunks[i + 1])
  /\ IF p.chunks = <<>> THEN p.from = 1
     ELSE /\ p.chunks[1][1] = 1
          /\ p.from > p.chunks[Len(p.chunks)][1] /\ p.from <= p.chunks[Len(p.chunks)][2] + 1
          /\ Len(p.segs) > p.chunks[Len(p.chunks)][2]
          /\ Tokens(p.segs, p.from, p.chunks[Len(p.chunks)][2]) <= Overlap

LEMMA SizesAreNat == Sizes \subseteq Nat /\ Seq(Sizes) \subseteq Seq(Nat) /\ Target \in Nat \ {0} /\ Overlap \in 0 .. Target
BY ChunkingAssumption DEF Sizes

(* The open chunk that a full one leaves behind: what is carried over goes *)
(* no further back than the full one, is within the overlap, and leaves    *)
(* room for the segment that comes next.                                   *)
LEMMA SeedIs ==
  ASSUME NEW segs \in Seq(Nat), NEW from \in 1 .. Len(segs)
  PROVE  /\ Seed(segs, from) \in from + 1 .. Len(segs) + 1
         /\ Tokens(segs, Seed(segs, from), Len(segs)) <= Overlap
<1> DEFINE n == Len(segs)
           fits == {i \in from .. n : Tokens(segs, i, n) <= Overlap}
           first == IF fits = {} THEN n + 1 ELSE Min(fits)
<1>1. n \in Nat /\ from \in Nat /\ from <= n
  OBVIOUS
<1>2. Overlap \in Nat
  BY SizesAreNat
<1>3. Tokens(segs, n + 1, n) = 0
  <2>1. n + 1 \in 1 .. Len(segs) + 1 /\ (n + 1) - 1 = n
    BY <1>1
  <2> QED
    BY <2>1, TokensBounded DEF TokensOf
<1>4. first \in from .. n + 1 /\ Tokens(segs, first, n) <= Overlap
  <2>1. CASE fits = {}
    BY <2>1, <1>1, <1>2, <1>3
  <2>2. CASE fits # {}
    <3>1. fits \in SUBSET Nat
      BY <1>1
    <3>2. \E k \in fits : \A j \in fits : k <= j
      BY <3>1, <2>2, LeastNat
    <3> HIDE DEF fits
    <3>3. Min(fits) \in fits
      BY <3>2 DEF Min
    <3>4. first = Min(fits)
      BY <2>2
    <3> QED
      BY <3>3, <3>4, <1>1 DEF fits
  <2> QED
    BY <2>1, <2>2
<1>5. Seed(segs, from) = IF first <= from THEN n + 1 ELSE first
  BY DEF Seed
<1> HIDE DEF first
<1> QED
  BY <1>1, <1>2, <1>3, <1>4, <1>5

LEMMA TrimmedIs ==
  ASSUME NEW segs \in Seq(Nat), NEW seed \in 1 .. Len(segs) + 1, NEW x \in 0 .. Target
  PROVE  Trimmed(segs, seed, x) \in seed .. Len(segs) + 1
         /\ Tokens(segs, Trimmed(segs, seed, x), Len(segs)) + x <= Target
<1> DEFINE n == Len(segs)
           Room(i) == Tokens(segs, i, n) + x <= Target
           fits == {i \in seed .. n + 1 : Room(i)}
<1>1. n \in Nat /\ seed \in Nat /\ seed <= n + 1 /\ Target \in Nat
  BY SizesAreNat
<1>2. n + 1 \in fits
  <2>1. n + 1 \in 1 .. Len(segs) + 1 /\ (n + 1) - 1 = n /\ n + 1 \in seed .. n + 1
    BY <1>1
  <2>2. Tokens(segs, n + 1, n) = 0
    BY <2>1, TokensBounded DEF TokensOf
  <2> QED
    BY <2>1, <2>2, <1>1
<1>3. fits \in SUBSET Nat /\ fits # {}
  BY <1>1, <1>2
<1>4. PICK k \in fits : \A j \in fits : k <= j
  BY <1>3, LeastNat
<1>5. \A j \in seed .. k - 1 : j \in seed .. n + 1 /\ j \notin fits
  <2> TAKE j \in seed .. k - 1
  <2>1. k \in seed .. n + 1
    BY <1>4
  <2>2. j \in seed .. n + 1 /\ ~(k <= j)
    BY <2>1, <1>1
  <2> HIDE DEF fits
  <2> QED
    BY <2>2, <1>4
<1>6. \A j \in seed .. n + 1 : Tokens(segs, j, n) \in Nat
  <2> TAKE j \in seed .. n + 1
  <2>1. j \in 1 .. Len(segs) + 1 /\ n \in j - 1 .. Len(segs)
    BY <1>1
  <2> QED
    BY <2>1, TokensBounded DEF TokensOf
<1>7. k \in seed .. n + 1 /\ Room(k) /\ \A j \in seed .. k - 1 : Tokens(segs, j, n) + x > Target
  BY <1>1, <1>4, <1>5, <1>6
<1> HIDE DEF fits
<1> QED
  BY <1>7 DEF Trimmed

(* One segment more.                                                       *)
LEMMA PackStep ==
  ASSUME NEW p, Packed(p), NEW x \in Sizes
  PROVE  Packed(Pack(p, x)) /\ Pack(p, x).segs # <<>>
<1> DEFINE segs == p.segs
           last == Len(segs)
           more == Append(segs, x)
           full == p.from <= last /\ Tokens(segs, p.from, last) + x > Target
           seed == Seed(segs, p.from)
           from == IF full THEN Trimmed(segs, seed, x) ELSE p.from
           chunks == IF full THEN Append(p.chunks, <<p.from, last>>) ELSE p.chunks
           q == Pack(p, x)
<1>1. segs \in Seq(Sizes) /\ segs \in Seq(Nat) /\ x \in Nat /\ x <= Target /\ Target \in Nat /\ Overlap \in Nat
  BY SizesAreNat DEF Packed, Sizes
<1>2. last \in Nat /\ p.from \in 1 .. last + 1 /\ p.from \in Nat
  BY <1>1 DEF Packed
<1>3. more \in Seq(Sizes) /\ Len(more) = last + 1 /\ more # <<>>
  BY <1>1, AppendProperties
<1>4. q = [segs |-> more, from |-> from, chunks |-> chunks]
  BY DEF Pack
<1>5. q.segs = more /\ q.from = from /\ q.chunks = chunks
  BY <1>4
<1> DEFINE k == Len(p.chunks)
<1>6. p.chunks \in Seq(Nat \X Nat) /\ k \in Nat
  BY DEF Packed
<1>7. ASSUME NEW i \in 1 .. last + 1
      PROVE  /\ Tokens(more, i, last + 1) = Tokens(segs, i, last) + x
             /\ \A j \in i - 1 .. last : Tokens(more, i, j) = Tokens(segs, i, j)
  BY <1>1, TokensAdded
<1>8. ASSUME NEW i \in 1 .. last + 1
      PROVE  \A j \in i - 1 .. last : Tokens(segs, i, j) \in Nat
  BY <1>1, TokensBounded DEF TokensOf
<1>9. ASSUME NEW c, ChunkOf(segs, c) PROVE ChunkOf(more, c)
  <2>1. c[1] \in 1 .. last + 1 /\ c[2] \in c[1] - 1 .. last /\ c[2] <= last + 1
    BY <1>2, <1>9 DEF ChunkOf
  <2>2. Tokens(more, c[1], c[2]) = Tokens(segs, c[1], c[2])
    BY <2>1, <1>7
  <2> HIDE DEF more
  <2> QED
    BY <2>1, <2>2, <1>3, <1>9 DEF ChunkOf
<1>10. ASSUME NEW a, NEW b, ChunkOf(segs, a), ChunkOf(segs, b), Follows(segs, a, b) PROVE Follows(more, a, b)
  <2>1. b[1] \in 1 .. last + 1 /\ a[2] \in b[1] - 1 .. last
    BY <1>2, <1>10 DEF ChunkOf, Follows
  <2>2. Tokens(more, b[1], a[2]) = Tokens(segs, b[1], a[2])
    BY <2>1, <1>7
  <2> QED
    BY <2>2, <1>10 DEF Follows
<1>11. \A i \in 1 .. k : ChunkOf(segs, p.chunks[i]) /\ ChunkOf(more, p.chunks[i])
  BY <1>9 DEF Packed
<1>12. \A i \in 1 .. k - 1 : Follows(more, p.chunks[i], p.chunks[i + 1])
  <2> TAKE i \in 1 .. k - 1
  <2>1. i \in 1 .. k /\ i + 1 \in 1 .. k
    BY <1>6
  <2>2. Follows(segs, p.chunks[i], p.chunks[i + 1])
    BY DEF Packed
  <2> QED
    BY <2>1, <2>2, <1>10, <1>11
<1>13. CASE ~full
  <2>1. from = p.from /\ chunks = p.chunks
    BY <1>13
  <2>2. p.from <= last + 1 /\ Tokens(more, p.from, last + 1) <= Target
    <3>1. Tokens(more, p.from, last + 1) = Tokens(segs, p.from, last) + x
      BY <1>2, <1>7
    <3>2. CASE p.from <= last
      <4>1. last \in p.from - 1 .. last
        BY <1>2
      <4>2. Tokens(segs, p.from, last) \in Nat
        BY <4>1, <1>2, <1>8
      <4> QED
        BY <3>1, <3>2, <4>2, <1>1, <1>2, <1>13
    <3>3. CASE ~(p.from <= last)
      <4>1. p.from = last + 1 /\ p.from - 1 = last
        BY <3>3, <1>2
      <4>2. Tokens(segs, p.from, last) = 0
        BY <4>1, <1>1, <1>2, TokensBounded DEF TokensOf
      <4> QED
        BY <4>2, <3>1, <1>1, <1>2
    <3> QED
      BY <3>2, <3>3
  <2>3. p.chunks # <<>> => /\ p.from > p.chunks[k][1] /\ p.from <= p.chunks[k][2] + 1
                           /\ last + 1 > p.chunks[k][2]
                           /\ Tokens(more, p.from, p.chunks[k][2]) <= Overlap
    <3> HAVE p.chunks # <<>>
    <3>1. k \in 1 .. k
      BY <1>6
    <3>2. ChunkOf(segs, p.chunks[k])
      BY <3>1, <1>11
    <3>3. /\ p.from > p.chunks[k][1] /\ p.from <= p.chunks[k][2] + 1
          /\ last > p.chunks[k][2] /\ Tokens(segs, p.from, p.chunks[k][2]) <= Overlap
      BY DEF Packed
    <3>4. p.chunks[k][2] \in p.from - 1 .. last
      BY <3>2, <3>3, <1>2 DEF ChunkOf
    <3>5. Tokens(more, p.from, p.chunks[k][2]) = Tokens(segs, p.from, p.chunks[k][2])
      BY <3>4, <1>2, <1>7
    <3>6. p.chunks[k][2] \in Nat
      BY <3>2 DEF ChunkOf
    <3> QED
      BY <3>3, <3>5, <3>6, <1>2
  <2>4. p.chunks = <<>> => p.from = 1
    BY DEF Packed
  <2>5. p.chunks # <<>> => p.chunks[1][1] = 1
    BY DEF Packed
  <2>6. q = [segs |-> q.segs, from |-> q.from, chunks |-> q.chunks]
    BY <1>4
  <2>7. q.from \in 1 .. Len(q.segs) + 1 /\ q.from <= Len(q.segs)
    BY <1>2, <1>3, <1>5, <2>1
  <2>8. q.segs = more /\ q.from = p.from /\ q.chunks = p.chunks /\ Len(q.segs) = last + 1
    BY <1>3, <1>5, <2>1
  <2> HIDE DEF q, more, from, chunks, full
  <2>9. Packed(q)
    BY <2>2, <2>3, <2>4, <2>5, <2>6, <2>7, <2>8, <1>3, <1>6, <1>11, <1>12 DEF Packed
  <2> QED
    BY <2>8, <2>9, <1>3 DEF q
<1>14. CASE full
  <2>1. from = Trimmed(segs, seed, x) /\ chunks = Append(p.chunks, <<p.from, last>>)
    BY <1>14
  <2>2. p.from \in 1 .. last
    BY <1>2, <1>14
  <2>3. seed \in p.from + 1 .. last + 1 /\ Tokens(segs, seed, last) <= Overlap
    BY <2>2, <1>1, SeedIs
  <2>4. seed \in 1 .. last + 1 /\ x \in 0 .. Target
    BY <2>2, <2>3, <1>1
  <2>5. from \in seed .. last + 1 /\ Tokens(segs, from, last) + x <= Target
    <3> HIDE DEF seed
    <3> QED
      BY <2>1, <2>4, <1>1, TrimmedIs
  <2> DEFINE c == <<p.from, last>>
  <2>6. from \in 1 .. last + 1 /\ from > p.from /\ from \in Nat /\ last \in from - 1 .. last
    BY <2>2, <2>3, <2>5
  <2>7. Tokens(segs, from, last) <= Overlap
    <3>1. Tokens(segs, from, last) <= Tokens(segs, seed, last)
      BY <2>4, <2>5, <2>6, <1>1, TokensBounded DEF TokensOf
    <3>2. Tokens(segs, from, last) \in Nat
      BY <2>6, <1>8
    <3>3. last \in seed - 1 .. last
      BY <2>4, <1>2
    <3>4. Tokens(segs, seed, last) \in Nat
      BY <3>3, <2>4, <1>8
    <3> QED
      BY <3>1, <3>2, <3>4, <2>3, <1>1
  <2>8. /\ Tokens(more, from, last + 1) <= Target
        /\ Tokens(more, from, last) <= Overlap
    BY <2>5, <2>6, <2>7, <1>7
  <2>9. c[1] = p.from /\ c[2] = last /\ c \in Nat \X Nat
    BY <1>2
  <2>10. ChunkOf(segs, c)
    <3>1. Tokens(segs, p.from, last) <= Target
      BY DEF Packed
    <3>2. 1 <= p.from /\ p.from <= last
      BY <2>2, <1>2
    <3> HIDE DEF c
    <3> QED
      BY <3>1, <3>2, <2>9 DEF ChunkOf
  <2>11. ChunkOf(more, c)
    BY <2>10, <1>9
  <2>12. chunks \in Seq(Nat \X Nat) /\ Len(chunks) = k + 1 /\ chunks[k + 1] = c /\ chunks # <<>>
         /\ \A i \in 1 .. k : chunks[i] = p.chunks[i]
    <3>1. c \in Nat \X Nat /\ chunks = Append(p.chunks, c)
      BY <2>1, <2>9
    <3> HIDE DEF c, chunks
    <3> DEFINE Pairs == Nat \X Nat
    <3>2. c \in Pairs /\ p.chunks \in Seq(Pairs)
      BY <3>1, <1>6
    <3> HIDE DEF Pairs
    <3>3. chunks \in Seq(Pairs) /\ Len(chunks) = k + 1 /\ chunks[k + 1] = c /\ \A i \in 1 .. k : chunks[i] = p.chunks[i]
      BY <3>1, <3>2, AppendProperties
    <3>4. chunks # <<>>
      BY <3>3, <1>6
    <3> QED
      BY <3>3, <3>4 DEF Pairs
  <2>13. p.chunks # <<>> => Follows(more, p.chunks[k], c)
    <3> HAVE p.chunks # <<>>
    <3>1. k \in 1 .. k
      BY <1>6
    <3>2. ChunkOf(segs, p.chunks[k])
      BY <3>1, <1>11
    <3>3. /\ p.from > p.chunks[k][1] /\ p.from <= p.chunks[k][2] + 1
          /\ last > p.chunks[k][2] /\ Tokens(segs, p.from, p.chunks[k][2]) <= Overlap
      BY DEF Packed
    <3>4. Follows(segs, p.chunks[k], c)
      BY <3>3, <2>9 DEF Follows
    <3> QED
      BY <3>2, <3>4, <2>10, <1>10
  <2>14. chunks[1][1] = 1
    <3>1. CASE p.chunks = <<>>
      <4>1. k = 0 /\ p.from = 1
        BY <3>1 DEF Packed
      <4> HIDE DEF chunks, c
      <4> QED
        BY <4>1, <2>9, <2>12
    <3>2. CASE p.chunks # <<>>
      <4>1. 1 \in 1 .. k /\ p.chunks[1][1] = 1
        BY <3>2, <1>6 DEF Packed
      <4> HIDE DEF chunks
      <4> QED
        BY <4>1, <2>12
    <3> QED
      BY <3>1, <3>2
  <2> HIDE DEF c
  <2>15. \A i \in 1 .. k + 1 : ChunkOf(more, chunks[i])
    <3> HIDE DEF chunks, more
    <3> TAKE i \in 1 .. k + 1
    <3>1. i \in 1 .. k \/ i = k + 1
      BY <1>6
    <3> QED
      BY <3>1, <2>11, <2>12, <1>11
  <2>16. \A i \in 1 .. k : Follows(more, chunks[i], chunks[i + 1])
    <3> HIDE DEF chunks, more
    <3> TAKE i \in 1 .. k
    <3>1. CASE i = k
      <4>1. p.chunks # <<>>
        BY <1>6
      <4> QED
        BY <3>1, <4>1, <2>12, <2>13
    <3>2. CASE i # k
      <4>1. i \in 1 .. k - 1 /\ i + 1 \in 1 .. k
        BY <3>2, <1>6
      <4> QED
        BY <4>1, <2>12, <1>12
    <3> QED
      BY <3>1, <3>2
  <2>17. q = [segs |-> q.segs, from |-> q.from, chunks |-> q.chunks]
    BY <1>4
  <2>18. q.segs = more /\ q.from = from /\ q.chunks = chunks /\ Len(q.segs) = last + 1
    BY <1>3, <1>5
  <2> HIDE DEF q, more, from, chunks, full
  <2>19. q.from \in 1 .. Len(q.segs) + 1 /\ q.from <= Len(q.segs)
    <3>1. q.from = from /\ Len(q.segs) = last + 1
      BY <2>18
    <3>2. from \in 1 .. last + 1 /\ last \in Nat
      BY <2>6, <1>2
    <3> HIDE DEF last
    <3> QED
      BY <3>1, <3>2
  <2>20. \A i \in 1 .. Len(q.chunks) - 1 : Follows(q.segs, q.chunks[i], q.chunks[i + 1])
    <3>1. q.segs = more /\ q.chunks = chunks /\ Len(q.chunks) - 1 = k
      BY <2>12, <2>18, <1>6
    <3> QED
      BY <3>1, <2>16
  <2>21. Len(q.chunks) = k + 1 /\ q.chunks[Len(q.chunks)] = c
    BY <2>12, <2>18
  <2>22. /\ q.from > c[1] /\ q.from <= c[2] + 1 /\ Len(q.segs) > c[2]
         /\ Tokens(q.segs, q.from, c[2]) <= Overlap
    BY <2>6, <2>8, <2>9, <2>18, <1>2
  <2>23. Packed(q)
    BY <2>8, <2>12, <2>14, <2>15, <2>17, <2>18, <2>19, <2>20, <2>21, <2>22, <1>3 DEF Packed
  <2> QED
    BY <2>18, <2>23, <1>3 DEF q
<1> QED
  BY <1>3, <1>5, <1>13, <1>14

-----------------------------------------------------------------------------
(* What packing leaves is what the properties ask for.                     *)
LEMMA PackedSound ==
  ASSUME NEW p, Packed(p)
  PROVE  ProseWithinBudget(p) /\ ProseCovered(p) /\ (p.segs # <<>> => ChunkProse(p) # <<>>)
<1> DEFINE c == ChunkProse(p)
           k == Len(p.chunks)
           last == Len(p.segs)
           open == <<p.from, last>>
<1>1. p.segs \in Seq(Nat) /\ last \in Nat /\ p.from \in 1 .. last + 1 /\ p.from \in Nat
  <2>1. p.segs \in Seq(Sizes) /\ p.from \in 1 .. Len(p.segs) + 1
    BY DEF Packed
  <2> QED
    BY <2>1, SizesAreNat
<1>2. p.chunks \in Seq(Nat \X Nat) /\ k \in Nat /\ \A i \in 1 .. k : ChunkOf(p.segs, p.chunks[i])
  BY DEF Packed
<1>3. \A i \in 1 .. k - 1 : Follows(p.segs, p.chunks[i], p.chunks[i + 1])
  BY DEF Packed
<1>4. CASE p.segs = <<>>
  <2>1. p.from = 1 /\ last = 0
    BY <1>1, <1>4
  <2>2. p.chunks = <<>>
    <3> SUFFICES ASSUME p.chunks # <<>> PROVE FALSE
      OBVIOUS
    <3>1. 1 \in 1 .. k
      BY <1>2
    <3>2. ChunkOf(p.segs, p.chunks[1])
      BY <3>1, <1>2
    <3> QED
      BY <3>2, <2>1 DEF ChunkOf
  <2>3. c = <<>>
    BY <2>1, <2>2 DEF ChunkProse
  <2>4. DOMAIN c = {} /\ 1 .. Len(c) - 1 = {}
    <3> HIDE DEF c
    <3> QED
      BY <2>3
  <2>5. ProseWithinBudget(p)
    BY <2>4 DEF ProseWithinBudget
  <2>6. ProseCovered(p)
    BY <2>4, <1>4 DEF ProseCovered
  <2> QED
    BY <2>5, <2>6, <1>4
<1>5. CASE p.segs # <<>>
  <2>1. p.from <= last
    BY <1>5 DEF Packed
  <2>2. c = Append(p.chunks, open)
    BY <2>1, <1>1 DEF ChunkProse
  <2>3. open \in Nat \X Nat /\ open[1] = p.from /\ open[2] = last
    BY <1>1
  <2>4. c \in Seq(Nat \X Nat) /\ Len(c) = k + 1 /\ c[k + 1] = open /\ \A i \in 1 .. k : c[i] = p.chunks[i]
    BY <2>2, <2>3, <1>2, AppendProperties
  <2>5. ChunkOf(p.segs, open)
    <3>1. Tokens(p.segs, p.from, last) <= Target
      BY DEF Packed
    <3> QED
      BY <3>1, <2>1, <2>3, <1>1 DEF ChunkOf
  <2>6. p.chunks # <<>> => Follows(p.segs, p.chunks[k], open)
    <3> HAVE p.chunks # <<>>
    <3>1. /\ p.from > p.chunks[k][1] /\ p.from <= p.chunks[k][2] + 1
          /\ last > p.chunks[k][2] /\ Tokens(p.segs, p.from, p.chunks[k][2]) <= Overlap
      BY DEF Packed
    <3> QED
      BY <3>1, <2>3 DEF Follows
  <2>7. p.chunks = <<>> => p.from = 1
    BY DEF Packed
  <2>8. p.chunks # <<>> => p.chunks[1][1] = 1
    BY DEF Packed
  <2> HIDE DEF c, open
  <2>9. \A i \in 1 .. k + 1 : ChunkOf(p.segs, c[i])
    <3> TAKE i \in 1 .. k + 1
    <3>1. i \in 1 .. k \/ i = k + 1
      BY <1>2
    <3> QED
      BY <3>1, <2>4, <2>5, <1>2
  <2>10. \A i \in 1 .. k : Follows(p.segs, c[i], c[i + 1])
    <3> TAKE i \in 1 .. k
    <3>1. CASE i = k
      <4>1. p.chunks # <<>>
        BY <1>2
      <4> QED
        BY <3>1, <4>1, <2>4, <2>6
    <3>2. CASE i # k
      <4>1. i \in 1 .. k - 1 /\ i + 1 \in 1 .. k
        BY <3>2, <1>2
      <4> QED
        BY <4>1, <2>4, <1>3
    <3> QED
      BY <3>1, <3>2
  <2>11. c[1][1] = 1
    <3>1. CASE p.chunks = <<>>
      <4>1. k = 0
        BY <3>1
      <4> QED
        BY <3>1, <4>1, <2>3, <2>4, <2>7
    <3>2. CASE p.chunks # <<>>
      <4>1. 1 \in 1 .. k
        BY <3>2, <1>2
      <4> QED
        BY <3>2, <4>1, <2>4, <2>8
    <3> QED
      BY <3>1, <3>2
  <2>12. DOMAIN c = 1 .. k + 1 /\ Len(c) = k + 1 /\ Len(c) - 1 = k /\ c # <<>>
    BY <2>4, <1>2
  <2>13. ProseWithinBudget(p)
    BY <2>9, <2>12 DEF ProseWithinBudget, ChunkOf, c
  <2>14. ProseCovered(p)
    <3>1. c[Len(c)][2] = last
      BY <2>3, <2>4, <2>12
    <3> QED
      BY <3>1, <2>10, <2>11, <2>12 DEF ProseCovered, Follows, c
  <2> QED
    BY <2>12, <2>13, <2>14 DEF c
<1> QED
  BY <1>4, <1>5

LEMMA ChunksAre ==
  ASSUME NEW p, Packed(p)
  PROVE  ChunkProse(p) \in Seq(Nat \X Nat) /\ \A i \in 1 .. Len(ChunkProse(p)) : ChunkOf(p.segs, ChunkProse(p)[i])
<1> DEFINE k == Len(p.chunks)
           last == Len(p.segs)
           open == <<p.from, last>>
<1>1. p.chunks \in Seq(Nat \X Nat) /\ k \in Nat /\ \A i \in 1 .. k : ChunkOf(p.segs, p.chunks[i])
  BY DEF Packed
<1>2. last \in Nat /\ p.from \in 1 .. last + 1
  BY DEF Packed
<1>3. CASE p.from > last
  BY <1>1, <1>3 DEF ChunkProse
<1>4. CASE ~(p.from > last)
  <2> DEFINE c == ChunkProse(p)
  <2>1. c = Append(p.chunks, open)
    BY <1>4 DEF ChunkProse
  <2>2. open \in Nat \X Nat /\ open[1] = p.from /\ open[2] = last
    BY <1>2
  <2>3. c \in Seq(Nat \X Nat) /\ Len(c) = k + 1 /\ c[k + 1] = open /\ \A i \in 1 .. k : c[i] = p.chunks[i]
    BY <2>1, <2>2, <1>1, AppendProperties
  <2>4. ChunkOf(p.segs, open)
    <3>1. Tokens(p.segs, p.from, last) <= Target
      BY DEF Packed
    <3> QED
      BY <3>1, <2>2, <1>2, <1>4 DEF ChunkOf
  <2> HIDE DEF c, open
  <2>5. \A i \in 1 .. k + 1 : i \in 1 .. k \/ i = k + 1
    BY <1>1
  <2>6. \A i \in 1 .. k + 1 : ChunkOf(p.segs, c[i])
    BY <2>3, <2>4, <2>5, <1>1
  <2> QED
    BY <2>3, <2>6 DEF c
<1> QED
  BY <1>3, <1>4

-----------------------------------------------------------------------------
(* Cutting what is too long *)

LEMMA CharSplitIs ==
  ASSUME NEW n \in Nat
  PROVE  CharSplit(n) \in Seq(Sizes) /\ (n > 0 => CharSplit(n) # <<>>)
<1> DEFINE m == (n + Target - 1) \div Target
<1>1. Target \in Nat /\ Target > 0 /\ n + Target - 1 \in Nat
  BY SizesAreNat
<1>2. m \in Nat /\ (n > 0 => m >= 1)
  <2> DEFINE a == n + Target - 1
  <2>1. a \in Nat /\ (n > 0 => a >= Target)
    BY <1>1
  <2> HIDE DEF a
  <2>2. a \div Target \in Nat /\ (a >= Target => a \div Target >= 1)
    BY <2>1, <1>1
  <2> QED
    BY <2>1, <2>2 DEF a
<1>3. n % Target \in Sizes /\ Target \in Sizes
  <2>1. n % Target \in 0 .. Target - 1
    BY <1>1
  <2> QED
    BY <2>1, <1>1 DEF Sizes
<1> HIDE DEF m
<1> DEFINE cut == [i \in 1 .. m |-> IF i * Target <= n THEN Target ELSE n % Target]
<1>4. CharSplit(n) = cut
  BY DEF CharSplit, m
<1>5. cut \in [1 .. m -> Sizes]
  BY <1>3
<1>6. cut \in Seq(Sizes) /\ Len(cut) = m
  <2> HIDE DEF cut
  <2> QED
    BY <1>2, <1>5
<1> HIDE DEF cut
<1> QED
  BY <1>2, <1>4, <1>6

Packs == [done : Seq(Sizes), pack : Sizes]

LEMMA FlushedIs == ASSUME NEW acc \in Packs
                   PROVE  Flushed(acc) \in Seq(Sizes) /\ (acc.pack # 0 \/ acc.done # <<>> => Flushed(acc) # <<>>)
BY AppendProperties DEF Packs, Flushed

LEMMA AddWordIs ==
  ASSUME NEW acc \in Packs, NEW n \in Nat \ {0}
  PROVE  AddWord(acc, n) \in Packs /\ (AddWord(acc, n).pack # 0 \/ AddWord(acc, n).done # <<>>)
<1>1. acc.done \in Seq(Sizes) /\ acc.pack \in Sizes /\ acc.pack \in Nat /\ Target \in Nat
  BY SizesAreNat DEF Packs
<1>2. Flushed(acc) \in Seq(Sizes)
  BY FlushedIs
<1>3. CASE n > Target
  <2>1. CharSplit(n) \in Seq(Sizes) /\ CharSplit(n) # <<>> /\ 0 \in Sizes
    <3>1. n \in Nat /\ n > 0
      OBVIOUS
    <3>2. 0 \in Sizes
      BY <1>1 DEF Sizes
    <3> QED
      BY <3>1, <3>2, CharSplitIs
  <2>2. Flushed(acc) \o CharSplit(n) \in Seq(Sizes) /\ Flushed(acc) \o CharSplit(n) # <<>>
    BY <2>1, <1>2, ConcatProperties
  <2>3. AddWord(acc, n) = [done |-> Flushed(acc) \o CharSplit(n), pack |-> 0]
    BY <1>3 DEF AddWord
  <2> QED
    BY <2>1, <2>2, <2>3 DEF Packs
<1>4. CASE ~(n > Target) /\ acc.pack > 0 /\ acc.pack + n > Target
  <2>1. AddWord(acc, n) = [done |-> Flushed(acc), pack |-> n]
    BY <1>4 DEF AddWord
  <2>2. n \in Sizes
    BY <1>1, <1>4 DEF Sizes
  <2> QED
    BY <2>1, <2>2, <1>2 DEF Packs
<1>5. CASE ~(n > Target) /\ ~(acc.pack > 0 /\ acc.pack + n > Target)
  <2>1. AddWord(acc, n) = [acc EXCEPT !.pack = @ + n]
    BY <1>5 DEF AddWord
  <2>2. acc.pack + n \in Sizes /\ acc.pack + n # 0
    BY <1>1, <1>5 DEF Sizes
  <2>3. AddWord(acc, n) = [done |-> acc.done, pack |-> acc.pack + n]
    BY <2>1 DEF Packs
  <2> QED
    BY <2>2, <2>3, <1>1 DEF Packs
<1> QED
  BY <1>3, <1>4, <1>5

(* The loop over the words of a sentence.                                  *)
LEMMA WordsPacked ==
  ASSUME NEW words \in Seq(Nat \ {0}), words # <<>>
  PROVE  /\ Fold(AddWord, [done |-> <<>>, pack |-> 0], words) \in Packs
         /\ Flushed(Fold(AddWord, [done |-> <<>>, pack |-> 0], words)) \in Seq(Sizes) \ {<<>>}
<1> DEFINE n == Len(words)
           start == [done |-> <<>>, pack |-> 0]
           Loop(f) == [i \in 0 .. n |-> IF i = 0 THEN start ELSE AddWord(f[i - 1], words[i])]
           step == [p \in Packs \X (1 .. n) |-> AddWord(p[1], words[p[2]])]
<1>1. n \in Nat /\ n \in 1 .. n /\ \A i \in 1 .. n : words[i] \in Nat \ {0}
  OBVIOUS
<1>2. start \in Packs
  <2>1. <<>> \in Seq(Sizes) /\ 0 \in Sizes
    BY SizesAreNat DEF Sizes
  <2> QED
    BY <2>1 DEF Packs
<1> HIDE DEF start
<1>3. \A a \in Packs, i \in 1 .. n : step[<<a, i>>] = AddWord(a, words[i])
  OBVIOUS
<1>4. \A a \in Packs, i \in 1 .. n : AddWord(a, words[i]) \in Packs
  BY <1>1, AddWordIs
<1> HIDE DEF step
<1>5. PICK g : Loops(g, Packs, n, start, step)
  <2>1. \A a \in Packs, i \in 1 .. n : step[<<a, i>>] \in Packs
    BY <1>3, <1>4
  <2> QED
    BY <2>1, <1>1, <1>2, LoopExists
<1>6. g = Loop(g)
  <2>1. \A i \in 0 .. n : i = 0 \/ (i \in 1 .. n /\ i # 0 /\ i - 1 \in 0 .. n)
    BY <1>1
  <2>2. \A i \in 1 .. n : g[i] = AddWord(g[i - 1], words[i])
    <3> TAKE i \in 1 .. n
    <3>1. i - 1 \in 0 .. n
      BY <1>1
    <3>2. g[i - 1] \in Packs /\ g[i] = step[<<g[i - 1], i>>]
      BY <3>1, <1>5 DEF Loops
    <3> QED
      BY <3>2, <1>3
  <2> QED
    BY <2>1, <2>2, <1>5 DEF Loops
<1> DEFINE f == CHOOSE after : after = Loop(after)
<1>7. f = Loop(f)
  BY <1>6
<1>8. Fold(AddWord, start, words) = f[n]
  BY DEF Fold
<1> HIDE DEF f
<1>9. f[0] = start /\ \A i \in 1 .. n : f[i] = AddWord(f[i - 1], words[i])
  <2>1. 0 \in 0 .. n /\ \A i \in 1 .. n : i \in 0 .. n /\ i # 0
    BY <1>1
  <2> QED
    BY <2>1, <1>7
<1> DEFINE good == {i \in 0 .. n : f[i] \in Packs}
<1>10. \A i \in 0 .. n : i \in good
  <2>1. 0 \in good
    BY <1>1, <1>2, <1>9
  <2>2. \A i \in 1 .. n : i - 1 \in good => i \in good
    BY <1>1, <1>4, <1>9
  <2> HIDE DEF good
  <2> QED
    BY <2>1, <2>2, <1>1, UpTo
<1>11. n - 1 \in 0 .. n /\ f[n - 1] \in Packs /\ f[n] = AddWord(f[n - 1], words[n])
  <2>1. n - 1 \in 0 .. n
    BY <1>1
  <2> QED
    BY <2>1, <1>1, <1>9, <1>10
<1>12. f[n] \in Packs /\ (f[n].pack # 0 \/ f[n].done # <<>>)
  BY <1>1, <1>11, AddWordIs
<1>13. Flushed(f[n]) \in Seq(Sizes) \ {<<>>}
  BY <1>12, FlushedIs
<1> QED
  BY <1>8, <1>12, <1>13 DEF start

LEMMA HardSplitIs ==
  ASSUME NEW words \in Seq(Nat \ {0}), words # <<>>, Total(words) > Target
  PROVE  HardSplit(words) \in Seq(Sizes) \ {<<>>}
<1>1. Target \in Nat /\ Target > 0
  BY SizesAreNat
<1>2. Total(words) \in Nat
  <2>1. words \in Seq(Nat)
    OBVIOUS
  <2> QED
    BY <2>1, TotalAppend
<1>3. CharSplit(Total(words)) \in Seq(Sizes) \ {<<>>}
  <2>1. Total(words) > 0
    BY <1>1, <1>2
  <2> QED
    BY <2>1, <1>2, CharSplitIs
<1>4. Flushed(Fold(AddWord, [done |-> <<>>, pack |-> 0], words)) \in Seq(Sizes) \ {<<>>}
  BY WordsPacked
<1> QED
  BY <1>3, <1>4 DEF HardSplit

(* The loop over the sentences of a paragraph.                             *)
LEMMA SentencesCut ==
  ASSUME NEW para \in Paragraphs
  PROVE  Fold(AddSentence, <<>>, para) \in Seq(Sizes) \ {<<>>}
<1> DEFINE n == Len(para)
           Loop(f) == [i \in 0 .. n |-> IF i = 0 THEN <<>> ELSE AddSentence(f[i - 1], para[i])]
           step == [p \in Seq(Sizes) \X (1 .. n) |-> AddSentence(p[1], para[p[2]])]
<1>1. n \in Nat /\ n \in 1 .. n /\ \A i \in 1 .. n : para[i] \in Seq(Nat \ {0}) /\ para[i] # <<>>
  <2>1. para \in Seq(Seq(Nat \ {0})) /\ para # <<>> /\ \A i \in DOMAIN para : para[i] # <<>>
    BY ChunkingAssumption
  <2> QED
    BY <2>1
<1>2. <<>> \in Seq(Sizes)
  OBVIOUS
<1>3. \A a \in Seq(Sizes), i \in 1 .. n : step[<<a, i>>] = AddSentence(a, para[i])
  OBVIOUS
<1>4. ASSUME NEW a \in Seq(Sizes), NEW i \in 1 .. n PROVE AddSentence(a, para[i]) \in Seq(Sizes) \ {<<>>}
  <2> DEFINE words == para[i]
             cut == IF Total(words) <= Target THEN <<Total(words)>> ELSE HardSplit(words)
  <2>1. words \in Seq(Nat \ {0}) /\ words # <<>> /\ words \in Seq(Nat)
    BY <1>1
  <2>2. Total(words) \in Nat /\ Target \in Nat
    <3> HIDE DEF words
    <3> QED
      BY <2>1, TotalAppend, SizesAreNat
  <2>3. cut \in Seq(Sizes) \ {<<>>}
    <3>1. CASE Total(words) <= Target
      <4>1. Total(words) \in Sizes
        BY <2>2, <3>1 DEF Sizes
      <4> QED
        BY <4>1, <3>1
    <3>2. CASE ~(Total(words) <= Target)
      <4>1. Total(words) > Target
        BY <2>2, <3>2
      <4> QED
        BY <4>1, <3>2, <2>1, HardSplitIs
    <3> QED
      BY <3>1, <3>2
  <2>4. AddSentence(a, para[i]) = a \o cut
    BY DEF AddSentence
  <2> HIDE DEF cut
  <2> QED
    BY <2>3, <2>4, ConcatProperties
<1> HIDE DEF step
<1>5. PICK g : Loops(g, Seq(Sizes), n, <<>>, step)
  <2>1. \A a \in Seq(Sizes), i \in 1 .. n : step[<<a, i>>] \in Seq(Sizes)
    BY <1>3, <1>4
  <2> QED
    BY <2>1, <1>1, <1>2, LoopExists
<1>6. g = Loop(g)
  <2>1. \A i \in 0 .. n : i = 0 \/ (i \in 1 .. n /\ i # 0 /\ i - 1 \in 0 .. n)
    BY <1>1
  <2>2. \A i \in 1 .. n : g[i] = AddSentence(g[i - 1], para[i])
    <3> TAKE i \in 1 .. n
    <3>1. i - 1 \in 0 .. n
      BY <1>1
    <3>2. g[i - 1] \in Seq(Sizes) /\ g[i] = step[<<g[i - 1], i>>]
      BY <3>1, <1>5 DEF Loops
    <3> QED
      BY <3>2, <1>3
  <2> QED
    BY <2>1, <2>2, <1>5 DEF Loops
<1> DEFINE f == CHOOSE after : after = Loop(after)
<1>7. f = Loop(f)
  BY <1>6
<1>8. Fold(AddSentence, <<>>, para) = f[n]
  BY DEF Fold
<1> HIDE DEF f
<1>9. f[0] = <<>> /\ \A i \in 1 .. n : f[i] = AddSentence(f[i - 1], para[i])
  <2>1. 0 \in 0 .. n /\ \A i \in 1 .. n : i \in 0 .. n /\ i # 0
    BY <1>1
  <2> QED
    BY <2>1, <1>7
<1> DEFINE cuts == Seq(Sizes)
           good == {i \in 0 .. n : f[i] \in cuts}
<1>10. \A i \in 0 .. n : i \in good
  <2>1. f[0] \in cuts /\ \A a \in cuts, i \in 1 .. n : AddSentence(a, para[i]) \in cuts
    BY <1>2, <1>4, <1>9
  <2> HIDE DEF cuts
  <2>2. 0 \in good
    BY <2>1, <1>1
  <2>3. \A i \in 1 .. n : i - 1 \in good => i \in good
    BY <2>1, <1>1, <1>9
  <2> HIDE DEF good
  <2> QED
    BY <2>2, <2>3, <1>1, UpTo
<1>11. n - 1 \in 0 .. n /\ f[n - 1] \in Seq(Sizes) /\ f[n] = AddSentence(f[n - 1], para[n])
  <2>1. n - 1 \in 0 .. n
    BY <1>1
  <2> QED
    BY <2>1, <1>1, <1>9, <1>10
<1> QED
  BY <1>1, <1>4, <1>8, <1>11

LEMMA LengthIs == ASSUME NEW para \in Paragraphs PROVE Length(para) \in Nat
<1> DEFINE sizes == [i \in DOMAIN para |-> Total(para[i])]
<1>1. DOMAIN para = 1 .. Len(para) /\ Len(para) \in Nat /\ \A i \in 1 .. Len(para) : para[i] \in Seq(Nat)
  <2>1. para \in Seq(Seq(Nat \ {0}))
    BY ChunkingAssumption
  <2> QED
    BY <2>1
<1>2. \A i \in 1 .. Len(para) : Total(para[i]) \in Nat
  BY <1>1, TotalAppend
<1>3. sizes \in [1 .. Len(para) -> Nat]
  BY <1>1, <1>2
<1>4. sizes \in Seq(Nat)
  <2> HIDE DEF sizes
  <2> QED
    BY <1>1, <1>3
<1>5. Total(sizes) \in Nat
  <2> HIDE DEF sizes
  <2> QED
    BY <1>4, TotalAppend
<1> QED
  BY <1>5 DEF Length

LEMMA SegmentsAre == ASSUME NEW para \in Paragraphs PROVE Segments(para) \in Seq(Sizes) \ {<<>>}
<1>1. Length(para) \in Nat /\ Target \in Nat
  BY LengthIs, SizesAreNat
<1>2. CASE Length(para) <= Target
  <2>1. Length(para) \in Sizes
    BY <1>1, <1>2 DEF Sizes
  <2> QED
    BY <2>1, <1>2 DEF Segments
<1>3. CASE ~(Length(para) <= Target)
  BY <1>3, SentencesCut DEF Segments
<1> QED
  BY <1>2, <1>3

-----------------------------------------------------------------------------
(* Whole texts *)

Prose == {p \in [segs : Seq(Sizes), from : Nat, chunks : Seq(Nat \X Nat)] : Packed(p)}

LEMMA PackedIsProse == ASSUME NEW p, Packed(p) PROVE p \in Prose
<1>1. /\ p = [segs |-> p.segs, from |-> p.from, chunks |-> p.chunks]
      /\ p.segs \in Seq(Sizes) /\ p.from \in 1 .. Len(p.segs) + 1 /\ p.chunks \in Seq(Nat \X Nat)
  BY DEF Packed
<1>2. p.from \in Nat
  BY <1>1
<1> QED
  BY <1>1, <1>2 DEF Prose

LEMMA NoProsePacked == Packed(NoProse)
<1> DEFINE p == NoProse
<1>1. p = [segs |-> <<>>, from |-> 1, chunks |-> <<>>]
  BY DEF NoProse
<1>2. p.segs = <<>> /\ p.from = 1 /\ p.chunks = <<>> /\ p = [segs |-> p.segs, from |-> p.from, chunks |-> p.chunks]
  BY <1>1
<1>3. <<>> \in Seq(Sizes) /\ <<>> \in Seq(Nat) /\ <<>> \in Seq(Nat \X Nat) /\ Len(<<>>) = 0
  OBVIOUS
<1>4. Tokens(<<>>, 1, 0) = 0
  <2>1. 1 \in 1 .. Len(<<>>) + 1 /\ 1 - 1 = 0
    OBVIOUS
  <2> QED
    BY <2>1, <1>3, TokensBounded DEF TokensOf
<1>5. Target \in Nat
  BY SizesAreNat
<1> HIDE DEF p
<1>6. Packed(p)
  BY <1>2, <1>3, <1>4, <1>5 DEF Packed
<1> QED
  BY <1>6 DEF p

(* The loop over the segments of a paragraph.                              *)
LEMMA SegmentsPacked ==
  ASSUME NEW p, Packed(p), NEW list \in Seq(Sizes)
  PROVE  /\ Packed(Fold(Pack, p, list))
         /\ list # <<>> => Fold(Pack, p, list).segs # <<>>
<1> DEFINE n == Len(list)
           Loop(f) == [i \in 0 .. n |-> IF i = 0 THEN p ELSE Pack(f[i - 1], list[i])]
           step == [a \in Prose \X (1 .. n) |-> Pack(a[1], list[a[2]])]
<1>1. n \in Nat /\ \A i \in 1 .. n : list[i] \in Sizes
  OBVIOUS
<1>2. p \in Prose
  BY PackedIsProse
<1>3. \A a \in Prose, i \in 1 .. n : step[<<a, i>>] = Pack(a, list[i])
  OBVIOUS
<1>4. ASSUME NEW a \in Prose, NEW i \in 1 .. n
      PROVE  Pack(a, list[i]) \in Prose /\ Pack(a, list[i]).segs # <<>>
  <2>1. Packed(a) /\ list[i] \in Sizes
    BY <1>1 DEF Prose
  <2>2. Packed(Pack(a, list[i])) /\ Pack(a, list[i]).segs # <<>>
    BY <2>1, PackStep
  <2> QED
    BY <2>2, PackedIsProse
<1> HIDE DEF step
<1>5. PICK g : Loops(g, Prose, n, p, step)
  <2>1. \A a \in Prose, i \in 1 .. n : step[<<a, i>>] \in Prose
    BY <1>3, <1>4
  <2> QED
    BY <2>1, <1>1, <1>2, LoopExists
<1>6. g = Loop(g)
  <2>1. \A i \in 0 .. n : i = 0 \/ (i \in 1 .. n /\ i # 0 /\ i - 1 \in 0 .. n)
    BY <1>1
  <2>2. \A i \in 1 .. n : g[i] = Pack(g[i - 1], list[i])
    <3> TAKE i \in 1 .. n
    <3>1. i - 1 \in 0 .. n
      BY <1>1
    <3>2. g[i - 1] \in Prose /\ g[i] = step[<<g[i - 1], i>>]
      BY <3>1, <1>5 DEF Loops
    <3> QED
      BY <3>2, <1>3
  <2> QED
    BY <2>1, <2>2, <1>5 DEF Loops
<1> DEFINE f == CHOOSE after : after = Loop(after)
<1>7. f = Loop(f)
  BY <1>6
<1>8. Fold(Pack, p, list) = f[n]
  BY DEF Fold
<1> HIDE DEF f
<1>9. f[0] = p /\ \A i \in 1 .. n : f[i] = Pack(f[i - 1], list[i])
  <2>1. 0 \in 0 .. n /\ \A i \in 1 .. n : i \in 0 .. n /\ i # 0
    BY <1>1
  <2> QED
    BY <2>1, <1>7
<1> DEFINE good == {i \in 0 .. n : f[i] \in Prose}
<1>10. \A i \in 0 .. n : i \in good
  <2>1. 0 \in good
    BY <1>1, <1>2, <1>9
  <2>2. \A i \in 1 .. n : i - 1 \in good => i \in good
    BY <1>1, <1>4, <1>9
  <2> HIDE DEF good
  <2> QED
    BY <2>1, <2>2, <1>1, UpTo
<1>11. f[n] \in Prose
  BY <1>1, <1>10
<1>12. list # <<>> => f[n].segs # <<>>
  <2> HAVE list # <<>>
  <2>1. n \in 1 .. n /\ n - 1 \in 0 .. n
    BY <1>1
  <2> QED
    BY <2>1, <1>4, <1>9, <1>10
<1> QED
  BY <1>8, <1>11, <1>12 DEF Prose

LEMMA AddParagraphIs ==
  ASSUME NEW p, Packed(p), NEW para \in Paragraphs
  PROVE  Packed(AddParagraph(p, para)) /\ AddParagraph(p, para).segs # <<>>
<1> DEFINE list == Segments(para)
<1>1. list \in Seq(Sizes) /\ list # <<>>
  BY SegmentsAre
<1> HIDE DEF list
<1>2. Packed(Fold(Pack, p, list)) /\ Fold(Pack, p, list).segs # <<>>
  BY <1>1, SegmentsPacked
<1> QED
  BY <1>2 DEF AddParagraph, list

(* The loop over the paragraphs of a message.                              *)
LEMMA ParagraphsPacked ==
  ASSUME NEW p, Packed(p), NEW paras \in Seq(Paragraphs)
  PROVE  /\ Packed(Fold(AddParagraph, p, paras))
         /\ paras # <<>> => Fold(AddParagraph, p, paras).segs # <<>>
<1> DEFINE n == Len(paras)
           Loop(f) == [i \in 0 .. n |-> IF i = 0 THEN p ELSE AddParagraph(f[i - 1], paras[i])]
           step == [a \in Prose \X (1 .. n) |-> AddParagraph(a[1], paras[a[2]])]
<1>1. n \in Nat /\ \A i \in 1 .. n : paras[i] \in Paragraphs
  OBVIOUS
<1>2. p \in Prose
  BY PackedIsProse
<1>3. \A a \in Prose, i \in 1 .. n : step[<<a, i>>] = AddParagraph(a, paras[i])
  OBVIOUS
<1>4. ASSUME NEW a \in Prose, NEW i \in 1 .. n
      PROVE  AddParagraph(a, paras[i]) \in Prose /\ AddParagraph(a, paras[i]).segs # <<>>
  <2>1. Packed(a) /\ paras[i] \in Paragraphs
    BY <1>1 DEF Prose
  <2>2. Packed(AddParagraph(a, paras[i])) /\ AddParagraph(a, paras[i]).segs # <<>>
    BY <2>1, AddParagraphIs
  <2> QED
    BY <2>2, PackedIsProse
<1> HIDE DEF step
<1>5. PICK g : Loops(g, Prose, n, p, step)
  <2>1. \A a \in Prose, i \in 1 .. n : step[<<a, i>>] \in Prose
    BY <1>3, <1>4
  <2> QED
    BY <2>1, <1>1, <1>2, LoopExists
<1>6. g = Loop(g)
  <2>1. \A i \in 0 .. n : i = 0 \/ (i \in 1 .. n /\ i # 0 /\ i - 1 \in 0 .. n)
    BY <1>1
  <2>2. \A i \in 1 .. n : g[i] = AddParagraph(g[i - 1], paras[i])
    <3> TAKE i \in 1 .. n
    <3>1. i - 1 \in 0 .. n
      BY <1>1
    <3>2. g[i - 1] \in Prose /\ g[i] = step[<<g[i - 1], i>>]
      BY <3>1, <1>5 DEF Loops
    <3> QED
      BY <3>2, <1>3
  <2> QED
    BY <2>1, <2>2, <1>5 DEF Loops
<1> DEFINE f == CHOOSE after : after = Loop(after)
<1>7. f = Loop(f)
  BY <1>6
<1>8. Fold(AddParagraph, p, paras) = f[n]
  BY DEF Fold
<1> HIDE DEF f
<1>9. f[0] = p /\ \A i \in 1 .. n : f[i] = AddParagraph(f[i - 1], paras[i])
  <2>1. 0 \in 0 .. n /\ \A i \in 1 .. n : i \in 0 .. n /\ i # 0
    BY <1>1
  <2> QED
    BY <2>1, <1>7
<1> DEFINE good == {i \in 0 .. n : f[i] \in Prose}
<1>10. \A i \in 0 .. n : i \in good
  <2>1. 0 \in good
    BY <1>1, <1>2, <1>9
  <2>2. \A i \in 1 .. n : i - 1 \in good => i \in good
    BY <1>1, <1>4, <1>9
  <2> HIDE DEF good
  <2> QED
    BY <2>1, <2>2, <1>1, UpTo
<1>11. f[n] \in Prose
  BY <1>1, <1>10
<1>12. paras # <<>> => f[n].segs # <<>>
  <2> HAVE paras # <<>>
  <2>1. n \in 1 .. n /\ n - 1 \in 0 .. n
    BY <1>1
  <2> QED
    BY <2>1, <1>4, <1>9, <1>10
<1> QED
  BY <1>8, <1>11, <1>12 DEF Prose

-----------------------------------------------------------------------------
(* Messages *)

(* The chunks hold the messages lo + 1 .. hi in order, and are within the  *)
(* budget but for a label.                                                 *)
ChunkedInOrder(out, lo, hi) ==
  /\ lo \in Nat /\ hi \in Nat /\ lo <= hi
  /\ out \in Seq([tokens : Nat, ids : Seq(Nat)])
  /\ \A i \in 1 .. Len(out) : out[i].tokens <= Target + Label
  /\ \A i \in 1 .. Len(out) : \A a \in 1 .. Len(out[i].ids) : out[i].ids[a] \in lo + 1 .. hi
  /\ \A n \in lo + 1 .. hi : \E i \in 1 .. Len(out) : \E a \in 1 .. Len(out[i].ids) : out[i].ids[a] = n
  /\ \A i, j \in 1 .. Len(out) : \A a \in 1 .. Len(out[i].ids), b \in 1 .. Len(out[j].ids) :
       i < j \/ (i = j /\ a < b) => out[i].ids[a] <= out[j].ids[b]

LEMMA ChunkedAppend ==
  ASSUME NEW out, NEW lo, NEW mid, NEW hi, NEW more, ChunkedInOrder(out, lo, mid), ChunkedInOrder(more, mid, hi)
  PROVE  ChunkedInOrder(out \o more, lo, hi)
<1> DEFINE Chunks == [tokens : Nat, ids : Seq(Nat)]
           k == Len(out)
           m == Len(more)
           all == out \o more
<1>1. /\ lo \in Nat /\ mid \in Nat /\ hi \in Nat /\ lo <= mid /\ mid <= hi
      /\ out \in Seq(Chunks) /\ more \in Seq(Chunks) /\ k \in Nat /\ m \in Nat
  BY DEF ChunkedInOrder
<1> HIDE DEF Chunks
<1>2. k \in Nat /\ m \in Nat /\ lo \in Nat /\ mid \in Nat /\ hi \in Nat /\ lo <= mid /\ mid <= hi
  BY <1>1
<1>3. /\ all \in Seq(Chunks) /\ Len(all) = k + m
      /\ \A i \in 1 .. k : all[i] = out[i]
      /\ \A i \in 1 .. m : all[k + i] = more[i]
  <2>1. /\ all \in Seq(Chunks) /\ Len(all) = k + m
        /\ \A i \in 1 .. k + m : all[i] = IF i <= k THEN out[i] ELSE more[i - k]
    BY <1>1, ConcatProperties
  <2>2. ASSUME NEW i \in 1 .. k PROVE all[i] = out[i]
    BY <2>1, <1>1
  <2>3. ASSUME NEW i \in 1 .. m PROVE all[k + i] = more[i]
    <3>1. k + i \in 1 .. k + m /\ ~(k + i <= k) /\ (k + i) - k = i
      BY <1>1
    <3> QED
      BY <3>1, <2>1
  <2> QED
    BY <2>1, <2>2, <2>3
<1> HIDE DEF all
<1>4. (\A i \in 1 .. k : all[i] = out[i]) /\ (\A i \in 1 .. m : all[k + i] = more[i])
  BY <1>3
<1>5. ASSUME NEW i \in 1 .. k + m
      PROVE  (i <= k /\ i \in 1 .. k /\ all[i] = out[i]) \/ (i > k /\ i - k \in 1 .. m /\ all[i] = more[i - k])
  <2>1. CASE i <= k
    <3>1. i \in 1 .. k
      BY <2>1, <1>2
    <3> QED
      BY <2>1, <3>1, <1>4
  <2>2. CASE ~(i <= k)
    <3>1. i - k \in 1 .. m /\ k + (i - k) = i /\ i > k
      BY <2>2, <1>2
    <3>2. all[k + (i - k)] = more[i - k]
      BY <3>1, <1>4
    <3> QED
      BY <3>1, <3>2
  <2> QED
    BY <2>1, <2>2
<1>6. ASSUME NEW i \in 1 .. k
      PROVE  out[i].tokens <= Target + Label /\ \A a \in 1 .. Len(out[i].ids) : out[i].ids[a] \in lo + 1 .. mid
  BY DEF ChunkedInOrder
<1>7. ASSUME NEW i \in 1 .. m
      PROVE  more[i].tokens <= Target + Label /\ \A a \in 1 .. Len(more[i].ids) : more[i].ids[a] \in mid + 1 .. hi
  BY DEF ChunkedInOrder
<1>8. ASSUME NEW i \in 1 .. k + m PROVE all[i].tokens <= Target + Label
  <2>1. CASE i \in 1 .. k /\ all[i] = out[i]
    BY <2>1, <1>6
  <2>2. CASE i - k \in 1 .. m /\ all[i] = more[i - k]
    BY <2>2, <1>7
  <2> QED
    BY <2>1, <2>2, <1>5
<1>9. ASSUME NEW i \in 1 .. k + m, NEW a \in 1 .. Len(all[i].ids) PROVE all[i].ids[a] \in lo + 1 .. hi
  <2>1. CASE i \in 1 .. k /\ all[i] = out[i]
    <3>1. all[i].ids[a] \in lo + 1 .. mid
      BY <2>1, <1>6
    <3> QED
      BY <3>1, <1>2
  <2>2. CASE i - k \in 1 .. m /\ all[i] = more[i - k]
    <3>1. all[i].ids[a] \in mid + 1 .. hi
      BY <2>2, <1>7
    <3> QED
      BY <3>1, <1>2
  <2> QED
    BY <2>1, <2>2, <1>5
<1>10. ASSUME NEW n \in lo + 1 .. hi PROVE \E i \in 1 .. k + m : \E a \in 1 .. Len(all[i].ids) : all[i].ids[a] = n
  <2>1. CASE n <= mid
    <3>1. n \in lo + 1 .. mid
      BY <2>1, <1>2
    <3>2. PICK i \in 1 .. k : \E a \in 1 .. Len(out[i].ids) : out[i].ids[a] = n
      BY <3>1 DEF ChunkedInOrder
    <3>3. i \in 1 .. k + m /\ all[i] = out[i]
      BY <1>2, <1>4
    <3> QED
      BY <3>2, <3>3
  <2>2. CASE ~(n <= mid)
    <3>1. n \in mid + 1 .. hi
      BY <2>2, <1>2
    <3>2. PICK i \in 1 .. m : \E a \in 1 .. Len(more[i].ids) : more[i].ids[a] = n
      BY <3>1 DEF ChunkedInOrder
    <3>3. k + i \in 1 .. k + m /\ all[k + i] = more[i]
      BY <1>2, <1>4
    <3> QED
      BY <3>2, <3>3
  <2> QED
    BY <2>1, <2>2
<1>11. ASSUME NEW i \in 1 .. k + m, NEW j \in 1 .. k + m, NEW a \in 1 .. Len(all[i].ids), NEW b \in 1 .. Len(all[j].ids),
             i < j \/ (i = j /\ a < b)
      PROVE  all[i].ids[a] <= all[j].ids[b]
  <2>1. CASE j <= k
    <3>1. i <= k /\ i \in 1 .. k /\ j \in 1 .. k
      BY <2>1, <1>2, <1>11
    <3>2. all[i] = out[i] /\ all[j] = out[j]
      BY <3>1, <1>4
    <3>3. a \in 1 .. Len(out[i].ids) /\ b \in 1 .. Len(out[j].ids)
      BY <3>2
    <3>4. out[i].ids[a] <= out[j].ids[b]
      BY <3>1, <3>3, <1>11 DEF ChunkedInOrder
    <3> QED
      BY <3>2, <3>4
  <2>2. CASE ~(j <= k) /\ i <= k
    <3>1. i \in 1 .. k /\ j - k \in 1 .. m /\ all[i] = out[i] /\ all[j] = more[j - k]
      <4>1. i \in 1 .. k /\ all[i] = out[i]
        BY <2>2, <1>2, <1>4
      <4>2. j - k \in 1 .. m /\ all[j] = more[j - k]
        BY <2>2, <1>5
      <4> QED
        BY <4>1, <4>2
    <3>2. all[i].ids[a] \in lo + 1 .. mid /\ all[j].ids[b] \in mid + 1 .. hi
      BY <3>1, <1>6, <1>7
    <3> DEFINE u == all[i].ids[a]
               v == all[j].ids[b]
    <3>3. u \in lo + 1 .. mid /\ v \in mid + 1 .. hi
      BY <3>2
    <3> HIDE DEF u, v
    <3>4. u <= v
      BY <3>3, <1>2
    <3> QED
      BY <3>4 DEF u, v
  <2>3. CASE ~(j <= k) /\ ~(i <= k)
    <3>1. i - k \in 1 .. m /\ j - k \in 1 .. m /\ all[i] = more[i - k] /\ all[j] = more[j - k]
      BY <2>3, <1>2, <1>5
    <3>2. i - k < j - k \/ (i - k = j - k /\ a < b)
      BY <1>2, <1>11
    <3> QED
      BY <3>1, <3>2 DEF ChunkedInOrder
  <2> QED
    BY <2>1, <2>2, <2>3
<1>12. all \in Seq([tokens : Nat, ids : Seq(Nat)]) /\ lo <= hi
  <2>1. lo <= hi
    BY <1>2
  <2> QED
    BY <2>1, <1>3 DEF Chunks
<1>13. ChunkedInOrder(all, lo, hi)
  BY <1>2, <1>3, <1>8, <1>9, <1>10, <1>11, <1>12 DEF ChunkedInOrder
<1> QED
  BY <1>13 DEF all

(* The pieces of one message.                                              *)
LEMMA PiecesAre ==
  ASSUME NEW k \in Nat, NEW paras \in Seq(Paragraphs), paras # <<>>
  PROVE  ChunkedInOrder(Pieces(k + 1, Label, paras), k, k + 1)
<1> DEFINE p == Fold(AddParagraph, NoProse, paras)
           c == ChunkProse(p)
           pieces == Pieces(k + 1, Label, paras)
           one == <<k + 1>>
<1>1. one \in Seq(Nat) /\ Len(one) = 1 /\ one[1] = k + 1
  OBVIOUS
<1>2. Packed(p) /\ p.segs # <<>>
  BY NoProsePacked, ParagraphsPacked
<1>3. pieces = [i \in DOMAIN c |-> [tokens |-> Label + Tokens(p.segs, c[i][1], c[i][2]), ids |-> one]]
  BY DEF Pieces
<1> HIDE DEF p, pieces, one
<1>4. ProseWithinBudget(p) /\ c # <<>>
  BY <1>2, PackedSound
<1>5. c \in Seq(Nat \X Nat) /\ \A i \in 1 .. Len(c) : ChunkOf(p.segs, c[i])
  BY <1>2, ChunksAre
<1> HIDE DEF c
<1>6. DOMAIN c = 1 .. Len(c) /\ Len(c) \in Nat /\ 1 \in 1 .. Len(c)
  BY <1>4, <1>5
<1>7. ASSUME NEW i \in 1 .. Len(c)
      PROVE  /\ pieces[i].tokens \in Nat /\ pieces[i].tokens <= Target + Label
             /\ pieces[i] = [tokens |-> pieces[i].tokens, ids |-> one]
             /\ pieces[i].ids = one
  <2> DEFINE t == Tokens(p.segs, c[i][1], c[i][2])
  <2>1. t \in Nat
    <3>1. p.segs \in Seq(Nat) /\ Len(p.segs) \in Nat
      BY <1>2, SizesAreNat DEF Packed
    <3>2. ChunkOf(p.segs, c[i])
      BY <1>5
    <3>3. c[i][1] \in 1 .. Len(p.segs) + 1 /\ c[i][2] \in c[i][1] - 1 .. Len(p.segs)
      BY <3>1, <3>2 DEF ChunkOf
    <3> QED
      BY <3>1, <3>3, TokensBounded DEF TokensOf
  <2>2. t <= Target
    BY <1>5 DEF ChunkOf
  <2>3. pieces[i] = [tokens |-> Label + t, ids |-> one]
    BY <1>3, <1>6
  <2> HIDE DEF t
  <2>4. Label \in Nat /\ Target \in Nat
    BY CallAssumption, SizesAreNat
  <2>5. Label + t \in Nat /\ Label + t <= Target + Label
    BY <2>1, <2>2, <2>4
  <2> QED
    BY <2>3, <2>5
<1>8. pieces \in Seq([tokens : Nat, ids : Seq(Nat)]) /\ Len(pieces) = Len(c)
  <2> DEFINE Chunks == [tokens : Nat, ids : Seq(Nat)]
  <2>1. \A i \in 1 .. Len(c) : pieces[i] \in Chunks
    <3> TAKE i \in 1 .. Len(c)
    <3>1. pieces[i] = [tokens |-> pieces[i].tokens, ids |-> one] /\ pieces[i].tokens \in Nat
      BY <1>7
    <3> QED
      BY <3>1, <1>1
  <2> HIDE DEF Chunks
  <2>2. pieces \in [1 .. Len(c) -> Chunks]
    BY <2>1, <1>3, <1>6
  <2>3. pieces \in Seq(Chunks) /\ Len(pieces) = Len(c)
    BY <2>2, <1>6
  <2> QED
    BY <2>3 DEF Chunks
<1>9. \A i \in 1 .. Len(c) : Len(pieces[i].ids) = 1 /\ pieces[i].ids[1] = k + 1
  BY <1>7, <1>1
<1>10. k + 1 \in Nat /\ k <= k + 1 /\ \A n \in k + 1 .. k + 1 : n = k + 1
  OBVIOUS
<1>11. ASSUME NEW i \in 1 .. Len(c), NEW a \in 1 .. Len(pieces[i].ids) PROVE pieces[i].ids[a] = k + 1
  <2>1. pieces[i].ids = one
    BY <1>7
  <2>2. a \in 1 .. 1
    BY <2>1, <1>1
  <2>3. a = 1
    BY <2>2
  <2> QED
    BY <2>3, <1>9
<1>12. ASSUME NEW n \in k + 1 .. k + 1
       PROVE  \E i \in 1 .. Len(c) : \E a \in 1 .. Len(pieces[i].ids) : pieces[i].ids[a] = n
  <2>1. 1 \in 1 .. Len(pieces[1].ids) /\ pieces[1].ids[1] = n
    BY <1>6, <1>9, <1>10
  <2> QED
    BY <2>1, <1>6
<1>13. \A i \in 1 .. Len(c) : \A a \in 1 .. Len(pieces[i].ids) : pieces[i].ids[a] \in k + 1 .. k + 1
  BY <1>10, <1>11
<1>14. \A i, j \in 1 .. Len(c) : \A a \in 1 .. Len(pieces[i].ids), b \in 1 .. Len(pieces[j].ids) :
         pieces[i].ids[a] <= pieces[j].ids[b]
  <2> TAKE i, j \in 1 .. Len(c)
  <2> TAKE a \in 1 .. Len(pieces[i].ids), b \in 1 .. Len(pieces[j].ids)
  <2>1. pieces[i].ids[a] = k + 1 /\ pieces[j].ids[b] = k + 1
    BY <1>11
  <2> QED
    BY <2>1, <1>10
<1>15. \A i \in 1 .. Len(c) : pieces[i].tokens <= Target + Label
  BY <1>7
<1>16. ChunkedInOrder(pieces, k, k + 1)
  BY <1>8, <1>10, <1>12, <1>13, <1>14, <1>15 DEF ChunkedInOrder
<1> QED
  BY <1>16 DEF pieces

(* k messages are in the stream: the last of them in the open chunk, which *)
(* is within the budget, the others in the chunks before.                  *)
Streamed(s, k) ==
  /\ k \in Nat
  /\ s = [open |-> s.open, tokens |-> s.tokens, out |-> s.out]
  /\ s.open \in Seq(Nat) /\ Len(s.open) <= k
  /\ \A i \in 1 .. Len(s.open) : s.open[i] = (k - Len(s.open)) + i
  /\ s.tokens \in Nat /\ s.tokens <= Target
  /\ s.open = <<>> => s.tokens = 0
  /\ ChunkedInOrder(s.out, 0, k - Len(s.open))

LEMMA NothingChunked == ASSUME NEW k \in Nat PROVE ChunkedInOrder(<<>>, k, k)
<1>1. Len(<<>>) = 0 /\ 1 .. 0 = {} /\ k + 1 .. k = {} /\ <<>> \in Seq([tokens : Nat, ids : Seq(Nat)]) /\ k <= k
  OBVIOUS
<1> QED
  BY <1>1 DEF ChunkedInOrder

LEMMA NoMessagesStreamed == Streamed(NoMessages, 0)
<1> DEFINE s == NoMessages
<1>1. s = [open |-> <<>>, tokens |-> 0, out |-> <<>>]
  BY DEF NoMessages
<1>2. s.open = <<>> /\ s.tokens = 0 /\ s.out = <<>> /\ s = [open |-> s.open, tokens |-> s.tokens, out |-> s.out]
  BY <1>1
<1>3. ChunkedInOrder(<<>>, 0, 0)
  BY NothingChunked
<1>4. Target \in Nat /\ Len(<<>>) = 0 /\ <<>> \in Seq(Nat) /\ 0 - 0 = 0
  BY SizesAreNat
<1> HIDE DEF s
<1>5. Streamed(s, 0)
  BY <1>2, <1>3, <1>4 DEF Streamed
<1> QED
  BY <1>5 DEF s

(* Flushing closes the open chunk.                                         *)
LEMMA FlushIs ==
  ASSUME NEW s, NEW k, Streamed(s, k)
  PROVE  /\ FlushMessages(s) = [open |-> <<>>, tokens |-> 0, out |-> FlushMessages(s).out]
         /\ ChunkedInOrder(FlushMessages(s).out, 0, k)
<1> DEFINE m == Len(s.open)
           chunk == [tokens |-> s.tokens, ids |-> s.open]
           out == IF s.open = <<>> THEN s.out ELSE Append(s.out, chunk)
<1>1. FlushMessages(s) = [open |-> <<>>, tokens |-> 0, out |-> out] /\ FlushMessages(s).out = out
  BY DEF FlushMessages
<1>2. /\ k \in Nat /\ s.open \in Seq(Nat) /\ m \in Nat /\ m <= k /\ k - m \in Nat
      /\ \A i \in 1 .. m : s.open[i] = (k - m) + i
      /\ s.tokens \in Nat /\ s.tokens <= Target /\ ChunkedInOrder(s.out, 0, k - m)
  BY DEF Streamed
<1>3. k \in Nat /\ m \in Nat /\ m <= k /\ \A i \in 1 .. m : s.open[i] = (k - m) + i
  BY <1>2
<1>4. s.tokens \in Nat /\ s.tokens <= Target
  BY <1>2
<1>5. CASE s.open = <<>>
  <2>1. m = 0 /\ k - m = k
    BY <1>2, <1>5
  <2> HIDE DEF m
  <2>2. ChunkedInOrder(out, 0, k)
    BY <1>2, <1>5, <2>1
  <2> QED
    BY <1>1, <2>2
<1>6. CASE s.open # <<>>
  <2> DEFINE one == <<chunk>>
  <2>1. Len(one) = 1 /\ one[1] = chunk /\ one \in Seq([tokens : Nat, ids : Seq(Nat)])
    BY <1>2
  <2>2. chunk.tokens = s.tokens /\ chunk.ids = s.open
    OBVIOUS
  <2> HIDE DEF chunk, one
  <2>3. \A i \in 1 .. Len(one) : i = 1 /\ one[i].tokens = s.tokens /\ one[i].ids = s.open
    BY <2>1, <2>2
  <2>4. s.tokens <= Target + Label
    BY <1>4, CallAssumption, SizesAreNat
  <2>5. \A a \in 1 .. m : s.open[a] \in (k - m) + 1 .. k
    <3> HIDE DEF m
    <3> QED
      BY <1>3
  <2>6. ASSUME NEW n \in (k - m) + 1 .. k PROVE \E a \in 1 .. m : s.open[a] = n
    <3>1. n - (k - m) \in 1 .. m /\ (k - m) + (n - (k - m)) = n
      <4> HIDE DEF m
      <4> QED
        BY <1>3
    <3>2. s.open[n - (k - m)] = n
      BY <3>1, <1>3
    <3> QED
      BY <3>1, <3>2
  <2>7. \A a, b \in 1 .. m : a < b => s.open[a] <= s.open[b]
    <3> HIDE DEF m
    <3> TAKE a, b \in 1 .. m
    <3>1. s.open[a] = (k - m) + a /\ s.open[b] = (k - m) + b
      BY <1>3
    <3> QED
      BY <3>1, <1>3
  <2>8. 1 \in 1 .. Len(one) /\ k - m <= k
    BY <1>2, <2>1
  <2>9. \A i \in 1 .. Len(one) : one[i].tokens <= Target + Label
    BY <2>3, <2>4
  <2>10. \A i \in 1 .. Len(one) : \A a \in 1 .. Len(one[i].ids) : one[i].ids[a] \in (k - m) + 1 .. k
    BY <2>3, <2>5
  <2>11. \A n \in (k - m) + 1 .. k : \E i \in 1 .. Len(one) : \E a \in 1 .. Len(one[i].ids) : one[i].ids[a] = n
    BY <2>3, <2>6, <2>8
  <2>12. \A i, j \in 1 .. Len(one) : \A a \in 1 .. Len(one[i].ids), b \in 1 .. Len(one[j].ids) :
           i < j \/ (i = j /\ a < b) => one[i].ids[a] <= one[j].ids[b]
    <3> TAKE i, j \in 1 .. Len(one)
    <3>1. i = 1 /\ j = 1 /\ one[i].ids = s.open /\ one[j].ids = s.open
      BY <2>3
    <3> QED
      BY <3>1, <2>7
  <2>13. ChunkedInOrder(one, k - m, k)
    BY <2>1, <2>8, <2>9, <2>10, <2>11, <2>12, <1>2 DEF ChunkedInOrder
  <2>14. ChunkedInOrder(s.out \o one, 0, k)
    <3> HIDE DEF m
    <3> QED
      BY <1>2, <2>13, ChunkedAppend
  <2>15. out = s.out \o one
    <3>1. s.out \in Seq([tokens : Nat, ids : Seq(Nat)]) /\ chunk \in [tokens : Nat, ids : Seq(Nat)]
      BY <1>2 DEF ChunkedInOrder, chunk
    <3>2. Append(s.out, chunk) = s.out \o <<chunk>>
      BY <3>1, AppendIsConcat
    <3> QED
      BY <3>2, <1>6 DEF one
  <2> QED
    BY <1>1, <2>14, <2>15
<1> QED
  BY <1>5, <1>6

LEMMA MessageTokensAre ==
  ASSUME NEW paras \in Seq(Paragraphs)
  PROVE  MessageTokens(Label, paras) \in Nat
<1> DEFINE sizes == [i \in DOMAIN paras |-> Length(paras[i])]
<1>1. DOMAIN paras = 1 .. Len(paras) /\ Len(paras) \in Nat /\ \A i \in 1 .. Len(paras) : paras[i] \in Paragraphs
  OBVIOUS
<1>2. \A i \in 1 .. Len(paras) : Length(paras[i]) \in Nat
  BY <1>1, LengthIs
<1>3. sizes \in [1 .. Len(paras) -> Nat]
  BY <1>1, <1>2
<1> HIDE DEF sizes
<1>4. sizes \in Seq(Nat)
  BY <1>1, <1>3
<1>5. Total(sizes) \in Nat /\ Label \in Nat
  BY <1>4, TotalAppend, CallAssumption
<1> QED
  BY <1>5 DEF MessageTokens, sizes

LEMMA AddMessageIs ==
  ASSUME NEW s, NEW k, Streamed(s, k), NEW paras \in Seq(Paragraphs), paras # <<>>
  PROVE  Streamed(AddMessage(s, k + 1, Label, paras), k + 1)
<1> DEFINE n == MessageTokens(Label, paras)
           f == FlushMessages(s)
           done == f.out
           t == AddMessage(s, k + 1, Label, paras)
<1>1. k \in Nat /\ n \in Nat /\ Target \in Nat /\ k + 1 \in Nat
  BY MessageTokensAre, SizesAreNat DEF Streamed
<1>2. f = [open |-> <<>>, tokens |-> 0, out |-> done] /\ ChunkedInOrder(done, 0, k)
  BY FlushIs
<1> HIDE DEF n, f, done
<1>3. f.open = <<>> /\ f.tokens = 0 /\ f.out = done
  BY <1>2
<1>4. CASE n > Target
  <2> DEFINE pieces == Pieces(k + 1, Label, paras)
             out == done \o pieces
  <2>1. ChunkedInOrder(pieces, k, k + 1)
    BY <1>1, PiecesAre
  <2> HIDE DEF pieces
  <2>2. ChunkedInOrder(out, 0, k + 1)
    BY <2>1, <1>2, ChunkedAppend
  <2>3. t = [f EXCEPT !.out = @ \o pieces]
    BY <1>4 DEF AddMessage, SplitMessage, n, f, pieces
  <2>4. t = [open |-> <<>>, tokens |-> 0, out |-> out]
    BY <2>3, <1>2
  <2> HIDE DEF t, out
  <2>5. t.open = <<>> /\ t.tokens = 0 /\ t.out = out /\ t = [open |-> t.open, tokens |-> t.tokens, out |-> t.out]
    BY <2>4
  <2>6. Len(t.open) = 0 /\ t.open \in Seq(Nat) /\ (k + 1) - 0 = k + 1
    BY <2>5, <1>1
  <2>7. Streamed(t, k + 1)
    BY <2>2, <2>5, <2>6, <1>1 DEF Streamed
  <2> QED
    BY <2>7 DEF t
<1>5. CASE ~(n > Target)
  <2> DEFINE room == IF Overfull(s, n) THEN f ELSE s
             m == Len(room.open)
  <2>1. Streamed(room, k) /\ room.tokens + n <= Target
    <3>1. CASE Overfull(s, n)
      <4>1. Len(f.open) = 0 /\ f.open \in Seq(Nat) /\ k - 0 = k
        BY <1>1, <1>3
      <4>2. Streamed(f, k)
        BY <4>1, <1>1, <1>2, <1>3 DEF Streamed
      <4> QED
        BY <3>1, <4>2, <1>1, <1>3, <1>5
    <3>2. CASE ~Overfull(s, n)
      <4>1. s.tokens \in Nat /\ (s.open = <<>> => s.tokens = 0) /\ (s.open = <<>> \/ ~(s.tokens + n > Target))
        BY <3>2 DEF Streamed, Overfull
      <4>2. s.tokens + n <= Target
        BY <4>1, <1>1, <1>5
      <4> QED
        BY <3>2, <4>2
    <3> QED
      BY <3>1, <3>2
  <2>2. t = [room EXCEPT !.open = Append(@, k + 1), !.tokens = @ + n]
    BY <1>5 DEF AddMessage, n, f
  <2> HIDE DEF room, t
  <2>3. /\ room = [open |-> room.open, tokens |-> room.tokens, out |-> room.out]
        /\ room.open \in Seq(Nat) /\ m \in Nat /\ m <= k
        /\ \A i \in 1 .. m : room.open[i] = (k - m) + i
        /\ room.tokens \in Nat /\ ChunkedInOrder(room.out, 0, k - m)
    BY <2>1 DEF Streamed
  <2>4. t = [open |-> Append(room.open, k + 1), tokens |-> room.tokens + n, out |-> room.out]
    BY <2>2, <2>3
  <2>5. /\ t.open = Append(room.open, k + 1) /\ t.tokens = room.tokens + n /\ t.out = room.out
        /\ t = [open |-> t.open, tokens |-> t.tokens, out |-> t.out]
    BY <2>4
  <2>6. /\ t.open \in Seq(Nat) /\ Len(t.open) = m + 1 /\ t.open[m + 1] = k + 1
        /\ \A i \in 1 .. m : t.open[i] = room.open[i]
    BY <2>3, <2>5, <1>1, AppendProperties
  <2>7. (k + 1) - (m + 1) = k - m /\ m + 1 <= k + 1 /\ (k - m) + (m + 1) = k + 1
    BY <2>3, <1>1
  <2>8. ASSUME NEW i \in 1 .. m + 1 PROVE t.open[i] = (k - m) + i
    <3>1. i \in 1 .. m \/ i = m + 1
      BY <2>3
    <3> QED
      BY <3>1, <2>3, <2>6, <2>7
  <2>9. t.open # <<>> /\ t.tokens \in Nat /\ t.tokens <= Target
    <3>1. t.open # <<>>
      BY <2>3, <2>6
    <3>2. room.tokens \in Nat /\ t.tokens = room.tokens + n /\ room.tokens + n <= Target
      BY <2>1, <2>3, <2>5
    <3>3. room.tokens + n \in Nat
      BY <3>2, <1>1
    <3> QED
      BY <3>1, <3>2, <3>3
  <2> HIDE DEF m
  <2>10. Streamed(t, k + 1)
    BY <2>3, <2>5, <2>6, <2>7, <2>8, <2>9, <1>1 DEF Streamed
  <2> QED
    BY <2>10 DEF t
<1> QED
  BY <1>4, <1>5

LEMMA StreamedSound ==
  ASSUME NEW s, NEW k, Streamed(s, k)
  PROVE  MessagesWithinBudget(s, Label) /\ MessagesInOrder(s, k)
<1> DEFINE out == FlushMessages(s).out
           ids == [i \in DOMAIN out |-> out[i].ids]
<1>1. ChunkedInOrder(out, 0, k) /\ k \in Nat
  BY FlushIs DEF Streamed
<1> HIDE DEF out
<1>2. /\ DOMAIN out = 1 .. Len(out)
      /\ \A i \in 1 .. Len(out) : DOMAIN out[i].ids = 1 .. Len(out[i].ids)
  BY <1>1 DEF ChunkedInOrder
<1>3. MessagesWithinBudget(s, Label)
  BY <1>1, <1>2 DEF ChunkedInOrder, MessagesWithinBudget, out
<1>4. DOMAIN ids = 1 .. Len(out) /\ \A i \in 1 .. Len(out) : ids[i] = out[i].ids
  BY <1>2
<1> HIDE DEF ids
<1>5. UNION {Range(ids[i]) : i \in DOMAIN ids} = 1 .. k
  <2>1. ASSUME NEW i \in DOMAIN ids, NEW n \in Range(ids[i]) PROVE n \in 1 .. k
    <3>1. PICK a \in 1 .. Len(out[i].ids) : n = out[i].ids[a]
      BY <1>2, <1>4 DEF Range
    <3>2. n \in 0 + 1 .. k
      BY <3>1, <1>1, <1>4 DEF ChunkedInOrder
    <3> QED
      BY <3>2
  <2>2. ASSUME NEW n \in 1 .. k PROVE \E i \in DOMAIN ids : n \in Range(ids[i])
    <3>1. n \in 0 + 1 .. k
      OBVIOUS
    <3>2. PICK i \in 1 .. Len(out) : \E a \in 1 .. Len(out[i].ids) : out[i].ids[a] = n
      BY <3>1, <1>1 DEF ChunkedInOrder
    <3> QED
      BY <3>2, <1>2, <1>4 DEF Range
  <2> QED
    BY <2>1, <2>2
<1>6. \A i, j \in DOMAIN ids : \A a \in DOMAIN ids[i], b \in DOMAIN ids[j] :
        i < j \/ (i = j /\ a < b) => ids[i][a] <= ids[j][b]
  <2> TAKE i, j \in DOMAIN ids
  <2> TAKE a \in DOMAIN ids[i], b \in DOMAIN ids[j]
  <2>1. /\ i \in 1 .. Len(out) /\ j \in 1 .. Len(out) /\ ids[i] = out[i].ids /\ ids[j] = out[j].ids
        /\ a \in 1 .. Len(out[i].ids) /\ b \in 1 .. Len(out[j].ids)
    BY <1>2, <1>4
  <2>2. i < j \/ (i = j /\ a < b) => out[i].ids[a] <= out[j].ids[b]
    BY <2>1, <1>1 DEF ChunkedInOrder
  <2> QED
    BY <2>1, <2>2
<1>7. MessagesInOrder(s, k)
  BY <1>5, <1>6 DEF MessagesInOrder, ids, out
<1> QED
  BY <1>3, <1>7

-----------------------------------------------------------------------------
(* What is chunked while a call is at it.                                  *)
ChunkInv ==
  /\ job = "messages" => Streamed(work.stream, work.taken)
  /\ job = "prose" => Packed(work.prose)

LEMMA ChunkStep == MessageInv /\ ChunkInv /\ [CallNext]_callVars => ChunkInv'
<1> SUFFICES ASSUME MessageInv, ChunkInv, [CallNext]_callVars PROVE ChunkInv'
  OBVIOUS
<1>1. CASE UNCHANGED callVars
  BY <1>1 DEF ChunkInv, callVars
<1>2. CASE Linearized
  <2>1. job' = "messages" /\ work' = [left |-> Len(Thread(work)), taken |-> 0, stream |-> NoMessages]
    BY <1>2 DEF Linearized
  <2>2. work'.taken = 0 /\ work'.stream = NoMessages
    BY <2>1
  <2> QED
    BY <2>1, <2>2, NoMessagesStreamed DEF ChunkInv
<1>3. CASE TakeMessage
  <2>1. job = "messages" /\ job' = "messages"
    BY <1>3 DEF TakeMessage
  <2>2. PICK paras \in SeqOf(Paragraphs, 2) \ {<<>>} :
          work' = [left |-> work.left - 1, taken |-> work.taken + 1,
                   stream |-> AddMessage(work.stream, work.taken + 1, Label, paras)]
    BY <1>3 DEF TakeMessage
  <2>3. paras \in Seq(Paragraphs) /\ paras # <<>>
    <3>1. PICK m \in 0 .. 2 : paras \in [1 .. m -> Paragraphs]
      BY <2>2 DEF SeqOf
    <3>2. m \in Nat
      OBVIOUS
    <3> QED
      BY <3>1, <3>2, <2>2
  <2>4. Streamed(work.stream, work.taken)
    BY <2>1 DEF ChunkInv
  <2>5. Streamed(AddMessage(work.stream, work.taken + 1, Label, paras), work.taken + 1)
    BY <2>3, <2>4, AddMessageIs
  <2>6. work'.taken = work.taken + 1 /\ work'.stream = AddMessage(work.stream, work.taken + 1, Label, paras)
    BY <2>2
  <2> QED
    BY <2>1, <2>5, <2>6 DEF ChunkInv
<1>4. CASE DropMessage
  <2>1. /\ job = "messages" /\ job' = "messages"
        /\ work' = [left |-> work.left - 1, taken |-> work.taken, stream |-> work.stream]
    BY <1>4 DEF DropMessage, MessageInv
  <2>2. work'.taken = work.taken /\ work'.stream = work.stream
    BY <2>1
  <2> QED
    BY <2>1, <2>2 DEF ChunkInv
<1>5. CASE OpenText
  <2>1. job' = "prose" /\ work' = [left |-> MaxText, prose |-> NoProse]
    BY <1>5 DEF OpenText, Begin
  <2>2. work'.prose = NoProse
    BY <2>1
  <2> QED
    BY <2>1, <2>2, NoProsePacked DEF ChunkInv
<1>6. CASE TakeParagraph
  <2>1. job = "prose" /\ job' = "prose"
    BY <1>6 DEF TakeParagraph
  <2>2. PICK para \in Paragraphs : work' = [left |-> work.left - 1, prose |-> AddParagraph(work.prose, para)]
    BY <1>6 DEF TakeParagraph
  <2>3. work'.prose = AddParagraph(work.prose, para)
    BY <2>2
  <2>4. Packed(work.prose)
    BY <2>1 DEF ChunkInv
  <2>5. Packed(AddParagraph(work.prose, para))
    BY <2>4, AddParagraphIs
  <2> QED
    BY <2>1, <2>3, <2>5 DEF ChunkInv
<1>7. CASE job' \notin {"messages", "prose"}
  BY <1>7 DEF ChunkInv
<1> QED
  BY <1>1, <1>2, <1>3, <1>4, <1>5, <1>6, <1>7
  DEF CallNext, OpenConversation, Walk, CloseConversation, CloseText, StartQuery, RefuseQuery,
      VectorCandidateIds, LexicalCandidateIds, LexicalFrom, Finalize, ReturnQuery, Ingest, Begin, End

LEMMA InvChunks == ChunkInv => ChunksSound
<1> SUFFICES ASSUME ChunkInv PROVE ChunksSound
  OBVIOUS
<1>1. ASSUME job = "prose" PROVE ProseWithinBudget(work.prose) /\ ProseCovered(work.prose)
  <2>1. Packed(work.prose)
    BY <1>1 DEF ChunkInv
  <2> QED
    BY <2>1, PackedSound
<1>2. ASSUME job = "messages" PROVE MessagesWithinBudget(work.stream, Label) /\ MessagesInOrder(work.stream, work.taken)
  <2>1. Streamed(work.stream, work.taken)
    BY <1>2 DEF ChunkInv
  <2> QED
    BY <2>1, StreamedSound
<1> QED
  BY <1>1, <1>2 DEF ChunksSound, ProseBudget, ProseComplete, MessageBudget, MessageOrder

(* Chunks leave nothing out, are in order and keep the token budget.       *)
THEOREM ChunksAreSound == CallSpec => []ChunksSound
<1>1. CallInit => ChunkInv
  BY DEF CallInit, ChunkInv
<1>2. CallInv /\ ChunkInv /\ [CallNext]_callVars => ChunkInv'
  BY ChunkStep DEF CallInv
<1> QED
  BY <1>1, <1>2, CallInvHolds, InvChunks, PTL DEF CallSpec
-----------------------------------------------------------------------------
(* Ingesting again *)

(* Such jobs as the plan of a batch without empty documents has.           *)
Texted(plan) == plan \in Seq(Job) /\ \A i \in 1 .. Len(plan) : plan[i].text \in Texts

Turned(now, one, kind, m) == IF one.kind = kind THEN Applied(now, one, m) ELSE now

Phased(f, rows, plan, kind, m) ==
  /\ f \in [0 .. Len(plan) -> Store]
  /\ f[0] = rows
  /\ \A i \in 1 .. Len(plan) : f[i] = Turned(f[i - 1], plan[i], kind, m)

LEMMA TurnedKept ==
  ASSUME NEW now \in Store, NEW one \in Job, one.text \in Texts, NEW kind, NEW m \in Metas
  PROVE  Turned(now, one, kind, m) \in Store
<1>1. one.doc \in Docs
  BY JobFields
<1>2. [text |-> one.text, meta |-> m, usable |-> "all"] \in Row
  BY RowMade
<1>3. Put(now, one.doc, [text |-> one.text, meta |-> m, usable |-> "all"]) \in Store
  BY <1>1, <1>2, PutRow
<1>4. SetMeta(now, one.doc, m) \in Store /\ Drop(now, one.doc) \in Store
  BY <1>1, SetRowMeta, DropRow
<1> QED
  BY <1>3, <1>4 DEF Turned, Applied

LEMMA PhaseIs ==
  ASSUME NEW rows \in Store, NEW plan, Texted(plan), NEW kind, NEW m \in Metas
  PROVE  \E f : Phased(f, rows, plan, kind, m) /\ Phase(rows, plan, kind, m) = f[Len(plan)]
<1> DEFINE n == Len(plan)
           Loop(f) == [i \in 0 .. n |-> IF i = 0 THEN rows
                                        ELSE IF plan[i].kind = kind THEN Applied(f[i - 1], plan[i], m) ELSE f[i - 1]]
           step == [p \in Store \X (1 .. n) |-> Turned(p[1], plan[p[2]], kind, m)]
<1>1. n \in Nat /\ \A i \in 1 .. n : plan[i] \in Job /\ plan[i].text \in Texts
  BY DEF Texted
<1>2. \A a \in Store, i \in 1 .. n : step[<<a, i>>] = Turned(a, plan[i], kind, m) /\ step[<<a, i>>] \in Store
  <2> TAKE a \in Store, i \in 1 .. n
  <2>1. Turned(a, plan[i], kind, m) \in Store
    BY <1>1, TurnedKept
  <2>2. step[<<a, i>>] = Turned(a, plan[i], kind, m)
    OBVIOUS
  <2> QED
    BY <2>1, <2>2
<1> HIDE DEF step
<1>3. PICK g : Loops(g, Store, n, rows, step)
  BY <1>1, <1>2, LoopExists
<1>4. \A i \in 1 .. n : i - 1 \in 0 .. n /\ i \in 0 .. n /\ i # 0
  BY <1>1
<1> HIDE DEF n
<1>5. \A i \in 1 .. n : g[i] = Turned(g[i - 1], plan[i], kind, m)
  BY <1>2, <1>3, <1>4 DEF Loops
<1>6. Phased(g, rows, plan, kind, m)
  BY <1>3, <1>5 DEF Phased, Loops, n
<1>7. g = Loop(g)
  <2>1. \A i \in 0 .. n : i = 0 \/ i \in 1 .. n
    BY <1>1
  <2> QED
    BY <2>1, <1>3, <1>4, <1>5 DEF Loops, Turned
<1> DEFINE f == CHOOSE after : after = Loop(after)
<1>8. f = Loop(f)
  BY <1>7
<1>9. Phase(rows, plan, kind, m) = f[n]
  BY DEF Phase, n
<1> HIDE DEF f
<1>10. f[0] = rows /\ \A i \in 1 .. n : f[i] = Turned(f[i - 1], plan[i], kind, m)
  <2>1. 0 \in 0 .. n
    BY <1>1
  <2> QED
    BY <2>1, <1>4, <1>8 DEF Turned
<1> DEFINE good == {i \in 0 .. n : f[i] = g[i]}
<1>11. n \in good
  <2>1. 0 \in good
    BY <1>1, <1>3, <1>10 DEF Loops
  <2>2. \A i \in 1 .. n : i - 1 \in good => i \in good
    BY <1>4, <1>5, <1>10
  <2>3. n \in 0 .. n
    BY <1>1
  <2> HIDE DEF good
  <2> QED
    BY <2>1, <2>2, <2>3, <1>1, UpTo
<1> QED
  BY <1>6, <1>9, <1>11 DEF n

(* What the phases of a pass can rely on: the documents of the batch have  *)
(* texts, and the plan was made from the rows.                             *)
PlannedFrom(plan, rows, b, m) ==
  /\ b \in Batches /\ m \in Metas /\ rows \in Store
  /\ \A i \in DOMAIN b : b[i].text # Empty
  /\ plan = CentralPlan(b, m, rows, rows)

SettledBy(b, rows) == {i \in DOMAIN b : SameContent(b[i], rows)}
WritesOf(plan) == {i \in DOMAIN plan : plan[i].kind = "write"}

LEMMA PlannedIs ==
  ASSUME NEW plan, NEW rows, NEW b, NEW m, PlannedFrom(plan, rows, b, m)
  PROVE  /\ Texted(plan) /\ Len(plan) \in Nat /\ DOMAIN plan = 1 .. Len(plan) /\ DOMAIN b = 1 .. Len(plan)
         /\ \A i \in 1 .. Len(plan) : plan[i].doc = b[i].doc /\ plan[i].text = b[i].text
         /\ \A i \in 1 .. Len(plan) : b[i].doc \in Docs /\ b[i].text \in Texts
         /\ \A i \in 1 .. Len(plan) : plan[i].kind # "remove"
<1>1. b \in Batches /\ m \in Metas /\ rows \in Store /\ \A i \in DOMAIN b : b[i].text # Empty
  BY DEF PlannedFrom
<1>2. Fits(plan, b) /\ \A i \in DOMAIN b : plan[i].kind = CentralKind(b, i, m, rows, rows)
  BY <1>1, CentralPlanned DEF PlannedFrom
<1>3. plan \in Seq(Job) /\ DOMAIN plan = DOMAIN b
  BY <1>2 DEF Fits
<1>4. Len(plan) \in Nat /\ DOMAIN plan = 1 .. Len(plan)
  BY <1>3
<1>5. \A i \in DOMAIN b : plan[i].doc = b[i].doc /\ plan[i].text = b[i].text
  BY <1>2 DEF Fits
<1>6. \A i \in DOMAIN b : b[i] \in Source /\ b[i].doc \in Docs /\ b[i].text \in Texts
  BY <1>1, BatchShape
<1>7. ASSUME NEW i \in DOMAIN b PROVE plan[i].kind # "remove"
  <2>1. Classify(b[i], m, rows) \notin {"remove", "skipped"}
    BY <1>1, <1>6, Classified
  <2> QED
    BY <1>2, <2>1 DEF CentralKind
<1> QED
  BY <1>3, <1>4, <1>5, <1>6, <1>7 DEF Texted

(* A document that is written does not have its text, no other row has it, *)
(* and no earlier document is written with it.                             *)
LEMMA WrittenApart ==
  ASSUME NEW plan, NEW rows, NEW b, NEW m, PlannedFrom(plan, rows, b, m), NEW i \in WritesOf(plan)
  PROVE  /\ ~SameContent(b[i], rows)
         /\ \A d \in DOMAIN rows : rows[d].text = b[i].text => d = b[i].doc
         /\ \A j \in 1 .. i - 1 : j \in WritesOf(plan) => b[j].text # b[i].text
         /\ i \in DOMAIN b
<1>1. b \in Batches /\ m \in Metas /\ rows \in Store
  BY DEF PlannedFrom
<1>2. DOMAIN plan = DOMAIN b /\ i \in DOMAIN b /\ DOMAIN b = 1 .. Len(b) /\ Len(b) \in Nat
  BY PlannedIs, <1>1, BatchShape DEF WritesOf
<1>3. \A j \in DOMAIN b : plan[j].kind = CentralKind(b, j, m, rows, rows)
  BY <1>1, CentralPlanned DEF PlannedFrom
<1>4. ASSUME NEW j \in DOMAIN b, plan[j].kind = "write" PROVE Writes(b[j], m, rows, rows)
  BY <1>3, <1>4 DEF CentralKind
<1>5. Writes(b[i], m, rows, rows) /\ \A j \in 1 .. i - 1 : b[j].text = b[i].text => ~Writes(b[j], m, rows, rows)
  <2>1. plan[i].kind = "write"
    BY DEF WritesOf
  <2> QED
    BY <1>2, <1>3, <2>1 DEF CentralKind
<1>6. \A j \in 1 .. i - 1 : j \in WritesOf(plan) => b[j].text # b[i].text
  <2>1. \A j \in 1 .. i - 1 : j \in DOMAIN b
    BY <1>2
  <2> QED
    BY <1>4, <1>5, <2>1 DEF WritesOf
<1>7. b[i] \in Source
  BY <1>1, <1>2, BatchShape
<1>8. ~SameContent(b[i], rows)
  <2>1. Classify(b[i], m, rows) = "write" /\ b[i].text # Empty
    BY <1>2, <1>5 DEF Writes, PlannedFrom
  <2> QED
    BY <2>1 DEF Classify
<1>9. \A d \in DOMAIN rows : rows[d].text = b[i].text => d = b[i].doc
  BY <1>5 DEF Writes, Reconciled, HashOwner
<1> QED
  BY <1>2, <1>6, <1>8, <1>9

(* The write phase keeps what is settled and settles what it writes.       *)
WrittenUpTo(i, now, plan, rows, b) ==
  /\ \A j \in DOMAIN b : SameContent(b[j], rows) => SameContent(b[j], now)
  /\ \A j \in 1 .. i : j \in WritesOf(plan) => SameContent(b[j], now)
  /\ \A d \in DOMAIN now : \/ d \in DOMAIN rows /\ now[d].text = rows[d].text
                           \/ \E j \in 1 .. i : j \in WritesOf(plan) /\ b[j].doc = d /\ b[j].text = now[d].text

LEMMA WriteStep ==
  ASSUME NEW plan, NEW rows, NEW b, NEW m, PlannedFrom(plan, rows, b, m),
         NEW i \in 1 .. Len(plan), NEW now \in Store, WrittenUpTo(i - 1, now, plan, rows, b)
  PROVE  WrittenUpTo(i, Turned(now, plan[i], "write", m), plan, rows, b)
<1> DEFINE new == Turned(now, plan[i], "write", m)
           src == b[i]
           row == [text |-> src.text, meta |-> m, usable |-> "all"]
<1>0. b \in Batches /\ m \in Metas /\ rows \in Store
  BY DEF PlannedFrom
<1>1. /\ Len(plan) \in Nat /\ DOMAIN plan = 1 .. Len(plan) /\ DOMAIN b = 1 .. Len(plan)
      /\ plan[i].doc = src.doc /\ plan[i].text = src.text /\ src.doc \in Docs /\ src.text \in Texts
  BY PlannedIs
<1>2. \A j \in 1 .. i : j \in 1 .. i - 1 \/ j = i
  BY <1>1
<1>3. \A j \in 1 .. i - 1 : j \in 1 .. i
  BY <1>1
<1>4. CASE i \notin WritesOf(plan)
  <2>1. new = now
    BY <1>1, <1>4 DEF WritesOf, Turned
  <2> HIDE DEF new
  <2>2. \A j \in 1 .. i : j \in WritesOf(plan) => SameContent(b[j], new)
    BY <1>2, <1>4, <2>1 DEF WrittenUpTo
  <2>3. \A d \in DOMAIN new : \/ d \in DOMAIN rows /\ new[d].text = rows[d].text
                              \/ \E j \in 1 .. i : j \in WritesOf(plan) /\ b[j].doc = d /\ b[j].text = new[d].text
    BY <1>3, <2>1 DEF WrittenUpTo
  <2>4. \A j \in DOMAIN b : SameContent(b[j], rows) => SameContent(b[j], new)
    BY <2>1 DEF WrittenUpTo
  <2>5. WrittenUpTo(i, new, plan, rows, b)
    BY <2>2, <2>3, <2>4 DEF WrittenUpTo
  <2> QED
    BY <2>5 DEF new
<1>5. CASE i \in WritesOf(plan)
  <2>1. /\ ~SameContent(src, rows)
        /\ \A d \in DOMAIN rows : rows[d].text = src.text => d = src.doc
        /\ \A j \in 1 .. i - 1 : j \in WritesOf(plan) => b[j].text # src.text
    BY <1>5, WrittenApart, <1>0, TextsStored
  <2>2. ~\E d \in DOMAIN now \ {src.doc} : now[d].text = src.text
    BY <2>1 DEF WrittenUpTo
  <2>3. new = Put(now, src.doc, row)
    BY <1>1, <1>5, <2>2 DEF Turned, Applied, WritesOf
  <2>4. row \in Row /\ row.text = src.text
    BY <1>0, <1>1, RowMade
  <2> HIDE DEF new, row
  <2>5. /\ DOMAIN new = DOMAIN now \cup {src.doc} /\ new[src.doc] = row
        /\ \A e \in DOMAIN now : e # src.doc => new[e] = now[e]
    BY <2>3 DEF Put
  <2>6. SameContent(src, new)
    BY <2>4, <2>5 DEF SameContent
  <2>7. \A j \in DOMAIN b : j # i => b[j].doc # src.doc
    BY <1>0, <1>1, BatchShape
  <2>8. \A j \in DOMAIN b : j # i /\ SameContent(b[j], now) => SameContent(b[j], new)
    BY <2>5, <2>7 DEF SameContent
  <2>9. \A j \in DOMAIN b : SameContent(b[j], rows) => SameContent(b[j], new)
    BY <2>1, <2>8 DEF WrittenUpTo
  <2>10. \A j \in 1 .. i : j \in WritesOf(plan) => SameContent(b[j], new)
    <3>1. \A j \in 1 .. i - 1 : j \in DOMAIN b /\ j # i
      BY <1>1
    <3> QED
      BY <1>2, <2>6, <2>8, <3>1 DEF WrittenUpTo
  <2>11. ASSUME NEW d \in DOMAIN new
         PROVE  \/ d \in DOMAIN rows /\ new[d].text = rows[d].text
                \/ \E j \in 1 .. i : j \in WritesOf(plan) /\ b[j].doc = d /\ b[j].text = new[d].text
    <3>1. CASE d = src.doc
      <4>1. i \in 1 .. i /\ new[d].text = src.text
        BY <1>1, <2>4, <2>5, <3>1
      <4> QED
        BY <1>5, <3>1, <4>1
    <3>2. CASE d # src.doc
      <4>1. d \in DOMAIN now /\ new[d] = now[d]
        BY <2>5, <3>2
      <4> QED
        BY <1>3, <4>1 DEF WrittenUpTo
    <3> QED
      BY <3>1, <3>2
  <2>12. WrittenUpTo(i, new, plan, rows, b)
    BY <2>9, <2>10, <2>11 DEF WrittenUpTo
  <2> QED
    BY <2>12 DEF new
<1> QED
  BY <1>4, <1>5

(* A pass leaves rows, and keeps and settles what it should; with nothing  *)
(* to write, it keeps every text.                                          *)
LEMMA AloneIs ==
  ASSUME NEW plan, NEW rows, NEW b, NEW m, PlannedFrom(plan, rows, b, m)
  PROVE  /\ Alone(rows, b, m) \in Store
         /\ SettledBy(b, rows) \cup WritesOf(plan) \subseteq SettledBy(b, Alone(rows, b, m))
         /\ WritesOf(plan) = {} => StoredTexts(Alone(rows, b, m)) = StoredTexts(rows)
<1> DEFINE n == Len(plan)
           wrote == Phase(rows, plan, "write", m)
           updated == Phase(wrote, plan, "update", m)
           removed == Phase(updated, plan, "remove", m)
<1>0. b \in Batches /\ m \in Metas /\ rows \in Store /\ Texted(plan) /\ plan = CentralPlan(b, m, rows, rows)
  BY PlannedIs DEF PlannedFrom
<1>1. /\ n \in Nat /\ DOMAIN plan = 1 .. n /\ DOMAIN b = 1 .. n
      /\ \A i \in 1 .. n : plan[i].kind # "remove"
  BY PlannedIs
<1>2. Alone(rows, b, m) = removed
  BY <1>0 DEF Alone
<1>3. \A i \in 1 .. n : i - 1 \in 0 .. n /\ i \in 0 .. n
  BY <1>1
<1>4. 0 \in 0 .. n /\ n \in 0 .. n
  BY <1>1
<1> HIDE DEF n
<1>5. PICK f : Phased(f, rows, plan, "write", m) /\ wrote = f[n]
  <2>1. \E f : Phased(f, rows, plan, "write", m) /\ Phase(rows, plan, "write", m) = f[Len(plan)]
    BY <1>0, PhaseIs
  <2> QED
    BY <2>1 DEF n
<1>6. f \in [0 .. n -> Store] /\ f[0] = rows /\ \A i \in 1 .. n : f[i] = Turned(f[i - 1], plan[i], "write", m)
  BY <1>5 DEF Phased, n
<1>7. wrote \in Store
  BY <1>4, <1>5, <1>6
<1> HIDE DEF wrote
<1>8. PICK g : Phased(g, wrote, plan, "update", m) /\ updated = g[n]
  <2>1. \E g : Phased(g, wrote, plan, "update", m) /\ Phase(wrote, plan, "update", m) = g[Len(plan)]
    BY <1>0, <1>7, PhaseIs
  <2> QED
    BY <2>1 DEF n
<1>9. g \in [0 .. n -> Store] /\ g[0] = wrote /\ \A i \in 1 .. n : g[i] = Turned(g[i - 1], plan[i], "update", m)
  BY <1>8 DEF Phased, n
<1>10. updated \in Store
  BY <1>4, <1>8, <1>9
<1> HIDE DEF updated
<1>11. PICK h : Phased(h, updated, plan, "remove", m) /\ removed = h[n]
  <2>1. \E h : Phased(h, updated, plan, "remove", m) /\ Phase(updated, plan, "remove", m) = h[Len(plan)]
    BY <1>0, <1>10, PhaseIs
  <2> QED
    BY <2>1 DEF n
<1>12. h \in [0 .. n -> Store] /\ h[0] = updated /\ \A i \in 1 .. n : h[i] = Turned(h[i - 1], plan[i], "remove", m)
  BY <1>11 DEF Phased, n
<1> HIDE DEF removed
<1>13. WrittenUpTo(n, wrote, plan, rows, b)
  <2> DEFINE good == {i \in 0 .. n : WrittenUpTo(i, f[i], plan, rows, b)}
  <2>1. 0 \in good
    <3>1. 1 .. 0 = {}
      OBVIOUS
    <3>2. WrittenUpTo(0, rows, plan, rows, b)
      BY <3>1 DEF WrittenUpTo
    <3> QED
      BY <1>4, <1>6, <3>2
  <2>2. ASSUME NEW i \in 1 .. n, i - 1 \in good PROVE i \in good
    <3>1. f[i - 1] \in Store /\ WrittenUpTo(i - 1, f[i - 1], plan, rows, b) /\ i \in 1 .. Len(plan)
      BY <1>3, <1>6, <2>2 DEF n
    <3>2. WrittenUpTo(i, Turned(f[i - 1], plan[i], "write", m), plan, rows, b)
      BY <3>1, WriteStep
    <3> QED
      BY <1>3, <1>6, <3>2
  <2> HIDE DEF good
  <2>3. n \in good
    BY <1>1, <1>4, <2>1, <2>2, UpTo
  <2> QED
    BY <1>5, <2>3 DEF good
<1>14. DOMAIN updated = DOMAIN wrote /\ \A d \in DOMAIN wrote : updated[d].text = wrote[d].text
  <2> DEFINE good == {i \in 0 .. n : DOMAIN g[i] = DOMAIN wrote /\ \A d \in DOMAIN wrote : g[i][d].text = wrote[d].text}
  <2>1. 0 \in good
    BY <1>4, <1>9
  <2>2. ASSUME NEW i \in 1 .. n, i - 1 \in good PROVE i \in good
    <3> DEFINE now == g[i - 1]
    <3>1. now \in Store /\ DOMAIN now = DOMAIN wrote /\ \A d \in DOMAIN wrote : now[d].text = wrote[d].text
      BY <1>3, <1>9, <2>2
    <3>2. g[i] = Turned(now, plan[i], "update", m)
      BY <1>9
    <3> HIDE DEF now
    <3>3. CASE plan[i].kind = "update"
      <4>1. g[i] = SetMeta(now, plan[i].doc, m)
        BY <3>2, <3>3 DEF Turned, Applied
      <4>2. /\ DOMAIN SetMeta(now, plan[i].doc, m) = DOMAIN now
            /\ \A e \in DOMAIN now : SetMeta(now, plan[i].doc, m)[e].text = now[e].text
        BY <1>0, <3>1, SetRowMeta
      <4> QED
        BY <1>3, <3>1, <4>1, <4>2
    <3>4. CASE plan[i].kind # "update"
      <4>1. g[i] = now
        BY <3>2, <3>4 DEF Turned
      <4> QED
        BY <1>3, <3>1, <4>1
    <3> QED
      BY <3>3, <3>4
  <2> HIDE DEF good
  <2>3. n \in good
    BY <1>1, <1>4, <2>1, <2>2, UpTo
  <2> QED
    BY <1>8, <2>3 DEF good
<1>15. removed = updated
  <2> DEFINE good == {i \in 0 .. n : h[i] = updated}
  <2>1. 0 \in good
    BY <1>4, <1>12
  <2>2. ASSUME NEW i \in 1 .. n, i - 1 \in good PROVE i \in good
    <3>1. h[i] = h[i - 1]
      BY <1>1, <1>12 DEF Turned
    <3> QED
      BY <1>3, <2>2, <3>1
  <2> HIDE DEF good
  <2>3. n \in good
    BY <1>1, <1>4, <2>1, <2>2, UpTo
  <2> QED
    BY <1>11, <2>3 DEF good
<1>16. \A j \in DOMAIN b : SameContent(b[j], wrote) => SameContent(b[j], removed)
  BY <1>14, <1>15 DEF SameContent
<1>17. SettledBy(b, rows) \cup WritesOf(plan) \subseteq SettledBy(b, removed)
  <2>1. \A j \in WritesOf(plan) : j \in 1 .. n /\ j \in DOMAIN b
    BY <1>1 DEF WritesOf
  <2>2. \A j \in SettledBy(b, rows) \cup WritesOf(plan) : j \in DOMAIN b /\ SameContent(b[j], wrote)
    BY <1>13, <2>1 DEF WrittenUpTo, SettledBy
  <2> QED
    BY <1>16, <2>2 DEF SettledBy
<1>18. ASSUME WritesOf(plan) = {} PROVE StoredTexts(removed) = StoredTexts(rows)
  <2> DEFINE good == {i \in 0 .. n : f[i] = rows}
  <2>1. 0 \in good
    BY <1>4, <1>6
  <2>2. ASSUME NEW i \in 1 .. n, i - 1 \in good PROVE i \in good
    <3>1. plan[i].kind # "write"
      BY <1>1, <1>18 DEF WritesOf
    <3>2. f[i] = f[i - 1]
      BY <1>6, <3>1 DEF Turned
    <3> QED
      BY <1>3, <2>2, <3>2
  <2> HIDE DEF good
  <2>3. n \in good
    BY <1>1, <1>4, <2>1, <2>2, UpTo
  <2>4. wrote = rows
    BY <1>5, <2>3 DEF good
  <2> QED
    BY <1>14, <1>15, <2>4 DEF StoredTexts
<1> QED
  BY <1>2, <1>10, <1>15, <1>17, <1>18

(* Something is to be written exactly if a text of the batch is missing.   *)
LEMMA MissingIsWritten ==
  ASSUME NEW plan, NEW rows, NEW b, NEW m, PlannedFrom(plan, rows, b, m)
  PROVE  WritesOf(plan) = {} <=> TextsOf(b) \subseteq StoredTexts(rows)
<1>0. b \in Batches /\ m \in Metas /\ rows \in Store /\ \A i \in DOMAIN b : b[i].text # Empty
  BY DEF PlannedFrom
<1>1. DOMAIN plan = DOMAIN b /\ \A i \in DOMAIN b : plan[i].kind = CentralKind(b, i, m, rows, rows)
  BY <1>0, CentralPlanned DEF PlannedFrom, Fits
<1>2. ASSUME WritesOf(plan) = {}, NEW i \in DOMAIN b PROVE b[i].text \in StoredTexts(rows)
  <2>1. \A j \in DOMAIN b : CentralKind(b, j, m, rows, rows) # "write"
    BY <1>1, <1>2 DEF WritesOf
  <2>2. CentralKind(b, i, m, rows, rows) \notin {"remove", "skipped"}
    <3>1. b[i] \in Source
      BY <1>0, BatchShape
    <3>2. Classify(b[i], m, rows) \notin {"remove", "skipped"}
      BY <1>0, <3>1, Classified
    <3> QED
      BY <3>2 DEF CentralKind
  <2> QED
    BY <1>0, <2>1, <2>2, LeftAlone
<1>3. ASSUME TextsOf(b) \subseteq StoredTexts(rows), NEW i \in WritesOf(plan) PROVE FALSE
  <2>1. /\ ~SameContent(b[i], rows) /\ i \in DOMAIN b
        /\ \A d \in DOMAIN rows : rows[d].text = b[i].text => d = b[i].doc
    BY WrittenApart
  <2>2. b[i].text \in StoredTexts(rows)
    BY <1>0, <1>3, <2>1 DEF TextsOf
  <2>3. PICK d \in DOMAIN rows : rows[d].text = b[i].text
    BY <2>2 DEF StoredTexts
  <2> QED
    BY <2>1, <2>3 DEF SameContent
<1> QED
  BY <1>2, <1>3 DEF TextsOf

(* One pass: whatever is complete stays so, and otherwise one more document *)
(* at least is settled.                                                     *)
Complete(b, rows) == TextsOf(b) \subseteq StoredTexts(rows)

LEMMA PassAdvances ==
  ASSUME NEW b \in Batches, NEW m \in Metas, NEW rows \in Store, \A i \in DOMAIN b : b[i].text # Empty
  PROVE  /\ Alone(rows, b, m) \in Store
         /\ Complete(b, rows) => Complete(b, Alone(rows, b, m))
         /\ \A k \in Nat : Complete(b, rows) \/ Cardinality(SettledBy(b, rows)) >= k
              => Complete(b, Alone(rows, b, m)) \/ Cardinality(SettledBy(b, Alone(rows, b, m))) >= k + 1
<1> DEFINE plan == CentralPlan(b, m, rows, rows)
           new == Alone(rows, b, m)
           S == SettledBy(b, rows)
           T == SettledBy(b, new)
<1>1. PlannedFrom(plan, rows, b, m)
  BY DEF PlannedFrom
<1> HIDE DEF plan
<1>2. /\ new \in Store /\ S \cup WritesOf(plan) \subseteq T
      /\ WritesOf(plan) = {} => StoredTexts(new) = StoredTexts(rows)
  BY <1>1, AloneIs
<1>3. WritesOf(plan) = {} <=> Complete(b, rows)
  BY <1>1, MissingIsWritten DEF Complete
<1> HIDE DEF new
<1>4. Complete(b, rows) => Complete(b, new)
  BY <1>2, <1>3 DEF Complete
<1>5. ASSUME NEW k \in Nat, ~Complete(b, rows), Cardinality(S) >= k PROVE Cardinality(T) >= k + 1
  <2>1. PICK i \in WritesOf(plan) : TRUE
    BY <1>3, <1>5
  <2>2. ~SameContent(b[i], rows)
    BY <1>1, WrittenApart
  <2>3. i \notin S
    BY <2>2 DEF SettledBy
  <2>4. IsFiniteSet(DOMAIN b)
    BY BatchShape, RangeSize
  <2>5. S \subseteq DOMAIN b /\ T \subseteq DOMAIN b
    BY DEF SettledBy
  <2> HIDE DEF S, T
  <2>6. IsFiniteSet(S) /\ IsFiniteSet(T)
    BY <2>4, <2>5, FS_Subset
  <2>7. S \cup {i} \subseteq T
    BY <1>2, <2>1
  <2>8. Cardinality(S \cup {i}) = Cardinality(S) + 1
    BY <2>3, <2>6, FS_AddElement
  <2>9. Cardinality(S \cup {i}) <= Cardinality(T)
    BY <2>6, <2>7, FS_Subset
  <2>10. Cardinality(S) \in Nat /\ Cardinality(T) \in Nat
    BY <2>6, FS_CardinalityType
  <2> QED
    BY <1>5, <2>8, <2>9, <2>10
<1> QED
  BY <1>2, <1>4, <1>5 DEF new

Repeated(f, rows, b, m) ==
  /\ f \in [0 .. Len(b) -> Store]
  /\ f[0] = rows
  /\ \A i \in 1 .. Len(b) : f[i] = Alone(f[i - 1], b, m)

LEMMA RepeatedIs ==
  ASSUME NEW b \in Batches, NEW m \in Metas, NEW rows \in Store, \A i \in DOMAIN b : b[i].text # Empty
  PROVE  \E f : Repeated(f, rows, b, m) /\ AsOftenAsDocuments(rows, b, m) = f[Len(b)]
<1> DEFINE n == Len(b)
           Loop(f) == [i \in 0 .. n |-> IF i = 0 THEN rows ELSE Alone(f[i - 1], b, m)]
           step == [p \in Store \X (1 .. n) |-> Alone(p[1], b, m)]
<1>1. n \in Nat
  BY BatchShape
<1>2. \A a \in Store, i \in 1 .. n : step[<<a, i>>] = Alone(a, b, m) /\ step[<<a, i>>] \in Store
  <2> TAKE a \in Store, i \in 1 .. n
  <2>1. Alone(a, b, m) \in Store
    BY PassAdvances
  <2>2. step[<<a, i>>] = Alone(a, b, m)
    OBVIOUS
  <2> QED
    BY <2>1, <2>2
<1> HIDE DEF step
<1>3. PICK g : Loops(g, Store, n, rows, step)
  BY <1>1, <1>2, LoopExists
<1>4. \A i \in 1 .. n : i - 1 \in 0 .. n /\ i \in 0 .. n /\ i # 0
  BY <1>1
<1> HIDE DEF n
<1>5. \A i \in 1 .. n : g[i] = Alone(g[i - 1], b, m)
  BY <1>2, <1>3, <1>4 DEF Loops
<1>6. Repeated(g, rows, b, m)
  BY <1>3, <1>5 DEF Repeated, Loops, n
<1>7. g = Loop(g)
  <2>1. \A i \in 0 .. n : i = 0 \/ i \in 1 .. n
    BY <1>1
  <2> QED
    BY <2>1, <1>3, <1>4, <1>5 DEF Loops
<1> DEFINE f == CHOOSE after : after = Loop(after)
<1>8. f = Loop(f)
  BY <1>7
<1>9. AsOftenAsDocuments(rows, b, m) = f[n]
  BY DEF AsOftenAsDocuments, n
<1> HIDE DEF f
<1>10. f[0] = rows /\ \A i \in 1 .. n : f[i] = Alone(f[i - 1], b, m)
  <2>1. 0 \in 0 .. n
    BY <1>1
  <2> QED
    BY <2>1, <1>4, <1>8
<1> DEFINE good == {i \in 0 .. n : f[i] = g[i]}
<1>11. n \in good
  <2>1. 0 \in good
    BY <1>1, <1>3, <1>10 DEF Loops
  <2>2. \A i \in 1 .. n : i - 1 \in good => i \in good
    BY <1>4, <1>5, <1>10
  <2>3. n \in 0 .. n
    BY <1>1
  <2> HIDE DEF good
  <2> QED
    BY <2>1, <2>2, <2>3, <1>1, UpTo
<1> QED
  BY <1>6, <1>9, <1>11 DEF n

LEMMA RepeatedHeals ==
  ASSUME NEW b \in Batches, NEW m \in Metas, NEW rows \in Store
  PROVE  Complete(b, AsOftenAsDocuments(rows, b, m))
<1>0. Len(b) \in Nat /\ Len(b) >= 1 /\ DOMAIN b = 1 .. Len(b)
  BY BatchShape
<1>1. CASE \E i \in DOMAIN b : b[i].text = Empty
  <2>1. ~(Len(b) > 1)
    BY <1>1 DEF Batches
  <2>2. \A i, j \in DOMAIN b : i = j
    BY <1>0, <2>1
  <2>3. TextsOf(b) = {}
    BY <1>1, <2>2 DEF TextsOf
  <2> QED
    BY <2>3 DEF Complete
<1>2. CASE \A i \in DOMAIN b : b[i].text # Empty
  <2> DEFINE n == Len(b)
             Healing(i, now) == Complete(b, now) \/ Cardinality(SettledBy(b, now)) >= i
  <2>1. PICK f : Repeated(f, rows, b, m) /\ AsOftenAsDocuments(rows, b, m) = f[n]
    <3>1. \E f : Repeated(f, rows, b, m) /\ AsOftenAsDocuments(rows, b, m) = f[Len(b)]
      BY <1>2, RepeatedIs
    <3> QED
      BY <3>1
  <2> HIDE DEF n
  <2>2. f \in [0 .. n -> Store] /\ f[0] = rows /\ \A i \in 1 .. n : f[i] = Alone(f[i - 1], b, m)
    BY <2>1 DEF Repeated, n
  <2>3. n \in Nat /\ \A i \in 1 .. n : i - 1 \in 0 .. n /\ i \in 0 .. n /\ i - 1 \in Nat /\ (i - 1) + 1 = i
    BY <1>0 DEF n
  <2>4. ASSUME NEW now PROVE IsFiniteSet(SettledBy(b, now)) /\ Cardinality(SettledBy(b, now)) \in Nat
    <3>1. IsFiniteSet(DOMAIN b)
      BY <1>0, RangeSize
    <3>2. SettledBy(b, now) \subseteq DOMAIN b
      BY DEF SettledBy
    <3> QED
      BY <3>1, <3>2, FS_Subset, FS_CardinalityType
  <2> DEFINE good == {i \in 0 .. n : Healing(i, f[i])}
  <2>5. 0 \in good
    <3>1. Cardinality(SettledBy(b, f[0])) >= 0
      BY <2>4
    <3> QED
      BY <2>3, <3>1
  <2>6. ASSUME NEW i \in 1 .. n, i - 1 \in good PROVE i \in good
    <3> DEFINE now == f[i - 1]
    <3>1. now \in Store /\ Healing(i - 1, now) /\ f[i] = Alone(now, b, m)
      BY <2>2, <2>3, <2>6
    <3> HIDE DEF now
    <3>2. \A k \in Nat : Healing(k, now) => Healing(k + 1, Alone(now, b, m))
      BY <1>2, <3>1, PassAdvances
    <3>3. Healing(i, f[i])
      <4> HIDE DEF Healing
      <4>1. Healing((i - 1) + 1, Alone(now, b, m))
        BY <2>3, <3>1, <3>2
      <4> QED
        BY <2>3, <3>1, <4>1
    <3> QED
      BY <2>3, <3>3
  <2>7. Healing(n, f[n])
    <3> HIDE DEF good
    <3>1. n \in 0 .. n
      BY <2>3
    <3>2. n \in good
      BY <2>3, <2>5, <2>6, <3>1, UpTo
    <3> QED
      BY <3>2 DEF good
  <2>8. CASE Cardinality(SettledBy(b, f[n])) >= n
    <3> DEFINE S == SettledBy(b, f[n])
    <3>1. IsFiniteSet(DOMAIN b) /\ Cardinality(DOMAIN b) = n
      BY <1>0, RangeSize DEF n
    <3>2. S \subseteq DOMAIN b /\ Cardinality(S) \in Nat
      BY <2>4 DEF SettledBy
    <3>3. Cardinality(S) >= n
      BY <2>8
    <3> HIDE DEF S
    <3>4. Cardinality(S) <= n /\ (Cardinality(S) = n => S = DOMAIN b)
      BY <3>1, <3>2, FS_Subset
    <3>5. S = DOMAIN b
      BY <2>3, <3>2, <3>3, <3>4
    <3>6. \A i \in DOMAIN b : SameContent(b[i], f[n])
      BY <3>5 DEF S, SettledBy
    <3>7. Complete(b, f[n])
      BY <3>6 DEF Complete, SameContent, StoredTexts, TextsOf
    <3> QED
      BY <2>1, <3>7
  <2> QED
    BY <2>1, <2>7, <2>8
<1> QED
  BY <1>1, <1>2

(* Ingesting a batch again as often as it has documents stores all its     *)
(* texts, whatever races and faults have left.                             *)
THEOREM IngestingAgainHeals == Spec => []RepeatedIngestHeals
<1>1. Inv => RepeatedIngestHeals
  <2> SUFFICES ASSUME Inv, NEW b \in Batches, NEW m \in Metas
               PROVE  TextsOf(b) \subseteq StoredTexts(AsOftenAsDocuments(central, b, m))
    BY DEF RepeatedIngestHeals
  <2>1. central \in Store
    BY DEF Inv, Requests
  <2> QED
    BY <2>1, RepeatedHeals DEF Complete
<1> QED
  BY <1>1, InvHolds, PTL
=============================================================================
