------------------------------ MODULE Retrieval ------------------------------
(***************************************************************************)
(* Ranking for a memory query: how many candidates are fetched, reciprocal *)
(* rank fusion of the vector and the full-text list, reranking and the     *)
(* per-document quota (memory_core/retrieval.py and the query helpers of   *)
(* the two stores, which mirror each other).                               *)
(***************************************************************************)
EXTENDS Integers, Sequences, SequencesExt, FiniteSetsExt, Functions

CONSTANTS
  MinPool, PoolFactor,      \* _MIN_CANDIDATE_POOL, _CANDIDATE_MULTIPLIER
  DedupPool, DedupFactor,   \* _DEFAULT_DEDUP_POOL, _DEDUP_POOL_MULTIPLIER
  RerankPool, MaxRerank,    \* _DEFAULT_RERANK_POOL, _MAX_RERANK_POOL
  PoolLimit,                \* _VEC_K_LIMIT
  MaxTopK,                  \* _MEMORY_MAX_TOP_K
  Unset                     \* an argument that was not given

ASSUME PoolAssumption ==
  /\ {MinPool, DedupPool, RerankPool, MaxRerank, PoolLimit, MaxTopK} \subseteq Nat
  /\ PoolFactor \in Nat \ {0} /\ DedupFactor \in Nat \ {0}
  /\ MaxTopK <= PoolLimit /\ MaxRerank <= PoolLimit /\ RerankPool <= PoolLimit

Larger(a, b) == IF a > b THEN a ELSE b
Smaller(a, b) == IF a < b THEN a ELSE b

CandidatePoolSwapped(n) == Larger(Smaller(MinPool, n * PoolFactor), 1)
CandidatePool(n) == Smaller(Larger(MinPool, n * PoolFactor), PoolLimit)
ResolveDedupPool(k) == Smaller(Larger(DedupPool, k * DedupFactor), PoolLimit)

(* The rerank pool is never below top_k; a bad one is refused.             *)
RerankPoolOK(n) == n = Unset \/ n \in 1..MaxRerank
ResolveRerankPool(n, k) == Larger(IF n = Unset THEN RerankPool ELSE n, k)

PoolTarget(a) ==
  LET reranked == IF a.rerank THEN Larger(a.topk, ResolveRerankPool(a.pool, a.topk)) ELSE a.topk
  IN IF a.quota = Unset THEN reranked ELSE Larger(reranked, ResolveDedupPool(a.topk))

-----------------------------------------------------------------------------
(* Fusion.  Ids are numbers, for their order.  A score is the sum of       *)
(* 1 / (60 + rank), scaled to a whole number.                              *)

RRF_K == 60
Scale(lists) ==
  LET longest == Larger(Len(lists[1]), Len(lists[2]))
      product[r \in 0..longest] == IF r = 0 THEN 1 ELSE product[r - 1] * (RRF_K + r)
  IN product[longest]

Share(list, id, scale) ==
  IF id \in Range(list) THEN scale \div (RRF_K + (CHOOSE r \in DOMAIN list : list[r] = id)) ELSE 0

ScoreOverwritten(lists, id) ==
  IF id \in Range(lists[2]) THEN Share(lists[2], id, Scale(lists)) ELSE Share(lists[1], id, Scale(lists))
Score(lists, id) == Share(lists[1], id, Scale(lists)) + Share(lists[2], id, Scale(lists))

(* Best score first, ties by id.                                           *)
Before(score, a, b) == score[a] > score[b] \/ (score[a] = score[b] /\ a < b)
ByScore(ids, score) ==
  CHOOSE list \in SetToSeqs(ids) : \A i, j \in DOMAIN list : i < j => Before(score, list[i], list[j])

ReciprocalRankFusion(lists) ==
  LET ids == Range(lists[1]) \cup Range(lists[2])
  IN ByScore(ids, [id \in ids |-> Score(lists, id)])

FuseRankedIds(lists, k) == SubSeq(ReciprocalRankFusion(lists), 1, Smaller(k, Len(ReciprocalRankFusion(lists))))

(* The fused ids that still have a row, in their order.                    *)
WithRows(list, present) ==
  LET rows[i \in 0..Len(list)] ==
        IF i = 0 THEN <<>>
        ELSE IF list[i] \in present THEN Append(rows[i - 1], list[i]) ELSE rows[i - 1]
  IN rows[Len(list)]

(* Reranking sorts the whole pool by the model's scores.                   *)
RerankOrder(list, score) == ByScore(Range(list), score)

(* At most quota chunks of a document, and the first k of those.           *)
Refused(kept, doc, id, quota, k) ==
  Len(kept) >= k \/ Cardinality({i \in DOMAIN kept : doc[kept[i]] = doc[id]}) >= quota

DedupByDoc(list, doc, quota, k) ==
  LET kept[i \in 0..Len(list)] ==
        IF i = 0 THEN <<>>
        ELSE IF Refused(kept[i - 1], doc, list[i], quota, k) THEN kept[i - 1]
        ELSE Append(kept[i - 1], list[i])
  IN kept[Len(list)]

Sliced(list, doc, a) ==
  IF a.quota = Unset THEN SubSeq(list, 1, Smaller(a.topk, Len(list)))
  ELSE DedupByDoc(list, doc, a.quota, a.topk)
==============================================================================
