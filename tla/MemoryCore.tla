----------------------------- MODULE MemoryCore -----------------------------
(***************************************************************************)
(* What one memory call does besides writing: an export is linearized and  *)
(* its messages chunked, a text is chunked, or a query is answered from    *)
(* the corpus while other calls go on changing it.  A query reads in three *)
(* separate statements (vector list, full-text list, rows), and nothing    *)
(* holds the corpus still between them.                                    *)
(***************************************************************************)
EXTENDS Conversation, Chunking, Retrieval

CONSTANTS
  Label,          \* tokens of "role:" in front of a message
  MaxText,        \* bound: paragraphs of a text
  Doc             \* the document of each chunk id

ASSUME CallAssumption ==
  /\ IsFiniteSet(Nodes) /\ IsFiniteSet(DOMAIN Doc) /\ DOMAIN Doc \subseteq Int
  /\ Label \in Nat /\ MaxText \in Nat

VARIABLES
  job,            \* "idle" or the stage of the call in progress
  work            \* what that stage holds

callVars == <<job, work>>

Ids == DOMAIN Doc
Documents == Range(Doc)
Nothing == [none |-> TRUE]

CallInit == job = "idle" /\ work = Nothing

Begin(stage, with) == job = "idle" /\ job' = stage /\ work' = with
End == job' = "idle" /\ work' = Nothing

-----------------------------------------------------------------------------
(* ChatGPT export *)

OpenConversation ==
  \E x \in Mappings : \E n \in Starts(x) :
    Begin("walk", [map |-> x, at |-> n, chain |-> <<>>])

Walk ==
  /\ job = "walk" /\ MayVisit(work)
  /\ work' = Visit(work)
  /\ UNCHANGED job

Linearized ==
  /\ job = "walk" /\ ~MayVisit(work)
  /\ job' = "messages"
  /\ work' = [left |-> Len(Thread(work)), taken |-> 0, stream |-> NoMessages]

(* The next node has a message worth keeping, ...                          *)
TakeMessage ==
  /\ job = "messages" /\ work.left > 0
  /\ \E paras \in SeqOf(Paragraphs, 2) \ {<<>>} :
       work' = [left |-> work.left - 1, taken |-> work.taken + 1,
                stream |-> AddMessage(work.stream, work.taken + 1, Label, paras)]
  /\ UNCHANGED job

(* ... or no message, one by the system, or one without text.              *)
DropMessage ==
  /\ job = "messages" /\ work.left > 0
  /\ work' = [work EXCEPT !.left = @ - 1]
  /\ UNCHANGED job

CloseConversation == job = "messages" /\ work.left = 0 /\ End

-----------------------------------------------------------------------------
(* Prose *)

OpenText == Begin("prose", [left |-> MaxText, prose |-> NoProse])

TakeParagraph ==
  /\ job = "prose" /\ work.left > 0
  /\ \E para \in Paragraphs :
       work' = [left |-> work.left - 1, prose |-> AddParagraph(work.prose, para)]
  /\ UNCHANGED job

CloseText == job = "prose" /\ End

-----------------------------------------------------------------------------
(* Query *)

Args == [topk : 0..MaxTopK, rerank : BOOLEAN, pool : {Unset} \cup 0..MaxRerank + 1, quota : {Unset, 1}]

(* The corpus as a query sees it: a document is absent, or stored with     *)
(* metadata that pass the query's filter or do not.                        *)
Views == [Documents -> {"absent", "match", "other"}]
Matching(c) == {id \in Ids : c[Doc[id]] = "match"}
Present(c) == {id \in Ids : c[Doc[id]] # "absent"}

StartQuery ==
  \E a \in Args : (~a.rerank => a.pool = Unset) /\ Begin("checking", [args |-> a])

(* The arguments are checked and the models loaded before the store is     *)
(* opened.  The pool is looked at only when reranking.                     *)
ValidateQueryArgs(a) == a.topk \in 1..MaxTopK /\ (a.rerank => RerankPoolOK(a.pool))

(* Bad arguments (400), or the embedder or the reranker cannot be loaded   *)
(* (503): nothing is read.                                                 *)
RefuseQuery == job = "checking" /\ End

(* Ranked lists of at most n of the given ids.                             *)
Rankings(ids, n) == UNION {SetToSeqs(s) : s \in {s \in SUBSET ids : Cardinality(s) <= n}}

(* The exact scan returns the n nearest of the chunks that pass the filter.*)
VectorCandidateIds ==
  /\ job = "checking" /\ ValidateQueryArgs(work.args)
  /\ \E c \in Views :
       LET pool == CandidatePool(PoolTarget(work.args))
       IN \E list \in Rankings(Matching(c), pool) :
            /\ Len(list) = Smaller(pool, Cardinality(Matching(c)))
            /\ work' = [args |-> work.args, corpus |-> c, disturbed |-> FALSE, vec |-> list]
  /\ job' = "vector"

(* The full-text index returns any of them (none without an indexable      *)
(* term); the two lists are fused.                                         *)
LexicalFrom(ids) ==
  /\ job = "vector"
  /\ \E list \in Rankings(ids, CandidatePool(PoolTarget(work.args))) :
       work' = [args |-> work.args, corpus |-> work.corpus, disturbed |-> work.disturbed,
                lists |-> <<work.vec, list>>,
                fused |-> FuseRankedIds(<<work.vec, list>>, PoolTarget(work.args))]
  /\ job' = "fused"
LexicalCandidateIds == LexicalFrom(Matching(work.corpus))

(* Rows are loaded for the fused ids that still exist (the filter is not   *)
(* asked again), then ranked and cut.                                      *)
Finalize ==
  /\ job = "fused"
  /\ LET rows == WithRows(work.fused, Present(work.corpus))
     IN \E score \in [Range(rows) -> IF work.args.rerank THEN 1..2 ELSE {0}] :
          LET ranked == IF work.args.rerank THEN RerankOrder(rows, score) ELSE rows
          IN work' = [args |-> work.args, corpus |-> work.corpus, disturbed |-> work.disturbed,
                      ranked |-> ranked, answer |-> Sliced(ranked, Doc, work.args)]
  /\ job' = "answered"

ReturnQuery == job = "answered" /\ End

(* Another call stores, relabels or removes a document between two reads.  *)
Ingest ==
  /\ job \in {"vector", "fused"}
  /\ \E c \in Views \ {work.corpus} : \E d \in Documents :
       /\ \A e \in Documents \ {d} : c[e] = work.corpus[e]
       /\ work' = [work EXCEPT !.corpus = c, !.disturbed = TRUE]
  /\ UNCHANGED job

CallNext ==
  \/ OpenConversation \/ Walk \/ Linearized \/ TakeMessage \/ DropMessage \/ CloseConversation
  \/ OpenText \/ TakeParagraph \/ CloseText
  \/ StartQuery \/ RefuseQuery \/ VectorCandidateIds \/ LexicalCandidateIds \/ Finalize \/ ReturnQuery
  \/ Ingest

CallSpec == CallInit /\ [][CallNext]_callVars

-----------------------------------------------------------------------------
CallTypeOK ==
  /\ job \in {"idle", "walk", "messages", "prose", "checking", "vector", "fused", "answered"}
  /\ job = "walk" => work.at \in Nodes \cup {None} /\ work.chain \in SeqOf(Nodes, Cardinality(Nodes))
  /\ job = "messages" => work.taken + work.left <= Cardinality(Nodes)
  /\ job = "fused" => Len(work.fused) <= PoolTarget(work.args)

(* Whatever links the export holds, the walk ends with a thread that       *)
(* repeats no node and follows the links in conversation order.            *)
ThreadLinear == job = "walk" /\ ~MayVisit(work) => ThreadFollowsLinks(work)

(* No chunk of prose is over the token budget, whatever the overlap and    *)
(* the way the text had to be cut.                                         *)
ProseBudget == job = "prose" => ProseWithinBudget(work.prose)

(* Chunks of prose leave nothing out, make progress, and share at most     *)
(* the overlap.                                                            *)
ProseComplete == job = "prose" => ProseCovered(work.prose)

(* A chunk of messages exceeds the budget by at most one label.            *)
MessageBudget == job = "messages" => MessagesWithinBudget(work.stream, Label)

(* Messages stay in order and none is lost around an oversized one.        *)
MessageOrder == job = "messages" => MessagesInOrder(work.stream, work.taken)

(* A chunk that both lists rank ahead of another (or that only it is in)   *)
(* comes first in the fused ranking too.                                   *)
FusionRespectsBoth ==
  job = "fused" =>
    LET rank(l, id) == IF id \in Range(l) THEN CHOOSE r \in DOMAIN l : l[r] = id ELSE 0
        ahead(l, a, b) == rank(l, a) # 0 /\ (rank(l, b) = 0 \/ rank(l, a) < rank(l, b))
        noworse(l, a, b) == ahead(l, a, b) \/ (rank(l, a) = 0 /\ rank(l, b) = 0)
        better(a, b) == /\ \A i \in 1..2 : noworse(work.lists[i], a, b)
                        /\ \E i \in 1..2 : ahead(work.lists[i], a, b)
    IN \A i \in DOMAIN work.fused : \A a \in Ids :
         better(a, work.fused[i]) => \E j \in 1..i - 1 : work.fused[j] = a

(* A ranked chunk is left out of the answer only because the answer is     *)
(* full of better ones or its document's quota is used by better ones.     *)
BestKept ==
  job = "answered" =>
    LET kept(i) == work.ranked[i] \in Range(work.answer)
        better(i) == {j \in 1..i - 1 : kept(j)}
    IN /\ \A i \in DOMAIN work.ranked :
            ~kept(i) =>
              \/ Cardinality(better(i)) = work.args.topk
              \/ /\ work.args.quota # Unset
                 /\ Cardinality({j \in better(i) : Doc[work.ranked[j]] = Doc[work.ranked[i]]}) = work.args.quota
       /\ work.args.quota # Unset => \A d \in Documents :
            Cardinality({i \in DOMAIN work.answer : Doc[work.answer[i]] = d}) <= work.args.quota

(* Without a quota, a query that nothing disturbed returns as many chunks  *)
(* as were asked for and pass the filter: no pool is too small.            *)
FullUnlessDisturbed ==
  job = "answered" /\ work.args.quota = Unset /\ ~work.disturbed =>
    Len(work.answer) >= Smaller(work.args.topk, Cardinality(Matching(work.corpus)))

(* A query that nothing disturbed returns only what passes the filter.     *)
FilteredUnlessDisturbed ==
  job = "answered" /\ ~work.disturbed => Range(work.answer) \subseteq Matching(work.corpus)

(* Chunks, of prose or of messages, leave nothing out, are in order and    *)
(* keep the token budget.                                                  *)
ChunksSound == ProseBudget /\ ProseComplete /\ MessageBudget /\ MessageOrder

(* What is ranked better by both searches is ranked better, and kept.      *)
BestFirst == CallTypeOK /\ FusionRespectsBoth /\ BestKept

(* A query that nothing disturbed answers with enough and with nothing     *)
(* that the filter excludes.                                               *)
ExactUnlessDisturbed == FullUnlessDisturbed /\ FilteredUnlessDisturbed
=============================================================================
