------------------------------ MODULE Chunking ------------------------------
(***************************************************************************)
(* Cutting prose and messages into chunks (memory_core/chunking.py).       *)
(* Text is what the budget sees of it: a paragraph is a sequence of        *)
(* sentences, a sentence a sequence of words, a word its number of         *)
(* estimated tokens.                                                       *)
(***************************************************************************)
EXTENDS Integers, Sequences, SequencesExt, FiniteSetsExt, Functions

CONSTANTS
  Target,      \* target_tokens
  Overlap,     \* int(target_tokens * overlap_ratio)
  Paragraphs   \* the paragraphs a text is made of

(* Words have tokens, sentences words and paragraphs sentences.            *)
ASSUME ChunkingAssumption ==
  /\ Target \in Nat \ {0} /\ Overlap \in 0..Target
  /\ \A para \in Paragraphs :
       /\ para \in Seq(Seq(Nat \ {0})) /\ para # <<>>
       /\ \A i \in DOMAIN para : para[i] # <<>>

(* A loop over a list.                                                     *)
Fold(Op(_, _), start, list) ==
  LET after[i \in 0..Len(list)] == IF i = 0 THEN start ELSE Op(after[i - 1], list[i])
  IN after[Len(list)]

Total(sizes) == Fold(LAMBDA sum, n : sum + n, 0, sizes)
Length(para) == Total([i \in DOMAIN para |-> Total(para[i])])

(* A run without boundaries is cut into pieces of Target tokens.           *)
CharSplit(n) ==
  [i \in 1..((n + Target - 1) \div Target) |-> IF i * Target <= n THEN Target ELSE n % Target]

(* Words are packed greedily; a word over the budget flushes the pack and  *)
(* is cut by characters.                                                   *)
Flushed(acc) == IF acc.pack = 0 THEN acc.done ELSE Append(acc.done, acc.pack)

AddWord(acc, n) ==
  IF n > Target THEN [done |-> Flushed(acc) \o CharSplit(n), pack |-> 0]
  ELSE IF acc.pack > 0 /\ acc.pack + n > Target THEN [done |-> Flushed(acc), pack |-> n]
  ELSE [acc EXCEPT !.pack = @ + n]

HardSplit(words) ==
  IF Len(words) <= 1 THEN CharSplit(Total(words))
  ELSE Flushed(Fold(AddWord, [done |-> <<>>, pack |-> 0], words))

(* A paragraph that fits is one segment, else each sentence that fits,     *)
(* else the pieces of the sentence.                                        *)
AddSentence(segs, words) == segs \o (IF Total(words) <= Target THEN <<Total(words)>> ELSE HardSplit(words))
Segments(para) == IF Length(para) <= Target THEN <<Length(para)>> ELSE Fold(AddSentence, <<>>, para)

-----------------------------------------------------------------------------
(* Packing segments.  segs are the segments so far; the open chunk is the  *)
(* segments from..Len(segs), if any; chunks are the emitted intervals.     *)

NoProse == [segs |-> <<>>, from |-> 1, chunks |-> <<>>]

Tokens(segs, from, to) == Total(SubSeq(segs, from, to))

(* The overlap seed: as many trailing segments as fit into Overlap, but    *)
(* never the whole chunk.                                                  *)
SeedOverruns(segs, from) ==
  LET n == Len(segs)
      first == Min({i \in from..n : Tokens(segs, i + 1, n) < Overlap})
  IN IF first <= from THEN n + 1 ELSE first
Seed(segs, from) ==
  LET n == Len(segs)
      fits == {i \in from..n : Tokens(segs, i, n) <= Overlap}
      first == IF fits = {} THEN n + 1 ELSE Min(fits)
  IN IF first <= from THEN n + 1 ELSE first

(* Leading seed segments go until the incoming segment fits.               *)
Trimmed(segs, seed, n) ==
  CHOOSE i \in seed..Len(segs) + 1 :
    /\ Tokens(segs, i, Len(segs)) + n <= Target
    /\ \A j \in seed..i - 1 : Tokens(segs, j, Len(segs)) + n > Target

Pack(p, n) ==
  LET last == Len(p.segs)
      full == p.from <= last /\ Tokens(p.segs, p.from, last) + n > Target
  IN [segs |-> Append(p.segs, n),
      from |-> IF full THEN Trimmed(p.segs, Seed(p.segs, p.from), n) ELSE p.from,
      chunks |-> IF full THEN Append(p.chunks, <<p.from, last>>) ELSE p.chunks]

AddParagraph(p, para) == Fold(Pack, p, Segments(para))

(* The rest is the last chunk.                                             *)
ChunkProse(p) ==
  IF p.from > Len(p.segs) THEN p.chunks ELSE Append(p.chunks, <<p.from, Len(p.segs)>>)

-----------------------------------------------------------------------------
(* Packing messages.  A message is its speaker's label and its paragraphs; *)
(* a chunk is its tokens and the messages it holds.                        *)

NoMessages == [open |-> <<>>, tokens |-> 0, out |-> <<>>]

FlushMessages(s) ==
  [open |-> <<>>, tokens |-> 0,
   out |-> IF s.open = <<>> THEN s.out ELSE Append(s.out, [tokens |-> s.tokens, ids |-> s.open])]

(* A message over the budget is prose-chunked, and every piece gets the    *)
(* label in front.                                                         *)
Pieces(id, label, paras) ==
  LET p == Fold(AddParagraph, NoProse, paras)
  IN [i \in DOMAIN ChunkProse(p) |->
        [tokens |-> label + Tokens(p.segs, ChunkProse(p)[i][1], ChunkProse(p)[i][2]), ids |-> <<id>>]]

MessageTokens(label, paras) == label + Total([i \in DOMAIN paras |-> Length(paras[i])])

Overfull(s, n) == s.open # <<>> /\ s.tokens + n > Target

SplitMessage(s, id, label, paras) == [FlushMessages(s) EXCEPT !.out = @ \o Pieces(id, label, paras)]

AddMessage(s, id, label, paras) ==
  LET n == MessageTokens(label, paras)
      room == IF Overfull(s, n) THEN FlushMessages(s) ELSE s
  IN IF n > Target THEN SplitMessage(s, id, label, paras)
     ELSE [room EXCEPT !.open = Append(@, id), !.tokens = @ + n]

-----------------------------------------------------------------------------
(* Properties of a text and of a message stream *)

(* No prose chunk is over the budget, on any path.                         *)
ProseWithinBudget(p) ==
  \A i \in DOMAIN ChunkProse(p) : Tokens(p.segs, ChunkProse(p)[i][1], ChunkProse(p)[i][2]) <= Target

(* Chunks cover the segments in order without a gap, each one goes further *)
(* than the one before, and what they share is at most the overlap.        *)
ProseCovered(p) ==
  LET c == ChunkProse(p)
  IN /\ p.segs # <<>> => c # <<>> /\ c[1][1] = 1 /\ c[Len(c)][2] = Len(p.segs)
     /\ \A i \in 1..Len(c) - 1 :
          /\ c[i + 1][1] > c[i][1] /\ c[i + 1][1] <= c[i][2] + 1 /\ c[i + 1][2] > c[i][2]
          /\ Tokens(p.segs, c[i + 1][1], c[i][2]) <= Overlap

(* A chunk of messages is over the budget by at most the label that is put *)
(* in front of a piece of an oversized message.                            *)
MessagesWithinBudget(s, label) ==
  \A i \in DOMAIN FlushMessages(s).out : FlushMessages(s).out[i].tokens <= Target + label

(* Messages are chunked in order and none is left out.                     *)
MessagesInOrder(s, n) ==
  LET ids == [i \in DOMAIN FlushMessages(s).out |-> FlushMessages(s).out[i].ids]
  IN /\ UNION {Range(ids[i]) : i \in DOMAIN ids} = 1..n
     /\ \A i, j \in DOMAIN ids : \A a \in DOMAIN ids[i], b \in DOMAIN ids[j] :
          i < j \/ (i = j /\ a < b) => ids[i][a] <= ids[j][b]
=============================================================================
