---------------------------- MODULE MCMemoryCore ----------------------------
EXTENDS MemoryCore

(* Paragraphs of one sentence or two, with a word over the budget.         *)
Samples == {<<<<1>>>>, <<<<2>>>>, <<<<1, 1>>, <<2>>>>, <<<<2, 2, 1>>>>, <<<<9>>>>, <<<<1, 5, 1>>>>}
DocOfChunk == <<1, 1, 2>>
=============================================================================
