---------------------------- MODULE MCMemoryEtl ----------------------------
(* Model-checking instances of MemoryEtl. *)
EXTENDS MemoryEtl, TLC

CONSTANTS d1, d2, t1, t2, m1, m2, h1, h2, s1, s2

(* Documents, texts, metadata, threads and servers are interchangeable. *)
Interchangeable ==
  Permutations(Docs) \cup Permutations(Texts) \cup Permutations(Metas)
    \cup Permutations(Handlers) \cup Permutations(Servers)

=============================================================================
