----------------------------- MODULE MCCompanions -----------------------------
EXTENDS Companions, TLC

\* Servers and pids are interchangeable.
Symmetry == Permutations(Servers) \cup Permutations(Pids)
===============================================================================
