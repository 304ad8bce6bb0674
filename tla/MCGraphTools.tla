---------------------------- MODULE MCGraphTools ----------------------------
(* Model-checking instances of GraphTools and GraphSearches. *)
EXTENDS GraphSearches

CONSTANTS b1, b2, h1, h2
=============================================================================
