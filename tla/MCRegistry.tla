----------------------------- MODULE MCRegistry -----------------------------
(* Model-checking instance of Registry: two checkouts, one worker. *)
EXTENDS Registry

CONSTANTS a, b, d1
=============================================================================
