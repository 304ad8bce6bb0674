------------------------------ MODULE MCFollow ------------------------------
(* Model-checking instances of Follow. *)
EXTENDS Follow, TLC
=============================================================================
