----------------------------- MODULE MCCardSync -----------------------------
(* Model-checking instance of CardSync: two cards, two writers, a poller. *)
EXTENDS CardSync

CONSTANTS c1, c2, w1, w2, q1
=============================================================================
