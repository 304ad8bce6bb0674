------------------------------ MODULE MCOutbox ------------------------------
(* Model-checking instance of Outbox: three events, two drain workers. *)
EXTENDS Outbox

CONSTANTS e1, e2, e3, d1, d2
=============================================================================
