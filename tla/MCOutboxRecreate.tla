-------------------------- MODULE MCOutboxRecreate --------------------------
(* Model-checking instances of OutboxRecreate. *)
EXTENDS OutboxRecreate, TLC

CONSTANTS e1, e2, e3, e4, e5, d1, d2

=============================================================================
