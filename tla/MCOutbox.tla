------------------------------ MODULE MCOutbox ------------------------------
(* Model checking of the outbox on small instances. *)
EXTENDS Outbox
=============================================================================
