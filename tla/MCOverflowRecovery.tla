-------------------------- MODULE MCOverflowRecovery --------------------------
(* OverflowRecovery on small instances. *)
EXTENDS OverflowRecovery
=============================================================================
