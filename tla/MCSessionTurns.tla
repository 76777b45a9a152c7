---------------------------- MODULE MCSessionTurns ----------------------------
(* SessionTurns, with bounds for TLC. *)
EXTENDS SessionTurns, TLC
=============================================================================
