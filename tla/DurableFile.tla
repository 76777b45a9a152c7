----------------------------- MODULE DurableFile -----------------------------
(***************************************************************************)
(* What saving a session promises, whatever the queue does in between: the *)
(* stored transcript only moves forward, towards the one the server holds, *)
(* and a version that a caller was told is saved is stored, after a crash  *)
(* too.                                                                    *)
(*                                                                         *)
(* held is the version of the transcript in memory, stored the one on      *)
(* disk, promised the last one reported as saved.                          *)
(***************************************************************************)
EXTENDS Naturals

VARIABLES held, stored, promised

durableVars == <<held, stored, promised>>

DurableInit == held = 0 /\ stored = 0 /\ promised = 0

Change ==
  /\ held' > held
  /\ UNCHANGED <<stored, promised>>

\* A later version lands, and callers that waited for it are told.
Save ==
  /\ stored' \in stored..held
  /\ promised' \in promised..stored'
  /\ UNCHANGED held

\* The process dies, the next one starts from what is stored.
Reload ==
  /\ held' = stored
  /\ UNCHANGED <<stored, promised>>

DurableNext == Change \/ Save \/ Reload

DurableSpec == DurableInit /\ [][DurableNext]_durableVars
=============================================================================
