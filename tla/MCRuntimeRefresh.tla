--------------------------- MODULE MCRuntimeRefresh ---------------------------
(* RuntimeRefresh on small instances. *)
EXTENDS RuntimeRefresh
=============================================================================
