----------------------------- MODULE MCRpcCalls -----------------------------
(* RpcCalls on small instances. *)
EXTENDS RpcCalls
=============================================================================
