---------------------------- MODULE MCToolApproval ----------------------------
(* ToolApproval on small instances: calls of a coding tool and of an MCP tool. *)
EXTENDS ToolApproval

CONSTANTS c1, m1, m2, write, search

MCTool == {write, search}
MCCall == {c1, m1, m2}
MCMcpCall == {m1, m2}
MCToolOf == [c \in MCCall |-> IF c \in MCMcpCall THEN search ELSE write]
=============================================================================
