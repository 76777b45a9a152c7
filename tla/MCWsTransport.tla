---------------------------- MODULE MCWsTransport ----------------------------
EXTENDS WsTransport

CONSTANTS w1, w2, wsA, wsB

HomeA == [w \in Window |-> wsA]
HomeAB == [w \in Window |-> IF w = w1 THEN wsA ELSE wsB]

ToAll == {[to |-> "all"]}
ToWorkspaces == {[to |-> "workspace", workspaceId |-> x] : x \in Workspace}
ToClients == {[to |-> "client", clientId |-> s] : s \in Sock}
ToAllOrClients == ToAll \union ToClients
=============================================================================
