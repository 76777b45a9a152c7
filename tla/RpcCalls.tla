------------------------------- MODULE RpcCalls -------------------------------
(***************************************************************************)
(* Calls over the WebSocket transport: a WsRpcClient (transport/client.ts) *)
(* with its connection state, its timers and its invoke(), and the         *)
(* WsRpcServer (transport/server.ts) with its request dispatch and its     *)
(* invokeClient().                                                         *)
(*                                                                         *)
(* An action of the client is the code from one event to the next with the *)
(* promise reactions it sets off: the calls that wait for a connection     *)
(* send their requests in the task that brings the ack. The promise that   *)
(* connect() makes is named after the socket connect() makes with it.      *)
(*                                                                         *)
(* Events pushed to the client, sequence numbers and what decides whether  *)
(* a handshake resumes a client are the matter of WsTransport; here a      *)
(* handshake may resume any retained client or make a new one. The         *)
(* heartbeat, the network and a rejected handshake are one: the server's   *)
(* side of a socket closes. autoReconnect is on, as in both applications.  *)
(***************************************************************************)
EXTENDS Naturals, Sequences, FiniteSets

CONSTANTS
  MaxCall,       \* bound: calls of invoke()
  MaxInvoke,     \* bound: calls of invokeClient()
  MaxIssued,     \* bound: calls in both directions
  MaxSock,       \* bound: sockets ever created
  MaxManual,     \* bound: reconnectNow() and destroy() by the application
  MaxRestart     \* bound: orderly stops of the server, with another in its place

ASSUME RpcBounds == /\ MaxCall \in Nat /\ MaxInvoke \in Nat /\ MaxIssued \in Nat
                    /\ MaxSock \in Nat /\ MaxManual \in Nat /\ MaxRestart \in Nat

Call == 1..MaxCall
Invoke == 1..MaxInvoke
Sock == 1..MaxSock
None == 0
SockOrNone == 0..MaxSock

VARIABLES
  \* WsRpcClient
  ws, connected,
  readyPromise,        \* the unsettled promise, or None
  connectTimer, reconnectTimer,
  manualReconnectRequested, permanentlyClosed, destroyed,
  call,                \* where each invoke() is; pending is the map of that name
  waits,               \* the promise it waits for
  capability,          \* the client's handler of each server call
  \* WsRpcServer
  clients,             \* ids (the socket of the first handshake) of connected clients
  disconnectedClients, \* ids retained for reconnection
  connWs,              \* ClientConnection.ws of each id
  closeHandler,        \* the id whose close listener a socket carries
  handler,             \* the server's handler of each call
  handlerClient,       \* the ClientConnection it was called for
  invoke,              \* where each invokeClient() is; pending is pendingInvokes
  invokeTo,            \* the client id it is for
  \* the network
  nextSock, clientEnd, serverEnd, toServer, toClient,
  stopping,            \* the server has given notice that it stops
  manual, restarts

connection == <<ws, connected, readyPromise, connectTimer, reconnectTimer,
                manualReconnectRequested, permanentlyClosed, destroyed>>
calls == <<call, waits>>
serverClients == <<clients, disconnectedClients, connWs, closeHandler>>
handlers == <<handler, handlerClient>>
invokes == <<invoke, invokeTo>>
net == <<nextSock, clientEnd, serverEnd, toServer, toClient>>
bounds == <<stopping, manual, restarts>>
rpcVars == <<connection, calls, capability, serverClients, handlers, invokes, net, bounds>>

-----------------------------------------------------------------------------
(* Types *)

HandshakeMsg == [type : {"handshake"}]
RequestMsg(C) == [type : {"request"}, id : C]
ResponseMsg(C) == [type : {"response"}, id : C, ok : BOOLEAN]
NoticeMsg == [type : {"handshake_ack", "error", "shuttingDown"}]
ToServerMsg == HandshakeMsg \union RequestMsg(Call) \union ResponseMsg(Invoke)
ToClientMsg == NoticeMsg \union RequestMsg(Invoke) \union ResponseMsg(Call)

Where == {"none", "awaiting", "pending", "resolved", "rejected"}

RpcTypeOK ==
  /\ ws \in SockOrNone /\ connected \in BOOLEAN
  /\ readyPromise \in SockOrNone
  /\ connectTimer \in BOOLEAN /\ reconnectTimer \in BOOLEAN
  /\ manualReconnectRequested \in BOOLEAN
  /\ permanentlyClosed \in BOOLEAN /\ destroyed \in BOOLEAN
  /\ call \in [Call -> Where] /\ waits \in [Call -> SockOrNone]
  /\ capability \in [Invoke -> {"none", "running", "done"}]
  /\ clients \in SUBSET Sock /\ disconnectedClients \in SUBSET Sock
  /\ connWs \in [Sock -> SockOrNone] /\ closeHandler \in [Sock -> SockOrNone]
  /\ handler \in [Call -> {"none", "running", "late", "done", "lost"}]
  /\ handlerClient \in [Call -> SockOrNone]
  /\ invoke \in [Invoke -> Where \ {"awaiting"}] /\ invokeTo \in [Invoke -> SockOrNone]
  /\ nextSock \in 1..(MaxSock + 1)
  /\ clientEnd \in [Sock -> {"none", "connecting", "open", "closing", "closed"}]
  /\ serverEnd \in [Sock -> {"none", "open", "closed"}]
  /\ toServer \in [Sock -> Seq(ToServerMsg)] /\ toClient \in [Sock -> Seq(ToClientMsg)]
  /\ stopping \in BOOLEAN /\ manual \in Nat /\ restarts \in Nat

RpcInit ==
  /\ ws = None /\ connected = FALSE /\ readyPromise = None
  /\ connectTimer = FALSE /\ reconnectTimer = FALSE
  /\ manualReconnectRequested = FALSE
  /\ permanentlyClosed = FALSE /\ destroyed = FALSE
  /\ call = [c \in Call |-> "none"] /\ waits = [c \in Call |-> None]
  /\ capability = [r \in Invoke |-> "none"]
  /\ clients = {} /\ disconnectedClients = {}
  /\ connWs = [s \in Sock |-> None] /\ closeHandler = [s \in Sock |-> None]
  /\ handler = [c \in Call |-> "none"] /\ handlerClient = [c \in Call |-> None]
  /\ invoke = [r \in Invoke |-> "none"] /\ invokeTo = [r \in Invoke |-> None]
  /\ nextSock = 1
  /\ clientEnd = [s \in Sock |-> "none"] /\ serverEnd = [s \in Sock |-> "none"]
  /\ toServer = [s \in Sock |-> <<>>] /\ toClient = [s \in Sock |-> <<>>]
  /\ stopping = FALSE /\ manual = 0 /\ restarts = 0

-----------------------------------------------------------------------------
(* Sending *)

\* trySendEnvelope: only an open socket takes a message; what the other side
\* has closed loses it.
CanSend(s) == s # None /\ clientEnd[s] = "open"
Sent(s, msg) ==
  IF CanSend(s) /\ serverEnd[s] = "open"
    THEN [toServer EXCEPT ![s] = Append(@, msg)] ELSE toServer

\* safeSend.
SafeSend(s, msgs) ==
  IF s # None /\ serverEnd[s] = "open" /\ clientEnd[s] # "closed"
    THEN [toClient EXCEPT ![s] = @ \o msgs] ELSE toClient

-----------------------------------------------------------------------------
(* The client: connecting *)

\* The calls in S are rejected.
Rejected(S) == [c \in Call |-> IF c \in S THEN "rejected" ELSE call[c]]
\* Those that wait for the promise p.
WaitingFor(p) == {c \in Call : call[c] = "awaiting" /\ waits[c] = p}
Forget(S) == [c \in Call |-> IF c \in S THEN None ELSE waits[c]]
Pending == {c \in Call : call[c] = "pending"}

\* connect(): a promise, a timer and a socket; the socket there was is
\* detached and closed.
Connect ==
  /\ nextSock <= MaxSock
  /\ nextSock' = nextSock + 1
  /\ readyPromise' = nextSock
  /\ connectTimer' = TRUE
  /\ ws' = nextSock
  /\ clientEnd' = [s \in Sock |-> IF s = nextSock THEN "connecting"
                                  ELSE IF s = ws THEN "closed" ELSE clientEnd[s]]
  /\ toClient' = [s \in Sock |-> IF s = ws THEN <<>> ELSE toClient[s]]

\* The application connects when it starts.
Start ==
  /\ nextSock = 1 /\ ~destroyed
  /\ Connect
  /\ UNCHANGED <<connected, reconnectTimer, manualReconnectRequested, permanentlyClosed,
                 destroyed, calls, capability, serverClients, handlers, invokes, serverEnd,
                 toServer, bounds>>

\* The connection is made: onopen sends the handshake.
OnOpen(s) ==
  /\ clientEnd[s] = "connecting"
  /\ clientEnd' = [clientEnd EXCEPT ![s] = "open"]
  /\ serverEnd' = [serverEnd EXCEPT ![s] = "open"]
  /\ toServer' = [toServer EXCEPT ![s] = <<[type |-> "handshake"]>>]
  /\ UNCHANGED <<connection, calls, capability, serverClients, handlers, invokes, nextSock,
                 toClient, bounds>>

\* Mutant: a promise that is never rejected.
FailReadyNot == /\ UNCHANGED <<calls, readyPromise>>

\* failReady: the calls that wait for the connection are rejected.
FailReady ==
  /\ call' = Rejected(WaitingFor(readyPromise))
  /\ waits' = Forget(WaitingFor(readyPromise))
  /\ readyPromise' = None

\* The connect timer fires: the socket is closed, and will tell so later.
ConnectTimeout ==
  /\ connectTimer /\ ~connected
  /\ connectTimer' = FALSE
  /\ FailReady
  /\ clientEnd' = [clientEnd EXCEPT ![ws] = IF @ \in {"connecting", "open"} THEN "closing" ELSE @]
  /\ UNCHANGED <<ws, connected, reconnectTimer, manualReconnectRequested,
                 permanentlyClosed, destroyed, capability, serverClients, handlers, invokes,
                 nextSock, serverEnd, toServer, toClient, bounds>>

\* The client receives: the first message on its socket. What it gets while its
\* socket closes may still be delivered, or not.
Receive(type) ==
  /\ ws # None /\ toClient[ws] # <<>>
  /\ Head(toClient[ws]).type = type
  /\ toClient' = [toClient EXCEPT ![ws] = Tail(@)]

\* The waiting calls W go on: they send their requests, in some order, if the
\* socket takes them.
Requests(W) == [c \in Call |-> IF c \notin W THEN call[c]
                               ELSE IF CanSend(ws) THEN "pending" ELSE "rejected"]
Orders(W) == {q \in [1..Cardinality(W) -> W] : \A i, j \in DOMAIN q : i # j => q[i] # q[j]}

OnHandshakeAck ==
  /\ Receive("handshake_ack")
  /\ connected' = TRUE
  /\ connectTimer' = FALSE
  /\ readyPromise' = None
  /\ LET W == WaitingFor(readyPromise)
     IN /\ call' = Requests(W)
        /\ waits' = Forget(W)
        /\ \E q \in Orders(W) :
             toServer' = IF CanSend(ws) /\ serverEnd[ws] = "open"
               THEN [toServer EXCEPT ![ws] =
                       @ \o [i \in DOMAIN q |-> [type |-> "request", id |-> q[i]]]]
               ELSE toServer
  /\ UNCHANGED <<ws, reconnectTimer, manualReconnectRequested,
                 permanentlyClosed, destroyed, capability, serverClients, handlers, invokes,
                 nextSock, clientEnd, serverEnd, bounds>>

\* The server refuses the handshake; it closes the socket next.
OnError ==
  /\ Receive("error")
  /\ FailReady
  /\ UNCHANGED <<ws, connected, connectTimer, reconnectTimer, manualReconnectRequested,
                 permanentlyClosed, destroyed, capability, serverClients,
                 handlers, invokes, nextSock, clientEnd, serverEnd, toServer, bounds>>

OnShuttingDown ==
  /\ Receive("shuttingDown")
  /\ permanentlyClosed' = TRUE
  /\ UNCHANGED <<ws, connected, readyPromise, connectTimer, reconnectTimer,
                 manualReconnectRequested, destroyed, calls, capability,
                 serverClients, handlers, invokes, nextSock, clientEnd, serverEnd, toServer,
                 bounds>>

\* Mutant: reconnection is scheduled whatever the server said.
MayReconnectAlways == ~destroyed
MayReconnect == ~destroyed /\ ~permanentlyClosed

\* onDisconnect. The promise of a connection that was not made is rejected; so
\* are the requests of one that was.
OnDisconnect ==
  /\ ws # None /\ clientEnd[ws] \in {"connecting", "open", "closing"}
  /\ connected' = FALSE
  /\ manualReconnectRequested' = FALSE
  /\ IF connected
       THEN call' = Rejected(Pending) /\ UNCHANGED waits
       ELSE /\ call' = Rejected(WaitingFor(readyPromise))
            /\ waits' = Forget(WaitingFor(readyPromise))
  /\ \/ /\ manualReconnectRequested /\ ~destroyed
        /\ Connect
        /\ UNCHANGED reconnectTimer
     \/ /\ ~(manualReconnectRequested /\ ~destroyed)
        /\ ws' = None
        /\ connectTimer' = FALSE
        /\ readyPromise' = IF connected THEN readyPromise ELSE None
        /\ reconnectTimer' = (MayReconnect \/ reconnectTimer)
        /\ clientEnd' = [clientEnd EXCEPT ![ws] = "closed"]
        /\ toClient' = [toClient EXCEPT ![ws] = <<>>]
        /\ UNCHANGED nextSock
  /\ UNCHANGED <<permanentlyClosed, destroyed, capability, serverClients, handlers, invokes,
                 serverEnd, toServer, bounds>>

\* The backoff timer fires.
ReconnectTimeout ==
  /\ reconnectTimer
  /\ reconnectTimer' = FALSE
  /\ Connect
  /\ UNCHANGED <<connected, manualReconnectRequested, permanentlyClosed, destroyed, calls,
                 capability, serverClients, handlers, invokes, serverEnd, toServer, bounds>>

\* Mutant: the backoff timer is left to fire.
KeepBackoff == UNCHANGED reconnectTimer
ClearBackoff == reconnectTimer' = FALSE

\* reconnectNow() without a socket, and with one, which is closed first.
ReconnectNow ==
  /\ ~destroyed /\ manual < MaxManual
  /\ manual' = manual + 1
  /\ ClearBackoff
  /\ \/ /\ ws = None
        /\ Connect
        /\ UNCHANGED manualReconnectRequested
     \/ /\ ws # None
        /\ manualReconnectRequested' = TRUE
        /\ clientEnd' = [clientEnd EXCEPT ![ws] = "closing"]
        /\ UNCHANGED <<ws, readyPromise, connectTimer, nextSock, toClient>>
  /\ UNCHANGED <<connected, permanentlyClosed, destroyed, calls, capability, serverClients,
                 handlers, invokes, serverEnd, toServer, stopping, restarts>>

\* Mutant: a destroyed client forgets the calls that wait for its connection.
RejectPendingOnly == call' = Rejected(Pending) /\ UNCHANGED waits
RejectAll ==
  /\ call' = Rejected(Pending \union WaitingFor(readyPromise))
  /\ waits' = Forget(WaitingFor(readyPromise))

Destroy ==
  /\ ~destroyed /\ manual < MaxManual
  /\ manual' = manual + 1
  /\ destroyed' = TRUE
  /\ reconnectTimer' = FALSE /\ connectTimer' = FALSE
  /\ manualReconnectRequested' = FALSE
  /\ RejectAll
  /\ readyPromise' = None
  /\ clientEnd' = [s \in Sock |-> IF s = ws THEN "closed" ELSE clientEnd[s]]
  /\ toClient' = [s \in Sock |-> IF s = ws THEN <<>> ELSE toClient[s]]
  /\ ws' = None /\ connected' = FALSE
  /\ UNCHANGED <<permanentlyClosed, capability, serverClients, handlers,
                 invokes, nextSock, serverEnd, toServer, stopping, restarts>>

-----------------------------------------------------------------------------
(* The client: calls *)

\* Calls are numbered in the order they are made.
Issued == Cardinality({c \in Call : call[c] # "none"})
            + Cardinality({r \in Invoke : invoke[r] # "none"})
NextToIssue(n, where) ==
  /\ where[n] = "none" /\ Issued < MaxIssued
  /\ n > 1 => where[n - 1] # "none"

AtCall(c, where, p) ==
  /\ call' = [call EXCEPT ![c] = where]
  /\ waits' = [waits EXCEPT ![c] = p]

\* invoke() and ensureConnected(): send, wait for the connection under way,
\* refuse while a reconnection is due, or begin to connect.
InvokeCall(c) ==
  /\ NextToIssue(c, call)
  /\ \/ /\ ~destroyed /\ connected /\ ws # None
        /\ AtCall(c, IF CanSend(ws) THEN "pending" ELSE "rejected", None)
        /\ toServer' = Sent(ws, [type |-> "request", id |-> c])
        /\ UNCHANGED <<connection, nextSock, clientEnd, toClient>>
     \/ /\ ~destroyed /\ ~(connected /\ ws # None) /\ readyPromise # None
        /\ AtCall(c, "awaiting", readyPromise)
        /\ UNCHANGED <<connection, nextSock, clientEnd, toServer, toClient>>
     \/ /\ \/ destroyed
           \/ ~(connected /\ ws # None) /\ readyPromise = None /\ reconnectTimer
        /\ AtCall(c, "rejected", None)
        /\ UNCHANGED <<connection, nextSock, clientEnd, toServer, toClient>>
     \/ /\ ~destroyed /\ ~(connected /\ ws # None) /\ readyPromise = None /\ ~reconnectTimer
        /\ Connect
        /\ AtCall(c, "awaiting", nextSock)
        /\ UNCHANGED <<connected, reconnectTimer, manualReconnectRequested, permanentlyClosed,
                       destroyed, toServer>>
  /\ UNCHANGED <<capability, serverClients, handlers, invokes, serverEnd, bounds>>

RequestTimeout(c) ==
  /\ call[c] = "pending"
  /\ AtCall(c, "rejected", None)
  /\ UNCHANGED <<connection, capability, serverClients, handlers, invokes, net, bounds>>

\* Mutant: an answer settles a call whatever has become of it.
SettledAnyway(where, msg) == [where EXCEPT ![msg.id] = IF msg.ok THEN "resolved" ELSE "rejected"]
\* A response settles the call that is still pending, and no other.
Settled(where, msg) ==
  [where EXCEPT ![msg.id] = IF @ # "pending" THEN @ ELSE IF msg.ok THEN "resolved" ELSE "rejected"]

OnResponse ==
  /\ Receive("response")
  /\ call' = Settled(call, Head(toClient[ws]))
  /\ UNCHANGED <<connection, waits, capability, serverClients, handlers, invokes, nextSock,
                 clientEnd, serverEnd, toServer, bounds>>

\* onServerRequest: the capability's handler is called, or there is none.
OnServerRequest ==
  /\ Receive("request")
  /\ LET r == Head(toClient[ws]).id
     IN \/ /\ capability' = [capability EXCEPT ![r] = "running"]
           /\ UNCHANGED toServer
        \/ /\ toServer' = Sent(ws, [type |-> "response", id |-> r, ok |-> FALSE])
           /\ UNCHANGED capability
  /\ UNCHANGED <<connection, calls, serverClients, handlers, invokes, nextSock, clientEnd,
                 serverEnd, bounds>>

\* It returns or throws, and the answer goes to whatever socket there is now.
CapabilityReturns(r) ==
  /\ capability[r] = "running"
  /\ capability' = [capability EXCEPT ![r] = "done"]
  /\ \E ok \in BOOLEAN : toServer' = Sent(ws, [type |-> "response", id |-> r, ok |-> ok])
  /\ UNCHANGED <<connection, calls, serverClients, handlers, invokes, nextSock, clientEnd,
                 serverEnd, toClient, bounds>>

-----------------------------------------------------------------------------
(* The server *)

Received(s, type) ==
  /\ serverEnd[s] = "open" /\ toServer[s] # <<>>
  /\ Head(toServer[s]).type = type
  /\ toServer' = [toServer EXCEPT ![s] = Tail(@)]

\* A handshake resumes a retained client or makes a new one, whose id is its socket.
OnHandshake(s) ==
  /\ Received(s, "handshake")
  /\ \E id \in disconnectedClients \union {s} :
       /\ clients' = clients \union {id}
       /\ disconnectedClients' = disconnectedClients \ {id}
       /\ connWs' = [connWs EXCEPT ![id] = s]
       /\ closeHandler' = [closeHandler EXCEPT ![s] = id]
  /\ toClient' = SafeSend(s, <<[type |-> "handshake_ack"]>>)
  /\ UNCHANGED <<connection, calls, capability, handlers, invokes, nextSock, clientEnd,
                 serverEnd, bounds>>

\* The version or the token is refused.
RejectHandshake(s) ==
  /\ Received(s, "handshake")
  /\ toClient' = SafeSend(s, <<[type |-> "error"]>>)
  /\ serverEnd' = [serverEnd EXCEPT ![s] = "closed"]
  /\ UNCHANGED <<connection, calls, capability, serverClients, handlers, invokes, nextSock,
                 clientEnd, bounds>>

\* findClientByWs.
ClientOf(s) == {id \in clients : connWs[id] = s}

\* onRequest, up to the handler; there may be none for the channel.
OnRequest(s) ==
  /\ Received(s, "request")
  /\ \E id \in ClientOf(s) :
       LET c == Head(toServer[s]).id
       IN \/ /\ handler' = [handler EXCEPT ![c] = "running"]
             /\ handlerClient' = [handlerClient EXCEPT ![c] = id]
             /\ UNCHANGED toClient
          \/ /\ toClient' = SafeSend(s, <<[type |-> "response", id |-> c, ok |-> FALSE]>>)
             /\ UNCHANGED handlers
  /\ UNCHANGED <<connection, calls, capability, serverClients, invokes, nextSock, clientEnd,
                 serverEnd, bounds>>

\* Mutant: an answer that does not say which request it is for.
RespondUnnamed(c, ok) ==
  toClient' = SafeSend(connWs[handlerClient[c]], <<[type |-> "response", id |-> None, ok |-> ok]>>)
Respond(c, ok) ==
  toClient' = SafeSend(connWs[handlerClient[c]], <<[type |-> "response", id |-> c, ok |-> ok]>>)

\* Mutant: a handler that timed out is answered as if it had returned.
HandlerTimeoutOk(c) ==
  /\ handler[c] = "running"
  /\ handler' = [handler EXCEPT ![c] = "late"]
  /\ Respond(c, TRUE)
  /\ UNCHANGED <<connection, calls, capability, serverClients, handlerClient, invokes, nextSock,
                 clientEnd, serverEnd, toServer, bounds>>

\* The handler's time is over: the caller is told so, and the handler goes on.
HandlerTimeout(c) ==
  /\ handler[c] = "running"
  /\ handler' = [handler EXCEPT ![c] = "late"]
  /\ Respond(c, FALSE)
  /\ UNCHANGED <<connection, calls, capability, serverClients, handlerClient, invokes, nextSock,
                 clientEnd, serverEnd, toServer, bounds>>

\* The handler has had its effect. It is answered on the socket that its client
\* has now, unless its time was over.
HandlerReturns(c) ==
  /\ handler[c] \in {"running", "late"}
  /\ handler' = [handler EXCEPT ![c] = "done"]
  /\ handlerClient' = [handlerClient EXCEPT ![c] = None]
  /\ IF handler[c] = "running" THEN \E ok \in BOOLEAN : Respond(c, ok) ELSE UNCHANGED toClient
  /\ UNCHANGED <<connection, calls, capability, serverClients, invokes, nextSock, clientEnd,
                 serverEnd, toServer, bounds>>

\* invokeClient of a connected client that has the capability; of another it is
\* refused at once.
InvokeClient(r) ==
  /\ NextToIssue(r, invoke)
  /\ \/ /\ \E id \in clients :
             /\ invokeTo' = [invokeTo EXCEPT ![r] = id]
             /\ toClient' = SafeSend(connWs[id], <<[type |-> "request", id |-> r]>>)
        /\ invoke' = [invoke EXCEPT ![r] = "pending"]
     \/ /\ invoke' = [invoke EXCEPT ![r] = "rejected"]
        /\ UNCHANGED <<invokeTo, toClient>>
  /\ UNCHANGED <<connection, calls, capability, serverClients, handlers, nextSock, clientEnd,
                 serverEnd, toServer, bounds>>

InvokeTimeout(r) ==
  /\ invoke[r] = "pending"
  /\ invoke' = [invoke EXCEPT ![r] = "rejected"]
  /\ UNCHANGED <<connection, calls, capability, serverClients, handlers, invokeTo, net, bounds>>

\* onClientResponse: from whatever client, for the call that is still pending.
OnClientResponse(s) ==
  /\ Received(s, "response")
  /\ ClientOf(s) # {}
  /\ invoke' = Settled(invoke, Head(toServer[s]))
  /\ UNCHANGED <<connection, calls, capability, serverClients, handlers, invokeTo, nextSock,
                 clientEnd, serverEnd, toClient, bounds>>

\* Mutant: the calls to a client that goes are left to their timers.
RejectInvokesNot(I) == invoke
RejectInvokes(I) ==
  [r \in Invoke |-> IF invoke[r] = "pending" /\ invokeTo[r] \in I THEN "rejected" ELSE invoke[r]]

\* The server's side of a socket closes: the client that carries it is retained,
\* and the calls to it are rejected.
OnClose(s) ==
  /\ serverEnd[s] = "open"
  /\ serverEnd' = [serverEnd EXCEPT ![s] = "closed"]
  /\ toServer' = [toServer EXCEPT ![s] = <<>>]
  /\ LET gone == {closeHandler[s]} \ {None}
     IN /\ clients' = clients \ gone
        /\ disconnectedClients' = disconnectedClients \union gone
        /\ invoke' = RejectInvokes(gone)
  /\ connWs' = [id \in Sock |-> IF connWs[id] = s THEN None ELSE connWs[id]]
  /\ closeHandler' = [closeHandler EXCEPT ![s] = None]
  /\ UNCHANGED <<connection, calls, capability, handlers, invokeTo,
                 nextSock, clientEnd, toClient, bounds>>

\* A retained client expires.
Expire(id) ==
  /\ id \in disconnectedClients
  /\ disconnectedClients' = disconnectedClients \ {id}
  /\ UNCHANGED <<connection, calls, capability, clients, connWs, closeHandler, handlers,
                 invokes, net, bounds>>

\* An orderly stop gives notice to the clients, and goes on for a while.
Notice ==
  /\ ~stopping /\ restarts < MaxRestart
  /\ stopping' = TRUE
  /\ restarts' = restarts + 1
  /\ toClient' = [s \in Sock |->
       IF ClientOf(s) # {} /\ serverEnd[s] = "open" /\ clientEnd[s] # "closed"
         THEN Append(toClient[s], [type |-> "shuttingDown"]) ELSE toClient[s]]
  /\ UNCHANGED <<connection, calls, capability, serverClients, handlers, invokes, nextSock,
                 clientEnd, serverEnd, toServer, manual>>

\* close(), and another server takes its place. Handlers go with the process.
Close ==
  /\ stopping
  /\ stopping' = FALSE
  /\ invoke' = RejectInvokes(Sock)
  /\ clients' = {} /\ disconnectedClients' = {}
  /\ closeHandler' = [s \in Sock |-> None]
  /\ handler' = [c \in Call |-> IF handler[c] \in {"running", "late"} THEN "lost" ELSE handler[c]]
  /\ handlerClient' = [c \in Call |-> None]
  /\ serverEnd' = [s \in Sock |-> IF serverEnd[s] = "open" THEN "closed" ELSE serverEnd[s]]
  /\ toServer' = [s \in Sock |-> <<>>]
  /\ UNCHANGED <<connection, calls, capability, connWs, invokeTo, nextSock, clientEnd, toClient,
                 manual, restarts>>

-----------------------------------------------------------------------------
Timers ==
  \/ ConnectTimeout
  \/ \E c \in Call : RequestTimeout(c)
  \/ \E r \in Invoke : InvokeTimeout(r)

ClientStep ==
  \/ Start \/ OnHandshakeAck \/ OnError \/ OnShuttingDown \/ OnResponse \/ OnServerRequest
  \/ OnDisconnect \/ ReconnectTimeout \/ ReconnectNow \/ Destroy
  \/ \E s \in Sock : OnOpen(s)
  \/ \E c \in Call : InvokeCall(c)
  \/ \E r \in Invoke : CapabilityReturns(r)

ServerStep ==
  \/ \E s \in Sock :
       \/ OnHandshake(s) \/ RejectHandshake(s) \/ OnRequest(s) \/ OnClientResponse(s)
       \/ OnClose(s) \/ Expire(s)
  \/ \E c \in Call : HandlerTimeout(c) \/ HandlerReturns(c)
  \/ \E r \in Invoke : InvokeClient(r)
  \/ Notice \/ Close

RpcNext == Timers \/ ClientStep \/ ServerStep

RpcSpec == RpcInit /\ [][RpcNext]_rpcVars

\* Timers fire. Nothing is assumed of the server, its handlers or the network.
RpcFairness ==
  /\ WF_rpcVars(ConnectTimeout)
  /\ \A c \in Call : WF_rpcVars(RequestTimeout(c))
  /\ \A r \in Invoke : WF_rpcVars(InvokeTimeout(r))

FairRpcSpec == RpcSpec /\ RpcFairness

-----------------------------------------------------------------------------
(* Properties *)

\* A call that waits for a connection waits for the one that is being made, and
\* that one has a socket whose end, or a timer whose firing, settles it. Requests
\* are under way only while there is a connection to answer them, and calls to a
\* client only while the server has it.
NoCallStranded ==
  /\ \A c \in Call : call[c] = "awaiting" => waits[c] = readyPromise
  /\ readyPromise # None => ws = readyPromise /\ connectTimer /\ ~connected
  /\ \A c \in Call : call[c] = "pending" => connected /\ ws # None
  /\ \A r \in Invoke : invoke[r] = "pending" => invokeTo[r] \in clients

\* "Prevents orphaned connections": the client has one socket at most, and a
\* backoff timer only while it has none, which would tear a good one down. A
\* client that was not told to stop has a socket or is going to get one. One
\* that was destroyed, or whose server said that it stops, sets no timer, and a
\* destroyed one leaves nothing behind.
OneConnection ==
  /\ \A s \in Sock : clientEnd[s] \in {"connecting", "open", "closing"} => s = ws
  /\ reconnectTimer => ws = None /\ readyPromise = None
  /\ nextSock > 1 /\ ~destroyed /\ ~permanentlyClosed => ws # None \/ reconnectTimer
  /\ permanentlyClosed \/ destroyed => ~reconnectTimer
  /\ destroyed => ws = None /\ ~connectTimer
                  /\ \A c \in Call : call[c] \notin {"awaiting", "pending"}

\* What the two directions promise their callers.
Outcome(where) ==
  CASE where = "none" -> "none"
    [] where \in {"awaiting", "pending"} -> "waiting"
    [] where = "resolved" -> "answered"
    [] OTHER -> "refused"
Requested == INSTANCE RemoteCall WITH
  outcome <- [c \in Call |-> Outcome(call[c])],
  effected <- {c \in Call : handler[c] = "done"}
Invoked == INSTANCE RemoteCall WITH
  Call <- Invoke,
  outcome <- [r \in Invoke |-> Outcome(invoke[r])],
  effected <- {r \in Invoke : capability[r] = "done"}

\* invoke() and invokeClient() keep the promise of RemoteCall: a call is settled once,
\* and answered only if its handler was done.
CallsSpec == Requested!CallSpec /\ Invoked!CallSpec

\* Every call is settled in the end, whatever the server and the network do: calls
\* are finitely many, so it is enough that again and again none waits.
CallsSettle ==
  []<>(/\ \A c \in Call : call[c] \notin {"awaiting", "pending"}
       /\ \A r \in Invoke : invoke[r] # "pending")
=============================================================================
