----------------------------- MODULE WsTransport -----------------------------
(***************************************************************************)
(* The event channel between WsRpcServer (transport/server.ts) and the     *)
(* WsRpcClients of the windows (transport/client.ts): handshakes, push,    *)
(* the replay buffer of each client, acknowledgements, disconnection,      *)
(* reconnection with replay or as stale, and expiry.                       *)
(*                                                                         *)
(* The two sides run in different processes and meet only in the two       *)
(* message queues of a socket. A socket may fail at any moment: each side  *)
(* notices on its own, and what was still under way to it is lost.         *)
(*                                                                         *)
(* A client id is a random UUID made when a fresh handshake completes. A   *)
(* socket completes at most one handshake, so the socket's number serves   *)
(* as the id.                                                              *)
(***************************************************************************)
EXTENDS Naturals, Sequences, FiniteSets

CONSTANTS
  Window,                  \* windows, each with one WsRpcClient
  Workspace,               \* workspace ids
  HomeWorkspace,           \* the workspaceId given to a window's WsRpcClient
  MaxSock,                 \* bound: sockets ever created
  MaxPush,                 \* bound: events ever pushed
  MaxSwitch,               \* bound: workspace switches asked for
  MaxRestart,              \* bound: restarts of the server process
  MaxInFlight,             \* bound: client-to-server messages under way on a socket
  Target,                  \* push targets in use
  EVENT_BUFFER_MAX_SIZE,   \* events retained for replay per client
  MAX_DISCONNECTED,        \* retained disconnected clients (50 in the code)
  maxClients               \* 0 means no limit

Sock == 1..MaxSock
None == 0
SockOrNone == 0..MaxSock

PushTargets ==
  [to : {"all"}] \union [to : {"workspace"}, workspaceId : Workspace]
                 \union [to : {"client"}, clientId : Sock]

ASSUME Bounds ==
  /\ MaxSock \in Nat /\ MaxPush \in Nat /\ MaxSwitch \in Nat
  /\ MaxRestart \in Nat /\ MaxInFlight \in Nat /\ maxClients \in Nat
ASSUME BufferSizes ==
  EVENT_BUFFER_MAX_SIZE \in Nat \ {0} /\ MAX_DISCONNECTED \in Nat \ {0}
ASSUME HomeWorkspaces == HomeWorkspace \in [Window -> Workspace]
ASSUME Targets == Target \subseteq PushTargets
\* None marks the absence of a window.
ASSUME WindowNames == None \notin Window

VARIABLES
  \* the server process: the fields of the ClientConnection of each client id
  connWs, connWorkspace, connWindow, eventBuffer, lastAckedSeq, lastSentSeq,
  clients,              \* ids in the map of connected clients
  disconnectedClients,  \* ids retained for reconnection, oldest first
  handshake,            \* how far the handshake of a socket is
  closeHandler,         \* the id whose close listener a socket carries
  windowWorkspace,      \* the workspace each window was last switched to
  expired,              \* events up to this one are older than the buffer TTL
  restarts,
  \* the clients
  ws, clientId, lastSeenSeq, pendingReconnect, currentHandshakeWasReconnect,
  switches,
  \* the network: the sockets, whose side of each is open, messages under way
  nextSock, socketWindow, clientEnd, serverEnd, toServer, toClient,
  \* history: what was published, what each window knows and was told
  published, known, notice

connVars == <<connWs, connWorkspace, connWindow, eventBuffer, lastAckedSeq,
              lastSentSeq>>
mapVars == <<clients, disconnectedClients>>
hsVars == <<handshake, closeHandler>>
serverVars == <<connVars, mapVars, hsVars, windowWorkspace, expired, restarts>>
clientVars == <<ws, clientId, lastSeenSeq, pendingReconnect,
                currentHandshakeWasReconnect, switches>>
netVars == <<nextSock, socketWindow, clientEnd, serverEnd, toServer, toClient>>
historyVars == <<published, known, notice>>
vars == <<serverVars, clientVars, netVars, historyVars>>

-----------------------------------------------------------------------------
(* Types *)

BufferedEvent == [seq : Nat, ev : Nat]
ReconnectInfo == [clientId : SockOrNone, lastSeq : Nat]
NoReconnect == [clientId |-> None, lastSeq |-> 0]

HandshakeMsg == [type : {"handshake"}, reconnect : ReconnectInfo]
SequenceAckMsg == [type : {"sequence_ack"}, lastSeq : Nat]
SwitchMsg == [type : {"switchWorkspace"}, workspaceId : Workspace]
ToServerMsg == HandshakeMsg \union SequenceAckMsg \union SwitchMsg

\* upto is history: the events published when the server sent the ack.
AckMsg == [type : {"handshake_ack"}, clientId : Sock, reconnected : BOOLEAN,
           stale : BOOLEAN, upto : Nat]
EventMsg == [type : {"event"}, seq : Nat, ev : Nat]
ToClientMsg == AckMsg \union EventMsg

TypeOK ==
  /\ connWs \in [Sock -> SockOrNone]
  /\ connWorkspace \in [Sock -> Workspace \union {None}]
  /\ connWindow \in [Sock -> Window \union {None}]
  /\ eventBuffer \in [Sock -> Seq(BufferedEvent)]
  /\ lastAckedSeq \in [Sock -> Nat]
  /\ lastSentSeq \in [Sock -> Nat]
  /\ clients \in SUBSET Sock
  /\ disconnectedClients \in Seq(Sock)
  /\ handshake \in [Sock -> {"none", "waiting", "auth", "completed"}]
  /\ closeHandler \in [Sock -> SockOrNone]
  /\ windowWorkspace \in [Window -> Workspace]
  /\ expired \in Nat /\ restarts \in Nat
  /\ ws \in [Window -> SockOrNone]
  /\ clientId \in [Window -> SockOrNone]
  /\ lastSeenSeq \in [Window -> Nat]
  /\ pendingReconnect \in [Window -> ReconnectInfo]
  /\ currentHandshakeWasReconnect \in [Window -> BOOLEAN]
  /\ switches \in Nat
  /\ nextSock \in 1..(MaxSock + 1)
  /\ socketWindow \in [Sock -> Window \union {None}]
  /\ clientEnd \in [Sock -> {"none", "connecting", "open", "closed"}]
  /\ serverEnd \in [Sock -> {"none", "open", "closed"}]
  /\ toServer \in [Sock -> Seq(ToServerMsg)]
  /\ toClient \in [Sock -> Seq(ToClientMsg)]
  /\ published \in Seq(SUBSET Window)
  /\ known \in [Window -> Nat]
  /\ notice \in [Window -> {"none", "first", "event", "stale", "replayed"}]

Init ==
  /\ connWs = [i \in Sock |-> None]
  /\ connWorkspace = [i \in Sock |-> None]
  /\ connWindow = [i \in Sock |-> None]
  /\ eventBuffer = [i \in Sock |-> <<>>]
  /\ lastAckedSeq = [i \in Sock |-> 0]
  /\ lastSentSeq = [i \in Sock |-> 0]
  /\ clients = {}
  /\ disconnectedClients = <<>>
  /\ handshake = [s \in Sock |-> "none"]
  /\ closeHandler = [s \in Sock |-> None]
  /\ windowWorkspace = HomeWorkspace
  /\ expired = 0 /\ restarts = 0
  /\ ws = [w \in Window |-> None]
  /\ clientId = [w \in Window |-> None]
  /\ lastSeenSeq = [w \in Window |-> 0]
  /\ pendingReconnect = [w \in Window |-> NoReconnect]
  /\ currentHandshakeWasReconnect = [w \in Window |-> FALSE]
  /\ switches = 0
  /\ nextSock = 1
  /\ socketWindow = [s \in Sock |-> None]
  /\ clientEnd = [s \in Sock |-> "none"]
  /\ serverEnd = [s \in Sock |-> "none"]
  /\ toServer = [s \in Sock |-> <<>>]
  /\ toClient = [s \in Sock |-> <<>>]
  /\ published = <<>>
  /\ known = [w \in Window |-> 0]
  /\ notice = [w \in Window |-> "none"]

-----------------------------------------------------------------------------
(* Sequences *)

Elements(s) == {s[i] : i \in 1..Len(s)}
Drop(s, k) == SubSeq(s, k + 1, Len(s))
\* Mutants of RemoveAt: the place is emptied but stays; nothing is removed.
RemoveHole(s, i) == [s EXCEPT ![i] = None]
RemoveNothing(s, i) == s
RemoveAt(s, i) ==
  [j \in 1..(Len(s) - 1) |-> IF j < i THEN s[j] ELSE s[j + 1]]

\* How many of the numbers 1, 2, ... are in S before the first that is not.
PrefixLength(S) == Cardinality({i \in S : 1..i \subseteq S})

\* Sends to a socket go nowhere once its own side is no longer open; what is
\* sent to a side that has closed is lost.
SafeSend(s, msgs) ==
  IF s # None /\ serverEnd[s] = "open" /\ clientEnd[s] # "closed"
    THEN [toClient EXCEPT ![s] = @ \o msgs]
    ELSE toClient
ClientSend(s, msg) ==
  IF serverEnd[s] = "open" THEN [toServer EXCEPT ![s] = Append(@, msg)] ELSE toServer

-----------------------------------------------------------------------------
(* The replay buffer of one client *)

\* evictBuffer: first what the TTL has passed, then what the size limit cuts.
\* Timestamps rise with the events, so the passed ones are those up to expired.
TooOld(buf) == PrefixLength({i \in 1..Len(buf) : buf[i].ev <= expired})
\* Mutant of TooMany: the limit is checked before the event is counted.
TooManyLate(n) ==
  IF n > EVENT_BUFFER_MAX_SIZE + 1 THEN n - EVENT_BUFFER_MAX_SIZE ELSE 0
TooMany(n) == IF n > EVENT_BUFFER_MAX_SIZE THEN n - EVENT_BUFFER_MAX_SIZE ELSE 0
EvictBuffer(buf) ==
  LET old == TooOld(buf) IN Drop(buf, old + TooMany(Len(buf) - old))

\* Mutant of Replay: nothing is sent again.
ReplayNothing(buf, lastSeq) == <<>>
\* The code filters; on a buffer in increasing order (BufferIsSuffix) the
\* events kept by seq > lastSeq are those after a prefix.
Replay(buf, lastSeq) ==
  Drop(buf, PrefixLength({i \in 1..Len(buf) : buf[i].seq <= lastSeq}))

\* Mutant of CanReplay: a buffer that starts one event late is taken as whole.
CanReplayLate(buf, lastSeq, lastSent) ==
  lastSeq < lastSent => Len(buf) > 0 /\ lastSeq + 2 >= buf[1].seq
\* The buffer holds everything after lastSeq, or there is nothing after it.
CanReplay(buf, lastSeq, lastSent) ==
  lastSeq < lastSent => Len(buf) > 0 /\ lastSeq >= buf[1].seq - 1

-----------------------------------------------------------------------------
(* The server *)

Retained == clients \union Elements(disconnectedClients)

\* Mutant of MatchesTarget: the workspace is not compared.
MatchesAnyWorkspace(id, t) == t.to # "client" \/ id = t.clientId
MatchesTarget(id, t) ==
  \/ t.to = "all"
  \/ t.to = "workspace" /\ connWorkspace[id] = t.workspaceId
  \/ t.to = "client" /\ id = t.clientId

\* The windows a push is meant for, whatever the server's records say.
MeantFor(t) ==
  IF t.to = "all" THEN Window
  ELSE IF t.to = "workspace" THEN {w \in Window : windowWorkspace[w] = t.workspaceId}
  ELSE {w \in Window : clientId[w] = t.clientId}

\* push: connected and retained clients buffer the event, connected ones are
\* sent it.
Push(t) ==
  LET n == Len(published) + 1
      to == {id \in Retained : MatchesTarget(id, t)}
      Event(id) == [seq |-> lastSentSeq[id] + 1, ev |-> n]
      SentOn(s) == {id \in to \intersect clients :
                      connWs[id] = s /\ serverEnd[s] = "open" /\ clientEnd[s] # "closed"}
  IN /\ Len(published) < MaxPush
     /\ eventBuffer' = [id \in Sock |->
          IF id \in to THEN EvictBuffer(Append(eventBuffer[id], Event(id)))
                       ELSE eventBuffer[id]]
     /\ lastSentSeq' = [id \in Sock |->
          IF id \in to THEN lastSentSeq[id] + 1 ELSE lastSentSeq[id]]
     /\ toClient' = [s \in Sock |->
          IF SentOn(s) = {} THEN toClient[s]
          ELSE LET event == Event(CHOOSE id \in SentOn(s) : TRUE)
               IN Append(toClient[s],
                         [type |-> "event", seq |-> event.seq, ev |-> event.ev])]
     /\ published' = Append(published, MeantFor(t))
     /\ UNCHANGED <<connWs, connWorkspace, connWindow, lastAckedSeq, mapVars, hsVars,
                    windowWorkspace, expired, restarts, clientVars, nextSock,
                    socketWindow, clientEnd, serverEnd, toServer, known, notice>>

\* Time passes: some of the events become older than EVENT_BUFFER_TTL_MS.
EventsAge ==
  /\ \E n \in (expired + 1)..Len(published) : expired' = n
  /\ UNCHANGED <<connVars, mapVars, hsVars, windowWorkspace, restarts,
                 clientVars, netVars, historyVars>>

\* A socket arrives. The limit is checked here, against the handshakes that
\* have completed so far.
OnConnection(s) ==
  /\ clientEnd[s] = "connecting" /\ serverEnd[s] = "none"
  /\ IF maxClients > 0 /\ Cardinality(clients) >= maxClients
       THEN serverEnd' = [serverEnd EXCEPT ![s] = "closed"] /\ UNCHANGED handshake
       ELSE /\ serverEnd' = [serverEnd EXCEPT ![s] = "open"]
            /\ handshake' = [handshake EXCEPT ![s] = "waiting"]
  /\ UNCHANGED <<connVars, mapVars, closeHandler, windowWorkspace, expired, restarts,
                 clientVars, nextSock, socketWindow, clientEnd, toServer, toClient,
                 historyVars>>

\* The handshake arrives, and its handler awaits the authentication. The
\* envelope stays at the head of the queue until the handler goes on.
OnHandshake(s) ==
  /\ serverEnd[s] = "open" /\ handshake[s] = "waiting" /\ toServer[s] # <<>>
  /\ handshake' = [handshake EXCEPT ![s] = "auth"]
  /\ UNCHANGED <<connVars, mapVars, closeHandler, windowWorkspace, expired, restarts,
                 clientVars, netVars, historyVars>>

\* Handshake timeout, bad protocol version or failed authentication.
RejectHandshake(s) ==
  /\ handshake[s] \in {"waiting", "auth"}
  /\ handshake' = [handshake EXCEPT ![s] = "none"]
  /\ serverEnd' = [serverEnd EXCEPT ![s] = "closed"]
  /\ toServer' = [toServer EXCEPT ![s] = <<>>]
  /\ UNCHANGED <<connVars, mapVars, closeHandler, windowWorkspace, expired, restarts,
                 clientVars, nextSock, socketWindow, clientEnd, toClient, historyVars>>

\* The place in disconnectedClients of the client that a handshake may resume:
\* it asks for it, it is retained, and workspace and window are the same.
Resumable(s) ==
  {i \in 1..Len(disconnectedClients) :
     /\ disconnectedClients[i] = Head(toServer[s]).reconnect.clientId
     /\ connWorkspace[disconnectedClients[i]] = HomeWorkspace[socketWindow[s]]
     /\ connWindow[disconnectedClients[i]] = socketWindow[s]}

HandshakeAck(id, reconnected, stale) ==
  [type |-> "handshake_ack", clientId |-> id, reconnected |-> reconnected,
   stale |-> stale, upto |-> Len(published)]

EventMessages(buf) ==
  [i \in 1..Len(buf) |-> [type |-> "event", seq |-> buf[i].seq, ev |-> buf[i].ev]]

\* After the authentication: resume a retained client. The socket may have
\* closed meanwhile, the handler does not look.
CompleteReconnect(s) ==
  /\ handshake[s] = "auth"
  /\ \E i \in Resumable(s) :
       LET id == disconnectedClients[i]
           lastSeq == Head(toServer[s]).reconnect.lastSeq
           buf == EvictBuffer(eventBuffer[id])
           replay == CanReplay(buf, lastSeq, lastSentSeq[id])
       IN /\ connWs' = [connWs EXCEPT ![id] = s]
          /\ eventBuffer' = [eventBuffer EXCEPT ![id] = buf]
          /\ toClient' = SafeSend(s,
               <<HandshakeAck(id, TRUE, ~replay)>>
                 \o EventMessages(IF replay THEN Replay(buf, lastSeq) ELSE <<>>))
          /\ disconnectedClients' = RemoveAt(disconnectedClients, i)
          /\ clients' = clients \union {id}
          /\ closeHandler' = [closeHandler EXCEPT ![s] = id]
  /\ handshake' = [handshake EXCEPT ![s] = "completed"]
  /\ toServer' = [toServer EXCEPT ![s] = Tail(@)]
  /\ UNCHANGED <<connWorkspace, connWindow, lastAckedSeq, lastSentSeq, windowWorkspace,
                 expired, restarts, clientVars, nextSock, socketWindow, clientEnd,
                 serverEnd, historyVars>>

\* After the authentication: a new client.
CompleteFresh(s) ==
  /\ handshake[s] = "auth"
  /\ Resumable(s) = {}
  /\ connWs' = [connWs EXCEPT ![s] = s]
  /\ connWorkspace' = [connWorkspace EXCEPT ![s] = HomeWorkspace[socketWindow[s]]]
  /\ connWindow' = [connWindow EXCEPT ![s] = socketWindow[s]]
  /\ eventBuffer' = [eventBuffer EXCEPT ![s] = <<>>]
  /\ lastAckedSeq' = [lastAckedSeq EXCEPT ![s] = 0]
  /\ lastSentSeq' = [lastSentSeq EXCEPT ![s] = 0]
  /\ clients' = clients \union {s}
  /\ toClient' = SafeSend(s, <<HandshakeAck(s, FALSE, FALSE)>>)
  /\ closeHandler' = [closeHandler EXCEPT ![s] = s]
  /\ handshake' = [handshake EXCEPT ![s] = "completed"]
  /\ toServer' = [toServer EXCEPT ![s] = Tail(@)]
  /\ UNCHANGED <<disconnectedClients, windowWorkspace, expired, restarts, clientVars,
                 nextSock, socketWindow, clientEnd, serverEnd, historyVars>>

\* A message after the handshake, from the connected client of its socket.
Incoming(s, id, type) ==
  /\ serverEnd[s] = "open" /\ handshake[s] = "completed"
  /\ toServer[s] # <<>> /\ Head(toServer[s]).type = type
  /\ id \in clients /\ connWs[id] = s
  /\ toServer' = [toServer EXCEPT ![s] = Tail(@)]

OnSequenceAck(s) ==
  /\ \E id \in Sock :
       LET ackSeq == Head(toServer[s]).lastSeq
           newer == ackSeq > lastAckedSeq[id]
           acked(buf) == PrefixLength({i \in 1..Len(buf) : buf[i].seq <= ackSeq})
       IN /\ Incoming(s, id, "sequence_ack")
          /\ lastAckedSeq' = [lastAckedSeq EXCEPT ![id] = IF newer THEN ackSeq ELSE @]
          /\ eventBuffer' = [eventBuffer EXCEPT ![id] = IF newer THEN Drop(@, acked(@)) ELSE @]
  /\ UNCHANGED <<connWs, connWorkspace, connWindow, lastSentSeq, mapVars, hsVars,
                 windowWorkspace, expired, restarts, clientVars, nextSock, socketWindow,
                 clientEnd, serverEnd, toClient, historyVars>>

\* The SWITCH_WORKSPACE handler: updateClientWorkspace and WindowManager.
OnSwitchWorkspace(s) ==
  /\ \E id \in Sock :
       LET workspace == Head(toServer[s]).workspaceId
       IN /\ Incoming(s, id, "switchWorkspace")
          /\ connWorkspace' = [connWorkspace EXCEPT ![id] = workspace]
          /\ windowWorkspace' = [windowWorkspace EXCEPT ![connWindow[id]] = workspace]
  /\ UNCHANGED <<connWs, connWindow, eventBuffer, lastAckedSeq, lastSentSeq, mapVars,
                 hsVars, expired, restarts, clientVars, nextSock, socketWindow,
                 clientEnd, serverEnd, toClient, historyVars>>

\* The server notices that a socket is closed: the peer closed it, the network
\* failed, or the heartbeat terminated it. Only a completed handshake has a
\* close listener.
OnClose(s) ==
  LET id == closeHandler[s]
      retained == Append(disconnectedClients, id)
  IN /\ serverEnd[s] = "open"
     /\ serverEnd' = [serverEnd EXCEPT ![s] = "closed"]
     /\ toServer' = [toServer EXCEPT ![s] = IF handshake[s] = "auth" THEN @ ELSE <<>>]
     /\ IF id = None THEN UNCHANGED mapVars
        ELSE /\ clients' = clients \ {id}
             /\ disconnectedClients' =
                  IF Len(retained) > MAX_DISCONNECTED THEN Tail(retained) ELSE retained
     /\ handshake' = [handshake EXCEPT ![s] = IF @ = "waiting" THEN "none" ELSE @]
     /\ UNCHANGED <<connVars, closeHandler, windowWorkspace, expired, restarts, clientVars,
                    nextSock, socketWindow, clientEnd, toClient, historyVars>>

\* The timer of a retained client fires.
DisconnectedExpires ==
  /\ \E i \in 1..Len(disconnectedClients) :
       disconnectedClients' = RemoveAt(disconnectedClients, i)
  /\ UNCHANGED <<connVars, clients, hsVars, windowWorkspace, expired, restarts,
                 clientVars, netVars, historyVars>>

\* The server process stops and another one takes its place.
Restart ==
  /\ restarts < MaxRestart
  /\ restarts' = restarts + 1
  /\ clients' = {}
  /\ disconnectedClients' = <<>>
  /\ handshake' = [s \in Sock |-> "none"]
  /\ closeHandler' = [s \in Sock |-> None]
  /\ serverEnd' = [s \in Sock |-> IF serverEnd[s] = "open" THEN "closed" ELSE serverEnd[s]]
  /\ toServer' = [s \in Sock |-> <<>>]
  /\ UNCHANGED <<connVars, windowWorkspace, expired, clientVars, nextSock, socketWindow,
                 clientEnd, toClient, historyVars>>

-----------------------------------------------------------------------------
(* The clients *)

Connected(w) == clientId[w] # None

\* connect(): from the application, the reconnect timer or an invoke(). A
\* socket left behind by a failed attempt is detached and closed.
Connect(w) ==
  /\ ~Connected(w) /\ nextSock <= MaxSock
  /\ nextSock' = nextSock + 1
  /\ ws' = [ws EXCEPT ![w] = nextSock]
  /\ socketWindow' = [socketWindow EXCEPT ![nextSock] = w]
  /\ clientEnd' = [s \in Sock |-> IF s = nextSock THEN "connecting"
                                  ELSE IF s = ws[w] THEN "closed" ELSE clientEnd[s]]
  /\ toClient' = [s \in Sock |-> IF s = ws[w] THEN <<>> ELSE toClient[s]]
  /\ UNCHANGED <<serverVars, clientId, lastSeenSeq, pendingReconnect,
                 currentHandshakeWasReconnect, switches, serverEnd, toServer, historyVars>>

OnOpen(w) ==
  LET s == ws[w] IN
  /\ s # None
  /\ clientEnd[s] = "connecting" /\ serverEnd[s] # "none"
  /\ clientEnd' = [clientEnd EXCEPT ![s] = "open"]
  /\ currentHandshakeWasReconnect' =
       [currentHandshakeWasReconnect EXCEPT ![w] = pendingReconnect[w] # NoReconnect]
  /\ toServer' = ClientSend(s, [type |-> "handshake", reconnect |-> pendingReconnect[w]])
  /\ UNCHANGED <<serverVars, ws, clientId, lastSeenSeq, pendingReconnect, switches,
                 nextSock, socketWindow, serverEnd, toClient, historyVars>>

\* The next message of a type on the window's current socket.
Receive(w, type) ==
  /\ ws[w] # None /\ clientEnd[ws[w]] = "open"
  /\ toClient[ws[w]] # <<>> /\ Head(toClient[ws[w]]).type = type
  /\ toClient' = [toClient EXCEPT ![ws[w]] = Tail(@)]

\* Mutant of SeenAfter: the number is kept for a new client too.
SeenKept(ack, seen) == seen
\* The last number seen, after a handshake: a new client starts from zero.
SeenAfter(ack, seen) == IF ack.reconnected THEN seen ELSE 0

\* A handshake that asked to resume and was not recognised, or was, but with
\* events missing, is reported as stale.
OnHandshakeAck(w) ==
  LET ack == Head(toClient[ws[w]])
      told == IF ~currentHandshakeWasReconnect[w] THEN "first"
              ELSE IF ack.reconnected /\ ~ack.stale THEN "replayed" ELSE "stale"
  IN /\ Receive(w, "handshake_ack")
     /\ clientId' = [clientId EXCEPT ![w] = ack.clientId]
     /\ lastSeenSeq' = [lastSeenSeq EXCEPT ![w] = SeenAfter(ack, @)]
     /\ pendingReconnect' = [pendingReconnect EXCEPT ![w] = NoReconnect]
     /\ currentHandshakeWasReconnect' = [currentHandshakeWasReconnect EXCEPT ![w] = FALSE]
     /\ notice' = [notice EXCEPT ![w] = told]
     /\ known' = [known EXCEPT ![w] = IF told = "replayed" THEN @ ELSE ack.upto]
     /\ UNCHANGED <<serverVars, ws, switches, nextSock, socketWindow, clientEnd, serverEnd,
                    toServer, published>>

OnEvent(w) ==
  LET event == Head(toClient[ws[w]])
  IN /\ Receive(w, "event")
     /\ lastSeenSeq' = [lastSeenSeq EXCEPT ![w] = event.seq]
     /\ known' = [known EXCEPT ![w] = event.ev]
     /\ notice' = [notice EXCEPT ![w] = "event"]
     /\ UNCHANGED <<serverVars, ws, clientId, pendingReconnect,
                    currentHandshakeWasReconnect, switches, nextSock, socketWindow,
                    clientEnd, serverEnd, toServer, published>>

\* The window's socket is closed, by the server, the network or reconnectNow().
OnDisconnect(w) ==
  LET s == ws[w] IN
  /\ s # None
  /\ clientEnd' = [clientEnd EXCEPT ![s] = "closed"]
  /\ toClient' = [toClient EXCEPT ![s] = <<>>]
  /\ ws' = [ws EXCEPT ![w] = None]
  /\ clientId' = [clientId EXCEPT ![w] = None]
  /\ pendingReconnect' = [pendingReconnect EXCEPT ![w] =
       IF Connected(w) THEN [clientId |-> clientId[w], lastSeq |-> lastSeenSeq[w]] ELSE @]
  /\ UNCHANGED <<serverVars, lastSeenSeq, currentHandshakeWasReconnect, switches,
                 nextSock, socketWindow, serverEnd, toServer, historyVars>>

SendMessage(w, msg) ==
  /\ Connected(w) /\ Len(toServer[ws[w]]) < MaxInFlight
  /\ toServer' = ClientSend(ws[w], msg)
  /\ UNCHANGED <<serverVars, ws, clientId, lastSeenSeq, pendingReconnect,
                 currentHandshakeWasReconnect, nextSock, socketWindow, clientEnd,
                 serverEnd, toClient, historyVars>>

\* The ack timer.
SendSequenceAck(w) ==
  /\ lastSeenSeq[w] > 0
  /\ SendMessage(w, [type |-> "sequence_ack", lastSeq |-> lastSeenSeq[w]])
  /\ UNCHANGED switches

SwitchWorkspace(w, workspace) ==
  /\ switches < MaxSwitch
  /\ SendMessage(w, [type |-> "switchWorkspace", workspaceId |-> workspace])
  /\ switches' = switches + 1

-----------------------------------------------------------------------------
ServerNext ==
  \/ \E t \in Target : Push(t)
  \/ EventsAge
  \/ DisconnectedExpires
  \/ Restart
  \/ \E s \in Sock :
       \/ OnConnection(s) \/ OnHandshake(s) \/ RejectHandshake(s)
       \/ CompleteReconnect(s) \/ CompleteFresh(s)
       \/ OnSequenceAck(s) \/ OnSwitchWorkspace(s) \/ OnClose(s)

ClientNext ==
  \E w \in Window :
    \/ Connect(w) \/ OnOpen(w) \/ OnHandshakeAck(w) \/ OnEvent(w)
    \/ OnDisconnect(w) \/ SendSequenceAck(w)
    \/ \E x \in Workspace : SwitchWorkspace(w, x)

Next == ServerNext \/ ClientNext

Spec == Init /\ [][Next]_vars

\* What is received is handled, an authentication ends, a dropped client tries
\* again, and each side notices in the end that the other one is gone (close
\* frame, heartbeat). Nothing is assumed of pushes, acknowledgements or failures.
Fairness ==
  /\ \A s \in Sock :
       /\ WF_vars(OnConnection(s)) /\ WF_vars(OnHandshake(s))
       /\ WF_vars(CompleteReconnect(s) \/ CompleteFresh(s))
       /\ WF_vars(OnSequenceAck(s)) /\ WF_vars(OnSwitchWorkspace(s))
       /\ WF_vars(clientEnd[s] = "closed" /\ OnClose(s))
  /\ \A w \in Window :
       /\ WF_vars(Connect(w)) /\ WF_vars(OnOpen(w))
       /\ WF_vars(OnHandshakeAck(w)) /\ WF_vars(OnEvent(w))
       /\ WF_vars(ws[w] # None /\ serverEnd[ws[w]] = "closed" /\ OnDisconnect(w))

FairSpec == Spec /\ Fairness

-----------------------------------------------------------------------------
(* Properties *)

\* The events retained for a client are the last ones of its stream, without a
\* gap, and no more than the limit: what Replay and CanReplay rely on.
BufferIsSuffix ==
  \A id \in Retained :
    LET buf == eventBuffer[id] IN
    /\ Len(buf) <= EVENT_BUFFER_MAX_SIZE
    /\ \A i \in 1..Len(buf) : buf[i].seq = lastSentSeq[id] - Len(buf) + i

\* A client id is connected or retained for reconnection, never both, and is
\* retained once: or an event would be numbered twice for it by one push.
OneHome ==
  /\ clients \intersect Elements(disconnectedClients) = {}
  /\ \A i, j \in 1..Len(disconnectedClients) :
       disconnectedClients[i] = disconnectedClients[j] => i = j

\* An acknowledgement never runs ahead of what was sent to its window, nor of
\* what the window was given: it never throws away an event that a
\* reconnection could ask for, and never keeps the next ones from being acked.
AckedWasSeen ==
  \A id \in Retained, w \in Window :
    /\ lastAckedSeq[id] <= lastSentSeq[id]
    /\ clientId[w] = id => lastAckedSeq[id] <= lastSeenSeq[w]
    /\ pendingReconnect[w].clientId = id => lastAckedSeq[id] <= pendingReconnect[w].lastSeq

\* The windows' channels implement EventStream: no event is lost, doubled or
\* reordered without the window being told that it is stale.
Stream == INSTANCE EventStream
StreamSpec == Stream!StreamSpec

\* A window that can still open a socket is, again and again, up to date: it
\* was given every event meant for it or was told to reload.
UpToDate(w) == \A n \in 1..Len(published) : w \in published[n] => n <= known[w]
EventuallyInformed ==
  \A w \in Window : []<>(UpToDate(w) \/ (nextSock > MaxSock /\ ~Connected(w)))

=============================================================================
