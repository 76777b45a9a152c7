-------------------------- MODULE WsTransportProofs --------------------------
(***************************************************************************)
(* Proofs about WsTransport, for any number of windows, sockets, events    *)
(* and any buffer size: types, the shape of the replay buffers, that a     *)
(* client id never is both connected and retained for reconnection, that   *)
(* no acknowledgement runs ahead of what its window has seen, that the     *)
(* windows' channels implement EventStream, and that nothing a window is   *)
(* owed is lost while it has its socket.                                   *)
(***************************************************************************)
EXTENDS WsTransport, SequenceTheorems, FiniteSetTheorems, TLAPS

-----------------------------------------------------------------------------
(* Sequences *)

\* A sequence of one element of a set is a sequence over it.
LEMMA SingletonSeq == ASSUME NEW S, NEW e \in S PROVE <<e>> \in Seq(S)
OBVIOUS

\* Dropping a prefix leaves the rest, in place.
LEMMA DropFacts ==
  ASSUME NEW S, NEW s \in Seq(S), NEW k \in 0..Len(s)
  PROVE  /\ Drop(s, k) \in Seq(S)
         /\ Len(Drop(s, k)) = Len(s) - k
         /\ \A i \in 1..(Len(s) - k) : Drop(s, k)[i] = s[k + i]
<1>1. Len(s) \in Nat
  BY LenProperties
<1>2. \A i \in (k + 1)..Len(s) : s[i] \in S
  BY <1>1, ElementOfSeq
<1> QED
  BY <1>1, <1>2, SubSeqProperties DEF Drop

\* The length of a prefix of 1..n is at most n.
LEMMA PrefixLengthFacts ==
  ASSUME NEW n \in Nat, NEW S \in SUBSET (1..n)
  PROVE  PrefixLength(S) \in 0..n
<1> DEFINE P == {i \in S : 1..i \subseteq S}
<1>1. P \subseteq 1..n
  OBVIOUS
<1>2. IsFiniteSet(1..n) /\ Cardinality(1..n) = n
  BY FS_Interval
<1>3. IsFiniteSet(P) /\ Cardinality(P) <= n
  BY <1>1, <1>2, FS_Subset
<1>4. Cardinality(P) \in Nat
  BY <1>3, FS_CardinalityType
<1> QED
  BY <1>3, <1>4 DEF PrefixLength

\* Removing one place of a sequence leaves the elements of the others.
LEMMA RemoveAtFacts ==
  ASSUME NEW S, NEW s \in Seq(S), NEW i \in 1..Len(s)
  PROVE  /\ RemoveAt(s, i) \in Seq(S)
         /\ Len(RemoveAt(s, i)) = Len(s) - 1
         /\ \A j \in 1..(Len(s) - 1) :
              RemoveAt(s, i)[j] = IF j < i THEN s[j] ELSE s[j + 1]
<1>1. Len(s) \in Nat /\ Len(s) - 1 \in Nat
  BY LenProperties
<1>2. \A j \in 1..(Len(s) - 1) : (IF j < i THEN s[j] ELSE s[j + 1]) \in S
  BY <1>1, ElementOfSeq
<1>3. RemoveAt(s, i) \in [1..(Len(s) - 1) -> S]
  BY <1>2 DEF RemoveAt
<1>4. RemoveAt(s, i) \in Seq(S)
  BY <1>1, <1>3 
<1>5. Len(RemoveAt(s, i)) = Len(s) - 1
  BY <1>1, <1>3, <1>4, LenProperties
<1> QED
  BY <1>4, <1>5 DEF RemoveAt

-----------------------------------------------------------------------------
(* The inductive invariant *)

\* A socket belongs to a window from the moment it exists, and the envelope
\* whose authentication is awaited is still there.
SocketInv ==
  /\ \A s \in Sock :
       /\ socketWindow[s] \in Window \/ (clientEnd[s] = "none" /\ handshake[s] = "none")
       /\ handshake[s] = "auth" => toServer[s] # <<>>
  /\ \A w \in Window, s \in Sock : ws[w] = s => socketWindow[s] = w /\ s < nextSock

\* BufferIsSuffix, of every client id there ever was.
BufferInv ==
  \A id \in Sock :
    /\ Len(eventBuffer[id]) <= EVENT_BUFFER_MAX_SIZE
    /\ \A i \in 1..Len(eventBuffer[id]) :
         eventBuffer[id][i].seq = lastSentSeq[id] - Len(eventBuffer[id]) + i

\* The client whose close listener an open socket carries is connected, and by
\* this socket; and an id is in use only when its socket's handshake is done.
HandlerInv ==
  /\ \A s \in Sock :
       /\ serverEnd[s] = "none" => handshake[s] = "none" /\ closeHandler[s] = None
       /\ serverEnd[s] = "open" /\ closeHandler[s] # None =>
            closeHandler[s] \in clients /\ connWs[closeHandler[s]] = s
  /\ \A id \in Sock : id \in clients => handshake[id] = "completed"
  /\ \A id \in Sock, i \in 1..Len(disconnectedClients) :
       disconnectedClients[i] = id => handshake[id] = "completed"

\* OneHome, with places instead of sets.
PlacesInv ==
  /\ \A i \in 1..Len(disconnectedClients) : disconnectedClients[i] \notin clients
  /\ \A i, j \in 1..Len(disconnectedClients) :
       disconnectedClients[i] = disconnectedClients[j] => i = j

IInv == TypeOK /\ SocketInv /\ BufferInv /\ HandlerInv /\ PlacesInv

\* Sockets are positive numbers, so None is not one of them.
LEMMA SockFacts == Sock \subseteq Nat \ {0} /\ None \notin Sock /\ SockOrNone = Sock \union {None}
BY Bounds DEF Sock, None, SockOrNone

\* The invariant holds initially.
LEMMA InitInv == Init => IInv
<1> SUFFICES ASSUME Init PROVE IInv
  OBVIOUS
<1> USE SockFacts, Bounds, HomeWorkspaces DEF Init
<1>1. /\ <<>> \in Seq(BufferedEvent) /\ <<>> \in Seq(Sock) /\ <<>> \in Seq(ToServerMsg)
      /\ <<>> \in Seq(ToClientMsg) /\ <<>> \in Seq(SUBSET Window) /\ Len(<<>>) = 0
  BY EmptySeq
<1>2. TypeOK
  BY <1>1 DEF TypeOK, NoReconnect, ReconnectInfo
<1>3. SocketInv
  BY DEF SocketInv
<1>4. BufferInv
  BY <1>1, BufferSizes DEF BufferInv
<1>5. HandlerInv /\ PlacesInv
  BY <1>1 DEF HandlerInv, PlacesInv
<1> QED
  BY <1>2, <1>3, <1>4, <1>5 DEF IInv

-----------------------------------------------------------------------------
(* Types *)

\* What is left of a client's buffer after an eviction is still a buffer: a
\* suffix of it, no longer than the limit.
LEMMA EvictFacts ==
  ASSUME NEW buf \in Seq(BufferedEvent)
  PROVE  \E k \in 0..Len(buf) :
           /\ EvictBuffer(buf) = Drop(buf, k)
           /\ Len(buf) - k <= EVENT_BUFFER_MAX_SIZE
<1>1. Len(buf) \in Nat
  BY LenProperties
<1>2. TooOld(buf) \in 0..Len(buf)
  BY <1>1, PrefixLengthFacts DEF TooOld
<1> DEFINE k == TooOld(buf) + TooMany(Len(buf) - TooOld(buf))
<1>3. k \in 0..Len(buf) /\ Len(buf) - k <= EVENT_BUFFER_MAX_SIZE
  BY <1>1, <1>2, BufferSizes DEF TooMany
<1>4. EvictBuffer(buf) = Drop(buf, k)
  BY DEF EvictBuffer
<1> QED
  BY <1>3, <1>4

\* Eviction keeps a buffer a buffer: it only drops a prefix.
LEMMA EvictType ==
  ASSUME NEW buf \in Seq(BufferedEvent)
  PROVE  EvictBuffer(buf) \in Seq(BufferedEvent)
BY EvictFacts, DropFacts

\* The messages that stand for buffered events are events.
LEMMA EventMessagesType ==
  ASSUME NEW buf \in Seq(BufferedEvent)
  PROVE  EventMessages(buf) \in Seq(ToClientMsg)
<1>1. Len(buf) \in Nat /\ \A i \in 1..Len(buf) : buf[i] \in BufferedEvent
  BY LenProperties, ElementOfSeq
<1>2. \A i \in 1..Len(buf) :
        [type |-> "event", seq |-> buf[i].seq, ev |-> buf[i].ev] \in ToClientMsg
  BY <1>1 DEF BufferedEvent, ToClientMsg, EventMsg
<1>3. EventMessages(buf) \in [1..Len(buf) -> ToClientMsg]
  BY <1>2 DEF EventMessages
<1> QED
  BY <1>1, <1>3

\* Sending keeps the queues well-typed.
LEMMA SafeSendType ==
  ASSUME toClient \in [Sock -> Seq(ToClientMsg)], NEW s, NEW msgs \in Seq(ToClientMsg)
  PROVE  SafeSend(s, msgs) \in [Sock -> Seq(ToClientMsg)]
<1>1. CASE s \in Sock
  <2>1. toClient[s] \o msgs \in Seq(ToClientMsg)
    BY <1>1, ConcatProperties
  <2> QED
    BY <2>1 DEF SafeSend
<1>2. CASE s \notin Sock
  BY <1>2 DEF SafeSend
<1> QED
  BY <1>1, <1>2

\* A message sent by a client keeps the queues well typed, and empties none.
LEMMA ClientSendType ==
  ASSUME toServer \in [Sock -> Seq(ToServerMsg)], NEW s, NEW msg \in ToServerMsg
  PROVE  /\ ClientSend(s, msg) \in [Sock -> Seq(ToServerMsg)]
         /\ \A t \in Sock : toServer[t] # <<>> => ClientSend(s, msg)[t] # <<>>
<1>1. CASE s \in Sock
  <2>1. Append(toServer[s], msg) \in Seq(ToServerMsg) /\ Append(toServer[s], msg) # <<>>
    BY <1>1
  <2> QED
    BY <2>1 DEF ClientSend
<1>2. CASE s \notin Sock
  BY <1>2 DEF ClientSend
<1> QED
  BY <1>1, <1>2

\* The head of a queue is a message, and the rest is a queue.
LEMMA ToServerHead ==
  ASSUME TypeOK, NEW s \in Sock, toServer[s] # <<>>
  PROVE  /\ Head(toServer[s]) \in ToServerMsg
         /\ [toServer EXCEPT ![s] = Tail(@)] \in [Sock -> Seq(ToServerMsg)]
<1>1. Head(toServer[s]) \in ToServerMsg /\ Tail(toServer[s]) \in Seq(ToServerMsg)
  BY HeadTailProperties DEF TypeOK
<1> QED
  BY <1>1 DEF TypeOK

\* What a client receives next is a message, and taking it keeps the queues well typed.
LEMMA ToClientHead ==
  ASSUME TypeOK, NEW s \in Sock, toClient[s] # <<>>
  PROVE  /\ Head(toClient[s]) \in ToClientMsg
         /\ [toClient EXCEPT ![s] = Tail(@)] \in [Sock -> Seq(ToClientMsg)]
<1>1. Head(toClient[s]) \in ToClientMsg /\ Tail(toClient[s]) \in Seq(ToClientMsg)
  BY HeadTailProperties DEF TypeOK
<1> QED
  BY <1>1 DEF TypeOK

-----------------------------------------------------------------------------
(* The steps of the server *)

\* One event appended to a buffer that ends at lastSent, then the eviction.
LEMMA PushBuffer ==
  ASSUME NEW buf \in Seq(BufferedEvent), NEW last \in Nat, NEW n \in Nat,
         \A i \in 1..Len(buf) : buf[i].seq = last - Len(buf) + i
  PROVE  LET new == EvictBuffer(Append(buf, [seq |-> last + 1, ev |-> n])) IN
         /\ new \in Seq(BufferedEvent)
         /\ Len(new) <= EVENT_BUFFER_MAX_SIZE
         /\ \A i \in 1..Len(new) : new[i].seq = (last + 1) - Len(new) + i
<1> DEFINE event == [seq |-> last + 1, ev |-> n]
           longer == Append(buf, event)
<1>1. event \in BufferedEvent
  BY DEF BufferedEvent
<1>2. Len(buf) \in Nat
  BY LenProperties
<1>3. /\ longer \in Seq(BufferedEvent)
      /\ Len(longer) = Len(buf) + 1
      /\ \A i \in 1..Len(longer) : longer[i] = IF i <= Len(buf) THEN buf[i] ELSE event
  BY <1>1, <1>2
<1>4. \A i \in 1..Len(longer) : longer[i].seq = (last + 1) - Len(longer) + i
  BY <1>2, <1>3
<1> HIDE DEF longer
<1>5. PICK k \in 0..Len(longer) : /\ EvictBuffer(longer) = Drop(longer, k)
                                  /\ Len(longer) - k <= EVENT_BUFFER_MAX_SIZE
  BY <1>3, EvictFacts
<1>6. /\ Drop(longer, k) \in Seq(BufferedEvent)
      /\ Len(Drop(longer, k)) = Len(longer) - k
      /\ \A i \in 1..(Len(longer) - k) : Drop(longer, k)[i] = longer[k + i]
  BY <1>3, DropFacts
<1>7. Len(longer) \in Nat
  BY <1>2, <1>3
<1>8. \A i \in 1..Len(Drop(longer, k)) :
        Drop(longer, k)[i].seq = (last + 1) - Len(Drop(longer, k)) + i
  <2> TAKE i \in 1..Len(Drop(longer, k))
  <2>1. i \in 1..(Len(longer) - k) /\ k + i \in 1..Len(longer)
    BY <1>6, <1>7
  <2> QED
    BY <2>1, <1>4, <1>6, <1>7
<1>9. EvictBuffer(longer) = Drop(longer, k)
  BY <1>5
<1> QED
  BY <1>5, <1>6, <1>8, <1>9 DEF longer

\* push: the new event takes the next number in every buffer it enters, and
\* eviction cuts only the oldest, so each buffer stays a suffix of its stream.
LEMMA PushStep == ASSUME IInv, NEW t \in Target, Push(t) PROVE IInv'
<1> DEFINE n == Len(published) + 1
           to == {id \in Retained : MatchesTarget(id, t)}
           Event(id) == [seq |-> lastSentSeq[id] + 1, ev |-> n]
           New(id) == EvictBuffer(Append(eventBuffer[id], Event(id)))
<1> USE DEF IInv
<1>1. n \in Nat
  BY LenProperties DEF TypeOK
<1>2. ASSUME NEW id \in Sock
      PROVE  /\ New(id) \in Seq(BufferedEvent)
             /\ Len(New(id)) <= EVENT_BUFFER_MAX_SIZE
             /\ \A i \in 1..Len(New(id)) :
                  New(id)[i].seq = (lastSentSeq[id] + 1) - Len(New(id)) + i
  <2>1. eventBuffer[id] \in Seq(BufferedEvent) /\ lastSentSeq[id] \in Nat
    BY DEF TypeOK
  <2>2. \A i \in 1..Len(eventBuffer[id]) :
          eventBuffer[id][i].seq = lastSentSeq[id] - Len(eventBuffer[id]) + i
    BY DEF BufferInv
  <2> QED
    BY <1>1, <2>1, <2>2, PushBuffer
<1>3. ASSUME NEW id \in Sock
      PROVE  /\ id \in to => /\ eventBuffer'[id] = New(id)
                             /\ lastSentSeq'[id] = lastSentSeq[id] + 1
             /\ id \notin to => /\ eventBuffer'[id] = eventBuffer[id]
                                /\ lastSentSeq'[id] = lastSentSeq[id]
  BY DEF Push
<1>4. eventBuffer' \in [Sock -> Seq(BufferedEvent)] /\ lastSentSeq' \in [Sock -> Nat]
  BY <1>2, <1>3 DEF Push, TypeOK
<1> HIDE DEF to, New
<1>5. BufferInv'
  <2> SUFFICES ASSUME NEW id \in Sock
               PROVE  /\ Len(eventBuffer'[id]) <= EVENT_BUFFER_MAX_SIZE
                      /\ \A i \in 1..Len(eventBuffer'[id]) : eventBuffer'[id][i].seq =
                           lastSentSeq'[id] - Len(eventBuffer'[id]) + i
    BY DEF BufferInv
  <2> QED
    BY <1>2, <1>3 DEF BufferInv
<1>6. toClient' \in [Sock -> Seq(ToClientMsg)]
  <2>1. \A s \in Sock, id \in Sock :
          Append(toClient[s], [type |-> "event", seq |-> lastSentSeq[id] + 1, ev |-> n])
            \in Seq(ToClientMsg)
    <3> TAKE s \in Sock, id \in Sock
    <3>1. [type |-> "event", seq |-> lastSentSeq[id] + 1, ev |-> n] \in ToClientMsg
      BY <1>1 DEF TypeOK, ToClientMsg, EventMsg
    <3> QED
      BY <3>1 DEF TypeOK
  <2>2. clients \subseteq Sock
    BY DEF TypeOK
  <2> QED
    BY <2>1, <2>2, Zenon DEF Push, TypeOK
<1>7. published' \in Seq(SUBSET Window)
  <2>1. MeantFor(t) \in SUBSET Window
    BY DEF MeantFor
  <2> QED
    BY <2>1 DEF Push, TypeOK
<1>8. TypeOK'
  BY <1>4, <1>6, <1>7 DEF Push, TypeOK, mapVars, hsVars, clientVars
<1>9. SocketInv' /\ HandlerInv' /\ PlacesInv'
  BY DEF Push, SocketInv, HandlerInv, PlacesInv, mapVars, hsVars, clientVars
<1> QED
  BY <1>5, <1>8, <1>9

\* The clock alone changes no buffer.
LEMMA EventsAgeStep == ASSUME IInv, EventsAge PROVE IInv'
<1> USE DEF IInv, EventsAge, connVars, mapVars, hsVars, clientVars, netVars, historyVars
<1>1. Len(published) \in Nat
  BY LenProperties DEF TypeOK
<1>2. TypeOK'
  BY <1>1 DEF TypeOK
<1> QED
  BY <1>2 DEF SocketInv, BufferInv, HandlerInv, PlacesInv

\* A new socket has no close listener and no client yet.
LEMMA OnConnectionStep == ASSUME IInv, NEW s \in Sock, OnConnection(s) PROVE IInv'
<1> USE DEF IInv, OnConnection, connVars, mapVars, clientVars, historyVars
<1>1. TypeOK'
  BY DEF TypeOK
<1>2. SocketInv' /\ BufferInv' /\ PlacesInv'
  BY DEF TypeOK, SocketInv, BufferInv, PlacesInv
<1>3. \A t \in Sock : t # s => serverEnd'[t] = serverEnd[t] /\ handshake'[t] = handshake[t]
  BY DEF TypeOK
<1>4. serverEnd'[s] \in {"open", "closed"} /\ handshake[s] = "none" /\ closeHandler[s] = None
  BY DEF TypeOK, HandlerInv
<1>5. HandlerInv'
  BY <1>3, <1>4 DEF HandlerInv
<1> QED
  BY <1>1, <1>2, <1>5

\* Starting the authentication leaves every map alone.
LEMMA OnHandshakeStep == ASSUME IInv, NEW s \in Sock, OnHandshake(s) PROVE IInv'
<1>1. /\ handshake' = [handshake EXCEPT ![s] = "auth"] /\ handshake[s] = "waiting"
      /\ toServer[s] # <<>> /\ serverEnd[s] = "open"
      /\ UNCHANGED <<connVars, mapVars, closeHandler, windowWorkspace, expired, restarts,
                     clientVars, netVars, historyVars>>
  BY DEF OnHandshake
<1>2. /\ handshake' \in [Sock -> {"none", "waiting", "auth", "completed"}] /\ handshake'[s] = "auth"
      /\ \A t \in Sock : t # s => handshake'[t] = handshake[t]
  BY <1>1 DEF IInv, TypeOK
<1>3. TypeOK'
  BY <1>1, <1>2 DEF IInv, TypeOK, connVars, mapVars, clientVars, netVars, historyVars
<1>4. SocketInv'
  BY <1>1, <1>2 DEF IInv, SocketInv, clientVars, netVars
<1>5. BufferInv' /\ PlacesInv'
  BY <1>1 DEF IInv, BufferInv, PlacesInv, connVars, mapVars
<1>6. HandlerInv'
  <2>1. ASSUME NEW t \in Sock
        PROVE  /\ handshake[t] = "completed" => handshake'[t] = "completed"
               /\ serverEnd[t] = "none" => handshake'[t] = handshake[t]
    BY <1>1, <1>2
  <2>2. UNCHANGED <<serverEnd, closeHandler, clients, connWs, disconnectedClients>>
    BY <1>1 DEF connVars, mapVars, netVars
  <2> QED
    BY <2>1, <2>2 DEF IInv, HandlerInv
<1> QED
  BY <1>3, <1>4, <1>5, <1>6 DEF IInv

\* A refused handshake has no client: no id moves.
LEMMA RejectHandshakeStep == ASSUME IInv, NEW s \in Sock, RejectHandshake(s) PROVE IInv'
<1> USE DEF IInv, RejectHandshake, connVars, mapVars, clientVars, historyVars
<1>1. TypeOK'
  BY EmptySeq DEF TypeOK
<1>2. SocketInv' /\ BufferInv' /\ PlacesInv'
  BY DEF TypeOK, SocketInv, BufferInv, PlacesInv
<1> QED
  BY <1>1, <1>2 DEF TypeOK, HandlerInv

\* A resumed client leaves disconnectedClients for the map of connected ones, and
\* the socket that resumed it is the only one whose close moves it back.
LEMMA CompleteReconnectStep ==
  ASSUME IInv, NEW s \in Sock, CompleteReconnect(s) PROVE IInv'
<1> USE DEF IInv
<1>1. PICK i \in Resumable(s) :
        LET id == disconnectedClients[i]
            lastSeq == Head(toServer[s]).reconnect.lastSeq
            buf == EvictBuffer(eventBuffer[id])
            replay == CanReplay(buf, lastSeq, lastSentSeq[id])
        IN /\ connWs' = [connWs EXCEPT ![id] = s]
           /\ eventBuffer' = [eventBuffer EXCEPT ![id] = buf]
           /\ toClient' = SafeSend(s,
                <<HandshakeAck(id, TRUE, ~replay)>>
                  \o EventMessages(IF replay THEN Replay(buf, lastSeq) ELSE <<>>))
           /\ disconnectedClients' = RemoveAt(disconnectedClients, i)
           /\ clients' = clients \union {id}
           /\ closeHandler' = [closeHandler EXCEPT ![s] = id]
  BY DEF CompleteReconnect
<1> DEFINE id == disconnectedClients[i]
           lastSeq == Head(toServer[s]).reconnect.lastSeq
           buf == EvictBuffer(eventBuffer[id])
           replay == CanReplay(buf, lastSeq, lastSentSeq[id])
           kept == IF replay THEN Replay(buf, lastSeq) ELSE <<>>
<1>2. i \in 1..Len(disconnectedClients) /\ disconnectedClients \in Seq(Sock)
  BY DEF Resumable, TypeOK
<1>3. id \in Sock /\ Len(disconnectedClients) \in Nat
  BY <1>2, ElementOfSeq, LenProperties
<1>4. /\ handshake[s] = "auth" /\ handshake' = [handshake EXCEPT ![s] = "completed"]
      /\ toServer' = [toServer EXCEPT ![s] = Tail(@)]
      /\ UNCHANGED <<connWorkspace, connWindow, lastAckedSeq, lastSentSeq, windowWorkspace,
                     expired, restarts, clientVars, nextSock, socketWindow, clientEnd,
                     serverEnd, historyVars>>
  BY DEF CompleteReconnect
<1>5. /\ disconnectedClients' \in Seq(Sock)
      /\ Len(disconnectedClients') = Len(disconnectedClients) - 1
      /\ \A j \in 1..(Len(disconnectedClients) - 1) : disconnectedClients'[j] =
           IF j < i THEN disconnectedClients[j] ELSE disconnectedClients[j + 1]
  BY <1>1, <1>2, RemoveAtFacts
<1>moved. ASSUME NEW j \in 1..Len(disconnectedClients')
          PROVE  \E k \in 1..Len(disconnectedClients) :
                   /\ disconnectedClients'[j] = disconnectedClients[k]
                   /\ k # i
                   /\ k = IF j < i THEN j ELSE j + 1
  <2>1. PICK n \in Nat : n = Len(disconnectedClients)
    BY <1>3
  <2>2. j \in 1..(n - 1) /\ i \in 1..n
    BY <1>2, <1>5, <2>1
  <2>3. PICK k \in 1..n : k = (IF j < i THEN j ELSE j + 1) /\ k # i
    BY <2>2
  <2>4. disconnectedClients'[j] = IF j < i THEN disconnectedClients[j] ELSE disconnectedClients[j + 1]
    BY <1>5, <2>1, <2>2
  <2> QED
    BY <2>1, <2>3, <2>4
<1>6. buf \in Seq(BufferedEvent)
  BY <1>3, EvictType DEF TypeOK
<1>7. toClient' \in [Sock -> Seq(ToClientMsg)]
  <2>1. Replay(buf, lastSeq) \in Seq(BufferedEvent)
    <3> HIDE DEF buf, lastSeq
    <3>1. Len(buf) \in Nat
      BY <1>6, LenProperties
    <3>2. PrefixLength({j \in 1..Len(buf) : buf[j].seq <= lastSeq}) \in 0..Len(buf)
      BY <3>1, PrefixLengthFacts
    <3> QED
      BY <1>6, <3>2, DropFacts DEF Replay
  <2>2. kept \in Seq(BufferedEvent)
    BY <2>1, EmptySeq
  <2>3. EventMessages(kept) \in Seq(ToClientMsg)
    BY <2>2, EventMessagesType
  <2>4. HandshakeAck(id, TRUE, ~replay) \in ToClientMsg
    <3>1. Len(published) \in Nat
      BY LenProperties DEF TypeOK
    <3>2. replay \in BOOLEAN
      BY DEF CanReplay
    <3> HIDE DEF id, replay
    <3> QED
      BY <1>3, <3>1, <3>2 DEF HandshakeAck, ToClientMsg, AckMsg
  <2> HIDE DEF id, kept, replay
  <2>5. <<HandshakeAck(id, TRUE, ~replay)>> \in Seq(ToClientMsg)
    BY <2>4, SingletonSeq
  <2>6. <<HandshakeAck(id, TRUE, ~replay)>> \o EventMessages(kept) \in Seq(ToClientMsg)
    BY <2>3, <2>5, ConcatProperties
  <2>7. toClient' = SafeSend(s, <<HandshakeAck(id, TRUE, ~replay)>> \o EventMessages(kept))
    BY <1>1 DEF id, kept, replay
  <2> QED
    BY <2>6, <2>7, SafeSendType DEF TypeOK
<1>8. toServer' \in [Sock -> Seq(ToServerMsg)]
  BY <1>4, ToServerHead DEF SocketInv
<1> HIDE DEF id, buf
<1>9. /\ connWs' = [connWs EXCEPT ![id] = s]
      /\ eventBuffer' = [eventBuffer EXCEPT ![id] = buf]
      /\ clients' = clients \union {id}
      /\ closeHandler' = [closeHandler EXCEPT ![s] = id]
  BY <1>1 DEF id, buf
<1>10. TypeOK'
  BY <1>3, <1>4, <1>5, <1>6, <1>7, <1>8, <1>9, SockFacts
     DEF TypeOK, clientVars, historyVars
<1>11. SocketInv'
  BY <1>4 DEF TypeOK, SocketInv, clientVars
<1>12. BufferInv'
  <2>1. eventBuffer[id] \in Seq(BufferedEvent)
    BY <1>3 DEF TypeOK
  <2>2. PICK k \in 0..Len(eventBuffer[id]) :
          buf = Drop(eventBuffer[id], k) /\ Len(eventBuffer[id]) - k <= EVENT_BUFFER_MAX_SIZE
    BY <2>1, EvictFacts DEF buf
  <2>3. /\ Len(buf) = Len(eventBuffer[id]) - k
        /\ \A j \in 1..(Len(eventBuffer[id]) - k) : buf[j] = eventBuffer[id][k + j]
        /\ Len(eventBuffer[id]) \in Nat
    BY <2>1, <2>2, DropFacts, LenProperties
  <2>4. \A j \in 1..Len(buf) : buf[j].seq = lastSentSeq[id] - Len(buf) + j
    <3> TAKE j \in 1..Len(buf)
    <3>1. k + j \in 1..Len(eventBuffer[id]) /\ buf[j] = eventBuffer[id][k + j]
      BY <2>3
    <3>2. eventBuffer[id][k + j].seq = lastSentSeq[id] - Len(eventBuffer[id]) + (k + j)
      BY <1>3, <3>1 DEF BufferInv
    <3>3. lastSentSeq[id] \in Nat
      BY <1>3 DEF TypeOK
    <3> QED
      BY <2>3, <3>1, <3>2, <3>3
  <2> QED
    BY <1>3, <1>4, <1>9, <2>2, <2>3, <2>4 DEF BufferInv, TypeOK
<1>13. id \notin clients /\ handshake[id] = "completed"
  BY <1>2 DEF PlacesInv, HandlerInv, id
<1>14. HandlerInv'
  <2>1. ASSUME NEW x \in Sock, NEW j \in 1..Len(disconnectedClients'),
               disconnectedClients'[j] = x
        PROVE  handshake'[x] = "completed"
    <3>1. PICK k \in 1..Len(disconnectedClients) : disconnectedClients[k] = x
      BY <1>moved, <2>1
    <3>2. handshake[x] = "completed"
      BY <3>1 DEF HandlerInv
    <3> QED
      BY <1>4, <3>2 DEF TypeOK
  <2>2. \A x \in Sock : x \in clients' => handshake'[x] = "completed"
    BY <1>3, <1>4, <1>9, <1>13 DEF HandlerInv, TypeOK
  <2>3. ASSUME NEW t \in Sock
        PROVE  /\ serverEnd'[t] = "none" => handshake'[t] = "none" /\ closeHandler'[t] = None
               /\ serverEnd'[t] = "open" /\ closeHandler'[t] # None =>
                    closeHandler'[t] \in clients' /\ connWs'[closeHandler'[t]] = t
    <3>1. CASE t = s
      BY <1>3, <1>4, <1>9, <3>1 DEF HandlerInv, TypeOK
    <3>2. CASE t # s
      <4>1. /\ serverEnd'[t] = serverEnd[t] /\ handshake'[t] = handshake[t]
            /\ closeHandler'[t] = closeHandler[t]
        BY <1>4, <1>9, <3>2 DEF TypeOK
      <4>2. serverEnd[t] = "none" => handshake[t] = "none" /\ closeHandler[t] = None
        BY DEF HandlerInv
      <4>3. ASSUME serverEnd[t] = "open", closeHandler[t] # None
            PROVE  closeHandler[t] \in clients' /\ connWs'[closeHandler[t]] = t
        <5>1. closeHandler[t] \in clients /\ connWs[closeHandler[t]] = t
          BY <4>3 DEF HandlerInv
        <5>2. closeHandler[t] # id
          BY <1>13, <5>1
        <5>3. closeHandler[t] \in Sock
          BY <5>1 DEF TypeOK
        <5>4. connWs'[closeHandler[t]] = connWs[closeHandler[t]]
          BY <1>9, <5>2, <5>3 DEF TypeOK
        <5> QED
          BY <1>9, <5>1, <5>4
      <4> QED
        BY <4>1, <4>2, <4>3
    <3> QED
      BY <3>1, <3>2
  <2> QED
    BY <2>1, <2>2, <2>3 DEF HandlerInv
<1>15. PlacesInv'
  <2>1. \A j \in 1..Len(disconnectedClients') : \E k \in 1..Len(disconnectedClients) :
          /\ disconnectedClients'[j] = disconnectedClients[k]
          /\ k # i
          /\ k = IF j < i THEN j ELSE j + 1
    BY <1>moved
  <2>2. \A k \in 1..Len(disconnectedClients) : k # i => disconnectedClients[k] # id
    BY <1>2 DEF PlacesInv, id
  <2>3. \A j \in 1..Len(disconnectedClients') : disconnectedClients'[j] \notin clients'
    BY <1>9, <2>1, <2>2 DEF PlacesInv
  <2>4. \A j, l \in 1..Len(disconnectedClients') :
          disconnectedClients'[j] = disconnectedClients'[l] => j = l
    <3> TAKE j, l \in 1..Len(disconnectedClients')
    <3>1. PICK k \in 1..Len(disconnectedClients) :
            disconnectedClients'[j] = disconnectedClients[k] /\ k = IF j < i THEN j ELSE j + 1
      BY <2>1
    <3>2. PICK m \in 1..Len(disconnectedClients) :
            disconnectedClients'[l] = disconnectedClients[m] /\ m = IF l < i THEN l ELSE l + 1
      BY <2>1
    <3>3. disconnectedClients'[j] = disconnectedClients'[l] => k = m
      BY <3>1, <3>2 DEF PlacesInv
    <3> QED
      BY <1>2, <1>3, <1>5, <3>1, <3>2, <3>3
  <2> QED
    BY <2>3, <2>4 DEF PlacesInv
<1> QED
  BY <1>10, <1>11, <1>12, <1>14, <1>15

\* A new client has an id that no map and no listener has.
LEMMA CompleteFreshStep == ASSUME IInv, NEW s \in Sock, CompleteFresh(s) PROVE IInv'
<1> USE DEF IInv, CompleteFresh, clientVars, historyVars
<1>1. toServer' \in [Sock -> Seq(ToServerMsg)]
  BY ToServerHead DEF SocketInv
<1>2. toClient' \in [Sock -> Seq(ToClientMsg)]
  <2>1. Len(published) \in Nat
    BY LenProperties DEF TypeOK
  <2>2. HandshakeAck(s, FALSE, FALSE) \in ToClientMsg
    BY <2>1 DEF HandshakeAck, ToClientMsg, AckMsg
  <2>3. <<HandshakeAck(s, FALSE, FALSE)>> \in Seq(ToClientMsg)
    BY <2>2, SingletonSeq
  <2> QED
    BY <2>3, SafeSendType DEF TypeOK
<1>3. socketWindow[s] \in Window
  BY DEF SocketInv
<1>4. /\ connWs' \in [Sock -> SockOrNone]
      /\ connWorkspace' \in [Sock -> Workspace \union {None}]
      /\ connWindow' \in [Sock -> Window \union {None}]
      /\ closeHandler' \in [Sock -> SockOrNone]
      /\ eventBuffer' \in [Sock -> Seq(BufferedEvent)]
      /\ lastAckedSeq' \in [Sock -> Nat] /\ lastSentSeq' \in [Sock -> Nat]
      /\ clients' \in SUBSET Sock
  BY <1>3, SockFacts, HomeWorkspaces, EmptySeq DEF TypeOK
<1>5. TypeOK'
  BY <1>1, <1>2, <1>4 DEF TypeOK
<1>6. SocketInv'
  BY DEF TypeOK, SocketInv
<1>7. BufferInv'
  <2>1. Len(<<>>) = 0
    BY EmptySeq
  <2>2. ASSUME NEW id \in Sock, id # s
        PROVE  eventBuffer'[id] = eventBuffer[id] /\ lastSentSeq'[id] = lastSentSeq[id]
    BY <2>2 DEF TypeOK
  <2>3. eventBuffer'[s] = <<>> /\ lastSentSeq'[s] = 0
    BY DEF TypeOK
  <2> QED
    BY <2>1, <2>2, <2>3, BufferSizes DEF BufferInv
<1>8. s \notin clients /\ \A i \in 1..Len(disconnectedClients) : disconnectedClients[i] # s
  BY DEF HandlerInv
<1>9. HandlerInv'
  <2>1. ASSUME NEW t \in Sock
        PROVE  /\ serverEnd'[t] = "none" => handshake'[t] = "none" /\ closeHandler'[t] = None
               /\ serverEnd'[t] = "open" /\ closeHandler'[t] # None =>
                    closeHandler'[t] \in clients' /\ connWs'[closeHandler'[t]] = t
    <3>1. CASE t = s
      BY <3>1 DEF HandlerInv, TypeOK
    <3>2. CASE t # s
      BY <1>8, <3>2 DEF HandlerInv, TypeOK
    <3> QED
      BY <3>1, <3>2
  <2> QED
    BY <2>1 DEF HandlerInv, TypeOK
<1>10. PlacesInv'
  BY <1>8 DEF PlacesInv
<1> QED
  BY <1>5, <1>6, <1>7, <1>9, <1>10

\* A message after the handshake leaves the queues well-typed, and awaited
\* envelopes in place.
LEMMA IncomingFacts ==
  ASSUME IInv, NEW s \in Sock, NEW id \in Sock, NEW type, Incoming(s, id, type)
  PROVE  /\ Head(toServer[s]) \in ToServerMsg /\ Head(toServer[s]).type = type
         /\ toServer' \in [Sock -> Seq(ToServerMsg)]
         /\ \A t \in Sock : handshake[t] = "auth" => toServer'[t] # <<>>
<1>1. /\ handshake[s] = "completed" /\ toServer[s] # <<>>
      /\ Head(toServer[s]).type = type
      /\ toServer' = [toServer EXCEPT ![s] = Tail(@)]
  BY DEF Incoming
<1>2. Head(toServer[s]) \in ToServerMsg /\ toServer' \in [Sock -> Seq(ToServerMsg)]
  BY <1>1, ToServerHead DEF IInv
<1>3. \A t \in Sock : handshake[t] = "auth" => toServer'[t] # <<>>
  BY <1>1 DEF IInv, SocketInv, TypeOK
<1> QED
  BY <1>1, <1>2, <1>3

\* An acknowledgement drops a prefix of the buffer.
LEMMA OnSequenceAckStep == ASSUME IInv, NEW s \in Sock, OnSequenceAck(s) PROVE IInv'
<1> USE DEF IInv
<1> DEFINE ackSeq == Head(toServer[s]).lastSeq
           acked(buf) == PrefixLength({i \in 1..Len(buf) : buf[i].seq <= ackSeq})
<1>1. PICK id \in Sock :
        LET newer == ackSeq > lastAckedSeq[id]
        IN /\ Incoming(s, id, "sequence_ack")
           /\ lastAckedSeq' = [lastAckedSeq EXCEPT ![id] = IF newer THEN ackSeq ELSE @]
           /\ eventBuffer' = [eventBuffer EXCEPT ![id] = IF newer THEN Drop(@, acked(@)) ELSE @]
  BY DEF OnSequenceAck
<1>2. UNCHANGED <<connWs, connWorkspace, connWindow, lastSentSeq, mapVars, hsVars,
                  windowWorkspace, expired, restarts, clientVars, nextSock, socketWindow,
                  clientEnd, serverEnd, toClient, historyVars>>
  BY DEF OnSequenceAck
<1>3. /\ toServer' \in [Sock -> Seq(ToServerMsg)]
      /\ \A t \in Sock : handshake[t] = "auth" => toServer'[t] # <<>>
  BY <1>1, IncomingFacts
<1>4. ackSeq \in Nat
  <2>1. Head(toServer[s]) \in ToServerMsg /\ Head(toServer[s]).type = "sequence_ack"
    BY <1>1, IncomingFacts
  <2> QED
    BY <2>1 DEF ToServerMsg, HandshakeMsg, SequenceAckMsg, SwitchMsg
<1> DEFINE old == eventBuffer[id]
<1>types. /\ lastAckedSeq' \in [Sock -> Nat]
      /\ eventBuffer' = [eventBuffer EXCEPT ![id] =
           IF ackSeq > lastAckedSeq[id] THEN Drop(old, acked(old)) ELSE old]
  BY <1>1, <1>4 DEF TypeOK
<1>5. old \in Seq(BufferedEvent) /\ Len(old) \in Nat
  BY LenProperties DEF TypeOK
<1>6. acked(old) \in 0..Len(old)
  BY <1>5, PrefixLengthFacts
<1> HIDE DEF old, acked, ackSeq
<1>7. PICK k \in 0..Len(old) : eventBuffer' = [eventBuffer EXCEPT ![id] = Drop(old, k)]
  <2>1. CASE ackSeq > lastAckedSeq[id]
    BY <1>types, <1>6, <2>1
  <2>2. CASE ~(ackSeq > lastAckedSeq[id])
    <3>1. Drop(old, 0) = old
      BY <1>5, SubSeqFull DEF Drop
    <3>2. eventBuffer' = [eventBuffer EXCEPT ![id] = Drop(old, 0)]
      BY <1>types, <2>2, <3>1
    <3>3. 0 \in 0..Len(old)
      BY <1>5
    <3> QED
      BY <3>2, <3>3, Zenon
  <2> QED
    BY <2>1, <2>2
<1>8. /\ Drop(old, k) \in Seq(BufferedEvent)
      /\ Len(Drop(old, k)) = Len(old) - k
      /\ \A i \in 1..(Len(old) - k) : Drop(old, k)[i] = old[k + i]
  BY <1>5, DropFacts
<1>9. TypeOK'
  <2>1. eventBuffer' \in [Sock -> Seq(BufferedEvent)]
    BY <1>7, <1>8 DEF TypeOK
  <2> QED
    BY <1>2, <1>3, <1>types, <2>1 DEF TypeOK, mapVars, hsVars, clientVars, historyVars
<1>10. BufferInv'
  <2>1. \A i \in 1..Len(Drop(old, k)) :
          Drop(old, k)[i].seq = lastSentSeq[id] - Len(Drop(old, k)) + i
    <3> TAKE i \in 1..Len(Drop(old, k))
    <3>1. k + i \in 1..Len(old) /\ Drop(old, k)[i] = old[k + i]
      BY <1>5, <1>8
    <3>2. old[k + i].seq = lastSentSeq[id] - Len(old) + (k + i)
      BY <3>1 DEF BufferInv, old
    <3>3. lastSentSeq[id] \in Nat
      BY DEF TypeOK
    <3> QED
      BY <1>5, <1>8, <3>1, <3>2, <3>3
  <2>2. Len(Drop(old, k)) <= EVENT_BUFFER_MAX_SIZE
    BY <1>5, <1>8, BufferSizes DEF BufferInv, old
  <2>3. ASSUME NEW x \in Sock
        PROVE  eventBuffer'[x] = IF x = id THEN Drop(old, k) ELSE eventBuffer[x]
    BY <1>7 DEF TypeOK
  <2> QED
    BY <1>2, <2>1, <2>2, <2>3 DEF BufferInv
<1>11. SocketInv' /\ HandlerInv' /\ PlacesInv'
  BY <1>2, <1>3 DEF SocketInv, HandlerInv, PlacesInv, mapVars, hsVars, clientVars
<1> QED
  BY <1>9, <1>10, <1>11

\* Switching changes where events are routed, and nothing retained.
LEMMA OnSwitchWorkspaceStep ==
  ASSUME IInv, NEW s \in Sock, OnSwitchWorkspace(s) PROVE IInv'
<1> USE DEF IInv
<1>1. PICK id \in Sock :
        LET workspace == Head(toServer[s]).workspaceId
        IN /\ Incoming(s, id, "switchWorkspace")
           /\ connWorkspace' = [connWorkspace EXCEPT ![id] = workspace]
           /\ windowWorkspace' = [windowWorkspace EXCEPT ![connWindow[id]] = workspace]
  BY DEF OnSwitchWorkspace
<1>2. UNCHANGED <<connWs, connWindow, eventBuffer, lastAckedSeq, lastSentSeq, mapVars,
                  hsVars, expired, restarts, clientVars, nextSock, socketWindow,
                  clientEnd, serverEnd, toClient, historyVars>>
  BY DEF OnSwitchWorkspace
<1>3. /\ Head(toServer[s]) \in ToServerMsg /\ Head(toServer[s]).type = "switchWorkspace"
      /\ toServer' \in [Sock -> Seq(ToServerMsg)]
      /\ \A t \in Sock : handshake[t] = "auth" => toServer'[t] # <<>>
  BY <1>1, IncomingFacts
<1>4. Head(toServer[s]).workspaceId \in Workspace
  BY <1>3 DEF ToServerMsg, HandshakeMsg, SequenceAckMsg, SwitchMsg
<1>5. TypeOK'
  BY <1>1, <1>2, <1>3, <1>4 DEF TypeOK, mapVars, hsVars, clientVars, historyVars
<1>6. SocketInv' /\ BufferInv' /\ HandlerInv' /\ PlacesInv'
  BY <1>2, <1>3 DEF SocketInv, BufferInv, HandlerInv, PlacesInv, mapVars, hsVars,
                     clientVars
<1> QED
  BY <1>5, <1>6

\* The close listener runs once for a socket: the id it moves to
\* disconnectedClients was not there.
LEMMA OnCloseStep == ASSUME IInv, NEW s \in Sock, OnClose(s) PROVE IInv'
<1> USE DEF IInv
<1> DEFINE id == closeHandler[s]
           retained == Append(disconnectedClients, id)
           n == Len(disconnectedClients)
           Shifted(d) ==
             /\ Len(disconnectedClients') = n + 1 - d
             /\ \A i \in 1..(n + 1 - d) : disconnectedClients'[i] =
                  IF i + d = n + 1 THEN id ELSE disconnectedClients[i + d]
<1>1. /\ serverEnd[s] = "open"
      /\ serverEnd' = [serverEnd EXCEPT ![s] = "closed"]
      /\ toServer' = [toServer EXCEPT ![s] = IF handshake[s] = "auth" THEN @ ELSE <<>>]
      /\ IF id = None THEN UNCHANGED mapVars
         ELSE /\ clients' = clients \ {id}
              /\ disconnectedClients' =
                   IF Len(retained) > MAX_DISCONNECTED THEN Tail(retained) ELSE retained
      /\ handshake' = [handshake EXCEPT ![s] = IF @ = "waiting" THEN "none" ELSE @]
      /\ UNCHANGED <<connVars, closeHandler, windowWorkspace, expired, restarts, clientVars,
                     nextSock, socketWindow, clientEnd, toClient, historyVars>>
  BY DEF OnClose
<1>2. disconnectedClients \in Seq(Sock) /\ n \in Nat
  BY LenProperties DEF TypeOK
\* Every place of the new map is a place of the old one, or the closed client's.
<1>3. /\ disconnectedClients' \in Seq(Sock)
      /\ \/ UNCHANGED mapVars
         \/ /\ id \in clients /\ clients' = clients \ {id}
            /\ \E d \in {0, 1} : Shifted(d)
  <2>1. CASE id = None
    BY <1>1, <1>2, <2>1 DEF mapVars
  <2>2. CASE id # None
    <3>1. id \in clients /\ id \in Sock
      BY <1>1, <2>2 DEF HandlerInv, TypeOK
    <3>2. /\ retained \in Seq(Sock) /\ Len(retained) = n + 1 /\ retained # <<>>
          /\ \A i \in 1..(n + 1) : retained[i] = IF i = n + 1 THEN id ELSE disconnectedClients[i]
      BY <1>2, <3>1
    <3>3. CASE n + 1 > MAX_DISCONNECTED
      <4>1. disconnectedClients' = Tail(retained) /\ clients' = clients \ {id}
        BY <1>1, <2>2, <3>2, <3>3
      <4>2. /\ Tail(retained) \in Seq(Sock) /\ Len(Tail(retained)) = n
            /\ \A i \in 1..n : Tail(retained)[i] = retained[i + 1]
        <5> HIDE DEF retained, n
        <5>1. /\ Tail(retained) \in Seq(Sock)
              /\ Len(Tail(retained)) = Len(retained) - 1
              /\ \A i \in 1..Len(Tail(retained)) : Tail(retained)[i] = retained[i + 1]
          BY <3>2, HeadTailProperties
        <5> QED
          BY <1>2, <3>2, <5>1
      <4>3. \A i \in 1..n : disconnectedClients'[i] =
               IF i + 1 = n + 1 THEN id ELSE disconnectedClients[i + 1]
        BY <1>2, <3>2, <4>1, <4>2
      <4>4. Shifted(1)
        BY <1>2, <4>1, <4>2, <4>3
      <4> HIDE DEF Shifted
      <4> QED
        BY <3>1, <4>1, <4>2, <4>4
    <3>4. CASE ~(n + 1 > MAX_DISCONNECTED)
      <4>1. disconnectedClients' = retained /\ clients' = clients \ {id}
        BY <1>1, <2>2, <3>2, <3>4
      <4>2. Shifted(0)
        BY <1>2, <3>2, <4>1
      <4> HIDE DEF Shifted
      <4> QED
        BY <3>1, <3>2, <4>1, <4>2
    <3> QED
      BY <3>3, <3>4
  <2> QED
    BY <2>1, <2>2
<1>4. TypeOK'
  <2>1. clients' \in SUBSET Sock
    BY <1>3 DEF TypeOK, mapVars
  <2> QED
    BY <1>1, <1>3, <2>1, EmptySeq DEF TypeOK, connVars, clientVars, historyVars
<1> HIDE DEF n
<1>5. SocketInv' /\ BufferInv'
  <2>1. BufferInv'
    BY <1>1 DEF BufferInv, connVars
  <2>2. SocketInv'
    BY <1>1 DEF SocketInv, TypeOK, clientVars
  <2> QED
    BY <2>1, <2>2
<1>6. HandlerInv'
  <2>1. ASSUME NEW t \in Sock
        PROVE  /\ serverEnd'[t] = "none" => handshake'[t] = "none" /\ closeHandler'[t] = None
               /\ serverEnd'[t] = "open" /\ closeHandler'[t] # None =>
                    closeHandler'[t] \in clients' /\ connWs'[closeHandler'[t]] = t
    <3>1. CASE t = s
      BY <1>1, <3>1 DEF TypeOK
    <3>2. CASE t # s
      <4>1. serverEnd[t] = "open" /\ closeHandler[t] # None /\ id # None => closeHandler[t] # id
        BY <1>1, <3>2 DEF HandlerInv
      <4> QED
        BY <1>1, <1>3, <3>2, <4>1 DEF HandlerInv, TypeOK, connVars, mapVars
    <3> QED
      BY <3>1, <3>2
  <2>2. ASSUME NEW x \in Sock, x \in clients' PROVE handshake'[x] = "completed"
    BY <1>1, <1>3, <2>2 DEF HandlerInv, TypeOK, mapVars
  <2>3. ASSUME NEW x \in Sock, NEW j \in 1..Len(disconnectedClients'),
               disconnectedClients'[j] = x
        PROVE  handshake'[x] = "completed"
    <3>1. handshake[x] = "completed"
      <4>1. CASE UNCHANGED mapVars
        BY <2>3, <4>1 DEF HandlerInv, mapVars
      <4>2. CASE x \in clients
        BY <4>2 DEF HandlerInv
      <4>3. CASE x \notin clients /\ ~UNCHANGED mapVars
        <5>1. PICK d \in {0, 1} : Shifted(d)
          BY <1>3, <4>3
        <5>2. id \in clients
          BY <1>3, <4>3
        <5>3. j + d # n + 1 /\ j + d \in 1..n /\ disconnectedClients[j + d] = x
          BY <1>2, <2>3, <4>3, <5>1, <5>2
        <5> QED
          BY <5>3 DEF HandlerInv, n
      <4> QED
        BY <4>1, <4>2, <4>3
    <3> QED
      BY <1>1, <3>1 DEF TypeOK
  <2> QED
    BY <2>1, <2>2, <2>3 DEF HandlerInv
<1>7. PlacesInv'
  <2>1. CASE UNCHANGED mapVars
    BY <2>1 DEF PlacesInv, mapVars
  <2>2. CASE ~UNCHANGED mapVars
    <3>1. PICK d \in {0, 1} : Shifted(d)
      BY <1>3, <2>2
    <3>2. id \in clients /\ clients' = clients \ {id}
      BY <1>3, <2>2
    <3> HIDE DEF id
    <3>3. \A i \in 1..n : disconnectedClients[i] # id
      BY <3>2 DEF PlacesInv, n
    <3>4. \A i \in 1..Len(disconnectedClients') : disconnectedClients'[i] \notin clients'
      BY <1>2, <3>1, <3>2 DEF PlacesInv, n
    <3>5. ASSUME NEW i \in 1..Len(disconnectedClients'), NEW j \in 1..Len(disconnectedClients'),
                 disconnectedClients'[i] = disconnectedClients'[j]
          PROVE  i = j
      <4>1. CASE i + d # n + 1 /\ j + d # n + 1
        <5>1. /\ i + d \in 1..n /\ j + d \in 1..n
              /\ disconnectedClients[i + d] = disconnectedClients[j + d]
          BY <1>2, <3>1, <3>5, <4>1
        <5>2. i + d = j + d
          BY <5>1 DEF PlacesInv, n
        <5> QED
          BY <1>2, <3>1, <5>2
      <4>2. CASE i + d = n + 1 \/ j + d = n + 1
        <5>1. ASSUME NEW a \in 1..Len(disconnectedClients'), NEW b \in 1..Len(disconnectedClients'),
                     a + d = n + 1, b + d # n + 1
              PROVE  disconnectedClients'[a] # disconnectedClients'[b]
          <6>1. /\ b + d \in 1..n /\ disconnectedClients'[b] = disconnectedClients[b + d]
                /\ disconnectedClients'[a] = id
            BY <1>2, <3>1, <5>1
          <6> QED
            BY <3>3, <6>1
        <5>2. i + d = n + 1 /\ j + d = n + 1
          BY <3>5, <4>2, <5>1
        <5> QED
          BY <1>2, <5>2
      <4> QED
        BY <4>1, <4>2
    <3> QED
      BY <3>4, <3>5 DEF PlacesInv
  <2> QED
    BY <2>1, <2>2
<1> QED
  BY <1>4, <1>5, <1>6, <1>7

\* A timer removes one place, the others keep their order.
LEMMA DisconnectedExpiresStep == ASSUME IInv, DisconnectedExpires PROVE IInv'
<1> USE DEF IInv
<1> DEFINE n == Len(disconnectedClients)
<1>1. PICK i \in 1..n : disconnectedClients' = RemoveAt(disconnectedClients, i)
  BY DEF DisconnectedExpires
<1>2. UNCHANGED <<connVars, clients, hsVars, windowWorkspace, expired, restarts,
                  clientVars, netVars, historyVars>>
  BY DEF DisconnectedExpires
<1>3. disconnectedClients \in Seq(Sock) /\ n \in Nat
  BY LenProperties DEF TypeOK
<1>4. /\ disconnectedClients' \in Seq(Sock)
      /\ Len(disconnectedClients') = n - 1
      /\ \A j \in 1..(n - 1) : disconnectedClients'[j] =
           IF j < i THEN disconnectedClients[j] ELSE disconnectedClients[j + 1]
  BY <1>1, <1>3, RemoveAtFacts
<1>5. TypeOK'
  BY <1>2, <1>4 DEF TypeOK, connVars, hsVars, clientVars, netVars, historyVars
<1>6. SocketInv' /\ BufferInv'
  BY <1>2 DEF SocketInv, BufferInv, connVars, hsVars, clientVars, netVars
<1>7. \A j \in 1..Len(disconnectedClients') :
        LET k == IF j < i THEN j ELSE j + 1 IN
        k \in 1..n /\ disconnectedClients'[j] = disconnectedClients[k]
  BY <1>1, <1>3, <1>4
<1>8. HandlerInv'
  BY <1>2, <1>7 DEF HandlerInv, connVars, hsVars, netVars
<1>9. PlacesInv'
  <2>1. \A j \in 1..Len(disconnectedClients') : disconnectedClients'[j] \notin clients'
    BY <1>2, <1>7 DEF PlacesInv
  <2>2. ASSUME NEW j \in 1..Len(disconnectedClients'), NEW l \in 1..Len(disconnectedClients'),
               disconnectedClients'[j] = disconnectedClients'[l]
        PROVE  j = l
    <3>1. (IF j < i THEN j ELSE j + 1) = (IF l < i THEN l ELSE l + 1)
      BY <1>7, <2>2 DEF PlacesInv
    <3> QED
      BY <1>1, <1>3, <1>4, <3>1
  <2> QED
    BY <2>1, <2>2 DEF PlacesInv
<1> QED
  BY <1>5, <1>6, <1>8, <1>9

\* A new server process starts with empty maps.
LEMMA RestartStep == ASSUME IInv, Restart PROVE IInv'
<1> USE DEF IInv, connVars, clientVars, historyVars
<1>1. /\ <<>> \in Seq(Sock) /\ <<>> \in Seq(ToServerMsg) /\ Len(<<>>) = 0
  BY EmptySeq
<1>2. /\ serverEnd' \in [Sock -> {"none", "open", "closed"}]
      /\ toServer' \in [Sock -> Seq(ToServerMsg)]
      /\ closeHandler' \in [Sock -> SockOrNone]
      /\ handshake' \in [Sock -> {"none", "waiting", "auth", "completed"}]
      /\ clients' \in SUBSET Sock /\ disconnectedClients' \in Seq(Sock)
      /\ restarts' \in Nat
  BY <1>1, SockFacts DEF TypeOK, Restart
<1>3. UNCHANGED <<connVars, windowWorkspace, expired, clientVars, nextSock, socketWindow,
                  clientEnd, toClient, historyVars>>
  BY DEF Restart
<1>4. TypeOK'
  BY <1>2, <1>3 DEF TypeOK
<1>5. SocketInv' /\ BufferInv'
  BY <1>3 DEF Restart, SocketInv, BufferInv
<1>6. HandlerInv' /\ PlacesInv'
  BY <1>1 DEF Restart, HandlerInv, PlacesInv
<1> QED
  BY <1>4, <1>5, <1>6

-----------------------------------------------------------------------------
(* The steps of the clients: they leave the server's state alone *)

\* What a client's step must keep for the invariant to go on holding.
LEMMA ClientStepInv ==
  ASSUME IInv, TypeOK', SocketInv', UNCHANGED <<serverVars, serverEnd>>
  PROVE  IInv'
BY DEF IInv, BufferInv, HandlerInv, PlacesInv, serverVars, connVars, mapVars, hsVars

\* connect() takes a socket that nothing refers to yet.
LEMMA ConnectStep == ASSUME IInv, NEW w \in Window, Connect(w) PROVE IInv'
<1> USE DEF IInv, Connect, historyVars
<1>1. nextSock \in Sock /\ nextSock + 1 \in 1..(MaxSock + 1)
  BY Bounds DEF TypeOK, Sock
<1>2. toClient' \in [Sock -> Seq(ToClientMsg)]
  BY EmptySeq DEF TypeOK
<1>3. /\ ws' \in [Window -> SockOrNone]
      /\ socketWindow' \in [Sock -> Window \union {None}]
      /\ clientEnd' \in [Sock -> {"none", "connecting", "open", "closed"}]
  BY <1>1, SockFacts DEF TypeOK
<1>4. TypeOK'
  BY <1>1, <1>2, <1>3 DEF TypeOK, serverVars, connVars, mapVars, hsVars
<1>5. SocketInv'
  <2>1. ASSUME NEW s \in Sock
        PROVE  socketWindow'[s] \in Window \/ (clientEnd'[s] = "none" /\ handshake'[s] = "none")
    <3>1. CASE s = nextSock
      BY <3>1 DEF TypeOK
    <3>2. CASE s # nextSock /\ s = ws[w]
      BY <3>2 DEF TypeOK, SocketInv
    <3>3. CASE s # nextSock /\ s # ws[w]
      BY <3>3 DEF TypeOK, SocketInv, serverVars, hsVars
    <3> QED
      BY <3>1, <3>2, <3>3
  <2>2. ASSUME NEW x \in Window, NEW s \in Sock, ws'[x] = s
        PROVE  socketWindow'[s] = x /\ s < nextSock'
    <3>1. CASE x = w
      BY <1>1, <2>2, <3>1 DEF TypeOK
    <3>2. CASE x # w
      BY <1>1, <2>2, <3>2 DEF TypeOK, SocketInv
    <3> QED
      BY <3>1, <3>2
  <2> QED
    BY <2>1, <2>2 DEF SocketInv, serverVars, hsVars
<1> QED
  BY <1>4, <1>5, ClientStepInv

\* The client sends its handshake.
LEMMA OnOpenStep == ASSUME IInv, NEW w \in Window, OnOpen(w) PROVE IInv'
<1> USE DEF IInv, OnOpen, historyVars
<1> DEFINE s == ws[w]
           msg == [type |-> "handshake", reconnect |-> pendingReconnect[w]]
<1>1. s \in Sock
  BY SockFacts DEF TypeOK
<1>2. msg \in ToServerMsg
  BY DEF TypeOK, ToServerMsg, HandshakeMsg
<1>3. /\ toServer' \in [Sock -> Seq(ToServerMsg)]
      /\ \A t \in Sock : toServer[t] # <<>> => toServer'[t] # <<>>
  BY <1>2, ClientSendType DEF TypeOK
<1>4. TypeOK'
  BY <1>1, <1>3 DEF TypeOK, serverVars, connVars, mapVars, hsVars
<1>5. SocketInv'
  <2>1. SocketInv /\ UNCHANGED <<ws, socketWindow, nextSock, handshake>>
    BY DEF serverVars, hsVars
  <2>2. \A t \in Sock : clientEnd[t] = "none" => clientEnd'[t] = "none"
    BY <1>1 DEF TypeOK
  <2> HIDE DEF IInv, OnOpen, historyVars, s, msg
  <2> QED
    BY <1>3, <2>1, <2>2 DEF SocketInv
<1> QED
  BY <1>4, <1>5, ClientStepInv

\* What Receive takes is a message of the type asked for.
LEMMA ReceiveFacts ==
  ASSUME IInv, NEW w \in Window, NEW type, Receive(w, type)
  PROVE  /\ Head(toClient[ws[w]]) \in ToClientMsg /\ Head(toClient[ws[w]]).type = type
         /\ toClient' \in [Sock -> Seq(ToClientMsg)]
<1>1. ws[w] \in Sock /\ toClient[ws[w]] # <<>>
  BY SockFacts DEF IInv, TypeOK, Receive
<1> QED
  BY <1>1, ToClientHead DEF IInv, Receive

\* The client takes the id and the numbers of the acknowledgement.
LEMMA OnHandshakeAckStep == ASSUME IInv, NEW w \in Window, OnHandshakeAck(w) PROVE IInv'
<1> USE DEF IInv, OnHandshakeAck
<1> DEFINE ack == Head(toClient[ws[w]])
<1>1. /\ ack \in ToClientMsg /\ ack.type = "handshake_ack"
      /\ toClient' \in [Sock -> Seq(ToClientMsg)]
  BY ReceiveFacts
<1>2. ack.clientId \in SockOrNone /\ ack.upto \in Nat
  BY <1>1, SockFacts DEF ToClientMsg, AckMsg, EventMsg
<1> HIDE DEF ack
<1>3. /\ clientId' \in [Window -> SockOrNone]
      /\ lastSeenSeq' \in [Window -> Nat]
      /\ pendingReconnect' \in [Window -> ReconnectInfo]
      /\ currentHandshakeWasReconnect' \in [Window -> BOOLEAN]
      /\ notice' \in [Window -> {"none", "first", "event", "stale", "replayed"}]
      /\ known' \in [Window -> Nat]
  BY <1>2, SockFacts DEF TypeOK, ack, NoReconnect, ReconnectInfo, SeenAfter
<1>4. TypeOK'
  BY <1>1, <1>3 DEF TypeOK, serverVars, connVars, mapVars, hsVars
<1>5. SocketInv'
  BY DEF SocketInv, serverVars, hsVars
<1> QED
  BY <1>4, <1>5, ClientStepInv

\* The client notes the number of the event.
LEMMA OnEventStep == ASSUME IInv, NEW w \in Window, OnEvent(w) PROVE IInv'
<1> USE DEF IInv, OnEvent
<1> DEFINE event == Head(toClient[ws[w]])
<1>1. /\ event \in ToClientMsg /\ event.type = "event"
      /\ toClient' \in [Sock -> Seq(ToClientMsg)]
  BY ReceiveFacts
<1>2. event.seq \in Nat /\ event.ev \in Nat
  BY <1>1 DEF ToClientMsg, AckMsg, EventMsg
<1>3. TypeOK'
  BY <1>1, <1>2 DEF TypeOK, serverVars, connVars, mapVars, hsVars
<1>4. SocketInv'
  BY DEF SocketInv, serverVars, hsVars
<1> QED
  BY <1>3, <1>4, ClientStepInv

\* The client keeps what it will ask to resume.
LEMMA OnDisconnectStep == ASSUME IInv, NEW w \in Window, OnDisconnect(w) PROVE IInv'
<1> USE DEF IInv, OnDisconnect, historyVars
<1>1. ws[w] \in Sock
  BY SockFacts DEF TypeOK
<1>2. toClient' \in [Sock -> Seq(ToClientMsg)]
  BY EmptySeq DEF TypeOK
<1>3. pendingReconnect' \in [Window -> ReconnectInfo]
  BY DEF TypeOK, ReconnectInfo
<1>4. TypeOK'
  BY <1>1, <1>2, <1>3, SockFacts DEF TypeOK, serverVars, connVars, mapVars, hsVars
<1>5. SocketInv'
  BY <1>1, SockFacts DEF TypeOK, SocketInv, serverVars, hsVars
<1> QED
  BY <1>4, <1>5, ClientStepInv

\* A message of a connected client touches only the queue to the server.
LEMMA SendMessageStep ==
  ASSUME IInv, NEW w \in Window, NEW msg \in ToServerMsg, SendMessage(w, msg),
         switches' \in Nat
  PROVE  IInv'
<1> USE DEF IInv, SendMessage, historyVars
<1>1. /\ toServer' \in [Sock -> Seq(ToServerMsg)]
      /\ \A t \in Sock : toServer[t] # <<>> => toServer'[t] # <<>>
  BY ClientSendType DEF TypeOK
<1>2. TypeOK'
  BY <1>1 DEF TypeOK, serverVars, connVars, mapVars, hsVars
<1>3. SocketInv'
  BY <1>1 DEF SocketInv, serverVars, hsVars
<1> QED
  BY <1>2, <1>3, ClientStepInv

\* The ack timer is such a message.
LEMMA SendSequenceAckStep == ASSUME IInv, NEW w \in Window, SendSequenceAck(w) PROVE IInv'
<1>1. [type |-> "sequence_ack", lastSeq |-> lastSeenSeq[w]] \in ToServerMsg
  BY DEF IInv, TypeOK, ToServerMsg, SequenceAckMsg
<1> QED
  BY <1>1, SendMessageStep DEF SendSequenceAck, IInv, TypeOK

\* A workspace switch is such a message.
LEMMA SwitchWorkspaceStep ==
  ASSUME IInv, NEW w \in Window, NEW x \in Workspace, SwitchWorkspace(w, x) PROVE IInv'
<1>1. [type |-> "switchWorkspace", workspaceId |-> x] \in ToServerMsg
  BY DEF ToServerMsg, SwitchMsg
<1>2. switches' \in Nat
  BY DEF SwitchWorkspace, IInv, TypeOK
<1> QED
  BY <1>1, <1>2, SendMessageStep DEF SwitchWorkspace

-----------------------------------------------------------------------------
(* The theorems *)

\* The invariant is inductive: one step of the proof for each action.
LEMMA NextInv == IInv /\ [Next]_vars => IInv'
<1> SUFFICES ASSUME IInv, [Next]_vars PROVE IInv'
  OBVIOUS
<1>1. CASE ServerNext
  BY <1>1, PushStep, EventsAgeStep, DisconnectedExpiresStep, RestartStep,
     OnConnectionStep, OnHandshakeStep, RejectHandshakeStep, CompleteReconnectStep,
     CompleteFreshStep, OnSequenceAckStep, OnSwitchWorkspaceStep, OnCloseStep
     DEF ServerNext
<1>2. CASE ClientNext
  BY <1>2, ConnectStep, OnOpenStep, OnHandshakeAckStep, OnEventStep, OnDisconnectStep,
     SendSequenceAckStep, SwitchWorkspaceStep DEF ClientNext
<1>3. CASE UNCHANGED vars
  <2> USE <1>3 DEF vars, serverVars, connVars, mapVars, hsVars, clientVars, netVars,
          historyVars
  <2>1. TypeOK'
    BY DEF IInv, TypeOK
  <2>2. SocketInv' /\ BufferInv'
    BY DEF IInv, SocketInv, BufferInv
  <2>3. HandlerInv' /\ PlacesInv'
    BY DEF IInv, HandlerInv, PlacesInv
  <2> QED
    BY <2>1, <2>2, <2>3 DEF IInv
<1> QED
  BY <1>1, <1>2, <1>3 DEF Next

\* The invariant holds in every state of every behaviour.
LEMMA Invariance == Spec => []IInv
BY InitInv, NextInv, PTL DEF Spec

\* Every variable keeps its type, for any number of windows, sockets and events.
THEOREM TypeCorrect == Spec => []TypeOK
<1>1. IInv => TypeOK
  BY DEF IInv
<1> QED
  BY <1>1, Invariance, PTL

\* The replay buffer of a connected or retained client is always the end of its
\* stream of events, without a gap and within the limit: a reconnection can
\* decide from its first entry alone whether nothing is missing.
THEOREM BuffersAreSuffixes == Spec => []BufferIsSuffix
<1>1. IInv => BufferIsSuffix
  <2> SUFFICES ASSUME IInv, NEW id \in Retained
               PROVE  LET buf == eventBuffer[id] IN
                      /\ Len(buf) <= EVENT_BUFFER_MAX_SIZE
                      /\ \A i \in 1..Len(buf) : buf[i].seq = lastSentSeq[id] - Len(buf) + i
    BY DEF BufferIsSuffix
  <2>1. id \in Sock
    <3>1. clients \subseteq Sock /\ disconnectedClients \in Seq(Sock)
      BY DEF IInv, TypeOK
    <3>2. \A i \in 1..Len(disconnectedClients) : disconnectedClients[i] \in Sock
      BY <3>1, ElementOfSeq
    <3> QED
      BY <3>1, <3>2 DEF Retained, Elements
  <2> QED
    BY <2>1 DEF IInv, BufferInv
<1> QED
  BY <1>1, Invariance, PTL

\* No client id is ever both connected and retained for reconnection, or
\* retained twice: one push numbers an event for it once.
THEOREM ClientsHaveOneHome == Spec => []OneHome
<1>1. IInv => OneHome
  BY DEF IInv, PlacesInv, OneHome, Elements
<1> QED
  BY <1>1, Invariance, PTL

-----------------------------------------------------------------------------
(* The inductive invariant: sockets and windows *)

\* The window has an acknowledgement to read.
AckWaits(w) == ~Connected(w) /\ ws[w] # None /\ toClient[ws[w]] # <<>>
Ack(w) == toClient[ws[w]][1]

\* The handshake of that socket was taken up, and is over.
Born(id) == serverEnd[id] # "none" /\ handshake[id] \in {"none", "completed"}

\* A socket in use at the client's end is its window's, and nothing is sent to it
\* before its handshake is completed; until then it carries a handshake alone. A
\* close listener is that of the client whose socket it is.
SockOK(s) ==
  /\ toServer[s] # <<>> => clientEnd[s] \in {"open", "closed"} /\ serverEnd[s] # "none"
  /\ handshake[s] \in {"auth", "completed"} => clientEnd[s] \in {"open", "closed"}
  /\ clientEnd[s] \in {"connecting", "open"} => ws[socketWindow[s]] = s
  /\ toClient[s] # <<>> => clientEnd[s] = "open"
  /\ handshake[s] \in {"waiting", "auth"} \/ serverEnd[s] = "none" => toClient[s] = <<>>
  /\ s >= nextSock => clientEnd[s] = "none"

HandshakeOK(s) ==
  handshake[s] # "completed" =>
    Len(toServer[s]) <= 1 /\ \A i \in 1..Len(toServer[s]) : toServer[s][i].type = "handshake"

ListenerOK(s) ==
  /\ closeHandler[s] # None =>
       handshake[s] = "completed" /\ handshake[closeHandler[s]] = "completed"
  /\ s \in clients => connWs[s] \in Sock /\ closeHandler[connWs[s]] = s

\* A connected window is the client of its socket, and its queue holds events; one
\* that is not has nothing in its queue, or an acknowledgement before events. What
\* its handshake asks for is what it lost.
ConnectedOK(w) ==
  Connected(w) =>
    /\ ws[w] # None /\ clientEnd[ws[w]] = "open" /\ Born(ws[w])
    /\ pendingReconnect[w] = NoReconnect
    /\ \A i \in 1..Len(toClient[ws[w]]) : toClient[ws[w]][i].type = "event"
    /\ serverEnd[ws[w]] = "open" => closeHandler[ws[w]] = clientId[w]

AckOK(w) ==
  AckWaits(w) =>
    /\ Ack(w).type = "handshake_ack"
    /\ Ack(w).reconnected => pendingReconnect[w].clientId = Ack(w).clientId
    /\ \A i \in 2..Len(toClient[ws[w]]) : toClient[ws[w]][i].type = "event"
    /\ serverEnd[ws[w]] = "open" => closeHandler[ws[w]] = Ack(w).clientId
    /\ currentHandshakeWasReconnect[w] = (pendingReconnect[w] # NoReconnect)

ConnectingOK(w) ==
  /\ ws[w] # None => clientEnd[ws[w]] \in {"connecting", "open"}
  /\ ~Connected(w) /\ ws[w] # None /\ toClient[ws[w]] = <<>> /\ serverEnd[ws[w]] = "open" =>
       handshake[ws[w]] # "completed"
  /\ ws[w] # None /\ handshake[ws[w]] \in {"waiting", "auth"} /\ toServer[ws[w]] # <<>> =>
       /\ toServer[ws[w]][1].reconnect = pendingReconnect[w]
       /\ currentHandshakeWasReconnect[w] = (pendingReconnect[w] # NoReconnect)
  /\ ~Connected(w) =>
       IF pendingReconnect[w].clientId = None THEN pendingReconnect[w] = NoReconnect
       ELSE pendingReconnect[w].lastSeq = lastSeenSeq[w]

NetInv ==
  /\ \A s \in Sock : SockOK(s) /\ HandshakeOK(s) /\ ListenerOK(s)
  /\ \A w \in Window : ConnectedOK(w) /\ AckOK(w) /\ ConnectingOK(w)

LEMMA InitNet == Init => NetInv
<1> SUFFICES ASSUME Init PROVE NetInv
  OBVIOUS
<1>1. Len(<<>>) = 0
  BY EmptySeq
<1>2. ASSUME NEW s \in Sock PROVE SockOK(s) /\ HandshakeOK(s) /\ ListenerOK(s)
  BY <1>1 DEF Init, SockOK, HandshakeOK, ListenerOK
<1>3. ASSUME NEW w \in Window PROVE ConnectedOK(w) /\ AckOK(w) /\ ConnectingOK(w)
  BY DEF Init, ConnectedOK, AckOK, ConnectingOK, Connected, AckWaits, NoReconnect
<1> QED
  BY <1>2, <1>3 DEF NetInv

\* A step that leaves the sockets, the listeners and the windows alone.
LEMMA NetSame ==
  ASSUME NetInv, UNCHANGED <<toServer, toClient, clientEnd, serverEnd, handshake, closeHandler,
            clients, connWs, ws, socketWindow, nextSock, clientVars>>
  PROVE  NetInv'
BY DEF NetInv, SockOK, HandshakeOK, ListenerOK, ConnectedOK, AckOK, ConnectingOK, Connected,
   AckWaits, Ack, Born, clientVars

LEMMA EventsAgeNet == ASSUME NetInv, EventsAge PROVE NetInv'
BY NetSame DEF EventsAge, connVars, mapVars, hsVars, clientVars, netVars
LEMMA DisconnectedExpiresNet == ASSUME NetInv, DisconnectedExpires PROVE NetInv'
BY NetSame DEF DisconnectedExpires, connVars, hsVars, clientVars, netVars

\* The socket of a window is a socket of that window.
LEMMA WindowSocket ==
  ASSUME IInv, NEW w \in Window
  PROVE  /\ ws[w] # None => ws[w] \in Sock /\ socketWindow[ws[w]] = w
         /\ Connected(w) => clientId[w] \in Sock
<1>1. ws[w] \in SockOrNone /\ clientId[w] \in SockOrNone
  BY DEF IInv, TypeOK
<1>2. \A s \in Sock : ws[w] = s => socketWindow[s] = w
  BY DEF IInv, SocketInv
<1> QED
  BY <1>1, <1>2, SockFacts DEF Connected

LEMMA OnConnectionNet == ASSUME IInv, NetInv, NEW s \in Sock, OnConnection(s) PROVE NetInv'
<1>1. /\ serverEnd[s] = "none" /\ serverEnd'[s] \in {"open", "closed"} /\ clientEnd[s] = "connecting"
      /\ handshake[s] = "none" /\ handshake'[s] \in {"none", "waiting"}
      /\ \A t \in Sock : t # s => serverEnd'[t] = serverEnd[t] /\ handshake'[t] = handshake[t]
      /\ UNCHANGED <<connVars, mapVars, closeHandler, clientVars, nextSock, socketWindow, clientEnd,
                     toServer, toClient>>
  BY DEF OnConnection, HandlerInv, IInv, TypeOK
<1>2. SockOK(s) /\ toServer[s] = <<>> /\ toClient[s] = <<>>
  BY <1>1 DEF NetInv, SockOK
<1>3. ASSUME NEW t \in Sock PROVE SockOK(t)' /\ HandshakeOK(t)' /\ ListenerOK(t)'
  <2>1. SockOK(t) /\ HandshakeOK(t) /\ ListenerOK(t) /\ closeHandler[t] \in SockOrNone
    BY DEF NetInv, IInv, TypeOK
  <2>2. SockOK(t)'
    BY <1>1, <1>2, <2>1 DEF SockOK, clientVars
  <2>3. HandshakeOK(t)'
    BY <1>1, <1>2, <2>1, EmptySeq DEF HandshakeOK
  <2>4. ListenerOK(t)'
    BY <1>1, <2>1, SockFacts DEF ListenerOK, connVars, mapVars
  <2> QED
    BY <2>2, <2>3, <2>4
<1>4. ASSUME NEW w \in Window PROVE ConnectedOK(w)' /\ AckOK(w)' /\ ConnectingOK(w)'
  <2>1. ConnectedOK(w) /\ AckOK(w) /\ ConnectingOK(w)
    BY DEF NetInv
  <2>2. ConnectedOK(w)'
    BY <1>1, <2>1, WindowSocket DEF ConnectedOK, Connected, Born, clientVars
  <2>3. AckOK(w)'
    BY <1>1, <1>2, <2>1, WindowSocket DEF AckOK, Connected, AckWaits, Ack, clientVars
  <2>4. ConnectingOK(w)'
    BY <1>1, <1>2, <2>1, WindowSocket DEF ConnectingOK, Connected, clientVars
  <2> QED
    BY <2>2, <2>3, <2>4
<1> QED
  BY <1>3, <1>4 DEF NetInv

LEMMA OnHandshakeNet == ASSUME IInv, NetInv, NEW s \in Sock, OnHandshake(s) PROVE NetInv'
<1>1. /\ handshake[s] = "waiting" /\ handshake'[s] = "auth" /\ serverEnd[s] = "open" /\ toServer[s] # <<>>
      /\ \A t \in Sock : t # s => handshake'[t] = handshake[t]
      /\ UNCHANGED <<connVars, mapVars, closeHandler, clientVars, netVars>>
  BY DEF OnHandshake, IInv, TypeOK
<1>3. ASSUME NEW t \in Sock PROVE SockOK(t)' /\ HandshakeOK(t)' /\ ListenerOK(t)'
  <2>1. SockOK(t) /\ HandshakeOK(t) /\ ListenerOK(t) /\ closeHandler[t] \in SockOrNone
    BY DEF NetInv, IInv, TypeOK
  <2>2. SockOK(t)'
    BY <1>1, <2>1 DEF SockOK, clientVars, netVars
  <2>3. HandshakeOK(t)'
    BY <1>1, <2>1, EmptySeq DEF HandshakeOK, netVars
  <2>4. ListenerOK(t)'
    BY <1>1, <2>1, SockFacts DEF ListenerOK, connVars, mapVars
  <2> QED
    BY <2>2, <2>3, <2>4
<1>4. ASSUME NEW w \in Window PROVE ConnectedOK(w)' /\ AckOK(w)' /\ ConnectingOK(w)'
  <2>1. ConnectedOK(w) /\ AckOK(w) /\ ConnectingOK(w)
    BY DEF NetInv
  <2>2. ConnectedOK(w)'
    BY <1>1, <2>1, WindowSocket DEF ConnectedOK, Connected, Born, clientVars, netVars
  <2>3. AckOK(w)'
    BY <1>1, <2>1, WindowSocket DEF AckOK, Connected, AckWaits, Ack, clientVars, netVars
  <2>4. ConnectingOK(w)'
    BY <1>1, <2>1, WindowSocket DEF ConnectingOK, Connected, clientVars, netVars
  <2> QED
    BY <2>2, <2>3, <2>4
<1> QED
  BY <1>3, <1>4 DEF NetInv

\* The first of a queue that is not empty, and the rest.
LEMMA TailFacts ==
  ASSUME NEW S, NEW q \in Seq(S), q # <<>>
  PROVE  /\ Head(q) = q[1] /\ Tail(q) \in Seq(S)
         /\ Len(q) \in Nat \ {0} /\ Len(Tail(q)) = Len(q) - 1
         /\ \A i \in 1..Len(Tail(q)) : Tail(q)[i] = q[i + 1]
BY HeadTailProperties, LenProperties, EmptySeq

\* A queue of one message is empty without it.
LEMMA TailOfOne ==
  ASSUME NEW S, NEW q \in Seq(S), q # <<>>, Len(q) <= 1
  PROVE  Tail(q) = <<>> /\ Head(q) = q[1]
<1>1. /\ Tail(q) \in Seq(S) /\ Len(q) \in Nat \ {0} /\ Len(Tail(q)) = Len(q) - 1 /\ Head(q) = q[1]
  BY TailFacts
<1> DEFINE n == Len(q)
<1>2. n \in Nat \ {0} /\ n <= 1 /\ Len(Tail(q)) = n - 1
  BY <1>1
<1> HIDE DEF n
<1>3. Len(Tail(q)) = 0
  BY <1>2
<1> QED
  BY <1>1, <1>3, EmptySeq

LEMMA RejectHandshakeNet == ASSUME IInv, NetInv, NEW s \in Sock, RejectHandshake(s) PROVE NetInv'
<1>1. /\ handshake[s] \in {"waiting", "auth"} /\ handshake'[s] = "none" /\ serverEnd'[s] = "closed"
      /\ toServer'[s] = <<>>
      /\ \A t \in Sock : t # s => /\ handshake'[t] = handshake[t] /\ serverEnd'[t] = serverEnd[t]
                                  /\ toServer'[t] = toServer[t]
      /\ UNCHANGED <<connVars, mapVars, closeHandler, clientVars, nextSock, socketWindow, clientEnd,
                     toClient>>
  BY DEF RejectHandshake, IInv, TypeOK
<1>2. toClient[s] = <<>> /\ Len(<<>>) = 0
  BY <1>1, EmptySeq DEF NetInv, SockOK
<1>3. ASSUME NEW t \in Sock PROVE SockOK(t)' /\ HandshakeOK(t)' /\ ListenerOK(t)'
  <2>1. SockOK(t) /\ HandshakeOK(t) /\ ListenerOK(t) /\ closeHandler[t] \in SockOrNone
    BY DEF NetInv, IInv, TypeOK
  <2>2. SockOK(t)'
    BY <1>1, <1>2, <2>1 DEF SockOK, clientVars
  <2>3. HandshakeOK(t)'
    BY <1>1, <1>2, <2>1 DEF HandshakeOK
  <2>4. ListenerOK(t)'
    BY <1>1, <2>1, SockFacts DEF ListenerOK, connVars, mapVars
  <2> QED
    BY <2>2, <2>3, <2>4
<1>4. ASSUME NEW w \in Window PROVE ConnectedOK(w)' /\ AckOK(w)' /\ ConnectingOK(w)'
  <2>1. ConnectedOK(w) /\ AckOK(w) /\ ConnectingOK(w)
    BY DEF NetInv
  <2>2. ConnectedOK(w)'
    BY <1>1, <2>1, WindowSocket DEF ConnectedOK, Connected, Born, clientVars
  <2>3. AckOK(w)'
    BY <1>1, <1>2, <2>1, WindowSocket DEF AckOK, Connected, AckWaits, Ack, clientVars
  <2>4. ConnectingOK(w)'
    BY <1>1, <1>2, <2>1, WindowSocket DEF ConnectingOK, Connected, clientVars
  <2> QED
    BY <2>2, <2>3, <2>4
<1> QED
  BY <1>3, <1>4 DEF NetInv

\* A window whose socket is left alone.
LEMMA ConnectingSame ==
  ASSUME NEW w \in Window, ConnectingOK(w), UNCHANGED <<clientEnd, serverEnd>>,
         UNCHANGED <<ws, clientId, lastSeenSeq, pendingReconnect, currentHandshakeWasReconnect>>,
         ws[w] # None => /\ toClient'[ws[w]] = toClient[ws[w]] /\ toServer'[ws[w]] = toServer[ws[w]]
                         /\ handshake'[ws[w]] = handshake[ws[w]]
  PROVE  ConnectingOK(w)'
BY DEF ConnectingOK, Connected

\* A handshake is completed, with an acknowledgement before what is replayed.
LEMMA CompleteNet ==
  ASSUME IInv, NetInv, NEW s \in Sock, NEW id \in Sock, NEW msgs \in Seq(ToClientMsg),
         handshake[s] = "auth", id = s \/ handshake[id] = "completed",
         msgs # <<>>, msgs[1].type = "handshake_ack", msgs[1].clientId = id,
         msgs[1].reconnected => Head(toServer[s]).reconnect.clientId = id,
         \A i \in 2..Len(msgs) : msgs[i].type = "event",
         toClient' = SafeSend(s, msgs),
         connWs' = [connWs EXCEPT ![id] = s], clients' = clients \union {id},
         closeHandler' = [closeHandler EXCEPT ![s] = id],
         handshake' = [handshake EXCEPT ![s] = "completed"],
         toServer' = [toServer EXCEPT ![s] = Tail(@)],
         UNCHANGED <<clientVars, nextSock, socketWindow, clientEnd, serverEnd>>
  PROVE  NetInv'
<1>1. /\ handshake'[s] = "completed" /\ closeHandler'[s] = id /\ toServer'[s] = Tail(toServer[s])
      /\ \A t \in Sock : t # s => /\ handshake'[t] = handshake[t] /\ closeHandler'[t] = closeHandler[t]
                                  /\ toServer'[t] = toServer[t]
      /\ connWs'[id] = s /\ \A t \in Sock : t # id => connWs'[t] = connWs[t]
  BY DEF IInv, TypeOK
<1>2. toClient[s] = <<>> /\ toServer[s] # <<>> /\ clientEnd[s] \in {"open", "closed"}
  BY DEF NetInv, SockOK, IInv, SocketInv
<1>3. /\ toServer'[s] = <<>> /\ Len(<<>>) = 0 /\ Head(toServer[s]) = toServer[s][1]
  <2>1. Len(toServer[s]) <= 1 /\ toServer[s] \in Seq(ToServerMsg)
    BY DEF NetInv, HandshakeOK, IInv, TypeOK
  <2>2. Tail(toServer[s]) = <<>> /\ Head(toServer[s]) = toServer[s][1]
    BY <1>2, <2>1, TailOfOne
  <2>3. toServer'[s] = <<>>
    BY <1>1, <2>2
  <2> QED
    BY <2>2, <2>3, EmptySeq
<1>4. /\ \A t \in Sock : t # s => toClient'[t] = toClient[t]
      /\ IF serverEnd[s] = "open" /\ clientEnd[s] # "closed" THEN toClient'[s] = msgs
         ELSE toClient'[s] = <<>>
  <2>1. toClient[s] \o msgs = msgs
    BY <1>2, ConcatEmptySeq
  <2>2. toClient \in [Sock -> Seq(ToClientMsg)] /\ s # None
    BY SockFacts DEF IInv, TypeOK
  <2>3. toClient' = IF serverEnd[s] = "open" /\ clientEnd[s] # "closed"
                      THEN [toClient EXCEPT ![s] = toClient[s] \o msgs] ELSE toClient
    BY <2>2 DEF SafeSend
  <2> QED
    BY <1>2, <2>1, <2>2, <2>3
<1>5. ASSUME NEW t \in Sock PROVE SockOK(t)' /\ HandshakeOK(t)' /\ ListenerOK(t)'
  <2>1. SockOK(t) /\ HandshakeOK(t) /\ ListenerOK(t) /\ closeHandler[t] \in SockOrNone
    BY DEF NetInv, IInv, TypeOK
  <2>2. SockOK(t)'
    <3>1. serverEnd[s] # "none"
      BY <1>2 DEF NetInv, SockOK
    <3> QED
      BY <1>1, <1>2, <1>3, <1>4, <2>1, <3>1 DEF SockOK, clientVars
  <2>3. HandshakeOK(t)'
    BY <1>1, <2>1 DEF HandshakeOK
  <2>4. ListenerOK(t)'
    <3>1. closeHandler[s] = None
      BY DEF NetInv, ListenerOK
    <3> QED
      BY <1>1, <2>1, <3>1, SockFacts DEF ListenerOK
  <2> QED
    BY <2>2, <2>3, <2>4
<1>6. ASSUME NEW w \in Window PROVE ConnectedOK(w)' /\ AckOK(w)' /\ ConnectingOK(w)'
  <2>1. ConnectedOK(w) /\ AckOK(w) /\ ConnectingOK(w)
    BY DEF NetInv
  <2>2. CASE ws[w] # s
    <3>0. ws[w] # None => /\ toClient'[ws[w]] = toClient[ws[w]] /\ toServer'[ws[w]] = toServer[ws[w]]
                          /\ handshake'[ws[w]] = handshake[ws[w]]
                          /\ closeHandler'[ws[w]] = closeHandler[ws[w]]
      BY <1>1, <1>4, <2>2, WindowSocket
    <3>1. ConnectedOK(w)'
      BY <2>1, <3>0 DEF ConnectedOK, Connected, Born, clientVars
    <3>2. AckOK(w)'
      BY <2>1, <3>0 DEF AckOK, Connected, AckWaits, Ack, clientVars
    <3>3. ConnectingOK(w)'
      <4>1. UNCHANGED <<ws, clientId, lastSeenSeq, pendingReconnect, currentHandshakeWasReconnect>>
        BY DEF clientVars
      <4>2. UNCHANGED <<clientEnd, serverEnd>>
        OBVIOUS
      <4> QED
        BY <2>1, <3>0, <4>1, <4>2, ConnectingSame
    <3> QED
      BY <3>1, <3>2, <3>3
  <2>3. CASE ws[w] = s
    <3>1. ~Connected(w) /\ s # None
      BY <2>1, <2>3, SockFacts DEF ConnectedOK, Born
    <3>2. ConnectedOK(w)'
      BY <3>1 DEF ConnectedOK, Connected, clientVars
    <3>3. /\ clientEnd[s] # "closed" /\ toServer[s][1].reconnect = pendingReconnect[w]
          /\ currentHandshakeWasReconnect[w] = (pendingReconnect[w] # NoReconnect)
      BY <1>2, <2>1, <2>3, <3>1 DEF ConnectingOK
    <3>4. AckOK(w)'
      BY <1>1, <1>3, <1>4, <2>3, <3>1, <3>3 DEF AckOK, Connected, AckWaits, Ack, clientVars
    <3>5. ConnectingOK(w)'
      BY <1>1, <1>4, <2>1, <2>3, <3>1, <3>3 DEF ConnectingOK, Connected, clientVars
    <3> QED
      BY <3>2, <3>4, <3>5
  <2> QED
    BY <2>2, <2>3
<1> QED
  BY <1>5, <1>6 DEF NetInv

LEMMA CompleteFreshNet == ASSUME IInv, NetInv, NEW s \in Sock, CompleteFresh(s) PROVE NetInv'
<1> DEFINE ack == HandshakeAck(s, FALSE, FALSE)
<1>1. ack \in ToClientMsg /\ ack.type = "handshake_ack" /\ ack.clientId = s /\ ack.reconnected = FALSE
  <2>1. Len(published) \in Nat
    BY LenProperties DEF IInv, TypeOK
  <2> QED
    BY <2>1 DEF HandshakeAck, ToClientMsg, AckMsg
<1> HIDE DEF ack
<1> DEFINE msgs == <<ack>>
<1>2. /\ msgs \in Seq(ToClientMsg) /\ msgs # <<>> /\ Len(msgs) = 1 /\ msgs[1] = ack
  BY <1>1, SingletonSeq
<1>3. /\ toClient' = SafeSend(s, msgs) /\ handshake[s] = "auth"
      /\ connWs' = [connWs EXCEPT ![s] = s] /\ clients' = clients \union {s}
      /\ closeHandler' = [closeHandler EXCEPT ![s] = s]
      /\ handshake' = [handshake EXCEPT ![s] = "completed"]
      /\ toServer' = [toServer EXCEPT ![s] = Tail(@)]
      /\ UNCHANGED <<clientVars, nextSock, socketWindow, clientEnd, serverEnd>>
  BY DEF CompleteFresh, ack
<1> HIDE DEF msgs
<1>4. /\ \A i \in 2..Len(msgs) : msgs[i].type = "event"
      /\ msgs[1].type = "handshake_ack" /\ msgs[1].clientId = s /\ msgs[1].reconnected = FALSE
  BY <1>1, <1>2
<1> QED
  BY <1>2, <1>3, <1>4, CompleteNet

\* What a resumption sends: the events it replays, if they are all still there.
HasAll(s, id) ==
  CanReplay(EvictBuffer(eventBuffer[id]), Head(toServer[s]).reconnect.lastSeq, lastSentSeq[id])
Replayed(s, id) ==
  IF HasAll(s, id)
    THEN Replay(EvictBuffer(eventBuffer[id]), Head(toServer[s]).reconnect.lastSeq)
    ELSE <<>>
ReplayMessages(s, id) == <<HandshakeAck(id, TRUE, ~HasAll(s, id))>> \o EventMessages(Replayed(s, id))

\* A resumption is of a client that is retained, by its window.
LEMMA ReconnectFacts ==
  ASSUME IInv, NEW s \in Sock, CompleteReconnect(s)
  PROVE  \E id \in Sock :
           /\ handshake[s] = "auth" /\ handshake[id] = "completed" /\ id \notin clients
           /\ id \in Elements(disconnectedClients)
           /\ connWindow[id] = socketWindow[s] /\ Head(toServer[s]).reconnect.clientId = id
           /\ connWorkspace[id] = HomeWorkspace[socketWindow[s]]
           /\ toClient' = SafeSend(s, ReplayMessages(s, id))
           /\ eventBuffer' = [eventBuffer EXCEPT ![id] = EvictBuffer(@)]
           /\ connWs' = [connWs EXCEPT ![id] = s] /\ clients' = clients \union {id}
           /\ Elements(disconnectedClients') = Elements(disconnectedClients) \ {id}
           /\ closeHandler' = [closeHandler EXCEPT ![s] = id]
           /\ handshake' = [handshake EXCEPT ![s] = "completed"]
           /\ toServer' = [toServer EXCEPT ![s] = Tail(@)]
           /\ UNCHANGED <<connWorkspace, connWindow, lastAckedSeq, lastSentSeq, windowWorkspace,
                          expired, restarts, clientVars, nextSock, socketWindow, clientEnd,
                          serverEnd, historyVars>>
<1>1. PICK i \in Resumable(s) :
        LET id == disconnectedClients[i]
            lastSeq == Head(toServer[s]).reconnect.lastSeq
            buf == EvictBuffer(eventBuffer[id])
            replay == CanReplay(buf, lastSeq, lastSentSeq[id])
        IN /\ connWs' = [connWs EXCEPT ![id] = s]
           /\ eventBuffer' = [eventBuffer EXCEPT ![id] = buf]
           /\ toClient' = SafeSend(s,
                <<HandshakeAck(id, TRUE, ~replay)>>
                  \o EventMessages(IF replay THEN Replay(buf, lastSeq) ELSE <<>>))
           /\ disconnectedClients' = RemoveAt(disconnectedClients, i)
           /\ clients' = clients \union {id}
           /\ closeHandler' = [closeHandler EXCEPT ![s] = id]
  BY DEF CompleteReconnect
<1> DEFINE id == disconnectedClients[i]
           n == Len(disconnectedClients)
<1>2. /\ i \in 1..n /\ disconnectedClients \in Seq(Sock)
      /\ connWindow[id] = socketWindow[s] /\ Head(toServer[s]).reconnect.clientId = id
      /\ connWorkspace[id] = HomeWorkspace[socketWindow[s]]
  BY DEF Resumable, IInv, TypeOK
<1>3. id \in Sock /\ n \in Nat
  BY <1>2, ElementOfSeq, LenProperties
<1>4. handshake[id] = "completed" /\ id \notin clients /\ id \in Elements(disconnectedClients)
  BY <1>2, <1>3 DEF IInv, HandlerInv, PlacesInv, Elements
<1>5. Elements(disconnectedClients') = Elements(disconnectedClients) \ {id}
  <2>1. /\ Len(disconnectedClients') = n - 1
        /\ \A j \in 1..(n - 1) : disconnectedClients'[j] =
             IF j < i THEN disconnectedClients[j] ELSE disconnectedClients[j + 1]
    BY <1>1, <1>2, RemoveAtFacts
  <2>2. \A j \in 1..n : disconnectedClients[j] = id <=> j = i
    BY <1>2 DEF IInv, PlacesInv
  <2> HIDE DEF id, n
  <2>3. ASSUME NEW j \in 1..(n - 1) PROVE \E k \in 1..n : k # i /\ disconnectedClients'[j] = disconnectedClients[k]
    <3>1. CASE j < i
      BY <1>3, <2>1, <3>1
    <3>2. CASE ~(j < i)
      <4>1. j + 1 \in 1..n /\ j + 1 # i
        BY <1>2, <1>3, <3>2
      <4> QED
        BY <2>1, <3>2, <4>1
    <3> QED
      BY <3>1, <3>2
  <2>4. ASSUME NEW k \in 1..n, k # i PROVE \E j \in 1..(n - 1) : disconnectedClients'[j] = disconnectedClients[k]
    <3>1. CASE k < i
      <4>1. k \in 1..(n - 1)
        BY <1>2, <1>3, <3>1
      <4> QED
        BY <2>1, <3>1, <4>1
    <3>2. CASE ~(k < i)
      <4>1. k - 1 \in 1..(n - 1) /\ ~(k - 1 < i) /\ (k - 1) + 1 = k
        BY <1>2, <1>3, <2>4, <3>2
      <4> QED
        BY <2>1, <4>1
    <3> QED
      BY <3>1, <3>2
  <2>5. Elements(disconnectedClients') = {disconnectedClients'[j] : j \in 1..(n - 1)}
    BY <2>1 DEF Elements
  <2>6. Elements(disconnectedClients) = {disconnectedClients[j] : j \in 1..n}
    BY DEF Elements, n
  <2> QED
    BY <2>2, <2>3, <2>4, <2>5, <2>6
<1>6. /\ handshake[s] = "auth"
      /\ handshake' = [handshake EXCEPT ![s] = "completed"]
      /\ toServer' = [toServer EXCEPT ![s] = Tail(@)]
      /\ UNCHANGED <<connWorkspace, connWindow, lastAckedSeq, lastSentSeq, windowWorkspace,
                     expired, restarts, clientVars, nextSock, socketWindow, clientEnd,
                     serverEnd, historyVars>>
  BY DEF CompleteReconnect
<1>7. toClient' = SafeSend(s, ReplayMessages(s, id))
  BY <1>1 DEF ReplayMessages, Replayed, HasAll
<1>8. /\ connWs' = [connWs EXCEPT ![id] = s] /\ clients' = clients \union {id}
      /\ closeHandler' = [closeHandler EXCEPT ![s] = id]
      /\ eventBuffer' = [eventBuffer EXCEPT ![id] = EvictBuffer(@)]
  BY <1>1
<1> HIDE DEF id
<1> QED
  BY <1>2, <1>3, <1>4, <1>5, <1>6, <1>7, <1>8

\* An acknowledgement before the events that are replayed.
LEMMA ReplayMessagesFacts ==
  ASSUME IInv, NEW s \in Sock, NEW id \in Sock
  PROVE  /\ Replayed(s, id) \in Seq(BufferedEvent)
         /\ ReplayMessages(s, id) \in Seq(ToClientMsg) /\ ReplayMessages(s, id) # <<>>
         /\ Len(ReplayMessages(s, id)) = Len(Replayed(s, id)) + 1
         /\ ReplayMessages(s, id)[1] = HandshakeAck(id, TRUE, ~HasAll(s, id))
         /\ \A i \in 1..Len(Replayed(s, id)) :
              ReplayMessages(s, id)[i + 1] =
                [type |-> "event", seq |-> Replayed(s, id)[i].seq, ev |-> Replayed(s, id)[i].ev]
<1> DEFINE lastSeq == Head(toServer[s]).reconnect.lastSeq
           buf == EvictBuffer(eventBuffer[id])
           kept == Replayed(s, id)
           ack == HandshakeAck(id, TRUE, ~HasAll(s, id))
           msgs == ReplayMessages(s, id)
<1>1. buf \in Seq(BufferedEvent)
  BY EvictType DEF IInv, TypeOK
<1>2. Replay(buf, lastSeq) \in Seq(BufferedEvent)
  <2> HIDE DEF buf, lastSeq
  <2>1. Len(buf) \in Nat
    BY <1>1, LenProperties
  <2>2. PrefixLength({j \in 1..Len(buf) : buf[j].seq <= lastSeq}) \in 0..Len(buf)
    BY <2>1, PrefixLengthFacts
  <2> QED
    BY <1>1, <2>2, DropFacts DEF Replay
<1>3. kept \in Seq(BufferedEvent)
  BY <1>2, EmptySeq DEF Replayed
<1>4. ack \in ToClientMsg
  <2>1. Len(published) \in Nat
    BY LenProperties DEF IInv, TypeOK
  <2>2. HasAll(s, id) \in BOOLEAN
    BY DEF CanReplay, HasAll
  <2> QED
    BY <2>1, <2>2 DEF HandshakeAck, ToClientMsg, AckMsg
<1>5. msgs = <<ack>> \o EventMessages(kept)
  BY DEF ReplayMessages
<1> HIDE DEF kept, ack, msgs
<1>6. EventMessages(kept) \in Seq(ToClientMsg) /\ Len(EventMessages(kept)) = Len(kept) /\ Len(kept) \in Nat
  BY <1>3, EventMessagesType, LenProperties DEF EventMessages
<1>7. <<ack>> \in Seq(ToClientMsg) /\ Len(<<ack>>) = 1 /\ <<ack>>[1] = ack
  BY <1>4, SingletonSeq
<1>8. /\ msgs \in Seq(ToClientMsg) /\ Len(msgs) = 1 + Len(kept)
      /\ \A i \in 1..(1 + Len(kept)) : msgs[i] = IF i <= 1 THEN <<ack>>[i] ELSE EventMessages(kept)[i - 1]
  BY <1>5, <1>6, <1>7, ConcatProperties
<1>9. msgs # <<>> /\ msgs[1] = ack /\ Len(msgs) = Len(kept) + 1
  BY <1>6, <1>7, <1>8, EmptySeq
<1>10. ASSUME NEW i \in 1..Len(kept)
       PROVE  msgs[i + 1] = [type |-> "event", seq |-> kept[i].seq, ev |-> kept[i].ev]
  <2>1. i + 1 \in 1..(1 + Len(kept)) /\ ~(i + 1 <= 1) /\ (i + 1) - 1 = i
    BY <1>6
  <2>2. msgs[i + 1] = EventMessages(kept)[i]
    BY <1>8, <2>1
  <2> QED
    BY <2>2 DEF EventMessages
<1>11. /\ kept \in Seq(BufferedEvent) /\ msgs \in Seq(ToClientMsg) /\ msgs # <<>>
       /\ Len(msgs) = Len(kept) + 1 /\ msgs[1] = ack
       /\ \A i \in 1..Len(kept) :
            msgs[i + 1] = [type |-> "event", seq |-> kept[i].seq, ev |-> kept[i].ev]
  BY <1>3, <1>8, <1>9, <1>10
<1> QED
  BY <1>11 DEF kept, ack, msgs

LEMMA CompleteReconnectNet == ASSUME IInv, NetInv, NEW s \in Sock, CompleteReconnect(s) PROVE NetInv'
<1>1. PICK id \in Sock :
        /\ handshake[s] = "auth" /\ handshake[id] = "completed"
        /\ Head(toServer[s]).reconnect.clientId = id
        /\ toClient' = SafeSend(s, ReplayMessages(s, id))
        /\ connWs' = [connWs EXCEPT ![id] = s] /\ clients' = clients \union {id}
        /\ closeHandler' = [closeHandler EXCEPT ![s] = id]
        /\ handshake' = [handshake EXCEPT ![s] = "completed"]
        /\ toServer' = [toServer EXCEPT ![s] = Tail(@)]
        /\ UNCHANGED <<clientVars, nextSock, socketWindow, clientEnd, serverEnd>>
  BY ReconnectFacts
<1> DEFINE msgs == ReplayMessages(s, id)
           n == Len(Replayed(s, id))
<1>2. /\ msgs \in Seq(ToClientMsg) /\ msgs # <<>> /\ n \in Nat /\ Len(msgs) = n + 1
      /\ msgs[1].type = "handshake_ack" /\ msgs[1].clientId = id
      /\ \A j \in 1..n : msgs[j + 1].type = "event"
  <2>1. /\ Replayed(s, id) \in Seq(BufferedEvent) /\ msgs \in Seq(ToClientMsg) /\ msgs # <<>>
        /\ Len(msgs) = n + 1 /\ msgs[1] = HandshakeAck(id, TRUE, ~HasAll(s, id))
    BY ReplayMessagesFacts
  <2>2. n \in Nat
    BY <2>1, LenProperties
  <2>3. ASSUME NEW j \in 1..n PROVE msgs[j + 1].type = "event"
    <3>1. msgs[j + 1] = [type |-> "event", seq |-> Replayed(s, id)[j].seq, ev |-> Replayed(s, id)[j].ev]
      BY ReplayMessagesFacts
    <3> QED
      BY <3>1
  <2> HIDE DEF msgs, n
  <2>4. msgs[1].type = "handshake_ack" /\ msgs[1].clientId = id
    BY <2>1 DEF HandshakeAck
  <2> QED
    BY <2>1, <2>2, <2>3, <2>4
<1>3. toClient' = SafeSend(s, msgs)
  BY <1>1
<1> HIDE DEF msgs, n
<1>4. ASSUME NEW i \in 2..Len(msgs) PROVE msgs[i].type = "event"
  <2>1. i - 1 \in 1..n /\ (i - 1) + 1 = i
    BY <1>2
  <2> QED
    BY <1>2, <2>1
<1> QED
  BY <1>1, <1>2, <1>3, <1>4, CompleteNet

\* A message from a connected client is taken.
LEMMA IncomingNet ==
  ASSUME IInv, NetInv, NEW s \in Sock, handshake[s] = "completed", toServer[s] # <<>>,
         toServer' = [toServer EXCEPT ![s] = Tail(@)],
         UNCHANGED <<toClient, clientEnd, serverEnd, handshake, closeHandler,
            clients, connWs, ws, socketWindow, nextSock, clientVars>>
  PROVE  NetInv'
<1>1. \A t \in Sock : /\ t # s => toServer'[t] = toServer[t]
                      /\ toServer'[t] # <<>> => toServer[t] # <<>>
  BY DEF IInv, TypeOK
<1>3. ASSUME NEW t \in Sock PROVE SockOK(t)' /\ HandshakeOK(t)' /\ ListenerOK(t)'
  <2>1. SockOK(t) /\ HandshakeOK(t) /\ ListenerOK(t)
    BY DEF NetInv
  <2>2. SockOK(t)'
    BY <1>1, <2>1 DEF SockOK
  <2>3. HandshakeOK(t)'
    BY <1>1, <2>1 DEF HandshakeOK
  <2>4. ListenerOK(t)'
    BY <2>1 DEF ListenerOK
  <2> QED
    BY <2>2, <2>3, <2>4
<1>4. ASSUME NEW w \in Window PROVE ConnectedOK(w)' /\ AckOK(w)' /\ ConnectingOK(w)'
  <2>1. ConnectedOK(w) /\ AckOK(w) /\ ConnectingOK(w)
    BY DEF NetInv
  <2>2. ConnectedOK(w)'
    BY <2>1 DEF ConnectedOK, Connected, Born, clientVars
  <2>3. AckOK(w)'
    BY <2>1 DEF AckOK, Connected, AckWaits, Ack, clientVars
  <2>4. ConnectingOK(w)'
    BY <1>1, <2>1, WindowSocket DEF ConnectingOK, Connected, clientVars
  <2> QED
    BY <2>2, <2>3, <2>4
<1> QED
  BY <1>3, <1>4 DEF NetInv

LEMMA OnSequenceAckNet == ASSUME IInv, NetInv, NEW s \in Sock, OnSequenceAck(s) PROVE NetInv'
<1>1. /\ handshake[s] = "completed" /\ toServer[s] # <<>>
      /\ toServer' = [toServer EXCEPT ![s] = Tail(@)]
      /\ UNCHANGED <<toClient, clientEnd, serverEnd, handshake, closeHandler,
            clients, connWs, ws, socketWindow, nextSock, clientVars>>
  BY DEF OnSequenceAck, Incoming, clientVars, mapVars, hsVars
<1> QED
  BY <1>1, IncomingNet

LEMMA OnSwitchWorkspaceNet == ASSUME IInv, NetInv, NEW s \in Sock, OnSwitchWorkspace(s) PROVE NetInv'
<1>1. /\ handshake[s] = "completed" /\ toServer[s] # <<>>
      /\ toServer' = [toServer EXCEPT ![s] = Tail(@)]
      /\ UNCHANGED <<toClient, clientEnd, serverEnd, handshake, closeHandler,
            clients, connWs, ws, socketWindow, nextSock, clientVars>>
  BY DEF OnSwitchWorkspace, Incoming, clientVars, mapVars, hsVars
<1> QED
  BY <1>1, IncomingNet

LEMMA OnCloseNet == ASSUME IInv, NetInv, NEW s \in Sock, OnClose(s) PROVE NetInv'
<1>1. /\ serverEnd[s] = "open" /\ serverEnd'[s] = "closed"
      /\ toServer'[s] = toServer[s] \/ toServer'[s] = <<>>
      /\ handshake'[s] = IF handshake[s] = "waiting" THEN "none" ELSE handshake[s]
      /\ handshake[s] = "waiting" => toServer'[s] = <<>>
      /\ clients' \subseteq clients
      /\ \A t \in Sock : t # s => /\ handshake'[t] = handshake[t] /\ serverEnd'[t] = serverEnd[t]
                                  /\ toServer'[t] = toServer[t]
      /\ UNCHANGED <<connVars, closeHandler, clientVars, nextSock, socketWindow, clientEnd, toClient>>
  BY DEF OnClose, IInv, TypeOK, mapVars
<1>2. Len(<<>>) = 0
  BY EmptySeq
<1>3. ASSUME NEW t \in Sock PROVE SockOK(t)' /\ HandshakeOK(t)' /\ ListenerOK(t)'
  <2>1. SockOK(t) /\ HandshakeOK(t) /\ ListenerOK(t) /\ closeHandler[t] \in SockOrNone
    BY DEF NetInv, IInv, TypeOK
  <2>2. SockOK(t)'
    BY <1>1, <2>1 DEF SockOK, clientVars
  <2>3. HandshakeOK(t)'
    BY <1>1, <1>2, <2>1 DEF HandshakeOK
  <2>4. ListenerOK(t)'
    BY <1>1, <2>1, SockFacts DEF ListenerOK, connVars
  <2> QED
    BY <2>2, <2>3, <2>4
<1>4. ASSUME NEW w \in Window PROVE ConnectedOK(w)' /\ AckOK(w)' /\ ConnectingOK(w)'
  <2>1. ConnectedOK(w) /\ AckOK(w) /\ ConnectingOK(w)
    BY DEF NetInv
  <2>2. ConnectedOK(w)'
    BY <1>1, <2>1, WindowSocket DEF ConnectedOK, Connected, Born, clientVars
  <2>3. AckOK(w)'
    BY <1>1, <2>1, WindowSocket DEF AckOK, Connected, AckWaits, Ack, clientVars
  <2>4. ConnectingOK(w)'
    BY <1>1, <2>1, WindowSocket DEF ConnectingOK, Connected, clientVars
  <2> QED
    BY <2>2, <2>3, <2>4
<1> QED
  BY <1>3, <1>4 DEF NetInv

LEMMA RestartNet == ASSUME IInv, NetInv, Restart PROVE NetInv'
<1>1. /\ clients' = {}
      /\ \A t \in Sock : /\ handshake'[t] = "none" /\ closeHandler'[t] = None /\ toServer'[t] = <<>>
                         /\ serverEnd'[t] = IF serverEnd[t] = "open" THEN "closed" ELSE serverEnd[t]
      /\ UNCHANGED <<connVars, clientVars, nextSock, socketWindow, clientEnd, toClient>>
  BY DEF Restart
<1>2. Len(<<>>) = 0
  BY EmptySeq
<1>3. ASSUME NEW t \in Sock PROVE SockOK(t)' /\ HandshakeOK(t)' /\ ListenerOK(t)'
  <2>1. SockOK(t)
    BY DEF NetInv
  <2>2. SockOK(t)'
    BY <1>1, <2>1 DEF SockOK, clientVars
  <2>3. HandshakeOK(t)'
    BY <1>1, <1>2 DEF HandshakeOK
  <2>4. ListenerOK(t)'
    BY <1>1 DEF ListenerOK
  <2> QED
    BY <2>2, <2>3, <2>4
<1>4. ASSUME NEW w \in Window PROVE ConnectedOK(w)' /\ AckOK(w)' /\ ConnectingOK(w)'
  <2>1. ConnectedOK(w) /\ AckOK(w) /\ ConnectingOK(w)
    BY DEF NetInv
  <2>2. ConnectedOK(w)'
    BY <1>1, <2>1, WindowSocket DEF ConnectedOK, Connected, Born, clientVars
  <2>3. AckOK(w)'
    BY <1>1, <2>1, WindowSocket DEF AckOK, Connected, AckWaits, Ack, clientVars
  <2>4. ConnectingOK(w)'
    BY <1>1, <2>1, WindowSocket DEF ConnectingOK, Connected, clientVars
  <2> QED
    BY <2>2, <2>3, <2>4
<1> QED
  BY <1>3, <1>4 DEF NetInv

\* A sequence and one element more.
LEMMA AppendFacts ==
  ASSUME NEW S, NEW q \in Seq(S), NEW e \in S
  PROVE  /\ Append(q, e) \in Seq(S) /\ Append(q, e) # <<>> /\ Len(q) \in Nat
         /\ Len(Append(q, e)) = Len(q) + 1
         /\ \A i \in 1..Len(q) : Append(q, e)[i] = q[i]
         /\ Append(q, e)[Len(q) + 1] = e
BY LenProperties, AppendProperties, EmptySeq

\* The event numbered for a client, as it is sent.
PushedTo(id) == [type |-> "event", seq |-> lastSentSeq[id] + 1, ev |-> Len(published) + 1]

\* A push reaches the open socket of a client, and that one alone.
LEMMA PushFacts ==
  ASSUME IInv, NetInv, NEW t \in Target, Push(t)
  PROVE  /\ \A s \in Sock :
              \/ toClient'[s] = toClient[s]
              \/ \E id \in clients :
                   /\ MatchesTarget(id, t) /\ connWs[id] = s /\ closeHandler[s] = id
                   /\ handshake[s] = "completed" /\ serverEnd[s] = "open" /\ clientEnd[s] = "open"
                   /\ toClient'[s] = Append(toClient[s], PushedTo(id))
         /\ \A id \in clients, s \in Sock :
              MatchesTarget(id, t) /\ connWs[id] = s /\ serverEnd[s] = "open" /\ clientEnd[s] = "open" =>
                toClient'[s] = Append(toClient[s], PushedTo(id))
         /\ \A id \in Sock : PushedTo(id) \in ToClientMsg
         /\ UNCHANGED <<connWs, connWorkspace, connWindow, lastAckedSeq, mapVars, hsVars,
                    windowWorkspace, expired, restarts, clientVars, nextSock,
                    socketWindow, clientEnd, serverEnd, toServer, known, notice>>
<1> DEFINE to == {id \in Retained : MatchesTarget(id, t)}
           SentOn(s) == {id \in to \intersect clients :
                      connWs[id] = s /\ serverEnd[s] = "open" /\ clientEnd[s] # "closed"}
           Msg(id) == [type |-> "event", seq |-> lastSentSeq[id] + 1, ev |-> Len(published) + 1]
<1>1. /\ \A s \in Sock : toClient'[s] = IF SentOn(s) = {} THEN toClient[s]
             ELSE Append(toClient[s], Msg(CHOOSE id \in SentOn(s) : TRUE))
      /\ UNCHANGED <<connWs, connWorkspace, connWindow, lastAckedSeq, mapVars, hsVars,
                    windowWorkspace, expired, restarts, clientVars, nextSock,
                    socketWindow, clientEnd, serverEnd, toServer, known, notice>>
  BY DEF Push
<1>2. ASSUME NEW s \in Sock, NEW id \in SentOn(s)
      PROVE  /\ id \in clients /\ id \in Sock /\ MatchesTarget(id, t) /\ connWs[id] = s
             /\ closeHandler[s] = id /\ handshake[s] = "completed" /\ serverEnd[s] = "open"
             /\ clientEnd[s] = "open"
  <2>1. id \in clients /\ id \in Sock /\ MatchesTarget(id, t) /\ connWs[id] = s
        /\ serverEnd[s] = "open" /\ clientEnd[s] # "closed"
    BY DEF IInv, TypeOK
  <2>2. closeHandler[s] = id
    BY <2>1 DEF NetInv, ListenerOK
  <2>3. handshake[s] = "completed" /\ clientEnd[s] = "open"
    BY <2>1, <2>2, SockFacts DEF NetInv, ListenerOK, SockOK
  <2> QED
    BY <2>1, <2>2, <2>3
<1> HIDE DEF SentOn
<1>3. ASSUME NEW s \in Sock, SentOn(s) # {}
      PROVE  \E id \in SentOn(s) : toClient'[s] = Append(toClient[s], PushedTo(id))
  BY <1>1, <1>3 DEF PushedTo
<1>4. ASSUME NEW id \in clients, NEW s \in Sock,
             MatchesTarget(id, t), connWs[id] = s, serverEnd[s] = "open", clientEnd[s] = "open"
      PROVE  toClient'[s] = Append(toClient[s], PushedTo(id))
  <2>1. id \in SentOn(s)
    BY <1>4 DEF SentOn, Retained
  <2> QED
    BY <1>2, <1>3, <2>1
<1>5. ASSUME NEW id \in Sock PROVE PushedTo(id) \in ToClientMsg
  <2>1. lastSentSeq[id] + 1 \in Nat /\ Len(published) + 1 \in Nat
    BY LenProperties DEF IInv, TypeOK
  <2> QED
    BY <2>1 DEF PushedTo, ToClientMsg, EventMsg
<1>6. ASSUME NEW s \in Sock
      PROVE \/ toClient'[s] = toClient[s]
            \/ \E id \in clients :
                   /\ MatchesTarget(id, t) /\ connWs[id] = s /\ closeHandler[s] = id
                   /\ handshake[s] = "completed" /\ serverEnd[s] = "open" /\ clientEnd[s] = "open"
                   /\ toClient'[s] = Append(toClient[s], PushedTo(id))
  <2>1. CASE SentOn(s) = {}
    BY <1>1, <2>1
  <2>2. CASE SentOn(s) # {}
    BY <1>2, <1>3, <2>2
  <2> QED
    BY <2>1, <2>2
<1> QED
  BY <1>1, <1>4, <1>5, <1>6

LEMMA PushNet == ASSUME IInv, NetInv, NEW t \in Target, Push(t) PROVE NetInv'
<1>1. /\ UNCHANGED <<connWs, mapVars, hsVars, clientVars, nextSock, socketWindow, clientEnd, serverEnd,
                     toServer>>
      /\ \A s \in Sock :
              \/ toClient'[s] = toClient[s]
              \/ /\ handshake[s] = "completed" /\ serverEnd[s] = "open" /\ clientEnd[s] = "open"
                 /\ toClient[s] \in Seq(ToClientMsg)
                 /\ \E e \in ToClientMsg : e.type = "event" /\ toClient'[s] = Append(toClient[s], e)
  <2>1. \A s \in Sock : toClient[s] \in Seq(ToClientMsg)
    BY DEF IInv, TypeOK
  <2>2. \A id \in Sock : PushedTo(id) \in ToClientMsg /\ PushedTo(id).type = "event"
    BY PushFacts DEF PushedTo
  <2>3. clients \subseteq Sock
    BY DEF IInv, TypeOK
  <2> QED
    BY <2>1, <2>2, <2>3, PushFacts
<1>2. ASSUME NEW s \in Sock
      PROVE  \/ toClient'[s] = toClient[s]
             \/ /\ handshake[s] = "completed" /\ serverEnd[s] = "open" /\ clientEnd[s] = "open"
                /\ toClient'[s] # <<>>
                /\ toClient[s] # <<>> => toClient'[s][1] = toClient[s][1]
                /\ \A k \in 1..2 : (\A i \in k..Len(toClient[s]) : toClient[s][i].type = "event") =>
                      \A i \in k..Len(toClient'[s]) : toClient'[s][i].type = "event"
  <2>1. CASE toClient'[s] = toClient[s]
    BY <2>1
  <2>2. CASE toClient'[s] # toClient[s]
    <3>1. PICK e \in ToClientMsg : e.type = "event" /\ toClient'[s] = Append(toClient[s], e)
      BY <1>1, <2>2
    <3> DEFINE q == toClient[s]
               r == toClient'[s]
               n == Len(q)
    <3>2. /\ r # <<>> /\ n \in Nat /\ Len(r) = n + 1 /\ r[n + 1] = e
          /\ \A i \in 1..n : r[i] = q[i]
          /\ q # <<>> => n # 0
      BY <1>1, <2>2, <3>1, AppendFacts, EmptySeq
    <3>3. handshake[s] = "completed" /\ serverEnd[s] = "open" /\ clientEnd[s] = "open"
      BY <1>1, <2>2
    <3> HIDE DEF q, r, n
    <3>4. q # <<>> => r[1] = q[1]
      BY <3>2
    <3>5. ASSUME NEW k \in 1..2, \A i \in k..n : q[i].type = "event", NEW i \in k..Len(r)
          PROVE  r[i].type = "event"
      <4>1. CASE i = n + 1
        BY <3>1, <3>2, <4>1
      <4>2. CASE i # n + 1
        <5>1. i \in k..n /\ i \in 1..n
          BY <3>2, <4>2
        <5> QED
          BY <3>2, <3>5, <5>1
      <4> QED
        BY <4>1, <4>2
    <3> QED
      BY <3>2, <3>3, <3>4, <3>5 DEF q, r, n
  <2> QED
    BY <2>1, <2>2
<1>3. ASSUME NEW s \in Sock PROVE SockOK(s)' /\ HandshakeOK(s)' /\ ListenerOK(s)'
  <2>1. SockOK(s) /\ HandshakeOK(s) /\ ListenerOK(s)
    BY DEF NetInv
  <2>2. SockOK(s)'
    BY <1>1, <2>1 DEF SockOK, hsVars, clientVars
  <2>3. HandshakeOK(s)' /\ ListenerOK(s)'
    BY <1>1, <2>1 DEF HandshakeOK, ListenerOK, mapVars, hsVars
  <2> QED
    BY <2>2, <2>3
<1>4. ASSUME NEW w \in Window PROVE ConnectedOK(w)' /\ AckOK(w)' /\ ConnectingOK(w)'
  <2>1. ConnectedOK(w) /\ AckOK(w) /\ ConnectingOK(w)
    BY DEF NetInv
  <2>2. ConnectedOK(w)'
    BY <1>1, <1>2, <2>1, WindowSocket DEF ConnectedOK, Connected, Born, clientVars, hsVars
  <2>3. AckOK(w)'
    <3> SUFFICES ASSUME AckWaits(w)' PROVE AckOK(w)'
      BY DEF AckOK
    <3>1. ws[w] \in Sock /\ ~Connected(w) /\ ws[w] # None
      BY <1>1, WindowSocket DEF AckWaits, Connected, clientVars
    <3>2. toClient[ws[w]] # <<>> /\ AckWaits(w)
      BY <1>1, <1>2, <2>1, <3>1 DEF ConnectingOK, AckWaits, Connected, clientVars
    <3>3. toClient'[ws[w]][1] = toClient[ws[w]][1]
      BY <1>2, <3>1, <3>2
    <3>4. \A i \in 2..Len(toClient'[ws[w]]) : toClient'[ws[w]][i].type = "event"
      <4>1. 2 \in 1..2
        OBVIOUS
      <4> QED
        BY <1>2, <2>1, <3>1, <3>2, <4>1 DEF AckOK
    <3> QED
      BY <1>1, <2>1, <3>2, <3>3, <3>4 DEF AckOK, AckWaits, Ack, clientVars, hsVars
  <2>4. ConnectingOK(w)'
    BY <1>1, <1>2, <2>1, WindowSocket DEF ConnectingOK, Connected, clientVars, hsVars
  <2> QED
    BY <2>2, <2>3, <2>4
<1> QED
  BY <1>3, <1>4 DEF NetInv

\* A message is sent by a window, or not.
LEMMA ClientSendFacts ==
  ASSUME IInv, NEW s \in Sock, NEW msg \in ToServerMsg, toServer' = ClientSend(s, msg)
  PROVE  /\ \A t \in Sock : t # s => toServer'[t] = toServer[t]
         /\ toServer'[s] = IF serverEnd[s] = "open" THEN Append(toServer[s], msg) ELSE toServer[s]
BY DEF ClientSend, IInv, TypeOK

LEMMA SendMessageNet ==
  ASSUME IInv, NetInv, NEW w \in Window, NEW msg \in ToServerMsg, SendMessage(w, msg)
  PROVE  NetInv'
<1> DEFINE s == ws[w]
<1>1. /\ Connected(w) /\ toServer' = ClientSend(s, msg)
      /\ UNCHANGED <<serverVars, ws, clientId, lastSeenSeq, pendingReconnect,
                 currentHandshakeWasReconnect, nextSock, socketWindow, clientEnd,
                 serverEnd, toClient, historyVars>>
  BY DEF SendMessage
<1>2. /\ s \in Sock /\ clientEnd[s] = "open" /\ handshake[s] \in {"none", "completed"} /\ serverEnd[s] # "none"
      /\ serverEnd[s] = "open" => closeHandler[s] = clientId[w] /\ clientId[w] # None
  BY <1>1, WindowSocket DEF NetInv, ConnectedOK, Born, Connected
<1>3. \A t \in Sock : t # s => toServer'[t] = toServer[t]
  BY <1>1, <1>2, ClientSendFacts
<1>4. toServer'[s] = toServer[s] \/ handshake[s] = "completed"
  BY <1>1, <1>2, ClientSendFacts DEF NetInv, ListenerOK
<1> HIDE DEF s
<1>5. ASSUME NEW t \in Sock PROVE SockOK(t)' /\ HandshakeOK(t)' /\ ListenerOK(t)'
  <2>1. SockOK(t) /\ HandshakeOK(t) /\ ListenerOK(t)
    BY DEF NetInv
  <2>2. SockOK(t)'
    BY <1>1, <1>2, <1>3, <2>1 DEF SockOK, serverVars, hsVars
  <2>3. HandshakeOK(t)'
    BY <1>1, <1>3, <1>4, <2>1 DEF HandshakeOK, serverVars, hsVars
  <2>4. ListenerOK(t)'
    BY <1>1, <2>1 DEF ListenerOK, serverVars, hsVars, mapVars, connVars
  <2> QED
    BY <2>2, <2>3, <2>4
<1>6. ASSUME NEW v \in Window PROVE ConnectedOK(v)' /\ AckOK(v)' /\ ConnectingOK(v)'
  <2>1. ConnectedOK(v) /\ AckOK(v) /\ ConnectingOK(v)
    BY DEF NetInv
  <2>2. ConnectedOK(v)'
    BY <1>1, <2>1 DEF ConnectedOK, Connected, Born, serverVars, hsVars
  <2>3. AckOK(v)'
    BY <1>1, <2>1 DEF AckOK, Connected, AckWaits, Ack, serverVars, hsVars
  <2>4. ConnectingOK(v)'
    <3>1. ws[v] # None /\ handshake[ws[v]] \in {"waiting", "auth"} => toServer'[ws[v]] = toServer[ws[v]]
      BY <1>2, <1>3, WindowSocket
    <3> QED
      BY <1>1, <2>1, <3>1 DEF ConnectingOK, Connected, serverVars, hsVars
  <2> QED
    BY <2>2, <2>3, <2>4
<1> QED
  BY <1>5, <1>6 DEF NetInv

LEMMA OnOpenNet == ASSUME IInv, NetInv, NEW w \in Window, OnOpen(w) PROVE NetInv'
<1> DEFINE s == ws[w]
           msg == [type |-> "handshake", reconnect |-> pendingReconnect[w]]
<1>1. /\ s # None /\ clientEnd[s] = "connecting" /\ serverEnd[s] # "none"
      /\ toServer' = ClientSend(s, msg)
      /\ UNCHANGED <<serverVars, ws, clientId, lastSeenSeq, pendingReconnect, switches,
                 nextSock, socketWindow, serverEnd, toClient, historyVars>>
  BY DEF OnOpen
<1>2. s \in Sock /\ socketWindow[s] = w
  BY <1>1, WindowSocket
<1>3. /\ clientEnd'[s] = "open" /\ \A t \in Sock : t # s => clientEnd'[t] = clientEnd[t]
      /\ currentHandshakeWasReconnect'[w] = (pendingReconnect[w] # NoReconnect)
      /\ \A v \in Window : v # w => currentHandshakeWasReconnect'[v] = currentHandshakeWasReconnect[v]
  BY <1>2 DEF OnOpen, IInv, TypeOK
<1>4. ~Connected(w) /\ toServer[s] = <<>> /\ handshake[s] \notin {"auth", "completed"} /\ toClient[s] = <<>>
  BY <1>1, <1>2 DEF NetInv, ConnectedOK, SockOK
<1>5. msg \in ToServerMsg
  BY DEF IInv, TypeOK, ToServerMsg, HandshakeMsg
<1>6. /\ \A t \in Sock : t # s => toServer'[t] = toServer[t]
      /\ toServer'[s] = toServer[s] \/ (toServer'[s] = Append(toServer[s], msg))
  BY <1>1, <1>2, <1>5, ClientSendFacts
<1>7. /\ Len(toServer'[s]) <= 1
      /\ \A i \in 1..Len(toServer'[s]) : toServer'[s][i] = msg
      /\ toServer'[s] # <<>> => toServer'[s][1] = msg
  <2> DEFINE q == toServer'[s]
  <2> HIDE DEF msg, q
  <2>1. q = <<>> \/ q = Append(<<>>, msg)
    BY <1>4, <1>6 DEF q
  <2>2. Append(<<>>, msg) = <<msg>>
    OBVIOUS
  <2>3. /\ Len(q) <= 1
        /\ \A i \in 1..Len(q) : q[i] = msg
        /\ q # <<>> => q[1] = msg
    BY <2>1, <2>2, EmptySeq
  <2> QED
    BY <2>3 DEF q
<1> HIDE DEF s
<1>8. ASSUME NEW t \in Sock PROVE SockOK(t)' /\ HandshakeOK(t)' /\ ListenerOK(t)'
  <2>1. SockOK(t) /\ HandshakeOK(t) /\ ListenerOK(t)
    BY DEF NetInv
  <2>2. SockOK(t)'
    <3>1. nextSock > s
      BY <1>1, <1>2 DEF IInv, SocketInv, s
    <3>2. t >= nextSock => t # s
      BY <3>1, <1>2, SockFacts DEF IInv, TypeOK
    <3> QED
      BY <1>1, <1>2, <1>3, <1>4, <1>6, <2>1, <3>2 DEF SockOK, serverVars, hsVars, s
  <2>3. HandshakeOK(t)'
    BY <1>1, <1>6, <1>7, <2>1 DEF HandshakeOK, serverVars, hsVars
  <2>4. ListenerOK(t)'
    BY <1>1, <2>1 DEF ListenerOK, serverVars, hsVars, mapVars, connVars
  <2> QED
    BY <2>2, <2>3, <2>4
<1>9. ASSUME NEW v \in Window PROVE ConnectedOK(v)' /\ AckOK(v)' /\ ConnectingOK(v)'
  <2>1. ConnectedOK(v) /\ AckOK(v) /\ ConnectingOK(v)
    BY DEF NetInv
  <2>2. CASE v = w
    <3>1. ConnectedOK(v)' /\ AckOK(v)'
      BY <1>1, <1>4, <2>2 DEF ConnectedOK, AckOK, Connected, AckWaits, s
    <3>2. ConnectingOK(v)'
      BY <1>1, <1>3, <1>4, <1>7, <2>1, <2>2 DEF ConnectingOK, Connected, serverVars, hsVars, s
    <3> QED
      BY <3>1, <3>2
  <2>3. CASE v # w
    <3>1. ws[v] # None => ws[v] \in Sock /\ ws[v] # s
      BY <1>2, <2>3, WindowSocket
    <3>2. ConnectedOK(v)'
      BY <1>1, <1>3, <2>1, <3>1 DEF ConnectedOK, Connected, Born, serverVars, hsVars
    <3>3. AckOK(v)'
      BY <1>1, <1>3, <2>1, <2>3, <3>1 DEF AckOK, Connected, AckWaits, Ack, serverVars, hsVars
    <3>4. ConnectingOK(v)'
      BY <1>1, <1>3, <1>6, <2>1, <2>3, <3>1 DEF ConnectingOK, Connected, serverVars, hsVars
    <3> QED
      BY <3>2, <3>3, <3>4
  <2> QED
    BY <2>2, <2>3
<1> QED
  BY <1>8, <1>9 DEF NetInv

LEMMA ConnectNet == ASSUME IInv, NetInv, NEW w \in Window, Connect(w) PROVE NetInv'
<1> DEFINE n == nextSock
<1>1. /\ ~Connected(w) /\ n \in Sock /\ nextSock' = n + 1
      /\ ws'[w] = n /\ \A v \in Window : v # w => ws'[v] = ws[v]
      /\ socketWindow'[n] = w /\ \A t \in Sock : t # n => socketWindow'[t] = socketWindow[t]
      /\ \A t \in Sock : clientEnd'[t] = IF t = n THEN "connecting"
                                         ELSE IF t = ws[w] THEN "closed" ELSE clientEnd[t]
      /\ \A t \in Sock : toClient'[t] = IF t = ws[w] THEN <<>> ELSE toClient[t]
      /\ UNCHANGED <<serverVars, clientId, lastSeenSeq, pendingReconnect,
                 currentHandshakeWasReconnect, switches, serverEnd, toServer, historyVars>>
  BY DEF Connect, IInv, TypeOK, Sock
<1>2. /\ clientEnd[n] = "none" /\ toServer[n] = <<>> /\ toClient[n] = <<>>
      /\ handshake[n] \notin {"auth", "completed"}
      /\ \A v \in Window : ws[v] # n
  <2>1. n \in Nat
    BY <1>1, SockFacts
  <2>2. \A v \in Window : ws[v] # n
    BY <1>1, <2>1 DEF IInv, SocketInv
  <2> QED
    BY <1>1, <2>1, <2>2 DEF NetInv, SockOK
<1>3. \A v \in Window, t \in Sock : ws[v] = t => socketWindow[t] = v
  BY DEF IInv, SocketInv
<1>4. n # None /\ \A t \in Sock : t >= n + 1 => t >= n /\ t # n /\ t # ws[w]
  <2>1. \A t \in Sock : t = ws[w] => t < n
    BY DEF IInv, SocketInv
  <2> QED
    BY <1>1, <2>1, SockFacts
<1> HIDE DEF n
<1>5. ASSUME NEW t \in Sock PROVE SockOK(t)' /\ HandshakeOK(t)' /\ ListenerOK(t)'
  <2>1. SockOK(t) /\ HandshakeOK(t) /\ ListenerOK(t)
    BY DEF NetInv
  <2>2. SockOK(t)'
    <3>1. UNCHANGED <<toServer, serverEnd, handshake>> /\ socketWindow'[n] = w
      BY <1>1 DEF serverVars, hsVars
    <3>2. clientEnd[t] \in {"connecting", "open"} /\ t # ws[w] => ws'[socketWindow[t]] = t
      <4> SUFFICES ASSUME clientEnd[t] \in {"connecting", "open"}, t # ws[w]
                   PROVE  ws'[socketWindow[t]] = t
        OBVIOUS
      <4>1. ws[socketWindow[t]] = t /\ socketWindow[t] \in Window
        BY <2>1 DEF SockOK, IInv, SocketInv
      <4> QED
        BY <1>1, <4>1
    <3>3. clientEnd'[n] = "connecting" /\ toClient'[n] = <<>> /\ ws'[socketWindow'[n]] = n /\ ~(n >= nextSock')
      BY <1>1, <1>2, SockFacts
    <3>4. CASE t = n
      BY <1>1, <1>2, <3>1, <3>3, <3>4 DEF SockOK
    <3>5. CASE t # n
      <4>1. socketWindow'[t] = socketWindow[t]
        BY <1>1, <3>5
      <4>2. CASE t = ws[w]
        <5>1. clientEnd'[t] = "closed" /\ toClient'[t] = <<>>
          BY <1>1, <3>5, <4>2
        <5>2. ~(t >= nextSock')
          BY <1>1, <1>4, <4>2
        <5>3. toServer[t] # <<>> => serverEnd[t] # "none"
          BY <2>1 DEF SockOK
        <5> QED
          BY <3>1, <5>1, <5>2, <5>3 DEF SockOK
      <4>3. CASE t # ws[w]
        <5>1. clientEnd'[t] = clientEnd[t] /\ toClient'[t] = toClient[t]
          BY <1>1, <3>5, <4>3
        <5>2. t >= nextSock' => t >= n
          BY <1>1, <1>4
        <5> QED
          BY <2>1, <3>1, <3>2, <4>1, <4>3, <5>1, <5>2 DEF SockOK, n
      <4> QED
        BY <4>2, <4>3
    <3> QED
      BY <3>4, <3>5
  <2>3. HandshakeOK(t)'
    BY <1>1, <2>1 DEF HandshakeOK, serverVars, hsVars
  <2>4. ListenerOK(t)'
    BY <1>1, <2>1 DEF ListenerOK, serverVars, hsVars, mapVars, connVars
  <2> QED
    BY <2>2, <2>3, <2>4
<1>6. ASSUME NEW v \in Window PROVE ConnectedOK(v)' /\ AckOK(v)' /\ ConnectingOK(v)'
  <2>1. ConnectedOK(v) /\ AckOK(v) /\ ConnectingOK(v)
    BY DEF NetInv
  <2>2. CASE v = w
    <3>1. ws'[v] = n /\ ~Connected(v)' /\ toClient'[n] = <<>> /\ clientEnd'[n] = "connecting"
      BY <1>1, <1>2, <2>2 DEF Connected
    <3>2. ConnectedOK(v)' /\ AckOK(v)'
      BY <3>1 DEF ConnectedOK, AckOK, AckWaits
    <3>3. ConnectingOK(v)'
      BY <1>1, <1>2, <1>4, <2>1, <2>2, <3>1 DEF ConnectingOK, Connected, serverVars, hsVars
    <3> QED
      BY <3>2, <3>3
  <2>3. CASE v # w
    <3>1. ws'[v] = ws[v] /\ (ws[v] # None => ws[v] \in Sock /\ ws[v] # n /\ ws[v] # ws[w])
      BY <1>1, <1>2, <1>3, <2>3, WindowSocket
    <3>2. ConnectedOK(v)'
      BY <1>1, <2>1, <3>1 DEF ConnectedOK, Connected, Born, serverVars, hsVars
    <3>3. AckOK(v)'
      BY <1>1, <2>1, <3>1 DEF AckOK, Connected, AckWaits, Ack, serverVars, hsVars
    <3>4. ConnectingOK(v)'
      BY <1>1, <2>1, <3>1 DEF ConnectingOK, Connected, serverVars, hsVars
    <3> QED
      BY <3>2, <3>3, <3>4
  <2> QED
    BY <2>2, <2>3
<1> QED
  BY <1>5, <1>6 DEF NetInv

LEMMA OnDisconnectNet == ASSUME IInv, NetInv, NEW w \in Window, OnDisconnect(w) PROVE NetInv'
<1> DEFINE s == ws[w]
<1>1. /\ s # None
      /\ UNCHANGED <<serverVars, lastSeenSeq, currentHandshakeWasReconnect, switches,
                 nextSock, socketWindow, serverEnd, toServer, historyVars>>
  BY DEF OnDisconnect
<1>2. s \in Sock /\ socketWindow[s] = w
  BY <1>1, WindowSocket
<1>3. /\ clientEnd'[s] = "closed" /\ toClient'[s] = <<>>
      /\ \A t \in Sock : t # s => clientEnd'[t] = clientEnd[t] /\ toClient'[t] = toClient[t]
      /\ ws'[w] = None /\ clientId'[w] = None
      /\ pendingReconnect'[w] = IF Connected(w) THEN [clientId |-> clientId[w], lastSeq |-> lastSeenSeq[w]]
                                ELSE pendingReconnect[w]
      /\ \A v \in Window : v # w => /\ ws'[v] = ws[v] /\ clientId'[v] = clientId[v]
                                    /\ pendingReconnect'[v] = pendingReconnect[v]
  BY <1>2 DEF OnDisconnect, IInv, TypeOK
<1> HIDE DEF s
<1>5. ASSUME NEW t \in Sock PROVE SockOK(t)' /\ HandshakeOK(t)' /\ ListenerOK(t)'
  <2>1. SockOK(t) /\ HandshakeOK(t) /\ ListenerOK(t)
    BY DEF NetInv
  <2>2. SockOK(t)'
    <3>1. UNCHANGED <<toServer, serverEnd, handshake, nextSock, socketWindow>>
      BY <1>1 DEF serverVars, hsVars
    <3>2. s < nextSock
      BY <1>2 DEF IInv, SocketInv, s
    <3>3. clientEnd[t] \in {"connecting", "open"} /\ t # s => ws'[socketWindow[t]] = t
      <4> SUFFICES ASSUME clientEnd[t] \in {"connecting", "open"}, t # s
                   PROVE  ws'[socketWindow[t]] = t
        OBVIOUS
      <4>1. ws[socketWindow[t]] = t /\ socketWindow[t] \in Window
        BY <2>1 DEF SockOK, IInv, SocketInv
      <4> QED
        BY <1>3, <4>1 DEF s
    <3>4. t >= nextSock => t # s
      BY <3>2, <1>2, SockFacts DEF IInv, TypeOK
    <3> QED
      BY <1>3, <2>1, <3>1, <3>3, <3>4 DEF SockOK
  <2>3. HandshakeOK(t)'
    BY <1>1, <2>1 DEF HandshakeOK, serverVars, hsVars
  <2>4. ListenerOK(t)'
    BY <1>1, <2>1 DEF ListenerOK, serverVars, hsVars, mapVars, connVars
  <2> QED
    BY <2>2, <2>3, <2>4
<1>6. ASSUME NEW v \in Window PROVE ConnectedOK(v)' /\ AckOK(v)' /\ ConnectingOK(v)'
  <2>1. ConnectedOK(v) /\ AckOK(v) /\ ConnectingOK(v)
    BY DEF NetInv
  <2>2. CASE v = w
    <3>1. ConnectedOK(v)' /\ AckOK(v)'
      BY <1>3, <2>2 DEF ConnectedOK, AckOK, AckWaits, Connected
    <3>2. ConnectingOK(v)'
      BY <1>1, <1>3, <2>1, <2>2 DEF ConnectingOK, Connected, serverVars, hsVars
    <3> QED
      BY <3>1, <3>2
  <2>3. CASE v # w
    <3>1. ws'[v] = ws[v] /\ (ws[v] # None => ws[v] \in Sock /\ ws[v] # s)
      BY <1>2, <1>3, <2>3, WindowSocket
    <3>2. ConnectedOK(v)'
      BY <1>1, <1>3, <2>1, <2>3, <3>1 DEF ConnectedOK, Connected, Born, serverVars, hsVars
    <3>3. AckOK(v)'
      BY <1>1, <1>3, <2>1, <2>3, <3>1 DEF AckOK, Connected, AckWaits, Ack, serverVars, hsVars
    <3>4. ConnectingOK(v)'
      BY <1>1, <1>3, <2>1, <2>3, <3>1 DEF ConnectingOK, Connected, serverVars, hsVars
    <3> QED
      BY <3>2, <3>3, <3>4
  <2> QED
    BY <2>2, <2>3
<1> QED
  BY <1>5, <1>6 DEF NetInv

\* What a window receives is the first message of its socket's queue.
LEMMA ReceivedFacts ==
  ASSUME IInv, NEW w \in Window, NEW kind, Receive(w, kind)
  PROVE  /\ ws[w] \in Sock /\ ws[w] # None /\ socketWindow[ws[w]] = w /\ clientEnd[ws[w]] = "open"
         /\ toClient[ws[w]] \in Seq(ToClientMsg) /\ toClient[ws[w]] # <<>>
         /\ Head(toClient[ws[w]]) = toClient[ws[w]][1] /\ toClient[ws[w]][1].type = kind
         /\ toClient[ws[w]][1] \in ToClientMsg
         /\ Len(toClient[ws[w]]) \in Nat \ {0}
         /\ toClient'[ws[w]] \in Seq(ToClientMsg)
         /\ Len(toClient'[ws[w]]) = Len(toClient[ws[w]]) - 1
         /\ \A i \in 1..Len(toClient'[ws[w]]) : toClient'[ws[w]][i] = toClient[ws[w]][i + 1]
         /\ \A t \in Sock : t # ws[w] => toClient'[t] = toClient[t]
<1> DEFINE s == ws[w]
           q == toClient[s]
<1>1. s \in Sock /\ s # None /\ socketWindow[s] = w /\ clientEnd[s] = "open" /\ q # <<>> /\ Head(q).type = kind
  BY WindowSocket DEF Receive
<1>2. q \in Seq(ToClientMsg) /\ toClient'[s] = Tail(q) /\ \A t \in Sock : t # s => toClient'[t] = toClient[t]
  BY <1>1 DEF Receive, IInv, TypeOK
<1> HIDE DEF q
<1>3. /\ Head(q) = q[1] /\ Tail(q) \in Seq(ToClientMsg)
      /\ Len(q) \in Nat \ {0} /\ Len(Tail(q)) = Len(q) - 1
      /\ \A i \in 1..Len(Tail(q)) : Tail(q)[i] = q[i + 1]
  BY <1>1, <1>2, TailFacts
<1>4. Head(q) \in ToClientMsg
  BY <1>1, <1>2, HeadTailProperties
<1> QED
  BY <1>1, <1>2, <1>3, <1>4 DEF q

\* The rest of the queue of a window is events, once its acknowledgement is read.
LEMMA RestOfQueue ==
  ASSUME IInv, NetInv, NEW w \in Window, NEW kind, Receive(w, kind)
  PROVE  /\ \A i \in 1..Len(toClient'[ws[w]]) : toClient'[ws[w]][i].type = "event"
         /\ kind = "handshake_ack" => AckWaits(w)
         /\ kind = "event" => Connected(w)
         /\ Head(toClient[ws[w]]) = toClient[ws[w]][1]
<1> DEFINE q == toClient[ws[w]]
           r == toClient'[ws[w]]
           n == Len(q)
<1>1. /\ ws[w] # None /\ q # <<>> /\ Head(q) = q[1] /\ q[1].type = kind /\ n \in Nat \ {0}
      /\ Len(r) = n - 1 /\ \A i \in 1..Len(r) : r[i] = q[i + 1]
  BY ReceivedFacts
<1>2. Connected(w) => \A i \in 1..n : q[i].type = "event"
  BY DEF NetInv, ConnectedOK
<1>3. ~Connected(w) => AckWaits(w) /\ q[1].type = "handshake_ack" /\ \A i \in 2..n : q[i].type = "event"
  BY <1>1 DEF NetInv, AckOK, AckWaits, Ack
<1> HIDE DEF q, r, n
<1>4. ASSUME NEW i \in 1..Len(r) PROVE r[i].type = "event"
  <2>1. i + 1 \in 2..n /\ i + 1 \in 1..n
    BY <1>1
  <2> QED
    BY <1>1, <1>2, <1>3, <2>1
<1>5. Connected(w) => q[1].type = "event"
  BY <1>1, <1>2
<1>6. /\ kind = "handshake_ack" => AckWaits(w)
      /\ kind = "event" => Connected(w)
  BY <1>1, <1>3, <1>5
<1> QED
  BY <1>1, <1>4, <1>6 DEF q, r

\* The socket of a window that reads its messages has had its handshake.
LEMMA ReadingBorn ==
  ASSUME IInv, NetInv, NEW s \in Sock, toClient[s] # <<>>
  PROVE  Born(s)
BY DEF Born, NetInv, SockOK, IInv, TypeOK

LEMMA OnHandshakeAckNet == ASSUME IInv, NetInv, NEW w \in Window, OnHandshakeAck(w) PROVE NetInv'
<1> DEFINE s == ws[w]
           ack == toClient[s][1]
<1>1. Receive(w, "handshake_ack")
  BY DEF OnHandshakeAck
<1>2. /\ s \in Sock /\ s # None /\ socketWindow[s] = w /\ clientEnd[s] = "open" /\ toClient[s] # <<>>
      /\ ack \in ToClientMsg /\ ack.type = "handshake_ack"
      /\ \A t \in Sock : t # s => toClient'[t] = toClient[t]
  BY <1>1, ReceivedFacts
<1>3. /\ \A i \in 1..Len(toClient'[s]) : toClient'[s][i].type = "event"
      /\ AckWaits(w) /\ Head(toClient[s]) = ack
  BY <1>1, RestOfQueue
<1>4. ack.clientId \in Sock
  BY <1>2 DEF ToClientMsg, AckMsg, EventMsg
<1>5. /\ clientId'[w] = ack.clientId /\ pendingReconnect'[w] = NoReconnect
      /\ \A v \in Window : v # w =>
           /\ clientId'[v] = clientId[v] /\ pendingReconnect'[v] = pendingReconnect[v]
           /\ lastSeenSeq'[v] = lastSeenSeq[v]
           /\ currentHandshakeWasReconnect'[v] = currentHandshakeWasReconnect[v]
      /\ UNCHANGED <<serverVars, ws, switches, nextSock, socketWindow, clientEnd, serverEnd,
                    toServer, published>>
  BY <1>3 DEF OnHandshakeAck, IInv, TypeOK
<1>6. Born(s)
  BY <1>2, ReadingBorn
<1>7. serverEnd[s] = "open" => closeHandler[s] = ack.clientId
  BY <1>3 DEF NetInv, AckOK, Ack
<1>8. handshake[s] \notin {"waiting", "auth"}
  BY <1>6 DEF Born
<1> HIDE DEF s, ack
<1>9. ASSUME NEW t \in Sock PROVE SockOK(t)' /\ HandshakeOK(t)' /\ ListenerOK(t)'
  <2>1. SockOK(t) /\ HandshakeOK(t) /\ ListenerOK(t) /\ SockOK(s)
    BY <1>2 DEF NetInv
  <2>2. SockOK(t)'
    BY <1>2, <1>5, <1>6, <2>1 DEF SockOK, serverVars, hsVars, Born
  <2>3. HandshakeOK(t)' /\ ListenerOK(t)'
    BY <1>5, <2>1 DEF HandshakeOK, ListenerOK, serverVars, hsVars, mapVars, connVars
  <2> QED
    BY <2>2, <2>3
<1>10. ASSUME NEW v \in Window PROVE ConnectedOK(v)' /\ AckOK(v)' /\ ConnectingOK(v)'
  <2>1. ConnectedOK(v) /\ AckOK(v) /\ ConnectingOK(v)
    BY DEF NetInv
  <2>2. CASE v = w
    <3>0. ws'[v] = s /\ Connected(v)'
      BY <1>4, <1>5, <2>2, SockFacts DEF s, Connected
    <3>1. ConnectedOK(v)'
      BY <1>2, <1>3, <1>5, <1>6, <1>7, <2>2, <3>0 DEF ConnectedOK, Born, serverVars, hsVars
    <3>2. AckOK(v)'
      BY <3>0 DEF AckOK, AckWaits
    <3>3. ConnectingOK(v)'
      BY <1>2, <1>5, <1>8, <3>0 DEF ConnectingOK, serverVars, hsVars
    <3> QED
      BY <3>1, <3>2, <3>3
  <2>3. CASE v # w
    <3>1. ws[v] # None => ws[v] \in Sock /\ ws[v] # s
      BY <1>2, <2>3, WindowSocket
    <3>2. ConnectedOK(v)'
      BY <1>2, <1>5, <2>1, <2>3, <3>1 DEF ConnectedOK, Connected, Born, serverVars, hsVars
    <3>3. AckOK(v)'
      BY <1>2, <1>5, <2>1, <2>3, <3>1 DEF AckOK, Connected, AckWaits, Ack, serverVars, hsVars
    <3>4. ConnectingOK(v)'
      BY <1>2, <1>5, <2>1, <2>3, <3>1 DEF ConnectingOK, Connected, serverVars, hsVars
    <3> QED
      BY <3>2, <3>3, <3>4
  <2> QED
    BY <2>2, <2>3
<1> QED
  BY <1>9, <1>10 DEF NetInv

LEMMA OnEventNet == ASSUME IInv, NetInv, NEW w \in Window, OnEvent(w) PROVE NetInv'
<1> DEFINE s == ws[w]
<1>1. Receive(w, "event")
  BY DEF OnEvent
<1>2. /\ s \in Sock /\ s # None /\ socketWindow[s] = w /\ clientEnd[s] = "open" /\ toClient[s] # <<>>
      /\ \A t \in Sock : t # s => toClient'[t] = toClient[t]
  BY <1>1, ReceivedFacts
<1>3. /\ \A i \in 1..Len(toClient'[s]) : toClient'[s][i].type = "event"
      /\ Connected(w)
  BY <1>1, RestOfQueue
<1>5. /\ \A v \in Window : v # w => lastSeenSeq'[v] = lastSeenSeq[v]
      /\ UNCHANGED <<serverVars, ws, clientId, pendingReconnect,
                    currentHandshakeWasReconnect, switches, nextSock, socketWindow,
                    clientEnd, serverEnd, toServer, published>>
  BY DEF OnEvent, IInv, TypeOK
<1>6. Born(s)
  BY <1>2, ReadingBorn
<1>8. handshake[s] \notin {"waiting", "auth"}
  BY <1>6 DEF Born
<1> HIDE DEF s
<1>9. ASSUME NEW t \in Sock PROVE SockOK(t)' /\ HandshakeOK(t)' /\ ListenerOK(t)'
  <2>1. SockOK(t) /\ HandshakeOK(t) /\ ListenerOK(t) /\ SockOK(s)
    BY <1>2 DEF NetInv
  <2>2. SockOK(t)'
    BY <1>2, <1>5, <1>6, <2>1 DEF SockOK, serverVars, hsVars, Born
  <2>3. HandshakeOK(t)' /\ ListenerOK(t)'
    BY <1>5, <2>1 DEF HandshakeOK, ListenerOK, serverVars, hsVars, mapVars, connVars
  <2> QED
    BY <2>2, <2>3
<1>10. ASSUME NEW v \in Window PROVE ConnectedOK(v)' /\ AckOK(v)' /\ ConnectingOK(v)'
  <2>1. ConnectedOK(v) /\ AckOK(v) /\ ConnectingOK(v)
    BY DEF NetInv
  <2>2. CASE v = w
    <3>0. ws'[v] = s /\ Connected(v) /\ Connected(v)' /\ ws[v] = s
      BY <1>3, <1>5, <2>2 DEF s, Connected
    <3>1. ConnectedOK(v)'
      BY <1>3, <1>5, <2>1, <3>0 DEF ConnectedOK, Born, serverVars, hsVars
    <3>2. AckOK(v)'
      BY <3>0 DEF AckOK, AckWaits
    <3>3. ConnectingOK(v)'
      BY <1>2, <1>5, <1>8, <3>0 DEF ConnectingOK, serverVars, hsVars
    <3> QED
      BY <3>1, <3>2, <3>3
  <2>3. CASE v # w
    <3>1. ws[v] # None => ws[v] \in Sock /\ ws[v] # s
      BY <1>2, <2>3, WindowSocket
    <3>2. ConnectedOK(v)'
      BY <1>2, <1>5, <2>1, <2>3, <3>1 DEF ConnectedOK, Connected, Born, serverVars, hsVars
    <3>3. AckOK(v)'
      BY <1>2, <1>5, <2>1, <2>3, <3>1 DEF AckOK, Connected, AckWaits, Ack, serverVars, hsVars
    <3>4. ConnectingOK(v)'
      BY <1>2, <1>5, <2>1, <2>3, <3>1 DEF ConnectingOK, Connected, serverVars, hsVars
    <3> QED
      BY <3>2, <3>3, <3>4
  <2> QED
    BY <2>2, <2>3
<1> QED
  BY <1>9, <1>10 DEF NetInv

\* What a window sends is a message.
LEMMA SentType ==
  ASSUME IInv, NEW w \in Window, NEW x \in Workspace
  PROVE  /\ [type |-> "sequence_ack", lastSeq |-> lastSeenSeq[w]] \in ToServerMsg
         /\ [type |-> "switchWorkspace", workspaceId |-> x] \in ToServerMsg
BY DEF IInv, TypeOK, ToServerMsg, SequenceAckMsg, SwitchMsg

\* No step breaks the invariant.
LEMMA StepNet == ASSUME IInv, NetInv, [Next]_vars PROVE NetInv'
<1>1. CASE UNCHANGED vars
  BY <1>1, NetSame DEF vars, serverVars, connVars, mapVars, hsVars, netVars, clientVars
<1>2. CASE ServerNext
  BY <1>2, PushNet, EventsAgeNet, DisconnectedExpiresNet, RestartNet, OnConnectionNet, OnHandshakeNet,
     RejectHandshakeNet, CompleteReconnectNet, CompleteFreshNet, OnSequenceAckNet, OnSwitchWorkspaceNet,
     OnCloseNet DEF ServerNext
<1>3. ASSUME NEW w \in Window, SendSequenceAck(w) PROVE NetInv'
  <2>1. [type |-> "sequence_ack", lastSeq |-> lastSeenSeq[w]] \in ToServerMsg
    BY DEF IInv, TypeOK, ToServerMsg, SequenceAckMsg
  <2> QED
    BY <1>3, <2>1, SendMessageNet DEF SendSequenceAck
<1>4. ASSUME NEW w \in Window, NEW x \in Workspace, SwitchWorkspace(w, x) PROVE NetInv'
  BY <1>4, SendMessageNet, SentType DEF SwitchWorkspace
<1>5. CASE ClientNext
  BY <1>3, <1>4, <1>5, ConnectNet, OnOpenNet, OnHandshakeAckNet, OnEventNet, OnDisconnectNet DEF ClientNext
<1> QED
  BY <1>1, <1>2, <1>5 DEF Next

-----------------------------------------------------------------------------
(* The inductive invariant: acknowledgements *)

\* The acknowledgements under way to client id do not go beyond a number.
QueuedAcks(id, seen) ==
  \A s \in Sock : closeHandler[s] = id =>
    \A i \in 1..Len(toServer[s]) :
      toServer[s][i].type = "sequence_ack" => toServer[s][i].lastSeq <= seen

\* Window w has seen the events of client id up to number seen, and what is
\* acknowledged for it, or about to be, does not go further.
LinkOK(w, id, seen) ==
  /\ connWindow[id] = w /\ Born(id)
  /\ lastAckedSeq[id] <= seen /\ seen <= lastSentSeq[id]
  /\ QueuedAcks(id, seen)

\* No acknowledgement goes beyond what was sent.
AckedOK(id) == lastAckedSeq[id] <= lastSentSeq[id] /\ QueuedAcks(id, lastSentSeq[id])

\* The numbers in a queue rise, above what was seen and up to what was sent.
Rising(q, from, seen, last) ==
  /\ \A i \in from..Len(q) : q[i].seq \in Nat /\ seen < q[i].seq /\ q[i].seq <= last
  /\ \A i, j \in from..Len(q) : i < j => q[i].seq < q[j].seq

SeenConnected(w) ==
  Connected(w) =>
    /\ LinkOK(w, clientId[w], lastSeenSeq[w])
    /\ Rising(toClient[ws[w]], 1, lastSeenSeq[w], lastSentSeq[clientId[w]])

AckSeen(w) == IF Ack(w).reconnected THEN lastSeenSeq[w] ELSE 0

SeenAcked(w) ==
  AckWaits(w) =>
    /\ LinkOK(w, Ack(w).clientId, AckSeen(w))
    /\ Rising(toClient[ws[w]], 2, AckSeen(w), lastSentSeq[Ack(w).clientId])

SeenResume(w) ==
  ~Connected(w) /\ pendingReconnect[w].clientId # None =>
    LinkOK(w, pendingReconnect[w].clientId, pendingReconnect[w].lastSeq)

SeenInv ==
  /\ \A w \in Window : SeenConnected(w) /\ SeenAcked(w) /\ SeenResume(w)
  /\ \A id \in Sock : AckedOK(id)

LEMMA InitSeen == Init => SeenInv
<1> SUFFICES ASSUME Init PROVE SeenInv
  OBVIOUS
<1>1. ASSUME NEW w \in Window PROVE SeenConnected(w) /\ SeenAcked(w) /\ SeenResume(w)
  BY DEF Init, SeenConnected, SeenAcked, SeenResume, Connected, AckWaits, NoReconnect
<1>2. \A id \in Sock : AckedOK(id)
  BY SockFacts, EmptySeq DEF Init, AckedOK, QueuedAcks
<1> QED
  BY <1>1, <1>2 DEF SeenInv

\* The acknowledgement that a window has to read.
LEMMA AckFacts ==
  ASSUME IInv, NetInv, NEW w \in Window, AckWaits(w)
  PROVE  /\ ws[w] \in Sock /\ socketWindow[ws[w]] = w /\ Ack(w).type = "handshake_ack"
         /\ Ack(w).clientId \in Sock /\ Ack(w).upto \in Nat
         /\ Ack(w).reconnected \in BOOLEAN /\ Ack(w).stale \in BOOLEAN
<1>1. ws[w] \in Sock /\ socketWindow[ws[w]] = w /\ toClient[ws[w]] # <<>> /\ Ack(w).type = "handshake_ack"
  BY WindowSocket DEF AckWaits, NetInv, AckOK
<1>2. toClient[ws[w]] \in Seq(ToClientMsg)
  BY <1>1 DEF IInv, TypeOK
<1>3. Ack(w) \in ToClientMsg
  BY <1>1, <1>2, HeadTailProperties, TailFacts DEF Ack
<1>4. Ack(w) \in AckMsg
  BY <1>1, <1>3 DEF ToClientMsg, EventMsg
<1> QED
  BY <1>1, <1>4 DEF AckMsg

\* The links of all windows to clients outlast a step.
LinksKept ==
  \A w \in Window, id \in Sock, seen \in Nat : LinkOK(w, id, seen) => LinkOK(w, id, seen)'

\* What was sent to a client in use does not become less.
SentGrows == \A id \in Sock : Born(id) => lastSentSeq'[id] >= lastSentSeq[id]

LEMMA RisingMore ==
  ASSUME IInv, NEW id \in Sock, NEW q, NEW from, NEW seen \in Nat, Rising(q, from, seen, lastSentSeq[id]),
         Born(id), SentGrows, lastSentSeq' \in [Sock -> Nat]
  PROVE  Rising(q, from, seen, lastSentSeq'[id])
<1>1. lastSentSeq'[id] \in Nat /\ lastSentSeq[id] \in Nat /\ lastSentSeq'[id] >= lastSentSeq[id]
  BY DEF IInv, TypeOK, SentGrows
<1> QED
  BY <1>1 DEF Rising

LEMMA QueuedAcksMore ==
  ASSUME IInv, NEW id \in Sock, NEW m \in Nat, NEW n \in Nat, m <= n, QueuedAcks(id, m)
  PROVE  QueuedAcks(id, n)
<1>1. ASSUME NEW s \in Sock, NEW i \in 1..Len(toServer[s]), toServer[s][i].type = "sequence_ack"
      PROVE  toServer[s][i].lastSeq \in Nat
  <2>1. toServer[s][i] \in ToServerMsg
    BY ElementOfSeq DEF IInv, TypeOK
  <2> QED
    BY <1>1, <2>1 DEF ToServerMsg, HandshakeMsg, SequenceAckMsg, SwitchMsg
<1> QED
  BY <1>1 DEF QueuedAcks

\* A window that a step leaves alone keeps what it has.
LEMMA ConnectedSame ==
  ASSUME IInv, NetInv, SeenInv, LinksKept, SentGrows, lastSentSeq' \in [Sock -> Nat], NEW w \in Window,
         ws'[w] = ws[w], clientId'[w] = clientId[w], lastSeenSeq'[w] = lastSeenSeq[w],
         toClient'[ws[w]] = toClient[ws[w]]
  PROVE  SeenConnected(w)'
<1> SUFFICES ASSUME Connected(w)' PROVE SeenConnected(w)'
  BY DEF SeenConnected
<1>1. Connected(w) /\ clientId[w] \in Sock /\ lastSeenSeq[w] \in Nat
  BY WindowSocket DEF Connected, IInv, TypeOK
<1>2. /\ LinkOK(w, clientId[w], lastSeenSeq[w])
      /\ Rising(toClient[ws[w]], 1, lastSeenSeq[w], lastSentSeq[clientId[w]])
  BY <1>1 DEF SeenInv, SeenConnected
<1>3. PICK id \in Sock, seen \in Nat : id = clientId[w] /\ seen = lastSeenSeq[w]
  BY <1>1
<1>4. LinkOK(w, id, seen)' /\ Born(id)
  BY <1>2, <1>3 DEF LinksKept, LinkOK
<1>5. Rising(toClient[ws[w]], 1, seen, lastSentSeq'[id])
  BY <1>2, <1>3, <1>4, RisingMore
<1>6. id = clientId'[w] /\ seen = lastSeenSeq'[w]
  BY <1>3
<1>7. LinkOK(w, clientId[w], lastSeenSeq[w])'
  BY <1>4, <1>6 DEF LinkOK, QueuedAcks, Born
<1>8. Rising(toClient[ws[w]], 1, lastSeenSeq[w], lastSentSeq[clientId[w]])'
  BY <1>5, <1>6 DEF Rising
<1> QED
  BY <1>7, <1>8 DEF SeenConnected

LEMMA AckedSame ==
  ASSUME IInv, NetInv, SeenInv, LinksKept, SentGrows, lastSentSeq' \in [Sock -> Nat], NEW w \in Window,
         ws'[w] = ws[w], clientId'[w] = clientId[w], lastSeenSeq'[w] = lastSeenSeq[w],
         toClient'[ws[w]] = toClient[ws[w]]
  PROVE  SeenAcked(w)'
<1> SUFFICES ASSUME AckWaits(w)' PROVE SeenAcked(w)'
  BY DEF SeenAcked
<1>1. AckWaits(w) /\ Ack(w)' = Ack(w) /\ AckSeen(w)' = AckSeen(w) /\ lastSeenSeq[w] \in Nat
  BY DEF AckWaits, Connected, Ack, AckSeen, IInv, TypeOK
<1>2. /\ LinkOK(w, Ack(w).clientId, AckSeen(w))
      /\ Rising(toClient[ws[w]], 2, AckSeen(w), lastSentSeq[Ack(w).clientId])
  BY <1>1 DEF SeenInv, SeenAcked
<1>3. PICK id \in Sock, seen \in Nat : id = Ack(w).clientId /\ seen = AckSeen(w)
  BY <1>1, AckFacts DEF AckSeen
<1>4. LinkOK(w, id, seen)' /\ Born(id)
  BY <1>2, <1>3 DEF LinksKept, LinkOK
<1>5. Rising(toClient[ws[w]], 2, seen, lastSentSeq'[id])
  BY <1>2, <1>3, <1>4, RisingMore
<1>6. id = Ack(w)'.clientId /\ seen = AckSeen(w)'
  BY <1>1, <1>3
<1>7. LinkOK(w, Ack(w).clientId, AckSeen(w))'
  BY <1>4, <1>6 DEF LinkOK, QueuedAcks, Born
<1>8. Rising(toClient[ws[w]], 2, AckSeen(w), lastSentSeq[Ack(w).clientId])'
  BY <1>5, <1>6 DEF Rising
<1> QED
  BY <1>7, <1>8 DEF SeenAcked

LEMMA ResumeSame ==
  ASSUME IInv, NetInv, SeenInv, LinksKept, NEW w \in Window,
         clientId'[w] = clientId[w], pendingReconnect'[w] = pendingReconnect[w]
  PROVE  SeenResume(w)'
<1> SUFFICES ASSUME ~Connected(w), pendingReconnect[w].clientId # None PROVE SeenResume(w)'
  BY DEF SeenResume, Connected
<1>0. pendingReconnect[w].lastSeq \in Nat /\ pendingReconnect[w].clientId \in SockOrNone
  BY DEF IInv, TypeOK, ReconnectInfo
<1>1. PICK id \in Sock, seen \in Nat : id = pendingReconnect[w].clientId /\ seen = pendingReconnect[w].lastSeq
  BY <1>0, SockFacts
<1>2. LinkOK(w, id, seen)'
  BY <1>1 DEF LinksKept, SeenInv, SeenResume
<1>3. id = pendingReconnect'[w].clientId /\ seen = pendingReconnect'[w].lastSeq
  BY <1>1
<1>4. LinkOK(w, pendingReconnect[w].clientId, pendingReconnect[w].lastSeq)'
  BY <1>2, <1>3 DEF LinkOK, QueuedAcks, Born
<1> QED
  BY <1>4 DEF SeenResume

\* If neither the windows nor the queues to them change, the links are enough.
LEMMA SeenFromLinks ==
  ASSUME IInv, NetInv, SeenInv, LinksKept, UNCHANGED <<clientVars, toClient>>,
         UNCHANGED lastSentSeq, \A id \in Sock : AckedOK(id) => AckedOK(id)'
  PROVE  SeenInv'
<1>1. UNCHANGED <<ws, clientId, lastSeenSeq, pendingReconnect, toClient>>
  BY DEF clientVars
<1>2. lastSentSeq' \in [Sock -> Nat] /\ SentGrows
  BY DEF IInv, TypeOK, SentGrows
<1>3. \A w \in Window : SeenConnected(w)' /\ SeenAcked(w)' /\ SeenResume(w)'
  BY <1>1, <1>2, ConnectedSame, AckedSame, ResumeSame
<1>4. \A id \in Sock : AckedOK(id)'
  BY DEF SeenInv
<1> QED
  BY <1>3, <1>4 DEF SeenInv

LEMMA EventsAgeSeen == ASSUME IInv, NetInv, SeenInv, EventsAge PROVE SeenInv'
<1>1. LinksKept /\ (\A id \in Sock : AckedOK(id) => AckedOK(id)') /\ UNCHANGED <<clientVars, toClient, lastSentSeq, lastAckedSeq>>
  BY DEF EventsAge, connVars, mapVars, hsVars, netVars, LinksKept, LinkOK, AckedOK, QueuedAcks, Born
<1> QED
  BY <1>1, SeenFromLinks

LEMMA DisconnectedExpiresSeen == ASSUME IInv, NetInv, SeenInv, DisconnectedExpires PROVE SeenInv'
<1>1. LinksKept /\ (\A id \in Sock : AckedOK(id) => AckedOK(id)') /\ UNCHANGED <<clientVars, toClient, lastSentSeq, lastAckedSeq>>
  BY DEF DisconnectedExpires, connVars, hsVars, netVars, LinksKept, LinkOK, AckedOK, QueuedAcks, Born
<1> QED
  BY <1>1, SeenFromLinks

LEMMA OnConnectionSeen == ASSUME IInv, NetInv, SeenInv, NEW s \in Sock, OnConnection(s) PROVE SeenInv'
<1>1. /\ serverEnd[s] = "none"
      /\ \A t \in Sock : t # s => serverEnd'[t] = serverEnd[t] /\ handshake'[t] = handshake[t]
      /\ UNCHANGED <<connVars, closeHandler, clientVars, toServer, toClient>>
  BY DEF OnConnection, IInv, TypeOK
<1>2. LinksKept /\ \A id \in Sock : AckedOK(id) => AckedOK(id)'
  BY <1>1 DEF LinksKept, LinkOK, AckedOK, QueuedAcks, Born, connVars
<1> QED
  BY <1>1, <1>2, SeenFromLinks DEF connVars

LEMMA OnHandshakeSeen == ASSUME IInv, NetInv, SeenInv, NEW s \in Sock, OnHandshake(s) PROVE SeenInv'
<1>1. /\ handshake[s] = "waiting"
      /\ \A t \in Sock : t # s => handshake'[t] = handshake[t]
      /\ UNCHANGED <<connVars, closeHandler, clientVars, serverEnd, toServer, toClient>>
  BY DEF OnHandshake, IInv, TypeOK, netVars
<1>2. LinksKept /\ \A id \in Sock : AckedOK(id) => AckedOK(id)'
  BY <1>1 DEF LinksKept, LinkOK, AckedOK, QueuedAcks, Born, connVars
<1> QED
  BY <1>1, <1>2, SeenFromLinks DEF connVars

LEMMA RejectHandshakeSeen ==
  ASSUME IInv, NetInv, SeenInv, NEW s \in Sock, RejectHandshake(s) PROVE SeenInv'
<1>1. /\ handshake[s] \in {"waiting", "auth"} /\ toServer'[s] = <<>>
      /\ \A t \in Sock : t # s => /\ handshake'[t] = handshake[t] /\ serverEnd'[t] = serverEnd[t]
                                  /\ toServer'[t] = toServer[t]
      /\ UNCHANGED <<connVars, closeHandler, clientVars, toClient>>
  BY DEF RejectHandshake, IInv, TypeOK
<1>2. LinksKept /\ \A id \in Sock : AckedOK(id) => AckedOK(id)'
  BY <1>1, EmptySeq DEF LinksKept, LinkOK, AckedOK, QueuedAcks, Born, connVars
<1> QED
  BY <1>1, <1>2, SeenFromLinks DEF connVars

LEMMA OnCloseSeen == ASSUME IInv, NetInv, SeenInv, NEW s \in Sock, OnClose(s) PROVE SeenInv'
<1>1. /\ serverEnd[s] = "open" /\ serverEnd'[s] = "closed"
      /\ toServer'[s] = toServer[s] \/ toServer'[s] = <<>>
      /\ handshake'[s] = handshake[s] \/ handshake[s] = "waiting"
      /\ \A t \in Sock : t # s => /\ handshake'[t] = handshake[t] /\ serverEnd'[t] = serverEnd[t]
                                  /\ toServer'[t] = toServer[t]
      /\ UNCHANGED <<connVars, closeHandler, clientVars, toClient>>
  BY DEF OnClose, IInv, TypeOK, mapVars
<1>2. LinksKept /\ \A id \in Sock : AckedOK(id) => AckedOK(id)'
  BY <1>1, EmptySeq DEF LinksKept, LinkOK, AckedOK, QueuedAcks, Born, connVars
<1> QED
  BY <1>1, <1>2, SeenFromLinks DEF connVars

LEMMA RestartSeen == ASSUME IInv, NetInv, SeenInv, Restart PROVE SeenInv'
<1>1. /\ \A t \in Sock : /\ handshake'[t] = "none" /\ closeHandler'[t] = None /\ toServer'[t] = <<>>
                         /\ serverEnd'[t] = IF serverEnd[t] = "open" THEN "closed" ELSE serverEnd[t]
      /\ UNCHANGED <<connVars, clientVars, toClient>>
  BY DEF Restart
<1>2. LinksKept /\ \A id \in Sock : AckedOK(id) => AckedOK(id)'
  BY <1>1, EmptySeq DEF LinksKept, LinkOK, AckedOK, QueuedAcks, Born, connVars
<1> QED
  BY <1>1, <1>2, SeenFromLinks DEF connVars

\* Taking a message from a queue leaves the acknowledgements that are behind it.
LEMMA QueuedAcksTaken ==
  ASSUME IInv, NEW s \in Sock, toServer[s] # <<>>, toServer' = [toServer EXCEPT ![s] = Tail(@)],
         UNCHANGED closeHandler, NEW id, NEW seen, QueuedAcks(id, seen)
  PROVE  QueuedAcks(id, seen)'
<1>1. /\ toServer'[s] = Tail(toServer[s])
      /\ \A t \in Sock : t # s => toServer'[t] = toServer[t]
  BY DEF IInv, TypeOK
<1>2. /\ Len(toServer[s]) \in Nat \ {0} /\ Len(toServer'[s]) = Len(toServer[s]) - 1
      /\ \A i \in 1..Len(toServer'[s]) : toServer'[s][i] = toServer[s][i + 1]
  BY <1>1, TailFacts DEF IInv, TypeOK
<1>3. ASSUME NEW t \in Sock, closeHandler[t] = id, NEW i \in 1..Len(toServer'[t])
      PROVE  \E j \in 1..Len(toServer[t]) : toServer'[t][i] = toServer[t][j]
  <2>1. CASE t = s
    <3>1. i + 1 \in 1..Len(toServer[s])
      BY <1>2, <2>1
    <3> QED
      BY <1>2, <2>1, <3>1
  <2>2. CASE t # s
    BY <1>1, <2>2
  <2> QED
    BY <2>1, <2>2
<1> QED
  BY <1>3 DEF QueuedAcks

LEMMA OnSwitchWorkspaceSeen ==
  ASSUME IInv, NetInv, SeenInv, NEW s \in Sock, OnSwitchWorkspace(s) PROVE SeenInv'
<1>1. /\ toServer[s] # <<>> /\ toServer' = [toServer EXCEPT ![s] = Tail(@)]
      /\ UNCHANGED <<connWindow, lastAckedSeq, lastSentSeq, hsVars, clientVars, serverEnd, toClient>>
  BY DEF OnSwitchWorkspace, Incoming
<1>2. ASSUME NEW id \in Sock, NEW seen \in Nat, QueuedAcks(id, seen) PROVE QueuedAcks(id, seen)'
  BY <1>1, <1>2, QueuedAcksTaken DEF hsVars
<1>3. LinksKept
  BY <1>1, <1>2 DEF LinksKept, LinkOK, Born, hsVars
<1>4. ASSUME NEW id \in Sock, AckedOK(id) PROVE AckedOK(id)'
  <2>1. PICK n \in Nat : n = lastSentSeq[id] /\ n = lastSentSeq'[id]
    BY <1>1 DEF IInv, TypeOK
  <2>2. QueuedAcks(id, n)'
    BY <1>2, <1>4, <2>1 DEF AckedOK
  <2> QED
    BY <1>1, <1>4, <2>1, <2>2 DEF AckedOK, QueuedAcks
<1> QED
  BY <1>1, <1>3, <1>4, SeenFromLinks

LEMMA OnSequenceAckSeen ==
  ASSUME IInv, NetInv, SeenInv, NEW s \in Sock, OnSequenceAck(s) PROVE SeenInv'
<1> DEFINE ackSeq == toServer[s][1].lastSeq
<1>1. PICK id \in Sock : Incoming(s, id, "sequence_ack") /\
        lastAckedSeq' = [lastAckedSeq EXCEPT ![id] =
           IF Head(toServer[s]).lastSeq > lastAckedSeq[id] THEN Head(toServer[s]).lastSeq ELSE @]
  BY DEF OnSequenceAck
<1>2. /\ toServer[s] # <<>> /\ Head(toServer[s]).type = "sequence_ack" /\ id \in clients /\ connWs[id] = s
      /\ toServer' = [toServer EXCEPT ![s] = Tail(@)]
      /\ UNCHANGED <<connWindow, lastSentSeq, hsVars, clientVars, serverEnd, toClient>>
  BY <1>1 DEF OnSequenceAck, Incoming
<1>3. Head(toServer[s]) = toServer[s][1] /\ 1 \in 1..Len(toServer[s])
  BY <1>2, TailFacts DEF IInv, TypeOK
<1>4. closeHandler[s] = id
  BY <1>2 DEF NetInv, ListenerOK
<1>5. /\ lastAckedSeq'[id] = lastAckedSeq[id] \/ lastAckedSeq'[id] = ackSeq
      /\ \A k \in Sock : k # id => lastAckedSeq'[k] = lastAckedSeq[k]
  BY <1>1, <1>3 DEF IInv, TypeOK
<1>6. ASSUME NEW n, QueuedAcks(id, n) PROVE ackSeq <= n
  BY <1>2, <1>3, <1>4, <1>6 DEF QueuedAcks
<1>7. ASSUME NEW k \in Sock, NEW seen \in Nat, QueuedAcks(k, seen) PROVE QueuedAcks(k, seen)'
  BY <1>2, <1>7, QueuedAcksTaken DEF hsVars
<1>8. LinksKept
  BY <1>2, <1>5, <1>6, <1>7 DEF LinksKept, LinkOK, Born, hsVars
<1>9. ASSUME NEW k \in Sock, AckedOK(k) PROVE AckedOK(k)'
  <2>1. PICK n \in Nat : n = lastSentSeq[k] /\ n = lastSentSeq'[k]
    BY <1>2 DEF IInv, TypeOK
  <2>2. QueuedAcks(k, n)' /\ QueuedAcks(k, n)
    BY <1>7, <1>9, <2>1 DEF AckedOK
  <2>3. lastAckedSeq'[k] <= n
    BY <1>5, <1>6, <1>9, <2>1, <2>2 DEF AckedOK
  <2> QED
    BY <2>1, <2>2, <2>3 DEF AckedOK, QueuedAcks
<1> QED
  BY <1>2, <1>8, <1>9, SeenFromLinks

LEMMA RisingAppend ==
  ASSUME NEW S, NEW q \in Seq(S), NEW e \in S, NEW from \in Nat \ {0}, NEW seen \in Nat, NEW last \in Nat,
         seen <= last, Rising(q, from, seen, last), e.seq = last + 1
  PROVE  Rising(Append(q, e), from, seen, last + 1)
<1> DEFINE r == Append(q, e)
           n == Len(q)
<1>1. n \in Nat /\ Len(r) = n + 1 /\ r[n + 1] = e /\ \A i \in 1..n : r[i] = q[i]
  BY AppendFacts
<1>2. /\ \A i \in from..n : q[i].seq \in Nat /\ seen < q[i].seq /\ q[i].seq <= last
      /\ \A i, j \in from..n : i < j => q[i].seq < q[j].seq
  BY DEF Rising
<1> HIDE DEF r, n
<1>3. ASSUME NEW i \in from..Len(r)
      PROVE  /\ i = n + 1 \/ (i \in from..n /\ i \in 1..n)
             /\ r[i].seq \in Nat /\ seen < r[i].seq /\ r[i].seq <= last + 1
             /\ i # n + 1 => r[i].seq <= last /\ r[i] = q[i]
  <2>1. i = n + 1 \/ (i \in from..n /\ i \in 1..n /\ i # n + 1)
    BY <1>1
  <2> QED
    BY <1>1, <1>2, <2>1
<1>4. ASSUME NEW i \in from..Len(r), NEW j \in from..Len(r), i < j PROVE r[i].seq < r[j].seq
  <2>1. i # n + 1 /\ i \in from..n /\ r[i].seq <= last /\ r[i].seq \in Nat /\ r[i] = q[i]
    BY <1>1, <1>3, <1>4
  <2>2. CASE j = n + 1
    BY <1>1, <2>1, <2>2
  <2>3. CASE j # n + 1
    BY <1>2, <1>3, <1>4, <2>1, <2>3
  <2> QED
    BY <2>2, <2>3
<1> QED
  BY <1>3, <1>4 DEF Rising, r

\* What a push does to the numbers.
LEMMA PushNumbers ==
  ASSUME IInv, NEW t \in Target, Push(t)
  PROVE  /\ lastSentSeq' \in [Sock -> Nat]
         /\ \A id \in Sock : /\ lastSentSeq'[id] = lastSentSeq[id] \/ lastSentSeq'[id] = lastSentSeq[id] + 1
                             /\ id \in clients /\ MatchesTarget(id, t) => lastSentSeq'[id] = lastSentSeq[id] + 1
BY DEF Push, IInv, TypeOK, Retained

LEMMA PushSeen == ASSUME IInv, NetInv, SeenInv, NEW t \in Target, Push(t) PROVE SeenInv'
<1>1. /\ UNCHANGED <<connWindow, lastAckedSeq, hsVars, clientVars, serverEnd, toServer>>
      /\ \A id \in Sock : lastSentSeq[id] \in Nat /\ lastSentSeq'[id] \in Nat /\ lastSentSeq'[id] >= lastSentSeq[id]
      /\ lastSentSeq' \in [Sock -> Nat]
  <2>1. UNCHANGED <<connWindow, lastAckedSeq, hsVars, clientVars, serverEnd, toServer>>
    BY DEF Push
  <2>2. lastSentSeq' \in [Sock -> Nat] /\ lastSentSeq \in [Sock -> Nat]
    BY PushNumbers DEF IInv, TypeOK
  <2>3. ASSUME NEW id \in Sock PROVE lastSentSeq'[id] >= lastSentSeq[id]
    <3>1. lastSentSeq'[id] = lastSentSeq[id] \/ lastSentSeq'[id] = lastSentSeq[id] + 1
      BY PushNumbers
    <3> QED
      BY <2>2, <3>1
  <2> QED
    BY <2>1, <2>2, <2>3
<1>2. LinksKept /\ SentGrows
  <2>1. ASSUME NEW w \in Window, NEW id \in Sock, NEW seen \in Nat, LinkOK(w, id, seen)
        PROVE  LinkOK(w, id, seen)'
    <3>1. seen <= lastSentSeq'[id]
      BY <1>1, <2>1 DEF LinkOK
    <3> QED
      BY <1>1, <2>1, <3>1 DEF LinkOK, QueuedAcks, Born, hsVars
  <2> QED
    BY <1>1, <2>1 DEF LinksKept, SentGrows
<1>3. ASSUME NEW id \in Sock PROVE AckedOK(id)'
  <2>1. AckedOK(id) /\ lastAckedSeq[id] \in Nat
    BY DEF SeenInv, IInv, TypeOK
  <2>2. PICK n \in Nat : n = lastSentSeq'[id]
    BY <1>1
  <2>3. QueuedAcks(id, n)
    BY <1>1, <2>1, <2>2, QueuedAcksMore DEF AckedOK
  <2>4. lastAckedSeq[id] <= n
    BY <1>1, <2>1, <2>2 DEF AckedOK
  <2> QED
    BY <1>1, <2>2, <2>3, <2>4 DEF AckedOK, QueuedAcks, hsVars
<1>4. ASSUME NEW w \in Window PROVE SeenConnected(w)' /\ SeenAcked(w)' /\ SeenResume(w)'
  <2>0. UNCHANGED <<ws, clientId, lastSeenSeq, pendingReconnect>>
    BY <1>1 DEF clientVars
  <2>1. SeenResume(w)'
    BY <1>2, <2>0, ResumeSame
  <2>2. CASE toClient'[ws[w]] = toClient[ws[w]]
    BY <1>1, <1>2, <2>0, <2>1, <2>2, ConnectedSame, AckedSame
  <2>3. CASE ws[w] = None
    BY <2>0, <2>1, <2>3 DEF SeenConnected, SeenAcked, AckWaits, Connected, NetInv, ConnectedOK
  <2>4. CASE ws[w] \in Sock /\ toClient'[ws[w]] # toClient[ws[w]]
    <3>1. PICK id \in clients :
               /\ MatchesTarget(id, t) /\ closeHandler[ws[w]] = id /\ handshake[ws[w]] = "completed"
               /\ serverEnd[ws[w]] = "open" /\ toClient'[ws[w]] = Append(toClient[ws[w]], PushedTo(id))
      BY <2>4, PushFacts
    <3>2. /\ id \in Sock /\ lastSentSeq[id] \in Nat /\ lastSentSeq'[id] = lastSentSeq[id] + 1
          /\ PushedTo(id) \in ToClientMsg /\ PushedTo(id).seq = lastSentSeq[id] + 1
          /\ toClient[ws[w]] \in Seq(ToClientMsg)
      <4>1. id \in Sock /\ lastSentSeq[id] \in Nat /\ toClient[ws[w]] \in Seq(ToClientMsg)
        BY <2>4 DEF IInv, TypeOK
      <4>2. lastSentSeq'[id] = lastSentSeq[id] + 1
        BY <3>1, <4>1, PushNumbers
      <4>3. PushedTo(id) \in ToClientMsg
        BY <4>1, PushFacts
      <4> QED
        BY <4>1, <4>2, <4>3 DEF PushedTo
    <3>3. ASSUME NEW from \in {1, 2}, NEW seen \in Nat, seen <= lastSentSeq[id],
                 Rising(toClient[ws[w]], from, seen, lastSentSeq[id])
          PROVE  Rising(toClient'[ws[w]], from, seen, lastSentSeq'[id])
      <4>1. from \in Nat \ {0} /\ PushedTo(id).seq = lastSentSeq[id] + 1 /\ PushedTo(id) \in ToClientMsg
        BY <3>2
      <4> DEFINE q == toClient[ws[w]]
                 n == lastSentSeq[id]
                 e == PushedTo(id)
      <4>2. q \in Seq(ToClientMsg) /\ n \in Nat /\ e \in ToClientMsg /\ e.seq = n + 1 /\ seen <= n
            /\ Rising(q, from, seen, n)
        BY <3>2, <3>3, <4>1
      <4> HIDE DEF q, n, e
      <4>3. Rising(Append(q, e), from, seen, n + 1)
        BY <4>1, <4>2, RisingAppend
      <4> QED
        BY <3>1, <3>2, <4>3 DEF q, n, e
    <3>4. lastSeenSeq[w] \in Nat
      BY DEF IInv, TypeOK
    <3>5. SeenConnected(w)'
      <4> SUFFICES ASSUME Connected(w) PROVE SeenConnected(w)'
        BY <2>0 DEF SeenConnected, Connected
      <4>1. clientId[w] = id
        BY <3>1 DEF NetInv, ConnectedOK
      <4>2. LinkOK(w, id, lastSeenSeq[w]) /\ Rising(toClient[ws[w]], 1, lastSeenSeq[w], lastSentSeq[id])
        BY <4>1 DEF SeenInv, SeenConnected
      <4>3. PICK seen \in Nat : seen = lastSeenSeq[w] /\ seen = lastSeenSeq'[w]
        BY <2>0, <3>4
      <4>4. LinkOK(w, id, seen)'
        BY <1>2, <3>2, <4>2, <4>3 DEF LinksKept
      <4>5. Rising(toClient'[ws[w]], 1, seen, lastSentSeq'[id])
        BY <3>3, <4>2, <4>3 DEF LinkOK
      <4>6. id = clientId'[w] /\ ws'[w] = ws[w]
        BY <2>0, <4>1
      <4>7. LinkOK(w, clientId[w], lastSeenSeq[w])'
        BY <4>3, <4>4, <4>6 DEF LinkOK, QueuedAcks, Born
      <4>8. Rising(toClient[ws[w]], 1, lastSeenSeq[w], lastSentSeq[clientId[w]])'
        BY <4>3, <4>5, <4>6 DEF Rising
      <4> QED
        BY <4>7, <4>8 DEF SeenConnected
    <3>6. SeenAcked(w)'
      <4> SUFFICES ASSUME ~Connected(w) PROVE SeenAcked(w)'
        BY <2>0 DEF SeenAcked, AckWaits, Connected
      <4>0. toClient[ws[w]] # <<>> /\ ws[w] # None
        BY <2>4, <3>1, SockFacts DEF NetInv, ConnectingOK
      <4>1. AckWaits(w) /\ Ack(w).clientId = id
        BY <3>1, <4>0 DEF NetInv, AckOK, AckWaits
      <4>2. Ack(w)' = Ack(w) /\ AckSeen(w)' = AckSeen(w)
        <5>1. toClient'[ws[w]][1] = toClient[ws[w]][1]
          BY <3>1, <3>2, <4>0, AppendFacts, EmptySeq
        <5> QED
          BY <2>0, <5>1 DEF Ack, AckSeen
      <4>3. LinkOK(w, id, AckSeen(w)) /\ Rising(toClient[ws[w]], 2, AckSeen(w), lastSentSeq[id])
        BY <4>1 DEF SeenInv, SeenAcked
      <4>4. PICK seen \in Nat : seen = AckSeen(w) /\ seen = AckSeen(w)'
        BY <3>4, <4>2 DEF AckSeen
      <4>5. LinkOK(w, id, seen)'
        BY <1>2, <3>2, <4>3, <4>4 DEF LinksKept
      <4>6. Rising(toClient'[ws[w]], 2, seen, lastSentSeq'[id])
        BY <3>3, <4>3, <4>4 DEF LinkOK
      <4>7. id = Ack(w)'.clientId /\ ws'[w] = ws[w]
        BY <2>0, <4>1, <4>2
      <4>8. LinkOK(w, Ack(w).clientId, AckSeen(w))'
        BY <4>4, <4>5, <4>7 DEF LinkOK, QueuedAcks, Born
      <4>9. Rising(toClient[ws[w]], 2, AckSeen(w), lastSentSeq[Ack(w).clientId])'
        BY <4>4, <4>6, <4>7 DEF Rising
      <4> QED
        BY <4>8, <4>9 DEF SeenAcked
    <3> QED
      BY <2>1, <3>5, <3>6
  <2>5. ws[w] \in Sock \/ ws[w] = None
    BY SockFacts DEF IInv, TypeOK
  <2> QED
    BY <2>2, <2>3, <2>4, <2>5
<1> QED
  BY <1>3, <1>4 DEF SeenInv

\* A whole interval from 1 is its own prefix.
LEMMA PrefixLengthInterval == ASSUME NEW m \in Nat PROVE PrefixLength(1..m) = m
<1>1. {i \in 1..m : 1..i \subseteq 1..m} = 1..m
  OBVIOUS
<1>2. Cardinality(1..m) = m
  BY FS_Interval
<1> QED
  BY <1>1, <1>2 DEF PrefixLength

\* The numbers of a buffer end with last, without a gap.
UpTo(buf, last) == \A i \in 1..Len(buf) : buf[i].seq = last - Len(buf) + i
\* The first k events of a buffer are not replayed.
ReplayFrom(buf, lastSeq, last, k) ==
  /\ Replay(buf, lastSeq) \in Seq(BufferedEvent) /\ Len(Replay(buf, lastSeq)) = Len(buf) - k
  /\ \A i \in 1..(Len(buf) - k) : Replay(buf, lastSeq)[i] = buf[k + i]
  /\ \A i \in 1..Len(buf) : i > k => buf[i].seq > lastSeq
  /\ CanReplay(buf, lastSeq, last) => k = Len(buf) - (last - lastSeq)

\* Of a buffer without gaps, Replay keeps the events after lastSeq.
LEMMA ReplayFacts ==
  ASSUME NEW buf \in Seq(BufferedEvent), NEW last \in Nat, NEW lastSeq \in Nat, lastSeq <= last,
         UpTo(buf, last)
  PROVE  \E k \in 0..Len(buf) : ReplayFrom(buf, lastSeq, last, k)
<1> DEFINE n == Len(buf)
           k == IF lastSeq < last - n THEN 0 ELSE lastSeq - (last - n)
<1>1. n \in Nat
  BY LenProperties
<1> HIDE DEF n
<1>2. k \in Nat /\ k \in 0..n
  BY <1>1
<1>3. \A i \in 1..n : buf[i].seq = last - n + i
  BY DEF n, UpTo
<1>4. {i \in 1..n : buf[i].seq <= lastSeq} = 1..k
  <2>1. ASSUME NEW i \in 1..n PROVE buf[i].seq <= lastSeq <=> i \in 1..k
    BY <1>1, <1>3
  <2>2. 1..k \subseteq 1..n
    BY <1>1, <1>2
  <2> HIDE DEF k
  <2> QED
    BY <2>1, <2>2
<1>5. Replay(buf, lastSeq) = Drop(buf, k)
  <2> HIDE DEF k
  <2> QED
    BY <1>2, <1>4, PrefixLengthInterval DEF Replay, n
<1>6. \A i \in 1..n : i > k => buf[i].seq > lastSeq
  BY <1>1, <1>3
<1>7. CanReplay(buf, lastSeq, last) => k = n - (last - lastSeq)
  <2>1. CASE lastSeq = last
    BY <1>1, <2>1
  <2>2. CASE lastSeq < last /\ CanReplay(buf, lastSeq, last)
    <3>1. n > 0 /\ lastSeq >= buf[1].seq - 1
      BY <2>2 DEF CanReplay, n
    <3>2. buf[1].seq = last - n + 1
      BY <1>1, <1>3, <3>1
    <3> QED
      BY <1>1, <3>1, <3>2
  <2> QED
    BY <2>1, <2>2
<1> HIDE DEF k
<1>8. /\ Drop(buf, k) \in Seq(BufferedEvent) /\ Len(Drop(buf, k)) = n - k
      /\ \A i \in 1..(n - k) : Drop(buf, k)[i] = buf[k + i]
  BY <1>2, DropFacts DEF n
<1> QED
  BY <1>2, <1>5, <1>6, <1>7, <1>8 DEF n, ReplayFrom

\* The window whose socket completes its handshake.
LEMMA CompleteFacts ==
  ASSUME IInv, NetInv, NEW s \in Sock, NEW msgs \in Seq(ToClientMsg), handshake[s] = "auth",
         toClient' = SafeSend(s, msgs), NEW w \in Window
  PROVE  /\ ws[w] # s /\ ws[w] # None => toClient'[ws[w]] = toClient[ws[w]]
         /\ ws[w] = s => ~Connected(w) /\ (toClient'[s] = msgs \/ toClient'[s] = <<>>)
<1>1. toClient[s] = <<>>
  BY DEF NetInv, SockOK
<1>2. toClient[s] \o msgs = msgs
  BY <1>1, ConcatEmptySeq
<1>3. /\ \A t \in Sock : t # s => toClient'[t] = toClient[t]
      /\ toClient'[s] = msgs \/ toClient'[s] = <<>>
  BY <1>1, <1>2, SockFacts DEF SafeSend, IInv, TypeOK
<1>4. ws[w] = s => ~Connected(w)
  BY DEF NetInv, ConnectedOK, Born
<1> QED
  BY <1>3, <1>4, WindowSocket

LEMMA CompleteSeen ==
  ASSUME IInv, NetInv, SeenInv, NEW s \in Sock, NEW id \in Sock, NEW msgs \in Seq(ToClientMsg),
         handshake[s] = "auth", msgs[1].clientId = id, toClient' = SafeSend(s, msgs),
         UNCHANGED clientVars, LinksKept, SentGrows, lastSentSeq' \in [Sock -> Nat],
         \A k \in Sock : AckedOK(k)',
         \A w \in Window : ws[w] = s =>
            \E seen \in Nat : /\ seen = IF msgs[1].reconnected THEN lastSeenSeq[w] ELSE 0
                              /\ LinkOK(w, id, seen)' /\ Rising(msgs, 2, seen, lastSentSeq'[id])
  PROVE  SeenInv'
<1>1. UNCHANGED <<ws, clientId, lastSeenSeq, pendingReconnect>>
  BY DEF clientVars
<1>2. ASSUME NEW w \in Window PROVE SeenConnected(w)' /\ SeenAcked(w)' /\ SeenResume(w)'
  <2>1. SeenResume(w)'
    BY <1>1, ResumeSame
  <2>2. CASE ws[w] = None
    BY <1>1, <2>1, <2>2 DEF SeenConnected, SeenAcked, AckWaits, Connected, NetInv, ConnectedOK
  <2>3. CASE ws[w] # s /\ ws[w] # None
    <3>1. toClient'[ws[w]] = toClient[ws[w]]
      BY <2>3, CompleteFacts
    <3> QED
      BY <1>1, <2>1, <3>1, ConnectedSame, AckedSame
  <2>4. CASE ws[w] = s
    <3>1. ~Connected(w) /\ (toClient'[s] = msgs \/ toClient'[s] = <<>>)
      BY <2>4, CompleteFacts
    <3>2. SeenConnected(w)'
      BY <1>1, <3>1 DEF SeenConnected, Connected
    <3>3. SeenAcked(w)'
      <4> SUFFICES ASSUME AckWaits(w)' PROVE SeenAcked(w)'
        BY DEF SeenAcked
      <4>1. toClient'[ws'[w]] = msgs
        BY <1>1, <2>4, <3>1 DEF AckWaits
      <4>2. Ack(w)' = msgs[1] /\ AckSeen(w)' = IF msgs[1].reconnected THEN lastSeenSeq[w] ELSE 0
        BY <1>1, <4>1 DEF Ack, AckSeen
      <4>3. PICK seen \in Nat : /\ seen = AckSeen(w)' /\ LinkOK(w, id, seen)'
                                /\ Rising(msgs, 2, seen, lastSentSeq'[id])
        BY <2>4, <4>2
      <4>4. id = Ack(w)'.clientId
        BY <4>2
      <4>5. LinkOK(w, Ack(w).clientId, AckSeen(w))'
        BY <4>3, <4>4 DEF LinkOK, QueuedAcks, Born
      <4>6. Rising(toClient[ws[w]], 2, AckSeen(w), lastSentSeq[Ack(w).clientId])'
        BY <4>1, <4>3, <4>4 DEF Rising
      <4> QED
        BY <4>5, <4>6 DEF SeenAcked
    <3> QED
      BY <2>1, <3>2, <3>3
  <2> QED
    BY <2>2, <2>3, <2>4
<1> QED
  BY <1>2 DEF SeenInv

LEMMA CompleteFreshSeen == ASSUME IInv, NetInv, SeenInv, NEW s \in Sock, CompleteFresh(s) PROVE SeenInv'
<1> DEFINE ack == HandshakeAck(s, FALSE, FALSE)
           msgs == <<ack>>
<1>1. ack \in ToClientMsg /\ ack.clientId = s /\ ack.reconnected = FALSE
  <2>1. Len(published) \in Nat
    BY LenProperties DEF IInv, TypeOK
  <2> QED
    BY <2>1 DEF HandshakeAck, ToClientMsg, AckMsg
<1>2. /\ toClient' = SafeSend(s, msgs) /\ handshake[s] = "auth" /\ UNCHANGED <<clientVars, serverEnd>>
      /\ connWindow'[s] = socketWindow[s] /\ lastAckedSeq'[s] = 0 /\ lastSentSeq'[s] = 0
      /\ closeHandler'[s] = s /\ handshake'[s] = "completed" /\ toServer'[s] = Tail(toServer[s])
      /\ \A k \in Sock : k # s => /\ connWindow'[k] = connWindow[k] /\ lastAckedSeq'[k] = lastAckedSeq[k]
                                  /\ lastSentSeq'[k] = lastSentSeq[k] /\ closeHandler'[k] = closeHandler[k]
                                  /\ handshake'[k] = handshake[k] /\ toServer'[k] = toServer[k]
      /\ lastSentSeq' \in [Sock -> Nat]
  BY DEF CompleteFresh, IInv, TypeOK
<1> HIDE DEF ack
<1>3. msgs \in Seq(ToClientMsg) /\ Len(msgs) = 1 /\ msgs[1] = ack
  BY <1>1, SingletonSeq
<1>4. toServer'[s] = <<>> /\ Len(<<>>) = 0
  <2>1. toServer[s] # <<>> /\ toServer[s] \in Seq(ToServerMsg) /\ Len(toServer[s]) <= 1
    BY <1>2 DEF NetInv, HandshakeOK, IInv, SocketInv, TypeOK
  <2>2. Tail(toServer[s]) = <<>>
    BY <2>1, TailOfOne
  <2> QED
    BY <1>2, <2>2, EmptySeq
<1>5. ~Born(s) /\ \A k \in Sock : closeHandler[k] # s
  BY <1>2, SockFacts DEF Born, NetInv, ListenerOK
<1>6. LinksKept /\ SentGrows
  <2>1. ASSUME NEW w \in Window, NEW id \in Sock, NEW seen \in Nat, LinkOK(w, id, seen)
        PROVE  LinkOK(w, id, seen)'
    <3>1. id # s /\ Born(id)
      BY <1>5, <2>1 DEF LinkOK
    <3>2. ASSUME NEW k \in Sock, closeHandler'[k] = id PROVE closeHandler[k] = id /\ toServer'[k] = toServer[k]
      BY <1>2, <3>1, <3>2
    <3> QED
      BY <1>2, <2>1, <3>1, <3>2 DEF LinkOK, QueuedAcks, Born
  <2>2. ASSUME NEW id \in Sock, Born(id) PROVE lastSentSeq'[id] >= lastSentSeq[id]
    <3>1. lastSentSeq'[id] = lastSentSeq[id] /\ lastSentSeq[id] \in Nat
      BY <1>2, <1>5, <2>2 DEF IInv, TypeOK
    <3> QED
      BY <3>1
  <2> QED
    BY <2>1, <2>2 DEF LinksKept, SentGrows
<1>7. ASSUME NEW k \in Sock PROVE AckedOK(k)'
  <2>1. CASE k = s
    <3>1. \A t \in Sock : closeHandler'[t] = s => t = s
      BY <1>2, <1>5
    <3> QED
      BY <1>2, <1>4, <2>1, <3>1 DEF AckedOK, QueuedAcks
  <2>2. CASE k # s
    <3>1. AckedOK(k)
      BY DEF SeenInv
    <3>2. \A t \in Sock : closeHandler'[t] = k => closeHandler[t] = k /\ toServer'[t] = toServer[t]
      BY <1>2, <2>2
    <3> QED
      BY <1>2, <2>2, <3>1, <3>2 DEF AckedOK, QueuedAcks
  <2> QED
    BY <2>1, <2>2
<1>8. ASSUME NEW w \in Window, ws[w] = s
      PROVE  LinkOK(w, s, 0)' /\ Rising(msgs, 2, 0, lastSentSeq'[s])
  <2>1. connWindow'[s] = w
    BY <1>2, <1>8, WindowSocket, SockFacts
  <2>2. Born(s)'
    BY <1>2 DEF Born, NetInv, SockOK, IInv, SocketInv
  <2>3. QueuedAcks(s, 0)'
    <3>1. \A t \in Sock : closeHandler'[t] = s => t = s
      BY <1>2, <1>5
    <3> QED
      BY <1>4, <3>1 DEF QueuedAcks
  <2>4. Rising(msgs, 2, 0, lastSentSeq'[s])
    BY <1>3 DEF Rising
  <2> QED
    BY <1>2, <2>1, <2>2, <2>3, <2>4 DEF LinkOK
<1> HIDE DEF msgs
<1>9. \A w \in Window : ws[w] = s =>
            \E seen \in Nat : /\ seen = IF msgs[1].reconnected THEN lastSeenSeq[w] ELSE 0
                              /\ LinkOK(w, s, seen)' /\ Rising(msgs, 2, seen, lastSentSeq'[s])
  BY <1>1, <1>3, <1>8
<1> QED
  BY <1>1, <1>2, <1>3, <1>6, <1>7, <1>9, CompleteSeen

\* An eviction leaves the last events of the stream, as they were.
LEMMA EvictSuffix ==
  ASSUME NEW buf \in Seq(BufferedEvent), NEW last \in Nat,
         \A i \in 1..Len(buf) : buf[i].seq = last - Len(buf) + i
  PROVE  /\ EvictBuffer(buf) \in Seq(BufferedEvent)
         /\ \A i \in 1..Len(EvictBuffer(buf)) :
              /\ EvictBuffer(buf)[i].seq = last - Len(EvictBuffer(buf)) + i
              /\ \E j \in 1..Len(buf) : EvictBuffer(buf)[i] = buf[j]
<1>1. PICK k \in 0..Len(buf) : EvictBuffer(buf) = Drop(buf, k)
  BY EvictFacts
<1> DEFINE n == Len(buf)
           new == EvictBuffer(buf)
<1>2. /\ n \in Nat /\ k \in 0..n /\ new \in Seq(BufferedEvent) /\ Len(new) = n - k
      /\ \A i \in 1..(n - k) : new[i] = buf[k + i]
  <2>1. n \in Nat
    BY LenProperties
  <2>2. /\ Drop(buf, k) \in Seq(BufferedEvent) /\ Len(Drop(buf, k)) = n - k
        /\ \A i \in 1..(n - k) : Drop(buf, k)[i] = buf[k + i]
    BY DropFacts
  <2> QED
    BY <1>1, <2>1, <2>2
<1>3. \A i \in 1..n : buf[i].seq = last - n + i
  OBVIOUS
<1> HIDE DEF n, new
<1>4. ASSUME NEW i \in 1..Len(new)
      PROVE  new[i].seq = last - Len(new) + i /\ \E j \in 1..n : new[i] = buf[j]
  <2>1. k + i \in 1..n /\ new[i] = buf[k + i]
    BY <1>2
  <2>2. buf[k + i].seq = last - n + (k + i)
    BY <1>3, <2>1
  <2>3. last - n + (k + i) = last - Len(new) + i
    BY <1>2
  <2> QED
    BY <2>1, <2>2, <2>3
<1> QED
  BY <1>2, <1>4 DEF n, new

\* What a resumption replays: all that comes after lastSeq, or nothing.
LEMMA ReplayedFacts ==
  ASSUME IInv, NEW s \in Sock, NEW id \in Sock, NEW seen \in Nat, seen <= lastSentSeq[id],
         Head(toServer[s]).reconnect.lastSeq = seen
  PROVE  /\ Replayed(s, id) \in Seq(BufferedEvent)
         /\ ~HasAll(s, id) => Len(Replayed(s, id)) = 0
         /\ HasAll(s, id) => Len(Replayed(s, id)) = lastSentSeq[id] - seen
         /\ \A i \in 1..Len(Replayed(s, id)) :
              /\ Replayed(s, id)[i].seq = seen + i
              /\ \E j \in 1..Len(eventBuffer[id]) : Replayed(s, id)[i] = eventBuffer[id][j]
<1> DEFINE last == lastSentSeq[id]
           old == eventBuffer[id]
           buf == EvictBuffer(old)
           kept == Replayed(s, id)
<1>1. last \in Nat /\ seen <= last /\ old \in Seq(BufferedEvent) /\ \A i \in 1..Len(old) : old[i].seq = last - Len(old) + i
  BY DEF IInv, TypeOK, BufferInv
<1> HIDE DEF last, old
<1>2. /\ buf \in Seq(BufferedEvent)
      /\ \A i \in 1..Len(buf) : buf[i].seq = last - Len(buf) + i /\ \E j \in 1..Len(old) : buf[i] = old[j]
  BY <1>1, EvictSuffix
<1>3. HasAll(s, id) = CanReplay(buf, seen, last) /\ kept = IF HasAll(s, id) THEN Replay(buf, seen) ELSE <<>>
  BY DEF HasAll, Replayed, last, old
<1> HIDE DEF buf, kept
<1>4. PICK k \in 0..Len(buf) :
           /\ Replay(buf, seen) \in Seq(BufferedEvent) /\ Len(Replay(buf, seen)) = Len(buf) - k
           /\ \A i \in 1..(Len(buf) - k) : Replay(buf, seen)[i] = buf[k + i]
           /\ \A i \in 1..Len(buf) : i > k => buf[i].seq > seen
           /\ CanReplay(buf, seen, last) => k = Len(buf) - (last - seen)
  <2>1. UpTo(buf, last)
    BY <1>2 DEF UpTo
  <2>2. last \in Nat /\ seen \in Nat /\ seen <= last /\ buf \in Seq(BufferedEvent)
    BY <1>1, <1>2
  <2>3. \E k \in 0..Len(buf) : ReplayFrom(buf, seen, last, k)
    BY <2>1, <2>2, ReplayFacts
  <2> QED
    BY <2>3 DEF ReplayFrom
<1>5. CASE HasAll(s, id)
  <2> DEFINE n == Len(buf)
  <2>1. /\ n \in Nat /\ k \in 0..n /\ k = n - (last - seen) /\ Len(kept) = n - k /\ kept \in Seq(BufferedEvent)
        /\ \A i \in 1..(n - k) : kept[i] = buf[k + i]
        /\ \A i \in 1..n : buf[i].seq = last - n + i /\ \E j \in 1..Len(old) : buf[i] = old[j]
    BY <1>2, <1>3, <1>4, <1>5, LenProperties
  <2> HIDE DEF n
  <2>2. ASSUME NEW i \in 1..Len(kept) PROVE kept[i].seq = seen + i /\ \E j \in 1..Len(old) : kept[i] = old[j]
    <3>1. k + i \in 1..n /\ kept[i] = buf[k + i]
      BY <2>1
    <3>2. buf[k + i].seq = last - n + (k + i) /\ last - n + (k + i) = seen + i
      BY <1>1, <2>1, <3>1
    <3> QED
      BY <2>1, <3>1, <3>2
  <2>3. Len(kept) = last - seen
    BY <1>1, <2>1
  <2> QED
    BY <1>5, <2>1, <2>2, <2>3 DEF kept, old, last
<1>6. CASE ~HasAll(s, id)
  <2>1. kept = <<>> /\ kept \in Seq(BufferedEvent) /\ Len(kept) = 0
    BY <1>3, <1>6, EmptySeq
  <2> QED
    BY <1>6, <2>1 DEF kept
<1> QED
  BY <1>5, <1>6

\* What the window of a resumption asks for is what it has seen of that client.
LEMMA ResumedWindow ==
  ASSUME IInv, NetInv, NEW s \in Sock, handshake[s] = "auth", NEW w \in Window, ws[w] = s,
         Head(toServer[s]).reconnect.clientId \in Sock
  PROVE  /\ ~Connected(w) /\ pendingReconnect[w] = Head(toServer[s]).reconnect
         /\ pendingReconnect[w].lastSeq = lastSeenSeq[w] /\ lastSeenSeq[w] \in Nat
<1>1. toServer[s] # <<>> /\ toServer[s] \in Seq(ToServerMsg)
  BY DEF IInv, SocketInv, TypeOK
<1>2. Head(toServer[s]) = toServer[s][1]
  BY <1>1, TailFacts
<1>3. ~Connected(w) /\ ws[w] # None
  BY SockFacts DEF NetInv, ConnectedOK, Born
<1>4. toServer[s][1].reconnect = pendingReconnect[w]
  BY <1>1, <1>3 DEF NetInv, ConnectingOK
<1>5. pendingReconnect[w].lastSeq = lastSeenSeq[w]
  BY <1>2, <1>3, <1>4, SockFacts DEF NetInv, ConnectingOK
<1> QED
  BY <1>2, <1>3, <1>4, <1>5 DEF IInv, TypeOK

LEMMA CompleteReconnectSeen ==
  ASSUME IInv, NetInv, SeenInv, NEW s \in Sock, CompleteReconnect(s) PROVE SeenInv'
<1>1. PICK id \in Sock :
        /\ handshake[s] = "auth" /\ handshake[id] = "completed"
        /\ Head(toServer[s]).reconnect.clientId = id
        /\ toClient' = SafeSend(s, ReplayMessages(s, id))
        /\ closeHandler' = [closeHandler EXCEPT ![s] = id]
        /\ handshake' = [handshake EXCEPT ![s] = "completed"]
        /\ toServer' = [toServer EXCEPT ![s] = Tail(@)]
        /\ UNCHANGED <<connWindow, lastAckedSeq, lastSentSeq, clientVars, serverEnd>>
  BY ReconnectFacts
<1>2. /\ closeHandler'[s] = id /\ handshake'[s] = "completed" /\ toServer'[s] = Tail(toServer[s])
      /\ \A k \in Sock : k # s => /\ closeHandler'[k] = closeHandler[k]
                                  /\ handshake'[k] = handshake[k] /\ toServer'[k] = toServer[k]
      /\ lastSentSeq' \in [Sock -> Nat]
  BY <1>1 DEF IInv, TypeOK
<1>3. toServer'[s] = <<>> /\ Len(<<>>) = 0
  <2>1. toServer[s] # <<>> /\ toServer[s] \in Seq(ToServerMsg) /\ Len(toServer[s]) <= 1
    BY <1>1 DEF NetInv, HandshakeOK, IInv, SocketInv, TypeOK
  <2>2. Tail(toServer[s]) = <<>>
    BY <2>1, TailOfOne
  <2> QED
    BY <1>2, <2>2, EmptySeq
<1>4. ASSUME NEW k, NEW n, QueuedAcks(k, n) PROVE QueuedAcks(k, n)'
  BY <1>2, <1>3, <1>4 DEF QueuedAcks
<1>5. LinksKept /\ SentGrows
  <2>1. UNCHANGED <<connWindow, lastAckedSeq, lastSentSeq, serverEnd>>
    BY <1>1
  <2>2. ASSUME NEW k \in Sock, Born(k) PROVE Born(k)'
    BY <1>2, <2>1, <2>2 DEF Born
  <2>3. ASSUME NEW w \in Window, NEW k \in Sock, NEW seen \in Nat, LinkOK(w, k, seen)
        PROVE  LinkOK(w, k, seen)'
    <3>1. Born(k)' /\ QueuedAcks(k, seen)'
      BY <1>4, <2>2, <2>3 DEF LinkOK
    <3> QED
      BY <2>1, <2>3, <3>1 DEF LinkOK
  <2>4. ASSUME NEW k \in Sock PROVE lastSentSeq'[k] >= lastSentSeq[k]
    <3>1. PICK n \in Nat : n = lastSentSeq[k]
      BY DEF IInv, TypeOK
    <3> QED
      BY <2>1, <3>1
  <2> QED
    BY <2>3, <2>4 DEF LinksKept, SentGrows
<1>6. ASSUME NEW k \in Sock PROVE AckedOK(k)'
  <2>1. PICK n \in Nat : n = lastSentSeq[k] /\ n = lastSentSeq'[k]
    BY <1>1 DEF IInv, TypeOK
  <2>2. QueuedAcks(k, n)' /\ lastAckedSeq[k] <= n
    BY <1>4, <2>1 DEF AckedOK, SeenInv
  <2> QED
    BY <1>1, <2>1, <2>2 DEF AckedOK, QueuedAcks
<1> DEFINE msgs == ReplayMessages(s, id)
           kept == Replayed(s, id)
           n == Len(kept)
<1>7. /\ kept \in Seq(BufferedEvent) /\ msgs \in Seq(ToClientMsg) /\ Len(msgs) = n + 1
      /\ msgs[1] = HandshakeAck(id, TRUE, ~HasAll(s, id))
      /\ \A i \in 1..n : msgs[i + 1] = [type |-> "event", seq |-> kept[i].seq, ev |-> kept[i].ev]
  BY ReplayMessagesFacts
<1>8. msgs[1].clientId = id /\ msgs[1].reconnected = TRUE /\ n \in Nat
  BY <1>7, LenProperties DEF HandshakeAck
<1>9. ASSUME NEW w \in Window, ws[w] = s
      PROVE  LinkOK(w, id, lastSeenSeq[w])' /\ lastSeenSeq[w] \in Nat
             /\ Rising(msgs, 2, lastSeenSeq[w], lastSentSeq'[id])
  <2>1. /\ ~Connected(w) /\ pendingReconnect[w].clientId = id /\ pendingReconnect[w].lastSeq = lastSeenSeq[w]
        /\ Head(toServer[s]).reconnect.lastSeq = lastSeenSeq[w]
    BY <1>1, <1>9, ResumedWindow
  <2>2. PICK seen \in Nat : seen = lastSeenSeq[w] /\ seen = lastSeenSeq'[w]
    BY <1>1 DEF IInv, TypeOK, clientVars
  <2>3. LinkOK(w, id, seen)
    BY <2>1, <2>2, SockFacts DEF SeenInv, SeenResume
  <2>4. LinkOK(w, id, seen)'
    BY <1>5, <2>3 DEF LinksKept
  <2>5. lastSentSeq[id] \in Nat /\ seen <= lastSentSeq[id] /\ lastSentSeq[id] = lastSentSeq'[id]
    BY <1>1, <2>3 DEF LinkOK, IInv, TypeOK
  <2>6. /\ Len(kept) = 0 \/ Len(kept) = lastSentSeq[id] - seen
        /\ \A i \in 1..Len(kept) : kept[i].seq = seen + i
    <3>1. seen <= lastSentSeq[id] /\ Head(toServer[s]).reconnect.lastSeq = seen
      BY <2>1, <2>2, <2>5
    <3>2. /\ ~HasAll(s, id) => Len(Replayed(s, id)) = 0
          /\ HasAll(s, id) => Len(Replayed(s, id)) = lastSentSeq[id] - seen
          /\ \A i \in 1..Len(Replayed(s, id)) : Replayed(s, id)[i].seq = seen + i
      BY <3>1, ReplayedFacts
    <3> QED
      BY <3>2
  <2>7. Rising(msgs, 2, seen, lastSentSeq'[id])
    <3> DEFINE last == lastSentSeq[id]
    <3> HIDE DEF msgs, kept
    <3>1. ASSUME NEW i \in 1..n PROVE msgs[i + 1].seq = seen + i
      <4>1. msgs[i + 1] = [type |-> "event", seq |-> kept[i].seq, ev |-> kept[i].ev]
        BY <1>7
      <4>2. kept[i].seq = seen + i
        BY <2>6
      <4> QED
        BY <4>1, <4>2
    <3>2. last \in Nat /\ n \in Nat /\ Len(msgs) = n + 1 /\ (n = 0 \/ n = last - seen) /\ last = lastSentSeq'[id]
      BY <1>7, <1>8, <2>5, <2>6
    <3> HIDE DEF last, n
    <3>3. ASSUME NEW i \in 2..Len(msgs)
          PROVE  msgs[i].seq = seen + (i - 1) /\ seen + (i - 1) \in Nat /\ seen < seen + (i - 1)
                 /\ seen + (i - 1) <= last
      <4>1. i - 1 \in 1..n /\ (i - 1) + 1 = i
        BY <3>2
      <4> QED
        <5>1. msgs[(i - 1) + 1].seq = seen + (i - 1)
          BY <3>1, <4>1
        <5>2. seen + (i - 1) \in Nat /\ seen < seen + (i - 1) /\ seen + (i - 1) <= last
          BY <3>2, <4>1
        <5> QED
          BY <4>1, <5>1, <5>2
    <3>4. \A i, j \in 2..Len(msgs) : i < j => msgs[i].seq < msgs[j].seq
      BY <3>2, <3>3
    <3> QED
      BY <3>2, <3>3, <3>4 DEF Rising
  <2> QED
    BY <2>2, <2>4, <2>7 DEF LinkOK, QueuedAcks, Born
<1> HIDE DEF msgs, kept, n
<1>10. \A w \in Window : ws[w] = s =>
            \E seen \in Nat : /\ seen = IF msgs[1].reconnected THEN lastSeenSeq[w] ELSE 0
                              /\ LinkOK(w, id, seen)' /\ Rising(msgs, 2, seen, lastSentSeq'[id])
  <2> SUFFICES ASSUME NEW w \in Window, ws[w] = s
               PROVE  \E seen \in Nat : /\ seen = IF msgs[1].reconnected THEN lastSeenSeq[w] ELSE 0
                              /\ LinkOK(w, id, seen)' /\ Rising(msgs, 2, seen, lastSentSeq'[id])
    OBVIOUS
  <2>1. PICK seen \in Nat : seen = lastSeenSeq[w] /\ seen = lastSeenSeq'[w]
    BY <1>1 DEF IInv, TypeOK, clientVars
  <2>2. LinkOK(w, id, seen)'
    BY <1>9, <2>1 DEF LinkOK, QueuedAcks, Born
  <2> QED
    BY <1>8, <1>9, <2>1, <2>2
<1>11. toClient' = SafeSend(s, msgs)
  BY <1>1 DEF msgs
<1> QED
  BY <1>1, <1>2, <1>5, <1>6, <1>7, <1>8, <1>10, <1>11, CompleteSeen

\* A window that a client's step leaves alone.
LEMMA WindowSame ==
  ASSUME IInv, NetInv, SeenInv, LinksKept, UNCHANGED lastSentSeq, NEW w \in Window,
         ws'[w] = ws[w], clientId'[w] = clientId[w], lastSeenSeq'[w] = lastSeenSeq[w],
         pendingReconnect'[w] = pendingReconnect[w],
         ws[w] # None => toClient'[ws[w]] = toClient[ws[w]]
  PROVE  SeenConnected(w)' /\ SeenAcked(w)' /\ SeenResume(w)'
<1>1. lastSentSeq' \in [Sock -> Nat] /\ SentGrows
  BY DEF IInv, TypeOK, SentGrows
<1>2. SeenResume(w)'
  BY ResumeSame
<1>3. CASE ws[w] = None
  BY <1>2, <1>3 DEF SeenConnected, SeenAcked, AckWaits, Connected, NetInv, ConnectedOK
<1>4. CASE ws[w] # None
  BY <1>1, <1>2, <1>4, ConnectedSame, AckedSame
<1> QED
  BY <1>3, <1>4

\* A step of a client that sends nothing keeps the links and the acknowledgements.
LEMMA ServerSame ==
  ASSUME SeenInv, UNCHANGED <<serverVars, serverEnd, toServer>>
  PROVE  LinksKept /\ UNCHANGED lastSentSeq /\ \A id \in Sock : AckedOK(id)'
BY DEF serverVars, connVars, hsVars, LinksKept, LinkOK, QueuedAcks, AckedOK, Born, SeenInv

LEMMA ConnectSeen == ASSUME IInv, NetInv, SeenInv, NEW w \in Window, Connect(w) PROVE SeenInv'
<1> DEFINE n == nextSock
<1>1. /\ ~Connected(w) /\ n \in Sock
      /\ ws'[w] = n /\ \A v \in Window : v # w => ws'[v] = ws[v]
      /\ \A t \in Sock : toClient'[t] = IF t = ws[w] THEN <<>> ELSE toClient[t]
      /\ UNCHANGED <<serverVars, clientId, lastSeenSeq, pendingReconnect, serverEnd, toServer>>
  BY DEF Connect, IInv, TypeOK, Sock
<1>2. toClient'[n] = <<>>
  <2>1. n >= nextSock
    BY <1>1, SockFacts
  <2>2. toClient[n] = <<>>
    BY <1>1, <2>1 DEF NetInv, SockOK
  <2> QED
    BY <1>1, <2>2
<1>3. LinksKept /\ UNCHANGED lastSentSeq /\ \A id \in Sock : AckedOK(id)'
  BY <1>1, ServerSame
<1>4. ASSUME NEW v \in Window PROVE SeenConnected(v)' /\ SeenAcked(v)' /\ SeenResume(v)'
  <2>1. CASE v = w
    <3>1. SeenConnected(v)' /\ SeenAcked(v)'
      BY <1>1, <1>2, <2>1 DEF SeenConnected, SeenAcked, AckWaits, Connected
    <3>2. SeenResume(v)'
      BY <1>1, <1>3, ResumeSame
    <3> QED
      BY <3>1, <3>2
  <2>2. CASE v # w
    <3>1. ws[v] # None => toClient'[ws[v]] = toClient[ws[v]]
      BY <1>1, <2>2, WindowSocket
    <3> QED
      BY <1>1, <1>3, <2>2, <3>1, WindowSame
  <2> QED
    BY <2>1, <2>2
<1> QED
  BY <1>3, <1>4 DEF SeenInv

LEMMA OnDisconnectSeen == ASSUME IInv, NetInv, SeenInv, NEW w \in Window, OnDisconnect(w) PROVE SeenInv'
<1> DEFINE s == ws[w]
<1>1. s # None /\ s \in Sock /\ UNCHANGED <<serverVars, lastSeenSeq, serverEnd, toServer>>
  BY WindowSocket DEF OnDisconnect
<1>2. /\ \A t \in Sock : t # s => toClient'[t] = toClient[t]
      /\ ws'[w] = None /\ clientId'[w] = None
      /\ pendingReconnect'[w] = IF Connected(w) THEN [clientId |-> clientId[w], lastSeq |-> lastSeenSeq[w]]
                                ELSE pendingReconnect[w]
      /\ \A v \in Window : v # w => /\ ws'[v] = ws[v] /\ clientId'[v] = clientId[v]
                                    /\ pendingReconnect'[v] = pendingReconnect[v]
  BY <1>1 DEF OnDisconnect, IInv, TypeOK
<1>3. LinksKept /\ UNCHANGED lastSentSeq /\ \A id \in Sock : AckedOK(id)'
  BY <1>1, ServerSame
<1>4. ASSUME NEW v \in Window PROVE SeenConnected(v)' /\ SeenAcked(v)' /\ SeenResume(v)'
  <2>1. CASE v = w
    <3>1. SeenConnected(v)' /\ SeenAcked(v)'
      BY <1>2, <2>1 DEF SeenConnected, SeenAcked, AckWaits, Connected
    <3>2. CASE Connected(w)
      <4>1. PICK id \in Sock, seen \in Nat : id = clientId[w] /\ seen = lastSeenSeq[w]
        BY <3>2, WindowSocket DEF IInv, TypeOK
      <4>2. LinkOK(w, id, seen)'
        BY <1>3, <3>2, <4>1 DEF LinksKept, SeenInv, SeenConnected
      <4>3. pendingReconnect'[w].clientId = id /\ pendingReconnect'[w].lastSeq = seen
        BY <1>2, <3>2, <4>1
      <4> QED
        BY <2>1, <3>1, <4>2, <4>3 DEF SeenResume, LinkOK, QueuedAcks, Born
    <3>3. CASE ~Connected(w)
      <4>1. SeenResume(w)'
        BY <1>2, <1>3, <3>3, ResumeSame DEF Connected
      <4> QED
        BY <2>1, <3>1, <4>1
    <3> QED
      BY <3>2, <3>3
  <2>2. CASE v # w
    <3>1. ws[v] # None => toClient'[ws[v]] = toClient[ws[v]]
      BY <1>1, <1>2, <2>2, WindowSocket
    <3> QED
      BY <1>1, <1>2, <1>3, <2>2, <3>1, WindowSame
  <2> QED
    BY <2>1, <2>2
<1> QED
  BY <1>3, <1>4 DEF SeenInv

\* A queue without its first message.
LEMMA RisingTail ==
  ASSUME NEW q, NEW r, NEW seen, NEW last, Len(q) \in Nat \ {0}, Len(r) = Len(q) - 1,
         \A i \in 1..Len(r) : r[i] = q[i + 1]
  PROVE  /\ Rising(q, 2, seen, last) => Rising(r, 1, seen, last)
         /\ Rising(q, 1, seen, last) =>
              /\ q[1].seq \in Nat /\ seen < q[1].seq /\ q[1].seq <= last
              /\ Rising(r, 1, q[1].seq, last)
<1> DEFINE n == Len(q)
<1>1. n \in Nat \ {0} /\ Len(r) = n - 1
  OBVIOUS
<1> HIDE DEF n
<1>2. ASSUME NEW i \in 1..Len(r) PROVE r[i] = q[i + 1] /\ i + 1 \in 2..n /\ i + 1 \in 1..n /\ 1 < i + 1
  BY <1>1
<1>3. ASSUME Rising(q, 2, seen, last) PROVE Rising(r, 1, seen, last)
  <2>1. /\ \A i \in 2..n : q[i].seq \in Nat /\ seen < q[i].seq /\ q[i].seq <= last
        /\ \A i, j \in 2..n : i < j => q[i].seq < q[j].seq
    BY <1>3 DEF Rising, n
  <2>2. \A i, j \in 1..Len(r) : i < j => i + 1 < j + 1
    BY <1>1
  <2> QED
    BY <1>2, <2>1, <2>2 DEF Rising
<1>4. ASSUME Rising(q, 1, seen, last)
      PROVE  /\ q[1].seq \in Nat /\ seen < q[1].seq /\ q[1].seq <= last
             /\ Rising(r, 1, q[1].seq, last)
  <2>1. /\ \A i \in 1..n : q[i].seq \in Nat /\ seen < q[i].seq /\ q[i].seq <= last
        /\ \A i, j \in 1..n : i < j => q[i].seq < q[j].seq
    BY <1>4 DEF Rising, n
  <2>2. \A i, j \in 1..Len(r) : i < j => i + 1 < j + 1
    BY <1>1
  <2>3. 1 \in 1..n
    BY <1>1
  <2> QED
    BY <1>2, <2>1, <2>2, <2>3 DEF Rising
<1> QED
  BY <1>3, <1>4

LEMMA OnHandshakeAckSeen ==
  ASSUME IInv, NetInv, SeenInv, NEW w \in Window, OnHandshakeAck(w) PROVE SeenInv'
<1> DEFINE s == ws[w]
<1>0. Receive(w, "handshake_ack")
  BY DEF OnHandshakeAck
<1>1. /\ s \in Sock /\ s # None /\ AckWaits(w) /\ Head(toClient[s]) = Ack(w)
      /\ Len(toClient[s]) \in Nat \ {0} /\ Len(toClient'[s]) = Len(toClient[s]) - 1
      /\ \A i \in 1..Len(toClient'[s]) : toClient'[s][i] = toClient[s][i + 1]
      /\ \A t \in Sock : t # s => toClient'[t] = toClient[t]
  BY <1>0, RestOfQueue, ReceivedFacts DEF Ack
<1>2. Ack(w).clientId \in Sock /\ Ack(w).reconnected \in BOOLEAN
  BY <1>1, AckFacts
<1>3. /\ clientId'[w] = Ack(w).clientId /\ lastSeenSeq'[w] = AckSeen(w) /\ pendingReconnect'[w] = NoReconnect
      /\ \A v \in Window : v # w =>
           /\ clientId'[v] = clientId[v] /\ pendingReconnect'[v] = pendingReconnect[v]
           /\ lastSeenSeq'[v] = lastSeenSeq[v]
      /\ UNCHANGED <<serverVars, ws, serverEnd, toServer>>
  BY <1>1 DEF OnHandshakeAck, SeenAfter, AckSeen, IInv, TypeOK
<1>4. LinksKept /\ UNCHANGED lastSentSeq /\ \A id \in Sock : AckedOK(id)'
  BY <1>3, ServerSame
<1>5. ASSUME NEW v \in Window PROVE SeenConnected(v)' /\ SeenAcked(v)' /\ SeenResume(v)'
  <2>1. CASE v = w
    <3>1. PICK id \in Sock, seen \in Nat : id = Ack(w).clientId /\ seen = AckSeen(w)
      BY <1>2 DEF AckSeen, IInv, TypeOK
    <3>2. LinkOK(w, id, seen) /\ Rising(toClient[s], 2, seen, lastSentSeq[id])
      BY <1>1, <3>1 DEF SeenInv, SeenAcked
    <3>3. LinkOK(w, id, seen)'
      BY <1>4, <3>2 DEF LinksKept
    <3>4. Rising(toClient'[s], 1, seen, lastSentSeq[id])
      BY <1>1, <3>2, RisingTail
    <3>5. id = clientId'[w] /\ seen = lastSeenSeq'[w] /\ ws'[w] = s
      BY <1>3, <3>1
    <3>6. SeenConnected(w)'
      BY <1>4, <3>3, <3>4, <3>5 DEF SeenConnected, LinkOK, QueuedAcks, Born, Rising
    <3>7. Connected(w)'
      BY <3>5, SockFacts DEF Connected
    <3> QED
      BY <2>1, <3>6, <3>7 DEF SeenAcked, SeenResume, AckWaits
  <2>2. CASE v # w
    <3>1. ws[v] # None => toClient'[ws[v]] = toClient[ws[v]]
      BY <1>1, <2>2, WindowSocket
    <3> QED
      BY <1>3, <1>4, <2>2, <3>1, WindowSame
  <2> QED
    BY <2>1, <2>2
<1> QED
  BY <1>4, <1>5 DEF SeenInv

LEMMA OnEventSeen == ASSUME IInv, NetInv, SeenInv, NEW w \in Window, OnEvent(w) PROVE SeenInv'
<1> DEFINE s == ws[w]
           event == toClient[s][1]
<1>0. Receive(w, "event")
  BY DEF OnEvent
<1>1. /\ s \in Sock /\ s # None /\ Connected(w) /\ Head(toClient[s]) = event
      /\ Len(toClient[s]) \in Nat \ {0} /\ Len(toClient'[s]) = Len(toClient[s]) - 1
      /\ \A i \in 1..Len(toClient'[s]) : toClient'[s][i] = toClient[s][i + 1]
      /\ \A t \in Sock : t # s => toClient'[t] = toClient[t]
  BY <1>0, RestOfQueue, ReceivedFacts
<1>3. /\ lastSeenSeq'[w] = event.seq
      /\ \A v \in Window : v # w => lastSeenSeq'[v] = lastSeenSeq[v]
      /\ UNCHANGED <<serverVars, ws, clientId, pendingReconnect, serverEnd, toServer>>
  BY <1>1 DEF OnEvent, IInv, TypeOK
<1>4. LinksKept /\ UNCHANGED lastSentSeq /\ \A id \in Sock : AckedOK(id)'
  BY <1>3, ServerSame
<1>5. ASSUME NEW v \in Window PROVE SeenConnected(v)' /\ SeenAcked(v)' /\ SeenResume(v)'
  <2>1. CASE v = w
    <3>1. PICK id \in Sock, seen \in Nat : id = clientId[w] /\ seen = lastSeenSeq[w]
      BY <1>1, WindowSocket DEF IInv, TypeOK
    <3>2. LinkOK(w, id, seen) /\ Rising(toClient[s], 1, seen, lastSentSeq[id])
      BY <1>1, <3>1 DEF SeenInv, SeenConnected
    <3>3. /\ event.seq \in Nat /\ seen < event.seq /\ event.seq <= lastSentSeq[id]
          /\ Rising(toClient'[s], 1, event.seq, lastSentSeq[id])
      BY <1>1, <3>2, RisingTail
    <3>4. PICK next \in Nat : next = event.seq
      BY <3>3
    <3>5. LinkOK(w, id, next)
      <4>1. QueuedAcks(id, next)
        BY <3>2, <3>3, <3>4, QueuedAcksMore DEF LinkOK
      <4>2. lastAckedSeq[id] <= next
        <5>1. lastAckedSeq[id] \in Nat /\ lastAckedSeq[id] <= seen
          BY <3>2 DEF LinkOK, IInv, TypeOK
        <5>2. seen < next
          BY <3>3, <3>4
        <5> QED
          BY <5>1, <5>2
      <4> QED
        BY <3>2, <3>3, <3>4, <4>1, <4>2 DEF LinkOK
    <3>6. LinkOK(w, id, next)'
      BY <1>4, <3>5 DEF LinksKept
    <3>7. id = clientId'[w] /\ next = lastSeenSeq'[w] /\ ws'[w] = s
      BY <1>3, <3>1, <3>4
    <3>8. SeenConnected(w)'
      BY <1>4, <3>3, <3>4, <3>6, <3>7 DEF SeenConnected, LinkOK, QueuedAcks, Born, Rising
    <3>9. Connected(w)'
      BY <3>7, SockFacts DEF Connected
    <3> QED
      BY <2>1, <3>8, <3>9 DEF SeenAcked, SeenResume, AckWaits
  <2>2. CASE v # w
    <3>1. ws[v] # None => toClient'[ws[v]] = toClient[ws[v]]
      BY <1>1, <2>2, WindowSocket
    <3> QED
      BY <1>3, <1>4, <2>2, <3>1, WindowSame
  <2> QED
    BY <2>1, <2>2
<1> QED
  BY <1>4, <1>5 DEF SeenInv

\* What a window sends acknowledges no more than it has seen.
LEMMA QueuedAcksSent ==
  ASSUME IInv, NEW s \in Sock, NEW msg \in ToServerMsg, toServer' = ClientSend(s, msg),
         UNCHANGED closeHandler, NEW id, NEW seen, QueuedAcks(id, seen),
         serverEnd[s] = "open" /\ closeHandler[s] = id /\ msg.type = "sequence_ack" => msg.lastSeq <= seen
  PROVE  QueuedAcks(id, seen)'
<1>1. /\ \A t \in Sock : t # s => toServer'[t] = toServer[t]
      /\ toServer'[s] = IF serverEnd[s] = "open" THEN Append(toServer[s], msg) ELSE toServer[s]
  BY ClientSendFacts
<1>2. ASSUME NEW t \in Sock, closeHandler[t] = id, NEW i \in 1..Len(toServer'[t]),
             toServer'[t][i].type = "sequence_ack"
      PROVE  toServer'[t][i].lastSeq <= seen
  <2>1. CASE toServer'[t] = toServer[t]
    BY <1>2, <2>1 DEF QueuedAcks
  <2>2. CASE toServer'[t] # toServer[t]
    <3> DEFINE q == toServer[t]
               n == Len(q)
    <3>1. t = s /\ serverEnd[s] = "open" /\ toServer'[t] = Append(q, msg) /\ q \in Seq(ToServerMsg)
      BY <1>1, <2>2 DEF IInv, TypeOK
    <3>2. /\ n \in Nat /\ Len(toServer'[t]) = n + 1 /\ toServer'[t][n + 1] = msg
          /\ \A j \in 1..n : toServer'[t][j] = q[j]
      BY <3>1, AppendFacts
    <3>3. \A j \in 1..n : q[j].type = "sequence_ack" => q[j].lastSeq <= seen
      BY <1>2 DEF QueuedAcks
    <3> HIDE DEF q, n
    <3>4. i = n + 1 \/ i \in 1..n
      BY <3>2
    <3> QED
      BY <1>2, <3>1, <3>2, <3>3, <3>4
  <2> QED
    BY <2>1, <2>2
<1> QED
  BY <1>2 DEF QueuedAcks

\* A message that acknowledges no more than its window has seen.
LEMMA SentSeen ==
  ASSUME IInv, NetInv, SeenInv, NEW s \in Sock, NEW msg \in ToServerMsg, toServer' = ClientSend(s, msg),
         UNCHANGED <<serverVars, ws, clientId, lastSeenSeq, pendingReconnect, serverEnd, toClient>>,
         msg.type = "sequence_ack" =>
           \E w \in Window : ws[w] = s /\ Connected(w) /\ msg.lastSeq = lastSeenSeq[w]
  PROVE  SeenInv'
<1>1. ASSUME NEW w \in Window, NEW id \in Sock, NEW seen \in Nat, LinkOK(w, id, seen),
             Connected(w) /\ clientId[w] = id => seen = lastSeenSeq[w]
      PROVE  LinkOK(w, id, seen)'
  <2>1. ASSUME serverEnd[s] = "open", closeHandler[s] = id, msg.type = "sequence_ack" PROVE msg.lastSeq <= seen
    <3>1. PICK v \in Window : ws[v] = s /\ Connected(v) /\ msg.lastSeq = lastSeenSeq[v]
      BY <2>1
    <3>2. clientId[v] = id /\ lastSeenSeq[v] \in Nat
      BY <2>1, <3>1 DEF NetInv, ConnectedOK, IInv, TypeOK
    <3>3. connWindow[id] = v
      BY <3>1, <3>2 DEF SeenInv, SeenConnected, LinkOK
    <3>4. v = w
      BY <1>1, <3>3 DEF LinkOK
    <3> QED
      BY <1>1, <3>1, <3>2, <3>4
  <2>2. QueuedAcks(id, seen)'
    BY <1>1, <2>1, QueuedAcksSent DEF LinkOK, serverVars, hsVars
  <2> QED
    BY <1>1, <2>2 DEF LinkOK, Born, serverVars, connVars, hsVars
<1>2. ASSUME NEW id \in Sock PROVE AckedOK(id)'
  <2>1. PICK n \in Nat : n = lastSentSeq[id] /\ n = lastSentSeq'[id]
    BY DEF IInv, TypeOK, serverVars, connVars
  <2>2. QueuedAcks(id, n) /\ lastAckedSeq[id] <= n
    BY <2>1 DEF SeenInv, AckedOK
  <2>3. ASSUME serverEnd[s] = "open", closeHandler[s] = id, msg.type = "sequence_ack" PROVE msg.lastSeq <= n
    <3>1. PICK v \in Window : ws[v] = s /\ Connected(v) /\ msg.lastSeq = lastSeenSeq[v]
      BY <2>3
    <3>2. clientId[v] = id
      BY <2>3, <3>1 DEF NetInv, ConnectedOK
    <3> QED
      BY <2>1, <3>1, <3>2 DEF SeenInv, SeenConnected, LinkOK
  <2>4. QueuedAcks(id, n)'
    BY <2>2, <2>3, QueuedAcksSent DEF serverVars, hsVars
  <2> QED
    BY <2>1, <2>2, <2>4 DEF AckedOK, QueuedAcks, serverVars, connVars
<1>3. lastSentSeq' = lastSentSeq /\ lastSentSeq \in [Sock -> Nat]
  BY DEF serverVars, connVars, IInv, TypeOK
<1>4. ASSUME NEW w \in Window PROVE SeenConnected(w)' /\ SeenAcked(w)' /\ SeenResume(w)'
  <2>1. lastSeenSeq[w] \in Nat /\ pendingReconnect[w].clientId \in SockOrNone /\ pendingReconnect[w].lastSeq \in Nat
    BY DEF IInv, TypeOK, ReconnectInfo
  <2>2. CASE Connected(w)
    <3>1. PICK id \in Sock, seen \in Nat : id = clientId[w] /\ seen = lastSeenSeq[w]
      BY <2>1, <2>2, WindowSocket
    <3>2. LinkOK(w, id, seen) /\ Rising(toClient[ws[w]], 1, seen, lastSentSeq[id])
      BY <2>2, <3>1 DEF SeenInv, SeenConnected
    <3>3. LinkOK(w, id, seen)'
      BY <1>1, <3>1, <3>2
    <3>4. id = clientId'[w] /\ seen = lastSeenSeq'[w] /\ toClient'[ws'[w]] = toClient[ws[w]] /\ Connected(w)'
      BY <2>2, <3>1 DEF Connected
    <3> QED
      BY <1>3, <3>2, <3>3, <3>4 DEF SeenConnected, SeenAcked, SeenResume, AckWaits, LinkOK, QueuedAcks, Born, Rising
  <2>3. CASE ~Connected(w)
    <3>1. ~Connected(w)'
      BY <2>3 DEF Connected
    <3>2. SeenResume(w)'
      <4> SUFFICES ASSUME pendingReconnect[w].clientId # None PROVE SeenResume(w)'
        BY DEF SeenResume
      <4>1. PICK id \in Sock, seen \in Nat : id = pendingReconnect[w].clientId /\ seen = pendingReconnect[w].lastSeq
        BY <2>1, SockFacts
      <4>2. LinkOK(w, id, seen)'
        BY <1>1, <2>3, <4>1 DEF SeenInv, SeenResume
      <4>3. id = pendingReconnect'[w].clientId /\ seen = pendingReconnect'[w].lastSeq
        BY <4>1
      <4> QED
        BY <4>2, <4>3 DEF SeenResume, LinkOK, QueuedAcks, Born
    <3>3. SeenAcked(w)'
      <4> SUFFICES ASSUME AckWaits(w) PROVE SeenAcked(w)'
        BY DEF SeenAcked, AckWaits, Connected
      <4>1. Ack(w)' = Ack(w) /\ AckSeen(w)' = AckSeen(w)
        BY DEF Ack, AckSeen
      <4>2. PICK id \in Sock, seen \in Nat : id = Ack(w).clientId /\ seen = AckSeen(w)
        BY <2>1, AckFacts DEF AckSeen
      <4>3. LinkOK(w, id, seen) /\ Rising(toClient[ws[w]], 2, seen, lastSentSeq[id])
        BY <4>2 DEF SeenInv, SeenAcked
      <4>4. LinkOK(w, id, seen)'
        BY <1>1, <2>3, <4>3
      <4>5. id = Ack(w)'.clientId /\ seen = AckSeen(w)'
        BY <4>1, <4>2
      <4> QED
        BY <1>3, <4>3, <4>4, <4>5 DEF SeenAcked, LinkOK, QueuedAcks, Born, Rising
    <3> QED
      BY <3>1, <3>2, <3>3 DEF SeenConnected
  <2> QED
    BY <2>2, <2>3
<1> QED
  BY <1>2, <1>4 DEF SeenInv

LEMMA OnOpenSeen == ASSUME IInv, NetInv, SeenInv, NEW w \in Window, OnOpen(w) PROVE SeenInv'
<1> DEFINE msg == [type |-> "handshake", reconnect |-> pendingReconnect[w]]
<1>1. /\ ws[w] \in Sock /\ toServer' = ClientSend(ws[w], msg)
      /\ UNCHANGED <<serverVars, ws, clientId, lastSeenSeq, pendingReconnect, serverEnd, toClient>>
  BY WindowSocket DEF OnOpen
<1>2. msg \in ToServerMsg /\ msg.type # "sequence_ack"
  BY DEF IInv, TypeOK, ToServerMsg, HandshakeMsg
<1> QED
  BY <1>1, <1>2, SentSeen

LEMMA SendSequenceAckSeen ==
  ASSUME IInv, NetInv, SeenInv, NEW w \in Window, SendSequenceAck(w) PROVE SeenInv'
<1> DEFINE msg == [type |-> "sequence_ack", lastSeq |-> lastSeenSeq[w]]
<1>1. /\ Connected(w) /\ toServer' = ClientSend(ws[w], msg)
      /\ UNCHANGED <<serverVars, ws, clientId, lastSeenSeq, pendingReconnect, serverEnd, toClient>>
  BY DEF SendSequenceAck, SendMessage
<1>2. ws[w] \in Sock
  BY <1>1, WindowSocket DEF NetInv, ConnectedOK
<1>3. msg \in ToServerMsg /\ msg.lastSeq = lastSeenSeq[w]
  BY DEF IInv, TypeOK, ToServerMsg, SequenceAckMsg
<1> QED
  BY <1>1, <1>2, <1>3, SentSeen

LEMMA SwitchWorkspaceSeen ==
  ASSUME IInv, NetInv, SeenInv, NEW w \in Window, NEW x \in Workspace, SwitchWorkspace(w, x) PROVE SeenInv'
<1> DEFINE msg == [type |-> "switchWorkspace", workspaceId |-> x]
<1>1. /\ Connected(w) /\ toServer' = ClientSend(ws[w], msg)
      /\ UNCHANGED <<serverVars, ws, clientId, lastSeenSeq, pendingReconnect, serverEnd, toClient>>
  BY DEF SwitchWorkspace, SendMessage
<1>2. ws[w] \in Sock
  BY <1>1, WindowSocket DEF NetInv, ConnectedOK
<1>3. msg \in ToServerMsg /\ msg.type # "sequence_ack"
  BY SentType
<1> QED
  BY <1>1, <1>2, <1>3, SentSeen

\* No step breaks the invariant.
LEMMA StepSeen == ASSUME IInv, NetInv, SeenInv, [Next]_vars PROVE SeenInv'
<1>1. CASE UNCHANGED vars
  <2>1. LinksKept /\ UNCHANGED <<clientVars, toClient, lastSentSeq>> /\ \A id \in Sock : AckedOK(id)'
    BY <1>1, ServerSame DEF vars, netVars
  <2> QED
    BY <2>1, SeenFromLinks
<1>2. CASE ServerNext
  BY <1>2, PushSeen, EventsAgeSeen, DisconnectedExpiresSeen, RestartSeen, OnConnectionSeen, OnHandshakeSeen,
     RejectHandshakeSeen, CompleteReconnectSeen, CompleteFreshSeen, OnSequenceAckSeen, OnSwitchWorkspaceSeen,
     OnCloseSeen DEF ServerNext
<1>3. CASE ClientNext
  BY <1>3, ConnectSeen, OnOpenSeen, OnHandshakeAckSeen, OnEventSeen, OnDisconnectSeen, SendSequenceAckSeen,
     SwitchWorkspaceSeen DEF ClientNext
<1> QED
  BY <1>1, <1>2, <1>3 DEF Next

\* Retained ids are socket numbers.
LEMMA RetainedSock == ASSUME IInv PROVE Retained \subseteq Sock
<1>1. clients \subseteq Sock /\ disconnectedClients \in Seq(Sock)
  BY DEF IInv, TypeOK
<1>2. \A i \in 1..Len(disconnectedClients) : disconnectedClients[i] \in Sock
  BY <1>1, ElementOfSeq
<1> QED
  BY <1>1, <1>2 DEF Retained, Elements

\* The invariants give the property.
LEMMA AcksSeen == ASSUME IInv, NetInv, SeenInv PROVE AckedWasSeen
<1> SUFFICES ASSUME NEW id \in Retained, NEW w \in Window
             PROVE  /\ lastAckedSeq[id] <= lastSentSeq[id]
                    /\ clientId[w] = id => lastAckedSeq[id] <= lastSeenSeq[w]
                    /\ pendingReconnect[w].clientId = id => lastAckedSeq[id] <= pendingReconnect[w].lastSeq
  BY DEF AckedWasSeen
<1>1. id \in Sock
  BY RetainedSock
<1>2. lastAckedSeq[id] <= lastSentSeq[id]
  BY <1>1 DEF SeenInv, AckedOK
<1>3. clientId[w] = id => lastAckedSeq[id] <= lastSeenSeq[w]
  BY <1>1, SockFacts DEF SeenInv, SeenConnected, Connected, LinkOK
<1>4. pendingReconnect[w].clientId = id => lastAckedSeq[id] <= pendingReconnect[w].lastSeq
  BY <1>1, SockFacts DEF SeenInv, SeenResume, LinkOK, NetInv, ConnectedOK, NoReconnect
<1> QED
  BY <1>2, <1>3, <1>4

\* An acknowledgement never runs ahead of what was sent to its window, nor of what
\* the window has seen, whatever is pushed and whichever sockets fail: OnSequenceAck
\* never throws away an event that a reconnection could ask for.
THEOREM AcksAreSeen == Spec => []AckedWasSeen
<1> DEFINE Inv == IInv /\ NetInv /\ SeenInv
<1>1. Init => Inv
  BY InitInv, InitNet, InitSeen
<1>2. Inv /\ [Next]_vars => Inv'
  BY NextInv, StepNet, StepSeen
<1>3. Inv => AckedWasSeen
  BY AcksSeen
<1> QED
  BY <1>1, <1>2, <1>3, PTL DEF Spec

-----------------------------------------------------------------------------
(* The inductive invariant: what the numbers of a client id stand for *)

OwedAfter(w, k) == {n \in (k + 1)..Len(published) : w \in published[n]}

\* e leads from the numbers base + 1 up to last to the first of the events owed,
\* in their order.
Numbers(e, base, last, owed) ==
  /\ \A x \in (base + 1)..last : e[x] \in owed
  /\ \A x, y \in (base + 1)..last : x < y => e[x] < e[y]
  /\ \A x \in (base + 1)..last, n \in owed : n <= e[x] => \E y \in (base + 1)..last : e[y] = n

AllNumbered(e, base, last, owed) == \A n \in owed : \E y \in (base + 1)..last : e[y] = n

\* A queue, without its first off messages, holds the events from number base + 1.
Queued(e, base, last, q, off) ==
  \A i \in 1..Len(q) : i > off =>
    /\ base + i <= last + off
    /\ \A x \in Nat : x + off = base + i => q[i].seq = x /\ q[i].ev = e[x]

\* A buffer agrees with e; if the window was told to reload, what comes right after
\* the last number it has seen is gone.
Buffered(e, base, seen, buf) ==
  \A i \in 1..Len(buf) :
    /\ buf[i].seq > base => buf[i].ev = e[buf[i].seq]
    /\ base > seen => buf[i].seq > seen + 1

\* Window w, which has seen the events of client id up to number seen and knows of
\* those published up to k: what is in queue q for it are the next ones it is owed,
\* all of them if the server's end of its socket is open, and so are those that
\* the server retains for it.
Chain(w, id, seen, k, q, off, end) ==
  \E base, last \in Nat, e \in [Nat -> Nat] :
    /\ seen <= base /\ base <= last
    /\ Numbers(e, base, last, OwedAfter(w, k))
    /\ Queued(e, base, last, q, off)
    /\ id \in Retained =>
         /\ last = lastSentSeq[id]
         /\ AllNumbered(e, base, last, OwedAfter(w, k))
         /\ Buffered(e, base, seen, eventBuffer[id])
    /\ end = "open" => last + off = base + Len(q)

ChainConnected(w) ==
  Connected(w) =>
    Chain(w, clientId[w], lastSeenSeq[w], known[w], toClient[ws[w]], 0, serverEnd[ws[w]])

KnownAfter(w) == IF Ack(w).reconnected /\ ~Ack(w).stale THEN known[w] ELSE Ack(w).upto

ChainAcked(w) ==
  AckWaits(w) =>
    Chain(w, Ack(w).clientId, AckSeen(w), KnownAfter(w), toClient[ws[w]], 1, serverEnd[ws[w]])

ChainResume(w) ==
  ~Connected(w) /\ pendingReconnect[w].clientId # None =>
    Chain(w, pendingReconnect[w].clientId, pendingReconnect[w].lastSeq, known[w], <<>>, 0, "closed")

\* What a window knows of, or will know of with an acknowledgement, was published;
\* without a client id to resume it was told nothing.
ToldOK(w) ==
  /\ known[w] <= Len(published)
  /\ AckWaits(w) => known[w] <= Ack(w).upto /\ Ack(w).upto <= Len(published)
  /\ ~Connected(w) /\ pendingReconnect[w] = NoReconnect => notice[w] = "none"

ChainInv ==
  \A w \in Window : ChainConnected(w) /\ ChainAcked(w) /\ ChainResume(w) /\ ToldOK(w)

LEMMA InitChain == Init => ChainInv
<1> SUFFICES ASSUME Init, NEW w \in Window
             PROVE  ChainConnected(w) /\ ChainAcked(w) /\ ChainResume(w) /\ ToldOK(w)
  BY DEF ChainInv
<1>1. ~Connected(w) /\ ~AckWaits(w) /\ pendingReconnect[w].clientId = None
  BY DEF Init, Connected, AckWaits, NoReconnect
<1>2. known[w] = 0 /\ Len(published) = 0 /\ notice[w] = "none"
  BY EmptySeq DEF Init
<1> QED
  BY <1>1, <1>2 DEF ChainConnected, ChainAcked, ChainResume, ToldOK

\* The retained clients in use keep their numbers, and no buffer gets new events.
ChainsKept ==
  /\ UNCHANGED published
  /\ \A id \in Sock : Born(id) /\ id \in Retained' =>
       /\ id \in Retained /\ lastSentSeq'[id] = lastSentSeq[id]
       /\ \A i \in 1..Len(eventBuffer'[id]) :
            \E j \in 1..Len(eventBuffer[id]) : eventBuffer'[id][i] = eventBuffer[id][j]

LEMMA ChainKept ==
  ASSUME ChainsKept, NEW w, NEW id \in Sock, Born(id), NEW seen, NEW k, NEW q, NEW off,
         NEW end, NEW end2, end2 = "open" => end = "open", Chain(w, id, seen, k, q, off, end)
  PROVE  Chain(w, id, seen, k, q, off, end2)'
<1>1. PICK base \in Nat, last \in Nat, e \in [Nat -> Nat] :
    /\ seen <= base /\ base <= last
    /\ Numbers(e, base, last, OwedAfter(w, k))
    /\ Queued(e, base, last, q, off)
    /\ id \in Retained =>
         /\ last = lastSentSeq[id]
         /\ AllNumbered(e, base, last, OwedAfter(w, k))
         /\ Buffered(e, base, seen, eventBuffer[id])
    /\ end = "open" => last + off = base + Len(q)
  BY DEF Chain
<1>2. OwedAfter(w, k)' = OwedAfter(w, k)
  BY DEF ChainsKept, OwedAfter
<1>3. id \in Retained' =>
         /\ last = lastSentSeq'[id]
         /\ AllNumbered(e, base, last, OwedAfter(w, k))
         /\ Buffered(e, base, seen, eventBuffer'[id])
  <2> SUFFICES ASSUME id \in Retained'
               PROVE  /\ last = lastSentSeq'[id]
                      /\ AllNumbered(e, base, last, OwedAfter(w, k))
                      /\ Buffered(e, base, seen, eventBuffer'[id])
    OBVIOUS
  <2>1. /\ id \in Retained /\ lastSentSeq'[id] = lastSentSeq[id]
        /\ \A i \in 1..Len(eventBuffer'[id]) :
             \E j \in 1..Len(eventBuffer[id]) : eventBuffer'[id][i] = eventBuffer[id][j]
    BY DEF ChainsKept
  <2>2. Buffered(e, base, seen, eventBuffer[id])
    BY <1>1, <2>1
  <2>3. Buffered(e, base, seen, eventBuffer'[id])
    BY <2>1, <2>2 DEF Buffered
  <2> QED
    BY <1>1, <2>1, <2>3
<1>4. end2 = "open" => last + off = base + Len(q)
  BY <1>1
<1>5. /\ Numbers(e, base, last, OwedAfter(w, k))'
      /\ Queued(e, base, last, q, off)'
  <2>1. Numbers(e, base, last, OwedAfter(w, k))'
    BY <1>1, <1>2 DEF Numbers
  <2>2. Queued(e, base, last, q, off)'
    BY <1>1 DEF Queued
  <2> QED
    BY <2>1, <2>2
<1>6. (id \in Retained =>
         /\ last = lastSentSeq[id]
         /\ AllNumbered(e, base, last, OwedAfter(w, k))
         /\ Buffered(e, base, seen, eventBuffer[id]))'
  BY <1>2, <1>3 DEF AllNumbered, Buffered
<1> QED
  BY <1>1, <1>4, <1>5, <1>6 DEF Chain

\* No socket opens at the server's end that was taken up before.
EndsKept == \A s \in Sock : serverEnd[s] # "none" /\ serverEnd'[s] = "open" => serverEnd[s] = "open"

\* A window that a step leaves alone keeps what it has.
LEMMA ConnectedChain ==
  ASSUME IInv, NetInv, SeenInv, ChainInv, ChainsKept, EndsKept, NEW w \in Window,
         ws'[w] = ws[w], clientId'[w] = clientId[w], lastSeenSeq'[w] = lastSeenSeq[w],
         known'[w] = known[w], toClient'[ws[w]] = toClient[ws[w]]
  PROVE  ChainConnected(w)'
<1> SUFFICES ASSUME Connected(w)' PROVE ChainConnected(w)'
  BY DEF ChainConnected
<1>1. Connected(w) /\ clientId[w] \in Sock
  BY WindowSocket DEF Connected
<1>2. PICK id, seen, k, q, end, end2 :
        /\ id = clientId[w] /\ seen = lastSeenSeq[w] /\ k = known[w] /\ q = toClient[ws[w]]
        /\ end = serverEnd[ws[w]] /\ end2 = serverEnd'[ws[w]]
  OBVIOUS
<1>3. Chain(w, id, seen, k, q, 0, end)
  BY <1>1, <1>2 DEF ChainInv, ChainConnected
<1>4. Born(id)
  BY <1>1, <1>2 DEF SeenInv, SeenConnected, LinkOK
<1>5. end2 = "open" => end = "open"
  <2>1. ws[w] \in Sock /\ serverEnd[ws[w]] # "none"
    BY <1>1, WindowSocket DEF NetInv, ConnectedOK, Born
  <2> QED
    BY <1>2, <2>1 DEF EndsKept
<1>6. Chain(w, id, seen, k, q, 0, end2)'
  BY <1>1, <1>2, <1>3, <1>4, <1>5, ChainKept
<1>7. /\ id = clientId'[w] /\ seen = lastSeenSeq'[w] /\ k = known'[w] /\ q = toClient'[ws'[w]]
      /\ end2 = serverEnd'[ws'[w]]
  BY <1>2
<1> QED
  BY <1>6, <1>7 DEF ChainConnected

LEMMA AckedChain ==
  ASSUME IInv, NetInv, SeenInv, ChainInv, ChainsKept, EndsKept, NEW w \in Window,
         ws'[w] = ws[w], clientId'[w] = clientId[w], lastSeenSeq'[w] = lastSeenSeq[w],
         known'[w] = known[w], toClient'[ws[w]] = toClient[ws[w]]
  PROVE  ChainAcked(w)'
<1> SUFFICES ASSUME AckWaits(w)' PROVE ChainAcked(w)'
  BY DEF ChainAcked
<1>1. AckWaits(w) /\ Ack(w)' = Ack(w) /\ AckSeen(w)' = AckSeen(w) /\ KnownAfter(w)' = KnownAfter(w)
  BY DEF AckWaits, Connected, Ack, AckSeen, KnownAfter
<1>2. PICK id, seen, k, q, end, end2 :
        /\ id = Ack(w).clientId /\ seen = AckSeen(w) /\ k = KnownAfter(w) /\ q = toClient[ws[w]]
        /\ end = serverEnd[ws[w]] /\ end2 = serverEnd'[ws[w]]
  OBVIOUS
<1>3. Chain(w, id, seen, k, q, 1, end)
  BY <1>1, <1>2 DEF ChainInv, ChainAcked
<1>4. Born(id) /\ id \in Sock /\ ws[w] \in Sock
  BY <1>1, <1>2, AckFacts DEF SeenInv, SeenAcked, LinkOK
<1>5. end2 = "open" => end = "open"
  <2>1. serverEnd[ws[w]] # "none"
    BY <1>1, <1>4, ReadingBorn DEF AckWaits, Born
  <2> QED
    BY <1>2, <1>4, <2>1 DEF EndsKept
<1>6. Chain(w, id, seen, k, q, 1, end2)'
  BY <1>3, <1>4, <1>5, ChainKept
<1>7. /\ id = Ack(w)'.clientId /\ seen = AckSeen(w)' /\ k = KnownAfter(w)' /\ q = toClient'[ws'[w]]
      /\ end2 = serverEnd'[ws'[w]]
  BY <1>1, <1>2
<1> QED
  BY <1>6, <1>7 DEF ChainAcked

LEMMA ResumeChain ==
  ASSUME IInv, NetInv, SeenInv, ChainInv, ChainsKept, NEW w \in Window,
         clientId'[w] = clientId[w], pendingReconnect'[w] = pendingReconnect[w], known'[w] = known[w]
  PROVE  ChainResume(w)'
<1> SUFFICES ASSUME ~Connected(w), pendingReconnect[w].clientId # None PROVE ChainResume(w)'
  BY DEF ChainResume, Connected
<1>1. PICK id, seen, k :
        id = pendingReconnect[w].clientId /\ seen = pendingReconnect[w].lastSeq /\ k = known[w]
  OBVIOUS
<1>2. id \in Sock
  BY <1>1, SockFacts DEF IInv, TypeOK, ReconnectInfo
<1>3. Chain(w, id, seen, k, <<>>, 0, "closed") /\ Born(id)
  BY <1>1 DEF ChainInv, ChainResume, SeenInv, SeenResume, LinkOK
<1>4. Chain(w, id, seen, k, <<>>, 0, "closed")'
  BY <1>2, <1>3, ChainKept
<1>5. id = pendingReconnect'[w].clientId /\ seen = pendingReconnect'[w].lastSeq /\ k = known'[w]
  BY <1>1
<1> QED
  BY <1>4, <1>5 DEF ChainResume

LEMMA ToldSame ==
  ASSUME ChainInv, NEW w \in Window, UNCHANGED published,
         ws'[w] = ws[w], clientId'[w] = clientId[w], pendingReconnect'[w] = pendingReconnect[w],
         known'[w] = known[w], notice'[w] = notice[w],
         ws[w] # None => toClient'[ws[w]] = toClient[ws[w]]
  PROVE  ToldOK(w)'
BY DEF ChainInv, ToldOK, AckWaits, Ack, Connected

LEMMA WindowChains ==
  ASSUME IInv, NetInv, SeenInv, ChainInv, ChainsKept, EndsKept, NEW w \in Window,
         ws'[w] = ws[w], clientId'[w] = clientId[w], lastSeenSeq'[w] = lastSeenSeq[w],
         pendingReconnect'[w] = pendingReconnect[w], known'[w] = known[w], notice'[w] = notice[w],
         ws[w] # None => toClient'[ws[w]] = toClient[ws[w]]
  PROVE  ChainConnected(w)' /\ ChainAcked(w)' /\ ChainResume(w)' /\ ToldOK(w)'
<1>1. ChainResume(w)' /\ ToldOK(w)'
  BY ResumeChain, ToldSame DEF ChainsKept
<1>2. CASE ws[w] = None
  BY <1>1, <1>2 DEF ChainConnected, ChainAcked, AckWaits, Connected, NetInv, ConnectedOK
<1>3. CASE ws[w] # None
  BY <1>1, <1>3, ConnectedChain, AckedChain
<1> QED
  BY <1>2, <1>3

\* A step that changes neither the windows nor the queues to them.
LEMMA ChainFromServer ==
  ASSUME IInv, NetInv, SeenInv, ChainInv, ChainsKept, EndsKept,
         UNCHANGED <<ws, clientId, lastSeenSeq, pendingReconnect, toClient, known, notice>>
  PROVE  ChainInv'
BY WindowChains DEF ChainInv

LEMMA EventsAgeChain == ASSUME IInv, NetInv, SeenInv, ChainInv, EventsAge PROVE ChainInv'
<1>1. /\ UNCHANGED <<ws, clientId, lastSeenSeq, pendingReconnect, toClient, known, notice, published, serverEnd>>
      /\ UNCHANGED <<clients, disconnectedClients, lastSentSeq, eventBuffer>>
  BY DEF EventsAge, connVars, mapVars, clientVars, netVars, historyVars
<1>2. ChainsKept /\ EndsKept
  BY <1>1 DEF ChainsKept, EndsKept, Retained
<1> QED
  BY <1>1, <1>2, ChainFromServer

LEMMA DisconnectedExpiresChain ==
  ASSUME IInv, NetInv, SeenInv, ChainInv, DisconnectedExpires PROVE ChainInv'
<1>1. PICK i \in 1..Len(disconnectedClients) : disconnectedClients' = RemoveAt(disconnectedClients, i)
  BY DEF DisconnectedExpires
<1>2. /\ UNCHANGED <<ws, clientId, lastSeenSeq, pendingReconnect, toClient, known, notice, published, serverEnd>>
      /\ UNCHANGED <<clients, lastSentSeq, eventBuffer>>
  BY DEF DisconnectedExpires, connVars, clientVars, netVars, historyVars
<1>3. Retained' \subseteq Retained
  <2> DEFINE n == Len(disconnectedClients)
  <2>1. /\ n \in Nat /\ Len(disconnectedClients') = n - 1
        /\ \A j \in 1..(n - 1) : disconnectedClients'[j] =
             IF j < i THEN disconnectedClients[j] ELSE disconnectedClients[j + 1]
    <3>1. disconnectedClients \in Seq(Sock) /\ n \in Nat
      BY LenProperties DEF IInv, TypeOK
    <3> QED
      BY <1>1, <3>1, RemoveAtFacts
  <2> HIDE DEF n
  <2>2. \A j \in 1..(n - 1) : j \in 1..n /\ j + 1 \in 1..n
    BY <2>1
  <2>3. Elements(disconnectedClients') \subseteq Elements(disconnectedClients)
    BY <2>1, <2>2 DEF Elements, n
  <2> QED
    BY <1>2, <2>3 DEF Retained
<1>4. ChainsKept /\ EndsKept
  BY <1>2, <1>3 DEF ChainsKept, EndsKept
<1> QED
  BY <1>2, <1>4, ChainFromServer

LEMMA OnConnectionChain ==
  ASSUME IInv, NetInv, SeenInv, ChainInv, NEW s \in Sock, OnConnection(s) PROVE ChainInv'
<1>1. /\ UNCHANGED <<ws, clientId, lastSeenSeq, pendingReconnect, toClient, known, notice, published>>
      /\ UNCHANGED <<clients, disconnectedClients, lastSentSeq, eventBuffer>>
      /\ serverEnd[s] = "none" /\ \A t \in Sock : t # s => serverEnd'[t] = serverEnd[t]
  BY DEF OnConnection, connVars, mapVars, clientVars, historyVars, IInv, TypeOK
<1>2. ChainsKept /\ EndsKept
  BY <1>1 DEF ChainsKept, EndsKept, Retained
<1> QED
  BY <1>1, <1>2, ChainFromServer

LEMMA OnHandshakeChain ==
  ASSUME IInv, NetInv, SeenInv, ChainInv, NEW s \in Sock, OnHandshake(s) PROVE ChainInv'
<1>1. /\ UNCHANGED <<ws, clientId, lastSeenSeq, pendingReconnect, toClient, known, notice, published, serverEnd>>
      /\ UNCHANGED <<clients, disconnectedClients, lastSentSeq, eventBuffer>>
  BY DEF OnHandshake, connVars, mapVars, clientVars, netVars, historyVars
<1>2. ChainsKept /\ EndsKept
  BY <1>1 DEF ChainsKept, EndsKept, Retained
<1> QED
  BY <1>1, <1>2, ChainFromServer

LEMMA RejectHandshakeChain ==
  ASSUME IInv, NetInv, SeenInv, ChainInv, NEW s \in Sock, RejectHandshake(s) PROVE ChainInv'
<1>1. /\ UNCHANGED <<ws, clientId, lastSeenSeq, pendingReconnect, toClient, known, notice, published>>
      /\ UNCHANGED <<clients, disconnectedClients, lastSentSeq, eventBuffer>>
      /\ serverEnd'[s] = "closed" /\ \A t \in Sock : t # s => serverEnd'[t] = serverEnd[t]
  BY DEF RejectHandshake, connVars, mapVars, clientVars, historyVars, IInv, TypeOK
<1>2. ChainsKept /\ EndsKept
  BY <1>1 DEF ChainsKept, EndsKept, Retained
<1> QED
  BY <1>1, <1>2, ChainFromServer

LEMMA OnSwitchWorkspaceChain ==
  ASSUME IInv, NetInv, SeenInv, ChainInv, NEW s \in Sock, OnSwitchWorkspace(s) PROVE ChainInv'
<1>1. /\ UNCHANGED <<ws, clientId, lastSeenSeq, pendingReconnect, toClient, known, notice, published, serverEnd>>
      /\ UNCHANGED <<clients, disconnectedClients, lastSentSeq, eventBuffer>>
  BY DEF OnSwitchWorkspace, mapVars, clientVars, historyVars
<1>2. ChainsKept /\ EndsKept
  BY <1>1 DEF ChainsKept, EndsKept, Retained
<1> QED
  BY <1>1, <1>2, ChainFromServer

LEMMA RestartChain == ASSUME IInv, NetInv, SeenInv, ChainInv, Restart PROVE ChainInv'
<1>1. /\ UNCHANGED <<ws, clientId, lastSeenSeq, pendingReconnect, toClient, known, notice, published>>
      /\ clients' = {} /\ disconnectedClients' = <<>>
      /\ \A t \in Sock : serverEnd'[t] # "open"
  BY DEF Restart, clientVars, historyVars
<1>2. Retained' = {}
  BY <1>1, EmptySeq DEF Retained, Elements
<1>3. ChainsKept /\ EndsKept
  BY <1>1, <1>2 DEF ChainsKept, EndsKept
<1> QED
  BY <1>1, <1>3, ChainFromServer

LEMMA ElementsFacts ==
  ASSUME NEW S, NEW q \in Seq(S), NEW e \in S
  PROVE  /\ Elements(Append(q, e)) = Elements(q) \union {e}
         /\ q # <<>> => Elements(Tail(q)) \subseteq Elements(q)
<1> DEFINE r == Append(q, e)
           n == Len(q)
<1>1. n \in Nat /\ Len(r) = n + 1 /\ r[n + 1] = e /\ \A i \in 1..n : r[i] = q[i]
  BY AppendFacts
<1>2. q # <<>> => n \in Nat \ {0} /\ Len(Tail(q)) = n - 1 /\ \A i \in 1..Len(Tail(q)) : Tail(q)[i] = q[i + 1]
  BY TailFacts
<1> HIDE DEF r, n
<1>3. Elements(r) = Elements(q) \union {e}
  <2>1. \A i \in 1..(n + 1) : i \in 1..n \/ i = n + 1
    BY <1>1
  <2>2. \A i \in 1..n : i \in 1..(n + 1)
    BY <1>1
  <2>3. n + 1 \in 1..(n + 1)
    BY <1>1
  <2>4. \A x \in Elements(r) : x \in Elements(q) \union {e}
    BY <1>1, <2>1 DEF Elements, n
  <2>5. \A x \in Elements(q) \union {e} : x \in Elements(r)
    BY <1>1, <2>2, <2>3 DEF Elements, n
  <2> QED
    BY <2>4, <2>5
<1>4. q # <<>> => Elements(Tail(q)) \subseteq Elements(q)
  <2> SUFFICES ASSUME q # <<>>, NEW i \in 1..Len(Tail(q)) PROVE \E j \in 1..n : Tail(q)[i] = q[j]
    BY DEF Elements, n
  <2>1. i + 1 \in 1..n
    BY <1>2
  <2> QED
    BY <1>2, <2>1
<1> QED
  BY <1>3, <1>4 DEF r

LEMMA OnCloseChain ==
  ASSUME IInv, NetInv, SeenInv, ChainInv, NEW s \in Sock, OnClose(s) PROVE ChainInv'
<1> DEFINE id == closeHandler[s]
           retained == Append(disconnectedClients, id)
<1>1. /\ UNCHANGED <<ws, clientId, lastSeenSeq, pendingReconnect, toClient, known, notice, published>>
      /\ UNCHANGED <<lastSentSeq, eventBuffer>>
      /\ serverEnd[s] = "open" /\ serverEnd'[s] = "closed"
      /\ \A t \in Sock : t # s => serverEnd'[t] = serverEnd[t]
  BY DEF OnClose, connVars, clientVars, historyVars, IInv, TypeOK
<1>2. Retained' \subseteq Retained
  <2>1. CASE id = None
    <3>1. UNCHANGED <<clients, disconnectedClients>>
      BY <2>1 DEF OnClose, mapVars
    <3> QED
      BY <3>1 DEF Retained
  <2>2. CASE id # None
    <3>1. id \in Sock /\ id \in clients /\ disconnectedClients \in Seq(Sock)
      BY <1>1, <2>2, SockFacts DEF IInv, TypeOK, HandlerInv
    <3>2. clients' \subseteq clients /\ (disconnectedClients' = retained \/ disconnectedClients' = Tail(retained))
      BY <2>2 DEF OnClose
    <3>3. retained \in Seq(Sock) /\ retained # <<>> /\ Elements(retained) = Elements(disconnectedClients) \union {id}
      BY <3>1, AppendFacts, ElementsFacts
    <3>4. Elements(Tail(retained)) \subseteq Elements(retained)
      BY <3>1, <3>3, ElementsFacts
    <3> HIDE DEF retained, id
    <3>5. Elements(disconnectedClients') \subseteq Elements(disconnectedClients) \union {id}
      BY <3>2, <3>3, <3>4
    <3> QED
      BY <3>1, <3>2, <3>5 DEF Retained
  <2> QED
    BY <2>1, <2>2
<1>3. ChainsKept /\ EndsKept
  BY <1>1, <1>2 DEF ChainsKept, EndsKept
<1> QED
  BY <1>1, <1>3, ChainFromServer

LEMMA OnSequenceAckChain ==
  ASSUME IInv, NetInv, SeenInv, ChainInv, NEW s \in Sock, OnSequenceAck(s) PROVE ChainInv'
<1> DEFINE ackSeq == Head(toServer[s]).lastSeq
           Acked(b) == PrefixLength({i \in 1..Len(b) : b[i].seq <= ackSeq})
<1>0. PICK id \in Sock :
        eventBuffer' = [eventBuffer EXCEPT ![id] =
          IF ackSeq > lastAckedSeq[id] THEN Drop(@, Acked(eventBuffer[id])) ELSE @]
  BY DEF OnSequenceAck
<1>1. PICK k : /\ k = Acked(eventBuffer[id])
               /\ eventBuffer' = [eventBuffer EXCEPT ![id] =
                    IF ackSeq > lastAckedSeq[id] THEN Drop(@, k) ELSE @]
  BY <1>0
<1>2. /\ UNCHANGED <<ws, clientId, lastSeenSeq, pendingReconnect, toClient, known, notice, published, serverEnd>>
      /\ UNCHANGED <<clients, disconnectedClients, lastSentSeq>>
  BY DEF OnSequenceAck, mapVars, clientVars, historyVars
<1> DEFINE buf == eventBuffer[id]
           n == Len(buf)
<1>3. /\ eventBuffer'[id] = Drop(buf, k) \/ eventBuffer'[id] = buf
      /\ \A t \in Sock : t # id => eventBuffer'[t] = eventBuffer[t]
  BY <1>1 DEF IInv, TypeOK
<1>4. buf \in Seq(BufferedEvent) /\ n \in Nat
  BY LenProperties DEF IInv, TypeOK
<1>5. k \in 0..n
  <2>1. {i \in 1..n : buf[i].seq <= ackSeq} \in SUBSET (1..n)
    OBVIOUS
  <2> HIDE DEF buf, n
  <2> QED
    BY <1>1, <1>4, <2>1, PrefixLengthFacts DEF buf, n
<1>6. Len(Drop(buf, k)) = n - k /\ \A i \in 1..(n - k) : Drop(buf, k)[i] = buf[k + i]
  BY <1>4, <1>5, DropFacts
<1>7. \A i \in 1..Len(eventBuffer'[id]) : \E j \in 1..Len(eventBuffer[id]) : eventBuffer'[id][i] = eventBuffer[id][j]
  <2>1. \A i \in 1..(n - k) : k + i \in 1..n
    <3> HIDE DEF n
    <3> QED
      BY <1>4, <1>5
  <2>2. CASE eventBuffer'[id] = Drop(buf, k)
    BY <1>6, <2>1, <2>2
  <2>3. CASE eventBuffer'[id] = buf
    BY <2>3
  <2> QED
    BY <1>3, <2>2, <2>3
<1>8. ASSUME NEW t \in Sock
      PROVE  \A i \in 1..Len(eventBuffer'[t]) : \E j \in 1..Len(eventBuffer[t]) : eventBuffer'[t][i] = eventBuffer[t][j]
  BY <1>3, <1>7
<1>9. ChainsKept /\ EndsKept
  BY <1>2, <1>8 DEF ChainsKept, EndsKept, Retained
<1> QED
  BY <1>2, <1>9, ChainFromServer

\* A client's step leaves the server as it is.
LEMMA ChainsSame ==
  ASSUME UNCHANGED <<serverVars, serverEnd, published>>
  PROVE  ChainsKept /\ EndsKept
BY DEF ChainsKept, EndsKept, serverVars, connVars, mapVars, Retained

LEMMA OnOpenChain ==
  ASSUME IInv, NetInv, SeenInv, ChainInv, NEW w \in Window, OnOpen(w) PROVE ChainInv'
<1>1. /\ UNCHANGED <<ws, clientId, lastSeenSeq, pendingReconnect, toClient, known, notice, published>>
      /\ UNCHANGED <<serverVars, serverEnd>>
  BY DEF OnOpen, historyVars
<1> QED
  BY <1>1, ChainsSame, ChainFromServer

LEMMA SendMessageChain ==
  ASSUME IInv, NetInv, SeenInv, ChainInv, NEW w \in Window, NEW msg, SendMessage(w, msg) PROVE ChainInv'
<1>1. /\ UNCHANGED <<ws, clientId, lastSeenSeq, pendingReconnect, toClient, known, notice, published>>
      /\ UNCHANGED <<serverVars, serverEnd>>
  BY DEF SendMessage, historyVars
<1> QED
  BY <1>1, ChainsSame, ChainFromServer

LEMMA ConnectChain ==
  ASSUME IInv, NetInv, SeenInv, ChainInv, NEW w \in Window, Connect(w) PROVE ChainInv'
<1> DEFINE n == nextSock
<1>1. /\ ~Connected(w) /\ n \in Sock
      /\ ws'[w] = n /\ \A v \in Window : v # w => ws'[v] = ws[v]
      /\ \A t \in Sock : toClient'[t] = IF t = ws[w] THEN <<>> ELSE toClient[t]
      /\ UNCHANGED <<serverVars, clientId, lastSeenSeq, pendingReconnect, serverEnd, known, notice, published>>
  BY DEF Connect, IInv, TypeOK, Sock, historyVars
<1>2. toClient'[n] = <<>>
  <2>1. n >= nextSock
    BY <1>1, SockFacts
  <2>2. toClient[n] = <<>>
    BY <1>1, <2>1 DEF NetInv, SockOK
  <2> QED
    BY <1>1, <2>2
<1>3. ChainsKept /\ EndsKept
  BY <1>1, ChainsSame
<1>4. ASSUME NEW v \in Window PROVE ChainConnected(v)' /\ ChainAcked(v)' /\ ChainResume(v)' /\ ToldOK(v)'
  <2>1. CASE v = w
    <3>1. ~Connected(v)' /\ ~AckWaits(v)'
      BY <1>1, <1>2, <2>1 DEF AckWaits, Connected
    <3>2. ChainResume(v)'
      BY <1>1, <1>3, ResumeChain
    <3>3. ToldOK(v)'
      BY <1>1, <3>1 DEF ChainInv, ToldOK, Connected
    <3> QED
      BY <3>1, <3>2, <3>3 DEF ChainConnected, ChainAcked
  <2>2. CASE v # w
    <3>1. ws[v] # None => toClient'[ws[v]] = toClient[ws[v]]
      BY <1>1, <2>2, WindowSocket
    <3> QED
      BY <1>1, <1>3, <2>2, <3>1, WindowChains
  <2> QED
    BY <2>1, <2>2
<1> QED
  BY <1>4 DEF ChainInv

\* What is under way may be lost.
LEMMA ChainCut ==
  ASSUME NEW w, NEW id, NEW seen, NEW k, NEW q, NEW end, Chain(w, id, seen, k, q, 0, end)
  PROVE  Chain(w, id, seen, k, <<>>, 0, "closed")
<1>1. \A base, last : \A e : Queued(e, base, last, <<>>, 0)
  BY EmptySeq DEF Queued
<1> QED
  BY <1>1 DEF Chain

Follows(x, base) == x = base + 1

\* r is queue q without its first message.
IsRest(r, q) ==
  /\ Len(q) \in Nat \ {0} /\ Len(r) = Len(q) - 1
  /\ \A i \in 1..Len(r) : r[i] = q[i + 1]

\* The acknowledgement before the events is taken.
LEMMA ChainTail ==
  ASSUME NEW w, NEW id, NEW seen, NEW k, NEW q, NEW r, NEW end, IsRest(r, q),
         Chain(w, id, seen, k, q, 1, end)
  PROVE  Chain(w, id, seen, k, r, 0, end)
<1> DEFINE n == Len(q)
<1>1. n \in Nat \ {0} /\ Len(r) = n - 1 /\ \A i \in 1..(n - 1) : r[i] = q[i + 1]
  BY DEF IsRest
<1>0. \A i \in 1..(n - 1) : i + 1 \in 1..n /\ i + 1 > 1 /\ i \in Nat
  <2> HIDE DEF n
  <2> QED
    BY <1>1
<1>2. ASSUME NEW base \in Nat, NEW last \in Nat, NEW e \in [Nat -> Nat], Queued(e, base, last, q, 1)
      PROVE  Queued(e, base, last, r, 0)
  <2>1. ASSUME NEW i \in 1..Len(r)
        PROVE  /\ base + i <= last + 0
               /\ \A x \in Nat : x + 0 = base + i => r[i].seq = x /\ r[i].ev = e[x]
    <3>1. i + 1 \in 1..n /\ i + 1 > 1 /\ r[i] = q[i + 1] /\ i \in Nat
      BY <1>0, <1>1
    <3>2. /\ base + (i + 1) <= last + 1
          /\ \A x \in Nat : x + 1 = base + (i + 1) => q[i + 1].seq = x /\ q[i + 1].ev = e[x]
      BY <1>2, <3>1 DEF Queued
    <3>3. \A x \in Nat : x + 0 = base + i => x + 1 = base + (i + 1)
      BY <3>1
    <3>4. base + i <= last + 0
      BY <3>1, <3>2
    <3> QED
      BY <3>1, <3>2, <3>3, <3>4
  <2> QED
    BY <2>1 DEF Queued
<1>3. \A base, last \in Nat : last + 1 = base + n => last + 0 = base + Len(r)
  BY <1>1
<1> HIDE DEF n
<1> QED
  BY <1>2, <1>3 DEF Chain, n

\* Of the events owed, those after event p.
RestOwed(after, owed, p) == \A m \in Nat : m \in after <=> m \in owed /\ p < m

\* The first of the events owed is no longer owed.
LEMMA NumbersNext ==
  ASSUME NEW base \in Nat, NEW last \in Nat, NEW e \in [Nat -> Nat], NEW owed \in SUBSET Nat,
         NEW x \in Nat, NEW p \in Nat, NEW after \in SUBSET Nat,
         Follows(x, base), x <= last, p = e[x], RestOwed(after, owed, p),
         Numbers(e, base, last, owed)
  PROVE  /\ p \in owed /\ \A m \in owed : p <= m
         /\ Numbers(e, x, last, after)
         /\ AllNumbered(e, base, last, owed) => AllNumbered(e, x, last, after)
<1>0. x = base + 1 /\ \A m \in Nat : m \in after <=> m \in owed /\ p < m
  BY DEF Follows, RestOwed
<1>1. x \in x..last /\ \A y \in x..last : y \in Nat /\ e[y] \in Nat
  OBVIOUS
<1>2. /\ \A y \in x..last : e[y] \in owed
      /\ \A y, z \in x..last : y < z => e[y] < e[z]
      /\ \A y \in x..last, m \in owed : m <= e[y] => \E z \in x..last : e[z] = m
  BY <1>0 DEF Numbers
<1>3. \A y \in x..last : y = x \/ (x < y /\ y \in (x + 1)..last)
  OBVIOUS
<1>4. \A y \in (x + 1)..last : y \in x..last /\ x < y
  OBVIOUS
<1>5. p \in owed
  BY <1>1, <1>2
<1>6. \A m \in owed : p <= m
  <2> SUFFICES ASSUME NEW m \in owed, m < p PROVE FALSE
    OBVIOUS
  <2>1. PICK z \in x..last : e[z] = m
    BY <1>1, <1>2
  <2>2. z # x /\ x < z
    BY <1>3, <2>1
  <2>3. e[x] < e[z] /\ e[z] \in Nat
    BY <1>1, <1>2, <2>2
  <2> QED
    BY <2>1, <2>3
<1>7. \A y \in (x + 1)..last : e[y] \in after
  BY <1>0, <1>1, <1>2, <1>4
<1>8. ASSUME NEW m \in after, NEW z \in x..last, e[z] = m PROVE z \in (x + 1)..last
  <2>1. m # p
    BY <1>0, <1>8
  <2> QED
    BY <1>3, <1>8, <2>1
<1>9. Numbers(e, x, last, after)
  <2>1. \A y, z \in (x + 1)..last : y < z => e[y] < e[z]
    BY <1>2, <1>4
  <2>2. ASSUME NEW y \in (x + 1)..last, NEW m \in after, m <= e[y]
        PROVE  \E z \in (x + 1)..last : e[z] = m
    <3>1. PICK z \in x..last : e[z] = m
      BY <1>0, <1>2, <1>4, <2>2
    <3> QED
      BY <1>8, <3>1
  <2> QED
    BY <1>7, <2>1, <2>2 DEF Numbers
<1>10. ASSUME AllNumbered(e, base, last, owed) PROVE AllNumbered(e, x, last, after)
  <2> SUFFICES ASSUME NEW m \in after PROVE \E z \in (x + 1)..last : e[z] = m
    BY DEF AllNumbered
  <2>1. PICK z \in x..last : e[z] = m
    BY <1>0, <1>10 DEF AllNumbered
  <2> QED
    BY <1>8, <2>1
<1> QED
  BY <1>5, <1>6, <1>9, <1>10

LEMMA QueuedNext ==
  ASSUME NEW base \in Nat, NEW last \in Nat, NEW e, NEW x \in Nat, NEW q, NEW r, Follows(x, base),
         IsRest(r, q),
         Queued(e, base, last, q, 0)
  PROVE  /\ x <= last /\ q[1].seq = x /\ q[1].ev = e[x]
         /\ Queued(e, x, last, r, 0)
<1> DEFINE n == Len(q)
<1>1. n \in Nat \ {0} /\ Len(r) = n - 1 /\ \A i \in 1..(n - 1) : r[i] = q[i + 1]
  BY DEF IsRest
<1>2. \A i \in 1..n : i > 0 =>
        /\ base + i <= last + 0
        /\ \A y \in Nat : y + 0 = base + i => q[i].seq = y /\ q[i].ev = e[y]
  BY DEF Queued
<1>0. x = base + 1
  BY DEF Follows
<1> HIDE DEF n
<1>3. x <= last /\ q[1].seq = x /\ q[1].ev = e[x]
  <2>1. 1 \in 1..n /\ 1 > 0 /\ x + 0 = base + 1 /\ (base + 1 <= last + 0 => x <= last)
    BY <1>0, <1>1
  <2> QED
    BY <1>2, <2>1
<1>4. ASSUME NEW i \in 1..(n - 1)
      PROVE  /\ x + i <= last + 0
             /\ \A y \in Nat : y + 0 = x + i => r[i].seq = y /\ r[i].ev = e[y]
  <2>1. i + 1 \in 1..n /\ i + 1 > 0 /\ i \in Nat /\ base + (i + 1) = x + i
    <3>1. i + 1 \in 1..n /\ i + 1 > 0 /\ i \in Nat
      BY <1>1
    <3> QED
      BY <1>0, <3>1
  <2>2. /\ base + (i + 1) <= last + 0
        /\ \A y \in Nat : y + 0 = base + (i + 1) => q[i + 1].seq = y /\ q[i + 1].ev = e[y]
    BY <1>2, <2>1
  <2>3. r[i] = q[i + 1]
    BY <1>1
  <2> QED
    BY <2>1, <2>2, <2>3
<1> QED
  BY <1>1, <1>3, <1>4 DEF Queued

LEMMA IntervalRest ==
  ASSUME NEW k \in Nat, NEW p \in Nat, NEW n \in Nat, NEW m \in Nat, p >= k + 1
  PROVE  m \in (p + 1)..n <=> m \in (k + 1)..n /\ p < m
OBVIOUS

\* The next event is taken: it is the first of those owed, and the rest follow it.
LEMMA ChainNext ==
  ASSUME IInv, NEW w, NEW id \in Sock, NEW seen \in Nat, NEW k \in Nat, NEW q, NEW r, NEW end,
         IsRest(r, q),
         Chain(w, id, seen, k, q, 0, end)
  PROVE  /\ q[1].ev \in OwedAfter(w, k) /\ q[1].seq \in Nat
         /\ \A m \in OwedAfter(w, k) : q[1].ev <= m
         /\ Chain(w, id, q[1].seq, q[1].ev, r, 0, end)
<1>1. PICK base \in Nat, last \in Nat, e \in [Nat -> Nat] :
    /\ seen <= base /\ base <= last
    /\ Numbers(e, base, last, OwedAfter(w, k))
    /\ Queued(e, base, last, q, 0)
    /\ id \in Retained =>
         /\ last = lastSentSeq[id]
         /\ AllNumbered(e, base, last, OwedAfter(w, k))
         /\ Buffered(e, base, seen, eventBuffer[id])
    /\ end = "open" => last + 0 = base + Len(q)
  BY DEF Chain
<1>2. PICK x \in Nat : Follows(x, base)
  <2>1. base + 1 \in Nat
    OBVIOUS
  <2> QED
    BY <2>1 DEF Follows
<1>20. x = base + 1
  BY <1>2 DEF Follows
<1>3. PICK p \in Nat : p = e[x]
  OBVIOUS
<1>4. x <= last /\ q[1].seq = x /\ q[1].ev = p /\ Queued(e, x, last, r, 0)
  <2>1. Queued(e, base, last, q, 0)
    BY <1>1
  <2> QED
    <3>1. /\ x <= last /\ q[1].seq = x /\ q[1].ev = e[x]
          /\ Queued(e, x, last, r, 0)
      BY <1>2, <2>1, QueuedNext
    <3> QED
      BY <1>3, <3>1
<1>5. PICK owed, after : owed = OwedAfter(w, k) /\ after = OwedAfter(w, p)
  OBVIOUS
<1>6. owed \in SUBSET Nat /\ after \in SUBSET Nat
  <2>1. \A j \in Nat : \A m \in (j + 1)..Len(published) : m \in Nat
    OBVIOUS
  <2> QED
    BY <1>5, <2>1 DEF OwedAfter
<1>7. p \in owed => \A m \in Nat : m \in after <=> m \in owed /\ p < m
  <2> SUFFICES ASSUME p \in owed, NEW m \in Nat PROVE m \in after <=> m \in owed /\ p < m
    OBVIOUS
  <2> DEFINE n == Len(published)
  <2>1. n \in Nat
    BY LenProperties DEF IInv, TypeOK
  <2> HIDE DEF n
  <2>2. p >= k + 1
    BY <1>3, <1>5, <2>1 DEF OwedAfter, n
  <2>3. m \in (p + 1)..n <=> m \in (k + 1)..n /\ p < m
    BY <2>1, <2>2, IntervalRest
  <2> QED
    BY <1>5, <2>3 DEF OwedAfter, n
<1>8. p \in owed
  <2>1. x \in (base + 1)..last
    BY <1>1, <1>20, <1>4
  <2> QED
    BY <1>1, <1>3, <1>5, <2>1 DEF Numbers
<1>9. /\ \A m \in owed : p <= m
      /\ Numbers(e, x, last, after)
      /\ AllNumbered(e, base, last, owed) => AllNumbered(e, x, last, after)
  <2>1. Numbers(e, base, last, owed) /\ x <= last
    BY <1>1, <1>4, <1>5
  <2>2. RestOwed(after, owed, p)
    BY <1>7, <1>8 DEF RestOwed
  <2> QED
    <3>1. base \in Nat /\ last \in Nat /\ e \in [Nat -> Nat] /\ x \in Nat /\ p \in Nat
      OBVIOUS
    <3> QED
      BY <1>2, <1>3, <1>6, <2>1, <2>2, <3>1, NumbersNext
<1>10. ASSUME Buffered(e, base, seen, eventBuffer[id]) PROVE Buffered(e, x, x, eventBuffer[id])
  <2>1. ASSUME NEW i \in 1..Len(eventBuffer[id])
        PROVE  eventBuffer[id][i].seq > x => eventBuffer[id][i].seq > base
    <3>1. eventBuffer[id] \in Seq(BufferedEvent)
      BY DEF IInv, TypeOK
    <3>2. eventBuffer[id][i] \in BufferedEvent
      BY <3>1, ElementOfSeq
    <3>3. eventBuffer[id][i].seq \in Nat
      BY <3>2 DEF BufferedEvent
    <3>4. PICK y \in Nat : y = eventBuffer[id][i].seq
      BY <3>3
    <3>5. y > x => y > base
      BY <1>20
    <3> QED
      BY <3>4, <3>5
  <2>2. ~(x > x)
    OBVIOUS
  <2> QED
    BY <1>10, <2>1, <2>2 DEF Buffered
<1>11. end = "open" => last + 0 = x + Len(r)
  <2> DEFINE n == Len(q)
  <2>1. n \in Nat \ {0} /\ Len(r) = n - 1
    BY DEF IsRest
  <2>2. (end = "open" => last + 0 = base + n)
    BY <1>1
  <2> HIDE DEF n
  <2> QED
    BY <1>20, <2>1, <2>2
<1>12. Chain(w, id, x, p, r, 0, end)
  <2>1. x <= x /\ x <= last
    BY <1>4
  <2> QED
    BY <1>1, <1>2, <1>4, <1>5, <1>9, <1>10, <1>11, <2>1 DEF Chain
<1> QED
  BY <1>2, <1>4, <1>5, <1>8, <1>9, <1>12

LEMMA OnDisconnectChain ==
  ASSUME IInv, NetInv, SeenInv, ChainInv, NEW w \in Window, OnDisconnect(w) PROVE ChainInv'
<1> DEFINE s == ws[w]
<1>1. s # None /\ s \in Sock /\ UNCHANGED <<serverVars, lastSeenSeq, serverEnd, known, notice, published>>
  BY WindowSocket DEF OnDisconnect, historyVars
<1>2. /\ \A t \in Sock : t # s => toClient'[t] = toClient[t]
      /\ ws'[w] = None /\ clientId'[w] = None
      /\ pendingReconnect'[w] = IF Connected(w) THEN [clientId |-> clientId[w], lastSeq |-> lastSeenSeq[w]]
                                ELSE pendingReconnect[w]
      /\ \A v \in Window : v # w => /\ ws'[v] = ws[v] /\ clientId'[v] = clientId[v]
                                    /\ pendingReconnect'[v] = pendingReconnect[v]
  BY <1>1 DEF OnDisconnect, IInv, TypeOK
<1>3. ChainsKept /\ EndsKept
  BY <1>1, ChainsSame
<1>4. ASSUME NEW v \in Window PROVE ChainConnected(v)' /\ ChainAcked(v)' /\ ChainResume(v)' /\ ToldOK(v)'
  <2>1. CASE v = w
    <3>1. ~Connected(v)' /\ ~AckWaits(v)'
      BY <1>2, <2>1 DEF AckWaits, Connected
    <3>2. CASE Connected(w)
      <4>1. PICK id \in Sock : id = clientId[w]
        BY <3>2, WindowSocket
      <4>2. PICK seen, k, q, end : seen = lastSeenSeq[w] /\ k = known[w] /\ q = toClient[s] /\ end = serverEnd[s]
        OBVIOUS
      <4>3. Chain(w, id, seen, k, q, 0, end) /\ Born(id)
        BY <3>2, <4>1, <4>2 DEF ChainInv, ChainConnected, SeenInv, SeenConnected, LinkOK
      <4>4. Chain(w, id, seen, k, <<>>, 0, "closed")
        BY <4>3, ChainCut
      <4>5. Chain(w, id, seen, k, <<>>, 0, "closed")'
        BY <1>3, <4>3, <4>4, ChainKept
      <4>6. pendingReconnect'[w].clientId = id /\ pendingReconnect'[w].lastSeq = seen /\ k = known'[w]
        BY <1>1, <1>2, <3>2, <4>1, <4>2
      <4>7. ChainResume(w)'
        BY <4>5, <4>6 DEF ChainResume
      <4>8. pendingReconnect'[w] # NoReconnect
        BY <4>6, SockFacts DEF NoReconnect
      <4> QED
        BY <1>1, <2>1, <3>1, <4>7, <4>8 DEF ChainConnected, ChainAcked, ToldOK, ChainInv
    <3>3. CASE ~Connected(w)
      <4>1. ChainResume(w)'
        BY <1>1, <1>2, <1>3, <3>3, ResumeChain DEF Connected
      <4> QED
        BY <1>1, <1>2, <2>1, <3>1, <3>3, <4>1 DEF ChainConnected, ChainAcked, ToldOK, ChainInv
    <3> QED
      BY <3>2, <3>3
  <2>2. CASE v # w
    <3>1. ws[v] # None => toClient'[ws[v]] = toClient[ws[v]]
      BY <1>1, <1>2, <2>2, WindowSocket
    <3> QED
      BY <1>1, <1>2, <1>3, <2>2, <3>1, WindowChains
  <2> QED
    BY <2>1, <2>2
<1> QED
  BY <1>4 DEF ChainInv

\* What a window is told with an acknowledgement.
LEMMA AckTold ==
  ASSUME IInv, NetInv, ChainInv, NEW w \in Window, OnHandshakeAck(w)
  PROVE  /\ AckWaits(w) /\ known[w] <= Ack(w).upto /\ Ack(w).upto <= Len(published)
         /\ known'[w] = KnownAfter(w) /\ \A v \in Window : v # w => known'[v] = known[v] /\ notice'[v] = notice[v]
         /\ UNCHANGED published
         /\ \/ known'[w] = Ack(w).upto /\ notice[w] = "none" /\ notice' = [notice EXCEPT ![w] = "first"]
            \/ known'[w] = Ack(w).upto /\ notice' = [notice EXCEPT ![w] = "stale"]
            \/ known' = known /\ notice' = [notice EXCEPT ![w] = "replayed"]
<1> DEFINE was == currentHandshakeWasReconnect[w]
           told == IF ~was THEN "first"
                   ELSE IF Ack(w).reconnected /\ ~Ack(w).stale THEN "replayed" ELSE "stale"
<1>1. Receive(w, "handshake_ack")
  BY DEF OnHandshakeAck
<1>2. AckWaits(w) /\ Head(toClient[ws[w]]) = Ack(w)
  BY <1>1, RestOfQueue DEF Ack
<1>3. known[w] <= Ack(w).upto /\ Ack(w).upto <= Len(published)
  BY <1>2 DEF ChainInv, ToldOK
<1>4. /\ notice' = [notice EXCEPT ![w] = told]
      /\ known' = [known EXCEPT ![w] = IF told = "replayed" THEN known[w] ELSE Ack(w).upto]
      /\ UNCHANGED published
  BY <1>2 DEF OnHandshakeAck
<1>5. known \in [Window -> Nat] /\ notice \in [Window -> {"none", "first", "event", "stale", "replayed"}]
  BY DEF IInv, TypeOK
<1>6. /\ Ack(w).reconnected => was
      /\ ~was => notice[w] = "none"
  <2>1. /\ Ack(w).reconnected => pendingReconnect[w].clientId = Ack(w).clientId
        /\ was = (pendingReconnect[w] # NoReconnect) /\ ~Connected(w)
    BY <1>2 DEF NetInv, AckOK, AckWaits
  <2>2. Ack(w).clientId # None
    BY <1>2, AckFacts, SockFacts
  <2>3. Ack(w).reconnected => pendingReconnect[w] # NoReconnect
    BY <2>1, <2>2 DEF NoReconnect
  <2>4. pendingReconnect[w] = NoReconnect => notice[w] = "none"
    BY <2>1 DEF ChainInv, ToldOK
  <2> QED
    BY <2>1, <2>3, <2>4
<1>7. known'[w] = KnownAfter(w)
  BY <1>4, <1>5, <1>6 DEF KnownAfter
<1>8. \/ known'[w] = Ack(w).upto /\ notice[w] = "none" /\ notice' = [notice EXCEPT ![w] = "first"]
      \/ known'[w] = Ack(w).upto /\ notice' = [notice EXCEPT ![w] = "stale"]
      \/ known' = known /\ notice' = [notice EXCEPT ![w] = "replayed"]
  <2>1. CASE told = "first"
    BY <1>4, <1>5, <1>6, <2>1
  <2>2. CASE told = "stale"
    BY <1>4, <1>5, <2>2
  <2>3. CASE told = "replayed"
    BY <1>4, <1>5, <2>3
  <2> QED
    BY <2>1, <2>2, <2>3
<1> QED
  BY <1>2, <1>3, <1>4, <1>5, <1>7, <1>8

LEMMA OnHandshakeAckChain ==
  ASSUME IInv, NetInv, SeenInv, ChainInv, NEW w \in Window, OnHandshakeAck(w) PROVE ChainInv'
<1> DEFINE s == ws[w]
<1>0. Receive(w, "handshake_ack")
  BY DEF OnHandshakeAck
<1>1. /\ s \in Sock /\ s # None /\ AckWaits(w) /\ Head(toClient[s]) = Ack(w)
      /\ IsRest(toClient'[s], toClient[s])
      /\ \A t \in Sock : t # s => toClient'[t] = toClient[t]
  BY <1>0, RestOfQueue, ReceivedFacts DEF Ack, IsRest
<1>2. Ack(w).clientId \in Sock
  BY <1>1, AckFacts
<1>3. /\ clientId'[w] = Ack(w).clientId /\ lastSeenSeq'[w] = AckSeen(w) /\ pendingReconnect'[w] = NoReconnect
      /\ \A v \in Window : v # w =>
           /\ clientId'[v] = clientId[v] /\ pendingReconnect'[v] = pendingReconnect[v]
           /\ lastSeenSeq'[v] = lastSeenSeq[v]
      /\ UNCHANGED <<serverVars, ws, serverEnd, published>>
  BY <1>1 DEF OnHandshakeAck, SeenAfter, AckSeen, IInv, TypeOK
<1>4. ChainsKept /\ EndsKept
  BY <1>3, ChainsSame
<1>5. /\ known[w] <= Ack(w).upto /\ Ack(w).upto <= Len(published)
      /\ known'[w] = KnownAfter(w) /\ \A v \in Window : v # w => known'[v] = known[v] /\ notice'[v] = notice[v]
  BY AckTold
<1>6. ASSUME NEW v \in Window PROVE ChainConnected(v)' /\ ChainAcked(v)' /\ ChainResume(v)' /\ ToldOK(v)'
  <2>1. CASE v = w
    <3>1. PICK id \in Sock : id = Ack(w).clientId
      BY <1>2
    <3>2. PICK seen, k, q, r, end :
            /\ seen = AckSeen(w) /\ k = KnownAfter(w) /\ q = toClient[s] /\ end = serverEnd[s]
            /\ r = toClient'[s]
      OBVIOUS
    <3>3. Chain(w, id, seen, k, q, 1, end) /\ Born(id)
      BY <1>1, <3>1, <3>2 DEF ChainInv, ChainAcked, SeenInv, SeenAcked, LinkOK
    <3>4. Chain(w, id, seen, k, r, 0, end)
      BY <1>1, <3>2, <3>3, ChainTail
    <3>5. Chain(w, id, seen, k, r, 0, end)'
      BY <1>4, <3>3, <3>4, ChainKept
    <3>6. /\ id = clientId'[w] /\ seen = lastSeenSeq'[w] /\ k = known'[w] /\ r = toClient'[ws'[w]]
          /\ end = serverEnd'[ws'[w]]
      BY <1>3, <1>5, <3>1, <3>2
    <3>7. ChainConnected(w)'
      BY <3>5, <3>6 DEF ChainConnected
    <3>8. Connected(w)' /\ ~AckWaits(w)'
      BY <3>1, <3>6, SockFacts DEF Connected, AckWaits
    <3>9. known'[w] <= Len(published)
      BY <1>5 DEF KnownAfter, ChainInv, ToldOK
    <3> QED
      BY <1>3, <2>1, <3>7, <3>8, <3>9 DEF ChainAcked, ChainResume, ToldOK
  <2>2. CASE v # w
    <3>1. ws[v] # None => toClient'[ws[v]] = toClient[ws[v]]
      BY <1>1, <2>2, WindowSocket
    <3> QED
      BY <1>3, <1>4, <1>5, <2>2, <3>1, WindowChains
  <2> QED
    BY <2>1, <2>2
<1> QED
  BY <1>6 DEF ChainInv

\* The event a window takes is the next one it is owed.
LEMMA EventGiven ==
  ASSUME IInv, NetInv, SeenInv, ChainInv, NEW w \in Window, OnEvent(w)
  PROVE  /\ Connected(w) /\ ws[w] \in Sock
         /\ known' = [known EXCEPT ![w] = toClient[ws[w]][1].ev] /\ notice' = [notice EXCEPT ![w] = "event"]
         /\ lastSeenSeq'[w] = toClient[ws[w]][1].seq
         /\ toClient[ws[w]][1].ev \in OwedAfter(w, known[w])
         /\ \A m \in OwedAfter(w, known[w]) : toClient[ws[w]][1].ev <= m
         /\ Chain(w, clientId[w], toClient[ws[w]][1].seq, toClient[ws[w]][1].ev, toClient'[ws[w]], 0,
                  serverEnd[ws[w]])
<1> DEFINE s == ws[w]
<1>0. Receive(w, "event")
  BY DEF OnEvent
<1>1. /\ s \in Sock /\ Connected(w) /\ Head(toClient[s]) = toClient[s][1]
      /\ IsRest(toClient'[s], toClient[s])
  BY <1>0, RestOfQueue, ReceivedFacts DEF IsRest
<1>2. /\ known' = [known EXCEPT ![w] = toClient[s][1].ev] /\ notice' = [notice EXCEPT ![w] = "event"]
      /\ lastSeenSeq'[w] = toClient[s][1].seq
  BY <1>1 DEF OnEvent, IInv, TypeOK
<1>3. clientId[w] \in Sock /\ lastSeenSeq[w] \in Nat /\ known[w] \in Nat
  BY <1>1, WindowSocket DEF IInv, TypeOK
<1>4. Chain(w, clientId[w], lastSeenSeq[w], known[w], toClient[s], 0, serverEnd[s])
  BY <1>1 DEF ChainInv, ChainConnected
<1>5. /\ toClient[s][1].ev \in OwedAfter(w, known[w])
      /\ \A m \in OwedAfter(w, known[w]) : toClient[s][1].ev <= m
      /\ Chain(w, clientId[w], toClient[s][1].seq, toClient[s][1].ev, toClient'[s], 0, serverEnd[s])
  BY <1>1, <1>3, <1>4, ChainNext
<1> QED
  BY <1>1, <1>2, <1>5

LEMMA OnEventChain ==
  ASSUME IInv, NetInv, SeenInv, ChainInv, NEW w \in Window, OnEvent(w) PROVE ChainInv'
<1> DEFINE s == ws[w]
           event == toClient[s][1]
<1>0. /\ s \in Sock /\ Connected(w)
      /\ known' = [known EXCEPT ![w] = event.ev] /\ notice' = [notice EXCEPT ![w] = "event"]
      /\ lastSeenSeq'[w] = event.seq /\ event.ev \in OwedAfter(w, known[w])
      /\ Chain(w, clientId[w], event.seq, event.ev, toClient'[s], 0, serverEnd[s])
  BY EventGiven
<1>1. \A t \in Sock : t # s => toClient'[t] = toClient[t]
  BY ReceivedFacts DEF OnEvent
<1>2. /\ known'[w] = event.ev
      /\ \A v \in Window : v # w =>
           known'[v] = known[v] /\ notice'[v] = notice[v] /\ lastSeenSeq'[v] = lastSeenSeq[v]
      /\ UNCHANGED <<serverVars, ws, clientId, pendingReconnect, serverEnd, published>>
  BY <1>0 DEF OnEvent, IInv, TypeOK
<1>3. ChainsKept /\ EndsKept
  BY <1>2, ChainsSame
<1>4. ASSUME NEW v \in Window PROVE ChainConnected(v)' /\ ChainAcked(v)' /\ ChainResume(v)' /\ ToldOK(v)'
  <2>1. CASE v = w
    <3>1. PICK id \in Sock : id = clientId[w]
      BY <1>0, WindowSocket
    <3>2. PICK seen, k, r, end : seen = event.seq /\ k = event.ev /\ r = toClient'[s] /\ end = serverEnd[s]
      OBVIOUS
    <3>3. Chain(w, id, seen, k, r, 0, end) /\ Born(id)
      BY <1>0, <3>1, <3>2 DEF SeenInv, SeenConnected, LinkOK
    <3>4. Chain(w, id, seen, k, r, 0, end)'
      BY <1>3, <3>3, ChainKept
    <3>5. /\ id = clientId'[w] /\ seen = lastSeenSeq'[w] /\ k = known'[w] /\ r = toClient'[ws'[w]]
          /\ end = serverEnd'[ws'[w]]
      BY <1>0, <1>2, <3>1, <3>2
    <3>6. ChainConnected(w)'
      BY <3>4, <3>5 DEF ChainConnected
    <3>7. Connected(w)' /\ ~AckWaits(w)'
      BY <1>0, <1>2 DEF Connected, AckWaits
    <3>8. known'[w] <= Len(published)
      <4>1. known[w] \in Nat /\ Len(published) \in Nat
        BY LenProperties DEF IInv, TypeOK
      <4> HIDE DEF event
      <4> QED
        BY <1>0, <1>2, <4>1 DEF OwedAfter
    <3> QED
      BY <1>2, <2>1, <3>6, <3>7, <3>8 DEF ChainAcked, ChainResume, ToldOK
  <2>2. CASE v # w
    <3>1. ws[v] # None => toClient'[ws[v]] = toClient[ws[v]]
      BY <1>0, <1>1, <2>2, WindowSocket
    <3> QED
      BY <1>2, <1>3, <2>2, <3>1, WindowChains
  <2> QED
    BY <2>1, <2>2
<1> QED
  BY <1>4 DEF ChainInv

\* A handshake is completed: the window whose socket it is has an acknowledgement to
\* read, and with it what was published before it, or what is replayed.
LEMMA CompleteChain ==
  ASSUME IInv, NetInv, SeenInv, ChainInv, NEW s \in Sock, NEW id \in Sock, NEW msgs \in Seq(ToClientMsg),
         handshake[s] = "auth", msgs[1].clientId = id, msgs[1].upto = Len(published),
         toClient' = SafeSend(s, msgs), UNCHANGED <<clientVars, historyVars, serverEnd>>, ChainsKept,
         \A w \in Window : ws[w] = s =>
            \E seen, k, end :
               /\ seen = IF msgs[1].reconnected THEN lastSeenSeq[w] ELSE 0
               /\ k = IF msgs[1].reconnected /\ ~msgs[1].stale THEN known[w] ELSE msgs[1].upto
               /\ end = serverEnd[s] /\ Chain(w, id, seen, k, msgs, 1, end)'
  PROVE  ChainInv'
<1>1. UNCHANGED <<ws, clientId, lastSeenSeq, pendingReconnect, known, notice, published>>
  BY DEF clientVars, historyVars
<1>2. EndsKept
  BY DEF EndsKept
<1>3. ASSUME NEW w \in Window PROVE ChainConnected(w)' /\ ChainAcked(w)' /\ ChainResume(w)' /\ ToldOK(w)'
  <2>1. CASE ws[w] # s
    <3>1. ws[w] # None => toClient'[ws[w]] = toClient[ws[w]]
      BY <2>1, CompleteFacts
    <3> QED
      BY <1>1, <1>2, <3>1, WindowChains
  <2>2. CASE ws[w] = s
    <3>1. ~Connected(w) /\ (toClient'[s] = msgs \/ toClient'[s] = <<>>)
      BY <2>2, CompleteFacts
    <3>2. ~Connected(w)'
      BY <1>1, <3>1 DEF Connected
    <3>3. ChainResume(w)'
      BY <1>1, ResumeChain
    <3>4. AckWaits(w)' => toClient'[ws'[w]] = msgs /\ Ack(w)' = msgs[1]
      BY <1>1, <2>2, <3>1 DEF AckWaits, Ack
    <3>5. ToldOK(w)'
      <4>1. known[w] <= Len(published) /\ (pendingReconnect[w] = NoReconnect => notice[w] = "none")
        BY <3>1 DEF ChainInv, ToldOK
      <4>2. Len(published) <= Len(published)
        BY LenProperties DEF IInv, TypeOK
      <4> QED
        BY <1>1, <3>4, <4>1, <4>2 DEF ToldOK
    <3>6. ChainAcked(w)'
      <4> SUFFICES ASSUME AckWaits(w)' PROVE ChainAcked(w)'
        BY DEF ChainAcked
      <4>1. PICK seen, k, end :
               /\ seen = IF msgs[1].reconnected THEN lastSeenSeq[w] ELSE 0
               /\ k = IF msgs[1].reconnected /\ ~msgs[1].stale THEN known[w] ELSE msgs[1].upto
               /\ end = serverEnd[s] /\ Chain(w, id, seen, k, msgs, 1, end)'
        BY <2>2
      <4>2. /\ id = Ack(w)'.clientId /\ seen = AckSeen(w)' /\ k = KnownAfter(w)' /\ msgs = toClient'[ws'[w]]
            /\ end = serverEnd'[ws'[w]]
        BY <1>1, <2>2, <3>4, <4>1 DEF AckSeen, KnownAfter
      <4> QED
        BY <4>1, <4>2 DEF ChainAcked
    <3> QED
      BY <3>2, <3>3, <3>5, <3>6 DEF ChainConnected
  <2> QED
    BY <2>1, <2>2
<1> QED
  BY <1>3 DEF ChainInv

\* After all that was published, nothing is owed or numbered.
LEMMA NoneOwed ==
  ASSUME NEW w, published \in Seq(SUBSET Window)
  PROVE  OwedAfter(w, Len(published)) = {}
<1> DEFINE n == Len(published)
<1>1. n \in Nat
  BY LenProperties
<1> HIDE DEF n
<1>2. (n + 1)..n = {}
  BY <1>1
<1> QED
  BY <1>2 DEF OwedAfter, n

LEMMA NoneNumbered ==
  ASSUME NEW base \in Nat, NEW e, NEW owed
  PROVE  Numbers(e, base, base, owed)
<1>1. (base + 1)..base = {}
  OBVIOUS
<1> QED
  BY <1>1 DEF Numbers

LEMMA CompleteFreshChain ==
  ASSUME IInv, NetInv, SeenInv, ChainInv, NEW s \in Sock, CompleteFresh(s) PROVE ChainInv'
<1>0. PICK ack : ack = HandshakeAck(s, FALSE, FALSE)
  OBVIOUS
<1>1. /\ ack \in ToClientMsg /\ ack.clientId = s /\ ack.reconnected = FALSE /\ ack.upto = Len(published)
  <2>1. Len(published) \in Nat
    BY LenProperties DEF IInv, TypeOK
  <2> QED
    BY <1>0, <2>1 DEF HandshakeAck, ToClientMsg, AckMsg
<1>2. PICK msgs : msgs = <<ack>>
  OBVIOUS
<1>3. /\ toClient' = SafeSend(s, msgs) /\ handshake[s] = "auth"
      /\ UNCHANGED <<clientVars, historyVars, serverEnd, disconnectedClients>>
      /\ clients' = clients \union {s} /\ lastSentSeq'[s] = 0 /\ eventBuffer'[s] = <<>>
      /\ \A k \in Sock : k # s => lastSentSeq'[k] = lastSentSeq[k] /\ eventBuffer'[k] = eventBuffer[k]
  BY <1>0, <1>2 DEF CompleteFresh, IInv, TypeOK
<1>4. msgs \in Seq(ToClientMsg) /\ Len(msgs) = 1 /\ msgs[1] = ack
  BY <1>1, <1>2, SingletonSeq
<1>5. ChainsKept
  <2>1. ~Born(s) /\ Retained' = Retained \union {s} /\ UNCHANGED published
    BY <1>3 DEF Born, Retained, historyVars
  <2> QED
    BY <1>3, <2>1 DEF ChainsKept
<1>6. ASSUME NEW w, NEW k, NEW end, k = Len(published) PROVE Chain(w, s, 0, k, msgs, 1, end)'
  <2>1. PICK base \in Nat, last \in Nat, e \in [Nat -> Nat] : base = 0 /\ last = 0
    <3>1. [x \in Nat |-> 0] \in [Nat -> Nat]
      OBVIOUS
    <3> QED
      BY <3>1
  <2>2. (OwedAfter(w, k) = {})'
    <3>1. OwedAfter(w, k) = {}
      BY <1>6, NoneOwed DEF IInv, TypeOK
    <3> QED
      BY <1>3, <3>1 DEF OwedAfter, historyVars
  <2>3. Numbers(e, base, last, OwedAfter(w, k))'
    <3>1. Numbers(e, base, last, {})
      BY <2>1, NoneNumbered
    <3> QED
      BY <2>2, <3>1 DEF Numbers
  <2>4. Queued(e, base, last, msgs, 1)'
    BY <1>4 DEF Queued
  <2>6. /\ last = lastSentSeq'[s] /\ AllNumbered(e, base, last, OwedAfter(w, k))'
        /\ Buffered(e, base, 0, eventBuffer[s])'
    <3>1. Len(eventBuffer'[s]) = 0
      BY <1>3, EmptySeq
    <3> QED
      BY <1>3, <2>1, <2>2, <3>1 DEF AllNumbered, Buffered
  <2>7. last + 1 = base + Len(msgs)
    BY <1>4, <2>1
  <2>8. /\ 0 <= base /\ base <= last
        /\ s \in Retained' => /\ last = lastSentSeq'[s] /\ AllNumbered(e, base, last, OwedAfter(w, k))'
                             /\ Buffered(e, base, 0, eventBuffer[s])'
        /\ end' = "open" => last + 1 = base + Len(msgs)
    BY <2>1, <2>6, <2>7
  <2> QED
    BY <2>3, <2>4, <2>8 DEF Chain
<1>7. \A w \in Window : ws[w] = s =>
            \E seen, k, end :
               /\ seen = IF msgs[1].reconnected THEN lastSeenSeq[w] ELSE 0
               /\ k = IF msgs[1].reconnected /\ ~msgs[1].stale THEN known[w] ELSE msgs[1].upto
               /\ end = serverEnd[s] /\ Chain(w, s, seen, k, msgs, 1, end)'
  <2> SUFFICES ASSUME NEW w \in Window
               PROVE  \E seen, k, end :
               /\ seen = IF msgs[1].reconnected THEN lastSeenSeq[w] ELSE 0
               /\ k = IF msgs[1].reconnected /\ ~msgs[1].stale THEN known[w] ELSE msgs[1].upto
               /\ end = serverEnd[s] /\ Chain(w, s, seen, k, msgs, 1, end)'
    OBVIOUS
  <2>1. PICK k, end : k = Len(published) /\ end = serverEnd[s]
    OBVIOUS
  <2>2. Chain(w, s, 0, k, msgs, 1, end)'
    BY <1>6, <2>1
  <2> QED
    BY <1>1, <1>4, <2>1, <2>2
<1> QED
  BY <1>1, <1>3, <1>4, <1>5, <1>7, CompleteChain

\* kept are the events of buf from number seen + 1 up to last; msgs sends them.
IsReplay(kept, buf, seen, last) ==
  /\ Len(kept) \in Nat /\ Len(kept) = last - seen
  /\ \A i \in 1..Len(kept) : kept[i].seq = seen + i /\ \E j \in 1..Len(buf) : kept[i] = buf[j]
IsSent(msgs, kept) ==
  /\ Len(msgs) = Len(kept) + 1
  /\ \A i \in 1..Len(kept) : msgs[i + 1].seq = kept[i].seq /\ msgs[i + 1].ev = kept[i].ev

\* With a complete replay the window was not told to reload, and it gets what it is owed.
LEMMA ReplayQueued ==
  ASSUME NEW base \in Nat, NEW last \in Nat, NEW seen \in Nat, NEW e, NEW buf, NEW kept, NEW msgs,
         seen <= base, base <= last, Buffered(e, base, seen, buf),
         IsReplay(kept, buf, seen, last), IsSent(msgs, kept)
  PROVE  /\ base = seen /\ Queued(e, base, last, msgs, 1)
         /\ last + 1 = base + Len(msgs)
<1> DEFINE n == Len(kept)
<1>1. n \in Nat /\ n = last - seen /\ Len(msgs) = n + 1
  BY DEF IsReplay, IsSent
<1>2. ASSUME NEW i \in 1..n
      PROVE  /\ kept[i].seq = seen + i /\ \E j \in 1..Len(buf) : kept[i] = buf[j]
             /\ msgs[i + 1].seq = kept[i].seq /\ msgs[i + 1].ev = kept[i].ev
  BY DEF IsReplay, IsSent
<1> HIDE DEF n
<1>3. base = seen
  <2> SUFFICES ASSUME base > seen PROVE FALSE
    OBVIOUS
  <2>1. 1 \in 1..n
    BY <1>1
  <2>2. PICK j \in 1..Len(buf) : kept[1] = buf[j]
    BY <1>2, <2>1
  <2>3. buf[j].seq > seen + 1
    BY <2>2 DEF Buffered
  <2>4. buf[j].seq = seen + 1
    BY <1>2, <2>1, <2>2
  <2> QED
    BY <2>3, <2>4
<1>4. ASSUME NEW i \in 1..n PROVE msgs[i + 1].seq = seen + i /\ msgs[i + 1].ev = e[seen + i]
  <2>1. PICK j \in 1..Len(buf) : kept[i] = buf[j]
    BY <1>2
  <2>2. PICK x \in Nat : x = seen + i
    OBVIOUS
  <2>3. x > base
    BY <1>3, <2>2
  <2>4. buf[j].seq = x /\ msgs[i + 1].seq = x /\ msgs[i + 1].ev = buf[j].ev
    BY <1>2, <2>1, <2>2
  <2>5. buf[j].ev = e[x]
    BY <2>3, <2>4 DEF Buffered
  <2> QED
    BY <2>2, <2>4, <2>5
<1>5. ASSUME NEW i \in 1..Len(msgs), i > 1
      PROVE  /\ base + i <= last + 1
             /\ \A x \in Nat : x + 1 = base + i => msgs[i].seq = x /\ msgs[i].ev = e[x]
  <2>1. PICK j \in 1..n : j = i - 1
    BY <1>1, <1>5
  <2>2. msgs[j + 1].seq = seen + j /\ msgs[j + 1].ev = e[seen + j]
    BY <1>4
  <2>3. j + 1 = i
    BY <1>1, <2>1
  <2>4. \A x \in Nat : x + 1 = base + i => x = seen + j
    BY <1>1, <1>3, <2>1
  <2>5. base + i <= last + 1
    BY <1>1, <1>3, <2>1
  <2> QED
    BY <2>2, <2>3, <2>4, <2>5
<1>6. last + 1 = base + Len(msgs)
  BY <1>1, <1>3
<1> QED
  BY <1>3, <1>5, <1>6 DEF Queued

\* Of a buffer that does not hold all that comes after seen, nothing is right after it.
LEMMA StaleBuffered ==
  ASSUME NEW buf \in Seq(BufferedEvent), NEW last \in Nat, NEW seen \in Nat, NEW e,
         \A i \in 1..Len(buf) : buf[i].seq = last - Len(buf) + i, ~CanReplay(buf, seen, last)
  PROVE  Buffered(e, last, seen, buf)
<1> DEFINE n == Len(buf)
<1>1. n \in Nat /\ \A i \in 1..n : buf[i].seq = last - n + i
  BY LenProperties
<1>2. seen < last /\ ~(n > 0 /\ seen >= buf[1].seq - 1)
  BY DEF CanReplay
<1> HIDE DEF n
<1>3. ASSUME NEW i \in 1..n PROVE ~(buf[i].seq > last) /\ buf[i].seq > seen + 1
  <2>1. PICK x, y : x = buf[1].seq /\ y = buf[i].seq
    OBVIOUS
  <2>2. n > 0 /\ x = last - n + 1 /\ y = last - n + i /\ ~(seen >= x - 1)
    BY <1>1, <1>2, <2>1
  <2> QED
    BY <1>1, <2>1, <2>2
<1> QED
  BY <1>3 DEF Buffered, n

\* What the window of a resumed client gets: what it missed, or word that it is stale.
LEMMA ResumedChain ==
  ASSUME IInv, NetInv, SeenInv, ChainInv, ChainsKept, NEW s \in Sock, NEW id \in Sock, NEW w \in Window,
         NEW seen \in Nat, NEW k, NEW msgs, NEW end, UNCHANGED published,
         ~Connected(w), pendingReconnect[w].clientId = id, pendingReconnect[w].lastSeq = seen,
         id \in Retained, lastSentSeq'[id] = lastSentSeq[id],
         eventBuffer'[id] = EvictBuffer(eventBuffer[id]),
         Head(toServer[s]).reconnect.lastSeq = seen, IsSent(msgs, Replayed(s, id)),
         k = IF HasAll(s, id) THEN known[w] ELSE Len(published)
  PROVE  Chain(w, id, seen, k, msgs, 1, end)'
<1>1. Chain(w, id, seen, known[w], <<>>, 0, "closed") /\ seen <= lastSentSeq[id]
  BY SockFacts DEF ChainInv, ChainResume, SeenInv, SeenResume, LinkOK
<1>2. PICK base \in Nat, last \in Nat, e \in [Nat -> Nat] :
    /\ seen <= base /\ base <= last /\ last = lastSentSeq[id]
    /\ Numbers(e, base, last, OwedAfter(w, known[w]))
    /\ AllNumbered(e, base, last, OwedAfter(w, known[w]))
    /\ Buffered(e, base, seen, eventBuffer[id])
  BY <1>1 DEF Chain
<1>3. PICK kept, old, buf : kept = Replayed(s, id) /\ old = eventBuffer[id] /\ buf = eventBuffer'[id]
  OBVIOUS
<1>4. /\ old \in Seq(BufferedEvent) /\ buf = EvictBuffer(old)
      /\ \A i \in 1..Len(old) : old[i].seq = last - Len(old) + i
  BY <1>2, <1>3 DEF IInv, TypeOK, BufferInv
<1>5. /\ buf \in Seq(BufferedEvent)
      /\ \A i \in 1..Len(buf) : buf[i].seq = last - Len(buf) + i /\ \E j \in 1..Len(old) : buf[i] = old[j]
  BY <1>4, EvictSuffix
<1>6. /\ kept \in Seq(BufferedEvent)
      /\ ~HasAll(s, id) => Len(kept) = 0
      /\ HasAll(s, id) => Len(kept) = last - seen
      /\ \A i \in 1..Len(kept) : kept[i].seq = seen + i /\ \E j \in 1..Len(old) : kept[i] = old[j]
  <2>1. last = lastSentSeq[id]
    BY <1>2
  <2>2. /\ Replayed(s, id) \in Seq(BufferedEvent)
        /\ ~HasAll(s, id) => Len(Replayed(s, id)) = 0
        /\ HasAll(s, id) => Len(Replayed(s, id)) = lastSentSeq[id] - seen
        /\ \A i \in 1..Len(Replayed(s, id)) :
             /\ Replayed(s, id)[i].seq = seen + i
             /\ \E j \in 1..Len(eventBuffer[id]) : Replayed(s, id)[i] = eventBuffer[id][j]
    BY <1>1, ReplayedFacts
  <2> QED
    BY <1>3, <2>1, <2>2
<1>7. OwedAfter(w, k)' = OwedAfter(w, k)
  BY DEF OwedAfter
<1>8. CASE HasAll(s, id)
  <2>1. k = known[w] /\ Len(kept) \in Nat
    BY <1>6, <1>8, LenProperties
  <2>2. IsReplay(kept, old, seen, last) /\ IsSent(msgs, kept)
    BY <1>3, <1>6, <1>8, <2>1 DEF IsReplay
  <2>3. base = seen /\ Queued(e, base, last, msgs, 1) /\ last + 1 = base + Len(msgs)
    <3>1. Buffered(e, base, seen, old) /\ seen <= base /\ base <= last
      BY <1>2, <1>3
    <3> QED
      BY <2>2, <3>1, ReplayQueued
  <2>4. Buffered(e, base, seen, buf)
    <3>1. Buffered(e, base, seen, old)
      BY <1>2, <1>3
    <3>2. ASSUME NEW i \in 1..Len(buf)
          PROVE  /\ buf[i].seq > base => buf[i].ev = e[buf[i].seq]
                 /\ base > seen => buf[i].seq > seen + 1
      <4>1. PICK j \in 1..Len(old) : buf[i] = old[j]
        BY <1>5
      <4> QED
        BY <3>1, <4>1 DEF Buffered
    <3> QED
      BY <3>2 DEF Buffered
  <2>5. Numbers(e, base, last, OwedAfter(w, k))' /\ AllNumbered(e, base, last, OwedAfter(w, k))'
    <3>1. PICK owed : owed = OwedAfter(w, k)
      OBVIOUS
    <3>2. Numbers(e, base, last, owed) /\ AllNumbered(e, base, last, owed)
      BY <1>2, <2>1, <3>1
    <3>3. owed = OwedAfter(w, k)'
      BY <1>7, <3>1
    <3> QED
      BY <3>2, <3>3 DEF Numbers, AllNumbered
  <2>6. Queued(e, base, last, msgs, 1)' /\ Buffered(e, base, seen, eventBuffer[id])'
    BY <1>3, <2>3, <2>4 DEF Queued, Buffered
  <2> QED
    BY <1>2, <2>3, <2>5, <2>6 DEF Chain
<1>9. CASE ~HasAll(s, id)
  <2>1. k = Len(published) /\ Len(msgs) = 1
    BY <1>3, <1>6, <1>9 DEF IsSent
  <2>2. (OwedAfter(w, k) = {})'
    <3>1. OwedAfter(w, k) = {}
      BY <2>1, NoneOwed DEF IInv, TypeOK
    <3> QED
      BY <1>7, <3>1
  <2>3. Numbers(e, last, last, OwedAfter(w, k))' /\ AllNumbered(e, last, last, OwedAfter(w, k))'
    <3>1. Numbers(e, last, last, {})
      BY NoneNumbered
    <3> QED
      BY <2>2, <3>1 DEF Numbers, AllNumbered
  <2>4. Buffered(e, last, seen, buf)
    <3>1. ~CanReplay(buf, seen, last)
      BY <1>2, <1>3, <1>4, <1>9 DEF HasAll
    <3>2. \A i \in 1..Len(buf) : buf[i].seq = last - Len(buf) + i
      BY <1>5
    <3> QED
      BY <1>5, <3>1, <3>2, StaleBuffered
  <2>5. Queued(e, last, last, msgs, 1)' /\ Buffered(e, last, seen, eventBuffer[id])'
    BY <1>3, <2>1, <2>4 DEF Queued, Buffered
  <2>6. seen <= last /\ last <= last /\ last + 1 = last + Len(msgs)
    <3>1. seen <= base /\ base <= last
      BY <1>2
    <3>2. PICK m : m = Len(msgs)
      OBVIOUS
    <3>3. m = 1
      BY <2>1, <3>2
    <3>4. seen <= last
      BY <3>1
    <3>5. last <= last
      OBVIOUS
    <3> QED
      BY <3>2, <3>3, <3>4, <3>5
  <2> QED
    BY <1>2, <2>3, <2>5, <2>6 DEF Chain
<1> QED
  BY <1>8, <1>9

LEMMA CompleteReconnectChain ==
  ASSUME IInv, NetInv, SeenInv, ChainInv, NEW s \in Sock, CompleteReconnect(s) PROVE ChainInv'
<1>1. PICK id \in Sock :
        /\ handshake[s] = "auth" /\ handshake[id] = "completed" /\ id \in Elements(disconnectedClients)
        /\ Head(toServer[s]).reconnect.clientId = id
        /\ toClient' = SafeSend(s, ReplayMessages(s, id))
        /\ eventBuffer' = [eventBuffer EXCEPT ![id] = EvictBuffer(@)]
        /\ clients' = clients \union {id}
        /\ Elements(disconnectedClients') = Elements(disconnectedClients) \ {id}
        /\ UNCHANGED <<lastSentSeq, clientVars, serverEnd, historyVars>>
  BY ReconnectFacts
<1>2. /\ eventBuffer'[id] = EvictBuffer(eventBuffer[id])
      /\ \A t \in Sock : t # id => eventBuffer'[t] = eventBuffer[t]
      /\ UNCHANGED <<published, known>> /\ id \in Retained /\ Retained' \subseteq Retained
  BY <1>1 DEF IInv, TypeOK, historyVars, Retained
<1>3. ChainsKept
  <2>1. ASSUME NEW i \in 1..Len(eventBuffer'[id])
        PROVE  \E j \in 1..Len(eventBuffer[id]) : eventBuffer'[id][i] = eventBuffer[id][j]
    <3>0. PICK last \in Nat : last = lastSentSeq[id]
      BY DEF IInv, TypeOK
    <3>1. PICK old : old = eventBuffer[id]
      OBVIOUS
    <3>2. old \in Seq(BufferedEvent) /\ \A j \in 1..Len(old) : old[j].seq = last - Len(old) + j
      BY <3>0, <3>1 DEF IInv, TypeOK, BufferInv
    <3>3. \A j \in 1..Len(EvictBuffer(old)) : \E l \in 1..Len(old) : EvictBuffer(old)[j] = old[l]
      BY <3>2, EvictSuffix
    <3>4. eventBuffer'[id] = EvictBuffer(old)
      BY <1>2, <3>1
    <3>5. i \in 1..Len(EvictBuffer(old))
      BY <2>1, <3>4
    <3>6. \E l \in 1..Len(old) : EvictBuffer(old)[i] = old[l]
      BY <3>3, <3>5
    <3> QED
      BY <3>1, <3>4, <3>6
  <2>2. ASSUME NEW t \in Sock, t # id, NEW i \in 1..Len(eventBuffer'[t])
        PROVE  \E j \in 1..Len(eventBuffer[t]) : eventBuffer'[t][i] = eventBuffer[t][j]
    BY <1>2, <2>2
  <2>3. UNCHANGED <<published, lastSentSeq>> /\ Retained' \subseteq Retained
    BY <1>1, <1>2
  <2>4. ASSUME NEW t \in Sock
        PROVE  \A i \in 1..Len(eventBuffer'[t]) :
                  \E j \in 1..Len(eventBuffer[t]) : eventBuffer'[t][i] = eventBuffer[t][j]
    BY <2>1, <2>2
  <2> QED
    BY <2>3, <2>4 DEF ChainsKept
<1>4. PICK msgs : msgs = ReplayMessages(s, id)
  OBVIOUS
<1>5. /\ msgs \in Seq(ToClientMsg) /\ Len(msgs) = Len(Replayed(s, id)) + 1
      /\ msgs[1] = HandshakeAck(id, TRUE, ~HasAll(s, id))
      /\ \A i \in 1..Len(Replayed(s, id)) :
           msgs[i + 1] = [type |-> "event", seq |-> Replayed(s, id)[i].seq, ev |-> Replayed(s, id)[i].ev]
  BY <1>4, ReplayMessagesFacts
<1>6. IsSent(msgs, Replayed(s, id))
  <2>1. PICK kept : kept = Replayed(s, id)
    OBVIOUS
  <2>2. Len(msgs) = Len(kept) + 1
    BY <1>5, <2>1
  <2>3. ASSUME NEW i \in 1..Len(kept)
        PROVE  msgs[i + 1].seq = kept[i].seq /\ msgs[i + 1].ev = kept[i].ev
    <3>1. msgs[i + 1] = [type |-> "event", seq |-> kept[i].seq, ev |-> kept[i].ev]
      BY <1>5, <2>1
    <3> QED
      BY <3>1
  <2>4. IsSent(msgs, kept)
    BY <2>2, <2>3 DEF IsSent
  <2> QED
    BY <2>1, <2>4
<1>7. msgs[1].clientId = id /\ msgs[1].upto = Len(published) /\ msgs[1].reconnected = TRUE
      /\ msgs[1].stale = ~HasAll(s, id)
  BY <1>5 DEF HandshakeAck
<1>8. \A w \in Window : ws[w] = s =>
            \E seen, k, end :
               /\ seen = IF msgs[1].reconnected THEN lastSeenSeq[w] ELSE 0
               /\ k = IF msgs[1].reconnected /\ ~msgs[1].stale THEN known[w] ELSE msgs[1].upto
               /\ end = serverEnd[s] /\ Chain(w, id, seen, k, msgs, 1, end)'
  <2> SUFFICES ASSUME NEW w \in Window, ws[w] = s
               PROVE  \E seen, k, end :
               /\ seen = IF msgs[1].reconnected THEN lastSeenSeq[w] ELSE 0
               /\ k = IF msgs[1].reconnected /\ ~msgs[1].stale THEN known[w] ELSE msgs[1].upto
               /\ end = serverEnd[s] /\ Chain(w, id, seen, k, msgs, 1, end)'
    OBVIOUS
  <2>1. PICK seen \in Nat : seen = lastSeenSeq[w]
    BY DEF IInv, TypeOK
  <2>2. PICK k : k = IF HasAll(s, id) THEN known[w] ELSE Len(published)
    OBVIOUS
  <2>3. PICK end : end = serverEnd[s]
    OBVIOUS
  <2>4. /\ ~Connected(w) /\ pendingReconnect[w].clientId = id /\ pendingReconnect[w].lastSeq = seen
        /\ Head(toServer[s]).reconnect.lastSeq = seen
    BY <1>1, <2>1, ResumedWindow
  <2>5. lastSentSeq'[id] = lastSentSeq[id]
    BY <1>1
  <2>6. Chain(w, id, seen, k, msgs, 1, end)'
    BY <1>2, <1>3, <1>6, <2>2, <2>4, <2>5, ResumedChain
  <2>7. HasAll(s, id) \in BOOLEAN
    BY DEF HasAll, CanReplay
  <2> QED
    BY <1>7, <2>1, <2>2, <2>3, <2>6, <2>7
<1>9. toClient' = SafeSend(s, msgs)
  BY <1>1, <1>4
<1> QED
  BY <1>1, <1>3, <1>5, <1>7, <1>8, <1>9, CompleteChain

-----------------------------------------------------------------------------
(* The inductive invariant: the workspaces that pushes are routed by *)

\* Pushes are meant for all windows, or for those of a workspace that no window
\* leaves: a switch on its way, and a client id asked for, are outside the promise.
Routed == \A t \in Target : t.to = "all" \/ (t.to = "workspace" /\ MaxSwitch = 0)

Unswitched(q) == \A i \in 1..Len(q) : q[i].type # "switchWorkspace"

\* Without switches the server knows the workspace of each window.
RouteInv ==
  MaxSwitch = 0 =>
    /\ windowWorkspace = HomeWorkspace
    /\ \A id \in Sock : connWindow[id] # None => connWorkspace[id] = HomeWorkspace[connWindow[id]]
    /\ \A s \in Sock : Unswitched(toServer[s])

LEMMA InitRoute == Init => RouteInv
<1>1. Unswitched(<<>>)
  BY EmptySeq DEF Unswitched
<1> QED
  BY <1>1 DEF Init, RouteInv

LEMMA UnswitchedFacts ==
  ASSUME NEW q \in Seq(ToServerMsg), Unswitched(q)
  PROVE  /\ q # <<>> => Unswitched(Tail(q)) /\ Head(q).type # "switchWorkspace"
         /\ \A msg \in ToServerMsg : msg.type # "switchWorkspace" => Unswitched(Append(q, msg))
<1> DEFINE n == Len(q)
<1>1. \A i \in 1..n : q[i].type # "switchWorkspace"
  BY DEF Unswitched
<1>2. n \in Nat
  BY LenProperties
<1>3. ASSUME q # <<>> PROVE Unswitched(Tail(q)) /\ Head(q).type # "switchWorkspace"
  <2>1. /\ n \in Nat \ {0} /\ Len(Tail(q)) = n - 1 /\ Head(q) = q[1]
        /\ \A i \in 1..Len(Tail(q)) : Tail(q)[i] = q[i + 1]
    BY <1>3, TailFacts
  <2> HIDE DEF n
  <2>2. 1 \in 1..n /\ \A i \in 1..(n - 1) : i + 1 \in 1..n
    BY <2>1
  <2> QED
    BY <1>1, <2>1, <2>2 DEF Unswitched
<1>4. ASSUME NEW msg \in ToServerMsg, msg.type # "switchWorkspace" PROVE Unswitched(Append(q, msg))
  <2>1. /\ Len(Append(q, msg)) = n + 1 /\ Append(q, msg)[n + 1] = msg
        /\ \A i \in 1..n : Append(q, msg)[i] = q[i]
    BY AppendFacts
  <2> HIDE DEF n
  <2>2. \A i \in 1..(n + 1) : i \in 1..n \/ i = n + 1
    BY <1>2
  <2> QED
    BY <1>1, <1>4, <2>1, <2>2 DEF Unswitched
<1> QED
  BY <1>3, <1>4

\* A step that changes no record of a workspace, and takes or adds no switch.
LEMMA RouteSame ==
  ASSUME IInv, RouteInv, UNCHANGED <<windowWorkspace, connWorkspace, connWindow>>,
         \A s \in Sock : \/ toServer'[s] = toServer[s] \/ toServer'[s] = <<>>
                         \/ toServer[s] # <<>> /\ toServer'[s] = Tail(toServer[s])
                         \/ \E msg \in ToServerMsg :
                              msg.type # "switchWorkspace" /\ toServer'[s] = Append(toServer[s], msg)
  PROVE  RouteInv'
<1> SUFFICES ASSUME MaxSwitch = 0 PROVE RouteInv'
  BY DEF RouteInv
<1>1. ASSUME NEW s \in Sock PROVE Unswitched(toServer'[s])
  <2>1. toServer[s] \in Seq(ToServerMsg) /\ Unswitched(toServer[s]) /\ Unswitched(<<>>)
    BY EmptySeq DEF IInv, TypeOK, RouteInv, Unswitched
  <2> QED
    BY <2>1, UnswitchedFacts
<1>2. \A s \in Sock : Unswitched(toServer[s])'
  BY <1>1 DEF Unswitched
<1> QED
  BY <1>2 DEF RouteInv

LEMMA OnCloseRoute == ASSUME IInv, RouteInv, NEW s \in Sock, OnClose(s) PROVE RouteInv'
<1>1. /\ UNCHANGED <<windowWorkspace, connWorkspace, connWindow>>
      /\ \A t \in Sock : toServer'[t] = toServer[t] \/ toServer'[t] = <<>>
  BY DEF OnClose, connVars, IInv, TypeOK
<1> QED
  BY <1>1, RouteSame

LEMMA TakenRoute ==
  ASSUME IInv, RouteInv, NEW s \in Sock, toServer[s] # <<>>, toServer' = [toServer EXCEPT ![s] = Tail(@)],
         UNCHANGED <<windowWorkspace, connWorkspace, connWindow>>
  PROVE  RouteInv'
<1>1. \A t \in Sock : \/ toServer'[t] = toServer[t]
                      \/ toServer[t] # <<>> /\ toServer'[t] = Tail(toServer[t])
  BY DEF IInv, TypeOK
<1> QED
  BY <1>1, RouteSame

LEMMA SentRoute ==
  ASSUME IInv, RouteInv, NEW s \in Sock, NEW msg \in ToServerMsg, msg.type # "switchWorkspace",
         toServer' = ClientSend(s, msg), UNCHANGED serverVars
  PROVE  RouteInv'
<1>1. \A t \in Sock : \/ toServer'[t] = toServer[t] \/ toServer'[t] = Append(toServer[t], msg)
  BY ClientSendFacts
<1>2. UNCHANGED <<windowWorkspace, connWorkspace, connWindow>>
  BY DEF serverVars, connVars
<1> QED
  BY <1>1, <1>2, RouteSame

LEMMA CompleteFreshRoute == ASSUME IInv, RouteInv, NEW s \in Sock, CompleteFresh(s) PROVE RouteInv'
<1> SUFFICES ASSUME MaxSwitch = 0 PROVE RouteInv'
  BY DEF RouteInv
<1>1. /\ handshake[s] = "auth" /\ toServer'[s] = Tail(toServer[s]) /\ windowWorkspace' = windowWorkspace
      /\ \A t \in Sock : t # s => toServer'[t] = toServer[t]
      /\ connWindow'[s] = socketWindow[s] /\ connWorkspace'[s] = HomeWorkspace[socketWindow[s]]
      /\ \A t \in Sock : t # s => connWindow'[t] = connWindow[t] /\ connWorkspace'[t] = connWorkspace[t]
  BY DEF CompleteFresh, IInv, TypeOK
<1>2. Unswitched(Tail(toServer[s]))
  <2>1. toServer[s] \in Seq(ToServerMsg) /\ Unswitched(toServer[s]) /\ toServer[s] # <<>>
    BY <1>1 DEF IInv, TypeOK, SocketInv, RouteInv
  <2> QED
    BY <2>1, UnswitchedFacts
<1>3. \A t \in Sock : Unswitched(toServer'[t])
  BY <1>1, <1>2 DEF RouteInv
<1>4. \A t \in Sock : Unswitched(toServer[t])'
  BY <1>3 DEF Unswitched
<1>5. windowWorkspace' = HomeWorkspace
  BY <1>1 DEF RouteInv
<1>6. \A id \in Sock : connWindow'[id] # None => connWorkspace'[id] = HomeWorkspace[connWindow'[id]]
  BY <1>1 DEF RouteInv
<1> QED
  BY <1>4, <1>5, <1>6 DEF RouteInv

LEMMA OnSwitchWorkspaceRoute ==
  ASSUME IInv, RouteInv, NEW s \in Sock, OnSwitchWorkspace(s) PROVE RouteInv'
<1> SUFFICES ASSUME MaxSwitch = 0 PROVE FALSE
  BY DEF RouteInv
<1>1. toServer[s] # <<>> /\ Head(toServer[s]).type = "switchWorkspace"
  BY DEF OnSwitchWorkspace, Incoming
<1>2. toServer[s] \in Seq(ToServerMsg) /\ Unswitched(toServer[s])
  BY DEF IInv, TypeOK, RouteInv
<1> QED
  BY <1>1, <1>2, UnswitchedFacts

LEMMA StepRoute == ASSUME IInv, NetInv, RouteInv, [Next]_vars PROVE RouteInv'
<1>1. CASE UNCHANGED vars
  BY <1>1, RouteSame DEF vars, serverVars, connVars, netVars
<1>2. CASE ServerNext
  <2>1. ASSUME NEW t \in Target, Push(t) PROVE RouteInv'
    BY <2>1, RouteSame DEF Push
  <2>2. CASE EventsAge \/ DisconnectedExpires
    BY <2>2, RouteSame DEF EventsAge, DisconnectedExpires, connVars, netVars
  <2>3. CASE Restart
    BY <2>3, RouteSame DEF Restart, connVars
  <2>4. ASSUME NEW s \in Sock, OnConnection(s) \/ OnHandshake(s) PROVE RouteInv'
    BY <2>4, RouteSame DEF OnConnection, OnHandshake, connVars, netVars
  <2>5. ASSUME NEW s \in Sock, RejectHandshake(s) PROVE RouteInv'
    <3>1. /\ UNCHANGED <<windowWorkspace, connWorkspace, connWindow>>
          /\ \A t \in Sock : toServer'[t] = toServer[t] \/ toServer'[t] = <<>>
      BY <2>5 DEF RejectHandshake, connVars, IInv, TypeOK
    <3> QED
      BY <3>1, RouteSame
  <2>6. ASSUME NEW s \in Sock, CompleteReconnect(s) PROVE RouteInv'
    <3>1. /\ handshake[s] = "auth" /\ toServer' = [toServer EXCEPT ![s] = Tail(@)]
          /\ UNCHANGED <<windowWorkspace, connWorkspace, connWindow>>
      BY <2>6 DEF CompleteReconnect
    <3>2. toServer[s] # <<>>
      BY <3>1 DEF IInv, SocketInv
    <3> QED
      BY <3>1, <3>2, TakenRoute
  <2>7. ASSUME NEW s \in Sock, OnSequenceAck(s) PROVE RouteInv'
    <3>1. /\ toServer[s] # <<>> /\ toServer' = [toServer EXCEPT ![s] = Tail(@)]
          /\ UNCHANGED <<windowWorkspace, connWorkspace, connWindow>>
      BY <2>7 DEF OnSequenceAck, Incoming
    <3> QED
      BY <3>1, TakenRoute
  <2> QED
    BY <1>2, <2>1, <2>2, <2>3, <2>4, <2>5, <2>6, <2>7, CompleteFreshRoute, OnSwitchWorkspaceRoute,
       OnCloseRoute DEF ServerNext
<1>3. CASE ClientNext
  <2>1. ASSUME NEW w \in Window, Connect(w) \/ OnDisconnect(w) \/ OnEvent(w) \/ OnHandshakeAck(w)
        PROVE  RouteInv'
    <3>1. UNCHANGED <<serverVars, toServer>>
      BY <2>1 DEF Connect, OnDisconnect, OnEvent, OnHandshakeAck
    <3> QED
      BY <3>1, RouteSame DEF serverVars, connVars
  <2>2. ASSUME NEW w \in Window, OnOpen(w) PROVE RouteInv'
    <3> DEFINE msg == [type |-> "handshake", reconnect |-> pendingReconnect[w]]
    <3>1. ws[w] \in Sock /\ toServer' = ClientSend(ws[w], msg) /\ UNCHANGED serverVars
      BY <2>2, WindowSocket DEF OnOpen
    <3>2. msg \in ToServerMsg /\ msg.type # "switchWorkspace"
      BY DEF IInv, TypeOK, ToServerMsg, HandshakeMsg
    <3> QED
      BY <3>1, <3>2, SentRoute
  <2>3. ASSUME NEW w \in Window, SendSequenceAck(w) PROVE RouteInv'
    <3> DEFINE msg == [type |-> "sequence_ack", lastSeq |-> lastSeenSeq[w]]
    <3>1. Connected(w) /\ toServer' = ClientSend(ws[w], msg) /\ UNCHANGED serverVars
      BY <2>3 DEF SendSequenceAck, SendMessage
    <3>2. ws[w] \in Sock
      BY <3>1, WindowSocket DEF NetInv, ConnectedOK
    <3>3. msg \in ToServerMsg /\ msg.type # "switchWorkspace"
      BY DEF IInv, TypeOK, ToServerMsg, SequenceAckMsg
    <3> QED
      BY <3>1, <3>2, <3>3, SentRoute
  <2>4. ASSUME NEW w \in Window, NEW x \in Workspace, SwitchWorkspace(w, x) PROVE RouteInv'
    <3>1. switches < MaxSwitch /\ switches \in Nat
      BY <2>4 DEF SwitchWorkspace, IInv, TypeOK
    <3>2. MaxSwitch # 0
      BY <3>1
    <3> QED
      BY <3>2 DEF RouteInv
  <2> QED
    BY <1>3, <2>1, <2>2, <2>3, <2>4 DEF ClientNext
<1> QED
  BY <1>1, <1>2, <1>3 DEF Next

\* A push reaches the client id of a window when it is meant for that window.
LEMMA MatchMeant ==
  ASSUME Routed, RouteInv, NEW t \in Target, NEW w \in Window, NEW id \in Sock, connWindow[id] = w
  PROVE  MatchesTarget(id, t) <=> w \in MeantFor(t)
<1>1. CASE t.to = "all"
  BY <1>1 DEF MatchesTarget, MeantFor
<1>2. CASE t.to = "workspace" /\ MaxSwitch = 0
  <2>1. connWorkspace[id] = windowWorkspace[w]
    BY <1>2, WindowNames DEF RouteInv
  <2> QED
    BY <1>2, <2>1 DEF MatchesTarget, MeantFor
<1> QED
  BY <1>1, <1>2 DEF Routed

Below(owed, n) == \A m \in owed : m < n
\* e2 agrees with e up to number last, and leads from the next one to event n.
Extends(e2, e, last, n) ==
  /\ \A x \in Nat : x <= last => e2[x] = e[x]
  /\ e2[last + 1] = n

\* One more event is owed, and gets no number.
LEMMA NumbersLost ==
  ASSUME NEW base \in Nat, NEW last \in Nat, NEW e, NEW owed \in SUBSET Nat, NEW n \in Nat,
         Below(owed, n), Numbers(e, base, last, owed)
  PROVE  Numbers(e, base, last, owed \union {n})
<1>1. /\ \A x \in (base + 1)..last : e[x] \in owed
      /\ \A x, y \in (base + 1)..last : x < y => e[x] < e[y]
      /\ \A x \in (base + 1)..last, m \in owed : m <= e[x] => \E y \in (base + 1)..last : e[y] = m
  BY DEF Numbers
<1>2. ASSUME NEW x \in (base + 1)..last PROVE ~(n <= e[x])
  <2>1. PICK v \in Nat : v = e[x] /\ v \in owed
    BY <1>1
  <2>2. v < n
    BY <2>1 DEF Below
  <2> QED
    BY <2>1, <2>2
<1> QED
  BY <1>1, <1>2 DEF Numbers

\* One more event is owed, and gets the next number.
LEMMA NumbersMore ==
  ASSUME NEW base \in Nat, NEW last \in Nat, NEW e, NEW e2, NEW owed \in SUBSET Nat, NEW n \in Nat,
         base <= last, Below(owed, n), Extends(e2, e, last, n),
         Numbers(e, base, last, owed), AllNumbered(e, base, last, owed)
  PROVE  /\ Numbers(e2, base, last + 1, owed \union {n})
         /\ AllNumbered(e2, base, last + 1, owed \union {n})
<1>1. /\ \A x \in (base + 1)..last : e[x] \in owed
      /\ \A x, y \in (base + 1)..last : x < y => e[x] < e[y]
      /\ \A m \in owed : \E y \in (base + 1)..last : e[y] = m
  BY DEF Numbers, AllNumbered
<1>2. /\ \A x \in (base + 1)..last : e2[x] = e[x] /\ x \in (base + 1)..(last + 1) /\ x < last + 1
      /\ e2[last + 1] = n
  BY DEF Extends
<1>3. \A x \in (base + 1)..(last + 1) : x \in (base + 1)..last \/ x = last + 1
  OBVIOUS
<1>4. last + 1 \in (base + 1)..(last + 1)
  OBVIOUS
<1>5. \A x \in (base + 1)..last : e2[x] \in owed /\ e2[x] < n
  BY <1>1, <1>2 DEF Below
<1>6. \A m \in owed \union {n} : \E y \in (base + 1)..(last + 1) : e2[y] = m
  BY <1>1, <1>2, <1>4
<1>7. ASSUME NEW x \in (base + 1)..(last + 1), NEW y \in (base + 1)..(last + 1), x < y
      PROVE  e2[x] < e2[y]
  <2>1. x \in (base + 1)..last
    BY <1>7
  <2>2. CASE y = last + 1
    BY <1>2, <1>5, <2>1, <2>2
  <2>3. CASE y \in (base + 1)..last
    BY <1>1, <1>2, <1>7, <2>1, <2>3
  <2> QED
    BY <1>3, <2>2, <2>3
<1>8. \A x \in (base + 1)..(last + 1) : e2[x] \in owed \union {n}
  BY <1>2, <1>3, <1>5
<1> QED
  BY <1>6, <1>7, <1>8 DEF Numbers, AllNumbered

LEMMA QueuedSame ==
  ASSUME NEW base \in Nat, NEW last \in Nat, NEW e, NEW e2, NEW n, NEW q, NEW off \in Nat,
         Extends(e2, e, last, n), Queued(e, base, last, q, off)
  PROVE  Queued(e2, base, last + 1, q, off)
<1>1. ASSUME NEW i \in 1..Len(q), i > off
      PROVE  /\ base + i <= (last + 1) + off
             /\ \A x \in Nat : x + off = base + i => q[i].seq = x /\ q[i].ev = e2[x]
  <2>1. /\ base + i <= last + off /\ i \in Int
        /\ \A x \in Nat : x + off = base + i => q[i].seq = x /\ q[i].ev = e[x]
    BY <1>1 DEF Queued
  <2>2. \A x \in Nat : x + off = base + i => x <= last
    BY <2>1
  <2>3. base + i <= (last + 1) + off
    BY <2>1
  <2> QED
    BY <2>1, <2>2, <2>3 DEF Extends
<1> QED
  BY <1>1 DEF Queued

\* The queue holds all events up to number last; msg is the next one, event n.
Complete(q, base, last, off) == last + off = base + Len(q)
IsNext(msg, last, n) == msg.seq = last + 1 /\ msg.ev = n

LEMMA QueuedMore ==
  ASSUME NEW base \in Nat, NEW last \in Nat, NEW e, NEW e2, NEW n, NEW off \in Nat,
         NEW q \in Seq(ToClientMsg), NEW msg \in ToClientMsg, Extends(e2, e, last, n),
         Queued(e, base, last, q, off), Complete(q, base, last, off), IsNext(msg, last, n)
  PROVE  /\ Queued(e2, base, last + 1, Append(q, msg), off)
         /\ Complete(Append(q, msg), base, last + 1, off)
<1> DEFINE l == Len(q)
           r == Append(q, msg)
<1>1. l \in Nat /\ Len(r) = l + 1 /\ r[l + 1] = msg /\ \A i \in 1..l : r[i] = q[i]
  BY AppendFacts
<1>2. Queued(e2, base, last + 1, q, off)
  BY QueuedSame
<1>3. \A i \in 1..l : i > off =>
        /\ base + i <= (last + 1) + off
        /\ \A x \in Nat : x + off = base + i => q[i].seq = x /\ q[i].ev = e2[x]
  BY <1>2 DEF Queued
<1>4. last + off = base + l
  BY DEF Complete
<1> HIDE DEF l, r
<1>5. ASSUME NEW i \in 1..(l + 1), i > off
      PROVE  /\ base + i <= (last + 1) + off
             /\ \A x \in Nat : x + off = base + i => r[i].seq = x /\ r[i].ev = e2[x]
  <2>1. CASE i \in 1..l
    <3>1. r[i] = q[i]
      BY <1>1, <2>1
    <3>2. /\ base + i <= (last + 1) + off
          /\ \A x \in Nat : x + off = base + i => q[i].seq = x /\ q[i].ev = e2[x]
      BY <1>3, <1>5, <2>1
    <3> QED
      BY <3>1, <3>2
  <2>2. CASE i = l + 1
    <3>1. \A x \in Nat : x + off = base + i => x = last + 1
      BY <1>1, <1>4, <2>2
    <3>2. base + i <= (last + 1) + off
      BY <1>1, <1>4, <2>2
    <3>3. r[i].seq = last + 1 /\ r[i].ev = e2[last + 1]
      BY <1>1, <2>2 DEF Extends, IsNext
    <3> QED
      BY <3>1, <3>2, <3>3
  <2> QED
    BY <1>1, <2>1, <2>2
<1>6. (last + 1) + off = base + Len(r)
  <2>1. PICK m : m = Len(r)
    OBVIOUS
  <2>2. l \in Nat /\ m = l + 1
    BY <1>1, <2>1
  <2>3. (last + 1) + off = base + m
    BY <1>4, <2>2
  <2> QED
    BY <2>1, <2>3
<1> QED
  BY <1>1, <1>5, <1>6 DEF Queued, Complete, r

LEMMA BufferedMore ==
  ASSUME NEW base \in Nat, NEW last \in Nat, NEW e, NEW e2, NEW n \in Nat, NEW seen \in Nat,
         NEW buf \in Seq(BufferedEvent), \A i \in 1..Len(buf) : buf[i].seq = last - Len(buf) + i,
         base <= last, seen <= base, Extends(e2, e, last, n), Buffered(e, base, seen, buf)
  PROVE  Buffered(e2, base, seen, EvictBuffer(Append(buf, [seq |-> last + 1, ev |-> n])))
<1> DEFINE event == [seq |-> last + 1, ev |-> n]
           longer == Append(buf, event)
           l == Len(buf)
<1>1. event \in BufferedEvent /\ event.seq = last + 1 /\ event.ev = n
  BY DEF BufferedEvent
<1> HIDE DEF event
<1>2. /\ l \in Nat /\ longer \in Seq(BufferedEvent) /\ Len(longer) = l + 1 /\ longer[l + 1] = event
      /\ \A i \in 1..l : longer[i] = buf[i]
  BY <1>1, AppendFacts
<1>3. \A i \in 1..l : buf[i].seq = last - l + i
  OBVIOUS
<1>4. ASSUME NEW i \in 1..l
      PROVE  /\ buf[i].seq \in Nat /\ buf[i].seq <= last
             /\ buf[i].seq > base => buf[i].ev = e2[buf[i].seq]
             /\ base > seen => buf[i].seq > seen + 1
  <2>1. buf[i] \in BufferedEvent
    BY ElementOfSeq
  <2>2. PICK x \in Nat : x = buf[i].seq
    BY <2>1 DEF BufferedEvent
  <2> HIDE DEF l
  <2>3. x <= last
    BY <1>2, <1>3, <2>2
  <2>4. /\ x > base => buf[i].ev = e[x]
        /\ base > seen => x > seen + 1
    BY <2>2 DEF Buffered, l
  <2>5. e2[x] = e[x]
    BY <2>3 DEF Extends
  <2> QED
    BY <2>2, <2>3, <2>4, <2>5
<1> HIDE DEF l, longer
<1>5. ASSUME NEW i \in 1..(l + 1)
      PROVE  /\ longer[i].seq = (last + 1) - (l + 1) + i
             /\ longer[i].seq > base => longer[i].ev = e2[longer[i].seq]
             /\ base > seen => longer[i].seq > seen + 1
  <2>1. CASE i \in 1..l
    <3>1. longer[i] = buf[i] /\ buf[i].seq = last - l + i
      BY <1>2, <1>3, <2>1
    <3>2. last - l + i = (last + 1) - (l + 1) + i
      BY <1>2
    <3> QED
      BY <1>4, <2>1, <3>1, <3>2
  <2>2. CASE i = l + 1
    <3>1. longer[i].seq = last + 1 /\ longer[i].ev = n
      BY <1>1, <1>2, <2>2
    <3>2. (last + 1) - (l + 1) + i = last + 1 /\ (base > seen => last + 1 > seen + 1)
      BY <1>2, <2>2
    <3>3. e2[last + 1] = n
      BY DEF Extends
    <3> QED
      BY <3>1, <3>2, <3>3
  <2> QED
    BY <1>2, <2>1, <2>2
<1>6. \A i \in 1..Len(EvictBuffer(longer)) : \E j \in 1..(l + 1) : EvictBuffer(longer)[i] = longer[j]
  <2>1. PICK next \in Nat : next = last + 1
    OBVIOUS
  <2>2. longer \in Seq(BufferedEvent) /\ \A i \in 1..Len(longer) : longer[i].seq = next - Len(longer) + i
    BY <1>2, <1>5, <2>1
  <2>3. \A i \in 1..Len(EvictBuffer(longer)) : \E j \in 1..Len(longer) : EvictBuffer(longer)[i] = longer[j]
    BY <2>2, EvictSuffix
  <2> QED
    BY <1>2, <2>3
<1>7. Buffered(e2, base, seen, EvictBuffer(longer))
  BY <1>5, <1>6 DEF Buffered
<1> QED
  BY <1>7 DEF longer, event

\* What a push leaves owed to a window.
LEMMA PushOwed ==
  ASSUME IInv, NEW t \in Target, Push(t), NEW w, NEW k \in Nat, k <= Len(published)
  PROVE  /\ OwedAfter(w, k) \in SUBSET Nat /\ Below(OwedAfter(w, k), Len(published) + 1)
         /\ w \notin MeantFor(t) => OwedAfter(w, k)' = OwedAfter(w, k)
         /\ w \in MeantFor(t) => OwedAfter(w, k)' = OwedAfter(w, k) \union {Len(published) + 1}
<1> DEFINE n == Len(published)
           M == MeantFor(t)
<1>1. published' = Append(published, M) /\ published \in Seq(SUBSET Window)
  BY DEF Push, IInv, TypeOK
<1>2. M \in SUBSET Window
  BY DEF MeantFor
<1> HIDE DEF M
<1>3. n \in Nat /\ Len(published') = n + 1 /\ published'[n + 1] = M /\ \A i \in 1..n : published'[i] = published[i]
  BY <1>1, <1>2, AppendFacts
<1>4. OwedAfter(w, k) = {m \in (k + 1)..n : w \in published[m]}
  BY DEF OwedAfter
<1>5. OwedAfter(w, k)' = {m \in (k + 1)..(n + 1) : w \in published'[m]}
  BY <1>3 DEF OwedAfter
<1>6. k <= n
  OBVIOUS
<1> HIDE DEF n
<1>7. /\ \A m \in (k + 1)..n : m \in Nat /\ m < n + 1 /\ m \in 1..n /\ m \in (k + 1)..(n + 1)
      /\ n + 1 \in (k + 1)..(n + 1)
      /\ \A m \in (k + 1)..(n + 1) : m \in (k + 1)..n \/ m = n + 1
  BY <1>3, <1>6
<1>8. OwedAfter(w, k) \in SUBSET Nat /\ Below(OwedAfter(w, k), n + 1)
  BY <1>4, <1>7 DEF Below
<1>9. \A m : m \in OwedAfter(w, k)' <=> m \in OwedAfter(w, k) \/ (m = n + 1 /\ w \in M)
  BY <1>3, <1>4, <1>5, <1>7
<1>10. w \notin M => OwedAfter(w, k)' = OwedAfter(w, k)
  BY <1>9
<1>11. w \in M => OwedAfter(w, k)' = OwedAfter(w, k) \union {n + 1}
  BY <1>9
<1> QED
  BY <1>8, <1>10, <1>11 DEF n, M

\* The numbers of a client id, after a push.
LEMMA ChainPush ==
  ASSUME IInv, NetInv, RouteInv, Routed, NEW t \in Target, Push(t),
         NEW w \in Window, NEW id \in Sock, connWindow[id] = w,
         NEW seen \in Nat, NEW k \in Nat, k <= Len(published), NEW q \in Seq(ToClientMsg), NEW q2,
         NEW off \in Nat, NEW end, Chain(w, id, seen, k, q, off, end), end = "open" => id \in Retained,
         q2 = IF end = "open" /\ MatchesTarget(id, t) THEN Append(q, PushedTo(id)) ELSE q
  PROVE  Chain(w, id, seen, k, q2, off, end)'
<1>1. PICK base \in Nat, last \in Nat, e \in [Nat -> Nat] :
    /\ seen <= base /\ base <= last
    /\ Numbers(e, base, last, OwedAfter(w, k))
    /\ Queued(e, base, last, q, off)
    /\ id \in Retained =>
         /\ last = lastSentSeq[id]
         /\ AllNumbered(e, base, last, OwedAfter(w, k))
         /\ Buffered(e, base, seen, eventBuffer[id])
    /\ end = "open" => last + off = base + Len(q)
  BY DEF Chain
<1>2. PICK n \in Nat : n = Len(published) + 1
  <2>1. Len(published) \in Nat
    BY LenProperties DEF IInv, TypeOK
  <2>2. Len(published) + 1 \in Nat
    BY <2>1
  <2> QED
    BY <2>2
<1>3. PICK owed, more : owed = OwedAfter(w, k) /\ more = OwedAfter(w, k)'
  OBVIOUS
<1>4. /\ owed \in SUBSET Nat /\ Below(owed, n)
      /\ w \notin MeantFor(t) => more = owed
      /\ w \in MeantFor(t) => more = owed \union {n}
  BY <1>2, <1>3, PushOwed
<1>5. MatchesTarget(id, t) <=> w \in MeantFor(t)
  BY MatchMeant
<1>6. UNCHANGED <<clients, disconnectedClients>> /\ Retained' = Retained
  BY DEF Push, mapVars, Retained
<1>7. /\ ~(id \in Retained /\ MatchesTarget(id, t)) =>
           lastSentSeq'[id] = lastSentSeq[id] /\ eventBuffer'[id] = eventBuffer[id]
      /\ id \in Retained /\ MatchesTarget(id, t) =>
           /\ lastSentSeq'[id] = lastSentSeq[id] + 1
           /\ eventBuffer'[id] = EvictBuffer(Append(eventBuffer[id], [seq |-> lastSentSeq[id] + 1, ev |-> n]))
  BY <1>2 DEF Push
<1>8. CASE w \notin MeantFor(t)
  <2>1. q2 = q /\ more = owed /\ lastSentSeq'[id] = lastSentSeq[id] /\ eventBuffer'[id] = eventBuffer[id]
    BY <1>4, <1>5, <1>7, <1>8
  <2>2. Numbers(e, base, last, OwedAfter(w, k))' /\ Queued(e, base, last, q2, off)'
    <3>1. Numbers(e, base, last, more) /\ Queued(e, base, last, q2, off)
      BY <1>1, <1>3, <2>1
    <3> QED
      BY <1>3, <3>1 DEF Numbers, Queued
  <2>3. id \in Retained => last = lastSentSeq'[id] /\ AllNumbered(e, base, last, OwedAfter(w, k))'
                           /\ Buffered(e, base, seen, eventBuffer[id])'
    <3>1. id \in Retained => /\ last = lastSentSeq'[id] /\ AllNumbered(e, base, last, more)
                             /\ Buffered(e, base, seen, eventBuffer'[id])
      BY <1>1, <1>3, <2>1
    <3> QED
      BY <1>3, <3>1 DEF AllNumbered, Buffered
  <2> QED
    BY <1>1, <1>6, <2>1, <2>2, <2>3 DEF Chain
<1>9. CASE w \in MeantFor(t) /\ id \notin Retained
  <2>1. q2 = q /\ end # "open"
    BY <1>9
  <2>2. Numbers(e, base, last, more)
    <3>1. Numbers(e, base, last, owed)
      BY <1>1, <1>3
    <3> QED
      <4>1. owed \in SUBSET Nat /\ Below(owed, n) /\ more = owed \union {n}
        BY <1>4, <1>9
      <4>2. Numbers(e, base, last, owed \union {n})
        BY <3>1, <4>1, NumbersLost
      <4> QED
        BY <4>1, <4>2
  <2>3. Numbers(e, base, last, OwedAfter(w, k))' /\ Queued(e, base, last, q2, off)'
    BY <1>1, <1>3, <2>1, <2>2 DEF Numbers, Queued
  <2> QED
    BY <1>1, <1>6, <1>9, <2>1, <2>3 DEF Chain
<1>10. CASE w \in MeantFor(t) /\ id \in Retained
  <2>1. PICK e2 \in [Nat -> Nat], next \in Nat : next = last + 1 /\ e2 = [e EXCEPT ![next] = n]
    <3>1. PICK next \in Nat : next = last + 1
      OBVIOUS
    <3>2. [e EXCEPT ![next] = n] \in [Nat -> Nat]
      OBVIOUS
    <3> QED
      BY <3>1, <3>2
  <2>2. Extends(e2, e, last, n)
    <3>1. \A x \in Nat : x <= last => x # next
      BY <2>1
    <3> QED
      BY <2>1, <3>1 DEF Extends
  <2>3. /\ last = lastSentSeq[id] /\ AllNumbered(e, base, last, owed) /\ Numbers(e, base, last, owed)
        /\ Buffered(e, base, seen, eventBuffer[id])
    BY <1>1, <1>3, <1>10
  <2>4. Numbers(e2, base, next, more) /\ AllNumbered(e2, base, next, more)
    <3>1. owed \in SUBSET Nat /\ Below(owed, n) /\ more = owed \union {n} /\ base <= last
      BY <1>1, <1>4, <1>10
    <3>2. /\ Numbers(e2, base, last + 1, owed \union {n})
          /\ AllNumbered(e2, base, last + 1, owed \union {n})
      BY <2>2, <2>3, <3>1, NumbersMore
    <3> QED
      BY <2>1, <3>1, <3>2
  <2>5. PICK buf, buf2 : buf = eventBuffer[id] /\ buf2 = eventBuffer'[id]
    OBVIOUS
  <2>6. Buffered(e2, base, seen, buf2) /\ lastSentSeq'[id] = next
    <3>1. buf \in Seq(BufferedEvent) /\ \A i \in 1..Len(buf) : buf[i].seq = last - Len(buf) + i
      BY <2>3, <2>5 DEF IInv, TypeOK, BufferInv
    <3>2. buf2 = EvictBuffer(Append(buf, [seq |-> last + 1, ev |-> n])) /\ lastSentSeq'[id] = next
      BY <1>5, <1>7, <1>10, <2>1, <2>3, <2>5
    <3>3. seen <= base /\ base <= last /\ Buffered(e, base, seen, buf)
      BY <1>1, <2>3, <2>5
    <3>4. Buffered(e2, base, seen, EvictBuffer(Append(buf, [seq |-> last + 1, ev |-> n])))
      BY <2>2, <3>1, <3>3, BufferedMore
    <3> QED
      BY <3>2, <3>4
  <2>7. /\ Queued(e2, base, next, q2, off)
        /\ end = "open" => next + off = base + Len(q2)
    <3>1. Queued(e, base, last, q, off)
      BY <1>1
    <3>2. CASE end # "open"
      BY <2>1, <2>2, <3>1, <3>2, QueuedSame
    <3>3. CASE end = "open"
      <4>1. PICK msg \in ToClientMsg : msg = PushedTo(id)
        BY PushFacts
      <4>2. IsNext(msg, last, n) /\ q2 = Append(q, msg)
        BY <1>2, <1>5, <1>10, <2>3, <3>3, <4>1 DEF PushedTo, IsNext
      <4>3. Complete(q, base, last, off)
        BY <1>1, <3>3 DEF Complete
      <4>4. /\ Queued(e2, base, last + 1, Append(q, msg), off)
            /\ Complete(Append(q, msg), base, last + 1, off)
        BY <2>2, <3>1, <4>2, <4>3, QueuedMore
      <4> QED
        BY <2>1, <4>2, <4>4 DEF Complete
    <3> QED
      BY <3>2, <3>3
  <2>8. Numbers(e2, base, next, OwedAfter(w, k))' /\ AllNumbered(e2, base, next, OwedAfter(w, k))'
    BY <1>3, <2>4 DEF Numbers, AllNumbered
  <2>9. Queued(e2, base, next, q2, off)' /\ Buffered(e2, base, seen, eventBuffer[id])'
    BY <2>5, <2>6, <2>7 DEF Queued, Buffered
  <2>10. base <= next
    BY <1>1, <2>1
  <2> QED
    BY <1>1, <2>6, <2>7, <2>8, <2>9, <2>10 DEF Chain
<1> QED
  BY <1>8, <1>9, <1>10

\* What a push adds to the queue of a window whose client is id.
LEMMA PushedQueue ==
  ASSUME IInv, NetInv, NEW t \in Target, Push(t), NEW s \in Sock, NEW id \in Sock,
         clientEnd[s] = "open", serverEnd[s] = "open" => closeHandler[s] = id
  PROVE  /\ serverEnd[s] = "open" => id \in Retained
         /\ toClient'[s] = IF serverEnd[s] = "open" /\ MatchesTarget(id, t)
                             THEN Append(toClient[s], PushedTo(id)) ELSE toClient[s]
<1>1. serverEnd[s] = "open" => id \in clients /\ connWs[id] = s
  BY SockFacts DEF IInv, HandlerInv
<1>2. CASE serverEnd[s] = "open" /\ MatchesTarget(id, t)
  BY <1>1, <1>2, PushFacts DEF Retained
<1>3. CASE ~(serverEnd[s] = "open" /\ MatchesTarget(id, t))
  <2>1. toClient'[s] = toClient[s]
    BY <1>3, PushFacts
  <2> QED
    BY <1>1, <1>3, <2>1 DEF Retained
<1> QED
  BY <1>2, <1>3

LEMMA PushChain ==
  ASSUME IInv, NetInv, SeenInv, RouteInv, Routed, ChainInv, NEW t \in Target, Push(t) PROVE ChainInv'
<1>1. /\ UNCHANGED <<ws, clientId, lastSeenSeq, pendingReconnect, serverEnd, known, notice>>
  BY DEF Push, clientVars
<1>2. /\ Len(published) \in Nat /\ Len(published') = Len(published) + 1
  <2>1. published \in Seq(SUBSET Window) /\ MeantFor(t) \in SUBSET Window /\ published' = Append(published, MeantFor(t))
    BY DEF Push, IInv, TypeOK, MeantFor
  <2> QED
    BY <2>1, AppendFacts
<1>3. ASSUME NEW w \in Window PROVE ChainConnected(w)' /\ ChainAcked(w)' /\ ChainResume(w)' /\ ToldOK(w)'
  <2>1. known[w] \in Nat /\ known[w] <= Len(published) /\ lastSeenSeq[w] \in Nat
    BY DEF IInv, TypeOK, ChainInv, ToldOK
  <2>2. ChainConnected(w)'
    <3> SUFFICES ASSUME Connected(w) PROVE ChainConnected(w)'
      BY <1>1 DEF ChainConnected, Connected
    <3>1. PICK id \in Sock, s \in Sock : id = clientId[w] /\ s = ws[w]
      BY WindowSocket DEF NetInv, ConnectedOK
    <3>2. /\ clientEnd[s] = "open" /\ (serverEnd[s] = "open" => closeHandler[s] = id) /\ connWindow[id] = w
      BY <3>1 DEF NetInv, ConnectedOK, SeenInv, SeenConnected, LinkOK
    <3>3. PICK q \in Seq(ToClientMsg) : q = toClient[s]
      BY DEF IInv, TypeOK
    <3>4. PICK q2, end : q2 = toClient'[s] /\ end = serverEnd[s]
      OBVIOUS
    <3>5. PICK seen \in Nat, k \in Nat : seen = lastSeenSeq[w] /\ k = known[w]
      BY <2>1
    <3>6. Chain(w, id, seen, k, q, 0, end)
      BY <3>1, <3>3, <3>4, <3>5 DEF ChainInv, ChainConnected
    <3>7. /\ end = "open" => id \in Retained
          /\ q2 = IF end = "open" /\ MatchesTarget(id, t) THEN Append(q, PushedTo(id)) ELSE q
      BY <3>2, <3>3, <3>4, PushedQueue
    <3>8. Chain(w, id, seen, k, q2, 0, end)'
      BY <2>1, <3>2, <3>5, <3>6, <3>7, ChainPush
    <3>9. /\ id = clientId'[w] /\ seen = lastSeenSeq'[w] /\ k = known'[w] /\ q2 = toClient'[ws'[w]]
          /\ end = serverEnd'[ws'[w]]
      BY <1>1, <3>1, <3>4, <3>5
    <3> QED
      BY <3>8, <3>9 DEF ChainConnected
  <2>3. ChainResume(w)'
    <3> SUFFICES ASSUME ~Connected(w), pendingReconnect[w].clientId # None PROVE ChainResume(w)'
      BY <1>1 DEF ChainResume, Connected
    <3>1. PICK id \in Sock, seen \in Nat : id = pendingReconnect[w].clientId /\ seen = pendingReconnect[w].lastSeq
      BY SockFacts DEF IInv, TypeOK, ReconnectInfo
    <3>2. PICK k \in Nat : k = known[w]
      BY <2>1
    <3>3. Chain(w, id, seen, k, <<>>, 0, "closed") /\ connWindow[id] = w
      BY <3>1, <3>2 DEF ChainInv, ChainResume, SeenInv, SeenResume, LinkOK
    <3>4. Chain(w, id, seen, k, <<>>, 0, "closed")'
      <4>0. PICK q \in Seq(ToClientMsg) : q = <<>>
        BY EmptySeq
      <4>1. PICK end : q = <<>> /\ end = "closed"
        BY <4>0
      <4>2. Chain(w, id, seen, k, q, 0, end) /\ end # "open" /\ k <= Len(published)
        BY <2>1, <3>2, <3>3, <4>1
      <4>3. Chain(w, id, seen, k, q, 0, end)'
        BY <3>3, <4>2, ChainPush
      <4> QED
        BY <4>1, <4>3
    <3>5. id = pendingReconnect'[w].clientId /\ seen = pendingReconnect'[w].lastSeq /\ k = known'[w]
      BY <1>1, <3>1, <3>2
    <3> QED
      BY <3>4, <3>5 DEF ChainResume
  <2>4. ASSUME AckWaits(w)
        PROVE  /\ Ack(w)' = Ack(w) /\ AckSeen(w)' = AckSeen(w) /\ KnownAfter(w)' = KnownAfter(w)
               /\ ChainAcked(w)'
    <3>1. PICK id \in Sock, s \in Sock : id = Ack(w).clientId /\ s = ws[w]
      BY <2>4, AckFacts
    <3>2. /\ clientEnd[s] = "open" /\ (serverEnd[s] = "open" => closeHandler[s] = id) /\ connWindow[id] = w
      BY <2>4, <3>1 DEF NetInv, SockOK, AckOK, AckWaits, SeenInv, SeenAcked, LinkOK
    <3>3. PICK q \in Seq(ToClientMsg) : q = toClient[s]
      BY DEF IInv, TypeOK
    <3>4. PICK q2, end : q2 = toClient'[s] /\ end = serverEnd[s]
      OBVIOUS
    <3>5. PICK seen \in Nat : seen = AckSeen(w)
      BY <2>1 DEF AckSeen
    <3>6. PICK k \in Nat : k = KnownAfter(w) /\ k <= Len(published)
      <4>1. Ack(w).upto \in Nat /\ Ack(w).upto <= Len(published)
        BY <2>4, AckFacts DEF ChainInv, ToldOK
      <4> QED
        BY <2>1, <4>1 DEF KnownAfter
    <3>7. Chain(w, id, seen, k, q, 1, end)
      BY <2>4, <3>1, <3>3, <3>4, <3>5, <3>6 DEF ChainInv, ChainAcked
    <3>8. /\ end = "open" => id \in Retained
          /\ q2 = IF end = "open" /\ MatchesTarget(id, t) THEN Append(q, PushedTo(id)) ELSE q
      BY <3>2, <3>3, <3>4, PushedQueue
    <3>9. Chain(w, id, seen, k, q2, 1, end)'
      BY <3>2, <3>6, <3>7, <3>8, ChainPush
    <3>10. q2[1] = q[1]
      <4>1. q # <<>>
        BY <2>4, <3>1, <3>3 DEF AckWaits
      <4>2. Len(q) \in Nat /\ Len(q) # 0 /\ PushedTo(id) \in ToClientMsg
        BY <4>1, EmptySeq, LenProperties, PushFacts
      <4>3. 1 \in 1..Len(q)
        BY <4>2
      <4>4. Append(q, PushedTo(id))[1] = q[1]
        BY <4>2, <4>3, AppendFacts
      <4> QED
        BY <3>8, <4>4
    <3>11. Ack(w)' = Ack(w) /\ AckSeen(w)' = AckSeen(w) /\ KnownAfter(w)' = KnownAfter(w)
      BY <1>1, <3>1, <3>3, <3>4, <3>10 DEF Ack, AckSeen, KnownAfter
    <3>12. /\ id = Ack(w)'.clientId /\ seen = AckSeen(w)' /\ k = KnownAfter(w)' /\ q2 = toClient'[ws'[w]]
           /\ end = serverEnd'[ws'[w]]
      BY <1>1, <3>1, <3>4, <3>5, <3>6, <3>11
    <3> QED
      BY <3>9, <3>11, <3>12 DEF ChainAcked
  <2>5. AckWaits(w)' => AckWaits(w)
    <3> SUFFICES ASSUME ~Connected(w), ws[w] # None, toClient[ws[w]] = <<>>, toClient'[ws[w]] # <<>> PROVE FALSE
      BY <1>1 DEF AckWaits, Connected
    <3>1. ws[w] \in Sock
      BY WindowSocket
    <3>2. serverEnd[ws[w]] = "open" /\ handshake[ws[w]] = "completed"
      BY <3>1, PushFacts
    <3> QED
      BY <3>2 DEF NetInv, ConnectingOK
  <2>6. ToldOK(w)'
    <3>1. known'[w] <= Len(published')
      BY <1>1, <1>2, <2>1
    <3>2. AckWaits(w)' => known'[w] <= Ack(w)'.upto /\ Ack(w)'.upto <= Len(published')
      <4> SUFFICES ASSUME AckWaits(w) PROVE known'[w] <= Ack(w)'.upto /\ Ack(w)'.upto <= Len(published')
        BY <2>5
      <4>1. known[w] <= Ack(w).upto /\ Ack(w).upto <= Len(published) /\ Ack(w).upto \in Nat
        BY AckFacts DEF ChainInv, ToldOK
      <4> QED
        BY <1>1, <1>2, <2>4, <4>1
    <3>3. ~Connected(w)' /\ pendingReconnect'[w] = NoReconnect => notice'[w] = "none"
      BY <1>1 DEF ChainInv, ToldOK, Connected
    <3> QED
      BY <3>1, <3>2, <3>3 DEF ToldOK
  <2>7. ChainAcked(w)'
    BY <2>4, <2>5 DEF ChainAcked
  <2> QED
    BY <2>2, <2>3, <2>6, <2>7
<1> QED
  BY <1>3 DEF ChainInv

\* No step breaks the invariant.
LEMMA StepChain ==
  ASSUME IInv, NetInv, SeenInv, RouteInv, Routed, ChainInv, [Next]_vars PROVE ChainInv'
<1>1. CASE UNCHANGED vars
  <2>1. /\ UNCHANGED <<ws, clientId, lastSeenSeq, pendingReconnect, toClient, known, notice>>
        /\ UNCHANGED <<serverVars, serverEnd, published>>
    BY <1>1 DEF vars, clientVars, netVars, historyVars
  <2> QED
    BY <2>1, ChainsSame, ChainFromServer
<1>2. CASE ServerNext
  BY <1>2, PushChain, EventsAgeChain, DisconnectedExpiresChain, RestartChain, OnConnectionChain,
     OnHandshakeChain, RejectHandshakeChain, CompleteReconnectChain, CompleteFreshChain,
     OnSequenceAckChain, OnSwitchWorkspaceChain, OnCloseChain DEF ServerNext
<1>3. CASE ClientNext
  <2>1. ASSUME NEW w \in Window, SendSequenceAck(w) PROVE ChainInv'
    BY <2>1, SendMessageChain DEF SendSequenceAck
  <2>2. ASSUME NEW w \in Window, NEW x \in Workspace, SwitchWorkspace(w, x) PROVE ChainInv'
    BY <2>2, SendMessageChain DEF SwitchWorkspace
  <2> QED
    BY <1>3, <2>1, <2>2, ConnectChain, OnOpenChain, OnHandshakeAckChain, OnEventChain, OnDisconnectChain
    DEF ClientNext
<1> QED
  BY <1>1, <1>2, <1>3 DEF Next

-----------------------------------------------------------------------------
(* The windows' channels implement EventStream *)

LEMMA PushPublishes ==
  ASSUME NEW t \in Target, Push(t) PROVE \E dest \in SUBSET Window : Stream!Publish(dest)
<1>1. MeantFor(t) \in SUBSET Window /\ published' = Append(published, MeantFor(t))
      /\ UNCHANGED <<known, notice>>
  BY DEF Push, MeantFor
<1> QED
  BY <1>1 DEF Stream!Publish

LEMMA AckTells ==
  ASSUME IInv, NetInv, ChainInv, NEW w \in Window, OnHandshakeAck(w)
  PROVE  Stream!Reload(w) \/ Stream!CaughtUp(w)
<1>1. /\ known[w] <= Ack(w).upto /\ Ack(w).upto <= Len(published) /\ AckWaits(w)
      /\ UNCHANGED published
      /\ \A v \in Window : v # w => known'[v] = known[v]
      /\ \/ known'[w] = Ack(w).upto /\ notice[w] = "none" /\ notice' = [notice EXCEPT ![w] = "first"]
         \/ known'[w] = Ack(w).upto /\ notice' = [notice EXCEPT ![w] = "stale"]
         \/ known' = known /\ notice' = [notice EXCEPT ![w] = "replayed"]
  BY AckTold
<1>2. PICK n \in Nat : n = Ack(w).upto
  BY <1>1, AckFacts
<1>3. known[w] \in Nat /\ Len(published) \in Nat /\ known \in [Window -> Nat]
  BY LenProperties DEF IInv, TypeOK
<1>4. n \in known[w]..Len(published)
  BY <1>1, <1>2, <1>3
<1>5. known'[w] = n => known' = [known EXCEPT ![w] = n]
  <2>1. \E f : known' = [known EXCEPT ![w] = f]
    BY DEF OnHandshakeAck
  <2> QED
    BY <1>3, <2>1
<1> QED
  BY <1>1, <1>2, <1>4, <1>5 DEF Stream!Reload, Stream!CaughtUp

LEMMA EventGives ==
  ASSUME IInv, NetInv, SeenInv, ChainInv, NEW w \in Window, OnEvent(w) PROVE Stream!Give(w)
<1>1. /\ known' = [known EXCEPT ![w] = toClient[ws[w]][1].ev] /\ notice' = [notice EXCEPT ![w] = "event"]
      /\ toClient[ws[w]][1].ev \in OwedAfter(w, known[w])
      /\ \A m \in OwedAfter(w, known[w]) : toClient[ws[w]][1].ev <= m
  BY EventGiven
<1>2. OwedAfter(w, known[w]) = Stream!Owed(w)
  BY DEF OwedAfter, Stream!Owed
<1>3. UNCHANGED published
  BY DEF OnEvent
<1> QED
  BY <1>1, <1>2, <1>3 DEF Stream!Give

\* Every step is one of EventStream, or changes nothing that it is about.
LEMMA StepStream ==
  ASSUME IInv, NetInv, SeenInv, ChainInv, [Next]_vars PROVE [Stream!StreamNext]_(Stream!streamVars)
<1>1. CASE UNCHANGED vars
  BY <1>1 DEF vars, historyVars, Stream!streamVars
<1>2. CASE ServerNext
  <2>1. ASSUME NEW t \in Target, Push(t) PROVE Stream!StreamNext
    BY <2>1, PushPublishes DEF Stream!StreamNext
  <2>2. CASE EventsAge \/ DisconnectedExpires \/ Restart
    BY <2>2 DEF EventsAge, DisconnectedExpires, Restart, historyVars, Stream!streamVars
  <2>3. ASSUME NEW s \in Sock,
               \/ OnConnection(s) \/ OnHandshake(s) \/ RejectHandshake(s)
               \/ CompleteReconnect(s) \/ CompleteFresh(s)
               \/ OnSequenceAck(s) \/ OnSwitchWorkspace(s) \/ OnClose(s)
        PROVE  UNCHANGED Stream!streamVars
    BY <2>3 DEF OnConnection, OnHandshake, RejectHandshake, CompleteReconnect, CompleteFresh,
       OnSequenceAck, OnSwitchWorkspace, OnClose, historyVars, Stream!streamVars
  <2> QED
    BY <1>2, <2>1, <2>2, <2>3 DEF ServerNext
<1>3. CASE ClientNext
  <2>1. ASSUME NEW w \in Window, OnHandshakeAck(w) \/ OnEvent(w) PROVE Stream!StreamNext
    BY <2>1, AckTells, EventGives DEF Stream!StreamNext
  <2>2. ASSUME NEW w \in Window, Connect(w) \/ OnOpen(w) \/ OnDisconnect(w)
        PROVE  UNCHANGED Stream!streamVars
    BY <2>2 DEF Connect, OnOpen, OnDisconnect, historyVars, Stream!streamVars
  <2>3. ASSUME NEW w \in Window, NEW msg, SendMessage(w, msg) PROVE UNCHANGED Stream!streamVars
    BY <2>3 DEF SendMessage, historyVars, Stream!streamVars
  <2>4. ASSUME NEW w \in Window, SendSequenceAck(w) \/ \E x \in Workspace : SwitchWorkspace(w, x)
        PROVE  UNCHANGED Stream!streamVars
    BY <2>3, <2>4 DEF SendSequenceAck, SwitchWorkspace
  <2> QED
    BY <1>3, <2>1, <2>2, <2>4 DEF ClientNext
<1> QED
  BY <1>1, <1>2, <1>3 DEF Next

\* If pushes are meant for all windows, or for those of a workspace and no window
\* switches, then through every crash, restart, eviction and reconnection a window
\* is given the events meant for it in order and once, or is told to reload before
\* it is given a later one: push, the replay buffer and the handshake implement it.
THEOREM StreamIsImplemented == ASSUME Routed PROVE Spec => StreamSpec
<1> DEFINE Inv == IInv /\ NetInv /\ SeenInv /\ RouteInv /\ ChainInv
<1>1. Init => Inv
  BY InitInv, InitNet, InitSeen, InitRoute, InitChain
<1>2. Inv /\ [Next]_vars => Inv'
  BY NextInv, StepNet, StepSeen, StepRoute, StepChain
<1>3. Init => Stream!StreamInit
  BY DEF Init, Stream!StreamInit
<1>4. Inv /\ [Next]_vars => [Stream!StreamNext]_(Stream!streamVars)
  BY StepStream
<1> QED
  BY <1>1, <1>2, <1>3, <1>4, PTL DEF Spec, StreamSpec, Stream!StreamSpec

-----------------------------------------------------------------------------
(* What a window is still owed is under way *)

\* Every event beyond k that is meant for the window is in the queue of its socket.
InQueue(w, k) ==
  \A n \in OwedAfter(w, k) : \E i \in 1..Len(toClient[ws[w]]) :
    toClient[ws[w]][i].type = "event" /\ toClient[ws[w]][i].ev = n

\* Every event that a window was not given and not told of is on its way to it, in the
\* queue of its socket, unless the server has seen the socket end: when it is connected,
\* and when the acknowledgement of its handshake is still under way, before the events.
OwedIsUnderWay ==
  \A w \in Window : ws[w] # None /\ serverEnd[ws[w]] = "open" =>
    /\ Connected(w) => InQueue(w, known[w])
    /\ AckWaits(w) => InQueue(w, KnownAfter(w))

\* If the server retains the client id, the queue holds, after what comes before the
\* events, all numbers up to the last, and all that is owed has one.
LEMMA ChainIsQueued ==
  ASSUME NEW w \in Window, NEW id \in Retained, NEW seen \in Nat, NEW k, NEW q, Len(q) \in Nat,
         NEW off \in Nat, Chain(w, id, seen, k, q, off, "open"), NEW n \in OwedAfter(w, k)
  PROVE  \E i \in 1..Len(q) : i > off /\ q[i].ev = n
<1>1. PICK base \in Nat, last \in Nat, e \in [Nat -> Nat] :
        /\ Queued(e, base, last, q, off)
        /\ AllNumbered(e, base, last, OwedAfter(w, k))
        /\ last + off = base + Len(q)
  BY DEF Chain
<1>2. PICK y \in (base + 1)..last : e[y] = n
  BY <1>1 DEF AllNumbered
<1> DEFINE i == y + off - base
<1>3. y \in Nat /\ i \in 1..Len(q) /\ i > off /\ y + off = base + i
  BY <1>1, <1>2
<1> HIDE DEF i
<1>4. q[i].ev = e[y]
  BY <1>1, <1>3 DEF Queued
<1> QED
  BY <1>2, <1>3, <1>4

\* With the pushes of StreamIsImplemented, nothing a window is owed is lost while it has
\* its socket: it need only read it to be given every event meant for it, or to be told
\* to reload. This is the safety half of EventuallyInformed.
THEOREM NothingOwedIsLost == ASSUME Routed PROVE Spec => []OwedIsUnderWay
<1> DEFINE Inv == IInv /\ NetInv /\ SeenInv /\ RouteInv /\ ChainInv
<1>1. Init => Inv
  BY InitInv, InitNet, InitSeen, InitRoute, InitChain
<1>2. Inv /\ [Next]_vars => Inv'
  BY NextInv, StepNet, StepSeen, StepRoute, StepChain
<1>3. Inv => OwedIsUnderWay
  <2> SUFFICES ASSUME Inv, NEW w \in Window, ws[w] # None, serverEnd[ws[w]] = "open"
               PROVE  (Connected(w) => InQueue(w, known[w])) /\ (AckWaits(w) => InQueue(w, KnownAfter(w)))
    BY DEF OwedIsUnderWay
  <2>1. ws[w] \in Sock
    BY WindowSocket
  <2>2. Len(toClient[ws[w]]) \in Nat /\ toClient[ws[w]] \in Seq(ToClientMsg)
    BY <2>1, LenProperties DEF IInv, TypeOK
  <2>3. closeHandler[ws[w]] # None => closeHandler[ws[w]] \in Retained
    BY <2>1 DEF IInv, HandlerInv, Retained
  <2>4. CASE Connected(w)
    <3>1. clientId[w] \in Retained
      BY <2>1, <2>3, <2>4 DEF NetInv, ConnectedOK, Connected
    <3>2. lastSeenSeq[w] \in Nat
      BY DEF IInv, TypeOK
    <3>3. Chain(w, clientId[w], lastSeenSeq[w], known[w], toClient[ws[w]], 0, "open")
      BY <2>4 DEF ChainInv, ChainConnected
    <3>4. \A i \in 1..Len(toClient[ws[w]]) : toClient[ws[w]][i].type = "event"
      BY <2>4 DEF NetInv, ConnectedOK
    <3>5. InQueue(w, known[w])
      BY <2>2, <3>1, <3>2, <3>3, <3>4, ChainIsQueued DEF InQueue
    <3> QED
      BY <2>4, <3>5 DEF AckWaits
  <2>5. CASE AckWaits(w)
    <3>1. Ack(w).type = "handshake_ack" /\ closeHandler[ws[w]] = Ack(w).clientId
      BY <2>5 DEF NetInv, AckOK
    <3>2. \A i \in 2..Len(toClient[ws[w]]) : toClient[ws[w]][i].type = "event"
      BY <2>5 DEF NetInv, AckOK
    <3>3. Ack(w).clientId \in Sock
      BY <2>5, AckFacts
    <3>4. Ack(w).clientId \in Retained
      BY <2>3, <3>1, <3>3, SockFacts
    <3>5. AckSeen(w) \in Nat
      BY DEF IInv, TypeOK, AckSeen
    <3>6. Chain(w, Ack(w).clientId, AckSeen(w), KnownAfter(w), toClient[ws[w]], 1, "open")
      BY <2>5 DEF ChainInv, ChainAcked
    <3>7. ASSUME NEW n \in OwedAfter(w, KnownAfter(w))
          PROVE  \E i \in 1..Len(toClient[ws[w]]) : i > 1 /\ toClient[ws[w]][i].ev = n
      BY <2>2, <3>4, <3>5, <3>6, ChainIsQueued
    <3>8. \A i \in 1..Len(toClient[ws[w]]) : i > 1 => i \in 2..Len(toClient[ws[w]])
      BY <2>2
    <3>9. InQueue(w, KnownAfter(w))
      BY <3>2, <3>7, <3>8 DEF InQueue
    <3> QED
      BY <2>5, <3>9 DEF AckWaits
  <2> QED
    BY <2>4, <2>5
<1> QED
  BY <1>1, <1>2, <1>3, PTL DEF Spec
=============================================================================
