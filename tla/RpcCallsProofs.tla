--------------------------- MODULE RpcCallsProofs ---------------------------
(***************************************************************************)
(* Proofs about RpcCalls, for any number of calls in both directions, of   *)
(* sockets, reconnections and restarts: types, that no call is stranded,   *)
(* that a client has one connection, and that both directions keep the     *)
(* promise of RemoteCall.                                                  *)
(***************************************************************************)
EXTENDS RpcCalls, SequenceTheorems, FiniteSetTheorems, TLAPS

-----------------------------------------------------------------------------
(* The queues of the sockets *)

\* The message m is under way, as the i-th on the socket s.
At(queue, s, i, m) == i \in 1..Len(queue[s]) /\ queue[s][i] = m
Carries(queue, m) == \E s \in Sock, i \in Nat : At(queue, s, i, m)

\* So is a request for the call c.
Asks(queue, s, i, c) ==
  i \in 1..Len(queue[s]) /\ queue[s][i].type = "request" /\ queue[s][i].id = c

\* No request for it is under way; no two requests under way are for the same call.
Unasked(queue, c) == \A s \in Sock, i \in Nat : ~Asks(queue, s, i, c)
RequestsOnce(queue) ==
  \A s, t \in Sock, i, j \in Nat :
    \A c : Asks(queue, s, i, c) /\ Asks(queue, t, j, c) => s = t /\ i = j

\* A queue without its first message, and one with messages added.
Taken(queue, s) == [queue EXCEPT ![s] = Tail(@)]
Put(queue, s, msgs) == [queue EXCEPT ![s] = @ \o msgs]

\* A sequence of one message.
LEMMA Singleton ==
  ASSUME NEW m PROVE Len(<<m>>) = 1 /\ \A k \in 1..Len(<<m>>) : k = 1 /\ <<m>>[k] = m
OBVIOUS

\* What is under way is of the queue's type.
LEMMA CarriedType ==
  ASSUME NEW M, NEW Q \in [Sock -> Seq(M)], NEW m, Carries(Q, m)
  PROVE  m \in M
BY ElementOfSeq DEF Carries, At

\* The first message of a queue is taken.
LEMMA TakeFirst ==
  ASSUME NEW M, NEW Q \in [Sock -> Seq(M)], NEW s \in Sock, Q[s] # <<>>
  PROVE  /\ Taken(Q, s) \in [Sock -> Seq(M)]
         /\ Head(Q[s]) \in M /\ Carries(Q, Head(Q[s]))
         /\ \A m : Carries(Taken(Q, s), m) => Carries(Q, m)
         /\ RequestsOnce(Q) => RequestsOnce(Taken(Q, s))
         /\ RequestsOnce(Q) /\ Head(Q[s]).type = "request" => Unasked(Taken(Q, s), Head(Q[s]).id)
<1> DEFINE P == Taken(Q, s)
<1>1. Q[s] \in Seq(M) /\ Len(Q[s]) \in Nat \ {0}
  BY EmptySeq
<1>2. /\ Head(Q[s]) \in M /\ Tail(Q[s]) \in Seq(M) /\ Len(Tail(Q[s])) = Len(Q[s]) - 1
      /\ \A i \in 1..(Len(Q[s]) - 1) : Tail(Q[s])[i] = Q[s][i + 1]
  BY <1>1, HeadTailProperties
<1>3. Head(Q[s]) = Q[s][1] /\ 1 \in 1..Len(Q[s])
  BY <1>1
<1>4. P \in [Sock -> Seq(M)] /\ P[s] = Tail(Q[s]) /\ \A t \in Sock : t # s => P[t] = Q[t]
  BY <1>2 DEF Taken
<1> HIDE DEF P
\* Where each message that is left was before.
<1> DEFINE Was(t, i) == IF t = s THEN i + 1 ELSE i
<1>5. ASSUME NEW t \in Sock, NEW i \in Nat, i \in 1..Len(P[t])
      PROVE  /\ Was(t, i) \in 1..Len(Q[t]) /\ Was(t, i) \in Nat
             /\ P[t][i] = Q[t][Was(t, i)]
             /\ t = s => Was(t, i) # 1
  <2>1. CASE t = s
    <3>1. \A k \in 1..(Len(Q[s]) - 1) : k + 1 \in 1..Len(Q[s]) /\ k + 1 # 1 /\ k + 1 \in Nat
      BY <1>1
    <3>2. i \in 1..(Len(Q[s]) - 1)
      BY <1>2, <1>4, <1>5, <2>1
    <3> QED
      BY <1>2, <1>4, <2>1, <3>1, <3>2
  <2>2. CASE t # s
    BY <1>4, <1>5, <2>2
  <2> QED
    BY <2>1, <2>2
<1>6. \A t \in Sock, i, j \in Nat : Was(t, i) = Was(t, j) => i = j
  OBVIOUS
<1> HIDE DEF Was
<1>7. Carries(Q, Head(Q[s]))
  BY <1>3 DEF Carries, At
<1>8. ASSUME NEW m, Carries(P, m) PROVE Carries(Q, m)
  BY <1>5, <1>8 DEF Carries, At
<1>9. ASSUME NEW t \in Sock, NEW i \in Nat, NEW c, Asks(P, t, i, c)
      PROVE  Asks(Q, t, Was(t, i), c) /\ Was(t, i) \in Nat
  BY <1>5, <1>9 DEF Asks
<1>10. ASSUME RequestsOnce(Q) PROVE RequestsOnce(P)
  BY <1>6, <1>9, <1>10 DEF RequestsOnce
<1>11. ASSUME RequestsOnce(Q), Head(Q[s]).type = "request" PROVE Unasked(P, Head(Q[s]).id)
  <2>1. Asks(Q, s, 1, Head(Q[s]).id)
    BY <1>3, <1>11 DEF Asks
  <2>2. \A i \in Nat : Asks(P, s, i, Head(Q[s]).id) => Was(s, i) # 1
    BY <1>5 DEF Asks
  <2>3. ASSUME NEW t \in Sock, NEW i \in Nat, Asks(P, t, i, Head(Q[s]).id) PROVE FALSE
    <3>1. Asks(Q, t, Was(t, i), Head(Q[s]).id) /\ Was(t, i) \in Nat
      BY <1>9, <2>3
    <3>2. t = s /\ Was(t, i) = 1
      BY <1>11, <2>1, <3>1 DEF RequestsOnce
    <3> QED
      BY <2>2, <2>3, <3>2
  <2> QED
    BY <2>3 DEF Unasked
<1> QED
  BY <1>2, <1>4, <1>7, <1>8, <1>10, <1>11 DEF P

\* Queues are kept, emptied, or a message other than a request is added to them.
LEMMA NoRequestAdded ==
  ASSUME NEW M, NEW Q \in [Sock -> Seq(M)], NEW m \in M, m.type # "request",
         NEW P \in [Sock -> Seq(M)],
         \A t \in Sock : \/ P[t] = <<>> \/ P[t] = Q[t]
                         \/ P[t] = Append(Q[t], m) \/ P[t] = <<m>>
  PROVE  /\ \A x : Carries(P, x) => Carries(Q, x) \/ x = m
         /\ RequestsOnce(Q) => RequestsOnce(P)
<1>1. ASSUME NEW t \in Sock, NEW i \in Nat, i \in 1..Len(P[t])
      PROVE  P[t][i] = m \/ (i \in 1..Len(Q[t]) /\ P[t][i] = Q[t][i])
  <2>1. Q[t] \in Seq(M) /\ Len(Q[t]) \in Nat
    BY LenProperties
  <2>2. CASE P[t] = <<>> \/ P[t] = Q[t]
    BY <1>1, <2>2
  <2>3. CASE P[t] = Append(Q[t], m)
    <3>1. /\ Len(P[t]) = Len(Q[t]) + 1 /\ P[t][Len(Q[t]) + 1] = m
          /\ \A k \in 1..Len(Q[t]) : P[t][k] = Q[t][k]
      BY <2>1, <2>3, AppendProperties
    <3>2. i \in 1..Len(Q[t]) \/ i = Len(Q[t]) + 1
      BY <1>1, <2>1, <3>1
    <3> QED
      BY <3>1, <3>2
  <2>4. CASE P[t] = <<m>>
    <3>1. \A k \in 1..Len(P[t]) : P[t][k] = m
      BY <2>4, Singleton, Zenon
    <3> QED
      BY <1>1, <3>1
  <2> QED
    BY <2>2, <2>3, <2>4
<1>2. \A x : Carries(P, x) => Carries(Q, x) \/ x = m
  BY <1>1 DEF Carries, At
<1>3. ASSUME NEW t \in Sock, NEW i \in Nat, NEW c, Asks(P, t, i, c) PROVE Asks(Q, t, i, c)
  BY <1>1, <1>3 DEF Asks
<1>4. RequestsOnce(Q) => RequestsOnce(P)
  BY <1>3 DEF RequestsOnce
<1> QED
  BY <1>2, <1>4

\* Messages are added to a queue; those that are requests are for calls that have none.
LEMMA Added ==
  ASSUME NEW M, NEW Q \in [Sock -> Seq(M)], NEW s, NEW msgs \in Seq(M)
  PROVE  /\ Put(Q, s, msgs) \in [Sock -> Seq(M)]
         /\ \A m : Carries(Put(Q, s, msgs), m) => Carries(Q, m) \/ \E i \in 1..Len(msgs) : m = msgs[i]
         /\ (/\ RequestsOnce(Q)
             /\ \A i \in 1..Len(msgs) : msgs[i].type = "request" => Unasked(Q, msgs[i].id)
             /\ \A i, j \in 1..Len(msgs) :
                  msgs[i].type = "request" /\ msgs[j].type = "request" /\ msgs[i].id = msgs[j].id
                  => i = j)
            => RequestsOnce(Put(Q, s, msgs))
<1>1. CASE s \notin Sock
  <2>1. Put(Q, s, msgs) = Q
    BY <1>1 DEF Put
  <2> QED
    BY <2>1
<1>2. CASE s \in Sock
  <2>1. Q[s] \in Seq(M) /\ Len(Q[s]) \in Nat /\ Len(msgs) \in Nat
    BY <1>2, LenProperties
  <2>2. /\ Q[s] \o msgs \in Seq(M)
        /\ Len(Q[s] \o msgs) = Len(Q[s]) + Len(msgs)
        /\ \A i \in 1..(Len(Q[s]) + Len(msgs)) : (Q[s] \o msgs)[i] =
             IF i <= Len(Q[s]) THEN Q[s][i] ELSE msgs[i - Len(Q[s])]
    BY <2>1, ConcatProperties
  <2> DEFINE P == Put(Q, s, msgs)
  <2>3. P \in [Sock -> Seq(M)] /\ P[s] = Q[s] \o msgs /\ \A t \in Sock : t # s => P[t] = Q[t]
    BY <1>2, <2>2 DEF Put
  <2> HIDE DEF P
  \* The message is one of those added, and which.
  <2> DEFINE New(t, i) == t = s /\ i > Len(Q[s])
             Nth(i) == i - Len(Q[s])
  <2>4. ASSUME NEW t \in Sock, NEW i \in Nat, i \in 1..Len(P[t])
        PROVE  /\ ~New(t, i) => i \in 1..Len(Q[t]) /\ P[t][i] = Q[t][i]
               /\ New(t, i) => t = s /\ Nth(i) \in 1..Len(msgs) /\ P[t][i] = msgs[Nth(i)]
    <3>1. CASE t = s
      <4>1. i \in 1..(Len(Q[s]) + Len(msgs))
        BY <2>2, <2>3, <2>4, <3>1
      <4>2. i <= Len(Q[s]) => i \in 1..Len(Q[s])
        BY <2>1, <4>1
      <4>3. i > Len(Q[s]) => i - Len(Q[s]) \in 1..Len(msgs) /\ ~(i <= Len(Q[s]))
        BY <2>1, <4>1
      <4>4. ~(i > Len(Q[s])) => i <= Len(Q[s])
        BY <2>1, <4>1
      <4> QED
        BY <2>2, <2>3, <3>1, <4>1, <4>2, <4>3, <4>4
    <3>2. CASE t # s
      BY <2>3, <2>4, <3>2
    <3> QED
      BY <3>1, <3>2
  <2>5. \A i, j \in Nat : Nth(i) = Nth(j) => i = j
    BY <2>1
  <2> HIDE DEF New, Nth
  <2>6. ASSUME NEW m, Carries(P, m)
        PROVE  Carries(Q, m) \/ \E i \in 1..Len(msgs) : m = msgs[i]
    BY <2>4, <2>6 DEF Carries, At
  <2>7. ASSUME NEW t \in Sock, NEW i \in Nat, NEW c, Asks(P, t, i, c)
        PROVE  /\ ~New(t, i) => Asks(Q, t, i, c)
               /\ New(t, i) => /\ t = s /\ Nth(i) \in 1..Len(msgs)
                               /\ msgs[Nth(i)].type = "request" /\ msgs[Nth(i)].id = c
    BY <2>4, <2>7 DEF Asks
  <2>8. ASSUME RequestsOnce(Q),
               \A i \in 1..Len(msgs) : msgs[i].type = "request" => Unasked(Q, msgs[i].id),
               \A i, j \in 1..Len(msgs) :
                 msgs[i].type = "request" /\ msgs[j].type = "request" /\ msgs[i].id = msgs[j].id
                 => i = j
        PROVE  RequestsOnce(P)
    <3>1. ASSUME NEW t \in Sock, NEW u \in Sock, NEW i \in Nat, NEW j \in Nat, NEW c,
                 Asks(P, t, i, c), Asks(P, u, j, c)
          PROVE  t = u /\ i = j
      <4>1. CASE New(t, i) /\ New(u, j)
        BY <2>5, <2>7, <2>8, <3>1, <4>1
      <4>2. CASE ~New(t, i) /\ ~New(u, j)
        <5>1. Asks(Q, t, i, c) /\ Asks(Q, u, j, c)
          BY <2>7, <3>1, <4>2
        <5> QED
          BY <2>8, <5>1 DEF RequestsOnce
      <4>3. ASSUME NEW v \in Sock, NEW k \in Nat, NEW w \in Sock, NEW l \in Nat,
                   Asks(P, v, k, c), Asks(P, w, l, c), New(v, k), ~New(w, l)
            PROVE  FALSE
        <5>1. Unasked(Q, c)
          <6>1. Nth(k) \in 1..Len(msgs) /\ msgs[Nth(k)].type = "request" /\ msgs[Nth(k)].id = c
            BY <2>7, <4>3
          <6> QED
            BY <2>8, <6>1
        <5> QED
          BY <2>7, <4>3, <5>1 DEF Unasked
      <4> QED
        BY <3>1, <4>1, <4>2, <4>3
    <3> QED
      BY <3>1 DEF RequestsOnce
  <2> QED
    BY <2>3, <2>6, <2>8 DEF P
<1> QED
  BY <1>1, <1>2

\* One message is added.
LEMMA AddedOne ==
  ASSUME NEW M, NEW Q \in [Sock -> Seq(M)], NEW s, NEW m \in M
  PROVE  /\ Put(Q, s, <<m>>) \in [Sock -> Seq(M)]
         /\ \A x : Carries(Put(Q, s, <<m>>), x) => Carries(Q, x) \/ x = m
         /\ RequestsOnce(Q) /\ (m.type = "request" => Unasked(Q, m.id))
            => RequestsOnce(Put(Q, s, <<m>>))
<1> DEFINE msgs == <<m>>
<1>1. msgs \in Seq(M) /\ \A i \in 1..Len(msgs) : i = 1 /\ msgs[i] = m
  BY Singleton
<1> HIDE DEF msgs
<1>2. /\ Put(Q, s, msgs) \in [Sock -> Seq(M)]
      /\ \A x : Carries(Put(Q, s, msgs), x) => Carries(Q, x) \/ \E i \in 1..Len(msgs) : x = msgs[i]
      /\ (/\ RequestsOnce(Q)
          /\ \A i \in 1..Len(msgs) : msgs[i].type = "request" => Unasked(Q, msgs[i].id)
          /\ \A i, j \in 1..Len(msgs) :
               msgs[i].type = "request" /\ msgs[j].type = "request" /\ msgs[i].id = msgs[j].id
               => i = j)
         => RequestsOnce(Put(Q, s, msgs))
  BY <1>1, Added
<1>3. /\ Put(Q, s, msgs) \in [Sock -> Seq(M)]
      /\ \A x : Carries(Put(Q, s, msgs), x) => Carries(Q, x) \/ x = m
      /\ RequestsOnce(Q) /\ (m.type = "request" => Unasked(Q, m.id))
         => RequestsOnce(Put(Q, s, msgs))
  BY <1>1, <1>2
<1> QED
  BY <1>3 DEF msgs

-----------------------------------------------------------------------------
(* The messages of RpcCalls *)

\* None is no socket, and a socket has a place after it.
LEMMA SockFacts ==
  /\ \A s \in Sock : s # None /\ s \in SockOrNone /\ s \in Nat
  /\ \A s \in SockOrNone : s # None => s \in Sock
  /\ None \in SockOrNone
  /\ \A n \in 1..(MaxSock + 1) : n <= MaxSock => n \in Sock /\ n + 1 \in 1..(MaxSock + 1)
BY RpcBounds DEF Sock, SockOrNone, None

\* What goes to the server.
LEMMA ServerMsgFacts ==
  /\ \A m \in ToServerMsg :
       /\ m.type = "request" => m.id \in Call
       /\ m.type = "response" => m.id \in Invoke /\ m.ok \in BOOLEAN
  /\ \A c : [type |-> "request", id |-> c].type = "request"
  /\ \A c : [type |-> "request", id |-> c].id = c
  /\ \A r, ok : /\ [type |-> "response", id |-> r, ok |-> ok].type = "response"
                /\ [type |-> "response", id |-> r, ok |-> ok].id = r
                /\ [type |-> "response", id |-> r, ok |-> ok].ok = ok
  /\ [type |-> "handshake"] \in ToServerMsg /\ [type |-> "handshake"].type = "handshake"
  /\ \A c \in Call : [type |-> "request", id |-> c] \in ToServerMsg
  /\ \A r \in Invoke, ok \in BOOLEAN : [type |-> "response", id |-> r, ok |-> ok] \in ToServerMsg
BY DEF ToServerMsg, HandshakeMsg, RequestMsg, ResponseMsg

\* What goes to the client.
LEMMA ClientMsgFacts ==
  /\ \A m \in ToClientMsg :
       /\ m.type = "request" => m.id \in Invoke
       /\ m.type = "response" => m.id \in Call /\ m.ok \in BOOLEAN
  /\ \A t \in {"handshake_ack", "error", "shuttingDown"} :
       [type |-> t] \in ToClientMsg /\ [type |-> t].type = t
  /\ \A r \in Invoke : [type |-> "request", id |-> r] \in ToClientMsg
  /\ \A c \in Call, ok \in BOOLEAN : [type |-> "response", id |-> c, ok |-> ok] \in ToClientMsg
BY DEF ToClientMsg, NoticeMsg, RequestMsg, ResponseMsg

\* From one state of a queue to the next: nothing is added, or the message m at most.
Keeps(queue, next) ==
  /\ \A x : Carries(next, x) => Carries(queue, x)
  /\ RequestsOnce(queue) => RequestsOnce(next)
Adds(queue, next, m) ==
  /\ \A x : Carries(next, x) => Carries(queue, x) \/ x = m
  /\ RequestsOnce(queue) /\ (m.type = "request" => Unasked(queue, m.id)) => RequestsOnce(next)

ServerQueues == [Sock -> Seq(ToServerMsg)]
ClientQueues == [Sock -> Seq(ToClientMsg)]

\* A queue that stays as it is.
LEMMA KeepsSame == \A Q : Keeps(Q, Q)
BY DEF Keeps

\* Queues that are emptied or kept.
LEMMA KeepsEmptied ==
  ASSUME NEW M, NEW Q \in [Sock -> Seq(M)], NEW m \in M, m.type # "request",
         NEW P, P \in [Sock -> Seq(M)], \A t \in Sock : P[t] = <<>> \/ P[t] = Q[t]
  PROVE  Keeps(Q, P)
<1>1. RequestsOnce(Q) => RequestsOnce(P)
  <2>1. /\ P \in [Sock -> Seq(M)]
        /\ \A t \in Sock : \/ P[t] = <<>> \/ P[t] = Q[t]
                           \/ P[t] = Append(Q[t], m) \/ P[t] = <<m>>
    OBVIOUS
  <2> QED
    BY <2>1, NoRequestAdded, Zenon
<1>2. ASSUME NEW x, Carries(P, x) PROVE Carries(Q, x)
  <2>1. PICK s \in Sock, i \in Nat : At(P, s, i, x)
    BY <1>2 DEF Carries
  <2>2. P[s] # <<>>
    <3>1. Len(<<>>) = 0 /\ \A k \in Nat : k \notin 1..0
      OBVIOUS
    <3> QED
      BY <2>1, <3>1 DEF At
  <2> QED
    BY <2>1, <2>2 DEF Carries, At
<1> QED
  BY <1>1, <1>2 DEF Keeps

\* The client's side sends a message.
LEMMA SentFacts ==
  ASSUME toServer \in ServerQueues, NEW s, NEW m \in ToServerMsg
  PROVE  Sent(s, m) \in ServerQueues /\ Adds(toServer, Sent(s, m), m)
<1>1. toServer \in [Sock -> Seq(ToServerMsg)]
  BY DEF ServerQueues
<1>2. Sent(s, m) = toServer \/ Sent(s, m) = Put(toServer, s, <<m>>)
  <2>1. s \in Sock => Append(toServer[s], m) = toServer[s] \o <<m>>
    BY <1>1, AppendIsConcat
  <2> QED
    BY <1>1, <2>1 DEF Sent, Put
<1>3. Put(toServer, s, <<m>>) \in ServerQueues /\ Adds(toServer, Put(toServer, s, <<m>>), m)
  BY <1>1, AddedOne DEF ServerQueues, Adds
<1>4. Adds(toServer, toServer, m)
  BY DEF Adds
<1> QED
  BY <1>1, <1>2, <1>3, <1>4 DEF ServerQueues

\* The server sends a message.
LEMMA SafeSendFacts ==
  ASSUME toClient \in ClientQueues, NEW s, NEW m \in ToClientMsg
  PROVE  SafeSend(s, <<m>>) \in ClientQueues /\ Adds(toClient, SafeSend(s, <<m>>), m)
<1>1. toClient \in [Sock -> Seq(ToClientMsg)]
  BY DEF ClientQueues
<1>2. SafeSend(s, <<m>>) = toClient \/ SafeSend(s, <<m>>) = Put(toClient, s, <<m>>)
  BY DEF SafeSend, Put
<1>3. Put(toClient, s, <<m>>) \in ClientQueues /\ Adds(toClient, Put(toClient, s, <<m>>), m)
  BY <1>1, AddedOne DEF ClientQueues, Adds
<1>4. Adds(toClient, toClient, m)
  BY DEF Adds
<1> QED
  BY <1>1, <1>2, <1>3, <1>4 DEF ClientQueues

\* The client receives a message.
LEMMA ReceiveFacts ==
  ASSUME toClient \in ClientQueues, ws \in SockOrNone, NEW type, Receive(type)
  PROVE  /\ ws \in Sock /\ toClient' \in ClientQueues
         /\ Head(toClient[ws]) \in ToClientMsg /\ Head(toClient[ws]).type = type
         /\ Carries(toClient, Head(toClient[ws]))
         /\ Keeps(toClient, toClient')
         /\ RequestsOnce(toClient) /\ type = "request" => Unasked(toClient', Head(toClient[ws]).id)
<1>1. toClient \in [Sock -> Seq(ToClientMsg)]
  BY DEF ClientQueues
<1>2. /\ ws \in Sock /\ toClient[ws] # <<>> /\ Head(toClient[ws]).type = type
      /\ toClient' = Taken(toClient, ws)
  BY SockFacts DEF Receive, Taken
<1> QED
  BY <1>1, <1>2, TakeFirst DEF ClientQueues, Keeps

\* The server receives a message.
LEMMA ReceivedFacts ==
  ASSUME toServer \in ServerQueues, NEW s \in Sock, NEW type, Received(s, type)
  PROVE  /\ toServer' \in ServerQueues
         /\ Head(toServer[s]) \in ToServerMsg /\ Head(toServer[s]).type = type
         /\ Carries(toServer, Head(toServer[s]))
         /\ Keeps(toServer, toServer')
         /\ RequestsOnce(toServer) /\ type = "request" => Unasked(toServer', Head(toServer[s]).id)
<1>1. toServer \in [Sock -> Seq(ToServerMsg)]
  BY DEF ServerQueues
<1>2. /\ toServer[s] # <<>> /\ Head(toServer[s]).type = type
      /\ toServer' = Taken(toServer, s)
  BY DEF Received, Taken
<1> QED
  BY <1>1, <1>2, TakeFirst DEF ServerQueues, Keeps

\* The client's end of a socket closes, and what was sent to it is lost.
LEMMA ClientQueueEmptied ==
  ASSUME toClient \in ClientQueues, NEW x, NEW P,
         P = [s \in Sock |-> IF s = x THEN <<>> ELSE toClient[s]]
  PROVE  P \in ClientQueues /\ Keeps(toClient, P)
<1>1. toClient \in [Sock -> Seq(ToClientMsg)] /\ <<>> \in Seq(ToClientMsg)
  BY DEF ClientQueues
<1>2. P \in [Sock -> Seq(ToClientMsg)] /\ \A t \in Sock : P[t] = <<>> \/ P[t] = toClient[t]
  BY <1>1
<1>3. [type |-> "error"] \in ToClientMsg /\ [type |-> "error"].type # "request"
  BY ClientMsgFacts
<1> QED
  BY <1>1, <1>2, <1>3, KeepsEmptied DEF ClientQueues

\* The server's end of sockets closes.
LEMMA ServerQueueEmptied ==
  ASSUME toServer \in ServerQueues, NEW P, P \in ServerQueues,
         \A t \in Sock : P[t] = <<>> \/ P[t] = toServer[t]
  PROVE  Keeps(toServer, P)
<1>1. [type |-> "handshake"] \in ToServerMsg /\ [type |-> "handshake"].type # "request"
  BY ServerMsgFacts
<1> QED
  BY <1>1, KeepsEmptied DEF ServerQueues
-----------------------------------------------------------------------------
(* Types *)

\* The types of everything but the queues.
RestTypeOK ==
  /\ ws \in SockOrNone /\ connected \in BOOLEAN
  /\ readyPromise \in SockOrNone
  /\ connectTimer \in BOOLEAN /\ reconnectTimer \in BOOLEAN
  /\ manualReconnectRequested \in BOOLEAN
  /\ permanentlyClosed \in BOOLEAN /\ destroyed \in BOOLEAN
  /\ call \in [Call -> Where] /\ waits \in [Call -> SockOrNone]
  /\ capability \in [Invoke -> {"none", "running", "done"}]
  /\ clients \in SUBSET Sock /\ disconnectedClients \in SUBSET Sock
  /\ connWs \in [Sock -> SockOrNone] /\ closeHandler \in [Sock -> SockOrNone]
  /\ handler \in [Call -> {"none", "running", "late", "done", "lost"}]
  /\ handlerClient \in [Call -> SockOrNone]
  /\ invoke \in [Invoke -> Where \ {"awaiting"}] /\ invokeTo \in [Invoke -> SockOrNone]
  /\ nextSock \in 1..(MaxSock + 1)
  /\ clientEnd \in [Sock -> {"none", "connecting", "open", "closing", "closed"}]
  /\ serverEnd \in [Sock -> {"none", "open", "closed"}]
  /\ stopping \in BOOLEAN /\ manual \in Nat /\ restarts \in Nat

LEMMA TypeParts ==
  RpcTypeOK <=> RestTypeOK /\ toServer \in ServerQueues /\ toClient \in ClientQueues
BY DEF RpcTypeOK, RestTypeOK, ServerQueues, ClientQueues

\* connect() keeps the types, and adds nothing to a queue.
LEMMA ConnectTypes ==
  ASSUME RpcTypeOK, Connect
  PROVE  /\ readyPromise' \in SockOrNone /\ ws' \in SockOrNone /\ connectTimer' \in BOOLEAN
         /\ nextSock' \in 1..(MaxSock + 1)
         /\ clientEnd' \in [Sock -> {"none", "connecting", "open", "closing", "closed"}]
         /\ toClient' \in ClientQueues /\ Keeps(toClient, toClient')
<1>1. toClient' \in ClientQueues /\ Keeps(toClient, toClient')
  BY ClientQueueEmptied, TypeParts DEF Connect
<1>2. nextSock \in Sock /\ nextSock + 1 \in 1..(MaxSock + 1)
  BY SockFacts DEF RpcTypeOK, Connect
<1> QED
  BY <1>1, <1>2, SockFacts DEF RpcTypeOK, Connect

\* Calls that are rejected.
LEMMA SettleTypes ==
  ASSUME RestTypeOK
  PROVE  \A S : /\ Rejected(S) \in [Call -> Where]
               /\ Forget(S) \in [Call -> SockOrNone]
BY SockFacts DEF RestTypeOK, Rejected, Forget, Where

\* The waiting calls send their requests, in whatever order.
LEMMA AckQueue ==
  ASSUME RpcTypeOK, OnHandshakeAck
  PROVE  LET W == WaitingFor(readyPromise)
         IN /\ toServer' \in ServerQueues
            /\ \A x : Carries(toServer', x) =>
                 \/ Carries(toServer, x)
                 \/ CanSend(ws) /\ \E c \in W : x = [type |-> "request", id |-> c]
            /\ RequestsOnce(toServer) /\ (\A c \in W : Unasked(toServer, c))
               => RequestsOnce(toServer')
<1> DEFINE W == WaitingFor(readyPromise)
           n == Cardinality(W)
<1>1. n \in Nat /\ W \subseteq Call
  <2>1. IsFiniteSet(Call) /\ W \subseteq Call
    BY RpcBounds, FS_Interval DEF Call, WaitingFor
  <2> QED
    BY <2>1, FS_Subset, FS_CardinalityType
<1>2. PICK q \in Orders(W) :
        toServer' = IF CanSend(ws) /\ serverEnd[ws] = "open"
          THEN [toServer EXCEPT ![ws] =
                  @ \o [i \in DOMAIN q |-> [type |-> "request", id |-> q[i]]]]
          ELSE toServer
  BY DEF OnHandshakeAck
<1>3. q \in [1..n -> W] /\ \A i, j \in 1..n : i # j => q[i] # q[j]
  BY <1>2 DEF Orders
<1> DEFINE msgs == [i \in 1..n |-> [type |-> "request", id |-> q[i]]]
<1>4. /\ msgs \in Seq(ToServerMsg) /\ Len(msgs) = n
      /\ \A i \in 1..Len(msgs) : /\ msgs[i] = [type |-> "request", id |-> q[i]]
                                /\ msgs[i].type = "request" /\ msgs[i].id = q[i] /\ q[i] \in W
  <2>1. \A i \in 1..n : q[i] \in W /\ q[i] \in Call /\ [type |-> "request", id |-> q[i]] \in ToServerMsg
    BY <1>1, <1>3, ServerMsgFacts
  <2>2. msgs \in Seq(ToServerMsg) /\ Len(msgs) = n
    BY <1>1, <2>1
  <2> QED
    BY <2>1, <2>2, ServerMsgFacts
<1>5. toServer' = toServer \/ (CanSend(ws) /\ toServer' = Put(toServer, ws, msgs))
  <2>1. DOMAIN q = 1..n
    BY <1>3
  <2> DEFINE raw == [i \in DOMAIN q |-> [type |-> "request", id |-> q[i]]]
  <2>2. raw = msgs
    BY <2>1
  <2>3. toServer' = toServer \/ (CanSend(ws) /\ toServer' = Put(toServer, ws, raw))
    BY <1>2 DEF Put
  <2> HIDE DEF msgs, n, raw
  <2> QED
    BY <2>2, <2>3
<1> HIDE DEF msgs, W, n
<1>6. toServer \in [Sock -> Seq(ToServerMsg)]
  BY TypeParts DEF ServerQueues
<1>7. /\ Put(toServer, ws, msgs) \in [Sock -> Seq(ToServerMsg)]
      /\ \A x : Carries(Put(toServer, ws, msgs), x) =>
           Carries(toServer, x) \/ \E i \in 1..Len(msgs) : x = msgs[i]
      /\ (/\ RequestsOnce(toServer)
          /\ \A i \in 1..Len(msgs) : msgs[i].type = "request" => Unasked(toServer, msgs[i].id)
          /\ \A i, j \in 1..Len(msgs) :
               msgs[i].type = "request" /\ msgs[j].type = "request" /\ msgs[i].id = msgs[j].id
               => i = j)
         => RequestsOnce(Put(toServer, ws, msgs))
  BY <1>4, <1>6, Added
<1>8. ASSUME RequestsOnce(toServer), \A c \in W : Unasked(toServer, c)
      PROVE  RequestsOnce(Put(toServer, ws, msgs))
  <2>1. \A i, j \in 1..Len(msgs) : msgs[i].id = msgs[j].id => i = j
    BY <1>3, <1>4
  <2> QED
    BY <1>4, <1>7, <1>8, <2>1
<1>9. /\ toServer' \in ServerQueues
      /\ \A x : Carries(toServer', x) =>
           \/ Carries(toServer, x)
           \/ CanSend(ws) /\ \E c \in W : x = [type |-> "request", id |-> c]
  <2>1. \A i \in 1..Len(msgs) : \E c \in W : msgs[i] = [type |-> "request", id |-> c]
    BY <1>4
  <2>2. \A x : Carries(Put(toServer, ws, msgs), x) =>
          Carries(toServer, x) \/ \E c \in W : x = [type |-> "request", id |-> c]
    <3>1. ASSUME NEW x, Carries(Put(toServer, ws, msgs), x), ~Carries(toServer, x)
          PROVE  \E c \in W : x = [type |-> "request", id |-> c]
      <4>1. PICK i \in 1..Len(msgs) : x = msgs[i]
        BY <1>7, <3>1
      <4> QED
        BY <2>1, <4>1
    <3> QED
      BY <3>1
  <2>3. CASE toServer' = toServer
    BY <1>6, <2>3 DEF ServerQueues
  <2>4. CASE CanSend(ws) /\ toServer' = Put(toServer, ws, msgs)
    BY <1>7, <2>2, <2>4 DEF ServerQueues
  <2> QED
    BY <1>5, <2>3, <2>4
<1> QED
  BY <1>5, <1>8, <1>9 DEF W

\* The client's steps.
LEMMA ClientTypes ==
  ASSUME RpcTypeOK, ClientStep PROVE RpcTypeOK'
<1> SUFFICES RestTypeOK' /\ toServer' \in ServerQueues /\ toClient' \in ClientQueues
  BY DEF RpcTypeOK, RestTypeOK, ServerQueues, ClientQueues
<1>0. RestTypeOK /\ toServer \in ServerQueues /\ toClient \in ClientQueues
  BY TypeParts
<1> USE <1>0 DEF RestTypeOK, connection, calls, serverClients, handlers, invokes, net, bounds, Where
<1>1. CASE Start
  BY <1>1, ConnectTypes DEF Start
<1>2. CASE OnHandshakeAck
  <2>1. toServer' \in ServerQueues
    BY <1>2, AckQueue
  <2>2. toClient' \in ClientQueues
    BY <1>2, ReceiveFacts DEF OnHandshakeAck
  <2>3. call' \in [Call -> Where] /\ waits' \in [Call -> SockOrNone] /\ readyPromise' = None
    BY <1>2, SockFacts DEF OnHandshakeAck, Requests, Forget
  <2> QED
    BY <1>2, <2>1, <2>2, <2>3, SockFacts DEF OnHandshakeAck
<1>3. CASE OnError
  BY <1>3, ReceiveFacts, SockFacts DEF OnError, FailReady, Rejected, Forget
<1>4. CASE OnShuttingDown
  BY <1>4, ReceiveFacts DEF OnShuttingDown
<1>5. CASE OnResponse
  BY <1>5, ReceiveFacts DEF OnResponse, Settled
<1>6. CASE OnServerRequest
  <2>1. /\ ws \in Sock /\ toClient' \in ClientQueues /\ Head(toClient[ws]).id \in Invoke
    BY <1>6, ReceiveFacts, ClientMsgFacts DEF OnServerRequest
  <2>2. \A r \in Invoke : [type |-> "response", id |-> r, ok |-> FALSE] \in ToServerMsg
    BY ServerMsgFacts
  <2>3. toServer' \in ServerQueues
    BY <1>6, <2>1, <2>2, SentFacts DEF OnServerRequest
  <2>4. capability' \in [Invoke -> {"none", "running", "done"}]
    BY <1>6 DEF OnServerRequest
  <2> QED
    BY <1>6, <2>1, <2>3, <2>4 DEF OnServerRequest
<1>7. CASE OnDisconnect
  <2>1. call' \in [Call -> Where] /\ waits' \in [Call -> SockOrNone]
    BY <1>7, SettleTypes DEF OnDisconnect
  <2>2. /\ readyPromise' \in SockOrNone /\ ws' \in SockOrNone /\ connectTimer' \in BOOLEAN
        /\ nextSock' \in 1..(MaxSock + 1) /\ reconnectTimer' \in BOOLEAN
        /\ clientEnd' \in [Sock -> {"none", "connecting", "open", "closing", "closed"}]
        /\ toClient' \in ClientQueues
    <3>1. CASE Connect /\ UNCHANGED reconnectTimer
      BY <3>1, ConnectTypes
    <3>2. CASE toClient' = [toClient EXCEPT ![ws] = <<>>]
      <4>1. toClient' \in ClientQueues
        BY <3>2, EmptySeq DEF ClientQueues
      <4> QED
        BY <1>7, <3>2, <4>1, ConnectTypes, SockFacts DEF OnDisconnect, MayReconnect
    <3> QED
      BY <1>7, <3>1, <3>2 DEF OnDisconnect
  <2> QED
    BY <1>7, <2>1, <2>2 DEF OnDisconnect
<1>8. CASE ReconnectTimeout
  BY <1>8, ConnectTypes DEF ReconnectTimeout
<1>9. CASE ReconnectNow
  <2>1. manual' \in Nat /\ reconnectTimer' \in BOOLEAN /\ manualReconnectRequested' \in BOOLEAN
    <3>1. /\ manual' = manual + 1 /\ reconnectTimer' = FALSE
          /\ manualReconnectRequested' \in {TRUE, manualReconnectRequested}
      BY <1>9 DEF ReconnectNow, ClearBackoff
    <3>2. manualReconnectRequested' \in BOOLEAN
      BY <3>1
    <3>3. manual' \in Nat
      BY <3>1
    <3> QED
      BY <3>1, <3>2, <3>3
  <2>2. \/ Connect
        \/ /\ clientEnd' = [clientEnd EXCEPT ![ws] = "closing"]
           /\ UNCHANGED <<ws, readyPromise, connectTimer, nextSock, toClient>>
    BY <1>9 DEF ReconnectNow
  <2>3. /\ readyPromise' \in SockOrNone /\ ws' \in SockOrNone /\ connectTimer' \in BOOLEAN
        /\ nextSock' \in 1..(MaxSock + 1)
        /\ clientEnd' \in [Sock -> {"none", "connecting", "open", "closing", "closed"}]
        /\ toClient' \in ClientQueues
    BY <2>2, ConnectTypes
  <2> QED
    BY <1>9, <2>1, <2>3 DEF ReconnectNow
<1>10. CASE Destroy
  <2>1. toClient' \in ClientQueues
    <3>1. toClient' = [s \in Sock |-> IF s = ws THEN <<>> ELSE toClient[s]]
      BY <1>10 DEF Destroy
    <3> QED
      BY <3>1, EmptySeq DEF ClientQueues
  <2>2. call' \in [Call -> Where] /\ waits' \in [Call -> SockOrNone]
    BY <1>10, SettleTypes DEF Destroy, RejectAll
  <2>3. manual' \in Nat
    BY <1>10 DEF Destroy
  <2> QED
    BY <1>10, <2>1, <2>2, <2>3, SockFacts DEF Destroy
<1>11. ASSUME NEW s \in Sock, OnOpen(s)
       PROVE  RestTypeOK' /\ toServer' \in ServerQueues /\ toClient' \in ClientQueues
  BY <1>11, ServerMsgFacts DEF OnOpen, ServerQueues
<1>12. ASSUME NEW c \in Call, InvokeCall(c)
       PROVE  RestTypeOK' /\ toServer' \in ServerQueues /\ toClient' \in ClientQueues
  <2>1. [type |-> "request", id |-> c] \in ToServerMsg
    BY ServerMsgFacts
  <2>2. Sent(ws, [type |-> "request", id |-> c]) \in ServerQueues
    BY <2>1, SentFacts
  <2>3. call' \in [Call -> Where] /\ waits' \in [Call -> SockOrNone]
    <3>1. \A w \in Where, x \in SockOrNone : AtCall(c, w, x) =>
            call' \in [Call -> Where] /\ waits' \in [Call -> SockOrNone]
      BY DEF AtCall
    <3>2. /\ readyPromise \in SockOrNone /\ None \in SockOrNone
          /\ Connect => nextSock \in SockOrNone
      BY SockFacts DEF Connect
    <3>3. \E w \in Where, x \in {None, readyPromise, nextSock} :
            AtCall(c, w, x) /\ (x = nextSock => Connect \/ x \in {None, readyPromise})
      BY <1>12 DEF InvokeCall
    <3> QED
      BY <3>1, <3>2, <3>3
  <2>4. \/ UNCHANGED <<ws, readyPromise, connectTimer, nextSock, clientEnd, toClient>>
        \/ Connect
    BY <1>12 DEF InvokeCall
  <2>5. /\ readyPromise' \in SockOrNone /\ ws' \in SockOrNone /\ connectTimer' \in BOOLEAN
        /\ nextSock' \in 1..(MaxSock + 1)
        /\ clientEnd' \in [Sock -> {"none", "connecting", "open", "closing", "closed"}]
        /\ toClient' \in ClientQueues
    BY <2>4, ConnectTypes
  <2>6. toServer' \in ServerQueues
    BY <1>12, <2>2 DEF InvokeCall
  <2> QED
    BY <1>12, <2>3, <2>5, <2>6 DEF InvokeCall
<1>13. ASSUME NEW r \in Invoke, CapabilityReturns(r)
       PROVE  RestTypeOK' /\ toServer' \in ServerQueues /\ toClient' \in ClientQueues
  BY <1>13, SentFacts, ServerMsgFacts DEF CapabilityReturns
<1> QED
  BY <1>1, <1>2, <1>3, <1>4, <1>5, <1>6, <1>7, <1>8, <1>9, <1>10, <1>11, <1>12, <1>13
     DEF ClientStep
\* The server answers a call.
LEMMA RespondFacts ==
  ASSUME RpcTypeOK, NEW c \in Call, NEW ok \in BOOLEAN, Respond(c, ok)
  PROVE  /\ toClient' \in ClientQueues
         /\ Adds(toClient, toClient', [type |-> "response", id |-> c, ok |-> ok])
<1>1. [type |-> "response", id |-> c, ok |-> ok] \in ToClientMsg
  BY ClientMsgFacts
<1>2. toClient \in ClientQueues
  BY TypeParts
<1> QED
  BY <1>1, <1>2, SafeSendFacts DEF Respond

\* What the server's notice does to the queues.
LEMMA NoticeQueue ==
  ASSUME RpcTypeOK, Notice
  PROVE  toClient' \in ClientQueues /\ Adds(toClient, toClient', [type |-> "shuttingDown"])
<1> DEFINE m == [type |-> "shuttingDown"]
<1>1. m \in ToClientMsg /\ m.type # "request"
  BY ClientMsgFacts
<1>2. toClient \in [Sock -> Seq(ToClientMsg)]
  BY TypeParts DEF ClientQueues
<1>3. toClient' = [s \in Sock |->
       IF ClientOf(s) # {} /\ serverEnd[s] = "open" /\ clientEnd[s] # "closed"
         THEN Append(toClient[s], m) ELSE toClient[s]]
  BY DEF Notice
<1> HIDE DEF m
<1>4. /\ toClient' \in [Sock -> Seq(ToClientMsg)]
      /\ \A t \in Sock : toClient'[t] = toClient[t] \/ toClient'[t] = Append(toClient[t], m)
  <2>1. \A t \in Sock : Append(toClient[t], m) \in Seq(ToClientMsg)
    BY <1>1, <1>2, AppendProperties
  <2> QED
    BY <1>2, <1>3, <2>1
<1>5. \A t \in Sock : \/ toClient'[t] = <<>> \/ toClient'[t] = toClient[t]
                      \/ toClient'[t] = Append(toClient[t], m) \/ toClient'[t] = <<m>>
  BY <1>4
<1>6. /\ \A x : Carries(toClient', x) => Carries(toClient, x) \/ x = m
      /\ RequestsOnce(toClient) => RequestsOnce(toClient')
  BY <1>1, <1>2, <1>4, <1>5, NoRequestAdded, Zenon
<1> QED
  BY <1>1, <1>4, <1>6 DEF Adds, ClientQueues, m

\* The server's steps.
LEMMA ServerTypes ==
  ASSUME RpcTypeOK, ServerStep PROVE RpcTypeOK'
<1> SUFFICES RestTypeOK' /\ toServer' \in ServerQueues /\ toClient' \in ClientQueues
  BY DEF RpcTypeOK, RestTypeOK, ServerQueues, ClientQueues
<1>0. RestTypeOK /\ toServer \in ServerQueues /\ toClient \in ClientQueues
  BY TypeParts
<1> USE <1>0 DEF RestTypeOK, connection, calls, serverClients, handlers, invokes, net, bounds, Where
<1> DEFINE Typed == RestTypeOK' /\ toServer' \in ServerQueues /\ toClient' \in ClientQueues
<1>1. ASSUME NEW s \in Sock, OnHandshake(s) PROVE Typed
  <2>1. toServer' \in ServerQueues
    BY <1>1, ReceivedFacts DEF OnHandshake
  <2>2. toClient' \in ClientQueues
    BY <1>1, SafeSendFacts, ClientMsgFacts DEF OnHandshake
  <2>3. PICK id \in disconnectedClients \union {s} :
          /\ clients' = clients \union {id}
          /\ disconnectedClients' = disconnectedClients \ {id}
          /\ connWs' = [connWs EXCEPT ![id] = s]
          /\ closeHandler' = [closeHandler EXCEPT ![s] = id]
    BY <1>1 DEF OnHandshake
  <2>4. id \in Sock /\ id \in SockOrNone /\ s \in SockOrNone
    BY SockFacts
  <2> QED
    BY <1>1, <2>1, <2>2, <2>3, <2>4 DEF OnHandshake
<1>2. ASSUME NEW s \in Sock, RejectHandshake(s) PROVE Typed
  <2>1. toServer' \in ServerQueues
    BY <1>2, ReceivedFacts DEF RejectHandshake
  <2>2. toClient' \in ClientQueues
    BY <1>2, SafeSendFacts, ClientMsgFacts DEF RejectHandshake
  <2> QED
    BY <1>2, <2>1, <2>2 DEF RejectHandshake
<1>3. ASSUME NEW s \in Sock, OnRequest(s) PROVE Typed
  <2>1. toServer' \in ServerQueues /\ Head(toServer[s]).id \in Call
    BY <1>3, ReceivedFacts, ServerMsgFacts DEF OnRequest
  <2>2. \A c \in Call : [type |-> "response", id |-> c, ok |-> FALSE] \in ToClientMsg
    BY ClientMsgFacts
  <2>3. toClient' \in ClientQueues
    BY <1>3, <2>1, <2>2, SafeSendFacts DEF OnRequest
  <2>4. handler' \in [Call -> {"none", "running", "late", "done", "lost"}]
    BY <1>3 DEF OnRequest
  <2>5. handlerClient' \in [Call -> SockOrNone]
    BY <1>3, SockFacts DEF OnRequest, ClientOf
  <2> QED
    BY <1>3, <2>1, <2>3, <2>4, <2>5 DEF OnRequest
<1>4. ASSUME NEW s \in Sock, OnClientResponse(s) PROVE Typed
  <2>1. toServer' \in ServerQueues
    BY <1>4, ReceivedFacts DEF OnClientResponse
  <2> QED
    BY <1>4, <2>1 DEF OnClientResponse, Settled
<1>5. ASSUME NEW s \in Sock, OnClose(s) PROVE Typed
  <2>1. toServer' \in ServerQueues
    BY <1>5, EmptySeq DEF OnClose, ServerQueues
  <2>2. {closeHandler[s]} \ {None} \subseteq Sock
    BY SockFacts
  <2> QED
    BY <1>5, <2>1, <2>2, SockFacts DEF OnClose, RejectInvokes
<1>6. ASSUME NEW s \in Sock, Expire(s) PROVE Typed
  BY <1>6 DEF Expire
<1>7. ASSUME NEW c \in Call, HandlerTimeout(c) PROVE Typed
  <2>1. toClient' \in ClientQueues
    BY <1>7, RespondFacts DEF HandlerTimeout
  <2> QED
    BY <1>7, <2>1 DEF HandlerTimeout
<1>8. ASSUME NEW c \in Call, HandlerReturns(c) PROVE Typed
  <2>1. toClient' \in ClientQueues
    BY <1>8, RespondFacts DEF HandlerReturns
  <2> QED
    BY <1>8, <2>1, SockFacts DEF HandlerReturns
<1>9. ASSUME NEW r \in Invoke, InvokeClient(r) PROVE Typed
  <2>1. toClient' \in ClientQueues
    BY <1>9, SafeSendFacts, ClientMsgFacts DEF InvokeClient
  <2>2. invoke' \in [Invoke -> Where \ {"awaiting"}]
    BY <1>9 DEF InvokeClient
  <2>3. invokeTo' \in [Invoke -> SockOrNone]
    BY <1>9, SockFacts DEF InvokeClient
  <2> QED
    BY <1>9, <2>1, <2>2, <2>3 DEF InvokeClient
<1>10. CASE Notice
  <2>1. toClient' \in ClientQueues
    BY <1>10, NoticeQueue
  <2>2. restarts' \in Nat
    BY <1>10 DEF Notice
  <2> QED
    BY <1>10, <2>1, <2>2 DEF Notice
<1>11. CASE Close
  <2>1. toServer' \in ServerQueues
    BY <1>11, EmptySeq DEF Close, ServerQueues
  <2> QED
    BY <1>11, <2>1, SockFacts DEF Close, RejectInvokes
<1> QED
  BY <1>1, <1>2, <1>3, <1>4, <1>5, <1>6, <1>7, <1>8, <1>9, <1>10, <1>11 DEF ServerStep

\* The timers, and no step at all.
LEMMA TimerTypes ==
  ASSUME RpcTypeOK, Timers \/ UNCHANGED rpcVars PROVE RpcTypeOK'
<1> SUFFICES RestTypeOK' /\ toServer' \in ServerQueues /\ toClient' \in ClientQueues
  BY DEF RpcTypeOK, RestTypeOK, ServerQueues, ClientQueues
<1>0. RestTypeOK /\ toServer \in ServerQueues /\ toClient \in ClientQueues
  BY TypeParts
<1> USE <1>0 DEF RestTypeOK, connection, calls, serverClients, handlers, invokes, net, bounds, Where
<1>1. CASE ConnectTimeout
  BY <1>1, SettleTypes, SockFacts DEF ConnectTimeout, FailReady
<1>2. ASSUME NEW c \in Call, RequestTimeout(c)
      PROVE  RestTypeOK' /\ toServer' \in ServerQueues /\ toClient' \in ClientQueues
  BY <1>2, SockFacts DEF RequestTimeout, AtCall
<1>3. ASSUME NEW r \in Invoke, InvokeTimeout(r)
      PROVE  RestTypeOK' /\ toServer' \in ServerQueues /\ toClient' \in ClientQueues
  BY <1>3 DEF InvokeTimeout
<1>4. CASE UNCHANGED rpcVars
  BY <1>4 DEF rpcVars
<1> QED
  BY <1>1, <1>2, <1>3, <1>4 DEF Timers

\* The types hold initially, and every step keeps them.
LEMMA InitTypes == RpcInit => RpcTypeOK
<1> SUFFICES ASSUME RpcInit PROVE RpcTypeOK
  OBVIOUS
<1>1. 1 \in 1..(MaxSock + 1) /\ 0 \in Nat
  BY RpcBounds
<1>2. /\ [s \in Sock |-> <<>>] \in [Sock -> Seq(ToServerMsg)]
      /\ [s \in Sock |-> <<>>] \in [Sock -> Seq(ToClientMsg)]
  BY EmptySeq
<1> QED
  BY <1>1, <1>2, SockFacts DEF RpcInit, RpcTypeOK, Where
LEMMA NextTypes == ASSUME RpcTypeOK, [RpcNext]_rpcVars PROVE RpcTypeOK'
BY ClientTypes, ServerTypes, TimerTypes DEF RpcNext
-----------------------------------------------------------------------------
(* The inductive invariant: the client's connection *)

\* What NoCallStranded says of the client's calls, and of the server's.
CallsWait ==
  /\ \A c \in Call : call[c] = "awaiting" => waits[c] = readyPromise
  /\ readyPromise # None => ws = readyPromise /\ connectTimer /\ ~connected
  /\ \A c \in Call : call[c] = "pending" => connected /\ ws # None
InvokesWait == \A r \in Invoke : invoke[r] = "pending" => invokeTo[r] \in clients

\* A call waits only while there is a promise; the connect timer runs only while
\* there is a socket and no connection, and a connection has a socket; sockets
\* are numbered as they are made.
ConnectionInv ==
  /\ \A c \in Call : call[c] = "awaiting" => readyPromise # None
  /\ connectTimer => ws # None /\ ~connected
  /\ connected => ws # None
  /\ nextSock = 1 => ~reconnectTimer
  /\ ws < nextSock
  /\ \A s \in Sock : s >= nextSock => clientEnd[s] = "none"

ClientInv == CallsWait /\ ConnectionInv /\ OneConnection

LEMMA StrandedParts == NoCallStranded <=> CallsWait /\ InvokesWait
BY DEF NoCallStranded, CallsWait, InvokesWait

\* connect(), when nothing waits and nothing is connected.
LEMMA ConnectInv ==
  ASSUME RpcTypeOK, ClientInv, Connect, ~destroyed', ~connected', ~reconnectTimer',
         \A c \in Call : \/ call'[c] \notin {"awaiting", "pending"}
                         \/ call'[c] = "awaiting" /\ waits'[c] = nextSock
  PROVE  ClientInv'
<1>1. /\ readyPromise' = nextSock /\ ws' = nextSock /\ connectTimer'
      /\ nextSock' = nextSock + 1 /\ nextSock \in Sock /\ nextSock \in Nat
      /\ clientEnd' = [s \in Sock |-> IF s = nextSock THEN "connecting"
                                      ELSE IF s = ws THEN "closed" ELSE clientEnd[s]]
  BY SockFacts DEF Connect, RpcTypeOK
<1>2. nextSock # None /\ nextSock < nextSock + 1 /\ nextSock + 1 # 1
      /\ \A s \in Sock : s >= nextSock + 1 => s >= nextSock /\ s # nextSock /\ s # ws
  <2>1. ws < nextSock /\ ws \in Nat
    BY RpcBounds DEF RpcTypeOK, ClientInv, ConnectionInv, SockOrNone
  <2> QED
    BY <1>1, <2>1, SockFacts
<1>3. CallsWait'
  BY <1>1, <1>2 DEF CallsWait
<1>4. ConnectionInv'
  <2>1. \A s \in Sock : s >= nextSock' => clientEnd'[s] = "none"
    BY <1>1, <1>2 DEF ClientInv, ConnectionInv
  <2>2. ws' < nextSock' /\ nextSock' # 1
    BY <1>1, <1>2
  <2> QED
    BY <1>1, <1>2, <2>1, <2>2 DEF ConnectionInv
<1>5. OneConnection'
  <2>1. \A s \in Sock : clientEnd'[s] \in {"connecting", "open", "closing"} => s = ws'
    BY <1>1 DEF ClientInv, OneConnection
  <2>2. ws' # None
    BY <1>1, <1>2
  <2> QED
    BY <2>1, <2>2 DEF OneConnection
<1> QED
  BY <1>3, <1>4, <1>5 DEF ClientInv

\* Steps that leave the connection and the calls alone.
LEMMA ClientInvKept ==
  ASSUME ClientInv, UNCHANGED <<connection, calls, nextSock, clientEnd>> PROVE ClientInv'
BY DEF ClientInv, CallsWait, ConnectionInv, OneConnection, connection, calls
\* No call waits while there is no promise, and none is pending unconnected.
LEMMA Quiescent ==
  ASSUME ClientInv, readyPromise = None, ~connected
  PROVE  \A c \in Call : call[c] \notin {"awaiting", "pending"}
BY DEF ClientInv, CallsWait, ConnectionInv

\* The connection ends, with or without another one.
LEMMA DisconnectInv ==
  ASSUME RpcTypeOK, ClientInv, OnDisconnect PROVE ClientInv'
<1>1. /\ ws # None /\ ~connected' /\ UNCHANGED <<permanentlyClosed, destroyed>>
      /\ ~reconnectTimer
  BY DEF OnDisconnect, ClientInv, OneConnection
<1>2. \A c \in Call : call'[c] \notin {"awaiting", "pending"}
  <2>1. CASE connected
    <3>1. readyPromise = None /\ call' = Rejected(Pending)
      BY <2>1 DEF OnDisconnect, ClientInv, CallsWait
    <3> QED
      BY <3>1 DEF ClientInv, ConnectionInv, Rejected, Pending
  <2>2. CASE ~connected
    <3>1. call' = Rejected(WaitingFor(readyPromise))
      BY <2>2 DEF OnDisconnect
    <3> QED
      BY <2>2, <3>1 DEF ClientInv, CallsWait, Rejected, WaitingFor
  <2> QED
    BY <2>1, <2>2
<1>3. CASE manualReconnectRequested /\ ~destroyed /\ Connect /\ UNCHANGED reconnectTimer
  BY <1>1, <1>2, <1>3, ConnectInv
<1>4. CASE /\ ws' = None /\ connectTimer' = FALSE
           /\ readyPromise' = IF connected THEN readyPromise ELSE None
           /\ reconnectTimer' = (MayReconnect \/ reconnectTimer)
           /\ clientEnd' = [clientEnd EXCEPT ![ws] = "closed"]
           /\ UNCHANGED nextSock
  <2>1. readyPromise' = None
    BY <1>4 DEF ClientInv, CallsWait
  <2>2. CallsWait'
    BY <1>2, <2>1 DEF CallsWait
  <2>3. nextSock \in Nat /\ ws \in Nat /\ None < nextSock /\ ws < nextSock /\ ws \in Sock
    BY <1>1, SockFacts DEF RpcTypeOK, ClientInv, ConnectionInv, None
  <2>4. nextSock # 1 /\ \A s \in Sock : s >= nextSock => s # ws
    BY <1>1, <2>3, SockFacts DEF None
  <2>5. ConnectionInv'
    <3>1. \A s \in Sock : s >= nextSock' => clientEnd'[s] = "none"
      BY <1>4, <2>4 DEF ClientInv, ConnectionInv, RpcTypeOK
    <3>2. ws' < nextSock' /\ nextSock' # 1
      BY <1>4, <2>3, <2>4
    <3> QED
      BY <1>1, <1>2, <1>4, <3>1, <3>2 DEF ConnectionInv
  <2>6. OneConnection'
    <3>1. \A s \in Sock : clientEnd'[s] \notin {"connecting", "open", "closing"}
      BY <1>4, <2>3 DEF ClientInv, OneConnection, RpcTypeOK
    <3>2. reconnectTimer' = MayReconnect
      BY <1>1, <1>4 DEF MayReconnect
    <3> QED
      BY <1>1, <1>2, <1>4, <2>1, <3>1, <3>2 DEF OneConnection, MayReconnect
  <2> QED
    BY <2>2, <2>5, <2>6 DEF ClientInv
<1> QED
  BY <1>3, <1>4 DEF OnDisconnect

\* Calls that are settled leave nothing that waits.
LEMMA SettleInv ==
  ASSUME RpcTypeOK, ClientInv, UNCHANGED <<connection, nextSock, clientEnd, waits>>,
         \A c \in Call : call'[c] \in {call[c], "resolved", "rejected"}
  PROVE  ClientInv'
BY DEF ClientInv, CallsWait, ConnectionInv, OneConnection, connection

\* invoke().
LEMMA InvokeCallInv ==
  ASSUME RpcTypeOK, ClientInv, NEW c \in Call, InvokeCall(c) PROVE ClientInv'
<1>1. call[c] = "none"
  BY DEF InvokeCall, NextToIssue
<1>2. ASSUME NEW where, NEW p, AtCall(c, where, p)
      PROVE  \A d \in Call : /\ call'[d] = IF d = c THEN where ELSE call[d]
                             /\ waits'[d] = IF d = c THEN p ELSE waits[d]
  BY <1>2 DEF AtCall, RpcTypeOK
<1>3. CASE /\ ~destroyed /\ connected /\ ws # None
           /\ AtCall(c, IF CanSend(ws) THEN "pending" ELSE "rejected", None)
           /\ UNCHANGED <<connection, nextSock, clientEnd, toClient>>
  <2>1. \A d \in Call : \/ d = c /\ call'[d] \in {"pending", "rejected"}
                        \/ call'[d] = call[d] /\ waits'[d] = waits[d]
    BY <1>2, <1>3
  <2> QED
    BY <1>3, <2>1 DEF ClientInv, CallsWait, ConnectionInv, OneConnection, connection
<1>4. CASE /\ ~destroyed /\ readyPromise # None
           /\ AtCall(c, "awaiting", readyPromise)
           /\ UNCHANGED <<connection, nextSock, clientEnd, toClient>>
  <2>1. \A d \in Call : \/ d = c /\ call'[d] = "awaiting" /\ waits'[d] = readyPromise
                        \/ call'[d] = call[d] /\ waits'[d] = waits[d]
    BY <1>2, <1>4
  <2> QED
    BY <1>4, <2>1 DEF ClientInv, CallsWait, ConnectionInv, OneConnection, connection
<1>5. CASE /\ AtCall(c, "rejected", None)
           /\ UNCHANGED <<connection, nextSock, clientEnd, toClient>>
  <2>1. \A d \in Call : \/ d = c /\ call'[d] = "rejected"
                        \/ call'[d] = call[d] /\ waits'[d] = waits[d]
    BY <1>2, <1>5
  <2> QED
    BY <1>5, <2>1 DEF ClientInv, CallsWait, ConnectionInv, OneConnection, connection
<1>6. CASE /\ ~destroyed /\ ~(connected /\ ws # None) /\ readyPromise = None /\ ~reconnectTimer
           /\ Connect
           /\ AtCall(c, "awaiting", nextSock)
           /\ UNCHANGED <<connected, reconnectTimer, manualReconnectRequested,
                          permanentlyClosed, destroyed, toServer>>
  <2>1. ~connected /\ readyPromise = None
    BY <1>6 DEF ClientInv, ConnectionInv
  <2>2. \A d \in Call : call[d] \notin {"awaiting", "pending"}
    BY <2>1, Quiescent
  <2>3. \A d \in Call : \/ d = c /\ call'[d] = "awaiting" /\ waits'[d] = nextSock
                        \/ call'[d] = call[d]
    BY <1>2, <1>6
  <2> QED
    BY <1>6, <2>1, <2>2, <2>3, ConnectInv
<1> QED
  BY <1>3, <1>4, <1>5, <1>6 DEF InvokeCall

\* Destroy() leaves nothing behind.
LEMMA DestroyInv == ASSUME RpcTypeOK, ClientInv, Destroy PROVE ClientInv'
<1>1. /\ ws' = None /\ ~connected' /\ ~connectTimer' /\ ~reconnectTimer' /\ readyPromise' = None
      /\ destroyed' /\ nextSock' = nextSock
      /\ clientEnd' = [s \in Sock |-> IF s = ws THEN "closed" ELSE clientEnd[s]]
      /\ call' = Rejected(Pending \union WaitingFor(readyPromise))
  BY DEF Destroy, RejectAll
<1>2. \A c \in Call : call'[c] \notin {"awaiting", "pending"}
  BY <1>1 DEF ClientInv, CallsWait, Rejected, Pending, WaitingFor
<1>3. nextSock \in Nat /\ None < nextSock /\ ws < nextSock /\ ws \in Nat
  BY RpcBounds DEF RpcTypeOK, ClientInv, ConnectionInv, None, SockOrNone
<1>4. \A s \in Sock : s >= nextSock => s # ws
  BY <1>3, SockFacts
<1>5. ConnectionInv'
  BY <1>1, <1>2, <1>3, <1>4 DEF ClientInv, ConnectionInv
<1>6. CallsWait' /\ OneConnection'
  BY <1>1, <1>2 DEF ClientInv, CallsWait, OneConnection
<1> QED
  BY <1>5, <1>6 DEF ClientInv

\* Every step of the client and of its timers keeps it.
LEMMA ClientInvStep ==
  ASSUME RpcTypeOK, ClientInv, Timers \/ ClientStep PROVE ClientInv'
<1> USE DEF connection, calls, net, invokes
<1>0. nextSock \in Nat /\ ws < nextSock /\ ws \in Nat /\ \A s \in Sock : s >= nextSock => s # ws
  <2>1. nextSock \in Nat /\ ws < nextSock /\ ws \in Nat
    BY RpcBounds DEF RpcTypeOK, ClientInv, ConnectionInv, SockOrNone
  <2> QED
    BY <2>1, SockFacts
<1>1. CASE ConnectTimeout
  <2>1. /\ ~connected /\ ~connectTimer' /\ readyPromise' = None
        /\ UNCHANGED <<ws, connected, reconnectTimer, permanentlyClosed, destroyed, nextSock>>
        /\ call' = Rejected(WaitingFor(readyPromise))
        /\ clientEnd' = [clientEnd EXCEPT ![ws] = IF @ \in {"connecting", "open"} THEN "closing" ELSE @]
    BY <1>1 DEF ConnectTimeout, FailReady
  <2>2. \A c \in Call : call'[c] \notin {"awaiting", "pending"}
    BY <2>1 DEF ClientInv, CallsWait, Rejected, WaitingFor
  <2>3. \A s \in Sock : s # ws => clientEnd'[s] = clientEnd[s]
    BY <2>1 DEF RpcTypeOK
  <2>4. ConnectionInv'
    BY <1>0, <2>1, <2>2, <2>3 DEF ClientInv, ConnectionInv
  <2>5. CallsWait' /\ OneConnection'
    BY <2>1, <2>2, <2>3 DEF ClientInv, CallsWait, OneConnection
  <2> QED
    BY <2>4, <2>5 DEF ClientInv
<1>2. ASSUME NEW c \in Call, RequestTimeout(c) PROVE ClientInv'
  <2>1. \A d \in Call : IF d = c THEN call'[d] = "rejected"
                        ELSE call'[d] = call[d] /\ waits'[d] = waits[d]
    BY <1>2 DEF RequestTimeout, AtCall, RpcTypeOK
  <2>2. UNCHANGED <<connection, nextSock, clientEnd>>
    BY <1>2 DEF RequestTimeout
  <2> QED
    BY <2>1, <2>2 DEF ClientInv, CallsWait, ConnectionInv, OneConnection
<1>3. ASSUME NEW r \in Invoke, InvokeTimeout(r) PROVE ClientInv'
  BY <1>3, ClientInvKept DEF InvokeTimeout
<1>4. CASE Start
  <2>1. /\ ~connected /\ readyPromise = None /\ ~reconnectTimer /\ ~destroyed
    <3>1. ws = None
      BY <1>0, <1>4 DEF Start, None
    <3> QED
      BY <1>4, <3>1 DEF Start, ClientInv, ConnectionInv, CallsWait
  <2> QED
    BY <1>4, <2>1, Quiescent, ConnectInv DEF Start
<1>5. CASE OnHandshakeAck
  <2>1. /\ ws # None /\ connected' /\ ~connectTimer' /\ readyPromise' = None
        /\ UNCHANGED <<ws, reconnectTimer, permanentlyClosed, destroyed, nextSock, clientEnd>>
        /\ call' = Requests(WaitingFor(readyPromise))
    BY <1>5 DEF OnHandshakeAck, Receive
  <2>2. ~destroyed /\ ~reconnectTimer
    BY <2>1 DEF ClientInv, OneConnection
  <2>3. \A c \in Call : call'[c] # "awaiting"
    BY <2>1 DEF ClientInv, CallsWait, Requests, WaitingFor
  <2> QED
    BY <2>1, <2>2, <2>3 DEF ClientInv, CallsWait, ConnectionInv, OneConnection
<1>6. CASE OnError
  <2>1. /\ readyPromise' = None /\ ws # None
        /\ UNCHANGED <<ws, connected, connectTimer, reconnectTimer, permanentlyClosed,
                       destroyed, nextSock, clientEnd>>
        /\ call' = Rejected(WaitingFor(readyPromise))
    BY <1>6 DEF OnError, Receive, FailReady
  <2>2. \A c \in Call : call'[c] # "awaiting" /\ (call'[c] = "pending" => call[c] = "pending")
    BY <2>1 DEF ClientInv, CallsWait, Rejected, WaitingFor
  <2> QED
    BY <2>1, <2>2 DEF ClientInv, CallsWait, ConnectionInv, OneConnection
<1>7. CASE OnShuttingDown
  BY <1>7 DEF OnShuttingDown, Receive, ClientInv, CallsWait, ConnectionInv, OneConnection
<1>8. CASE OnResponse
  <2>1. \A c \in Call : call'[c] \in {call[c], "resolved", "rejected"}
    BY <1>8 DEF OnResponse, Settled, RpcTypeOK
  <2> QED
    BY <1>8, <2>1, SettleInv DEF OnResponse
<1>9. CASE OnServerRequest
  BY <1>9, ClientInvKept DEF OnServerRequest
<1>10. CASE OnDisconnect
  BY <1>10, DisconnectInv
<1>11. CASE ReconnectTimeout
  <2>1. ws = None /\ readyPromise = None /\ ~connected /\ ~destroyed
    BY <1>11 DEF ReconnectTimeout, ClientInv, OneConnection, ConnectionInv
  <2> QED
    BY <1>11, <2>1, Quiescent, ConnectInv DEF ReconnectTimeout
<1>12. CASE ReconnectNow
  <2>1. ~destroyed /\ ~reconnectTimer' /\ UNCHANGED <<connected, permanentlyClosed, destroyed, call, waits>>
    BY <1>12 DEF ReconnectNow, ClearBackoff
  <2>2. CASE ws = None /\ Connect
    <3>1. readyPromise = None /\ ~connected
      BY <2>2 DEF ClientInv, ConnectionInv, CallsWait
    <3> QED
      BY <2>1, <2>2, <3>1, Quiescent, ConnectInv
  <2>3. CASE /\ ws # None
             /\ clientEnd' = [clientEnd EXCEPT ![ws] = "closing"]
             /\ UNCHANGED <<ws, readyPromise, connectTimer, nextSock, toClient>>
    <3>1. \A s \in Sock : s # ws => clientEnd'[s] = clientEnd[s]
      BY <2>3 DEF RpcTypeOK
    <3>2. ConnectionInv'
      BY <1>0, <2>1, <2>3, <3>1 DEF ClientInv, ConnectionInv
    <3>3. CallsWait' /\ OneConnection'
      BY <2>1, <2>3, <3>1 DEF ClientInv, CallsWait, OneConnection
    <3> QED
      BY <3>2, <3>3 DEF ClientInv
  <2> QED
    BY <1>12, <2>2, <2>3 DEF ReconnectNow
<1>13. CASE Destroy
  BY <1>13, DestroyInv
<1>14. ASSUME NEW s \in Sock, OnOpen(s) PROVE ClientInv'
  <2>1. /\ clientEnd[s] = "connecting" /\ UNCHANGED <<connection, calls, nextSock>>
        /\ \A t \in Sock : clientEnd'[t] = IF t = s THEN "open" ELSE clientEnd[t]
    BY <1>14 DEF OnOpen, RpcTypeOK
  <2> QED
    BY <2>1 DEF ClientInv, CallsWait, ConnectionInv, OneConnection
<1>15. ASSUME NEW c \in Call, InvokeCall(c) PROVE ClientInv'
  BY <1>15, InvokeCallInv
<1>16. ASSUME NEW r \in Invoke, CapabilityReturns(r) PROVE ClientInv'
  BY <1>16, ClientInvKept DEF CapabilityReturns
<1> QED
  BY <1>1, <1>2, <1>3, <1>4, <1>5, <1>6, <1>7, <1>8, <1>9, <1>10, <1>11, <1>12, <1>13, <1>14,
     <1>15, <1>16 DEF Timers, ClientStep
\* The server's steps leave the connection and the client's calls alone, and so
\* does no step at all; what they do to the other end of a socket is its matter.
LEMMA ServerClientInv ==
  ASSUME ClientInv, ServerStep \/ UNCHANGED rpcVars PROVE ClientInv'
<1>1. UNCHANGED <<connection, calls, nextSock, clientEnd>>
  BY DEF ServerStep, OnHandshake, RejectHandshake, OnRequest, OnClientResponse, OnClose, Expire,
         HandlerTimeout, HandlerReturns, InvokeClient, Notice, Close, net, rpcVars, calls
<1> QED
  BY <1>1, ClientInvKept

\* Calls to clients: a client is connected as long as a call to it is pending.
LEMMA InvokesWaitStep ==
  ASSUME RpcTypeOK, InvokesWait, [RpcNext]_rpcVars PROVE InvokesWait'
<1> USE DEF InvokesWait
<1>1. CASE UNCHANGED <<clients, invoke, invokeTo>>
  BY <1>1
<1>2. ASSUME NEW s \in Sock, OnHandshake(s) PROVE InvokesWait'
  BY <1>2 DEF OnHandshake, invokes
<1>3. ASSUME NEW s \in Sock, OnClientResponse(s) PROVE InvokesWait'
  <2>1. \A r \in Invoke : invoke'[r] = "pending" => invoke[r] = "pending"
    BY <1>3 DEF OnClientResponse, Settled, RpcTypeOK
  <2> QED
    BY <1>3, <2>1 DEF OnClientResponse, serverClients
<1>4. ASSUME NEW s \in Sock, OnClose(s) PROVE InvokesWait'
  BY <1>4 DEF OnClose, RejectInvokes
<1>5. ASSUME NEW r \in Invoke, InvokeClient(r) PROVE InvokesWait'
  <2>1. clients' = clients /\ \A q \in Invoke : q # r => invoke'[q] = invoke[q]
    BY <1>5 DEF InvokeClient, serverClients, RpcTypeOK
  <2>2. CASE invoke' = [invoke EXCEPT ![r] = "rejected"] /\ UNCHANGED <<invokeTo, toClient>>
    BY <2>1, <2>2 DEF RpcTypeOK
  <2>3. ASSUME NEW id \in clients, invokeTo' = [invokeTo EXCEPT ![r] = id] PROVE InvokesWait'
    BY <2>1, <2>3 DEF RpcTypeOK
  <2> QED
    BY <1>5, <2>2, <2>3 DEF InvokeClient
<1>6. ASSUME NEW r \in Invoke, InvokeTimeout(r) PROVE InvokesWait'
  BY <1>6 DEF InvokeTimeout, serverClients, RpcTypeOK
<1>7. CASE Close
  <2>1. \A r \in Invoke : invoke'[r] = "pending" => invoke[r] = "pending" /\ invokeTo[r] \notin Sock
    BY <1>7 DEF Close, RejectInvokes
  <2> QED
    BY <2>1 DEF RpcTypeOK
<1> QED
  BY <1>1, <1>2, <1>3, <1>4, <1>5, <1>6, <1>7
     DEF RpcNext, Timers, ClientStep, ServerStep, rpcVars, serverClients, invokes,
         ConnectTimeout, RequestTimeout, Start, OnHandshakeAck, OnError, OnShuttingDown, OnResponse,
         OnServerRequest, OnDisconnect, ReconnectTimeout, ReconnectNow, Destroy, OnOpen, InvokeCall,
         CapabilityReturns, RejectHandshake, OnRequest, Expire, HandlerTimeout, HandlerReturns, Notice

\* The part of the invariant about who waits for what.
WaitInv == RpcTypeOK /\ ClientInv /\ InvokesWait

LEMMA WaitInvariance == RpcSpec => []WaitInv
<1>1. RpcInit => WaitInv
  <2>1. ASSUME RpcInit PROVE ClientInv
    BY <2>1 DEF RpcInit, ClientInv, CallsWait, ConnectionInv, OneConnection, None
  <2>2. ASSUME RpcInit PROVE InvokesWait
    BY <2>2 DEF RpcInit, InvokesWait
  <2> QED
    BY <2>1, <2>2, InitTypes DEF WaitInv
<1>2. WaitInv /\ [RpcNext]_rpcVars => WaitInv'
  BY NextTypes, ClientInvStep, ServerClientInv, InvokesWaitStep DEF WaitInv, RpcNext
<1> QED
  BY <1>1, <1>2, PTL DEF RpcSpec

\* The state of the client, of the server and of what is under way between them
\* keeps its types.
THEOREM TypesCorrect == RpcSpec => []RpcTypeOK
<1>1. WaitInv => RpcTypeOK
  BY DEF WaitInv
<1> QED
  BY <1>1, WaitInvariance, PTL

\* However connections are made, lost, timed out and replaced, every call that
\* waits has something whose end or whose timer settles it.
THEOREM NoCallIsStranded == RpcSpec => []NoCallStranded
<1>1. WaitInv => NoCallStranded
  BY StrandedParts DEF WaitInv, ClientInv
<1> QED
  BY <1>1, WaitInvariance, PTL

\* The client never has two sockets, nor a backoff timer beside one, and it keeps
\* one or the other until it is told to stop.
THEOREM OneConnectionOnly == RpcSpec => []OneConnection
<1>1. WaitInv => OneConnection
  BY DEF WaitInv, ClientInv
<1> QED
  BY <1>1, WaitInvariance, PTL
-----------------------------------------------------------------------------
(* What each step does to the queues *)

\* No request is added to the queue, and no answer.
Harmless(m) == m.type # "request" /\ ~(m.type = "response" /\ m.ok)
Quiet(queue, next) ==
  /\ \A x : Carries(next, x) => Carries(queue, x) \/ Harmless(x)
  /\ RequestsOnce(queue) => RequestsOnce(next)

LEMMA QuietFacts ==
  /\ \A Q, P : Keeps(Q, P) => Quiet(Q, P)
  /\ \A Q, P, m : Adds(Q, P, m) /\ Harmless(m) => Quiet(Q, P)
  /\ Harmless([type |-> "handshake"])
  /\ \A t \in {"handshake_ack", "error", "shuttingDown"} : Harmless([type |-> t])
  /\ \A i : Harmless([type |-> "response", id |-> i, ok |-> FALSE])
<1>1. \A Q, P : Keeps(Q, P) => Quiet(Q, P)
  BY DEF Keeps, Quiet
<1>2. ASSUME NEW Q, NEW P, NEW m, Adds(Q, P, m), Harmless(m) PROVE Quiet(Q, P)
  <2>1. m.type # "request"
    BY <1>2 DEF Harmless
  <2> QED
    BY <1>2, <2>1, Zenon DEF Adds, Quiet
<1>3. /\ Harmless([type |-> "handshake"])
      /\ \A t \in {"handshake_ack", "error", "shuttingDown"} : Harmless([type |-> t])
      /\ \A i : Harmless([type |-> "response", id |-> i, ok |-> FALSE])
  BY DEF Harmless
<1> QED
  BY <1>1, <1>2, <1>3

\* What is carried and what is asked.
LEMMA AskedIsCarried ==
  ASSUME NEW Q, NEW c, \A m : Carries(Q, m) /\ m.type = "request" => m.id # c
  PROVE  Unasked(Q, c)
BY DEF Unasked, Asks, Carries, At
LEMMA UnaskedIsNotCarried ==
  ASSUME NEW Q, NEW c, Unasked(Q, c), NEW m, Carries(Q, m), m.type = "request"
  PROVE  m.id # c
BY DEF Unasked, Asks, Carries, At

\* Three steps add a request or an answer to the queue of the server.
LEMMA ServerQueueStep ==
  ASSUME RpcTypeOK, [RpcNext]_rpcVars
  PROVE  \/ Quiet(toServer, toServer')
         \/ OnHandshakeAck
         \/ \E c \in Call : InvokeCall(c) /\ connected /\ ws # None
         \/ \E r \in Invoke : CapabilityReturns(r)
<1>0. toServer \in ServerQueues
  BY TypeParts
<1>1. CASE toServer' = toServer
  BY <1>1, QuietFacts, KeepsSame
<1>2. CASE OnServerRequest
  <2>1. Head(toClient[ws]).id \in Invoke
    BY <1>2, TypeParts, ReceiveFacts, ClientMsgFacts DEF OnServerRequest, RpcTypeOK
  <2>2. CASE toServer' = Sent(ws, [type |-> "response", id |-> Head(toClient[ws]).id, ok |-> FALSE])
    <3>1. [type |-> "response", id |-> Head(toClient[ws]).id, ok |-> FALSE] \in ToServerMsg
      BY <2>1, ServerMsgFacts
    <3> QED
      BY <1>0, <2>2, <3>1, SentFacts, QuietFacts
  <2> QED
    BY <1>1, <1>2, <2>2 DEF OnServerRequest
<1>3. ASSUME NEW c \in Call, InvokeCall(c)
      PROVE  toServer' = toServer \/ (connected /\ ws # None)
  BY <1>3 DEF InvokeCall
<1>4. ASSUME NEW s \in Sock, OnOpen(s) PROVE Quiet(toServer, toServer')
  <2> DEFINE m == [type |-> "handshake"]
  <2>1. m \in ToServerMsg /\ Harmless(m) /\ m.type # "request"
    BY ServerMsgFacts, QuietFacts
  <2>2. toServer \in [Sock -> Seq(ToServerMsg)]
    BY <1>0 DEF ServerQueues
  <2>3. toServer' = [toServer EXCEPT ![s] = <<m>>]
    BY <1>4 DEF OnOpen
  <2> HIDE DEF m
  <2>4. /\ toServer' \in [Sock -> Seq(ToServerMsg)]
        /\ \A t \in Sock : \/ toServer'[t] = <<>> \/ toServer'[t] = toServer[t]
                           \/ toServer'[t] = Append(toServer[t], m) \/ toServer'[t] = <<m>>
    BY <2>1, <2>2, <2>3
  <2>5. Adds(toServer, toServer', m)
    BY <2>1, <2>2, <2>4, NoRequestAdded, Zenon DEF Adds
  <2> QED
    BY <2>1, <2>5, QuietFacts
<1>5. ASSUME NEW s \in Sock, NEW type, Received(s, type) PROVE Quiet(toServer, toServer')
  BY <1>0, <1>5, ReceivedFacts, QuietFacts
<1>6. ASSUME NEW s \in Sock, OnClose(s) PROVE Quiet(toServer, toServer')
  <2>1. /\ toServer' \in ServerQueues
        /\ \A t \in Sock : toServer'[t] = <<>> \/ toServer'[t] = toServer[t]
    BY <1>0, <1>6, EmptySeq DEF OnClose, ServerQueues
  <2> QED
    BY <1>0, <2>1, ServerQueueEmptied, QuietFacts
<1>7. CASE Close
  <2>1. /\ toServer' \in ServerQueues
        /\ \A t \in Sock : toServer'[t] = <<>> \/ toServer'[t] = toServer[t]
    BY <1>7, EmptySeq DEF Close, ServerQueues
  <2> QED
    BY <1>0, <2>1, ServerQueueEmptied, QuietFacts
<1> QED
  BY <1>1, <1>2, <1>3, <1>4, <1>5, <1>6, <1>7
     DEF RpcNext, Timers, ClientStep, ServerStep, rpcVars, net,
         ConnectTimeout, RequestTimeout, InvokeTimeout, Start, OnError, OnShuttingDown, OnResponse,
         OnDisconnect, ReconnectTimeout, ReconnectNow, Destroy,
         OnHandshake, RejectHandshake, OnRequest, OnClientResponse, Expire,
         HandlerTimeout, HandlerReturns, InvokeClient, Notice

\* Two steps do to the queue of the client.
LEMMA ClientQueueStep ==
  ASSUME RpcTypeOK, [RpcNext]_rpcVars
  PROVE  \/ Quiet(toClient, toClient')
         \/ \E c \in Call : HandlerReturns(c)
         \/ \E r \in Invoke : InvokeClient(r)
<1>0. toClient \in ClientQueues
  BY TypeParts
<1>1. CASE toClient' = toClient
  BY <1>1, QuietFacts, KeepsSame
<1>2. ASSUME NEW type, Receive(type) PROVE Quiet(toClient, toClient')
  BY <1>0, <1>2, ReceiveFacts, QuietFacts DEF RpcTypeOK
<1>3. CASE Connect
  BY <1>3, ConnectTypes, QuietFacts
<1>4. ASSUME toClient' = [toClient EXCEPT ![ws] = <<>>] PROVE Quiet(toClient, toClient')
  <2>1. toClient' = [s \in Sock |-> IF s = ws THEN <<>> ELSE toClient[s]]
    BY <1>0, <1>4 DEF ClientQueues
  <2> QED
    BY <1>0, <2>1, ClientQueueEmptied, QuietFacts
<1>5. CASE Destroy
  <2>1. toClient' = [s \in Sock |-> IF s = ws THEN <<>> ELSE toClient[s]]
    BY <1>5 DEF Destroy
  <2> QED
    BY <1>0, <2>1, ClientQueueEmptied, QuietFacts
<1>6. ASSUME NEW s \in Sock, OnHandshake(s) \/ RejectHandshake(s) PROVE Quiet(toClient, toClient')
  <2>1. \E t \in {"handshake_ack", "error"} : toClient' = SafeSend(s, <<[type |-> t]>>)
    BY <1>6 DEF OnHandshake, RejectHandshake
  <2> QED
    BY <1>0, <2>1, SafeSendFacts, ClientMsgFacts, QuietFacts
<1>7. ASSUME NEW s \in Sock, OnRequest(s) PROVE Quiet(toClient, toClient')
  <2>1. Head(toServer[s]).id \in Call
    BY <1>7, TypeParts, ReceivedFacts, ServerMsgFacts DEF OnRequest
  <2>2. [type |-> "response", id |-> Head(toServer[s]).id, ok |-> FALSE] \in ToClientMsg
    BY <2>1, ClientMsgFacts
  <2>3. CASE toClient' = SafeSend(s, <<[type |-> "response", id |-> Head(toServer[s]).id, ok |-> FALSE]>>)
    BY <1>0, <2>2, <2>3, SafeSendFacts, QuietFacts
  <2> QED
    <3>1. \/ toClient' = toClient
          \/ toClient' = SafeSend(s, <<[type |-> "response", id |-> Head(toServer[s]).id, ok |-> FALSE]>>)
      BY <1>7 DEF OnRequest
    <3>2. toClient' = toClient => Quiet(toClient, toClient')
      BY QuietFacts, KeepsSame
    <3> QED
      BY <2>3, <3>1, <3>2
<1>8. ASSUME NEW c \in Call, HandlerTimeout(c) PROVE Quiet(toClient, toClient')
  BY <1>8, RespondFacts, QuietFacts DEF HandlerTimeout
<1>9. CASE Notice
  BY <1>9, NoticeQueue, QuietFacts
<1> QED
  BY <1>1, <1>2, <1>3, <1>4, <1>5, <1>6, <1>7, <1>8, <1>9
     DEF RpcNext, Timers, ClientStep, ServerStep, rpcVars, net,
         ConnectTimeout, RequestTimeout, InvokeTimeout, Start, OnHandshakeAck, OnError,
         OnShuttingDown, OnResponse, OnServerRequest, OnDisconnect, ReconnectTimeout, ReconnectNow,
         OnOpen, InvokeCall, CapabilityReturns, OnClientResponse, OnClose, Expire, Close
-----------------------------------------------------------------------------
(* The inductive invariant: requests and answers *)

\* A call whose request was not sent.
NotSent == {"none", "awaiting"}

\* A request is under way once, for a call that was sent and that no handler has
\* had; an answer says "ok" only if the handler was done. The same the other way.
RequestsInv ==
  /\ RequestsOnce(toServer)
  /\ \A m : Carries(toServer, m) /\ m.type = "request" =>
       call[m.id] \notin NotSent /\ handler[m.id] = "none"
  /\ \A m : Carries(toClient, m) /\ m.type = "response" /\ m.ok => handler[m.id] = "done"
  /\ \A c \in Call : call[c] \in NotSent => handler[c] = "none"
InvokesInv ==
  /\ RequestsOnce(toClient)
  /\ \A m : Carries(toClient, m) /\ m.type = "request" =>
       invoke[m.id] # "none" /\ capability[m.id] = "none"
  /\ \A m : Carries(toServer, m) /\ m.type = "response" /\ m.ok => capability[m.id] = "done"
  /\ \A r \in Invoke : invoke[r] = "none" => capability[r] = "none"

\* What is carried has a call or an invocation.
LEMMA CarriedIds ==
  ASSUME RpcTypeOK
  PROVE  /\ \A m : Carries(toServer, m) /\ m.type = "request" => m.id \in Call
         /\ \A m : Carries(toClient, m) /\ m.type = "response" => m.id \in Call
         /\ \A m : Carries(toClient, m) /\ m.type = "request" => m.id \in Invoke
         /\ \A m : Carries(toServer, m) /\ m.type = "response" => m.id \in Invoke
<1>1. \A m : Carries(toServer, m) => m \in ToServerMsg
  BY TypeParts, CarriedType DEF ServerQueues
<1>2. \A m : Carries(toClient, m) => m \in ToClientMsg
  BY TypeParts, CarriedType DEF ClientQueues
<1> QED
  BY <1>1, <1>2, ServerMsgFacts, ClientMsgFacts

\* What steps other than those of requests do to the calls, and what those of
\* handlers do.
LEMMA CallStep ==
  ASSUME RpcTypeOK, [RpcNext]_rpcVars
  PROVE  \/ \A c \in Call : \/ call'[c] = call[c]
                            \/ call[c] = "awaiting" /\ call'[c] = "pending" /\ OnHandshakeAck
                            \/ call[c] \in {"awaiting", "pending"} /\ call'[c] = "rejected"
         \/ OnResponse
         \/ \E c \in Call : InvokeCall(c)
<1>1. CASE call' = call
  BY <1>1
<1>2. ASSUME \/ call' = Rejected(Pending)
             \/ call' = Rejected(WaitingFor(readyPromise))
             \/ call' = Rejected(Pending \union WaitingFor(readyPromise))
      PROVE  \A c \in Call : \/ call'[c] = call[c]
                             \/ call[c] \in {"awaiting", "pending"} /\ call'[c] = "rejected"
  BY <1>2 DEF Rejected, Pending, WaitingFor
<1>3. ASSUME OnHandshakeAck
      PROVE  \A c \in Call : \/ call'[c] = call[c]
                             \/ call[c] = "awaiting" /\ call'[c] \in {"pending", "rejected"}
  <2>1. call' = Requests(WaitingFor(readyPromise))
    BY <1>3 DEF OnHandshakeAck
  <2> QED
    BY <2>1 DEF Requests, WaitingFor
<1>4. ASSUME NEW c \in Call, RequestTimeout(c)
      PROVE  \A d \in Call : \/ call'[d] = call[d]
                             \/ call[d] \in {"awaiting", "pending"} /\ call'[d] = "rejected"
  BY <1>4 DEF RequestTimeout, AtCall, RpcTypeOK
<1>5. \/ call' = call
      \/ call' = Rejected(Pending)
      \/ call' = Rejected(WaitingFor(readyPromise))
      \/ call' = Rejected(Pending \union WaitingFor(readyPromise))
      \/ OnHandshakeAck \/ OnResponse
      \/ \E c \in Call : RequestTimeout(c) \/ InvokeCall(c)
  BY DEF RpcNext, Timers, ClientStep, ServerStep, rpcVars, calls,
         ConnectTimeout, InvokeTimeout, Start, OnError, FailReady, RejectAll,
         OnShuttingDown, OnServerRequest, OnDisconnect, ReconnectTimeout, ReconnectNow, Destroy,
         OnOpen, CapabilityReturns, OnHandshake, RejectHandshake, OnRequest, OnClientResponse,
         OnClose, Expire, HandlerTimeout, HandlerReturns, InvokeClient, Notice, Close
<1> QED
  BY <1>1, <1>2, <1>3, <1>4, <1>5

LEMMA HandlerStep ==
  ASSUME RpcTypeOK, [RpcNext]_rpcVars
  PROVE  \/ \A c \in Call : \/ handler'[c] = handler[c]
                            \/ handler[c] \in {"running", "late"} /\ handler'[c] \in {"late", "lost"}
         \/ \E s \in Sock : OnRequest(s)
         \/ \E c \in Call : HandlerReturns(c)
<1>1. CASE handler' = handler
  BY <1>1
<1>2. ASSUME NEW c \in Call, HandlerTimeout(c)
      PROVE  \A d \in Call : \/ handler'[d] = handler[d]
                             \/ handler[d] \in {"running", "late"} /\ handler'[d] \in {"late", "lost"}
  BY <1>2 DEF HandlerTimeout, RpcTypeOK
<1>3. ASSUME Close
      PROVE  \A d \in Call : \/ handler'[d] = handler[d]
                             \/ handler[d] \in {"running", "late"} /\ handler'[d] \in {"late", "lost"}
  BY <1>3 DEF Close
<1>4. \/ handler' = handler
      \/ \E s \in Sock : OnRequest(s)
      \/ \E c \in Call : HandlerReturns(c) \/ HandlerTimeout(c)
      \/ Close
  BY DEF RpcNext, Timers, ClientStep, ServerStep, rpcVars, handlers,
         ConnectTimeout, RequestTimeout, InvokeTimeout, Start, OnHandshakeAck, OnError,
         OnShuttingDown, OnResponse, OnServerRequest, OnDisconnect, ReconnectTimeout, ReconnectNow,
         Destroy, OnOpen, InvokeCall, CapabilityReturns, OnHandshake, RejectHandshake,
         OnClientResponse, OnClose, Expire, InvokeClient, Notice
<1> QED
  BY <1>1, <1>2, <1>3, <1>4

\* The same for the calls of the server and the handlers of the client.
LEMMA InvokeStep ==
  ASSUME RpcTypeOK, [RpcNext]_rpcVars
  PROVE  \/ \A r \in Invoke : \/ invoke'[r] = invoke[r]
                              \/ invoke[r] = "pending" /\ invoke'[r] = "rejected"
         \/ \E s \in Sock : OnClientResponse(s)
         \/ \E r \in Invoke : InvokeClient(r)
<1>1. CASE invoke' = invoke
  BY <1>1
<1>2. ASSUME NEW r \in Invoke, InvokeTimeout(r)
      PROVE  \A q \in Invoke : \/ invoke'[q] = invoke[q]
                               \/ invoke[q] = "pending" /\ invoke'[q] = "rejected"
  BY <1>2 DEF InvokeTimeout, RpcTypeOK
<1>3. ASSUME NEW I, invoke' = RejectInvokes(I)
      PROVE  \A q \in Invoke : \/ invoke'[q] = invoke[q]
                               \/ invoke[q] = "pending" /\ invoke'[q] = "rejected"
  BY <1>3 DEF RejectInvokes
<1>4. \/ invoke' = invoke
      \/ \E r \in Invoke : InvokeTimeout(r) \/ InvokeClient(r)
      \/ \E s \in Sock : OnClientResponse(s)
      \/ \E I : invoke' = RejectInvokes(I)
  BY DEF RpcNext, Timers, ClientStep, ServerStep, rpcVars, invokes,
         ConnectTimeout, RequestTimeout, Start, OnHandshakeAck, OnError,
         OnShuttingDown, OnResponse, OnServerRequest, OnDisconnect, ReconnectTimeout, ReconnectNow,
         Destroy, OnOpen, InvokeCall, CapabilityReturns, OnHandshake, RejectHandshake, OnRequest,
         OnClose, Expire, HandlerTimeout, HandlerReturns, Notice, Close
<1> QED
  BY <1>1, <1>2, <1>3, <1>4

LEMMA CapabilityStep ==
  ASSUME [RpcNext]_rpcVars
  PROVE  capability' = capability \/ OnServerRequest \/ \E r \in Invoke : CapabilityReturns(r)
BY DEF RpcNext, Timers, ClientStep, ServerStep, rpcVars,
       ConnectTimeout, RequestTimeout, InvokeTimeout, Start, OnHandshakeAck, OnError,
       OnShuttingDown, OnResponse, OnDisconnect, ReconnectTimeout, ReconnectNow,
       Destroy, OnOpen, InvokeCall, OnHandshake, RejectHandshake, OnRequest, OnClientResponse,
       OnClose, Expire, HandlerTimeout, HandlerReturns, InvokeClient, Notice, Close
\* The requests of the client: steps that add none, and none of the answers
\* that say "ok", but for those of a handler that is done now.
LEMMA RequestsKept ==
  ASSUME RpcTypeOK, RequestsInv, RequestsOnce(toServer'),
         \A m : Carries(toServer', m) /\ m.type = "request" => Carries(toServer, m),
         \A m : Carries(toClient', m) /\ m.type = "response" /\ m.ok =>
           Carries(toClient, m) \/ handler'[m.id] = "done",
         \A c \in Call : /\ handler[c] = "none" => handler'[c] = "none"
                         /\ handler[c] = "done" => handler'[c] = "done"
                         /\ call'[c] \in NotSent => call[c] \in NotSent
  PROVE  RequestsInv'
<1>2. ASSUME NEW m, Carries(toServer', m), m.type = "request"
      PROVE  call'[m.id] \notin NotSent /\ handler'[m.id] = "none"
  <2>1. Carries(toServer, m)
    BY <1>2
  <2>2. m.id \in Call /\ call[m.id] \notin NotSent /\ handler[m.id] = "none"
    BY <1>2, <2>1, CarriedIds DEF RequestsInv
  <2> QED
    BY <2>2
<1>3. ASSUME NEW m, Carries(toClient', m), m.type = "response", m.ok
      PROVE  handler'[m.id] = "done"
  <2>1. CASE Carries(toClient, m)
    <3>1. m.id \in Call /\ handler[m.id] = "done"
      BY <1>3, <2>1, CarriedIds DEF RequestsInv
    <3> QED
      BY <3>1
  <2> QED
    BY <1>3, <2>1
<1>4. \A c \in Call : call'[c] \in NotSent => handler'[c] = "none"
  BY DEF RequestsInv
<1> QED
  BY <1>2, <1>3, <1>4 DEF RequestsInv

\* The calls in S send their requests.
LEMMA RequestsSent ==
  ASSUME RpcTypeOK, RequestsInv, NEW S \in SUBSET Call, handler' = handler,
         \A c \in S : call[c] \in NotSent,
         RequestsOnce(toServer) /\ (\A c \in S : Unasked(toServer, c)) => RequestsOnce(toServer'),
         \A m : Carries(toServer', m) =>
           \/ Carries(toServer, m)
           \/ m.type = "request" /\ m.id \in S /\ call'[m.id] \notin NotSent,
         \A m : Carries(toClient', m) /\ m.type = "response" /\ m.ok =>
           Carries(toClient, m) \/ handler'[m.id] = "done",
         \A c \in Call : call'[c] \in NotSent => call[c] \in NotSent
  PROVE  RequestsInv'
<1>1. ASSUME NEW c \in S PROVE Unasked(toServer, c)
  BY <1>1, AskedIsCarried DEF RequestsInv
<1>2. RequestsOnce(toServer')
  BY <1>1 DEF RequestsInv
<1>3. ASSUME NEW m, Carries(toServer', m), m.type = "request"
      PROVE  call'[m.id] \notin NotSent /\ handler'[m.id] = "none"
  <2>1. CASE Carries(toServer, m)
    <3>1. m.id \in Call /\ call[m.id] \notin NotSent /\ handler[m.id] = "none"
      BY <1>3, <2>1, CarriedIds DEF RequestsInv
    <3> QED
      BY <3>1
  <2>2. CASE m.id \in S /\ call'[m.id] \notin NotSent
    BY <2>2 DEF RequestsInv
  <2> QED
    BY <1>3, <2>1, <2>2
<1>4. ASSUME NEW m, Carries(toClient', m), m.type = "response", m.ok
      PROVE  handler'[m.id] = "done"
  BY <1>4 DEF RequestsInv
<1>5. \A c \in Call : call'[c] \in NotSent => handler'[c] = "none"
  BY DEF RequestsInv
<1> QED
  BY <1>2, <1>3, <1>4, <1>5 DEF RequestsInv

\* What a step leaves of the calls and of what is under way keeps the invariant.
LEMMA RequestsInvStep ==
  ASSUME RpcTypeOK, RpcTypeOK', RequestsInv, [RpcNext]_rpcVars PROVE RequestsInv'
<1> DEFINE HandlersKept == \A c \in Call : /\ handler[c] = "none" => handler'[c] = "none"
                                           /\ handler[c] = "done" => handler'[c] = "done"
           CallsKept == \A c \in Call : call'[c] \in NotSent => call[c] \in NotSent
           NoAnswer == \A m : Carries(toClient', m) /\ m.type = "response" /\ m.ok =>
                         Carries(toClient, m) \/ handler'[m.id] = "done"
\* Calls are sent, and not unsent.
<1>1. CallsKept
  <2>1. ASSUME OnResponse PROVE CallsKept
    BY <2>1 DEF OnResponse, Settled, NotSent, RpcTypeOK
  <2>2. ASSUME NEW c \in Call, InvokeCall(c) PROVE CallsKept
    <3>1. call[c] = "none" /\ \A d \in Call : d # c => call'[d] = call[d]
      BY <2>2 DEF InvokeCall, NextToIssue, AtCall, RpcTypeOK
    <3> QED
      BY <3>1 DEF NotSent
  <2> QED
    BY <2>1, <2>2, CallStep DEF NotSent
<1>2. NoAnswer
  <2>1. CASE Quiet(toClient, toClient')
    BY <2>1 DEF Quiet, Harmless
  <2>2. ASSUME NEW c \in Call, HandlerReturns(c) PROVE NoAnswer
    <3>1. handler'[c] = "done"
      BY <2>2 DEF HandlerReturns, RpcTypeOK
    <3>2. CASE handler[c] = "running"
      <4>1. PICK ok \in BOOLEAN : Respond(c, ok)
        BY <2>2, <3>2 DEF HandlerReturns
      <4>2. Adds(toClient, toClient', [type |-> "response", id |-> c, ok |-> ok])
        BY <4>1, RespondFacts
      <4>3. \A m : Carries(toClient', m) => Carries(toClient, m) \/ m.id = c
        BY <4>2 DEF Adds
      <4> QED
        BY <3>1, <4>3
    <3>3. CASE handler[c] # "running"
      BY <2>2, <3>3 DEF HandlerReturns
    <3> QED
      BY <3>2, <3>3
  <2>3. ASSUME NEW r \in Invoke, InvokeClient(r) PROVE NoAnswer
    <3>1. CASE toClient' = toClient
      BY <3>1
    <3>2. ASSUME NEW s, toClient' = SafeSend(s, <<[type |-> "request", id |-> r]>>) PROVE NoAnswer
      <4>1. Adds(toClient, toClient', [type |-> "request", id |-> r])
        BY <3>2, TypeParts, SafeSendFacts, ClientMsgFacts
      <4>2. \A m : Carries(toClient', m) => Carries(toClient, m) \/ m.type = "request"
        BY <4>1 DEF Adds
      <4> QED
        BY <4>2
    <3> QED
      BY <2>3, <3>1, <3>2 DEF InvokeClient
  <2> QED
    BY <2>1, <2>2, <2>3, ClientQueueStep
\* A request comes to its handler, and was the only one for its call.
<1>3. ASSUME NEW s \in Sock, OnRequest(s), handler' # handler PROVE RequestsInv'
  <2> DEFINE c == Head(toServer[s]).id
  <2>1. /\ c \in Call /\ Keeps(toServer, toServer') /\ Carries(toServer, Head(toServer[s]))
        /\ Head(toServer[s]).type = "request" /\ Unasked(toServer', c)
    BY <1>3, TypeParts, ReceivedFacts, ServerMsgFacts DEF OnRequest, RequestsInv
  <2>2. handler' = [handler EXCEPT ![c] = "running"]
    BY <1>3 DEF OnRequest, handlers
  <2>3. UNCHANGED <<toClient, call>>
    BY <1>3 DEF OnRequest, handlers, calls
  <2> HIDE DEF c
  <2>4. handler[c] = "none" /\ call[c] \notin NotSent
    BY <2>1 DEF RequestsInv, c
  <2>5. \A d \in Call : handler'[d] = IF d = c THEN "running" ELSE handler[d]
    BY <2>2 DEF RpcTypeOK
  <2>6. ASSUME NEW m, Carries(toServer', m), m.type = "request"
        PROVE  call'[m.id] \notin NotSent /\ handler'[m.id] = "none"
    <3>1. Carries(toServer, m) /\ m.id # c
      BY <2>1, <2>6, UnaskedIsNotCarried DEF Keeps
    <3>2. m.id \in Call /\ call[m.id] \notin NotSent /\ handler[m.id] = "none"
      BY <2>6, <3>1, CarriedIds DEF RequestsInv
    <3> QED
      BY <2>3, <2>5, <3>1, <3>2
  <2>7. ASSUME NEW m, Carries(toClient', m), m.type = "response", m.ok
        PROVE  handler'[m.id] = "done"
    <3>1. m.id \in Call /\ handler[m.id] = "done"
      BY <2>3, <2>7, CarriedIds DEF RequestsInv
    <3> QED
      BY <2>4, <2>5, <3>1
  <2>8. RequestsOnce(toServer')
    BY <2>1 DEF RequestsInv, Keeps
  <2>9. \A d \in Call : call'[d] \in NotSent => handler'[d] = "none"
    BY <2>3, <2>4, <2>5 DEF RequestsInv
  <2> QED
    BY <2>6, <2>7, <2>8, <2>9 DEF RequestsInv
\* All other steps of handlers leave "none" and "done" alone.
<1>4. HandlersKept \/ \E s \in Sock : OnRequest(s) /\ handler' # handler
  <2>1. CASE handler' = handler
    BY <2>1
  <2>2. ASSUME NEW c \in Call, HandlerReturns(c) PROVE HandlersKept
    BY <2>2 DEF HandlerReturns, RpcTypeOK
  <2> QED
    BY <2>1, <2>2, HandlerStep
<1>5. CASE Quiet(toServer, toServer')
  <2>1. /\ RequestsOnce(toServer')
        /\ \A m : Carries(toServer', m) /\ m.type = "request" => Carries(toServer, m)
    BY <1>5 DEF RequestsInv, Quiet, Harmless
  <2>2. CASE HandlersKept
    BY <1>1, <1>2, <2>1, <2>2, RequestsKept
  <2> QED
    BY <1>3, <1>4, <2>2
<1>6. CASE OnHandshakeAck
  <2> DEFINE W == WaitingFor(readyPromise)
  <2>1. /\ \A x : Carries(toServer', x) =>
             \/ Carries(toServer, x)
             \/ CanSend(ws) /\ \E c \in W : x = [type |-> "request", id |-> c]
        /\ RequestsOnce(toServer) /\ (\A c \in W : Unasked(toServer, c))
           => RequestsOnce(toServer')
    BY <1>6, AckQueue
  <2>2. /\ W \in SUBSET Call /\ \A c \in W : call[c] \in NotSent
        /\ CanSend(ws) => \A c \in W : call'[c] = "pending"
        /\ handler' = handler
    BY <1>6 DEF OnHandshakeAck, Requests, WaitingFor, NotSent, handlers
  <2> HIDE DEF W
  <2>3. \A m : Carries(toServer', m) =>
          \/ Carries(toServer, m)
          \/ m.type = "request" /\ m.id \in W /\ call'[m.id] \notin NotSent
    <3>1. ASSUME NEW c \in W, CanSend(ws), NEW m, m = [type |-> "request", id |-> c]
          PROVE  m.type = "request" /\ m.id \in W /\ call'[m.id] \notin NotSent
      <4>1. m.type = "request" /\ m.id = c
        BY <3>1
      <4> QED
        BY <2>2, <3>1, <4>1 DEF NotSent
    <3> QED
      BY <2>1, <3>1
  <2> QED
    BY <1>1, <1>2, <2>1, <2>2, <2>3, RequestsSent
<1>7. ASSUME NEW c \in Call, InvokeCall(c), connected, ws # None PROVE RequestsInv'
  <2> DEFINE m == [type |-> "request", id |-> c]
  <2>1. /\ call[c] = "none" /\ handler' = handler
        /\ AtCall(c, IF CanSend(ws) THEN "pending" ELSE "rejected", None) \/ AtCall(c, "rejected", None)
        /\ toServer' = Sent(ws, m) \/ toServer' = toServer
    BY <1>7 DEF InvokeCall, NextToIssue, handlers
  <2>2. call'[c] \in {"pending", "rejected"}
    BY <2>1 DEF AtCall, RpcTypeOK
  <2>3. m \in ToServerMsg /\ m.type = "request" /\ m.id = c
    BY ServerMsgFacts
  <2> HIDE DEF m
  <2>4. Adds(toServer, toServer', m)
    <3>1. Adds(toServer, toServer, m)
      BY DEF Adds
    <3> QED
      BY <2>1, <2>3, <3>1, SentFacts, TypeParts
  <2>5. \A x : Carries(toServer', x) =>
          \/ Carries(toServer, x)
          \/ x.type = "request" /\ x.id \in {c} /\ call'[x.id] \notin NotSent
    BY <2>2, <2>3, <2>4 DEF Adds, NotSent
  <2>6. RequestsOnce(toServer) /\ (\A d \in {c} : Unasked(toServer, d)) => RequestsOnce(toServer')
    BY <2>3, <2>4 DEF Adds
  <2>7. {c} \in SUBSET Call /\ \A d \in {c} : call[d] \in NotSent
    BY <2>1 DEF NotSent
  <2> QED
    BY <1>1, <1>2, <2>1, <2>5, <2>6, <2>7, RequestsSent
<1>8. ASSUME NEW r \in Invoke, CapabilityReturns(r) PROVE RequestsInv'
  <2>1. PICK ok \in BOOLEAN : toServer' = Sent(ws, [type |-> "response", id |-> r, ok |-> ok])
    BY <1>8 DEF CapabilityReturns
  <2>2. /\ [type |-> "response", id |-> r, ok |-> ok] \in ToServerMsg
        /\ [type |-> "response", id |-> r, ok |-> ok].type # "request"
    BY ServerMsgFacts
  <2>3. Adds(toServer, toServer', [type |-> "response", id |-> r, ok |-> ok])
    BY <2>1, <2>2, SentFacts, TypeParts
  <2>4. /\ RequestsOnce(toServer')
        /\ \A m : Carries(toServer', m) /\ m.type = "request" => Carries(toServer, m)
    BY <2>2, <2>3 DEF Adds, RequestsInv
  <2>5. HandlersKept
    BY <1>8 DEF CapabilityReturns, handlers
  <2> QED
    BY <1>1, <1>2, <2>4, <2>5, RequestsKept
<1> QED
  BY <1>5, <1>6, <1>7, <1>8, ServerQueueStep
\* The requests of the server, in the same way.
LEMMA InvokesKept ==
  ASSUME RpcTypeOK, InvokesInv, RequestsOnce(toClient'),
         \A m : Carries(toClient', m) /\ m.type = "request" => Carries(toClient, m),
         \A m : Carries(toServer', m) /\ m.type = "response" /\ m.ok =>
           Carries(toServer, m) \/ capability'[m.id] = "done",
         \A r \in Invoke : /\ capability[r] = "none" => capability'[r] = "none"
                           /\ capability[r] = "done" => capability'[r] = "done"
                           /\ invoke'[r] = "none" => invoke[r] = "none"
  PROVE  InvokesInv'
<1>1. ASSUME NEW m, Carries(toClient', m), m.type = "request"
      PROVE  invoke'[m.id] # "none" /\ capability'[m.id] = "none"
  <2>1. Carries(toClient, m)
    BY <1>1
  <2>2. m.id \in Invoke /\ invoke[m.id] # "none" /\ capability[m.id] = "none"
    BY <1>1, <2>1, CarriedIds DEF InvokesInv
  <2> QED
    BY <2>2
<1>2. ASSUME NEW m, Carries(toServer', m), m.type = "response", m.ok
      PROVE  capability'[m.id] = "done"
  <2>1. CASE Carries(toServer, m)
    <3>1. m.id \in Invoke /\ capability[m.id] = "done"
      BY <1>2, <2>1, CarriedIds DEF InvokesInv
    <3> QED
      BY <3>1
  <2> QED
    BY <1>2, <2>1
<1>3. \A r \in Invoke : invoke'[r] = "none" => capability'[r] = "none"
  BY DEF InvokesInv
<1> QED
  BY <1>1, <1>2, <1>3 DEF InvokesInv

LEMMA InvokesInvStep ==
  ASSUME RpcTypeOK, RpcTypeOK', InvokesInv, [RpcNext]_rpcVars PROVE InvokesInv'
<1> DEFINE CapabilitiesKept ==
             \A r \in Invoke : /\ capability[r] = "none" => capability'[r] = "none"
                               /\ capability[r] = "done" => capability'[r] = "done"
           CallsKept == \A r \in Invoke : invoke'[r] = "none" => invoke[r] = "none"
           NoAnswer == \A m : Carries(toServer', m) /\ m.type = "response" /\ m.ok =>
                         Carries(toServer, m) \/ capability'[m.id] = "done"
<1>1. CallsKept
  <2>1. ASSUME NEW s \in Sock, OnClientResponse(s) PROVE CallsKept
    BY <2>1 DEF OnClientResponse, Settled, RpcTypeOK
  <2>2. ASSUME NEW r \in Invoke, InvokeClient(r) PROVE CallsKept
    <3>1. invoke[r] = "none" /\ \A q \in Invoke : q # r => invoke'[q] = invoke[q]
      BY <2>2 DEF InvokeClient, NextToIssue, RpcTypeOK
    <3> QED
      BY <3>1
  <2> QED
    BY <2>1, <2>2, InvokeStep
<1>2. NoAnswer
  <2>1. CASE Quiet(toServer, toServer')
    BY <2>1 DEF Quiet, Harmless
  <2>2. CASE OnHandshakeAck
    <3>1. \A x : Carries(toServer', x) =>
            Carries(toServer, x) \/ \E c : x = [type |-> "request", id |-> c]
      BY <2>2, AckQueue
    <3>2. \A c : [type |-> "request", id |-> c].type # "response"
      BY ServerMsgFacts
    <3> QED
      BY <3>1, <3>2
  <2>3. ASSUME NEW c \in Call, InvokeCall(c) PROVE NoAnswer
    <3>1. toServer' = toServer \/ toServer' = Sent(ws, [type |-> "request", id |-> c])
      BY <2>3 DEF InvokeCall
    <3>2. /\ [type |-> "request", id |-> c] \in ToServerMsg
          /\ [type |-> "request", id |-> c].type # "response"
      BY ServerMsgFacts
    <3>3. CASE toServer' = Sent(ws, [type |-> "request", id |-> c])
      <4>1. Adds(toServer, toServer', [type |-> "request", id |-> c])
        BY <3>2, <3>3, SentFacts, TypeParts
      <4> QED
        BY <3>2, <4>1 DEF Adds
    <3> QED
      BY <3>1, <3>3
  <2>4. ASSUME NEW r \in Invoke, CapabilityReturns(r) PROVE NoAnswer
    <3>1. capability'[r] = "done"
      BY <2>4 DEF CapabilityReturns, RpcTypeOK
    <3>2. PICK ok \in BOOLEAN : toServer' = Sent(ws, [type |-> "response", id |-> r, ok |-> ok])
      BY <2>4 DEF CapabilityReturns
    <3>3. /\ [type |-> "response", id |-> r, ok |-> ok] \in ToServerMsg
          /\ [type |-> "response", id |-> r, ok |-> ok].id = r
      BY ServerMsgFacts
    <3>4. Adds(toServer, toServer', [type |-> "response", id |-> r, ok |-> ok])
      BY <3>2, <3>3, SentFacts, TypeParts
    <3>5. \A m : Carries(toServer', m) => Carries(toServer, m) \/ m.id = r
      BY <3>3, <3>4 DEF Adds
    <3> QED
      BY <3>1, <3>5
  <2> QED
    BY <2>1, <2>2, <2>3, <2>4, ServerQueueStep
\* The server's call comes to the client's handler.
<1>3. CASE OnServerRequest /\ capability' # capability
  <2> DEFINE r == Head(toClient[ws]).id
  <2>1. /\ r \in Invoke /\ Keeps(toClient, toClient') /\ Carries(toClient, Head(toClient[ws]))
        /\ Head(toClient[ws]).type = "request" /\ Unasked(toClient', r)
    BY <1>3, TypeParts, ReceiveFacts, ClientMsgFacts DEF OnServerRequest, InvokesInv, RpcTypeOK
  <2>2. capability' = [capability EXCEPT ![r] = "running"] /\ UNCHANGED <<toServer, invoke>>
    BY <1>3 DEF OnServerRequest, invokes
  <2> HIDE DEF r
  <2>3. invoke[r] # "none" /\ capability[r] = "none"
    BY <2>1 DEF InvokesInv, r
  <2>4. \A q \in Invoke : capability'[q] = IF q = r THEN "running" ELSE capability[q]
    BY <2>2 DEF RpcTypeOK
  <2>5. ASSUME NEW m, Carries(toClient', m), m.type = "request"
        PROVE  invoke'[m.id] # "none" /\ capability'[m.id] = "none"
    <3>1. Carries(toClient, m) /\ m.id # r
      BY <2>1, <2>5, UnaskedIsNotCarried DEF Keeps
    <3>2. m.id \in Invoke /\ invoke[m.id] # "none" /\ capability[m.id] = "none"
      BY <2>5, <3>1, CarriedIds DEF InvokesInv
    <3> QED
      BY <2>2, <2>4, <3>1, <3>2
  <2>6. ASSUME NEW m, Carries(toServer', m), m.type = "response", m.ok
        PROVE  capability'[m.id] = "done"
    <3>1. m.id \in Invoke /\ capability[m.id] = "done"
      BY <2>2, <2>6, CarriedIds DEF InvokesInv
    <3> QED
      BY <2>3, <2>4, <3>1
  <2>7. RequestsOnce(toClient')
    BY <2>1 DEF InvokesInv, Keeps
  <2>8. \A q \in Invoke : invoke'[q] = "none" => capability'[q] = "none"
    BY <2>2, <2>3, <2>4 DEF InvokesInv
  <2> QED
    BY <2>5, <2>6, <2>7, <2>8 DEF InvokesInv
<1>4. CapabilitiesKept \/ (OnServerRequest /\ capability' # capability)
  <2>1. CASE capability' = capability
    BY <2>1
  <2>2. ASSUME NEW r \in Invoke, CapabilityReturns(r) PROVE CapabilitiesKept
    BY <2>2 DEF CapabilityReturns, RpcTypeOK
  <2> QED
    BY <2>1, <2>2, CapabilityStep
<1>5. ASSUME RequestsOnce(toClient'),
             \A m : Carries(toClient', m) /\ m.type = "request" => Carries(toClient, m)
      PROVE  InvokesInv'
  BY <1>1, <1>2, <1>3, <1>4, <1>5, InvokesKept
<1>6. CASE Quiet(toClient, toClient')
  <2>1. /\ RequestsOnce(toClient')
        /\ \A m : Carries(toClient', m) /\ m.type = "request" => Carries(toClient, m)
    BY <1>6 DEF InvokesInv, Quiet, Harmless
  <2> QED
    BY <1>5, <2>1
<1>7. ASSUME NEW c \in Call, HandlerReturns(c) PROVE InvokesInv'
  <2>1. CASE toClient' = toClient
    BY <1>5, <2>1 DEF InvokesInv
  <2>2. ASSUME NEW ok \in BOOLEAN, Respond(c, ok) PROVE InvokesInv'
    <3>1. Adds(toClient, toClient', [type |-> "response", id |-> c, ok |-> ok])
      BY <2>2, RespondFacts
    <3>2. [type |-> "response", id |-> c, ok |-> ok].type # "request"
      BY ServerMsgFacts
    <3>3. /\ RequestsOnce(toClient')
          /\ \A m : Carries(toClient', m) /\ m.type = "request" => Carries(toClient, m)
      BY <3>1, <3>2 DEF Adds, InvokesInv
    <3> QED
      BY <1>5, <3>3
  <2> QED
    BY <1>7, <2>1, <2>2 DEF HandlerReturns
\* The server calls a client: the call was not made before.
<1>8. ASSUME NEW r \in Invoke, InvokeClient(r) PROVE InvokesInv'
  <2>1. /\ invoke[r] = "none" /\ capability' = capability /\ invoke'[r] # "none"
        /\ toServer' = toServer
    BY <1>8 DEF InvokeClient, NextToIssue, RpcTypeOK
  <2>2. CASE toClient' = toClient
    BY <1>5, <2>2 DEF InvokesInv
  <2>3. ASSUME NEW s, toClient' = SafeSend(s, <<[type |-> "request", id |-> r]>>)
        PROVE  InvokesInv'
    <3> DEFINE m == [type |-> "request", id |-> r]
    <3>1. m \in ToClientMsg /\ m.type = "request" /\ m.id = r
      BY ClientMsgFacts
    <3>2. toClient' = SafeSend(s, <<m>>)
      BY <2>3
    <3> HIDE DEF m
    <3>3. Adds(toClient, toClient', m)
      BY <3>1, <3>2, SafeSendFacts, TypeParts
    <3>4. Unasked(toClient, r)
      BY <2>1, AskedIsCarried DEF InvokesInv
    <3>5. RequestsOnce(toClient')
      BY <3>1, <3>3, <3>4 DEF Adds, InvokesInv
    <3>6. ASSUME NEW x, Carries(toClient', x), x.type = "request"
          PROVE  invoke'[x.id] # "none" /\ capability'[x.id] = "none"
      <4>1. CASE x = m
        BY <2>1, <3>1, <4>1 DEF InvokesInv
      <4>2. CASE Carries(toClient, x)
        <5>1. x.id \in Invoke /\ invoke[x.id] # "none" /\ capability[x.id] = "none"
          BY <3>6, <4>2, CarriedIds DEF InvokesInv
        <5> QED
          BY <1>1, <2>1, <5>1
      <4> QED
        BY <3>3, <3>6, <4>1, <4>2 DEF Adds
    <3>7. /\ \A x : Carries(toServer', x) /\ x.type = "response" /\ x.ok => capability'[x.id] = "done"
          /\ \A q \in Invoke : invoke'[q] = "none" => capability'[q] = "none"
      BY <1>1, <2>1 DEF InvokesInv
    <3> QED
      BY <3>5, <3>6, <3>7 DEF InvokesInv
  <2> QED
    BY <1>8, <2>2, <2>3 DEF InvokeClient
<1> QED
  BY <1>6, <1>7, <1>8, ClientQueueStep
-----------------------------------------------------------------------------
(* The refinement of RemoteCall, in both directions *)

LEMMA OutcomeFacts ==
  /\ Outcome("none") = "none"
  /\ Outcome("awaiting") = "waiting" /\ Outcome("pending") = "waiting"
  /\ Outcome("resolved") = "answered" /\ Outcome("rejected") = "refused"
BY DEF Outcome

\* A step of invoke() is one of RemoteCall.
LEMMA RequestedStep ==
  ASSUME RpcTypeOK, RpcTypeOK', RequestsInv, [RpcNext]_rpcVars
  PROVE  [Requested!CallNext]_(Requested!callVars)
<1> DEFINE Had == [c \in Call |-> Outcome(call[c])]
           Has == [c \in Call |-> Outcome(call'[c])]
           Done == {c \in Call : handler[c] = "done"}
           NowDone == {c \in Call : handler'[c] = "done"}
<1> USE DEF Requested!CallNext, Requested!callVars, Requested!Settle, Requested!TakeEffect,
            Requested!Refuse
\* Calls are refused, several perhaps, or nothing that shows.
<1>1. ASSUME \A c \in Call : \/ Outcome(call'[c]) = Outcome(call[c])
                             \/ /\ Outcome(call[c]) \in {"none", "waiting"}
                                /\ Outcome(call'[c]) = "refused",
             NowDone = Done
      PROVE  Requested!CallNext
  <2> DEFINE cs == {c \in Call : Outcome(call'[c]) # Outcome(call[c])}
  <2>1. /\ cs \subseteq {c \in Call : Had[c] \in {"none", "waiting"}}
        /\ Has = [c \in Call |-> IF c \in cs THEN "refused" ELSE Had[c]]
    BY <1>1
  <2>2. cs \in SUBSET Call
    OBVIOUS
  <2> HIDE DEF cs
  <2> QED
    BY <1>1, <2>1, <2>2
\* What becomes of the calls, and of the handlers, is never both in one step.
<1>2. ASSUME NowDone # Done PROVE \E c \in Call : HandlerReturns(c)
  <2>1. ASSUME NEW s \in Sock, OnRequest(s) PROVE NowDone = Done
    <3>1. CASE handler' = handler
      BY <3>1
    <3>2. CASE handler' # handler
      <4> DEFINE c == Head(toServer[s]).id
      <4>1. c \in Call /\ Carries(toServer, Head(toServer[s])) /\ Head(toServer[s]).type = "request"
        BY <2>1, TypeParts, ReceivedFacts, ServerMsgFacts DEF OnRequest
      <4>2. handler' = [handler EXCEPT ![c] = "running"]
        BY <2>1, <3>2 DEF OnRequest, handlers
      <4>3. handler[c] = "none"
        BY <4>1 DEF RequestsInv
      <4> HIDE DEF c
      <4> QED
        BY <4>1, <4>2, <4>3 DEF RpcTypeOK
    <3> QED
      BY <3>1, <3>2
  <2>2. ASSUME \A c \in Call : \/ handler'[c] = handler[c]
                               \/ handler[c] \in {"running", "late"} /\ handler'[c] \in {"late", "lost"}
        PROVE  NowDone = Done
    BY <2>2
  <2> QED
    BY <1>2, <2>1, <2>2, HandlerStep
<1>3. ASSUME NEW c \in Call, HandlerReturns(c) PROVE Requested!CallNext
  <2>1. /\ handler[c] \in {"running", "late"} /\ call' = call
        /\ \A d \in Call : handler'[d] = IF d = c THEN "done" ELSE handler[d]
    BY <1>3 DEF HandlerReturns, calls, RpcTypeOK
  <2>2. call[c] \in Where /\ call[c] # "none"
    BY <2>1 DEF RequestsInv, NotSent, RpcTypeOK
  <2>3. Had[c] # "none"
    BY <2>2, OutcomeFacts DEF Where
  <2>4. c \notin Done /\ NowDone = Done \union {c} /\ Has = Had
    BY <2>1
  <2> QED
    BY <2>3, <2>4
<1>4. ASSUME OnResponse, NowDone = Done PROVE Requested!CallNext
  <2> DEFINE m == Head(toClient[ws])
  <2>1. m \in ToClientMsg /\ m.type = "response" /\ Carries(toClient, m)
    BY <1>4, TypeParts, ReceiveFacts DEF OnResponse, RpcTypeOK
  <2>2. m.id \in Call /\ m.ok \in BOOLEAN
    BY <2>1, ClientMsgFacts
  <2>3. m.ok => m.id \in Done
    BY <2>1, <2>2 DEF RequestsInv
  <2>4. call' = Settled(call, m)
    BY <1>4 DEF OnResponse
  <2> HIDE DEF m
  <2>5. CASE call[m.id] # "pending"
    <3>1. call' = call
      BY <2>4, <2>5 DEF Settled, RpcTypeOK
    <3> QED
      BY <1>1, <1>4, <3>1
  <2>6. CASE call[m.id] = "pending" /\ m.ok
    <3>1. \A c \in Call : call'[c] = IF c = m.id THEN "resolved" ELSE call[c]
      BY <2>4, <2>6 DEF Settled, RpcTypeOK
    <3>2. Had[m.id] = "waiting" /\ Has = [Had EXCEPT ![m.id] = "answered"]
      BY <2>2, <2>6, <3>1, OutcomeFacts
    <3> QED
      BY <1>4, <2>3, <2>6, <3>2
  <2>7. CASE call[m.id] = "pending" /\ ~m.ok
    <3>1. \A c \in Call : call'[c] = IF c = m.id THEN "rejected" ELSE call[c]
      BY <2>4, <2>7 DEF Settled, RpcTypeOK
    <3> QED
      BY <1>1, <1>4, <2>7, <3>1, OutcomeFacts
  <2> QED
    BY <2>2, <2>5, <2>6, <2>7
<1>5. ASSUME NEW c \in Call, InvokeCall(c), NowDone = Done PROVE Requested!CallNext
  <2>1. call[c] = "none" /\ call'[c] \in {"awaiting", "pending", "rejected"}
        /\ \A d \in Call : d # c => call'[d] = call[d]
    BY <1>5 DEF InvokeCall, NextToIssue, AtCall, RpcTypeOK
  <2>2. CASE call'[c] = "rejected"
    BY <1>1, <1>5, <2>1, <2>2, OutcomeFacts
  <2>3. CASE call'[c] # "rejected"
    <3>1. Had[c] = "none" /\ Has = [Had EXCEPT ![c] = "waiting"]
      BY <2>1, <2>3, OutcomeFacts
    <3> QED
      BY <1>5, <3>1
  <2> QED
    BY <2>2, <2>3
<1>6. ASSUME \A c \in Call : \/ call'[c] = call[c]
                             \/ call[c] = "awaiting" /\ call'[c] = "pending" /\ OnHandshakeAck
                             \/ call[c] \in {"awaiting", "pending"} /\ call'[c] = "rejected",
             NowDone = Done
      PROVE  Requested!CallNext
  BY <1>1, <1>6, OutcomeFacts
<1> QED
  BY <1>2, <1>3, <1>4, <1>5, <1>6, CallStep

\* A step of invokeClient() is one too.
LEMMA InvokedStep ==
  ASSUME RpcTypeOK, RpcTypeOK', InvokesInv, [RpcNext]_rpcVars
  PROVE  [Invoked!CallNext]_(Invoked!callVars)
<1> DEFINE Had == [r \in Invoke |-> Outcome(invoke[r])]
           Has == [r \in Invoke |-> Outcome(invoke'[r])]
           Done == {r \in Invoke : capability[r] = "done"}
           NowDone == {r \in Invoke : capability'[r] = "done"}
<1> USE DEF Invoked!CallNext, Invoked!callVars, Invoked!Settle, Invoked!TakeEffect, Invoked!Refuse
<1>1. ASSUME \A r \in Invoke : \/ Outcome(invoke'[r]) = Outcome(invoke[r])
                               \/ /\ Outcome(invoke[r]) \in {"none", "waiting"}
                                  /\ Outcome(invoke'[r]) = "refused",
             NowDone = Done
      PROVE  Invoked!CallNext
  <2> DEFINE cs == {r \in Invoke : Outcome(invoke'[r]) # Outcome(invoke[r])}
  <2>1. /\ cs \subseteq {r \in Invoke : Had[r] \in {"none", "waiting"}}
        /\ Has = [r \in Invoke |-> IF r \in cs THEN "refused" ELSE Had[r]]
    BY <1>1
  <2>2. cs \in SUBSET Invoke
    OBVIOUS
  <2> HIDE DEF cs
  <2> QED
    BY <1>1, <2>1, <2>2
<1>2. ASSUME NowDone # Done PROVE \E r \in Invoke : CapabilityReturns(r)
  <2>1. CASE OnServerRequest
    <3>1. CASE capability' = capability
      BY <1>2, <3>1
    <3>2. CASE capability' # capability
      <4> DEFINE r == Head(toClient[ws]).id
      <4>1. r \in Invoke /\ Carries(toClient, Head(toClient[ws])) /\ Head(toClient[ws]).type = "request"
        BY <2>1, TypeParts, ReceiveFacts, ClientMsgFacts DEF OnServerRequest, RpcTypeOK
      <4>2. capability' = [capability EXCEPT ![r] = "running"]
        BY <2>1, <3>2 DEF OnServerRequest
      <4>3. capability[r] = "none"
        BY <4>1 DEF InvokesInv
      <4> HIDE DEF r
      <4>4. NowDone = Done
        BY <4>1, <4>2, <4>3 DEF RpcTypeOK
      <4> QED
        BY <1>2, <4>4
    <3> QED
      BY <3>1, <3>2
  <2> QED
    BY <1>2, <2>1, CapabilityStep
<1>3. ASSUME NEW r \in Invoke, CapabilityReturns(r) PROVE Invoked!CallNext
  <2>1. /\ capability[r] = "running" /\ invoke' = invoke
        /\ \A q \in Invoke : capability'[q] = IF q = r THEN "done" ELSE capability[q]
    BY <1>3 DEF CapabilityReturns, invokes, RpcTypeOK
  <2>2. invoke[r] \in Where /\ invoke[r] # "none"
    BY <2>1 DEF InvokesInv, RpcTypeOK
  <2>3. Had[r] # "none"
    BY <2>2, OutcomeFacts DEF Where
  <2>4. r \notin Done /\ NowDone = Done \union {r} /\ Has = Had
    BY <2>1
  <2> QED
    BY <2>3, <2>4
<1>4. ASSUME NEW s \in Sock, OnClientResponse(s), NowDone = Done PROVE Invoked!CallNext
  <2> DEFINE m == Head(toServer[s])
  <2>1. m \in ToServerMsg /\ m.type = "response" /\ Carries(toServer, m)
    BY <1>4, TypeParts, ReceivedFacts DEF OnClientResponse
  <2>2. m.id \in Invoke /\ m.ok \in BOOLEAN
    BY <2>1, ServerMsgFacts
  <2>3. m.ok => m.id \in Done
    BY <2>1, <2>2 DEF InvokesInv
  <2>4. invoke' = Settled(invoke, m)
    BY <1>4 DEF OnClientResponse
  <2> HIDE DEF m
  <2>5. CASE invoke[m.id] # "pending"
    <3>1. invoke' = invoke
      BY <2>4, <2>5 DEF Settled, RpcTypeOK
    <3> QED
      BY <1>1, <1>4, <3>1
  <2>6. CASE invoke[m.id] = "pending" /\ m.ok
    <3>1. \A r \in Invoke : invoke'[r] = IF r = m.id THEN "resolved" ELSE invoke[r]
      BY <2>4, <2>6 DEF Settled, RpcTypeOK
    <3>2. Had[m.id] = "waiting" /\ Has = [Had EXCEPT ![m.id] = "answered"]
      BY <2>2, <2>6, <3>1, OutcomeFacts
    <3> QED
      BY <1>4, <2>3, <2>6, <3>2
  <2>7. CASE invoke[m.id] = "pending" /\ ~m.ok
    <3>1. \A r \in Invoke : invoke'[r] = IF r = m.id THEN "rejected" ELSE invoke[r]
      BY <2>4, <2>7 DEF Settled, RpcTypeOK
    <3> QED
      BY <1>1, <1>4, <2>7, <3>1, OutcomeFacts
  <2> QED
    BY <2>2, <2>5, <2>6, <2>7
<1>5. ASSUME NEW r \in Invoke, InvokeClient(r), NowDone = Done PROVE Invoked!CallNext
  <2>1. invoke[r] = "none" /\ invoke'[r] \in {"pending", "rejected"}
        /\ \A q \in Invoke : q # r => invoke'[q] = invoke[q]
    BY <1>5 DEF InvokeClient, NextToIssue, RpcTypeOK
  <2>2. CASE invoke'[r] = "rejected"
    BY <1>1, <1>5, <2>1, <2>2, OutcomeFacts
  <2>3. CASE invoke'[r] # "rejected"
    <3>1. Had[r] = "none" /\ Has = [Had EXCEPT ![r] = "waiting"]
      BY <2>1, <2>3, OutcomeFacts
    <3> QED
      BY <1>5, <3>1
  <2> QED
    BY <2>2, <2>3
<1>6. ASSUME \A r \in Invoke : \/ invoke'[r] = invoke[r]
                               \/ invoke[r] = "pending" /\ invoke'[r] = "rejected",
             NowDone = Done
      PROVE  Invoked!CallNext
  BY <1>1, <1>6, OutcomeFacts
<1> QED
  BY <1>2, <1>3, <1>4, <1>5, <1>6, InvokeStep

\* The part of the invariant about messages.
MessageInv == RpcTypeOK /\ RequestsInv /\ InvokesInv

\* Nothing is under way at first.
LEMMA InitMessages == RpcInit => MessageInv
<1> SUFFICES ASSUME RpcInit PROVE MessageInv
  OBVIOUS
<1>1. \A m : ~Carries(toServer, m) /\ ~Carries(toClient, m)
  <2>1. Len(<<>>) = 0 /\ \A i \in Nat : i \notin 1..0
    OBVIOUS
  <2> QED
    BY <2>1 DEF RpcInit, Carries, At
<1>2. RequestsOnce(toServer) /\ RequestsOnce(toClient)
  <2>1. Len(<<>>) = 0 /\ \A i \in Nat : i \notin 1..0
    OBVIOUS
  <2> QED
    BY <2>1 DEF RpcInit, RequestsOnce, Asks
<1>3. /\ \A c \in Call : handler[c] = "none"
      /\ \A r \in Invoke : capability[r] = "none"
  BY DEF RpcInit
<1> QED
  BY <1>1, <1>2, <1>3, InitTypes DEF MessageInv, RequestsInv, InvokesInv

LEMMA MessageInvariance == RpcSpec => []MessageInv
<1>1. MessageInv /\ [RpcNext]_rpcVars => MessageInv'
  BY NextTypes, RequestsInvStep, InvokesInvStep DEF MessageInv
<1> QED
  BY <1>1, InitMessages, PTL DEF RpcSpec

\* Whatever is lost, late, timed out or started again: invoke() and invokeClient()
\* keep the promise of RemoteCall.
THEOREM CallsKeepPromise == RpcSpec => CallsSpec
<1>1. RpcInit => Requested!CallInit /\ Invoked!CallInit
  BY OutcomeFacts DEF RpcInit, Requested!CallInit, Invoked!CallInit
<1>2. MessageInv /\ MessageInv' /\ [RpcNext]_rpcVars
        => [Requested!CallNext]_(Requested!callVars) /\ [Invoked!CallNext]_(Invoked!callVars)
  BY RequestedStep, InvokedStep DEF MessageInv
<1> QED
  BY <1>1, <1>2, MessageInvariance, PTL
     DEF RpcSpec, CallsSpec, Requested!CallSpec, Invoked!CallSpec
=============================================================================
