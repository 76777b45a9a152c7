-------------------------- MODULE SessionTurnsProofs ---------------------------
(***************************************************************************)
(* Proofs about SessionTurns, for any number of messages, model calls,     *)
(* stops and exits: types, that a message is handled once, that nothing is *)
(* stranded, since what a call waits for is under way, and what holds for  *)
(* a patient user: one turn at a time, that is settled at its end, and the *)
(* queue in order.                                                         *)
(***************************************************************************)
EXTENDS SessionTurns, SequenceTheorems, TLAPS

-----------------------------------------------------------------------------
(* The inductive invariant *)

\* Where a call stands in the queue of flushes, and what a line to the subprocess is.
Place == [msg : Msg, at : {"ack", "accept", "open", "request", "close"}]
Line == {"prompt", "steer", "abort"}

\* The calls of f that stand there with more than an acknowledgement to give.
InLine(f, m, i) == i \in 1..Len(f) /\ f[i].at # "ack" /\ f[i].msg = m
\* A call in line awaits what its place says, and has one place.
FlushOK(f, s) ==
  /\ \A i \in 1..Len(f) : f[i].at # "ack" => s[f[i].msg] = f[i].at
  /\ \A m \in Msg : \A i, j \in 1..Len(f) : InLine(f, m, i) /\ InLine(f, m, j) => i = j

\* A queued message is there once, and its call has returned.
QueueOK(q, s) ==
  /\ \A i \in 1..Len(q) : s[q[i]] = "queued"
  /\ \A i, j \in 1..Len(q) : q[i] = q[j] => i = j

\* Only a message whose turn began has a run.
RunsInv ==
  \A m \in Msg : /\ runs[m] \in {0, 1}
                 /\ step[m] \in {"unsent", "steered", "queued", "accept"} => runs[m] = 0

\* A busy session has a turn that did not lose its resolver, if only one that hung.
Busy == (InTurn \ {"lost"}) \union {"hung"}
BusyInv == isProcessing => \E m \in Msg : step[m] \in Busy

\* Messages are sent in their order.
SentInv == \A i, j \in Msg : i < j /\ step[j] # "unsent" => step[i] # "unsent"

Live == InTurn \union {"accept", "close"}
Active(m) == step[m] \in Live
\* For a patient user at most one call is under way; its turn has the run and the
\* selection, and a turn that is over has its outcome.
PatientInv ==
  patient =>
    /\ \A m, n \in Msg : Active(m) /\ Active(n) => m = n
    /\ \A m \in Msg : step[m] \in InTurn => activeRun = m /\ assembledSelection = m
    /\ \A m \in Msg : step[m] \in {"close", "over"} => status[m] # "running"
    /\ \A m \in Msg : step[m] = "close" => ~isProcessing
    /\ QueueInOrder

IInv ==
  /\ TurnsTypeOK
  /\ FlushOK(flushing, step) /\ QueueOK(messageQueue, step)
  /\ RunsInv /\ BusyInv /\ SentInv /\ PatientInv

-----------------------------------------------------------------------------
(* The queue of flushes *)

Awaiting == {"accept", "open", "request", "close"}
\* m has no place in f but for acknowledgements.
NoPlace(f, m) == \A i \in 1..Len(f) : ~InLine(f, m, i)

\* A call that awaits no flush has no place.
LEMMA NotAwaiting ==
  ASSUME NEW f \in Seq(Place), NEW s, FlushOK(f, s), NEW m \in Msg, s[m] \notin Awaiting
  PROVE  NoPlace(f, m)
<1>1. \A i \in 1..Len(f) : f[i] \in Place
  OBVIOUS
<1>2. \A i \in 1..Len(f) : f[i].at \in {"ack", "accept", "open", "request", "close"}
  BY <1>1 DEF Place
<1> QED
  BY <1>2 DEF FlushOK, NoPlace, InLine, Awaiting

\* Calls without a place may move.
LEMMA FlushMoves ==
  ASSUME NEW f \in Seq(Place), NEW s, NEW t, FlushOK(f, s),
         \A n \in Msg : t[n] = s[n] \/ NoPlace(f, n)
  PROVE  FlushOK(f, t)
<1>0. \A i \in 1..Len(f) : f[i] \in Place
  OBVIOUS
<1>1. \A i \in 1..Len(f) : f[i].msg \in Msg
  BY <1>0 DEF Place
<1>2. ASSUME NEW i \in 1..Len(f), f[i].at # "ack" PROVE t[f[i].msg] = f[i].at
  <2>1. ~NoPlace(f, f[i].msg)
    BY <1>2 DEF NoPlace, InLine
  <2> QED
    BY <1>1, <1>2, <2>1 DEF FlushOK
<1> QED
  BY <1>2 DEF FlushOK

\* A call without a place takes one for what it awaits, or anyone an acknowledgement.
LEMMA FlushAppends ==
  ASSUME NEW f \in Seq(Place), NEW s, FlushOK(f, s), NEW m \in Msg,
         NEW at \in Awaiting \union {"ack"}, at # "ack" => NoPlace(f, m) /\ s[m] = at
  PROVE  FlushAt(f, m, at) \in Seq(Place) /\ FlushOK(FlushAt(f, m, at), s)
<1> DEFINE g == FlushAt(f, m, at)
           p == [msg |-> m, at |-> at]
<1>1. p \in Place /\ p.msg = m /\ p.at = at
  BY DEF Place, Awaiting
<1>2. g = Append(f, p)
  BY DEF FlushAt
<1> HIDE DEF g, p
<1>3. g \in Seq(Place) /\ Len(g) = Len(f) + 1 /\ g[Len(f) + 1] = p
      /\ \A i \in 1..Len(f) : g[i] = f[i]
  BY <1>1, <1>2
<1>4. \A i \in 1..Len(g) : g[i].at # "ack" => s[g[i].msg] = g[i].at
  BY <1>1, <1>3 DEF FlushOK
<1>5. ASSUME NEW n \in Msg, NEW i \in 1..Len(g), NEW j \in 1..Len(g), InLine(g, n, i), InLine(g, n, j)
      PROVE  i = j
  <2>1. CASE i = Len(f) + 1 \/ j = Len(f) + 1
    BY <2>1, <1>1, <1>3, <1>5 DEF InLine, NoPlace
  <2>2. CASE i # Len(f) + 1 /\ j # Len(f) + 1
    BY <2>2, <1>3, <1>5 DEF InLine, FlushOK
  <2> QED
    BY <2>1, <2>2
<1>6. FlushOK(g, s)
  BY <1>4, <1>5 DEF FlushOK
<1> QED
  BY <1>3, <1>6 DEF g

\* The call whose flush settled was awaiting it, and has no other place.
LEMMA FlushSettled ==
  ASSUME NEW f \in Seq(Place), f # <<>>, NEW s, FlushOK(f, s)
  PROVE  /\ Head(f) \in Place /\ Tail(f) \in Seq(Place) /\ FlushOK(Tail(f), s)
         /\ Head(f).at # "ack" => /\ s[Head(f).msg] = Head(f).at
                                  /\ NoPlace(Tail(f), Head(f).msg)
<1>1. Head(f) = f[1] /\ Head(f) \in Place /\ Tail(f) \in Seq(Place) /\ Len(f) \in Nat \ {0}
      /\ Len(Tail(f)) = Len(f) - 1 /\ \A i \in 1..Len(Tail(f)) : Tail(f)[i] = f[i + 1]
  OBVIOUS
<1> DEFINE g == Tail(f)
           h == Head(f)
<1>2. h = f[1] /\ h \in Place /\ g \in Seq(Place) /\ Len(g) = Len(f) - 1 /\ Len(f) \in Nat \ {0}
      /\ \A i \in 1..Len(g) : g[i] = f[i + 1]
  BY <1>1
<1> HIDE DEF g, h
<1>3. \A n \in Msg : \A i \in 1..Len(g) : InLine(g, n, i) => InLine(f, n, i + 1)
  BY <1>2 DEF InLine
<1>4. FlushOK(g, s)
  <2>1. \A i \in 1..Len(g) : g[i].at # "ack" => s[g[i].msg] = g[i].at
    BY <1>2 DEF FlushOK
  <2>2. ASSUME NEW n \in Msg, NEW i \in 1..Len(g), NEW j \in 1..Len(g), InLine(g, n, i), InLine(g, n, j)
        PROVE  i = j
    <3>1. i + 1 \in 1..Len(f) /\ j + 1 \in 1..Len(f)
      BY <1>2
    <3>2. i + 1 = j + 1
      BY <1>3, <2>2, <3>1 DEF FlushOK
    <3> QED
      BY <3>2
  <2> QED
    BY <2>1, <2>2 DEF FlushOK
<1>5. ASSUME h.at # "ack" PROVE s[h.msg] = h.at /\ NoPlace(g, h.msg)
  <2>1. 1 \in 1..Len(f) /\ InLine(f, h.msg, 1) /\ h.msg \in Msg
    BY <1>2, <1>5 DEF InLine, Place
  <2>2. s[h.msg] = h.at
    BY <1>2, <1>5, <2>1 DEF FlushOK
  <2>3. ASSUME NEW i \in 1..Len(g), InLine(g, h.msg, i) PROVE FALSE
    <3>1. i + 1 \in 1..Len(f) /\ InLine(f, h.msg, i + 1)
      BY <1>2, <1>3, <2>1, <2>3
    <3>2. i + 1 = 1
      BY <2>1, <3>1 DEF FlushOK
    <3> QED
      BY <3>2
  <2> QED
    BY <2>2, <2>3 DEF NoPlace
<1> QED
  BY <1>2, <1>4, <1>5 DEF g, h

-----------------------------------------------------------------------------
(* The queue of messages *)

NotQueued(q, m) == \A i \in 1..Len(q) : q[i] # m

\* Calls that are not queued may move.
LEMMA QueueMoves ==
  ASSUME NEW q \in Seq(Msg), NEW s, NEW t, QueueOK(q, s),
         \A n \in Msg : t[n] = s[n] \/ NotQueued(q, n)
  PROVE  QueueOK(q, t)
<1>1. \A i \in 1..Len(q) : q[i] \in Msg
  OBVIOUS
<1> QED
  BY <1>1 DEF QueueOK, NotQueued

LEMMA QueuePushes ==
  ASSUME NEW q \in Seq(Msg), NEW s, QueueOK(q, s), NEW m \in Msg, NotQueued(q, m), s[m] = "queued"
  PROVE  Push(q, m) \in Seq(Msg) /\ QueueOK(Push(q, m), s) /\ Push(q, m) # <<>>
<1> DEFINE r == Push(q, m)
<1>1. r = Append(q, m)
  BY DEF Push
<1> HIDE DEF r
<1>2. r \in Seq(Msg) /\ Len(r) = Len(q) + 1 /\ r[Len(q) + 1] = m /\ \A i \in 1..Len(q) : r[i] = q[i]
  BY <1>1
<1>3. \A i \in 1..Len(r) : s[r[i]] = "queued"
  BY <1>2 DEF QueueOK
<1>4. \A i, j \in 1..Len(r) : r[i] = r[j] => i = j
  BY <1>2 DEF QueueOK, NotQueued
<1>5. r # <<>>
  BY <1>2
<1> QED
  BY <1>2, <1>3, <1>4, <1>5 DEF QueueOK, r

LEMMA QueueShifts ==
  ASSUME NEW q \in Seq(Msg), q # <<>>, NEW s, QueueOK(q, s)
  PROVE  /\ Head(q) \in Msg /\ Shift(q) \in Seq(Msg) /\ QueueOK(Shift(q), s)
         /\ s[Head(q)] = "queued" /\ NotQueued(Shift(q), Head(q))
<1> DEFINE r == Shift(q)
           h == Head(q)
<1>1. h = q[1] /\ h \in Msg /\ r \in Seq(Msg) /\ Len(r) = Len(q) - 1 /\ Len(q) \in Nat \ {0}
      /\ \A i \in 1..Len(r) : r[i] = q[i + 1]
  BY DEF Shift
<1> HIDE DEF r, h
<1>2. \A i \in 1..Len(r) : i + 1 \in 1..Len(q)
  BY <1>1
<1>3. QueueOK(r, s)
  <2>1. \A i \in 1..Len(r) : s[r[i]] = "queued"
    BY <1>1, <1>2 DEF QueueOK
  <2>2. ASSUME NEW i \in 1..Len(r), NEW j \in 1..Len(r), r[i] = r[j] PROVE i = j
    <3>1. i + 1 = j + 1
      BY <1>1, <1>2, <2>2 DEF QueueOK
    <3> QED
      BY <3>1
  <2> QED
    BY <2>1, <2>2 DEF QueueOK
<1>4. 1 \in 1..Len(q) /\ s[h] = "queued"
  BY <1>1 DEF QueueOK
<1>5. ASSUME NEW i \in 1..Len(r), r[i] = h PROVE FALSE
  <2>1. q[i + 1] = q[1] /\ i + 1 \in 1..Len(q)
    BY <1>1, <1>2, <1>5
  <2>2. i + 1 = 1
    BY <1>4, <2>1 DEF QueueOK
  <2> QED
    BY <2>2
<1> QED
  BY <1>1, <1>3, <1>4, <1>5 DEF NotQueued, r, h
-----------------------------------------------------------------------------
(* How calls move *)

\* Neither a call that awaits a flush nor a queued one moves.
LEMMA OthersMove ==
  ASSUME NEW f \in Seq(Place), NEW q \in Seq(Msg), NEW s, NEW t, FlushOK(f, s), QueueOK(q, s),
         \A n \in Msg : t[n] = s[n] \/ s[n] \notin Awaiting \union {"queued"}
  PROVE  FlushOK(f, t) /\ QueueOK(q, t)
<1>1. \A n \in Msg : t[n] = s[n] \/ NoPlace(f, n)
  BY NotAwaiting
<1>2. \A n \in Msg : t[n] = s[n] \/ NotQueued(q, n)
  BY DEF QueueOK, NotQueued
<1> QED
  BY <1>1, <1>2, FlushMoves, QueueMoves

LEMMA SignalWakes ==
  ASSUME NEW s \in [Msg -> Step], NEW next \in Step
  PROVE  /\ Signal(s, next) \in [Msg -> Step]
         /\ \A n \in Msg : Signal(s, next)[n] = IF s[n] = "wait" THEN next ELSE s[n]
BY DEF Signal

\* A signal leaves nobody waiting.
LEMMA NobodyWaits ==
  ASSUME NEW s \in [Msg -> Step], NEW next \in Step \ {"wait"}
  PROVE  \A n \in Msg : Signal(s, next)[n] # "wait"
BY DEF Signal

LEMMA AwakenMoves ==
  ASSUME NEW s \in [Msg -> Step], NEW next \in Step
  PROVE  /\ Awaken(s, next) \in [Msg -> Step]
         /\ \A n \in Msg : Awaken(s, next)[n] = IF s[n] = "spawn" THEN next ELSE s[n]
BY DEF Awaken

LEMMA LineSent ==
  ASSUME TurnsTypeOK, NEW line \in Line, SendLine(line)
  PROVE  stdin' \in Seq(Line)
<1>1. stdin \in Seq(Line)
  BY DEF TurnsTypeOK, Line
<1> QED
  BY <1>1 DEF SendLine

\* What a call that is under way does changes none of the other invariants.
Advance ==
  /\ \A n \in Msg : \/ step'[n] = step[n]
                    \/ step[n] \in InTurn \ {"lost"} /\ step'[n] \in Busy
  /\ UNCHANGED <<runs, activeRun, assembledSelection, status, messageQueue>>
  /\ isProcessing' => isProcessing
  /\ patient' => patient

LEMMA AdvanceKeeps ==
  ASSUME IInv, Advance
  PROVE  RunsInv' /\ BusyInv' /\ SentInv' /\ PatientInv'
<1> USE DEF Advance
<1>1. RunsInv'
  BY DEF IInv, RunsInv, Busy, InTurn, InChat
<1>2. BusyInv'
  BY DEF IInv, BusyInv, Busy, InTurn, InChat
<1>3. SentInv'
  BY DEF IInv, SentInv, Busy, InTurn, InChat
<1>4. PatientInv'
  <2>1. \A n \in Msg : Active(n)' => Active(n)
    BY DEF Active, Live, Busy, InTurn, InChat
  <2>2. \A n \in Msg : step'[n] \in InTurn => step[n] \in InTurn
    OBVIOUS
  <2>3. \A n \in Msg : /\ step'[n] \in {"close", "over"} => step[n] \in {"close", "over"}
                       /\ step'[n] = "close" => step[n] = "close"
    BY DEF Busy, InTurn, InChat
  <2> QED
    BY <2>1, <2>2, <2>3 DEF IInv, PatientInv, QueueInOrder
<1> QED
  BY <1>1, <1>2, <1>3, <1>4

\* The message goes its way, and no other call moves but those that a stop wakes.
Delivered(m, s, q) ==
  /\ step' \in [Msg -> Step] /\ flushing' \in Seq(Place) /\ messageQueue' \in Seq(Msg)
  /\ FlushOK(flushing', step') /\ QueueOK(messageQueue', step')
  /\ stdin' \in Seq(Line) /\ agentProcessing' \in BOOLEAN
  /\ events' = events /\ done' \in BOOLEAN
  /\ \A n \in Msg \ {m} : step'[n] = s[n] \/ (s[n] = "wait" /\ step'[n] = "ended")
  /\ ~isProcessing => step'[m] = "accept" /\ messageQueue' = q
  /\ isProcessing => step'[m] \in {"steered", "queued"} /\ messageQueue' \in {q, Push(q, m)}

LEMMA DeliverMoves ==
  ASSUME TurnsTypeOK, NEW m \in Msg, NEW s \in [Msg -> Step], NEW f \in Seq(Place), NEW q \in Seq(Msg),
         FlushOK(f, s), QueueOK(q, s), NotQueued(q, m), s[m] \in {"unsent", "queued"},
         Deliver(m, s, f, q)
  PROVE  Delivered(m, s, q)
<1>1. NoPlace(f, m)
  BY NotAwaiting DEF Awaiting
<1>2. stdin \in Seq(Line) /\ agentProcessing \in BOOLEAN /\ done \in BOOLEAN
  BY DEF TurnsTypeOK, Line
<1>3. ASSUME NEW x \in {"accept", "steered", "queued"}
      PROVE  LET t == [s EXCEPT ![m] = x]
             IN t \in [Msg -> Step] /\ t[m] = x /\ (\A n \in Msg \ {m} : t[n] = s[n])
                /\ FlushOK(f, t) /\ QueueOK(q, t)
  <2> DEFINE t == [s EXCEPT ![m] = x]
  <2>1. t \in [Msg -> Step] /\ t[m] = x /\ \A n \in Msg \ {m} : t[n] = s[n]
    BY DEF Step
  <2> HIDE DEF t
  <2>2. FlushOK(f, t)
    BY <1>1, <2>1, FlushMoves
  <2>3. QueueOK(q, t)
    BY <2>1, QueueMoves
  <2> QED
    BY <2>1, <2>2, <2>3 DEF t
<1>4. CASE /\ ~isProcessing
           /\ step' = [s EXCEPT ![m] = "accept"] /\ flushing' = FlushAt(f, m, "accept")
           /\ messageQueue' = q /\ UNCHANGED <<agentVars, stdin>>
  <2>1. /\ step' \in [Msg -> Step] /\ step'[m] = "accept" /\ \A n \in Msg \ {m} : step'[n] = s[n]
        /\ FlushOK(f, step') /\ QueueOK(q, step')
    BY <1>3, <1>4
  <2>2. flushing' \in Seq(Place) /\ FlushOK(flushing', step')
    BY <1>1, <1>4, <2>1, FlushAppends DEF Awaiting
  <2> QED
    BY <1>2, <1>4, <2>1, <2>2 DEF Delivered, agentVars
<1>5. CASE /\ isProcessing
           /\ step' = [s EXCEPT ![m] = "steered"] /\ flushing' = FlushAt(f, m, "ack")
           /\ messageQueue' = q /\ SendLine("steer") /\ UNCHANGED agentVars
  <2>1. /\ step' \in [Msg -> Step] /\ step'[m] = "steered" /\ \A n \in Msg \ {m} : step'[n] = s[n]
        /\ FlushOK(f, step') /\ QueueOK(q, step')
    BY <1>3, <1>5
  <2>2. flushing' \in Seq(Place) /\ FlushOK(flushing', step')
    BY <1>5, <2>1, FlushAppends
  <2>3. stdin' \in Seq(Line)
    <3>1. "steer" \in Line
      BY DEF Line
    <3> QED
      BY <1>5, <3>1, LineSent
  <2> QED
    BY <1>2, <1>5, <2>1, <2>2, <2>3 DEF Delivered, agentVars
<1> DEFINE queued == [s EXCEPT ![m] = "queued"]
<1>6. /\ queued \in [Msg -> Step] /\ queued[m] = "queued" /\ \A n \in Msg \ {m} : queued[n] = s[n]
      /\ FlushOK(f, queued) /\ QueueOK(Push(q, m), queued) /\ Push(q, m) \in Seq(Msg)
  BY <1>3, QueuePushes
<1>7. CASE /\ isProcessing
           /\ step' = queued /\ flushing' = FlushAt(f, m, "ack")
           /\ messageQueue' = Push(q, m) /\ UNCHANGED <<agentVars, stdin>>
  <2>1. flushing' \in Seq(Place) /\ FlushOK(flushing', step')
    BY <1>6, <1>7, FlushAppends
  <2> QED
    BY <1>2, <1>6, <1>7, <2>1 DEF Delivered, agentVars
<1>8. CASE /\ isProcessing
           /\ flushing' = FlushAt(f, m, "ack") /\ messageQueue' = Push(q, m)
           /\ ForceAbort(queued)
  <2> HIDE DEF queued
  <2>1. /\ agentProcessing' = FALSE /\ done' = TRUE /\ events' = events
        /\ step' = Signal(queued, "ended") /\ SendLine("abort")
    BY <1>8 DEF ForceAbort
  <2>2. /\ step' \in [Msg -> Step]
        /\ \A n \in Msg : step'[n] = IF queued[n] = "wait" THEN "ended" ELSE queued[n]
    <3>1. "ended" \in Step
      BY DEF Step
    <3> QED
      BY <1>6, <2>1, <3>1, SignalWakes
  <2>3. FlushOK(f, step') /\ QueueOK(Push(q, m), step')
    <3>1. \A n \in Msg : step'[n] = queued[n] \/ queued[n] \notin Awaiting \union {"queued"}
      BY <2>2 DEF Awaiting
    <3> QED
      BY <1>6, <3>1, OthersMove
  <2>4. flushing' \in Seq(Place) /\ FlushOK(flushing', step')
    BY <1>8, <2>3, FlushAppends
  <2>5. stdin' \in Seq(Line)
    <3>1. "abort" \in Line
      BY DEF Line
    <3> QED
      BY <2>1, <3>1, LineSent
  <2> QED
    BY <1>6, <1>8, <2>1, <2>2, <2>3, <2>4, <2>5 DEF Delivered
<1> QED
  BY <1>4, <1>5, <1>7, <1>8 DEF Deliver
\* What is typed in every step that moves calls, queues and runs.
LEMMA TurnTypes ==
  ASSUME TurnsTypeOK
  PROVE  /\ step \in [Msg -> Step] /\ flushing \in Seq(Place) /\ messageQueue \in Seq(Msg)
         /\ status \in [Msg -> {"none", "running", "completed", "error", "aborted"}]
         /\ runs \in [Msg -> Nat] /\ activeRun \in Msg \union {None}
         /\ stdin \in Seq(Line) /\ stdout \in Seq({"request", "error", "end"})
         /\ events \in Seq({"request", "error"})
BY DEF TurnsTypeOK, Place, Line

-----------------------------------------------------------------------------
(* The initial states *)

LEMMA InitInv == TurnsInit => IInv
<1> SUFFICES ASSUME TurnsInit PROVE IInv
  OBVIOUS
<1> USE DEF TurnsInit
<1>1. TurnsTypeOK
  <2>1. step \in [Msg -> Step]
    BY DEF Step
  <2>2. /\ flushing \in Seq(Place) /\ messageQueue \in Seq(Msg) /\ events \in Seq({"request", "error"})
        /\ stdin \in Seq(Line) /\ stdout \in Seq({"request", "error", "end"})
    OBVIOUS
  <2>3. /\ status \in [Msg -> {"none", "running", "completed", "error", "aborted"}]
        /\ runs \in [Msg -> Nat]
    OBVIOUS
  <2> QED
    BY <2>1, <2>2, <2>3 DEF TurnsTypeOK, Place, Line
<1>2. FlushOK(flushing, step) /\ QueueOK(messageQueue, step)
  BY DEF FlushOK, QueueOK, InLine
<1>3. RunsInv /\ BusyInv /\ SentInv
  BY DEF RunsInv, BusyInv, SentInv
<1>4. PatientInv
  BY DEF PatientInv, QueueInOrder, Active, Live, InTurn, InChat
<1> QED
  BY <1>1, <1>2, <1>3, <1>4 DEF IInv

-----------------------------------------------------------------------------
(* sendMessage *)

LEMMA SendStep ==
  ASSUME IInv, NEW m \in Msg, Send(m)
  PROVE  IInv'
<1>1. /\ step[m] = "unsent" /\ (m > 1 => step[m - 1] # "unsent")
      /\ Deliver(m, step, flushing, messageQueue)
      /\ patient' = (patient /\ Settled)
      /\ UNCHANGED <<isProcessing, activeRun, abortRequested, assembledSelection, status, failed, agent, runs,
                     subprocess, stdout, preparing, executing, requests, cancels, exits>>
  BY DEF Send, turnState, boundVars
<1>2. NotQueued(messageQueue, m)
  BY <1>1 DEF IInv, QueueOK, NotQueued
<1>3. Delivered(m, step, messageQueue)
  BY <1>1, <1>2, TurnTypes, DeliverMoves DEF IInv
<1>4. TurnsTypeOK'
  <2>1. patient' \in BOOLEAN
    BY <1>1 DEF IInv, TurnsTypeOK, Settled
  <2> QED
    BY <1>1, <1>3, <2>1 DEF Delivered, IInv, TurnsTypeOK, Place, Line
<1>5. FlushOK(flushing, step)' /\ QueueOK(messageQueue, step)'
  BY <1>3 DEF Delivered
<1>6. \A n \in Msg \ {m} : step'[n] = step[n] \/ (step[n] = "wait" /\ step'[n] = "ended")
  BY <1>3 DEF Delivered
<1>7. step'[m] \in {"accept", "steered", "queued"}
  BY <1>3 DEF Delivered, IInv, TurnsTypeOK
<1>8. RunsInv'
  BY <1>1, <1>6, <1>7 DEF IInv, RunsInv
<1>9. BusyInv'
  <2>1. ASSUME isProcessing PROVE \E n \in Msg : step'[n] \in Busy
    BY <1>1, <1>6, <2>1 DEF IInv, BusyInv, Busy, InTurn, InChat
  <2> QED
    BY <1>1, <2>1 DEF BusyInv
<1>10. SentInv'
  <2>1. \A n \in Msg : step'[n] # "unsent" <=> step[n] # "unsent" \/ n = m
    BY <1>1, <1>6, <1>7
  <2>2. \A i \in Msg : i < m => step[i] # "unsent"
    <3>1. m > 1 => m - 1 \in Msg
      BY TurnBounds DEF Msg
    <3> QED
      BY <1>1, <3>1 DEF IInv, SentInv, Msg
  <2> QED
    BY <2>1, <2>2 DEF IInv, SentInv
<1>11. PatientInv'
  <2> SUFFICES ASSUME patient' PROVE PatientInv'
    BY DEF PatientInv
  <2>1. patient /\ Settled
    BY <1>1
  <2>2. \A n \in Msg : step'[n] \in InTurn => step[n] \in InTurn /\ n # m
    BY <1>6, <1>7 DEF InTurn, InChat
  <2>3. \A n \in Msg : step'[n] \in {"close", "over"} => step[n] \in {"close", "over"}
    BY <1>6, <1>7
  <2>7. \A n \in Msg : step'[n] # "close"
    BY <1>6, <1>7, <2>1 DEF Settled
  <2>4. \A n \in Msg \ {m} : Active(n)' => step[n] \in InTurn
    BY <1>6, <2>1 DEF Settled, Active, Live, InTurn, InChat
  <2>5. CASE ~isProcessing
    <3>1. \A n \in Msg : step[n] \notin InTurn
      BY <2>1, <2>5 DEF Settled
    <3>2. messageQueue' = messageQueue
      BY <1>3, <2>5 DEF Delivered
    <3> QED
      BY <1>1, <2>1, <2>2, <2>3, <2>4, <2>7, <3>1, <3>2 DEF IInv, PatientInv, QueueInOrder
  <2>6. CASE isProcessing
    <3>1. step'[m] \in {"steered", "queued"} /\ messageQueue' \in {messageQueue, Push(messageQueue, m)}
      BY <1>3, <2>6 DEF Delivered
    <3>2. ~Active(m)'
      BY <3>1 DEF Active, Live, InTurn, InChat
    <3>3. \A i, j \in Msg : Active(i)' /\ Active(j)' => i = j
      BY <2>1, <2>4, <3>2 DEF IInv, PatientInv, Active, Live
    <3>4. QueueInOrder'
      <4>1. \A i, j \in 1..Len(messageQueue) : i < j => messageQueue[i] < messageQueue[j]
        BY <2>1 DEF IInv, PatientInv, QueueInOrder
      <4>2. messageQueue \in Seq(Msg)
        BY TurnTypes DEF IInv
      <4>3. \A i \in 1..Len(messageQueue) : messageQueue[i] < m
        <5> SUFFICES ASSUME NEW i \in 1..Len(messageQueue) PROVE messageQueue[i] < m
          OBVIOUS
        <5>1. messageQueue[i] \in Msg /\ step[messageQueue[i]] = "queued"
          BY <4>2 DEF IInv, QueueOK
        <5>2. ~(m < messageQueue[i]) /\ messageQueue[i] # m
          BY <1>1, <5>1 DEF IInv, SentInv
        <5> QED
          BY <5>1, <5>2 DEF Msg
      <4> DEFINE r == Push(messageQueue, m)
      <4>4. /\ Len(r) = Len(messageQueue) + 1 /\ Len(messageQueue) \in Nat /\ r[Len(messageQueue) + 1] = m
            /\ \A i \in 1..Len(messageQueue) : r[i] = messageQueue[i]
        BY <4>2 DEF Push
      <4> HIDE DEF r
      <4>5. ASSUME NEW i \in 1..Len(r), NEW j \in 1..Len(r), i < j PROVE r[i] < r[j]
        <5>1. i \in 1..Len(messageQueue)
          BY <4>4, <4>5
        <5> QED
          BY <4>1, <4>3, <4>4, <4>5, <5>1
      <4> QED
        BY <3>1, <4>1, <4>5 DEF QueueInOrder, r
    <3> QED
      BY <1>1, <2>1, <2>2, <2>3, <2>7, <3>3, <3>4 DEF IInv, PatientInv
  <2> QED
    BY <2>5, <2>6
<1> QED
  BY <1>4, <1>5, <1>8, <1>9, <1>10, <1>11 DEF IInv

-----------------------------------------------------------------------------
(* runTurn *)

\* A turn begins: the call was accepted, and has no run yet.
LEMMA RunTurnStep ==
  ASSUME IInv, FlushSettles, flushing # <<>>, Head(flushing).at = "accept", RunTurn(Head(flushing).msg)
  PROVE  IInv'
<1> DEFINE m == Head(flushing).msg
           rest == Tail(flushing)
<1>1. UNCHANGED <<subprocess, stdout, preparing, executing, patient, requests, cancels, exits>>
  BY DEF FlushSettles, historyVars, boundVars
<1>2. /\ step[m] = "accept" /\ m \in Msg /\ rest \in Seq(Place) /\ FlushOK(rest, step)
      /\ NoPlace(rest, m)
  BY TurnTypes, FlushSettled DEF IInv, Place
<1>3. /\ assembledSelection' = m /\ isProcessing' = TRUE /\ activeRun' = m /\ abortRequested' = FALSE
      /\ status' = [status EXCEPT ![m] = "running"] /\ runs' = [runs EXCEPT ![m] = @ + 1]
      /\ step' = [step EXCEPT ![m] = "open"] /\ flushing' = FlushAt(rest, m, "open")
      /\ UNCHANGED <<failed, agent, messageQueue, agentProcessing, events, done, stdin>>
  BY DEF RunTurn, agentVars
<1> HIDE DEF m, rest
<1>4. /\ step \in [Msg -> Step] /\ messageQueue \in Seq(Msg) /\ runs \in [Msg -> Nat]
      /\ status \in [Msg -> {"none", "running", "completed", "error", "aborted"}]
  BY TurnTypes DEF IInv
<1>5. step' \in [Msg -> Step] /\ step'[m] = "open" /\ \A n \in Msg \ {m} : step'[n] = step[n]
  BY <1>2, <1>3, <1>4 DEF Step
<1>6. flushing' \in Seq(Place) /\ FlushOK(flushing', step')
  <2>1. FlushOK(rest, step')
    BY <1>2, <1>5, FlushMoves
  <2> QED
    BY <1>2, <1>3, <1>5, <2>1, FlushAppends DEF Awaiting
<1>7. QueueOK(messageQueue, step)'
  <2>1. \A n \in Msg : step'[n] = step[n] \/ NotQueued(messageQueue, n)
    BY <1>2, <1>5 DEF IInv, QueueOK, NotQueued
  <2> QED
    BY <1>3, <1>4, <2>1, QueueMoves DEF IInv
<1>8. runs' \in [Msg -> Nat] /\ RunsInv'
  BY <1>2, <1>3, <1>4, <1>5 DEF IInv, RunsInv
<1>9. TurnsTypeOK'
  BY <1>1, <1>2, <1>3, <1>4, <1>5, <1>6, <1>8 DEF IInv, TurnsTypeOK, Place, Line
<1>10. BusyInv'
  BY <1>2, <1>5 DEF BusyInv, Busy, InTurn, InChat
<1>11. SentInv'
  BY <1>2, <1>5 DEF IInv, SentInv
<1>12. PatientInv'
  <2> SUFFICES ASSUME patient PROVE PatientInv'
    BY <1>1 DEF PatientInv
  <2>1. \A n \in Msg : Active(n)' => Active(n)
    BY <1>2, <1>5 DEF Active, Live
  <2>2. \A n \in Msg \ {m} : step[n] \notin InTurn
    BY <1>2 DEF IInv, PatientInv, Active, Live
  <2>3. \A n \in Msg : step'[n] \in {"close", "over"} => status'[n] # "running"
    BY <1>2, <1>3, <1>4, <1>5 DEF IInv, PatientInv
  <2>4. \A n \in Msg : step'[n] \in InTurn => n = m
    BY <1>5, <2>2
  <2>5. \A n \in Msg : step'[n] # "close"
    BY <1>2, <1>5 DEF IInv, PatientInv, Active, Live
  <2> QED
    BY <1>1, <1>3, <2>1, <2>3, <2>4, <2>5 DEF IInv, PatientInv, QueueInOrder
<1> QED
  BY <1>6, <1>7, <1>8, <1>9, <1>10, <1>11, <1>12 DEF IInv
\* A turn is over: its call returns, and the first queued message goes its way. For a
\* patient user no other call is under way, so it has a turn of its own.
LEMMA ProcessNextStep ==
  ASSUME IInv, FlushSettles, flushing # <<>>, Head(flushing).at = "close", ProcessNext(Head(flushing).msg)
  PROVE  IInv'
<1> DEFINE m == Head(flushing).msg
           rest == Tail(flushing)
           over == [step EXCEPT ![m] = "over"]
<1>1. UNCHANGED <<subprocess, stdout, preparing, executing, patient, requests, cancels, exits,
                  isProcessing, activeRun, abortRequested, assembledSelection, status, failed, agent, runs>>
  BY DEF FlushSettles, ProcessNext, historyVars, boundVars, turnState
<1>2. /\ step[m] = "close" /\ m \in Msg /\ rest \in Seq(Place) /\ FlushOK(rest, step)
      /\ NoPlace(rest, m)
  BY TurnTypes, FlushSettled DEF IInv, Place
<1>3. \/ /\ messageQueue = <<>> /\ step' = over /\ flushing' = rest
         /\ UNCHANGED <<messageQueue, agentProcessing, events, done, stdin>>
      \/ /\ messageQueue # <<>>
         /\ Deliver(Head(messageQueue), over, rest, Shift(messageQueue))
  BY DEF ProcessNext, agentVars
<1> HIDE DEF m, rest
<1>4. step \in [Msg -> Step] /\ messageQueue \in Seq(Msg) /\ QueueOK(messageQueue, step)
  BY TurnTypes DEF IInv
<1>5. over \in [Msg -> Step] /\ over[m] = "over" /\ \A n \in Msg \ {m} : over[n] = step[n]
  BY <1>2, <1>4 DEF Step
<1> HIDE DEF over
<1>6. FlushOK(rest, over)
  BY <1>2, <1>5, FlushMoves
<1>7. QueueOK(messageQueue, over)
  <2>1. \A n \in Msg : over[n] = step[n] \/ NotQueued(messageQueue, n)
    BY <1>2, <1>4, <1>5 DEF QueueOK, NotQueued
  <2> QED
    BY <1>4, <2>1, QueueMoves
<1>8. ASSUME isProcessing PROVE \E n \in Msg \ {m} : step[n] \in Busy
  BY <1>2, <1>8 DEF IInv, BusyInv, Busy, InTurn, InChat
<1>9. patient => ~isProcessing /\ \A n \in Msg \ {m} : ~Active(n)
  <2>1. patient => \A n \in Msg \ {m} : ~Active(n)
    BY <1>2 DEF IInv, PatientInv, Active, Live
  <2> QED
    BY <1>2, <2>1 DEF IInv, PatientInv
<1>10. patient => QueueInOrder /\ \A n \in Msg : step[n] \in {"close", "over"} => status[n] # "running"
  BY DEF IInv, PatientInv
<1>11. CASE messageQueue = <<>>
  <2>1. step' = over /\ flushing' = rest /\ UNCHANGED <<messageQueue, agentProcessing, events, done, stdin>>
    BY <1>3, <1>11
  <2>2. TurnsTypeOK'
    BY <1>1, <1>2, <1>5, <2>1 DEF IInv, TurnsTypeOK, Place, Line
  <2>3. RunsInv' /\ SentInv'
    BY <1>1, <1>2, <1>5, <2>1 DEF IInv, RunsInv, SentInv
  <2>4. BusyInv'
    BY <1>1, <1>5, <1>8, <1>11, <2>1 DEF BusyInv
  <2>5. PatientInv'
    <3> SUFFICES ASSUME patient PROVE PatientInv'
      BY <1>1 DEF PatientInv
    <3>1. \A n \in Msg : step'[n] \notin Live
      BY <1>5, <1>9, <2>1 DEF Active, Live, InTurn, InChat
    <3>2. \A n \in Msg : step'[n] \in {"close", "over"} => step[n] \in {"close", "over"}
      BY <1>2, <1>5, <2>1
    <3> QED
      BY <1>1, <1>10, <2>1, <3>1, <3>2 DEF PatientInv, Active, Live, QueueInOrder
  <2> QED
    BY <1>6, <1>7, <2>1, <2>2, <2>3, <2>4, <2>5 DEF IInv
<1>12. CASE messageQueue # <<>>
  <2> DEFINE h == Head(messageQueue)
             q == Shift(messageQueue)
  <2>1. /\ h \in Msg /\ q \in Seq(Msg) /\ QueueOK(q, over) /\ over[h] = "queued" /\ NotQueued(q, h)
    BY <1>4, <1>7, <1>12, QueueShifts
  <2>2. Deliver(h, over, rest, q)
    BY <1>3, <1>12
  <2>3. h # m /\ step[h] = "queued"
    BY <1>2, <1>5, <2>1
  <2>4. patient => \A i, j \in 1..Len(q) : i < j => q[i] < q[j]
    <3>1. /\ Len(q) = Len(messageQueue) - 1 /\ Len(messageQueue) \in Nat \ {0}
          /\ \A i \in 1..Len(q) : q[i] = messageQueue[i + 1]
      BY <1>4, <1>12 DEF Shift
    <3> HIDE DEF q
    <3>2. \A i \in 1..Len(q) : i + 1 \in 1..Len(messageQueue)
      BY <3>1
    <3> QED
      BY <1>10, <3>1, <3>2 DEF QueueInOrder
  <2> HIDE DEF h, q
  <2>5. Delivered(h, over, q)
    BY <1>2, <1>5, <1>6, <2>1, <2>2, DeliverMoves DEF IInv
  <2>6. TurnsTypeOK'
    BY <1>1, <2>5 DEF Delivered, IInv, TurnsTypeOK, Place, Line
  <2>7. /\ step'[h] \in {"accept", "steered", "queued"} /\ step'[m] = "over"
        /\ \A n \in Msg \ {h, m} : step'[n] = step[n] \/ (step[n] = "wait" /\ step'[n] = "ended")
    BY <1>2, <1>5, <2>3, <2>5 DEF Delivered, IInv, TurnsTypeOK
  <2>8. RunsInv' /\ SentInv'
    BY <1>1, <1>2, <2>1, <2>3, <2>7 DEF IInv, RunsInv, SentInv
  <2>9. BusyInv'
    <3>1. CASE isProcessing
      <4>1. \E n \in Msg \ {h, m} : step[n] \in Busy
        BY <1>8, <2>3, <3>1 DEF Busy, InTurn, InChat
      <4>2. \E n \in Msg : step'[n] \in Busy
        BY <2>7, <4>1 DEF Busy, InTurn, InChat
      <4> QED
        BY <1>1, <4>2 DEF BusyInv
    <3>2. CASE ~isProcessing
      <4>1. step'[h] = "accept"
        BY <2>5, <3>2 DEF Delivered
      <4> QED
        BY <1>1, <2>1, <3>2, <4>1 DEF BusyInv
    <3> QED
      BY <3>1, <3>2
  <2>10. PatientInv'
    <3> SUFFICES ASSUME patient PROVE PatientInv'
      BY <1>1 DEF PatientInv
    <3>1. step'[h] = "accept" /\ messageQueue' = q
      BY <1>9, <2>5 DEF Delivered
    <3>2. \A n \in Msg \ {h} : step'[n] \notin Live
      BY <1>9, <2>7 DEF Active, Live, InTurn, InChat
    <3>3. \A n \in Msg : step'[n] \in {"close", "over"} => step[n] \in {"close", "over"}
      BY <1>2, <2>7, <3>1
    <3>4. \A n \in Msg : step'[n] \notin InTurn
      BY <3>1, <3>2 DEF Live, InTurn, InChat
    <3>5. \A n \in Msg : step'[n] # "close"
      BY <3>1, <3>2 DEF Live
    <3> QED
      BY <1>1, <1>10, <2>4, <3>1, <3>2, <3>3, <3>4, <3>5 DEF PatientInv, Active, QueueInOrder
  <2> QED
    BY <2>5, <2>6, <2>8, <2>9, <2>10 DEF Delivered, IInv
<1> QED
  BY <1>11, <1>12

\* A flush that lets a call go on within its turn, or acknowledges.
LEMMA GoesOnStep ==
  ASSUME IInv, FlushSettles, flushing # <<>>,
         LET m == Head(flushing).msg
             at == Head(flushing).at
         IN \/ at = "ack" /\ step' = step
            \/ at = "open" /\ step' = [step EXCEPT ![m] = "agent"]
            \/ at = "request" /\ step' = [step EXCEPT ![m] = "drain"],
         flushing' = Tail(flushing), UNCHANGED <<turnState, messageQueue, agentVars, stdin>>
  PROVE  IInv'
<1> DEFINE h == Head(flushing)
           rest == Tail(flushing)
<1>1. UNCHANGED <<isProcessing, activeRun, abortRequested, assembledSelection, messageQueue, status, failed,
                  agent, agentProcessing, events, done, subprocess, stdin, stdout, preparing, executing, runs,
                  patient, requests, cancels, exits>>
  BY DEF FlushSettles, historyVars, boundVars, turnState, agentVars
<1>2. /\ h \in Place /\ rest \in Seq(Place) /\ FlushOK(rest, step)
      /\ h.at # "ack" => step[h.msg] = h.at /\ NoPlace(rest, h.msg)
  BY TurnTypes, FlushSettled DEF IInv
<1>3. \/ h.at = "ack" /\ step' = step
      \/ h.at = "open" /\ step' = [step EXCEPT ![h.msg] = "agent"]
      \/ h.at = "request" /\ step' = [step EXCEPT ![h.msg] = "drain"]
  OBVIOUS
<1>4. flushing' = rest
  OBVIOUS
<1> HIDE DEF h, rest
<1>5. h.msg \in Msg /\ step \in [Msg -> Step] /\ messageQueue \in Seq(Msg)
  BY <1>2, TurnTypes DEF IInv, Place
<1>6. /\ step' \in [Msg -> Step]
      /\ \A n \in Msg : \/ step'[n] = step[n]
                        \/ /\ n = h.msg /\ h.at # "ack" /\ step[n] \in {"open", "request"}
                           /\ step'[n] \in {"agent", "drain"}
  BY <1>2, <1>3, <1>5 DEF Step
<1>7. FlushOK(flushing, step)'
  <2>1. \A n \in Msg : step'[n] = step[n] \/ NoPlace(rest, n)
    BY <1>2, <1>6
  <2>2. FlushOK(rest, step')
    BY <1>2, <2>1, FlushMoves
  <2> QED
    BY <1>4, <2>2
<1>8. QueueOK(messageQueue, step)'
  <2>1. \A n \in Msg : step'[n] = step[n] \/ NotQueued(messageQueue, n)
    BY <1>6 DEF IInv, QueueOK, NotQueued
  <2> QED
    BY <1>1, <1>5, <2>1, QueueMoves DEF IInv
<1>9. TurnsTypeOK'
  BY <1>1, <1>2, <1>4, <1>6 DEF IInv, TurnsTypeOK, Place, Line
<1>10. Advance
  BY <1>1, <1>6 DEF Advance, Busy, InTurn, InChat
<1> QED
  BY <1>7, <1>8, <1>9, <1>10, AdvanceKeeps DEF IInv

LEMMA FlushSettlesStep ==
  ASSUME IInv, FlushSettles
  PROVE  IInv'
<1>1. flushing # <<>>
  BY DEF FlushSettles
<1>2. CASE Head(flushing).at = "accept"
  <2>1. RunTurn(Head(flushing).msg)
    BY <1>2 DEF FlushSettles
  <2> QED
    BY <1>1, <1>2, <2>1, RunTurnStep
<1>3. CASE Head(flushing).at = "close"
  <2>1. ProcessNext(Head(flushing).msg)
    BY <1>3 DEF FlushSettles
  <2> QED
    BY <1>1, <1>3, <2>1, ProcessNextStep
<1>4. CASE Head(flushing).at \notin {"accept", "close"}
  <2>1. /\ LET m == Head(flushing).msg
               at == Head(flushing).at
           IN \/ at = "ack" /\ step' = step
              \/ at = "open" /\ step' = [step EXCEPT ![m] = "agent"]
              \/ at = "request" /\ step' = [step EXCEPT ![m] = "drain"]
        /\ flushing' = Tail(flushing) /\ UNCHANGED <<turnState, messageQueue, agentVars, stdin>>
    BY <1>4 DEF FlushSettles
  <2> QED
    BY <1>1, <2>1, GoesOnStep
<1> QED
  BY <1>2, <1>3, <1>4
-----------------------------------------------------------------------------
(* chat *)

\* A call that advances, and whoever it wakes, take no place in a queue.
LEMMA CallMoves ==
  ASSUME IInv, UNCHANGED <<flushing, messageQueue>>,
         \A n \in Msg : step'[n] = step[n] \/ step[n] \in InTurn \ {"open", "request"}
  PROVE  FlushOK(flushing, step)' /\ QueueOK(messageQueue, step)'
<1>1. flushing \in Seq(Place) /\ messageQueue \in Seq(Msg)
  BY TurnTypes DEF IInv
<1>2. \A n \in Msg : step'[n] = step[n] \/ step[n] \notin Awaiting \union {"queued"}
  BY DEF InTurn, InChat, Awaiting
<1>3. FlushOK(flushing, step') /\ QueueOK(messageQueue, step')
  BY <1>1, <1>2, OthersMove DEF IInv
<1> QED
  BY <1>3

\* A chat drops the resolvers of those that wait; its own turn is alive.
LEMMA ChatStep ==
  ASSUME IInv, NEW m \in Msg, Chat(m)
  PROVE  IInv'
<1> DEFINE next == CASE subprocess = "ready" -> "setup"
                     [] subprocess = "failed" -> "hung"
                     [] OTHER -> "spawn"
           s == [step EXCEPT ![m] = next]
<1>1. /\ step[m] = "agent" /\ agent' = TRUE /\ agentProcessing' = TRUE
      /\ events' = <<>> /\ done' = FALSE /\ step' = Signal(s, "lost")
      /\ UNCHANGED <<flushing, isProcessing, activeRun, abortRequested, assembledSelection,
                     messageQueue, status, failed, runs, subprocess, stdin, stdout, preparing, executing,
                     patient, requests, cancels, exits>>
  BY DEF Chat, Reset, subprocessVars, historyVars, boundVars
<1>0. next \in {"spawn", "setup", "hung"}
  OBVIOUS
<1> HIDE DEF next
<1>2. /\ step' \in [Msg -> Step] /\ step'[m] \in {"spawn", "setup", "hung"}
      /\ \A n \in Msg \ {m} : step'[n] = step[n] \/ (step[n] = "wait" /\ step'[n] = "lost")
  <2>1. s \in [Msg -> Step] /\ s[m] = next /\ \A n \in Msg \ {m} : s[n] = step[n]
    BY <1>0, TurnTypes DEF IInv, Step
  <2>2. "lost" \in Step /\ step' = Signal(s, "lost")
    BY <1>1 DEF Step
  <2> HIDE DEF s
  <2> QED
    BY <1>0, <2>1, <2>2, SignalWakes
<1>3. FlushOK(flushing, step)' /\ QueueOK(messageQueue, step)'
  BY <1>1, <1>2, CallMoves DEF InTurn, InChat
<1>4. TurnsTypeOK'
  <2>1. events' \in Seq({"request", "error"})
    BY <1>1
  <2> QED
    BY <1>1, <1>2, <2>1 DEF IInv, TurnsTypeOK
<1>5. RunsInv' /\ SentInv'
  BY <1>1, <1>2 DEF IInv, RunsInv, SentInv
<1>6. BusyInv'
  BY <1>2 DEF BusyInv, Busy, InTurn, InChat
<1>7. PatientInv'
  <2>1. \A n \in Msg : Active(n)' => Active(n)
    BY <1>1, <1>2 DEF Active, Live, InTurn, InChat
  <2>2. \A n \in Msg : step'[n] \in InTurn => step[n] \in InTurn
    BY <1>1, <1>2 DEF InTurn, InChat
  <2>3. \A n \in Msg : /\ step'[n] \in {"close", "over"} => step[n] \in {"close", "over"}
                       /\ step'[n] = "close" => step[n] = "close"
    BY <1>2
  <2> QED
    BY <1>1, <2>1, <2>2, <2>3 DEF IInv, PatientInv, QueueInOrder
<1> QED
  BY <1>3, <1>4, <1>5, <1>6, <1>7 DEF IInv

\* The subprocess is spawned, reports that it is ready, or failed to be spawned.
LEMMA SpawnStep ==
  ASSUME IInv, Spawn \/ SubprocessReady \/ SpawnFails
  PROVE  IInv'
<1>1. /\ subprocess' \in {"starting", "ready", "failed"} /\ exits' \in Nat /\ done' \in BOOLEAN
      /\ events' \in {events, Append(events, "error")}
      /\ UNCHANGED <<flushing, isProcessing, activeRun, abortRequested, assembledSelection, status, failed, agent,
                     runs, messageQueue, agentProcessing, stdin, stdout, preparing, executing,
                     patient, requests, cancels>>
  <2>1. exits \in Nat /\ done \in BOOLEAN
    BY DEF IInv, TurnsTypeOK
  <2>2. CASE Spawn
    BY <2>1, <2>2 DEF Spawn, turnState, agentVars, historyVars, boundVars
  <2>3. CASE SubprocessReady
    BY <2>1, <2>3 DEF SubprocessReady, turnState, agentVars, historyVars, boundVars
  <2>4. CASE SpawnFails
    BY <2>1, <2>4 DEF SpawnFails, turnState
  <2> QED
    BY <2>2, <2>3, <2>4
<1>2. /\ step' \in [Msg -> Step]
      /\ \A n \in Msg : \/ step'[n] = step[n]
                        \/ step[n] = "spawn" /\ step'[n] \in {"setup", "hung"}
                        \/ step[n] = "wait" /\ step'[n] = "drain"
  <2>0. step \in [Msg -> Step] /\ "setup" \in Step /\ "hung" \in Step /\ "drain" \in Step
    BY TurnTypes DEF IInv, Step
  <2>1. CASE Spawn
    BY <2>0, <2>1 DEF Spawn
  <2>2. CASE SubprocessReady
    BY <2>0, <2>2, AwakenMoves DEF SubprocessReady
  <2>3. CASE SpawnFails
    <3> DEFINE s == Awaken(step, "hung")
    <3>1. step' = Signal(s, "drain")
      BY <2>3 DEF SpawnFails
    <3>2. s \in [Msg -> Step] /\ \A n \in Msg : s[n] = IF step[n] = "spawn" THEN "hung" ELSE step[n]
      BY <2>0, AwakenMoves
    <3> HIDE DEF s
    <3> QED
      BY <2>0, <3>1, <3>2, SignalWakes
  <2> QED
    BY <2>1, <2>2, <2>3
<1>3. events' \in Seq({"request", "error"})
  <2>1. events \in Seq({"request", "error"})
    BY TurnTypes DEF IInv
  <2>2. Append(events, "error") \in Seq({"request", "error"})
    BY <2>1
  <2> QED
    BY <1>1, <2>1, <2>2
<1>4. TurnsTypeOK'
  BY <1>1, <1>2, <1>3 DEF IInv, TurnsTypeOK
<1>5. Advance
  BY <1>1, <1>2 DEF Advance, Busy, InTurn, InChat
<1>6. FlushOK(flushing, step)' /\ QueueOK(messageQueue, step)'
  BY <1>1, <1>2, CallMoves DEF InTurn, InChat
<1> QED
  BY <1>4, <1>5, <1>6, AdvanceKeeps DEF IInv

LEMMA PromptStep ==
  ASSUME IInv, NEW m \in Msg, Prompt(m)
  PROVE  IInv'
<1>1. /\ step[m] = "setup" /\ step' = [step EXCEPT ![m] = "drain"]
      /\ SendLine("prompt")
      /\ UNCHANGED <<flushing, isProcessing, activeRun, abortRequested, assembledSelection, status, failed, agent,
                     runs, messageQueue, agentProcessing, events, done, subprocess, stdout, preparing, executing,
                     patient, requests, cancels, exits>>
  BY DEF Prompt, turnState, agentVars, historyVars, boundVars
<1>2. step' \in [Msg -> Step] /\ step'[m] = "drain" /\ \A n \in Msg \ {m} : step'[n] = step[n]
  BY <1>1, TurnTypes DEF IInv, Step
<1>3. stdin' \in Seq(Line)
  <2>1. "prompt" \in Line
    BY DEF Line
  <2> QED
    BY <1>1, <2>1, LineSent DEF IInv
<1>4. TurnsTypeOK'
  BY <1>1, <1>2, <1>3 DEF IInv, TurnsTypeOK, Line
<1>5. Advance
  BY <1>1, <1>2 DEF Advance, Busy, InTurn, InChat
<1>6. FlushOK(flushing, step)' /\ QueueOK(messageQueue, step)'
  BY <1>1, <1>2, CallMoves DEF InTurn, InChat
<1> QED
  BY <1>4, <1>5, <1>6, AdvanceKeeps DEF IInv

\* The loop takes an event, ends or waits; at a commit barrier it awaits a flush.
LEMMA DrainStep ==
  ASSUME IInv, NEW m \in Msg, Drain(m)
  PROVE  IInv'
<1>1. step[m] = "drain"
      /\ UNCHANGED <<isProcessing, activeRun, abortRequested, assembledSelection, messageQueue,
                     status, agent, runs, agentProcessing, done, subprocess, stdin, stdout, preparing, executing,
                     patient, requests, cancels, exits>>
  BY DEF Drain, subprocessVars, historyVars, boundVars
<1>2. /\ flushing \in Seq(Place) /\ messageQueue \in Seq(Msg) /\ step \in [Msg -> Step]
      /\ events \in Seq({"request", "error"}) /\ failed \in SUBSET Msg
      /\ FlushOK(flushing, step) /\ QueueOK(messageQueue, step)
  BY TurnTypes DEF IInv, TurnsTypeOK
<1>3. \/ /\ events # <<>> /\ events' = Tail(events) /\ step' = [step EXCEPT ![m] = "request"]
         /\ flushing' = FlushAt(flushing, m, "request") /\ UNCHANGED failed
      \/ /\ events # <<>> /\ events' = Tail(events)
         /\ failed' = failed \union {m} /\ UNCHANGED <<step, flushing>>
      \/ /\ step' = [step EXCEPT ![m] = IF done THEN "ended" ELSE "wait"]
         /\ UNCHANGED <<events, flushing, failed>>
  BY DEF Drain
<1>4. events' \in Seq({"request", "error"}) /\ failed' \in SUBSET Msg
  <2>1. events # <<>> => Tail(events) \in Seq({"request", "error"})
    BY <1>2
  <2> QED
    BY <1>2, <1>3, <2>1
<1>5. /\ step' \in [Msg -> Step] /\ step'[m] \in {"drain", "request", "ended", "wait"}
      /\ \A n \in Msg \ {m} : step'[n] = step[n]
  BY <1>1, <1>2, <1>3 DEF Step
<1>6. FlushOK(flushing, step') /\ QueueOK(messageQueue, step')
  <2>1. \A n \in Msg : step'[n] = step[n] \/ step[n] \notin Awaiting \union {"queued"}
    BY <1>1, <1>5 DEF Awaiting
  <2> QED
    BY <1>2, <2>1, OthersMove
<1>7. flushing' \in Seq(Place) /\ FlushOK(flushing', step')
  <2>1. CASE flushing' = flushing
    BY <1>2, <1>6, <2>1
  <2>2. CASE flushing' = FlushAt(flushing, m, "request") /\ step' = [step EXCEPT ![m] = "request"]
    <3>1. NoPlace(flushing, m)
      BY <1>1, <1>2, NotAwaiting DEF Awaiting
    <3>2. step'[m] = "request" /\ "request" \in Awaiting
      BY <1>2, <2>2 DEF Awaiting
    <3> QED
      BY <1>2, <1>6, <2>2, <3>1, <3>2, FlushAppends
  <2> QED
    BY <1>3, <2>1, <2>2
<1>8. TurnsTypeOK'
  BY <1>1, <1>4, <1>5, <1>7 DEF IInv, TurnsTypeOK, Place
<1>9. Advance
  BY <1>1, <1>5 DEF Advance, Busy, InTurn, InChat
<1> QED
  BY <1>1, <1>6, <1>7, <1>8, <1>9, AdvanceKeeps DEF IInv

\* A turn ends: for a patient user the run it settles is its own. Others may hang.
LEMMA EndTurnStep ==
  ASSUME IInv, NEW m \in Msg, NEW s \in {step, Awaken(step, "hung")}, NEW error \in BOOLEAN,
         EndTurn(m, s, error),
         step[m] \in {"agent", "spawn", "setup", "ended"}, agentProcessing' \in BOOLEAN,
         subprocess' \in {subprocess, "failed"},
         exits' \in Nat, UNCHANGED <<failed, patient, requests, cancels>>
  PROVE  IInv'
<1>1. /\ step' = [s EXCEPT ![m] = "close"] /\ flushing' = FlushAt(flushing, m, "close")
      /\ status' = SettleRun(error) /\ activeRun' = None /\ abortRequested' = FALSE
      /\ isProcessing' = FALSE /\ assembledSelection' = None
      /\ UNCHANGED <<agent, runs, messageQueue, events, done, stdin, stdout, preparing, executing>>
  BY DEF EndTurn
<1>2. /\ flushing \in Seq(Place) /\ messageQueue \in Seq(Msg) /\ step \in [Msg -> Step]
      /\ status \in [Msg -> {"none", "running", "completed", "error", "aborted"}]
      /\ activeRun \in Msg \union {None}
      /\ FlushOK(flushing, step) /\ QueueOK(messageQueue, step)
  BY TurnTypes DEF IInv
<1>3. /\ step' \in [Msg -> Step] /\ step'[m] = "close"
      /\ \A n \in Msg \ {m} : step'[n] = step[n] \/ (step[n] = "spawn" /\ step'[n] = "hung")
  <2>1. "hung" \in Step /\ "close" \in Step
    BY DEF Step
  <2>3. /\ Awaken(step, "hung") \in [Msg -> Step]
        /\ \A n \in Msg : LET t == Awaken(step, "hung")[n]
                          IN t = step[n] \/ (step[n] = "spawn" /\ t = "hung")
    BY <1>2, <2>1, AwakenMoves
  <2>2. /\ s \in [Msg -> Step]
        /\ \A n \in Msg : s[n] = step[n] \/ (step[n] = "spawn" /\ s[n] = "hung")
    BY <1>2, <2>3
  <2> QED
    BY <1>1, <2>1, <2>2
<1>4. FlushOK(flushing, step') /\ QueueOK(messageQueue, step')
  <2>1. \A n \in Msg : step'[n] = step[n] \/ step[n] \notin Awaiting \union {"queued"}
    BY <1>3 DEF Awaiting
  <2> QED
    BY <1>2, <2>1, OthersMove
<1>5. flushing' \in Seq(Place) /\ FlushOK(flushing', step')
  <2>1. NoPlace(flushing, m)
    BY <1>2, NotAwaiting DEF Awaiting
  <2>2. "close" \in Awaiting
    BY DEF Awaiting
  <2> QED
    BY <1>1, <1>2, <1>3, <1>4, <2>1, <2>2, FlushAppends
<1>6. /\ status' \in [Msg -> {"none", "running", "completed", "error", "aborted"}]
      /\ \A n \in Msg : status'[n] = status[n] \/ status'[n] # "running"
      /\ activeRun # None => status'[activeRun] # "running"
  BY <1>1, <1>2 DEF SettleRun, Outcome
<1>7. TurnsTypeOK'
  BY <1>1, <1>3, <1>5, <1>6 DEF IInv, TurnsTypeOK, Place
<1>8. RunsInv' /\ SentInv'
  BY <1>1, <1>3 DEF IInv, RunsInv, SentInv
<1>9. BusyInv'
  BY <1>1, <1>3 DEF BusyInv
<1>10. PatientInv'
  <2> SUFFICES ASSUME patient PROVE PatientInv'
    BY DEF PatientInv
  <2>1. step[m] \in InTurn /\ activeRun = m
    BY DEF IInv, PatientInv, InTurn, InChat
  <2>2. \A n \in Msg : Active(n)' => Active(n)
    BY <1>3, <2>1 DEF Active, Live, InTurn, InChat
  <2>3. \A n \in Msg : step'[n] \notin InTurn
    BY <1>3, <2>1 DEF IInv, PatientInv, Active, Live, InTurn, InChat
  <2>4. m # None
    BY DEF Msg, None
  <2>5. \A n \in Msg : step'[n] \in {"close", "over"} => status'[n] # "running"
    BY <1>3, <1>6, <2>1, <2>4 DEF IInv, PatientInv
  <2> QED
    BY <1>1, <2>2, <2>3, <2>5 DEF IInv, PatientInv, QueueInOrder
<1> QED
  BY <1>1, <1>4, <1>5, <1>7, <1>8, <1>9, <1>10 DEF IInv

LEMMA FailTurnStep ==
  ASSUME IInv, NEW m \in Msg, FailTurn(m)
  PROVE  IInv'
<1>1. /\ step[m] \in {"agent", "spawn", "setup", "ended"} /\ exits' \in Nat
      /\ agentProcessing' \in BOOLEAN /\ UNCHANGED <<failed, patient, requests, cancels>>
  BY DEF FailTurn, IInv, TurnsTypeOK
<1>2. \/ subprocess' = "failed" /\ EndTurn(m, Awaken(step, "hung"), TRUE)
      \/ UNCHANGED subprocess /\ EndTurn(m, step, TRUE)
  BY DEF FailTurn
<1> QED
  BY <1>1, <1>2, EndTurnStep

LEMMA UnwindStep ==
  ASSUME IInv, NEW m \in Msg, Unwind(m)
  PROVE  IInv'
<1>1. /\ step[m] \in {"agent", "spawn", "setup", "ended"} /\ exits' \in Nat /\ UNCHANGED subprocess
      /\ agentProcessing' \in BOOLEAN /\ UNCHANGED <<failed, patient, requests, cancels>>
  BY DEF Unwind, IInv, TurnsTypeOK, historyVars, boundVars
<1>2. EndTurn(m, step, m \in failed) /\ (m \in failed) \in BOOLEAN
  BY DEF Unwind
<1> QED
  BY <1>1, <1>2, EndTurnStep

-----------------------------------------------------------------------------
(* Stops, and the subprocess *)

\* Those who wait are woken, and no other call moves.
LEMMA WakeStep ==
  ASSUME IInv, NEW next \in {"drain", "ended"}, step' \in {step, Signal(step, next)},
         UNCHANGED <<flushing, messageQueue, runs, activeRun, assembledSelection, status>>,
         isProcessing' => isProcessing, patient' => patient
  PROVE  /\ step' \in [Msg -> Step]
         /\ FlushOK(flushing, step)' /\ QueueOK(messageQueue, step)'
         /\ RunsInv' /\ BusyInv' /\ SentInv' /\ PatientInv'
<1>1. step \in [Msg -> Step] /\ next \in Step
  BY TurnTypes DEF IInv, Step
<1>2. /\ step' \in [Msg -> Step]
      /\ \A n \in Msg : step'[n] = step[n] \/ (step[n] = "wait" /\ step'[n] = next)
  BY <1>1, SignalWakes
<1>3. Advance
  BY <1>2 DEF Advance, Busy, InTurn, InChat
<1>4. FlushOK(flushing, step)' /\ QueueOK(messageQueue, step)'
  BY <1>2, CallMoves DEF InTurn, InChat
<1> QED
  BY <1>2, <1>3, <1>4, AdvanceKeeps

LEMMA CancelProcessingStep ==
  ASSUME IInv, CancelProcessing
  PROVE  IInv'
<1>1. /\ patient' = (patient /\ Settled) /\ cancels' = cancels + 1
      /\ abortRequested' = (activeRun # None) /\ isProcessing' = FALSE
      /\ agentProcessing' = FALSE /\ done' = TRUE /\ events' = events
      /\ step' = Signal(step, "ended") /\ SendLine("abort")
      /\ UNCHANGED <<flushing, activeRun, assembledSelection, messageQueue, status, failed, agent,
                     runs, subprocess, stdout, preparing, executing, requests, exits>>
  BY DEF CancelProcessing, ForceAbort
<1>2. stdin' \in Seq(Line)
  <2>1. "abort" \in Line
    BY DEF Line
  <2> QED
    BY <1>1, <2>1, LineSent DEF IInv
<1>3. /\ step' \in [Msg -> Step]
      /\ FlushOK(flushing, step)' /\ QueueOK(messageQueue, step)'
      /\ RunsInv' /\ BusyInv' /\ SentInv' /\ PatientInv'
  BY <1>1, WakeStep
<1>4. TurnsTypeOK'
  <2>1. patient' \in BOOLEAN /\ cancels' \in Nat
    BY <1>1 DEF IInv, TurnsTypeOK, Settled
  <2> QED
    BY <1>1, <1>2, <1>3, <2>1 DEF IInv, TurnsTypeOK, Line
<1> QED
  BY <1>3, <1>4 DEF IInv

LEMMA HandleSubprocessEventStep ==
  ASSUME IInv, HandleSubprocessEvent
  PROVE  IInv'
<1>1. /\ stdout # <<>> /\ stdout' = Tail(stdout) /\ step' = Signal(step, "drain")
      /\ \/ Head(stdout) # "end" /\ events' = Append(events, Head(stdout)) /\ UNCHANGED done
         \/ done' = TRUE /\ UNCHANGED events
      /\ UNCHANGED <<flushing, isProcessing, activeRun, abortRequested, assembledSelection, status, failed, agent,
                     runs, messageQueue, agentProcessing, subprocess, stdin, preparing, executing,
                     patient, requests, cancels, exits>>
  BY DEF HandleSubprocessEvent, turnState, historyVars, boundVars
<1>2. stdout' \in Seq({"request", "error", "end"}) /\ events' \in Seq({"request", "error"})
  <2>1. stdout \in Seq({"request", "error", "end"}) /\ events \in Seq({"request", "error"})
    BY TurnTypes DEF IInv
  <2>2. Head(stdout) # "end" => Append(events, Head(stdout)) \in Seq({"request", "error"})
    BY <1>1, <2>1
  <2>3. Tail(stdout) \in Seq({"request", "error", "end"})
    BY <1>1, <2>1
  <2> QED
    BY <1>1, <2>1, <2>2, <2>3
<1>3. /\ step' \in [Msg -> Step]
      /\ FlushOK(flushing, step)' /\ QueueOK(messageQueue, step)'
      /\ RunsInv' /\ BusyInv' /\ SentInv' /\ PatientInv'
  BY <1>1, WakeStep
<1>4. done' \in BOOLEAN
  BY <1>1 DEF IInv, TurnsTypeOK
<1>5. TurnsTypeOK'
  BY <1>1, <1>2, <1>3, <1>4 DEF IInv, TurnsTypeOK
<1> QED
  BY <1>3, <1>5 DEF IInv

\* An exit wakes those who wait if the agent listens, and leaves no call that waits
\* for the subprocess to be ready.
LEMMA ExitMoves ==
  ASSUME IInv, HandleSubprocessExit
  PROVE  /\ step' \in [Msg -> Step]
         /\ \A n \in Msg : \/ step'[n] = step[n] /\ step[n] # "spawn"
                           \/ step[n] = "spawn" /\ step'[n] \in {"setup", "hung"}
                           \/ step[n] = "wait" /\ step'[n] = "drain"
         /\ agentProcessing => \A n \in Msg : step'[n] # "wait"
<1> DEFINE S(n) == [m \in Msg |-> IF m = n /\ step[m] = "spawn" THEN "setup" ELSE Awaken(step, "hung")[m]]
<1>1. PICK n \in Msg \union {None} :
        IF agentProcessing THEN step' = Signal(S(n), "drain") ELSE step' = S(n)
  BY DEF HandleSubprocessExit
<1>2. step \in [Msg -> Step] /\ "setup" \in Step /\ "hung" \in Step /\ "drain" \in Step \ {"wait"}
  BY TurnTypes DEF IInv, Step
<1>3. \A m \in Msg : Awaken(step, "hung")[m] = IF step[m] = "spawn" THEN "hung" ELSE step[m]
  BY <1>2, AwakenMoves
<1>4. /\ S(n) \in [Msg -> Step]
      /\ \A m \in Msg : \/ S(n)[m] = step[m] /\ step[m] # "spawn"
                        \/ step[m] = "spawn" /\ S(n)[m] \in {"setup", "hung"}
  BY <1>2, <1>3
<1> HIDE DEF S
<1>5. CASE agentProcessing
  <2> DEFINE t == S(n)
  <2>1. step' = Signal(t, "drain") /\ t \in [Msg -> Step]
    BY <1>1, <1>4, <1>5
  <2>2. \A m \in Msg : \/ t[m] = step[m] /\ step[m] # "spawn"
                       \/ step[m] = "spawn" /\ t[m] \in {"setup", "hung"}
    BY <1>4
  <2> HIDE DEF t
  <2>3. /\ step' \in [Msg -> Step]
        /\ \A m \in Msg : /\ step'[m] = IF t[m] = "wait" THEN "drain" ELSE t[m]
                          /\ step'[m] # "wait"
    BY <1>2, <2>1, SignalWakes, NobodyWaits
  <2> QED
    BY <2>2, <2>3
<1>6. CASE ~agentProcessing
  BY <1>1, <1>4, <1>6
<1> QED
  BY <1>5, <1>6

LEMMA HandleSubprocessExitStep ==
  ASSUME IInv, HandleSubprocessExit
  PROVE  IInv'
<1>1. /\ exits' = exits + 1 /\ subprocess' = "none"
      /\ stdin' = <<>> /\ stdout' = <<>> /\ preparing' = 0 /\ executing' = FALSE
      /\ events' \in {events, Append(events, "error")} /\ done' \in {done, TRUE}
      /\ UNCHANGED <<flushing, isProcessing, activeRun, abortRequested, assembledSelection, status, failed, agent,
                     runs, messageQueue, agentProcessing, patient, requests, cancels>>
  BY DEF HandleSubprocessExit, turnState
<1>2. /\ stdin' \in Seq(Line) /\ stdout' \in Seq({"request", "error", "end"})
      /\ events' \in Seq({"request", "error"}) /\ exits' \in Nat
  <2>1. events \in Seq({"request", "error"}) /\ exits \in Nat
    BY DEF IInv, TurnsTypeOK
  <2>2. Append(events, "error") \in Seq({"request", "error"})
    BY <2>1
  <2>3. <<>> \in Seq(Line) /\ <<>> \in Seq({"request", "error", "end"})
    OBVIOUS
  <2> QED
    BY <1>1, <2>1, <2>2, <2>3
<1>3. /\ step' \in [Msg -> Step]
      /\ \A n \in Msg : \/ step'[n] = step[n]
                        \/ step[n] = "spawn" /\ step'[n] \in {"setup", "hung"}
                        \/ step[n] = "wait" /\ step'[n] = "drain"
  BY ExitMoves
<1>4. TurnsTypeOK'
  BY <1>1, <1>2, <1>3 DEF IInv, TurnsTypeOK, Line
<1>5. Advance
  BY <1>1, <1>3 DEF Advance, Busy, InTurn, InChat
<1>6. FlushOK(flushing, step)' /\ QueueOK(messageQueue, step)'
  BY <1>1, <1>3, CallMoves DEF InTurn, InChat
<1> QED
  BY <1>4, <1>5, <1>6, AdvanceKeeps DEF IInv

\* What the subprocess does by itself, and a stutter, move no call.
LEMMA SubprocessSteps ==
  ASSUME IInv, SubprocessStep \/ ModelCall \/ UNCHANGED turnVars
  PROVE  IInv'
<1>1. /\ UNCHANGED <<step, flushing, isProcessing, activeRun, abortRequested, assembledSelection, status, failed,
                     agent, runs, messageQueue, agentProcessing, events, done, subprocess,
                     patient, cancels>>
      /\ requests' \in Nat /\ exits' \in Nat
  <2>1. requests \in Nat /\ exits \in Nat
    BY DEF IInv, TurnsTypeOK
  <2>2. CASE ProcessMessage \/ AgentEnd
    BY <2>1, <2>2 DEF ProcessMessage, AgentEnd, turnState, agentVars, historyVars, boundVars
  <2>3. CASE ModelCall \/ StartPrompt
    BY <2>1, <2>3 DEF ModelCall, StartPrompt, turnState, agentVars
  <2>4. CASE UNCHANGED turnVars
    BY <2>1, <2>4 DEF turnVars, turnState, agentVars, subprocessVars, historyVars, boundVars
  <2> QED
    BY <2>2, <2>3, <2>4 DEF SubprocessStep
<1>2. /\ stdin \in Seq(Line) /\ stdout \in Seq({"request", "error", "end"})
      /\ preparing \in Nat /\ executing \in BOOLEAN
  BY TurnTypes DEF IInv, TurnsTypeOK
<1>3. /\ stdin' \in Seq(Line) /\ stdout' \in Seq({"request", "error", "end"})
      /\ preparing' \in Nat /\ executing' \in BOOLEAN
  <2>1. CASE ProcessMessage
    <3>1. Tail(stdin) \in Seq(Line) /\ Append(stdout, "end") \in Seq({"request", "error", "end"})
      BY <1>2, <2>1 DEF ProcessMessage
    <3>2. preparing + 1 \in Nat
      BY <1>2
    <3>3. /\ stdin' = Tail(stdin) /\ stdout' \in {stdout, Append(stdout, "end")}
          /\ preparing' \in {preparing, preparing + 1} /\ executing' \in {executing, FALSE}
      BY <2>1 DEF ProcessMessage
    <3> QED
      BY <1>2, <3>1, <3>2, <3>3
  <2>2. CASE ModelCall \/ AgentEnd
    <3>1. \A line \in {"request", "end"} : Append(stdout, line) \in Seq({"request", "error", "end"})
      BY <1>2
    <3>2. /\ \E line \in {"request", "end"} : stdout' = Append(stdout, line)
          /\ executing' \in {executing, FALSE} /\ UNCHANGED <<stdin, preparing>>
      BY <2>2 DEF ModelCall, AgentEnd
    <3> QED
      BY <1>2, <3>1, <3>2
  <2>3. CASE StartPrompt
    <3>1. <<"error", "end">> \in Seq({"request", "error", "end"})
      OBVIOUS
    <3>2. stdout \o <<"error", "end">> \in Seq({"request", "error", "end"})
      BY <1>2, <3>1
    <3>3. preparing - 1 \in Nat
      BY <1>2, <2>3 DEF StartPrompt
    <3>4. /\ preparing' = preparing - 1 /\ UNCHANGED stdin
          /\ stdout' \in {stdout, stdout \o <<"error", "end">>} /\ executing' \in {executing, TRUE}
      BY <2>3 DEF StartPrompt
    <3> QED
      BY <1>2, <3>2, <3>3, <3>4
  <2>4. CASE UNCHANGED turnVars
    BY <1>2, <2>4 DEF turnVars, subprocessVars
  <2> QED
    BY <2>1, <2>2, <2>3, <2>4 DEF SubprocessStep
<1>4. /\ FlushOK(flushing, step)' /\ QueueOK(messageQueue, step)'
      /\ RunsInv' /\ BusyInv' /\ SentInv' /\ PatientInv'
  BY <1>1, WakeStep
<1>5. TurnsTypeOK'
  BY <1>1, <1>3 DEF IInv, TurnsTypeOK, Line
<1> QED
  BY <1>4, <1>5 DEF IInv

-----------------------------------------------------------------------------
(* What a call waits for is under way *)

\* The calls of s that await a flush have their place in f.
Placed(f, s) ==
  \A m \in Msg : s[m] \in Awaiting => \E i \in 1..Len(f) : f[i] = [msg |-> m, at |-> s[m]]

\* A call waits for an event only while there is none, and the queue is not done.
WaitOK(s) == \A m \in Msg : s[m] = "wait" => ~done /\ events = <<>>

InLoop == {"drain", "wait", "request", "ended"}
\* A turn that comes to its end: of the calls that take events, one whose queue is done,
\* or whose subprocess still has an end to report to an agent that listens.
Driven(m) ==
  \/ step[m] \in {"open", "agent"}
  \/ step[m] = "spawn" /\ (done \/ agentProcessing)
  \/ step[m] = "setup" /\ (done \/ (agentProcessing /\ subprocess = "ready"))
  \/ step[m] \in InLoop /\ (done \/ (agentProcessing /\ Answering))

DrivenInv ==
  /\ isProcessing => \E m \in Msg : Driven(m) \/ Hangs(m)
  /\ messageQueue # <<>> => \E m \in Msg : Driven(m) \/ Hangs(m) \/ step[m] \in {"accept", "close"}

DriveInv == Placed(flushing, step) /\ WaitOK(step) /\ DrivenInv

\* Calls that await nothing new keep their places.
LEMMA PlacesStay ==
  ASSUME NEW f, NEW s, NEW t, Placed(f, s), \A n \in Msg : t[n] = s[n] \/ t[n] \notin Awaiting
  PROVE  Placed(f, t)
BY DEF Placed

\* A call that awaits a flush gets its place.
LEMMA PlaceTaken ==
  ASSUME NEW f \in Seq(Place), NEW s, NEW t, Placed(f, s), NEW m \in Msg,
         NEW at \in Awaiting \union {"ack"},
         \A n \in Msg : t[n] = s[n] \/ t[n] \notin Awaiting \/ (n = m /\ t[n] = at)
  PROVE  Placed(FlushAt(f, m, at), t)
<1> DEFINE p == [msg |-> m, at |-> at]
           g == FlushAt(f, m, at)
<1>1. p \in Place /\ g = Append(f, p)
  BY DEF Place, Awaiting, FlushAt
<1>2. p = [msg |-> m, at |-> at]
  OBVIOUS
<1> HIDE DEF p, g
<1>3. Len(g) = Len(f) + 1 /\ Len(f) \in Nat /\ g[Len(f) + 1] = p
      /\ \A i \in 1..Len(f) : g[i] = f[i]
  BY <1>1
<1> SUFFICES ASSUME NEW n \in Msg, t[n] \in Awaiting
             PROVE  \E i \in 1..Len(g) : g[i] = [msg |-> n, at |-> t[n]]
  BY DEF Placed, g
<1>4. CASE n = m /\ t[n] = at
  <2>1. Len(f) + 1 \in 1..Len(g)
    BY <1>3
  <2> QED
    BY <1>2, <1>3, <1>4, <2>1
<1>5. CASE t[n] = s[n]
  <2>1. PICK i \in 1..Len(f) : f[i] = [msg |-> n, at |-> s[n]]
    BY <1>5 DEF Placed
  <2>2. i \in 1..Len(g) /\ g[i] = f[i]
    BY <1>3, <2>1
  <2> QED
    BY <1>5, <2>1, <2>2
<1> QED
  BY <1>4, <1>5

\* When the first in line goes on, the others keep their places.
LEMMA PlaceLeft ==
  ASSUME NEW f \in Seq(Place), f # <<>>, NEW s, NEW t, Placed(f, s),
         \A n \in Msg : \/ t[n] \notin Awaiting
                        \/ t[n] = s[n] /\ (Head(f).at = "ack" \/ n # Head(f).msg)
  PROVE  Placed(Tail(f), t)
<1> DEFINE g == Tail(f)
           h == Head(f)
<1>1. h = f[1] /\ Len(g) = Len(f) - 1 /\ Len(f) \in Nat \ {0}
      /\ \A i \in 1..Len(g) : g[i] = f[i + 1]
  OBVIOUS
<1>2. \A n \in Msg : t[n] \notin Awaiting \/ (t[n] = s[n] /\ (h.at = "ack" \/ n # h.msg))
  OBVIOUS
<1> HIDE DEF g, h
<1> SUFFICES ASSUME NEW n \in Msg, t[n] \in Awaiting
             PROVE  \E i \in 1..Len(g) : g[i] = [msg |-> n, at |-> t[n]]
  BY DEF Placed, g
<1>3. PICK i \in 1..Len(f) : f[i] = [msg |-> n, at |-> s[n]]
  BY <1>2 DEF Placed
<1>4. f[i].msg = n /\ f[i].at \in Awaiting /\ t[n] = s[n]
  BY <1>2, <1>3
<1>5. i # 1
  BY <1>1, <1>2, <1>4 DEF Awaiting
<1>6. i - 1 \in 1..Len(g) /\ g[i - 1] = f[i]
  <2>1. i - 1 \in 1..Len(g)
    BY <1>1, <1>3, <1>5
  <2>2. g[i - 1] = f[(i - 1) + 1] /\ (i - 1) + 1 = i
    BY <1>1, <2>1
  <2> QED
    BY <2>1, <2>2
<1> QED
  BY <1>3, <1>4, <1>6

\* The subprocess that has an end to report still has it when lines and output are added.
LEMMA StillAnswering ==
  ASSUME TurnsTypeOK, Answering, subprocess' = subprocess, executing => executing',
         preparing' = preparing,
         stdin' = stdin \/ \E line \in Line : stdin' = Append(stdin, line),
         stdout' = stdout \/ \E line \in {"request", "error", "end"} : stdout' = Append(stdout, line)
  PROVE  Answering'
<1>1. stdin \in Seq(Line) /\ stdout \in Seq({"request", "error", "end"})
  BY TurnTypes
<1>2. \A i \in 1..Len(stdin) : i \in 1..Len(stdin') /\ stdin'[i] = stdin[i]
  BY <1>1
<1>3. \A i \in 1..Len(stdout) : i \in 1..Len(stdout') /\ stdout'[i] = stdout[i]
  BY <1>1
<1> QED
  BY <1>2, <1>3 DEF Answering, Running

\* A step after which every turn that came to its end still does.
Progress ==
  /\ done => done'
  /\ agentProcessing => \/ done'
                        \/ /\ agentProcessing'
                           /\ subprocess = "ready" => subprocess' = "ready"
                           /\ Answering => Answering'

\* Where it stands does not matter, as long as it goes on.
GoesOn(m) ==
  \/ step'[m] = step[m]
  \/ step[m] \in InLoop /\ step'[m] \in InLoop
  \/ step[m] = "open" /\ step'[m] = "agent"
  \/ /\ step[m] = "spawn" /\ step'[m] = "setup"
     /\ agentProcessing => done' \/ (agentProcessing' /\ subprocess' = "ready")

LEMMA StaysDriven ==
  ASSUME Progress, NEW m \in Msg, Driven(m), GoesOn(m)
  PROVE  Driven(m)'
BY DEF Progress, Driven, GoesOn, InLoop

\* No turn begins or ends, and the user does nothing impatient.
SameTurn == UNCHANGED activeRun /\ (patient' => patient)

LEMMA StillHangs ==
  ASSUME SameTurn, NEW m \in Msg, Hangs(m), step'[m] = step[m]
  PROVE  Hangs(m)'
BY DEF SameTurn, Hangs

\* For a patient user the turn that hangs is the last one that began.
LEMMA HangsNow ==
  ASSUME IInv, SameTurn, NEW m \in Msg, step[m] \in InTurn, step'[m] = "hung"
  PROVE  Hangs(m)'
BY DEF SameTurn, Hangs, IInv, PatientInv

\* Steps that begin or end no turn.
LEMMA KeepDriven ==
  ASSUME IInv, DrivenInv, Progress, SameTurn,
         \A n \in Msg : GoesOn(n) \/ step[n] = "unsent" \/ (step[n] = "spawn" /\ step'[n] = "hung"),
         isProcessing' => isProcessing,
         messageQueue' # <<>> => isProcessing \/ messageQueue # <<>>
  PROVE  DrivenInv'
<1>1. \A n \in Msg : Driven(n) => Driven(n)' \/ Hangs(n)'
  <2> SUFFICES ASSUME NEW n \in Msg, Driven(n) PROVE Driven(n)' \/ Hangs(n)'
    OBVIOUS
  <2>1. step[n] # "unsent"
    BY DEF Driven, InLoop
  <2>2. step[n] = "spawn" => step[n] \in InTurn
    BY DEF InTurn, InChat
  <2> QED
    BY <2>1, <2>2, StaysDriven, HangsNow
<1>2. \A n \in Msg : Hangs(n) => Hangs(n)'
  BY StillHangs DEF Hangs, GoesOn, InLoop
<1>3. \A n \in Msg : step[n] \in {"accept", "close"} => step'[n] \in {"accept", "close"}
  BY DEF GoesOn, InLoop
<1> QED
  BY <1>1, <1>2, <1>3 DEF DrivenInv

\* A message that goes its way leaves all that as it is.
LEMMA DeliverDrives ==
  ASSUME TurnsTypeOK, NEW m \in Msg, NEW s \in [Msg -> Step], NEW f \in Seq(Place), NEW q \in Seq(Msg),
         s[m] \in {"unsent", "queued"}, Placed(f, s), WaitOK(s), Deliver(m, s, f, q),
         UNCHANGED <<subprocess, stdout, preparing, executing>>
  PROVE  Placed(flushing', step') /\ WaitOK(step)' /\ Progress
<1>1. ASSUME NEW x \in {"accept", "steered", "queued"}
      PROVE  LET t == [s EXCEPT ![m] = x]
             IN t \in [Msg -> Step] /\ t[m] = x /\ \A n \in Msg \ {m} : t[n] = s[n]
  BY DEF Step
<1>2. CASE /\ ~isProcessing
           /\ step' = [s EXCEPT ![m] = "accept"] /\ flushing' = FlushAt(f, m, "accept")
           /\ UNCHANGED <<agentVars, stdin>>
  <2>1. step'[m] = "accept" /\ \A n \in Msg \ {m} : step'[n] = s[n]
    BY <1>1, <1>2
  <2>2. Placed(flushing', step')
    <3>1. "accept" \in Awaiting \union {"ack"} /\ flushing' = FlushAt(f, m, "accept")
      BY <1>2 DEF Awaiting
    <3>2. \A n \in Msg : step'[n] = s[n] \/ (n = m /\ step'[n] = "accept")
      BY <2>1
    <3> QED
      BY <3>1, <3>2, PlaceTaken
  <2>3. UNCHANGED <<agentProcessing, events, done, stdin>>
    BY <1>2 DEF agentVars
  <2> QED
    BY <2>1, <2>2, <2>3 DEF WaitOK, Progress, Answering, Running
<1>3. CASE /\ step' \in {[s EXCEPT ![m] = "steered"], [s EXCEPT ![m] = "queued"]}
           /\ flushing' = FlushAt(f, m, "ack")
           /\ SendLine("steer") \/ UNCHANGED stdin
           /\ UNCHANGED agentVars
  <2>1. step'[m] \in {"steered", "queued"} /\ \A n \in Msg \ {m} : step'[n] = s[n]
    BY <1>1, <1>3
  <2>2. Placed(flushing', step')
    BY <1>3, <2>1, PlaceTaken DEF Awaiting
  <2>3. UNCHANGED <<agentProcessing, events, done>>
    BY <1>3 DEF agentVars
  <2>4. Answering => Answering'
    <3>1. "steer" \in Line
      BY DEF Line
    <3> QED
      BY <1>3, <3>1, StillAnswering DEF SendLine
  <2> QED
    BY <2>1, <2>2, <2>3, <2>4 DEF WaitOK, Progress
<1>4. CASE /\ flushing' = FlushAt(f, m, "ack")
           /\ ForceAbort([s EXCEPT ![m] = "queued"])
  <2> DEFINE t == [s EXCEPT ![m] = "queued"]
  <2>1. t \in [Msg -> Step] /\ t[m] = "queued" /\ \A n \in Msg \ {m} : t[n] = s[n]
    BY <1>1
  <2>2. done' = TRUE /\ step' = Signal(t, "ended")
    BY <1>4 DEF ForceAbort
  <2> HIDE DEF t
  <2>3. \A n \in Msg : step'[n] # "wait" /\ (step'[n] = t[n] \/ step'[n] = "ended")
    BY <2>1, <2>2, NobodyWaits, SignalWakes DEF Step
  <2>4. Placed(flushing', step')
    <3>1. \A n \in Msg : step'[n] = s[n] \/ step'[n] \notin Awaiting
      BY <2>1, <2>3 DEF Awaiting
    <3> QED
      BY <1>4, <3>1, PlaceTaken
  <2> QED
    BY <2>2, <2>3, <2>4 DEF WaitOK, Progress
<1> QED
  BY <1>2, <1>3, <1>4 DEF Deliver

LEMMA InitDrive == TurnsInit => DriveInv
BY DEF TurnsInit, DriveInv, Placed, WaitOK, DrivenInv, Awaiting

LEMMA SendDrives ==
  ASSUME IInv, DriveInv, NEW m \in Msg, Send(m)
  PROVE  DriveInv'
<1>1. step[m] = "unsent" /\ Deliver(m, step, flushing, messageQueue)
      /\ UNCHANGED <<isProcessing, activeRun, subprocess, stdout, preparing, executing>> /\ (patient' => patient)
  BY DEF Send, turnState
<1>2. NotQueued(messageQueue, m)
  BY <1>1 DEF IInv, QueueOK, NotQueued
<1>3. Delivered(m, step, messageQueue)
  BY <1>1, <1>2, TurnTypes, DeliverMoves DEF IInv
<1>4. Placed(flushing', step') /\ WaitOK(step)' /\ Progress
  BY <1>1, TurnTypes, DeliverDrives DEF IInv, DriveInv
<1>5. \A n \in Msg : GoesOn(n) \/ step[n] = "unsent"
  BY <1>1, <1>3 DEF Delivered, GoesOn, InLoop
<1>6. DrivenInv'
  BY <1>1, <1>3, <1>4, <1>5, KeepDriven DEF Delivered, DriveInv, SameTurn
<1> QED
  BY <1>4, <1>6 DEF DriveInv

\* A turn that begins comes to its end.
LEMMA RunTurnDrives ==
  ASSUME IInv, DriveInv, FlushSettles, flushing # <<>>, Head(flushing).at = "accept",
         RunTurn(Head(flushing).msg)
  PROVE  DriveInv'
<1> DEFINE m == Head(flushing).msg
           rest == Tail(flushing)
           t == [step EXCEPT ![m] = "agent"]
<1>1. /\ step' = [step EXCEPT ![m] = "open"] /\ flushing' = FlushAt(rest, m, "open")
      /\ UNCHANGED <<events, done>>
  BY DEF RunTurn, agentVars
<1>2. step \in [Msg -> Step] /\ flushing \in Seq(Place) /\ m \in Msg /\ rest \in Seq(Place)
      /\ step[m] = "accept"
  BY TurnTypes, FlushSettled DEF IInv, Place
<1>3. t[m] = "agent" /\ \A n \in Msg \ {m} : t[n] = step[n]
  BY <1>2
<1>4. Placed(rest, t)
  <2>1. \A n \in Msg : \/ t[n] \notin Awaiting
                       \/ t[n] = step[n] /\ (Head(flushing).at = "ack" \/ n # Head(flushing).msg)
    BY <1>3 DEF Awaiting
  <2> HIDE DEF t
  <2> QED
    BY <1>2, <2>1, PlaceLeft DEF DriveInv
<1> HIDE DEF m, rest, t
<1>5. step'[m] = "open" /\ \A n \in Msg \ {m} : step'[n] = step[n]
  BY <1>1, <1>2
<1>6. Placed(flushing', step')
  <2>1. "open" \in Awaiting \union {"ack"} /\ flushing' = FlushAt(rest, m, "open")
    BY <1>1 DEF Awaiting
  <2>2. \A n \in Msg : step'[n] = t[n] \/ (n = m /\ step'[n] = "open")
    BY <1>3, <1>5
  <2> QED
    BY <1>2, <1>4, <2>1, <2>2, PlaceTaken
<1>7. WaitOK(step)'
  BY <1>1, <1>5 DEF DriveInv, WaitOK
<1>8. DrivenInv'
  BY <1>2, <1>5 DEF DrivenInv, Driven
<1> QED
  BY <1>6, <1>7, <1>8 DEF DriveInv

\* A turn that has ended hands over to the first queued message, unless another turn is
\* under way, which comes to its end.
LEMMA ProcessNextDrives ==
  ASSUME IInv, DriveInv, FlushSettles, flushing # <<>>, Head(flushing).at = "close",
         ProcessNext(Head(flushing).msg)
  PROVE  DriveInv'
<1> DEFINE m == Head(flushing).msg
           rest == Tail(flushing)
           over == [step EXCEPT ![m] = "over"]
<1>1. UNCHANGED <<isProcessing, activeRun, patient, subprocess, stdout, preparing, executing>>
  BY DEF FlushSettles, ProcessNext, turnState, historyVars
<1>2. /\ step[m] = "close" /\ m \in Msg /\ rest \in Seq(Place) /\ FlushOK(rest, step)
      /\ NoPlace(rest, m)
  BY TurnTypes, FlushSettled DEF IInv, Place
<1>3. \/ /\ messageQueue = <<>> /\ step' = over /\ flushing' = rest
         /\ UNCHANGED <<messageQueue, agentProcessing, events, done, stdin>>
      \/ /\ messageQueue # <<>>
         /\ Deliver(Head(messageQueue), over, rest, Shift(messageQueue))
  BY DEF ProcessNext, agentVars
<1>4. /\ step \in [Msg -> Step] /\ flushing \in Seq(Place) /\ messageQueue \in Seq(Msg)
      /\ QueueOK(messageQueue, step)
  BY TurnTypes DEF IInv
<1>5. over \in [Msg -> Step] /\ over[m] = "over" /\ \A n \in Msg \ {m} : over[n] = step[n]
  BY <1>2, <1>4 DEF Step
<1>6. Placed(rest, over)
  <2>1. \A n \in Msg : \/ over[n] \notin Awaiting
                       \/ over[n] = step[n] /\ (Head(flushing).at = "ack" \/ n # Head(flushing).msg)
    BY <1>5 DEF Awaiting
  <2> HIDE DEF over
  <2> QED
    BY <1>4, <2>1, PlaceLeft DEF DriveInv
<1> HIDE DEF m, rest, over
<1>7. WaitOK(over)
  BY <1>5 DEF DriveInv, WaitOK
<1>8. FlushOK(rest, over) /\ QueueOK(messageQueue, over)
  <2>1. \A n \in Msg : over[n] = step[n] \/ NotQueued(messageQueue, n)
    BY <1>2, <1>4, <1>5 DEF QueueOK, NotQueued
  <2> QED
    BY <1>2, <1>4, <1>5, <2>1, FlushMoves, QueueMoves
<1>9. ASSUME isProcessing PROVE \E n \in Msg \ {m} : (Driven(n) \/ Hangs(n)) /\ step[n] # "queued"
  BY <1>2, <1>9 DEF DriveInv, DrivenInv, Driven, Hangs, InLoop
<1>10. CASE messageQueue = <<>>
  <2>1. step' = over /\ flushing' = rest
        /\ UNCHANGED <<messageQueue, agentProcessing, events, done, stdin>>
    BY <1>3, <1>10
  <2>2. Progress
    BY <1>1, <2>1 DEF Progress, Answering, Running
  <2>3. DrivenInv'
    BY <1>1, <1>5, <1>9, <1>10, <2>1, <2>2, StaysDriven, StillHangs DEF DrivenInv, GoesOn, SameTurn
  <2> QED
    BY <1>6, <1>7, <2>1, <2>3 DEF DriveInv, WaitOK
<1>11. CASE messageQueue # <<>>
  <2> DEFINE h == Head(messageQueue)
             q == Shift(messageQueue)
  <2>1. h \in Msg /\ q \in Seq(Msg) /\ QueueOK(q, over) /\ over[h] = "queued" /\ NotQueued(q, h)
    BY <1>4, <1>8, <1>11, QueueShifts
  <2>2. Deliver(h, over, rest, q)
    BY <1>3, <1>11
  <2> HIDE DEF h, q
  <2>3. Delivered(h, over, q)
    BY <1>2, <1>5, <1>8, <2>1, <2>2, DeliverMoves DEF IInv
  <2>4. Placed(flushing', step') /\ WaitOK(step)' /\ Progress
    BY <1>1, <1>2, <1>5, <1>6, <1>7, <2>1, <2>2, DeliverDrives DEF IInv
  <2>5. DrivenInv'
    <3>1. CASE isProcessing
      <4>1. PICK n \in Msg \ {m} : (Driven(n) \/ Hangs(n)) /\ step[n] # "queued"
        BY <1>9, <3>1
      <4>2. n # h
        BY <1>5, <2>1, <4>1
      <4>3. GoesOn(n)
        BY <1>5, <2>3, <4>2 DEF Delivered, GoesOn, InLoop
      <4>4. Driven(n)' \/ Hangs(n)'
        <5>1. Hangs(n) => step'[n] = step[n]
          BY <1>5, <2>3, <4>2 DEF Delivered, Hangs
        <5> QED
          BY <1>1, <2>4, <4>1, <4>3, <5>1, StaysDriven, StillHangs DEF SameTurn
      <4> QED
        BY <4>4 DEF DrivenInv
    <3>2. CASE ~isProcessing
      <4>1. step'[h] = "accept" /\ ~isProcessing'
        BY <1>1, <2>3, <3>2 DEF Delivered
      <4> QED
        BY <2>1, <4>1 DEF DrivenInv
    <3> QED
      BY <3>1, <3>2
  <2> QED
    BY <2>4, <2>5 DEF DriveInv
<1> QED
  BY <1>10, <1>11

\* A call whose flush settled goes on within its turn.
LEMMA GoesOnDrives ==
  ASSUME IInv, DriveInv, FlushSettles, flushing # <<>>, Head(flushing).at \notin {"accept", "close"}
  PROVE  DriveInv'
<1> DEFINE h == Head(flushing)
           rest == Tail(flushing)
<1>1. /\ \/ h.at = "ack" /\ step' = step
         \/ h.at = "open" /\ step' = [step EXCEPT ![h.msg] = "agent"]
         \/ h.at = "request" /\ step' = [step EXCEPT ![h.msg] = "drain"]
      /\ flushing' = rest
      /\ UNCHANGED <<isProcessing, activeRun, patient, messageQueue, agentProcessing, events, done, stdin,
                     subprocess, stdout, preparing, executing>>
  BY DEF FlushSettles, turnState, agentVars, historyVars
<1>2. /\ flushing \in Seq(Place) /\ step \in [Msg -> Step] /\ h \in Place /\ h.msg \in Msg
      /\ h.at # "ack" => step[h.msg] = h.at
  BY TurnTypes, FlushSettled DEF IInv, Place
<1>3. \A n \in Msg : \/ step'[n] = step[n] /\ (h.at = "ack" \/ n # h.msg)
                     \/ n = h.msg /\ step[n] = "open" /\ step'[n] = "agent"
                     \/ n = h.msg /\ step[n] = "request" /\ step'[n] = "drain"
  BY <1>1, <1>2
<1>4. Placed(flushing', step')
  <2>1. \A n \in Msg : \/ step'[n] \notin Awaiting
                       \/ step'[n] = step[n] /\ (Head(flushing).at = "ack" \/ n # Head(flushing).msg)
    BY <1>3 DEF Awaiting
  <2> QED
    BY <1>1, <1>2, <2>1, PlaceLeft DEF DriveInv
<1> HIDE DEF h, rest
<1>5. WaitOK(step)'
  BY <1>1, <1>3 DEF DriveInv, WaitOK
<1>6. Progress
  BY <1>1 DEF Progress, Answering, Running
<1>7. \A n \in Msg : GoesOn(n)
  BY <1>3 DEF GoesOn, InLoop
<1>8. DrivenInv'
  BY <1>1, <1>6, <1>7, KeepDriven DEF DriveInv, SameTurn
<1> QED
  BY <1>4, <1>5, <1>8 DEF DriveInv

LEMMA FlushSettlesDrives ==
  ASSUME IInv, DriveInv, FlushSettles
  PROVE  DriveInv'
<1>1. flushing # <<>>
  BY DEF FlushSettles
<1>2. CASE Head(flushing).at = "accept"
  <2>1. RunTurn(Head(flushing).msg)
    BY <1>2 DEF FlushSettles
  <2> QED
    BY <1>1, <1>2, <2>1, RunTurnDrives
<1>3. CASE Head(flushing).at = "close"
  <2>1. ProcessNext(Head(flushing).msg)
    BY <1>3 DEF FlushSettles
  <2> QED
    BY <1>1, <1>3, <2>1, ProcessNextDrives
<1> QED
  BY <1>1, <1>2, <1>3, GoesOnDrives

\* No call moves.
LEMMA StillDrives ==
  ASSUME IInv, DriveInv, Progress,
         UNCHANGED <<step, flushing, messageQueue, isProcessing, activeRun, patient, events, done>>
  PROVE  DriveInv'
<1>1. DrivenInv'
  BY KeepDriven DEF DriveInv, GoesOn, SameTurn
<1> QED
  BY <1>1 DEF DriveInv, WaitOK

\* A chat takes the resolvers of the others, and comes to its own end, or hangs.
LEMMA ChatDrives ==
  ASSUME IInv, DriveInv, NEW m \in Msg, Chat(m)
  PROVE  DriveInv'
<1> DEFINE next == CASE subprocess = "ready" -> "setup"
                     [] subprocess = "failed" -> "hung"
                     [] OTHER -> "spawn"
           t == [step EXCEPT ![m] = next]
<1>1. /\ step[m] = "agent" /\ agentProcessing' = TRUE
      /\ step' = Signal(t, "lost") /\ UNCHANGED <<flushing, activeRun, patient, subprocess>>
  BY DEF Chat, Reset, subprocessVars, historyVars
<1>0. next \in {"spawn", "setup", "hung"} /\ (next = "setup" => subprocess = "ready")
  OBVIOUS
<1> HIDE DEF next
<1>2. t \in [Msg -> Step] /\ t[m] = next /\ \A n \in Msg \ {m} : t[n] = step[n]
  BY <1>0, TurnTypes DEF IInv, Step
<1> HIDE DEF t
<1>3. /\ \A n \in Msg : step'[n] # "wait" /\ (step'[n] = t[n] \/ step'[n] = "lost")
      /\ step'[m] = next
  BY <1>0, <1>1, <1>2, NobodyWaits, SignalWakes DEF Step
<1>4. Placed(flushing', step')
  <2>1. \A n \in Msg : step'[n] = step[n] \/ step'[n] \notin Awaiting
    BY <1>0, <1>2, <1>3 DEF Awaiting
  <2> QED
    BY <1>1, <2>1, PlacesStay DEF DriveInv
<1>5. WaitOK(step)'
  BY <1>3 DEF WaitOK
<1>6. DrivenInv'
  <2>1. CASE next = "hung"
    <3>1. Hangs(m)'
      BY <1>1, <1>3, <2>1, HangsNow DEF SameTurn, InTurn
    <3> QED
      BY <3>1 DEF DrivenInv
  <2>2. CASE next # "hung"
    <3>1. Driven(m)'
      BY <1>0, <1>1, <1>3, <2>2 DEF Driven
    <3> QED
      BY <3>1 DEF DrivenInv
  <2> QED
    BY <2>1, <2>2
<1> QED
  BY <1>4, <1>5, <1>6 DEF DriveInv

\* Who awaited the ready promise goes on, or hangs.
LEMMA AwakenDrives ==
  ASSUME IInv, DriveInv, Progress, UNCHANGED <<flushing, messageQueue, isProcessing, activeRun, patient>>,
         \A n \in Msg : \/ step'[n] = step[n]
                        \/ step[n] = "spawn" /\ step'[n] \in {"setup", "hung"}
                        \/ step[n] = "wait" /\ step'[n] = "drain",
         agentProcessing => done' \/ (agentProcessing' /\ subprocess' = "ready"),
         UNCHANGED <<events, done>> \/ \A n \in Msg : step'[n] # "wait"
  PROVE  DriveInv'
<1>1. Placed(flushing', step')
  <2>1. \A n \in Msg : step'[n] = step[n] \/ step'[n] \notin Awaiting
    BY DEF Awaiting
  <2> QED
    BY <2>1, PlacesStay DEF DriveInv
<1>2. WaitOK(step)'
  BY DEF DriveInv, WaitOK
<1>3. \A n \in Msg : GoesOn(n) \/ (step[n] = "spawn" /\ step'[n] = "hung")
  BY DEF GoesOn, InLoop
<1>4. DrivenInv'
  BY <1>3, KeepDriven DEF DriveInv, SameTurn
<1> QED
  BY <1>1, <1>2, <1>4 DEF DriveInv

LEMMA SpawnDrives ==
  ASSUME IInv, DriveInv, Spawn \/ SubprocessReady \/ SpawnFails
  PROVE  DriveInv'
<1>0. step \in [Msg -> Step] /\ "setup" \in Step /\ "hung" \in Step /\ "drain" \in Step \ {"wait"}
  BY TurnTypes DEF IInv, Step
<1>1. CASE Spawn
  <2>1. /\ subprocess = "none"
        /\ UNCHANGED <<step, flushing, messageQueue, isProcessing, activeRun, patient, agentProcessing,
                       events, done>>
    BY <1>1 DEF Spawn, turnState, agentVars, historyVars
  <2>2. Progress
    BY <2>1 DEF Progress, Answering, Running
  <2> QED
    BY <2>1, <2>2, StillDrives
<1>2. CASE SubprocessReady
  <2>1. /\ subprocess = "starting" /\ subprocess' = "ready" /\ step' = Awaken(step, "setup")
        /\ UNCHANGED <<flushing, messageQueue, isProcessing, activeRun, patient, agentProcessing,
                       events, done, stdin, stdout, preparing, executing>>
    BY <1>2 DEF SubprocessReady, turnState, agentVars, historyVars
  <2>2. Progress
    BY <2>1 DEF Progress, Answering, Running
  <2>3. \A n \in Msg : step'[n] = step[n] \/ (step[n] = "spawn" /\ step'[n] = "setup")
    BY <1>0, <2>1, AwakenMoves
  <2> QED
    BY <2>1, <2>2, <2>3, AwakenDrives
<1>3. CASE SpawnFails
  <2> DEFINE s == Awaken(step, "hung")
  <2>1. /\ done' /\ step' = Signal(s, "drain")
        /\ UNCHANGED <<flushing, messageQueue, isProcessing, activeRun, patient>>
    BY <1>3 DEF SpawnFails, turnState
  <2>2. Progress
    BY <2>1 DEF Progress
  <2>3. s \in [Msg -> Step] /\ \A n \in Msg : s[n] = IF step[n] = "spawn" THEN "hung" ELSE step[n]
    BY <1>0, AwakenMoves
  <2> HIDE DEF s
  <2>4. \A n \in Msg : /\ step'[n] # "wait"
                       /\ \/ step'[n] = step[n]
                          \/ step[n] = "spawn" /\ step'[n] = "hung"
                          \/ step[n] = "wait" /\ step'[n] = "drain"
    BY <1>0, <2>1, <2>3, SignalWakes, NobodyWaits
  <2> QED
    BY <2>1, <2>2, <2>4, AwakenDrives
<1> QED
  BY <1>1, <1>2, <1>3

\* The prompt that is sent will be answered.
LEMMA PromptDrives ==
  ASSUME IInv, DriveInv, NEW m \in Msg, Prompt(m)
  PROVE  DriveInv'
<1> DEFINE line == "prompt"
<1>1. /\ step[m] = "setup" /\ step' = [step EXCEPT ![m] = "drain"]
      /\ SendLine(line)
      /\ UNCHANGED <<flushing, isProcessing, activeRun, patient, messageQueue, agentProcessing, events, done,
                     subprocess, stdout, preparing, executing>>
  BY DEF Prompt, turnState, agentVars, historyVars
<1>2. step'[m] = "drain" /\ \A n \in Msg \ {m} : step'[n] = step[n]
  BY <1>1, TurnTypes DEF IInv
<1>3. line \in Line /\ line = "prompt" /\ stdin \in Seq(Line)
  BY TurnTypes DEF IInv, Line
<1> HIDE DEF line
<1>4. Answering => Answering'
  BY <1>1, <1>3, StillAnswering DEF IInv, SendLine
<1>5. subprocess = "ready" => Answering'
  <2> SUFFICES ASSUME subprocess = "ready" PROVE Answering'
    OBVIOUS
  <2>1. stdin' = Append(stdin, line) /\ Running'
    BY <1>1 DEF SendLine, Running
  <2>2. Len(stdin') = Len(stdin) + 1 /\ Len(stdin) \in Nat /\ stdin'[Len(stdin) + 1] = line
    BY <1>3, <2>1
  <2>3. Len(stdin) + 1 \in 1..Len(stdin')
    BY <2>2
  <2> QED
    BY <1>3, <2>1, <2>2, <2>3 DEF Answering
<1>6. Progress
  BY <1>1, <1>4 DEF Progress
<1>7. \A n \in Msg : Driven(n) => Driven(n)'
  <2>1. Driven(m) => Driven(m)'
    BY <1>1, <1>2, <1>5 DEF Driven, InLoop
  <2> QED
    BY <1>2, <1>6, <2>1, StaysDriven DEF GoesOn
<1>8. DrivenInv'
  <2>1. \A n \in Msg : step[n] \in {"accept", "close", "hung"} => step'[n] = step[n]
    BY <1>1, <1>2
  <2>2. \A n \in Msg : Hangs(n) => Hangs(n)'
    BY <1>1, <2>1 DEF Hangs
  <2> QED
    BY <1>1, <1>7, <2>1, <2>2 DEF DriveInv, DrivenInv
<1>9. WaitOK(step)'
  BY <1>1, <1>2 DEF DriveInv, WaitOK
<1>10. Placed(flushing', step')
  <2>1. \A n \in Msg : step'[n] = step[n] \/ step'[n] \notin Awaiting
    BY <1>2 DEF Awaiting
  <2> QED
    BY <1>1, <2>1, PlacesStay DEF DriveInv
<1> QED
  BY <1>8, <1>9, <1>10 DEF DriveInv

\* A call waits only where there is no event and the queue is not done.
LEMMA DrainDrives ==
  ASSUME IInv, DriveInv, NEW m \in Msg, Drain(m)
  PROVE  DriveInv'
<1>1. step[m] = "drain"
      /\ UNCHANGED <<isProcessing, activeRun, patient, messageQueue, agentProcessing, done, subprocess, stdin,
                     stdout, preparing, executing>>
  BY DEF Drain, subprocessVars, historyVars
<1>2. flushing \in Seq(Place) /\ step \in [Msg -> Step]
  BY TurnTypes DEF IInv
<1>3. \/ /\ events # <<>> /\ step' = [step EXCEPT ![m] = "request"]
         /\ flushing' = FlushAt(flushing, m, "request")
      \/ events # <<>> /\ UNCHANGED <<step, flushing>>
      \/ /\ events = <<>> /\ step' = [step EXCEPT ![m] = IF done THEN "ended" ELSE "wait"]
         /\ UNCHANGED <<events, flushing>>
  BY DEF Drain
<1>4. /\ \A n \in Msg \ {m} : step'[n] = step[n]
      /\ step'[m] \in InLoop
      /\ step'[m] = "wait" => ~done /\ events = <<>> /\ UNCHANGED events
  BY <1>1, <1>2, <1>3 DEF InLoop
<1>5. Placed(flushing', step')
  <2>1. CASE flushing' = FlushAt(flushing, m, "request") /\ step' = [step EXCEPT ![m] = "request"]
    <3>1. "request" \in Awaiting \union {"ack"} /\ flushing' = FlushAt(flushing, m, "request")
      BY <2>1 DEF Awaiting
    <3>2. \A n \in Msg : step'[n] = step[n] \/ (n = m /\ step'[n] = "request")
      BY <1>2, <2>1
    <3> QED
      BY <1>2, <3>1, <3>2, PlaceTaken DEF DriveInv
  <2>2. CASE UNCHANGED flushing /\ step'[m] \in {"drain", "ended", "wait"}
    <3>1. \A n \in Msg : step'[n] = step[n] \/ step'[n] \notin Awaiting
      BY <1>4, <2>2 DEF Awaiting
    <3> QED
      BY <2>2, <3>1, PlacesStay DEF DriveInv
  <2> QED
    BY <1>1, <1>2, <1>3, <2>1, <2>2
<1>6. WaitOK(step)'
  <2>1. \A n \in Msg : step'[n] = "wait" => ~done /\ events = <<>>
    BY <1>4 DEF DriveInv, WaitOK
  <2>2. events = <<>> => UNCHANGED events
    BY <1>3
  <2> QED
    BY <1>1, <2>1, <2>2 DEF WaitOK
<1>7. Progress
  BY <1>1 DEF Progress, Answering, Running
<1>8. \A n \in Msg : GoesOn(n)
  BY <1>1, <1>4 DEF GoesOn, InLoop
<1>9. DrivenInv'
  BY <1>1, <1>7, <1>8, KeepDriven DEF DriveInv, SameTurn
<1> QED
  BY <1>5, <1>6, <1>9 DEF DriveInv

\* A turn that ends has a place in line to hand over from.
LEMMA EndTurnDrives ==
  ASSUME IInv, DriveInv, NEW m \in Msg, NEW s \in {step, Awaken(step, "hung")}, NEW error \in BOOLEAN,
         EndTurn(m, s, error)
  PROVE  DriveInv'
<1>1. /\ step' = [s EXCEPT ![m] = "close"] /\ flushing' = FlushAt(flushing, m, "close")
      /\ isProcessing' = FALSE /\ UNCHANGED <<events, done>>
  BY DEF EndTurn
<1>2. /\ flushing \in Seq(Place) /\ step'[m] = "close"
      /\ \A n \in Msg \ {m} : step'[n] = step[n] \/ step'[n] = "hung"
  <2>1. step \in [Msg -> Step] /\ "hung" \in Step /\ flushing \in Seq(Place)
    BY TurnTypes DEF IInv, Step
  <2>2. s \in [Msg -> Step] /\ \A n \in Msg : s[n] = step[n] \/ s[n] = "hung"
    BY <2>1, AwakenMoves
  <2> QED
    BY <1>1, <2>1, <2>2
<1>3. Placed(flushing', step')
  <2>1. "close" \in Awaiting \union {"ack"} /\ flushing' = FlushAt(flushing, m, "close")
    BY <1>1 DEF Awaiting
  <2>2. \A n \in Msg : step'[n] = step[n] \/ step'[n] \notin Awaiting \/ (n = m /\ step'[n] = "close")
    BY <1>2 DEF Awaiting
  <2> QED
    BY <1>2, <2>1, <2>2, PlaceTaken DEF DriveInv
<1>4. WaitOK(step)'
  BY <1>1, <1>2 DEF DriveInv, WaitOK
<1>5. DrivenInv'
  BY <1>1, <1>2 DEF DrivenInv
<1> QED
  BY <1>3, <1>4, <1>5 DEF DriveInv

\* Those who wait are woken.
LEMMA WakeDrives ==
  ASSUME IInv, DriveInv, NEW next \in {"drain", "ended"}, step' = Signal(step, next),
         UNCHANGED <<flushing, messageQueue>>, isProcessing' => isProcessing, Progress, SameTurn
  PROVE  DriveInv'
<1>1. \A n \in Msg : step'[n] # "wait" /\ (step'[n] = step[n] \/ (step[n] = "wait" /\ step'[n] = next))
  <2>1. step \in [Msg -> Step] /\ next \in Step \ {"wait"}
    BY TurnTypes DEF IInv, Step
  <2> QED
    BY <2>1, SignalWakes, NobodyWaits
<1>2. Placed(flushing', step')
  <2>1. \A n \in Msg : step'[n] = step[n] \/ step'[n] \notin Awaiting
    BY <1>1 DEF Awaiting
  <2> QED
    BY <2>1, PlacesStay DEF DriveInv
<1>3. \A n \in Msg : GoesOn(n)
  BY <1>1 DEF GoesOn, InLoop
<1>4. DrivenInv'
  BY <1>3, KeepDriven DEF DriveInv
<1> QED
  BY <1>1, <1>2, <1>4 DEF DriveInv, WaitOK

\* Of the output, the event leaves and an end that is still to come stays.
LEMMA HandleSubprocessEventDrives ==
  ASSUME IInv, DriveInv, HandleSubprocessEvent
  PROVE  DriveInv'
<1>1. /\ stdout # <<>> /\ stdout' = Tail(stdout) /\ step' = Signal(step, "drain")
      /\ \/ Head(stdout) # "end" /\ UNCHANGED done
         \/ done'
      /\ UNCHANGED <<flushing, isProcessing, activeRun, patient, messageQueue, agentProcessing, subprocess, stdin,
                     preparing, executing>>
  BY DEF HandleSubprocessEvent, turnState, historyVars
<1>2. ASSUME Answering, Head(stdout) # "end" PROVE Answering'
  <2>1. ASSUME NEW i \in 1..Len(stdout), stdout[i] = "end"
        PROVE  \E j \in 1..Len(stdout') : stdout'[j] = "end"
    <3>1. /\ Len(stdout') = Len(stdout) - 1 /\ Len(stdout) \in Nat /\ Head(stdout) = stdout[1]
          /\ \A j \in 1..Len(stdout') : stdout'[j] = stdout[j + 1]
      BY <1>1, TurnTypes DEF IInv
    <3>2. i # 1
      BY <1>2, <2>1, <3>1
    <3>3. i - 1 \in 1..Len(stdout') /\ (i - 1) + 1 = i
      BY <3>1, <3>2
    <3> QED
      BY <2>1, <3>1, <3>3
  <2> QED
    BY <1>1, <1>2, <2>1 DEF Answering, Running
<1>3. Progress
  BY <1>1, <1>2 DEF Progress
<1> QED
  BY <1>1, <1>3, WakeDrives DEF SameTurn

\* An exit ends the queue of an agent that listens. Who awaited the ready promise hangs,
\* or finds none and goes on.
LEMMA HandleSubprocessExitDrives ==
  ASSUME IInv, DriveInv, HandleSubprocessExit
  PROVE  DriveInv'
<1>1. /\ UNCHANGED <<flushing, isProcessing, activeRun, patient, messageQueue, agentProcessing>>
      /\ agentProcessing => done'
      /\ ~agentProcessing => UNCHANGED <<events, done>>
  BY DEF HandleSubprocessExit, turnState
<1>2. /\ \A n \in Msg : \/ step'[n] = step[n]
                        \/ step[n] = "spawn" /\ step'[n] \in {"setup", "hung"}
                        \/ step[n] = "wait" /\ step'[n] = "drain"
      /\ agentProcessing => \A n \in Msg : step'[n] # "wait"
  BY ExitMoves
<1>3. Progress
  BY <1>1 DEF Progress, HandleSubprocessExit
<1> QED
  BY <1>1, <1>2, <1>3, AwakenDrives

\* A prompt becomes an execution, which ends or is aborted, and its end is reported.
LEMMA SubprocessDrives ==
  ASSUME IInv, DriveInv, SubprocessStep \/ ModelCall \/ UNCHANGED turnVars
  PROVE  DriveInv'
<1>1. UNCHANGED <<step, flushing, messageQueue, isProcessing, activeRun, patient, agentProcessing, events, done,
                  subprocess>>
  BY DEF SubprocessStep, ProcessMessage, StartPrompt, AgentEnd, ModelCall, turnVars, turnState, agentVars,
     subprocessVars, historyVars
<1>2. /\ stdin \in Seq(Line) /\ stdout \in Seq({"request", "error", "end"})
      /\ preparing \in Nat /\ executing \in BOOLEAN
  BY TurnTypes DEF IInv, TurnsTypeOK
<1>3. ASSUME stdout' = Append(stdout, "end"), Answering PROVE Answering'
  <2>1. Len(stdout') = Len(stdout) + 1 /\ Len(stdout) \in Nat /\ stdout'[Len(stdout) + 1] = "end"
    BY <1>2, <1>3
  <2>2. Len(stdout) + 1 \in 1..Len(stdout')
    BY <2>1
  <2> QED
    BY <1>1, <1>3, <2>1, <2>2 DEF Answering, Running
<1>4. ASSUME Answering, ProcessMessage PROVE Answering'
  <2> DEFINE line == Head(stdin)
  <2>0. stdin # <<>> /\ line \in Line
    BY <1>2, <1>4 DEF ProcessMessage
  <2>1. /\ stdin' = Tail(stdin)
        /\ \/ line = "prompt" /\ preparing' = preparing + 1
           \/ line = "abort" /\ executing /\ stdout' = Append(stdout, "end")
           \/ line # "prompt" /\ UNCHANGED <<stdout, preparing, executing>>
    BY <1>2, <1>4 DEF ProcessMessage
  <2>2. CASE line = "prompt" /\ preparing' = preparing + 1
    <3>1. preparing' > 0
      BY <1>2, <2>2
    <3> QED
      BY <1>1, <1>4, <3>1 DEF Answering, Running
  <2>3. CASE stdout' = Append(stdout, "end")
    BY <1>3, <1>4, <2>3
  <2>4. CASE line # "prompt" /\ UNCHANGED <<stdout, preparing, executing>>
    <3>1. ASSUME NEW i \in 1..Len(stdin), stdin[i] = "prompt"
          PROVE  \E j \in 1..Len(stdin') : stdin'[j] = "prompt"
      <4>1. /\ Len(stdin') = Len(stdin) - 1 /\ Len(stdin) \in Nat /\ line = stdin[1]
            /\ \A j \in 1..Len(stdin') : stdin'[j] = stdin[j + 1]
        BY <1>2, <2>0, <2>1
      <4>2. i # 1
        BY <2>4, <3>1, <4>1
      <4>3. i - 1 \in 1..Len(stdin') /\ (i - 1) + 1 = i
        BY <4>1, <4>2
      <4> QED
        BY <3>1, <4>1, <4>3
    <3> QED
      BY <1>1, <1>4, <2>4, <3>1 DEF Answering, Running
  <2> QED
    BY <2>1, <2>2, <2>3, <2>4
<1>5. ASSUME Answering, AgentEnd PROVE Answering'
  BY <1>3, <1>5 DEF AgentEnd
<1>6. ASSUME Answering, ModelCall PROVE Answering'
  BY <1>2, <1>6, StillAnswering DEF ModelCall, IInv, subprocessVars
<1>7. ASSUME Answering, StartPrompt PROVE Answering'
  <2>1. CASE executing'
    BY <1>1, <1>7, <2>1 DEF Answering, Running
  <2>2. CASE stdout' = stdout \o <<"error", "end">>
    <3>1. /\ Len(stdout') = Len(stdout) + 2 /\ Len(stdout) \in Nat /\ stdout'[Len(stdout) + 2] = "end"
      BY <1>2, <2>2
    <3>2. Len(stdout) + 2 \in 1..Len(stdout')
      BY <3>1
    <3> QED
      BY <1>1, <1>7, <3>1, <3>2 DEF Answering, Running
  <2> QED
    BY <1>7, <2>1, <2>2 DEF StartPrompt
<1>8. ASSUME Answering, UNCHANGED turnVars PROVE Answering'
  BY <1>8 DEF Answering, Running, turnVars, subprocessVars
<1>9. Progress
  BY <1>1, <1>4, <1>5, <1>6, <1>7, <1>8 DEF Progress, SubprocessStep
<1> QED
  BY <1>1, <1>9, StillDrives

\* Every step leaves what a call waits for under way.
LEMMA StepDrives ==
  ASSUME IInv, DriveInv, [TurnsNext]_turnVars
  PROVE  DriveInv'
<1>1. ASSUME NEW m \in Msg, Send(m) \/ TurnStep(m) \/ FailTurn(m) PROVE DriveInv'
  <2>1. (m \in failed) \in BOOLEAN
    OBVIOUS
  <2> QED
    BY <1>1, <2>1, SendDrives, ChatDrives, PromptDrives, DrainDrives, EndTurnDrives
       DEF TurnStep, Unwind, FailTurn
<1>2. CASE CancelProcessing
  <2>1. /\ step' = Signal(step, "ended") /\ done' /\ ~isProcessing' /\ SameTurn
        /\ UNCHANGED <<flushing, messageQueue>>
    BY <1>2 DEF CancelProcessing, ForceAbort, SameTurn
  <2>2. Progress
    BY <2>1 DEF Progress
  <2> QED
    BY <2>1, <2>2, WakeDrives
<1>3. CASE \/ FlushSettles \/ HandleSubprocessEvent \/ HandleSubprocessExit
           \/ Spawn \/ SubprocessReady \/ SpawnFails
  BY <1>3, FlushSettlesDrives, HandleSubprocessEventDrives, HandleSubprocessExitDrives, SpawnDrives
<1>4. CASE SubprocessStep \/ ModelCall \/ UNCHANGED turnVars
  BY <1>4, SubprocessDrives
<1> QED
  BY <1>1, <1>2, <1>3, <1>4 DEF TurnsNext

-----------------------------------------------------------------------------
(* The ready promise *)

\* Who awaits the ready promise awaits one that the subprocess can still settle.
SpawnInv == \A m \in Msg : step[m] = "spawn" => subprocess \in {"none", "starting"}

\* No call begins to await it.
NoSpawn == UNCHANGED subprocess /\ \A n \in Msg : step'[n] = "spawn" => step[n] = "spawn"

LEMMA SendSpawns ==
  ASSUME IInv, NEW m \in Msg, Send(m)
  PROVE  NoSpawn
<1>1. step[m] = "unsent" /\ Deliver(m, step, flushing, messageQueue) /\ UNCHANGED subprocess
  BY DEF Send
<1>2. NotQueued(messageQueue, m)
  BY <1>1 DEF IInv, QueueOK, NotQueued
<1>3. Delivered(m, step, messageQueue)
  BY <1>1, <1>2, TurnTypes, DeliverMoves DEF IInv
<1> QED
  BY <1>1, <1>3 DEF Delivered, NoSpawn

LEMMA FlushSettlesSpawns ==
  ASSUME IInv, FlushSettles
  PROVE  NoSpawn
<1> DEFINE m == Head(flushing).msg
           rest == Tail(flushing)
           over == [step EXCEPT ![m] = "over"]
<1>1. UNCHANGED subprocess
  BY DEF FlushSettles
<1>2. step \in [Msg -> Step] /\ messageQueue \in Seq(Msg) /\ QueueOK(messageQueue, step)
  BY TurnTypes DEF IInv
<1>3. /\ m \in Msg /\ rest \in Seq(Place) /\ FlushOK(rest, step)
      /\ Head(flushing).at # "ack" => step[m] = Head(flushing).at /\ NoPlace(rest, m)
  BY TurnTypes, FlushSettled DEF IInv, FlushSettles, Place
<1>4. \/ \E x \in {"open", "agent", "drain", "over"} : step' = [step EXCEPT ![m] = x]
      \/ step' = step
      \/ /\ Head(flushing).at = "close" /\ messageQueue # <<>>
         /\ Deliver(Head(messageQueue), over, rest, Shift(messageQueue))
  BY DEF FlushSettles, RunTurn, ProcessNext
<1>5. CASE \E x \in {"open", "agent", "drain", "over"} : step' = [step EXCEPT ![m] = x]
  <2>1. PICK x \in {"open", "agent", "drain", "over"} : step' = [step EXCEPT ![m] = x]
    BY <1>5
  <2>2. step'[m] = x /\ \A n \in Msg \ {m} : step'[n] = step[n]
    BY <1>2, <1>3, <2>1
  <2> QED
    BY <1>1, <2>2 DEF NoSpawn
<1>6. CASE step' = step
  BY <1>1, <1>6 DEF NoSpawn
<1>7. CASE /\ Head(flushing).at = "close" /\ messageQueue # <<>>
           /\ Deliver(Head(messageQueue), over, rest, Shift(messageQueue))
  <2>1. over \in [Msg -> Step] /\ over[m] = "over" /\ \A n \in Msg \ {m} : over[n] = step[n]
    BY <1>2, <1>3 DEF Step
  <2>2. step[m] = "close" /\ NoPlace(rest, m)
    BY <1>3, <1>7
  <2> DEFINE h == Head(messageQueue)
             q == Shift(messageQueue)
  <2>3. Deliver(h, over, rest, q)
    BY <1>7
  <2> HIDE DEF m, rest, over
  <2>4. FlushOK(rest, over) /\ QueueOK(messageQueue, over)
    <3>1. \A n \in Msg : over[n] = step[n] \/ NotQueued(messageQueue, n)
      BY <1>2, <2>1, <2>2 DEF QueueOK, NotQueued
    <3> QED
      BY <1>2, <1>3, <2>1, <2>2, <3>1, FlushMoves, QueueMoves
  <2>5. h \in Msg /\ q \in Seq(Msg) /\ QueueOK(q, over) /\ over[h] = "queued" /\ NotQueued(q, h)
    BY <1>2, <1>7, <2>1, <2>4, QueueShifts
  <2> HIDE DEF h, q
  <2>6. Delivered(h, over, q)
    BY <1>3, <2>1, <2>3, <2>4, <2>5, DeliverMoves DEF IInv
  <2>7. step'[h] # "spawn" /\ \A n \in Msg \ {h} : step'[n] = "spawn" => over[n] = "spawn"
    BY <2>6 DEF Delivered, IInv, TurnsTypeOK
  <2>8. \A n \in Msg : over[n] = "spawn" => step[n] = "spawn"
    BY <2>1
  <2> QED
    BY <1>1, <2>7, <2>8 DEF NoSpawn
<1> QED
  BY <1>4, <1>5, <1>6, <1>7

\* A chat awaits the promise of a subprocess that is still to be ready.
LEMMA ChatSpawns ==
  ASSUME IInv, SpawnInv, NEW m \in Msg, Chat(m)
  PROVE  SpawnInv'
<1> DEFINE next == CASE subprocess = "ready" -> "setup"
                     [] subprocess = "failed" -> "hung"
                     [] OTHER -> "spawn"
           t == [step EXCEPT ![m] = next]
<1>1. step' = Signal(t, "lost") /\ UNCHANGED subprocess
  BY DEF Chat, Reset, subprocessVars
<1>2. /\ next \in {"spawn", "setup", "hung"}
      /\ next = "spawn" => subprocess \in {"none", "starting"}
  BY DEF IInv, TurnsTypeOK
<1> HIDE DEF next
<1>3. t \in [Msg -> Step] /\ t[m] = next /\ \A n \in Msg \ {m} : t[n] = step[n]
  BY <1>2, TurnTypes DEF IInv, Step
<1> HIDE DEF t
<1>4. \A n \in Msg : step'[n] = "spawn" => t[n] = "spawn"
  BY <1>1, <1>3, SignalWakes DEF Step
<1> QED
  BY <1>1, <1>2, <1>3, <1>4 DEF SpawnInv

\* A failure leaves nobody with the promise, or a promise as it was.
LEMMA FailTurnSpawns ==
  ASSUME IInv, SpawnInv, NEW m \in Msg, FailTurn(m)
  PROVE  SpawnInv'
<1>1. step \in [Msg -> Step] /\ "hung" \in Step
  BY TurnTypes DEF IInv, Step
<1>2. \/ EndTurn(m, Awaken(step, "hung"), TRUE)
      \/ EndTurn(m, step, TRUE) /\ UNCHANGED subprocess
  BY DEF FailTurn
<1>3. CASE EndTurn(m, Awaken(step, "hung"), TRUE)
  <2> DEFINE s == Awaken(step, "hung")
  <2>1. s \in [Msg -> Step] /\ \A n \in Msg : s[n] # "spawn"
    BY <1>1, AwakenMoves
  <2>2. step' = [s EXCEPT ![m] = "close"]
    BY <1>3 DEF EndTurn
  <2> HIDE DEF s
  <2>3. \A n \in Msg : step'[n] # "spawn"
    BY <2>1, <2>2
  <2> QED
    BY <2>3 DEF SpawnInv
<1>4. CASE EndTurn(m, step, TRUE) /\ UNCHANGED subprocess
  <2>1. step' = [step EXCEPT ![m] = "close"]
    BY <1>4 DEF EndTurn
  <2>2. \A n \in Msg : step'[n] = "spawn" => step[n] = "spawn"
    BY <1>1, <2>1
  <2> QED
    BY <1>4, <2>2 DEF SpawnInv
<1> QED
  BY <1>2, <1>3, <1>4

LEMMA StepSpawns ==
  ASSUME IInv, SpawnInv, [TurnsNext]_turnVars
  PROVE  SpawnInv'
<1>0. step \in [Msg -> Step] /\ "setup" \in Step /\ "hung" \in Step /\ "drain" \in Step /\ "ended" \in Step
  BY TurnTypes DEF IInv, Step
<1>1. ASSUME NoSpawn PROVE SpawnInv'
  BY <1>1 DEF SpawnInv, NoSpawn
<1>2. ASSUME NEW m \in Msg, Send(m) \/ TurnStep(m) \/ FailTurn(m) PROVE SpawnInv'
  <2>1. CASE Prompt(m) \/ Drain(m) \/ Unwind(m)
    <3>1. UNCHANGED subprocess
      BY <2>1 DEF Prompt, Drain, Unwind, subprocessVars
    <3>2. \E x \in {"drain", "request", "ended", "wait", "close"} :
            step' = [step EXCEPT ![m] = x] \/ step' = step
      BY <2>1 DEF Prompt, Drain, Unwind, EndTurn
    <3>3. \A n \in Msg : step'[n] = "spawn" => step[n] = "spawn"
      BY <1>0, <3>2
    <3> QED
      BY <1>1, <3>1, <3>3 DEF NoSpawn
  <2> QED
    BY <1>1, <1>2, <2>1, SendSpawns, ChatSpawns, FailTurnSpawns DEF TurnStep
<1>3. CASE FlushSettles
  BY <1>1, <1>3, FlushSettlesSpawns
<1>4. CASE CancelProcessing \/ HandleSubprocessEvent
  <2>1. UNCHANGED subprocess /\ \E next \in {"ended", "drain"} : step' = Signal(step, next)
    BY <1>4 DEF CancelProcessing, ForceAbort, HandleSubprocessEvent
  <2>2. \A n \in Msg : step'[n] = "spawn" => step[n] = "spawn"
    BY <1>0, <2>1, SignalWakes
  <2> QED
    BY <1>1, <2>1, <2>2 DEF NoSpawn
<1>5. CASE HandleSubprocessExit
  <2>1. subprocess' = "none"
    BY <1>5 DEF HandleSubprocessExit
  <2> QED
    BY <2>1 DEF SpawnInv
<1>6. CASE Spawn
  <2>1. subprocess' = "starting"
    BY <1>6 DEF Spawn
  <2> QED
    BY <2>1 DEF SpawnInv
<1>7. CASE SubprocessReady
  <2>1. step' = Awaken(step, "setup")
    BY <1>7 DEF SubprocessReady
  <2>2. \A n \in Msg : step'[n] # "spawn"
    BY <1>0, <2>1, AwakenMoves
  <2> QED
    BY <2>2 DEF SpawnInv
<1>8. CASE SpawnFails
  <2> DEFINE s == Awaken(step, "hung")
  <2>1. step' = Signal(s, "drain")
    BY <1>8 DEF SpawnFails
  <2>2. s \in [Msg -> Step] /\ \A n \in Msg : s[n] # "spawn"
    BY <1>0, AwakenMoves
  <2> HIDE DEF s
  <2>3. \A n \in Msg : step'[n] # "spawn"
    BY <1>0, <2>1, <2>2, SignalWakes
  <2> QED
    BY <2>3 DEF SpawnInv
<1>9. CASE SubprocessStep \/ ModelCall \/ UNCHANGED turnVars
  <2>1. UNCHANGED <<step, subprocess>>
    BY <1>9 DEF SubprocessStep, ProcessMessage, StartPrompt, AgentEnd, ModelCall, turnVars, subprocessVars
  <2> QED
    BY <1>1, <2>1 DEF NoSpawn
<1> QED
  BY <1>2, <1>3, <1>4, <1>5, <1>6, <1>7, <1>8, <1>9 DEF TurnsNext

-----------------------------------------------------------------------------
(* Theorems *)

\* Every step keeps the invariant.
LEMMA StepInv == IInv /\ [TurnsNext]_turnVars => IInv'
<1> SUFFICES ASSUME IInv, [TurnsNext]_turnVars PROVE IInv'
  OBVIOUS
<1>1. ASSUME NEW m \in Msg, Send(m) \/ TurnStep(m) \/ FailTurn(m) PROVE IInv'
  BY <1>1, SendStep, ChatStep, PromptStep, DrainStep, UnwindStep, FailTurnStep DEF TurnStep
<1>2. CASE \/ FlushSettles \/ CancelProcessing \/ HandleSubprocessEvent \/ HandleSubprocessExit
           \/ Spawn \/ SubprocessReady \/ SpawnFails
  BY <1>2, FlushSettlesStep, CancelProcessingStep, HandleSubprocessEventStep, HandleSubprocessExitStep,
     SpawnStep
<1>3. CASE SubprocessStep \/ ModelCall \/ UNCHANGED turnVars
  BY <1>3, SubprocessSteps
<1> QED
  BY <1>1, <1>2, <1>3 DEF TurnsNext

\* The invariant holds in every reachable state.
THEOREM InvariantHolds == TurnsSpec => []IInv
<1> QED
  BY InitInv, StepInv, PTL DEF TurnsSpec

\* The variables of the turns keep their types.
THEOREM TypesCorrect == TurnsSpec => []TurnsTypeOK
<1>1. IInv => TurnsTypeOK
  BY DEF IInv
<1> QED
  BY <1>1, InvariantHolds, PTL

\* However messages, stops and ends of turns interleave, a message starts one run at
\* most, and none once it was steered into another's.
THEOREM MessagesHandledOnce == TurnsSpec => []HandledOnce
<1>1. IInv => HandledOnce
  BY DEF IInv, RunsInv, HandledOnce
<1> QED
  BY <1>1, InvariantHolds, PTL

\* What a call waits for is always under way.
LEMMA DriveHolds == TurnsSpec => []DriveInv
<1>1. IInv /\ DriveInv /\ [TurnsNext]_turnVars => DriveInv'
  BY StepDrives
<1> QED
  BY <1>1, InitDrive, InvariantHolds, PTL DEF TurnsSpec

\* Who awaits the ready promise awaits one that can still be settled.
LEMMA SpawnHolds == TurnsSpec => []SpawnInv
<1>1. TurnsInit => SpawnInv
  BY DEF TurnsInit, SpawnInv
<1>2. IInv /\ SpawnInv /\ [TurnsNext]_turnVars => SpawnInv'
  BY StepSpawns
<1> QED
  BY <1>1, <1>2, InvariantHolds, PTL DEF TurnsSpec

\* A busy session, and one that holds messages, has a call that goes on by itself, whose
\* flush is in line, whose subprocess is still to be ready or to report an end; or one
\* whose subprocess came to nothing before it was ready.
THEOREM NobodyIsStranded == TurnsSpec => []NothingStranded
<1>1. IInv /\ DriveInv /\ SpawnInv => NothingStranded
  <2> SUFFICES ASSUME IInv, DriveInv, SpawnInv, isProcessing \/ messageQueue # <<>>
               PROVE  \E m \in Msg : Alive(m) \/ Hangs(m)
    BY DEF NothingStranded
  <2>1. PICK m \in Msg : Driven(m) \/ Hangs(m) \/ step[m] \in {"accept", "close"}
    BY DEF DriveInv, DrivenInv
  <2>2. step[m] \in Awaiting => AwaitsFlush(m)
    BY DEF DriveInv, Placed, AwaitsFlush
  <2>3. step[m] = "wait" => ~done
    BY DEF DriveInv, WaitOK
  <2>4. step[m] = "spawn" => subprocess \in {"none", "starting"}
    BY DEF SpawnInv
  <2> QED
    BY <2>1, <2>2, <2>3, <2>4 DEF Driven, InLoop, Awaiting, Alive
<1> QED
  BY <1>1, SpawnHolds, DriveHolds, InvariantHolds, PTL

\* For a patient user there is one turn at a time, with its own selection, and its run
\* is settled when it is over.
THEOREM TurnsAreSerial == TurnsSpec => []OneTurnAtATime
<1>1. IInv => OneTurnAtATime
  BY DEF IInv, PatientInv, OneTurnAtATime
<1> QED
  BY <1>1, InvariantHolds, PTL

\* For a patient user queued messages start their turns in the order they were sent.
THEOREM QueueKeepsOrder == TurnsSpec => []QueueInOrder
<1>1. IInv => QueueInOrder
  BY DEF IInv, PatientInv, QueueInOrder
<1> QED
  BY <1>1, InvariantHolds, PTL

=============================================================================
