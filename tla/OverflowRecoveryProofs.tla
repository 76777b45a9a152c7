------------------------ MODULE OverflowRecoveryProofs ------------------------
(***************************************************************************)
(* Proofs about OverflowRecovery, for any number of turns, stops and exits *)
(* of the subprocess: types, that the adapter's timer and its held error   *)
(* match its state, and that a clean turn is answered, not over before its *)
(* execution is, and goes on until then.                                   *)
(***************************************************************************)
EXTENDS OverflowRecovery, SequenceTheorems, TLAPS

-----------------------------------------------------------------------------
(* Types, and the state of the adapter *)

AnyEvent == UNION {Event(type) : type \in EventType}

\* An event of the adapter's alphabet.
LEMMA EventFacts ==
  /\ \A type \in EventType, of \in SUBSET Turn : [type |-> type, of |-> of] \in AnyEvent
  /\ \A e \in AnyEvent : e.type \in EventType /\ e.of \in SUBSET Turn
BY DEF AnyEvent, Event

\* What the subprocess emits is a sequence of events, after those under way.
LEMMA EmitFacts ==
  ASSUME RecoveryTypeOK, NEW types \in Seq(EventType), Emit(types)
  PROVE  /\ stdout' \in Seq(AnyEvent)
         /\ Len(stdout') = Len(stdout) + Len(types)
         /\ \A i \in 1..(Len(stdout) + Len(types)) : stdout'[i] =
              IF i <= Len(stdout) THEN stdout[i]
              ELSE [type |-> types[i - Len(stdout)], of |-> executing]
<1> DEFINE events == [i \in DOMAIN types |-> [type |-> types[i], of |-> executing]]
<1>1. stdout \in Seq(AnyEvent) /\ executing \in SUBSET Turn
  BY DEF RecoveryTypeOK, AnyEvent
<1>2. Len(types) \in Nat /\ DOMAIN types = 1..Len(types)
      /\ \A i \in 1..Len(types) : types[i] \in EventType
  BY LenProperties, ElementOfSeq
<1>3. events \in [1..Len(types) -> AnyEvent]
  BY <1>1, <1>2, EventFacts
<1>4. events \in Seq(AnyEvent) /\ Len(events) = Len(types)
      /\ \A i \in 1..Len(types) : events[i] = [type |-> types[i], of |-> executing]
  BY <1>2, <1>3, LenProperties
<1>5. stdout' = stdout \o events
  BY DEF Emit
<1> HIDE DEF events
<1>6. /\ stdout \o events \in Seq(AnyEvent)
      /\ Len(stdout \o events) = Len(stdout) + Len(events)
      /\ \A i \in 1..(Len(stdout) + Len(events)) : (stdout \o events)[i] =
           IF i <= Len(stdout) THEN stdout[i] ELSE events[i - Len(stdout)]
  <2>1. stdout \in Seq(AnyEvent) /\ events \in Seq(AnyEvent)
    BY <1>1, <1>4
  <2> QED
    BY <2>1, ConcatProperties, Zenon
<1>7. Len(stdout) \in Nat
  BY <1>1, LenProperties
<1>8. \A i \in 1..(Len(stdout) + Len(types)) : ~(i <= Len(stdout)) => i - Len(stdout) \in 1..Len(types)
  BY <1>2, <1>7
<1> QED
  BY <1>4, <1>5, <1>6, <1>8

\* The event that is read is one, and the rest follows it.
LEMMA ReceiveFacts ==
  ASSUME RecoveryTypeOK, NEW type, Receive(type)
  PROVE  /\ Head(stdout) \in AnyEvent /\ Head(stdout) = stdout[1] /\ stdout[1].type = type
         /\ stdout' \in Seq(AnyEvent) /\ Len(stdout) \in Nat \ {0}
         /\ Len(stdout') = Len(stdout) - 1
         /\ \A i \in 1..(Len(stdout) - 1) : stdout'[i] = stdout[i + 1]
<1>1. stdout \in Seq(AnyEvent) /\ stdout # <<>> /\ stdout' = Tail(stdout) /\ Head(stdout).type = type
  BY DEF RecoveryTypeOK, AnyEvent, Receive
<1>2. Len(stdout) \in Nat \ {0}
  BY <1>1, EmptySeq
<1>3. /\ Head(stdout) \in AnyEvent /\ Tail(stdout) \in Seq(AnyEvent)
      /\ Len(Tail(stdout)) = Len(stdout) - 1
      /\ \A i \in 1..Len(Tail(stdout)) : Tail(stdout)[i] = stdout[i + 1]
  BY <1>1, HeadTailProperties
<1>4. Head(stdout) = stdout[1]
  BY <1>1, <1>2
<1> QED
  BY <1>1, <1>2, <1>3, <1>4

\* Reading a line leaves the rest of them.
Line == [type : {"prompt"}, turn : Turn] \union [type : {"abort"}]

LEMMA ReadFacts ==
  ASSUME RecoveryTypeOK, NEW type, Read(type)
  PROVE  /\ Head(stdin) \in Line /\ Head(stdin).type = type
         /\ stdin' \in Seq(Line) /\ Len(stdin) \in Nat \ {0}
         /\ Head(stdin) = stdin[1] /\ Len(stdin') = Len(stdin) - 1
         /\ \A i \in 1..(Len(stdin) - 1) : stdin'[i] = stdin[i + 1]
<1>1. stdin \in Seq(Line) /\ stdin # <<>> /\ stdin' = Tail(stdin) /\ Head(stdin).type = type
  BY DEF RecoveryTypeOK, Line, Read
<1>2. Len(stdin) \in Nat \ {0}
  BY <1>1, EmptySeq
<1>3. /\ Head(stdin) \in Line /\ Tail(stdin) \in Seq(Line) /\ Len(Tail(stdin)) = Len(stdin) - 1
      /\ \A i \in 1..Len(Tail(stdin)) : Tail(stdin)[i] = stdin[i + 1]
  BY <1>1, HeadTailProperties
<1>4. Head(stdin) = stdin[1]
  BY <1>1, <1>2
<1> QED
  BY <1>1, <1>2, <1>3, <1>4

-----------------------------------------------------------------------------
(* The inductive invariant *)

\* What the subprocess emits for a run: an answer, an error or an overflow, then
\* the end of the run; and after an overflow, where there is a recovery, the start
\* of a compaction, its outcome, and the same once more.
Outcome == {"text", "error", "overflow"}
Compacted == {"compaction_ok", "compaction_failed"}
EmittedType(a, b, c, k) ==
  CASE k = 1 -> a
    [] k \in {2, 6} -> "agent_end"
    [] k = 3 -> "compaction_start"
    [] k = 4 -> b
    [] OTHER -> c

\* Where the SDK is when it has emitted n of these events,
SdkAt(n, a, b) ==
  \/ n = 0 /\ doing = "streaming" /\ attempted = FALSE /\ executing = {turn}
  \/ n = 2 /\ doing = "nothing"
  \/ n = 2 /\ a = "overflow" /\ doing = "checking" /\ attempted = FALSE /\ executing = {turn}
  \/ n = 3 /\ doing = "compacting" /\ attempted = TRUE /\ executing = {turn}
  \/ n = 4 /\ b = "compaction_ok" /\ doing = "streaming" /\ attempted = TRUE
           /\ executing = {turn}
  \/ n = 4 /\ b = "compaction_failed" /\ doing = "nothing"
  \/ n = 6 /\ doing = "nothing"

\* and the adapter when it has read i of them: waiting for what follows,
WaitingAt(i, a, b) ==
  \/ i = 0 /\ overflowState = "none"
  \/ i = 1 /\ a # "overflow" /\ overflowState = "none" /\ shown[turn] # {}
  \/ i = 1 /\ a = "overflow" /\ overflowState = "held"
  \/ i = 2 /\ a = "overflow" /\ overflowState = "awaiting"
  \/ i = 3 /\ overflowState = "compacting"
  \/ i = 4 /\ b = "compaction_ok" /\ overflowState = "recovering"
  \/ i = 5 /\ overflowState = "recovering" /\ shown[turn] # {}

\* or with the turn complete: the run was not one to recover, there was no
\* recovery, it failed, or it came to its end.
CompleteAt(n, i, a, b) ==
  /\ overflowState = "none" /\ shown[turn] # {}
  /\ i = n /\ doing = "nothing"
  /\ i = 2 \/ (i = 4 /\ b = "compaction_failed") \/ i = 6

EventsAt(n, i, a, b, c) ==
  /\ Len(stdout) = n - i
  /\ \A k \in 1..(n - i) : stdout[k] = [type |-> EmittedType(a, b, c, i + k), of |-> {turn}]

RunAt(n, i, a, b, c) ==
  /\ n \in {0, 2, 3, 4, 6} /\ i \in 0..n
  /\ a \in Outcome /\ b \in Compacted /\ c \in Outcome
  /\ n >= 3 => a = "overflow"
  /\ n = 6 => b = "compaction_ok"
  /\ EventsAt(n, i, a, b, c)
  /\ SdkAt(n, a, b)
  /\ \/ done = FALSE /\ WaitingAt(i, a, b)
     \/ done = TRUE /\ CompleteAt(n, i, a, b)

\* The stages of a clean turn: nothing is sent, nothing but its prompt is, it was read
\* and nothing else is, or its run is under way.
NothingElse == /\ done = FALSE /\ stdout = <<>> /\ doing = "nothing" /\ overflowState = "none"
Fresh == /\ phase \in {"spawn", "setup"} /\ stdin = <<>> /\ waiting = {} /\ NothingElse
         /\ subprocess = (IF phase = "spawn" THEN "starting" ELSE "ready")
Sent == /\ phase = "drain" /\ Len(stdin) = 1 /\ stdin[1] = [type |-> "prompt", turn |-> turn]
        /\ waiting = {} /\ NothingElse
Prepared == phase = "drain" /\ stdin = <<>> /\ waiting = {turn} /\ NothingElse
Running == /\ phase = "drain" /\ stdin = <<>> /\ waiting = {}
           /\ \E n, i \in Nat, a, c \in Outcome, b \in Compacted : RunAt(n, i, a, b, c)

CleanTurn ==
  turn \in clean \ disturbed /\ phase # "idle" =>
    /\ isProcessing = TRUE
    /\ Fresh \/ Sent \/ Prepared \/ Running

\* An idle SDK serves no turn, there is a turn when one is under way, and no turn to
\* come is clean.
IdleSdk == doing = "nothing" => executing = {}
TurnBegun == phase # "idle" => turn \in Turn
CleanPast == \A t \in clean : t <= turn

\* What is over was answered, and nothing of it is to come.
AnsweredWhenOver == \A t \in clean \ disturbed : Over(t) => ~UnderWay(t) /\ shown[t] # {}

IInv == /\ RecoveryTypeOK /\ TimerMatchesState /\ IdleSdk /\ TurnBegun /\ CleanPast
        /\ CleanTurn /\ AnsweredWhenOver

\* The invariant holds initially.
LEMMA InitInv == RecoveryInit => IInv
<1> SUFFICES ASSUME RecoveryInit PROVE IInv
  OBVIOUS
<1>1. <<>> \in Seq(Line) /\ <<>> \in Seq(AnyEvent)
  BY EmptySeq
<1>2. turn \in 0..MaxTurn /\ stops \in 0..MaxStop /\ exits \in 0..MaxExit
  BY RecoveryBounds DEF RecoveryInit
<1>3. RecoveryTypeOK
  BY <1>1, <1>2 DEF RecoveryInit, RecoveryTypeOK, Line, AnyEvent
<1>4. TimerMatchesState /\ IdleSdk /\ TurnBegun /\ CleanPast /\ CleanTurn /\ AnsweredWhenOver
  BY DEF RecoveryInit, TimerMatchesState, IdleSdk, TurnBegun, CleanPast, CleanTurn, AnsweredWhenOver
<1> QED
  BY <1>3, <1>4 DEF IInv

\* A step that puts nothing under way, takes nothing back of what was shown, and
\* ends no turn, leaves the clean turns that are over answered.
LEMMA OldTurns ==
  ASSUME AnsweredWhenOver,
         \A t \in Turn : UnderWay(t)' => UnderWay(t),
         \A t \in Turn : shown[t] # {} => shown'[t] # {},
         clean' \subseteq Turn,
         \A t \in clean' \ disturbed' : Over(t)' => t \in clean \ disturbed /\ Over(t)
  PROVE  AnsweredWhenOver'
BY DEF AnsweredWhenOver

-----------------------------------------------------------------------------
(* Steps of the adapter *)

\* What a turn is shown is added to what it was shown.
LEMMA ShowFacts ==
  ASSUME RecoveryTypeOK, NEW what \in {"answer", "error"}, NEW of, Show(what, of)
  PROVE  /\ shown' \in [Turn -> SUBSET {"answer", "error"}]
         /\ \A t \in Turn : shown[t] # {} => shown'[t] # {}
         /\ phase \notin {"idle", "hung"} /\ turn \in of /\ turn \in Turn => shown'[turn] # {}
BY DEF RecoveryTypeOK, Show

\* The event that is read is the next one of the run, and puts nothing under way.
LEMMA NextEvent ==
  ASSUME RecoveryTypeOK, NEW type, Receive(type)
  PROVE  /\ \A t \in Turn : UnderWay(t)' => UnderWay(t)
         /\ \A n, i \in Nat, a, c \in Outcome, b \in Compacted : EventsAt(n, i, a, b, c) =>
              /\ i < n /\ EmittedType(a, b, c, i + 1) = type /\ Of = {turn}
              /\ EventsAt(n, i + 1, a, b, c)'
<1>1. /\ Head(stdout) = stdout[1] /\ stdout[1].type = type
      /\ stdout' \in Seq(AnyEvent) /\ stdout \in Seq(AnyEvent)
      /\ Len(stdout) \in Nat \ {0} /\ Len(stdout') = Len(stdout) - 1
      /\ \A i \in 1..(Len(stdout) - 1) : stdout'[i] = stdout[i + 1]
  BY ReceiveFacts DEF RecoveryTypeOK, AnyEvent
<1>2. UNCHANGED <<turn, stdin, waiting, executing>>
  BY DEF Receive, chat, sdk
<1>3. ASSUME NEW t \in Turn, UnderWay(t)' PROVE UnderWay(t)
  <2>1. DOMAIN stdout = 1..Len(stdout) /\ DOMAIN stdout' = 1..(Len(stdout) - 1)
    BY <1>1, LenProperties
  <2>2. ASSUME NEW i \in DOMAIN stdout', t \in stdout'[i].of
        PROVE  \E j \in DOMAIN stdout : t \in stdout[j].of
    <3>1. i + 1 \in DOMAIN stdout /\ stdout'[i] = stdout[i + 1]
      BY <1>1, <2>1
    <3> QED
      BY <2>2, <3>1
  <2> QED
    BY <1>2, <1>3, <2>2 DEF UnderWay
<1>4. ASSUME NEW n \in Nat, NEW i \in Nat, NEW a \in Outcome, NEW c \in Outcome,
             NEW b \in Compacted, EventsAt(n, i, a, b, c)
      PROVE  /\ i < n /\ EmittedType(a, b, c, i + 1) = type /\ Of = {turn}
             /\ EventsAt(n, i + 1, a, b, c)'
  <2>1. /\ Len(stdout) = n - i
        /\ \A k \in 1..(n - i) : stdout[k] = [type |-> EmittedType(a, b, c, i + k), of |-> {turn}]
    BY <1>4 DEF EventsAt
  <2>2. i < n /\ 1 \in 1..(n - i)
    BY <1>1, <2>1
  <2>3. stdout[1] = [type |-> EmittedType(a, b, c, i + 1), of |-> {turn}]
    BY <2>1, <2>2
  <2>4. EmittedType(a, b, c, i + 1) = type /\ Of = {turn}
    BY <1>1, <2>3 DEF Of
  <2>5. Len(stdout') = n - (i + 1)
    BY <1>1, <2>1
  <2>6. ASSUME NEW k \in 1..(n - (i + 1))
        PROVE  stdout'[k] = [type |-> EmittedType(a, b, c, (i + 1) + k), of |-> {turn}]
    <3>1. k + 1 \in 1..(n - i) /\ k \in 1..(Len(stdout) - 1) /\ i + (k + 1) = (i + 1) + k
      BY <2>1
    <3> QED
      BY <1>1, <2>1, <3>1
  <2> QED
    BY <1>2, <2>2, <2>4, <2>5, <2>6 DEF EventsAt
<1> QED
  BY <1>3, <1>4

\* The place of an event in a run.
LEMMA EventPlace ==
  ASSUME NEW n \in {0, 2, 3, 4, 6}, NEW i \in 0..n, i < n,
         NEW a \in Outcome, NEW b \in Compacted, NEW c \in Outcome
  PROVE  LET type == EmittedType(a, b, c, i + 1) IN
         /\ \A x \in Outcome : type = x => (i = 0 /\ a = x) \/ (i = 4 /\ c = x)
         /\ type = "agent_end" => i \in {1, 5}
         /\ type = "compaction_start" => i = 2
         /\ \A x \in Compacted : type = x => i = 3 /\ b = x
         /\ type # "compaction_aborted"
<1>1. i \in {0, 1, 2, 3, 4, 5}
  OBVIOUS
<1> QED
  BY <1>1 DEF EmittedType, Outcome, Compacted

\* Such a step keeps the invariant if the adapter follows the run.
LEMMA EventStep ==
  ASSUME IInv, NEW type, Receive(type), RecoveryTypeOK', TimerMatchesState',
         \A t \in Turn : shown[t] # {} => shown'[t] # {},
         \A n, i \in Nat, a, c \in Outcome, b \in Compacted :
           /\ RunAt(n, i, a, b, c) /\ turn \in Turn /\ phase = "drain" /\ Of = {turn} /\ i < n
           /\ EmittedType(a, b, c, i + 1) = type
           => \/ done' = FALSE /\ WaitingAt(i + 1, a, b)'
              \/ done' = TRUE /\ CompleteAt(n, i + 1, a, b)'
  PROVE  IInv'
<1> USE DEF IInv
<1>1. UNCHANGED <<turn, phase, isProcessing, subprocess, stdin, waiting, executing, doing, attempted,
                  clean, disturbed>>
  BY DEF Receive, chat, sdk, history
<1>2. IdleSdk' /\ TurnBegun' /\ CleanPast'
  BY <1>1 DEF IdleSdk, TurnBegun, CleanPast
<1>3. AnsweredWhenOver'
  <2>1. clean' \subseteq Turn
    BY DEF RecoveryTypeOK
  <2>2. \A t \in clean' \ disturbed' : Over(t)' => t \in clean \ disturbed /\ Over(t)
    BY <1>1 DEF Over
  <2>3. \A t \in Turn : UnderWay(t)' => UnderWay(t)
    BY NextEvent
  <2> QED
    BY <2>1, <2>2, <2>3, OldTurns
<1>4. CleanTurn'
  <2> SUFFICES ASSUME turn \in clean \ disturbed, phase # "idle" PROVE Running'
    BY <1>1 DEF CleanTurn
  <2>1. stdout # <<>>
    BY DEF Receive
  <2>2. Running
    BY <2>1 DEF CleanTurn, Fresh, Sent, Prepared, NothingElse
  <2>3. PICK n \in Nat, i \in Nat, a \in Outcome, c \in Outcome, b \in Compacted :
          RunAt(n, i, a, b, c)
    BY <2>2 DEF Running
  <2>4. /\ i < n /\ EmittedType(a, b, c, i + 1) = type /\ Of = {turn}
        /\ EventsAt(n, i + 1, a, b, c)'
    BY <2>3, NextEvent DEF RunAt
  <2>5. \/ done' = FALSE /\ WaitingAt(i + 1, a, b)'
        \/ done' = TRUE /\ CompleteAt(n, i + 1, a, b)'
    BY <2>2, <2>3, <2>4 DEF RecoveryTypeOK, Running
  <2>6. i + 1 \in 0..n /\ i + 1 \in Nat
    BY <2>4
  <2>7. RunAt(n, i + 1, a, b, c)'
    BY <1>1, <2>3, <2>4, <2>5, <2>6 DEF RunAt, SdkAt
  <2> QED
    BY <1>1, <2>2, <2>6, <2>7 DEF Running
<1> QED
  BY <1>2, <1>3, <1>4

\* An answer.
LEMMA OnTextStep == ASSUME IInv, OnText PROVE IInv'
<1> USE DEF IInv
<1>1. Receive("text") /\ stdout' \in Seq(AnyEvent)
  BY ReceiveFacts DEF OnText
<1>2. /\ shown' \in [Turn -> SUBSET {"answer", "error"}]
      /\ \A t \in Turn : shown[t] # {} => shown'[t] # {}
  BY ShowFacts DEF OnText, RecoveryTypeOK
<1>3. turn \in Turn /\ phase = "drain" /\ Of = {turn} => shown'[turn] # {}
  BY ShowFacts DEF OnText
<1>4. RecoveryTypeOK'
  <2>1. /\ overflowState' \in {"none", "held", "awaiting", "compacting", "recovering"}
        /\ heldOverflowError' \in BOOLEAN /\ fallbackTimer' \in BOOLEAN /\ done' \in BOOLEAN
    BY DEF OnText, adapter, RecoveryTypeOK, Complete, ArmFallbackTimer, CancelFallbackTimer
  <2>2. UNCHANGED <<chat, subprocess, stdin, sdk, history>>
    BY <1>1 DEF OnText, Receive
  <2> QED
    BY <1>1, <1>2, <2>1, <2>2 DEF chat, sdk, history, AnyEvent, RecoveryTypeOK
<1>5. TimerMatchesState'
  BY DEF OnText, adapter, TimerMatchesState, RecoveryTypeOK, ArmFallbackTimer, CancelFallbackTimer,
     KeepsOpen
<1>6. ASSUME NEW n \in Nat, NEW i \in Nat, NEW a \in Outcome, NEW c \in Outcome,
             NEW b \in Compacted, RunAt(n, i, a, b, c), turn \in Turn, phase = "drain",
             Of = {turn}, i < n, EmittedType(a, b, c, i + 1) = "text"
      PROVE  \/ done' = FALSE /\ WaitingAt(i + 1, a, b)'
             \/ done' = TRUE /\ CompleteAt(n, i + 1, a, b)'
  <2>1. UNCHANGED <<turn, doing>>
    BY <1>1 DEF Receive, chat, sdk
  <2>2. n \in {0, 2, 3, 4, 6} /\ i \in 0..n
    BY <1>6 DEF RunAt
  <2>3. (i = 0 /\ a = "text") \/ (i = 4 /\ c = "text")
    BY <1>6, <2>2, EventPlace DEF Outcome, Compacted
  <2> QED
    BY <1>6, <2>1, <2>2, <2>3, <1>2, <1>3 DEF OnText, RunAt, WaitingAt, CompleteAt, SdkAt, Outcome,
       Compacted, adapter, Complete, KeepsOpen
<1> QED
  BY <1>1, <1>4, <1>5, <1>6, <1>2, EventStep DEF OnText

\* An error.
LEMMA OnErrorEventStep == ASSUME IInv, OnErrorEvent PROVE IInv'
<1> USE DEF IInv
<1>1. Receive("error") /\ stdout' \in Seq(AnyEvent)
  BY ReceiveFacts DEF OnErrorEvent
<1>2. /\ shown' \in [Turn -> SUBSET {"answer", "error"}]
      /\ \A t \in Turn : shown[t] # {} => shown'[t] # {}
  BY ShowFacts DEF OnErrorEvent, RecoveryTypeOK
<1>3. turn \in Turn /\ phase = "drain" /\ Of = {turn} => shown'[turn] # {}
  BY ShowFacts DEF OnErrorEvent
<1>4. RecoveryTypeOK'
  <2>1. /\ overflowState' \in {"none", "held", "awaiting", "compacting", "recovering"}
        /\ heldOverflowError' \in BOOLEAN /\ fallbackTimer' \in BOOLEAN /\ done' \in BOOLEAN
    BY DEF OnErrorEvent, adapter, RecoveryTypeOK, Complete, ArmFallbackTimer, CancelFallbackTimer
  <2>2. UNCHANGED <<chat, subprocess, stdin, sdk, history>>
    BY <1>1 DEF OnErrorEvent, Receive
  <2> QED
    BY <1>1, <1>2, <2>1, <2>2 DEF chat, sdk, history, AnyEvent, RecoveryTypeOK
<1>5. TimerMatchesState'
  BY DEF OnErrorEvent, adapter, TimerMatchesState, RecoveryTypeOK, ArmFallbackTimer, CancelFallbackTimer,
     KeepsOpen
<1>6. ASSUME NEW n \in Nat, NEW i \in Nat, NEW a \in Outcome, NEW c \in Outcome,
             NEW b \in Compacted, RunAt(n, i, a, b, c), turn \in Turn, phase = "drain",
             Of = {turn}, i < n, EmittedType(a, b, c, i + 1) = "error"
      PROVE  \/ done' = FALSE /\ WaitingAt(i + 1, a, b)'
             \/ done' = TRUE /\ CompleteAt(n, i + 1, a, b)'
  <2>1. UNCHANGED <<turn, doing>>
    BY <1>1 DEF Receive, chat, sdk
  <2>2. n \in {0, 2, 3, 4, 6} /\ i \in 0..n
    BY <1>6 DEF RunAt
  <2>3. (i = 0 /\ a = "error") \/ (i = 4 /\ c = "error")
    BY <1>6, <2>2, EventPlace DEF Outcome, Compacted
  <2> QED
    BY <1>6, <2>1, <2>2, <2>3, <1>2, <1>3 DEF OnErrorEvent, RunAt, WaitingAt, CompleteAt, SdkAt, Outcome,
       Compacted, adapter, Complete, KeepsOpen
<1> QED
  BY <1>1, <1>4, <1>5, <1>6, <1>2, EventStep DEF OnErrorEvent

\* An overflow is held back once.
LEMMA OnOverflowStep == ASSUME IInv, OnOverflow PROVE IInv'
<1> USE DEF IInv
<1>1. Receive("overflow") /\ stdout' \in Seq(AnyEvent)
  BY ReceiveFacts DEF OnOverflow
<1>2. /\ shown' \in [Turn -> SUBSET {"answer", "error"}]
      /\ \A t \in Turn : shown[t] # {} => shown'[t] # {}
  BY ShowFacts DEF OnOverflow, RecoveryTypeOK
<1>3. turn \in Turn /\ phase = "drain" /\ Of = {turn} /\ overflowState # "none" => shown'[turn] # {}
  BY ShowFacts DEF OnOverflow
<1>4. RecoveryTypeOK'
  <2>1. /\ overflowState' \in {"none", "held", "awaiting", "compacting", "recovering"}
        /\ heldOverflowError' \in BOOLEAN /\ fallbackTimer' \in BOOLEAN /\ done' \in BOOLEAN
    BY DEF OnOverflow, adapter, RecoveryTypeOK, Complete, ArmFallbackTimer, CancelFallbackTimer
  <2>2. UNCHANGED <<chat, subprocess, stdin, sdk, history>>
    BY <1>1 DEF OnOverflow, Receive
  <2> QED
    BY <1>1, <1>2, <2>1, <2>2 DEF chat, sdk, history, AnyEvent, RecoveryTypeOK
<1>5. TimerMatchesState'
  BY DEF OnOverflow, adapter, TimerMatchesState, RecoveryTypeOK, ArmFallbackTimer, CancelFallbackTimer,
     KeepsOpen
<1>6. ASSUME NEW n \in Nat, NEW i \in Nat, NEW a \in Outcome, NEW c \in Outcome,
             NEW b \in Compacted, RunAt(n, i, a, b, c), turn \in Turn, phase = "drain",
             Of = {turn}, i < n, EmittedType(a, b, c, i + 1) = "overflow"
      PROVE  \/ done' = FALSE /\ WaitingAt(i + 1, a, b)'
             \/ done' = TRUE /\ CompleteAt(n, i + 1, a, b)'
  <2>1. UNCHANGED <<turn, doing>>
    BY <1>1 DEF Receive, chat, sdk
  <2>2. n \in {0, 2, 3, 4, 6} /\ i \in 0..n
    BY <1>6 DEF RunAt
  <2>3. (i = 0 /\ a = "overflow") \/ (i = 4 /\ c = "overflow")
    BY <1>6, <2>2, EventPlace DEF Outcome, Compacted
  <2> QED
    BY <1>6, <2>1, <2>2, <2>3, <1>2, <1>3 DEF OnOverflow, RunAt, WaitingAt, CompleteAt, SdkAt, Outcome,
       Compacted, adapter, Complete, KeepsOpen
<1> QED
  BY <1>1, <1>4, <1>5, <1>6, <1>2, EventStep DEF OnOverflow

\* The end of a run.
LEMMA OnAgentEndStep == ASSUME IInv, OnAgentEnd PROVE IInv'
<1> USE DEF IInv
<1>1. Receive("agent_end") /\ stdout' \in Seq(AnyEvent)
  BY ReceiveFacts DEF OnAgentEnd
<1>4. RecoveryTypeOK'
  <2>1. /\ overflowState' \in {"none", "held", "awaiting", "compacting", "recovering"}
        /\ heldOverflowError' \in BOOLEAN /\ fallbackTimer' \in BOOLEAN /\ done' \in BOOLEAN
    BY DEF OnAgentEnd, adapter, RecoveryTypeOK, Complete, ArmFallbackTimer, CancelFallbackTimer
  <2>2. UNCHANGED <<chat, subprocess, stdin, sdk, history>> /\ UNCHANGED shown
    BY <1>1 DEF OnAgentEnd, Receive
  <2> QED
    BY <1>1, <2>1, <2>2 DEF chat, sdk, history, AnyEvent, RecoveryTypeOK
<1>5. TimerMatchesState'
  BY DEF OnAgentEnd, adapter, TimerMatchesState, RecoveryTypeOK, ArmFallbackTimer, CancelFallbackTimer,
     KeepsOpen
<1>6. ASSUME NEW n \in Nat, NEW i \in Nat, NEW a \in Outcome, NEW c \in Outcome,
             NEW b \in Compacted, RunAt(n, i, a, b, c), turn \in Turn, phase = "drain",
             Of = {turn}, i < n, EmittedType(a, b, c, i + 1) = "agent_end"
      PROVE  \/ done' = FALSE /\ WaitingAt(i + 1, a, b)'
             \/ done' = TRUE /\ CompleteAt(n, i + 1, a, b)'
  <2>1. UNCHANGED <<turn, doing>>
    BY <1>1 DEF Receive, chat, sdk
  <2>2. n \in {0, 2, 3, 4, 6} /\ i \in 0..n
    BY <1>6 DEF RunAt
  <2>3. i = 1 \/ i = 5
    BY <1>6, <2>2, EventPlace DEF Outcome, Compacted
  <2> QED
    BY <1>6, <2>1, <2>2, <2>3 DEF OnAgentEnd, RunAt, WaitingAt, CompleteAt, SdkAt, Outcome,
       Compacted, adapter, Complete, KeepsOpen
<1> QED
  BY <1>1, <1>4, <1>5, <1>6, EventStep DEF OnAgentEnd

\* A compaction begins ...
LEMMA OnCompactionStartStep == ASSUME IInv, OnCompactionStart PROVE IInv'
<1> USE DEF IInv
<1>1. Receive("compaction_start") /\ stdout' \in Seq(AnyEvent)
  BY ReceiveFacts DEF OnCompactionStart
<1>4. RecoveryTypeOK'
  <2>1. /\ overflowState' \in {"none", "held", "awaiting", "compacting", "recovering"}
        /\ heldOverflowError' \in BOOLEAN /\ fallbackTimer' \in BOOLEAN /\ done' \in BOOLEAN
    BY DEF OnCompactionStart, adapter, RecoveryTypeOK, Complete, ArmFallbackTimer, CancelFallbackTimer
  <2>2. UNCHANGED <<chat, subprocess, stdin, sdk, history>> /\ UNCHANGED shown
    BY <1>1 DEF OnCompactionStart, Receive
  <2> QED
    BY <1>1, <2>1, <2>2 DEF chat, sdk, history, AnyEvent, RecoveryTypeOK
<1>5. TimerMatchesState'
  BY DEF OnCompactionStart, adapter, TimerMatchesState, RecoveryTypeOK, ArmFallbackTimer, CancelFallbackTimer,
     KeepsOpen
<1>6. ASSUME NEW n \in Nat, NEW i \in Nat, NEW a \in Outcome, NEW c \in Outcome,
             NEW b \in Compacted, RunAt(n, i, a, b, c), turn \in Turn, phase = "drain",
             Of = {turn}, i < n, EmittedType(a, b, c, i + 1) = "compaction_start"
      PROVE  \/ done' = FALSE /\ WaitingAt(i + 1, a, b)'
             \/ done' = TRUE /\ CompleteAt(n, i + 1, a, b)'
  <2>1. UNCHANGED <<turn, doing>>
    BY <1>1 DEF Receive, chat, sdk
  <2>2. n \in {0, 2, 3, 4, 6} /\ i \in 0..n
    BY <1>6 DEF RunAt
  <2>3. i = 2
    BY <1>6, <2>2, EventPlace DEF Outcome, Compacted
  <2> QED
    BY <1>6, <2>1, <2>2, <2>3 DEF OnCompactionStart, RunAt, WaitingAt, CompleteAt, SdkAt, Outcome,
       Compacted, adapter, Complete, KeepsOpen
<1> QED
  BY <1>1, <1>4, <1>5, <1>6, EventStep DEF OnCompactionStart

\* ... succeeds,
LEMMA OnCompactionOkStep == ASSUME IInv, OnCompactionOk PROVE IInv'
<1> USE DEF IInv
<1>1. Receive("compaction_ok") /\ stdout' \in Seq(AnyEvent)
  BY ReceiveFacts DEF OnCompactionOk
<1>4. RecoveryTypeOK'
  <2>1. /\ overflowState' \in {"none", "held", "awaiting", "compacting", "recovering"}
        /\ heldOverflowError' \in BOOLEAN /\ fallbackTimer' \in BOOLEAN /\ done' \in BOOLEAN
    BY DEF OnCompactionOk, adapter, RecoveryTypeOK, Complete, ArmFallbackTimer, CancelFallbackTimer
  <2>2. UNCHANGED <<chat, subprocess, stdin, sdk, history>> /\ UNCHANGED shown
    BY <1>1 DEF OnCompactionOk, Receive
  <2> QED
    BY <1>1, <2>1, <2>2 DEF chat, sdk, history, AnyEvent, RecoveryTypeOK
<1>5. TimerMatchesState'
  BY DEF OnCompactionOk, adapter, TimerMatchesState, RecoveryTypeOK, ArmFallbackTimer, CancelFallbackTimer,
     KeepsOpen
<1>6. ASSUME NEW n \in Nat, NEW i \in Nat, NEW a \in Outcome, NEW c \in Outcome,
             NEW b \in Compacted, RunAt(n, i, a, b, c), turn \in Turn, phase = "drain",
             Of = {turn}, i < n, EmittedType(a, b, c, i + 1) = "compaction_ok"
      PROVE  \/ done' = FALSE /\ WaitingAt(i + 1, a, b)'
             \/ done' = TRUE /\ CompleteAt(n, i + 1, a, b)'
  <2>1. UNCHANGED <<turn, doing>>
    BY <1>1 DEF Receive, chat, sdk
  <2>2. n \in {0, 2, 3, 4, 6} /\ i \in 0..n
    BY <1>6 DEF RunAt
  <2>3. i = 3 /\ b = "compaction_ok"
    BY <1>6, <2>2, EventPlace DEF Outcome, Compacted
  <2> QED
    BY <1>6, <2>1, <2>2, <2>3 DEF OnCompactionOk, RunAt, WaitingAt, CompleteAt, SdkAt, Outcome,
       Compacted, adapter, Complete, KeepsOpen
<1> QED
  BY <1>1, <1>4, <1>5, <1>6, EventStep DEF OnCompactionOk

\* fails,
LEMMA OnCompactionFailedStep == ASSUME IInv, OnCompactionFailed PROVE IInv'
<1> USE DEF IInv
<1>1. Receive("compaction_failed") /\ stdout' \in Seq(AnyEvent)
  BY ReceiveFacts DEF OnCompactionFailed
<1>2. /\ shown' \in [Turn -> SUBSET {"answer", "error"}]
      /\ \A t \in Turn : shown[t] # {} => shown'[t] # {}
  BY ShowFacts DEF OnCompactionFailed, RecoveryTypeOK
<1>3. turn \in Turn /\ phase = "drain" /\ Of = {turn} => shown'[turn] # {}
  BY ShowFacts DEF OnCompactionFailed
<1>4. RecoveryTypeOK'
  <2>1. /\ overflowState' \in {"none", "held", "awaiting", "compacting", "recovering"}
        /\ heldOverflowError' \in BOOLEAN /\ fallbackTimer' \in BOOLEAN /\ done' \in BOOLEAN
    BY DEF OnCompactionFailed, adapter, RecoveryTypeOK, Complete, ArmFallbackTimer, CancelFallbackTimer
  <2>2. UNCHANGED <<chat, subprocess, stdin, sdk, history>>
    BY <1>1 DEF OnCompactionFailed, Receive
  <2> QED
    BY <1>1, <1>2, <2>1, <2>2 DEF chat, sdk, history, AnyEvent, RecoveryTypeOK
<1>5. TimerMatchesState'
  BY DEF OnCompactionFailed, adapter, TimerMatchesState, RecoveryTypeOK, ArmFallbackTimer, CancelFallbackTimer,
     KeepsOpen
<1>6. ASSUME NEW n \in Nat, NEW i \in Nat, NEW a \in Outcome, NEW c \in Outcome,
             NEW b \in Compacted, RunAt(n, i, a, b, c), turn \in Turn, phase = "drain",
             Of = {turn}, i < n, EmittedType(a, b, c, i + 1) = "compaction_failed"
      PROVE  \/ done' = FALSE /\ WaitingAt(i + 1, a, b)'
             \/ done' = TRUE /\ CompleteAt(n, i + 1, a, b)'
  <2>1. UNCHANGED <<turn, doing>>
    BY <1>1 DEF Receive, chat, sdk
  <2>2. n \in {0, 2, 3, 4, 6} /\ i \in 0..n
    BY <1>6 DEF RunAt
  <2>3. i = 3 /\ b = "compaction_failed"
    BY <1>6, <2>2, EventPlace DEF Outcome, Compacted
  <2> QED
    BY <1>6, <2>1, <2>2, <2>3, <1>2, <1>3 DEF OnCompactionFailed, RunAt, WaitingAt, CompleteAt, SdkAt, Outcome,
       Compacted, adapter, Complete, KeepsOpen
<1> QED
  BY <1>1, <1>4, <1>5, <1>6, <1>2, EventStep DEF OnCompactionFailed

\* or is aborted, which no run of a clean turn is.
LEMMA OnCompactionAbortedStep == ASSUME IInv, OnCompactionAborted PROVE IInv'
<1> USE DEF IInv
<1>1. Receive("compaction_aborted") /\ stdout' \in Seq(AnyEvent)
  BY ReceiveFacts DEF OnCompactionAborted
<1>4. RecoveryTypeOK'
  <2>1. /\ overflowState' \in {"none", "held", "awaiting", "compacting", "recovering"}
        /\ heldOverflowError' \in BOOLEAN /\ fallbackTimer' \in BOOLEAN /\ done' \in BOOLEAN
    BY DEF OnCompactionAborted, adapter, RecoveryTypeOK, Complete, ArmFallbackTimer, CancelFallbackTimer
  <2>2. UNCHANGED <<chat, subprocess, stdin, sdk, history>> /\ UNCHANGED shown
    BY <1>1 DEF OnCompactionAborted, Receive
  <2> QED
    BY <1>1, <2>1, <2>2 DEF chat, sdk, history, AnyEvent, RecoveryTypeOK
<1>5. TimerMatchesState'
  BY DEF OnCompactionAborted, adapter, TimerMatchesState, RecoveryTypeOK, ArmFallbackTimer, CancelFallbackTimer,
     KeepsOpen
<1>6. ASSUME NEW n \in Nat, NEW i \in Nat, NEW a \in Outcome, NEW c \in Outcome,
             NEW b \in Compacted, RunAt(n, i, a, b, c), turn \in Turn, phase = "drain",
             Of = {turn}, i < n, EmittedType(a, b, c, i + 1) = "compaction_aborted"
      PROVE  \/ done' = FALSE /\ WaitingAt(i + 1, a, b)'
             \/ done' = TRUE /\ CompleteAt(n, i + 1, a, b)'
  <2>1. UNCHANGED <<turn, doing>>
    BY <1>1 DEF Receive, chat, sdk
  <2>2. n \in {0, 2, 3, 4, 6} /\ i \in 0..n
    BY <1>6 DEF RunAt
  <2>3. FALSE
    BY <1>6, <2>2, EventPlace DEF Outcome, Compacted
  <2> QED
    BY <1>6, <2>1, <2>2, <2>3 DEF OnCompactionAborted, RunAt, WaitingAt, CompleteAt, SdkAt, Outcome,
       Compacted, adapter, Complete, KeepsOpen
<1> QED
  BY <1>1, <1>4, <1>5, <1>6, EventStep DEF OnCompactionAborted

\* The fallback ends the turn where the SDK did not compact.
LEMMA FallbackFiresStep == ASSUME IInv, FallbackFires PROVE IInv'
<1> USE DEF IInv
<1>1. UNCHANGED <<turn, phase, isProcessing, subprocess, stdin, stdout, waiting, executing, doing,
                  attempted, clean, disturbed, stops, exits>>
  BY DEF FallbackFires, chat, sdk, history
<1>2. /\ shown' \in [Turn -> SUBSET {"answer", "error"}]
      /\ \A t \in Turn : shown[t] # {} => shown'[t] # {}
      /\ phase = "drain" /\ turn \in Turn => shown'[turn] # {}
  BY ShowFacts DEF FallbackFires, ReportHeld
<1>3. /\ overflowState = "awaiting" /\ overflowState' = "none" /\ heldOverflowError' = FALSE
      /\ fallbackTimer' = FALSE /\ done' = TRUE /\ doing # "checking"
      /\ \A i \in DOMAIN stdout : stdout[i].type # "compaction_start"
  BY DEF FallbackFires, Complete
<1>4. RecoveryTypeOK' /\ TimerMatchesState'
  BY <1>1, <1>2, <1>3 DEF RecoveryTypeOK, TimerMatchesState
<1>5. IdleSdk' /\ TurnBegun' /\ CleanPast'
  BY <1>1 DEF IdleSdk, TurnBegun, CleanPast
<1>6. AnsweredWhenOver'
  BY <1>1, <1>2, OldTurns DEF UnderWay, Over, RecoveryTypeOK
<1>7. CleanTurn'
  <2> SUFFICES ASSUME turn \in clean \ disturbed, phase # "idle" PROVE Running'
    BY <1>1 DEF CleanTurn
  <2>1. Running
    BY <1>3 DEF CleanTurn, Fresh, Sent, Prepared, NothingElse
  <2>2. PICK n \in Nat, i \in Nat, a \in Outcome, c \in Outcome, b \in Compacted :
          RunAt(n, i, a, b, c)
    BY <2>1 DEF Running
  <2>3. i = 2 /\ n \in {2, 3, 4, 6}
    BY <1>3, <2>2 DEF RunAt, WaitingAt, CompleteAt
  <2>4. n = 2
    <3> SUFFICES ASSUME n # 2 PROVE FALSE
      OBVIOUS
    <3>1. n \in {3, 4, 6} /\ 1 \in 1..(n - i) /\ i + 1 = 3
      BY <2>3
    <3>2. Len(stdout) = n - i /\ stdout[1] = [type |-> EmittedType(a, b, c, i + 1), of |-> {turn}]
      BY <2>2, <3>1 DEF RunAt, EventsAt
    <3>3. stdout[1].type = "compaction_start"
      BY <3>1, <3>2 DEF EmittedType
    <3>4. 1 \in DOMAIN stdout
      BY <3>1, <3>2, LenProperties DEF RecoveryTypeOK
    <3> QED
      BY <1>3, <3>2, <3>3, <3>4
  <2>5. doing = "nothing" /\ EventsAt(n, i, a, b, c)'
    BY <1>1, <1>3, <2>2, <2>4 DEF RunAt, SdkAt, EventsAt
  <2>6. CompleteAt(n, i, a, b)'
    BY <1>1, <1>2, <1>3, <2>1, <2>3, <2>4, <2>5 DEF CompleteAt, RecoveryTypeOK, Running
  <2>7. RunAt(n, i, a, b, c)'
    BY <1>1, <1>3, <2>2, <2>5, <2>6 DEF RunAt, SdkAt
  <2> QED
    BY <1>1, <2>1, <2>7 DEF Running
<1> QED
  BY <1>4, <1>5, <1>6, <1>7

-----------------------------------------------------------------------------
(* Steps of the SDK *)

\* What a run emits is about turns that it serves.
LEMMA EmitWork ==
  ASSUME RecoveryTypeOK, NEW types \in Seq(EventType), Emit(types),
         executing' \subseteq executing, waiting' \subseteq waiting,
         {stdin'[i] : i \in DOMAIN stdin'} \subseteq {stdin[i] : i \in DOMAIN stdin}
  PROVE  \A t \in Turn : UnderWay(t)' => UnderWay(t)
<1> SUFFICES ASSUME NEW t \in Turn, UnderWay(t)' PROVE UnderWay(t)
  OBVIOUS
<1>1. /\ stdout' \in Seq(AnyEvent) /\ stdout \in Seq(AnyEvent)
      /\ Len(stdout') = Len(stdout) + Len(types)
      /\ \A i \in 1..(Len(stdout) + Len(types)) : stdout'[i] =
           IF i <= Len(stdout) THEN stdout[i]
           ELSE [type |-> types[i - Len(stdout)], of |-> executing]
  BY EmitFacts DEF RecoveryTypeOK, AnyEvent
<1>2. Len(stdout) \in Nat /\ Len(types) \in Nat
      /\ DOMAIN stdout = 1..Len(stdout) /\ DOMAIN stdout' = 1..(Len(stdout) + Len(types))
  BY <1>1, LenProperties
<1>3. ASSUME NEW i \in DOMAIN stdout', t \in stdout'[i].of
      PROVE  t \in executing \/ \E j \in DOMAIN stdout : t \in stdout[j].of
  <2>1. CASE i <= Len(stdout)
    <3>1. i \in DOMAIN stdout /\ stdout'[i] = stdout[i]
      BY <1>1, <1>2, <2>1
    <3> QED
      BY <1>3, <3>1
  <2>2. CASE ~(i <= Len(stdout))
    <3>1. stdout'[i] = [type |-> types[i - Len(stdout)], of |-> executing]
      BY <1>1, <1>2, <2>2
    <3> QED
      BY <1>3, <3>1
  <2> QED
    BY <2>1, <2>2
<1> QED
  BY <1>3 DEF UnderWay

\* The run of a clean turn grows by what it emits.
LEMMA RunGrows ==
  ASSUME RecoveryTypeOK, NEW types \in Seq(EventType), Emit(types), executing = {turn},
         UNCHANGED turn, NEW n \in Nat, NEW i \in 0..n,
         NEW a \in Outcome, NEW b \in Compacted, NEW c \in Outcome, EventsAt(n, i, a, b, c),
         NEW a2 \in Outcome, NEW b2 \in Compacted, NEW c2 \in Outcome,
         \A k \in 1..n : EmittedType(a2, b2, c2, k) = EmittedType(a, b, c, k),
         \A k \in 1..Len(types) : types[k] = EmittedType(a2, b2, c2, n + k),
         NEW m, m = n + Len(types)
  PROVE  EventsAt(m, i, a2, b2, c2)'
<1>1. /\ Len(stdout') = Len(stdout) + Len(types)
      /\ \A k \in 1..(Len(stdout) + Len(types)) : stdout'[k] =
           IF k <= Len(stdout) THEN stdout[k]
           ELSE [type |-> types[k - Len(stdout)], of |-> executing]
  BY EmitFacts
<1>2. /\ Len(stdout) = n - i
      /\ \A k \in 1..(n - i) : stdout[k] = [type |-> EmittedType(a, b, c, i + k), of |-> {turn}]
  BY DEF EventsAt
<1>3. Len(types) \in Nat
  BY LenProperties
<1>4. Len(stdout') = (n + Len(types)) - i
  BY <1>1, <1>2, <1>3
<1>5. ASSUME NEW k \in 1..((n + Len(types)) - i)
      PROVE  stdout'[k] = [type |-> EmittedType(a2, b2, c2, i + k), of |-> {turn}]
  <2>1. CASE k <= n - i
    <3>1. k \in 1..(n - i) /\ i + k \in 1..n /\ k \in 1..(Len(stdout) + Len(types))
      BY <1>2, <1>3, <2>1
    <3> QED
      BY <1>1, <1>2, <2>1, <3>1
  <2>2. CASE ~(k <= n - i)
    <3>1. /\ k - (n - i) \in 1..Len(types) /\ n + (k - (n - i)) = i + k
          /\ k \in 1..(Len(stdout) + Len(types))
      BY <1>2, <1>3, <2>2
    <3> QED
      BY <1>1, <1>2, <2>2, <3>1
  <2> QED
    BY <2>1, <2>2
<1> QED
  BY <1>4, <1>5 DEF EventsAt

\* A step of the SDK keeps the invariant if the clean turn goes on.
LEMMA SdkRunStep ==
  ASSUME IInv, NEW types \in Seq(EventType), NEW from \in {"streaming", "checking", "compacting"},
         NEW to \in {"nothing", "streaming", "checking", "compacting"},
         SdkRun(from, types, to), attempted' \in BOOLEAN,
         ASSUME turn \in clean \ disturbed, phase = "drain", stdin = <<>>, done = FALSE,
                NEW n \in Nat, NEW i \in Nat, NEW a \in Outcome, NEW c \in Outcome,
                NEW b \in Compacted, RunAt(n, i, a, b, c), WaitingAt(i, a, b)
         PROVE  \E n2 \in Nat, a2 \in Outcome, b2 \in Compacted, c2 \in Outcome :
                  RunAt(n2, i, a2, b2, c2)'
  PROVE  IInv'
<1> USE DEF IInv
<1>1. UNCHANGED <<overflowState, heldOverflowError, fallbackTimer, turn, phase, isProcessing, done,
                  subprocess, stdin, waiting, shown, clean, disturbed, stops, exits>>
  BY DEF SdkRun, adapter, chat, history
<1>2. /\ doing = from /\ doing' = to /\ Emit(types)
      /\ executing' = IF to = "nothing" THEN {} ELSE executing
  BY DEF SdkRun
<1>3. stdout' \in Seq(AnyEvent)
  BY <1>2, EmitFacts
<1>4. RecoveryTypeOK'
  BY <1>1, <1>2, <1>3 DEF RecoveryTypeOK, AnyEvent
<1>5. TimerMatchesState' /\ IdleSdk' /\ TurnBegun' /\ CleanPast'
  BY <1>1, <1>2 DEF TimerMatchesState, IdleSdk, TurnBegun, CleanPast
<1>6. AnsweredWhenOver'
  <2>1. \A t \in Turn : UnderWay(t)' => UnderWay(t)
    BY <1>1, <1>2, EmitWork
  <2> QED
    BY <1>1, <2>1, OldTurns DEF Over, RecoveryTypeOK
<1>7. CleanTurn'
  <2> SUFFICES ASSUME turn \in clean \ disturbed, phase # "idle" PROVE Running'
    BY <1>1 DEF CleanTurn
  <2>1. Running
    BY <1>2 DEF CleanTurn, Fresh, Sent, Prepared, NothingElse
  <2>2. PICK n \in Nat, i \in Nat, a \in Outcome, c \in Outcome, b \in Compacted :
          RunAt(n, i, a, b, c)
    BY <2>1 DEF Running
  <2>3. done = FALSE /\ WaitingAt(i, a, b)
    BY <1>2, <2>2 DEF RunAt, CompleteAt
  <2>4. \E n2 \in Nat, a2 \in Outcome, b2 \in Compacted, c2 \in Outcome :
          RunAt(n2, i, a2, b2, c2)'
    BY <2>1, <2>2, <2>3 DEF Running
  <2> QED
    BY <1>1, <2>1, <2>4 DEF Running
<1> QED
  BY <1>4, <1>5, <1>6, <1>7

\* The run of a turn answers, fails or overflows.
LEMMA RunEndsStep == ASSUME IInv, RunEnds PROVE IInv'
<1>0. RecoveryTypeOK
  BY DEF IInv
<1>1. PICK x \in Outcome :
        SdkRun("streaming", <<x, "agent_end">>,
               IF x = "overflow" /\ ~attempted THEN "checking" ELSE "nothing")
  BY DEF RunEnds, Outcome
<1> DEFINE types == <<x, "agent_end">>
           to == IF x = "overflow" /\ ~attempted THEN "checking" ELSE "nothing"
<1>2. types \in Seq(EventType) /\ Len(types) = 2 /\ types[1] = x /\ types[2] = "agent_end"
  BY DEF Outcome, EventType
<1>3. to \in {"nothing", "checking"} /\ UNCHANGED attempted /\ attempted \in BOOLEAN
  BY DEF RunEnds, IInv, RecoveryTypeOK
<1>4. SdkRun("streaming", types, to)
  BY <1>1
<1>5. ASSUME turn \in clean \ disturbed, phase = "drain", stdin = <<>>, done = FALSE,
             NEW n \in Nat, NEW i \in Nat, NEW a \in Outcome, NEW c \in Outcome,
             NEW b \in Compacted, RunAt(n, i, a, b, c), WaitingAt(i, a, b)
      PROVE  \E n2 \in Nat, a2 \in Outcome, b2 \in Compacted, c2 \in Outcome :
               RunAt(n2, i, a2, b2, c2)'
  <2> HIDE DEF types
  <2>1. /\ doing = "streaming" /\ Emit(types) /\ doing' = to
        /\ executing' = (IF to = "nothing" THEN {} ELSE executing)
        /\ UNCHANGED <<turn, overflowState, done, shown, attempted>>
    BY <1>3, <1>4 DEF SdkRun, adapter, chat
  <2>2. (n = 0 /\ attempted = FALSE) \/ (n = 4 /\ b = "compaction_ok" /\ attempted = TRUE)
    BY <1>5, <2>1 DEF RunAt, SdkAt
  <2>3. executing = {turn} /\ EventsAt(n, i, a, b, c) /\ i \in 0..n
    BY <1>5, <2>1 DEF RunAt, SdkAt
  <2>4. /\ types \in Seq(EventType) /\ Emit(types) /\ turn' = turn /\ x \in Outcome
        /\ n \in Nat /\ a \in Outcome /\ b \in Compacted /\ c \in Outcome
    BY <1>1, <1>2, <1>5, <2>1
  <2>5. CASE n = 0
    <3>1. \A k \in 1..n : EmittedType(x, b, c, k) = EmittedType(a, b, c, k)
      BY <2>5
    <3>2. \A k \in 1..Len(types) : types[k] = EmittedType(x, b, c, n + k)
      BY <1>2, <2>5 DEF EmittedType
    <3>3. 2 = n + Len(types)
      BY <1>2, <2>5
    <3>4. EventsAt(2, i, x, b, c)'
      BY <1>0, <2>3, <2>4, <3>1, <3>2, <3>3, RunGrows
    <3>5. SdkAt(2, x, b)'
      BY <2>1, <2>2, <2>3, <2>5 DEF SdkAt
    <3>6. i = 0 /\ WaitingAt(i, x, b)'
      BY <1>5, <2>1, <2>3, <2>5 DEF WaitingAt
    <3> QED
      BY <1>5, <2>1, <2>5, <3>4, <3>5, <3>6 DEF RunAt
  <2>6. CASE n = 4
    <3>1. \A k \in 1..n : EmittedType(a, b, x, k) = EmittedType(a, b, c, k)
      BY <2>6 DEF EmittedType
    <3>2. \A k \in 1..Len(types) : types[k] = EmittedType(a, b, x, n + k)
      BY <1>2, <2>6 DEF EmittedType
    <3>3. 6 = n + Len(types)
      BY <1>2, <2>6
    <3>4. EventsAt(6, i, a, b, x)'
      BY <1>0, <2>3, <2>4, <3>1, <3>2, <3>3, RunGrows
    <3>5. SdkAt(6, a, b)'
      BY <2>1, <2>2, <2>6 DEF SdkAt
    <3>6. WaitingAt(i, a, b)'
      BY <1>5, <2>1 DEF WaitingAt
    <3> QED
      BY <1>5, <2>1, <2>2, <2>3, <2>6, <3>4, <3>5, <3>6 DEF RunAt
  <2> QED
    BY <2>2, <2>5, <2>6
<1> HIDE DEF types, to
<1> QED
  BY <1>2, <1>3, <1>4, <1>5, SdkRunStep

\* After an overflow it compacts, or does not.
LEMMA CheckCompactionStep == ASSUME IInv, CheckCompaction PROVE IInv'
<1>0. RecoveryTypeOK
  BY DEF IInv
<1>1. CASE attempted' = TRUE /\ SdkRun("checking", <<"compaction_start">>, "compacting")
  <2> DEFINE types == <<"compaction_start">>
  <2>1. types \in Seq(EventType) /\ Len(types) = 1 /\ types[1] = "compaction_start"
    BY DEF EventType
  <2>2. SdkRun("checking", types, "compacting")
    BY <1>1
  <2> HIDE DEF types
  <2>3. ASSUME turn \in clean \ disturbed, phase = "drain", stdin = <<>>, done = FALSE,
               NEW n \in Nat, NEW i \in Nat, NEW a \in Outcome, NEW c \in Outcome,
               NEW b \in Compacted, RunAt(n, i, a, b, c), WaitingAt(i, a, b)
        PROVE  \E n2 \in Nat, a2 \in Outcome, b2 \in Compacted, c2 \in Outcome :
                 RunAt(n2, i, a2, b2, c2)'
    <3>1. /\ doing = "checking" /\ Emit(types) /\ doing' = "compacting" /\ executing' = executing
          /\ UNCHANGED <<turn, overflowState, done, shown>>
      BY <2>2 DEF SdkRun, adapter, chat
    <3>2. n = 2 /\ a = "overflow" /\ executing = {turn} /\ EventsAt(n, i, a, b, c) /\ i \in 0..n
      BY <2>3, <3>1 DEF RunAt, SdkAt
    <3>3. \A k \in 1..Len(types) : types[k] = EmittedType(a, b, c, n + k)
      BY <2>1, <3>2 DEF EmittedType
    <3>4. 3 = n + Len(types)
      BY <2>1, <3>2
    <3>5. EventsAt(3, i, a, b, c)'
      <4>1. /\ types \in Seq(EventType) /\ Emit(types) /\ turn' = turn /\ executing = {turn}
            /\ EventsAt(n, i, a, b, c) /\ i \in 0..n /\ n \in Nat
            /\ a \in Outcome /\ b \in Compacted /\ c \in Outcome
        BY <2>1, <2>3, <3>1, <3>2
      <4> QED
        BY <1>0, <3>3, <3>4, <4>1, RunGrows
    <3>6. SdkAt(3, a, b)' /\ WaitingAt(i, a, b)'
      BY <1>1, <2>3, <3>1, <3>2 DEF SdkAt, WaitingAt
    <3> QED
      BY <2>3, <3>1, <3>2, <3>5, <3>6 DEF RunAt
  <2> QED
    BY <1>1, <2>1, <2>2, <2>3, SdkRunStep
<1>2. CASE UNCHANGED attempted /\ SdkRun("checking", <<>>, "nothing")
  <2>1. <<>> \in Seq(EventType) /\ Len(<<>>) = 0
    BY EmptySeq
  <2>2. attempted' \in BOOLEAN
    BY <1>2 DEF IInv, RecoveryTypeOK
  <2>3. ASSUME turn \in clean \ disturbed, phase = "drain", stdin = <<>>, done = FALSE,
               NEW n \in Nat, NEW i \in Nat, NEW a \in Outcome, NEW c \in Outcome,
               NEW b \in Compacted, RunAt(n, i, a, b, c), WaitingAt(i, a, b)
        PROVE  \E n2 \in Nat, a2 \in Outcome, b2 \in Compacted, c2 \in Outcome :
                 RunAt(n2, i, a2, b2, c2)'
    <3>1. /\ doing = "checking" /\ Emit(<<>>) /\ doing' = "nothing"
          /\ UNCHANGED <<turn, overflowState, done, shown>>
      BY <1>2 DEF SdkRun, adapter, chat
    <3>2. n = 2 /\ a = "overflow" /\ executing = {turn} /\ EventsAt(n, i, a, b, c) /\ i \in 0..n
      BY <2>3, <3>1 DEF RunAt, SdkAt
    <3>3. \A k \in 1..Len(<<>>) : <<>>[k] = EmittedType(a, b, c, n + k)
      BY <2>1
    <3>4. EventsAt(2, i, a, b, c)'
      <4>1. 2 = n + Len(<<>>)
        BY <2>1, <3>2
      <4>2. /\ Emit(<<>>) /\ turn' = turn /\ executing = {turn}
            /\ EventsAt(n, i, a, b, c) /\ i \in 0..n /\ n \in Nat
            /\ a \in Outcome /\ b \in Compacted /\ c \in Outcome
        BY <2>3, <3>1, <3>2
      <4> QED
        BY <1>0, <2>1, <3>3, <4>1, <4>2, RunGrows
    <3>5. SdkAt(2, a, b)' /\ WaitingAt(i, a, b)'
      BY <2>3, <3>1, <3>2 DEF SdkAt, WaitingAt
    <3> QED
      BY <2>3, <3>1, <3>2, <3>4, <3>5 DEF RunAt
  <2> QED
    BY <1>2, <2>1, <2>2, <2>3, SdkRunStep
<1> QED
  BY <1>1, <1>2 DEF CheckCompaction

\* A compaction succeeds or fails.
LEMMA CompactionEndsStep == ASSUME IInv, CompactionEnds PROVE IInv'
<1>0. RecoveryTypeOK
  BY DEF IInv
<1>1. PICK x \in Compacted :
        SdkRun("compacting", <<x>>, IF x = "compaction_ok" THEN "streaming" ELSE "nothing")
  BY DEF CompactionEnds, Compacted
<1> DEFINE types == <<x>>
           to == IF x = "compaction_ok" THEN "streaming" ELSE "nothing"
<1>2. types \in Seq(EventType) /\ Len(types) = 1 /\ types[1] = x
  BY DEF Compacted, EventType
<1>3. to \in {"nothing", "streaming"} /\ UNCHANGED attempted /\ attempted \in BOOLEAN
  BY DEF CompactionEnds, IInv, RecoveryTypeOK
<1>4. SdkRun("compacting", types, to)
  BY <1>1
<1>5. ASSUME turn \in clean \ disturbed, phase = "drain", stdin = <<>>, done = FALSE,
             NEW n \in Nat, NEW i \in Nat, NEW a \in Outcome, NEW c \in Outcome,
             NEW b \in Compacted, RunAt(n, i, a, b, c), WaitingAt(i, a, b)
      PROVE  \E n2 \in Nat, a2 \in Outcome, b2 \in Compacted, c2 \in Outcome :
               RunAt(n2, i, a2, b2, c2)'
  <2> HIDE DEF types
  <2>1. /\ doing = "compacting" /\ Emit(types) /\ doing' = to
        /\ executing' = (IF to = "nothing" THEN {} ELSE executing)
        /\ UNCHANGED <<turn, overflowState, done, shown, attempted>>
    BY <1>3, <1>4 DEF SdkRun, adapter, chat
  <2>2. n = 3 /\ attempted = TRUE /\ executing = {turn} /\ EventsAt(n, i, a, b, c) /\ i \in 0..n
    BY <1>5, <2>1 DEF RunAt, SdkAt
  <2>3. \A k \in 1..n : EmittedType(a, x, c, k) = EmittedType(a, b, c, k)
    BY <2>2 DEF EmittedType
  <2>4. \A k \in 1..Len(types) : types[k] = EmittedType(a, x, c, n + k)
    BY <1>2, <2>2 DEF EmittedType
  <2>5. 4 = n + Len(types)
    BY <1>2, <2>2
  <2>6. EventsAt(4, i, a, x, c)'
    <3>1. /\ types \in Seq(EventType) /\ Emit(types) /\ turn' = turn /\ executing = {turn}
          /\ EventsAt(n, i, a, b, c) /\ i \in 0..n /\ n \in Nat
          /\ a \in Outcome /\ b \in Compacted /\ c \in Outcome /\ x \in Compacted
      BY <1>1, <1>2, <1>5, <2>1, <2>2
    <3> QED
      BY <1>0, <2>3, <2>4, <2>5, <3>1, RunGrows
  <2>7. SdkAt(4, a, x)'
    BY <2>1, <2>2 DEF SdkAt, Compacted
  <2>8. WaitingAt(i, a, x)'
    BY <1>5, <2>1, <2>2 DEF WaitingAt
  <2> QED
    BY <1>5, <2>1, <2>2, <2>6, <2>7, <2>8 DEF RunAt
<1> HIDE DEF types, to
<1> QED
  BY <1>2, <1>3, <1>4, <1>5, SdkRunStep

\* The lines that are left when one is read were there.
LEMMA ReadWork ==
  ASSUME RecoveryTypeOK, NEW type, Read(type)
  PROVE  /\ {stdin'[i] : i \in DOMAIN stdin'} \subseteq {stdin[i] : i \in DOMAIN stdin}
         /\ Head(stdin) \in {stdin[i] : i \in DOMAIN stdin}
<1>1. /\ Head(stdin) = stdin[1] /\ Len(stdin) \in Nat \ {0} /\ Len(stdin') = Len(stdin) - 1
      /\ stdin \in Seq(Line) /\ stdin' \in Seq(Line)
      /\ \A i \in 1..(Len(stdin) - 1) : stdin'[i] = stdin[i + 1]
  BY ReadFacts DEF RecoveryTypeOK, Line
<1>2. DOMAIN stdin = 1..Len(stdin) /\ DOMAIN stdin' = 1..(Len(stdin) - 1)
  BY <1>1, LenProperties
<1>3. \A i \in DOMAIN stdin' : i + 1 \in DOMAIN stdin /\ stdin'[i] = stdin[i + 1]
  BY <1>1, <1>2
<1> QED
  BY <1>1, <1>2, <1>3

\* handlePrompt has the prompt of a clean turn.
LEMMA ReadPromptStep == ASSUME IInv, ReadPrompt PROVE IInv'
<1> USE DEF IInv
<1>1. Read("prompt") /\ UNCHANGED <<stdout, executing, doing, attempted>>
  BY DEF ReadPrompt
<1>2. UNCHANGED <<overflowState, heldOverflowError, fallbackTimer, turn, phase, isProcessing, done,
                  subprocess, shown, clean, disturbed, stops, exits>>
  BY <1>1 DEF Read, adapter, chat, history
<1>3. /\ Head(stdin) \in Line /\ Head(stdin).type = "prompt" /\ stdin' \in Seq(Line)
      /\ Head(stdin) = stdin[1] /\ Len(stdin) \in Nat \ {0} /\ Len(stdin') = Len(stdin) - 1
  BY <1>1, ReadFacts
<1>4. PICK t \in Turn : Head(stdin) = [type |-> "prompt", turn |-> t]
  BY <1>3 DEF Line
<1>5. Head(stdin).turn = t
  BY <1>4
<1>6. waiting' = waiting \union {t}
  BY <1>5 DEF ReadPrompt
<1>7. RecoveryTypeOK'
  BY <1>1, <1>2, <1>3, <1>6 DEF RecoveryTypeOK, Line
<1>8. TimerMatchesState' /\ IdleSdk' /\ TurnBegun' /\ CleanPast'
  BY <1>1, <1>2 DEF TimerMatchesState, IdleSdk, TurnBegun, CleanPast
<1>9. AnsweredWhenOver'
  <2>1. \A u \in Turn : UnderWay(u)' => UnderWay(u)
    BY <1>1, <1>4, <1>6, ReadWork DEF UnderWay
  <2> QED
    BY <1>2, <2>1, OldTurns DEF Over, RecoveryTypeOK
<1>10. CleanTurn'
  <2> SUFFICES ASSUME turn \in clean \ disturbed, phase # "idle" PROVE Prepared'
    BY <1>2 DEF CleanTurn
  <2>1. Sent
    BY <1>1 DEF CleanTurn, Fresh, Prepared, Running, Read
  <2>2. t = turn
    BY <1>3, <1>4, <1>5, <2>1 DEF Sent
  <2>3. stdin' = <<>>
    <3>1. Len(stdin) = 1
      BY <2>1 DEF Sent
    <3> QED
      BY <1>3, <3>1, EmptySeq
  <2> QED
    BY <1>1, <1>2, <1>6, <2>1, <2>2, <2>3 DEF Sent, Prepared, NothingElse
<1> QED
  BY <1>7, <1>8, <1>9, <1>10

\* It starts the run of a clean turn.
LEMMA StartPromptStep == ASSUME IInv, NEW t \in Turn, StartPrompt(t) PROVE IInv'
<1> USE DEF IInv
<1>1. /\ t \in waiting /\ waiting' = waiting \ {t}
      /\ executing' = executing \union {t} /\ doing' = "streaming"
      /\ attempted' = (attempted /\ doing = "streaming")
      /\ UNCHANGED <<overflowState, heldOverflowError, fallbackTimer, turn, phase, isProcessing, done,
                     subprocess, stdin, stdout, shown, clean, disturbed, stops, exits>>
  BY DEF StartPrompt, adapter, chat, history
<1>2. RecoveryTypeOK'
  <2>1. attempted' \in BOOLEAN
    BY <1>1 DEF RecoveryTypeOK
  <2> QED
    BY <1>1, <2>1 DEF RecoveryTypeOK
<1>3. TimerMatchesState' /\ IdleSdk' /\ TurnBegun' /\ CleanPast'
  BY <1>1 DEF TimerMatchesState, IdleSdk, TurnBegun, CleanPast
<1>4. AnsweredWhenOver'
  <2>1. \A u \in Turn : UnderWay(u)' => UnderWay(u)
    BY <1>1 DEF UnderWay
  <2> QED
    BY <1>1, <2>1, OldTurns DEF Over, RecoveryTypeOK
<1>5. CleanTurn'
  <2> SUFFICES ASSUME turn \in clean \ disturbed, phase # "idle" PROVE Running'
    BY <1>1 DEF CleanTurn
  <2>1. Prepared /\ t = turn
    BY <1>1 DEF CleanTurn, Fresh, Sent, Prepared, Running
  <2>2. doing = "nothing" /\ stdout = <<>> /\ phase = "drain" /\ stdin = <<>> /\ done = FALSE
        /\ overflowState = "none" /\ waiting' = {}
    BY <1>1, <2>1 DEF Prepared, NothingElse
  <2>3. executing' = {turn} /\ doing' = "streaming" /\ attempted' = FALSE
    BY <1>1, <2>1, <2>2 DEF IdleSdk, RecoveryTypeOK
  <2>4. "text" \in Outcome /\ "compaction_ok" \in Compacted
    BY DEF Outcome, Compacted
  <2>5. EventsAt(0, 0, "text", "compaction_ok", "text")'
    <3>1. Len(stdout) = 0
      BY <2>2, EmptySeq
    <3> QED
      BY <1>1, <3>1 DEF EventsAt
  <2>6. RunAt(0, 0, "text", "compaction_ok", "text")'
    BY <1>1, <2>2, <2>3, <2>4, <2>5 DEF RunAt, SdkAt, WaitingAt
  <2> QED
    BY <1>1, <2>2, <2>4, <2>6 DEF Running
<1> QED
  BY <1>2, <1>3, <1>4, <1>5

\* A clean turn that is not stopped reads no abort.
LEMMA ReadAbortStep == ASSUME IInv, ReadAbort PROVE IInv'
<1> USE DEF IInv
<1>1. Read("abort")
  BY DEF ReadAbort
<1>2. UNCHANGED <<overflowState, heldOverflowError, fallbackTimer, turn, phase, isProcessing, done,
                  subprocess, shown, clean, disturbed, stops, exits>>
  BY <1>1 DEF Read, adapter, chat, history
<1>3. Head(stdin).type = "abort" /\ stdin' \in Seq(Line) /\ Head(stdin) = stdin[1]
  BY <1>1, ReadFacts
<1>4. \/ UNCHANGED <<stdout, waiting, executing, doing, attempted>>
      \/ /\ executing' = {} /\ doing' = "nothing" /\ UNCHANGED <<waiting, attempted>>
         /\ Emit(<<"agent_end">>) \/ Emit(<<"compaction_aborted">>) \/ Emit(<<>>)
  BY DEF ReadAbort, sdk
<1>5. /\ <<"agent_end">> \in Seq(EventType) /\ <<"compaction_aborted">> \in Seq(EventType)
      /\ <<>> \in Seq(EventType)
  BY EmptySeq DEF EventType
<1>6. stdout' \in Seq(AnyEvent)
  BY <1>4, <1>5, EmitFacts DEF RecoveryTypeOK, AnyEvent
<1>7. RecoveryTypeOK'
  BY <1>2, <1>3, <1>4, <1>6 DEF RecoveryTypeOK, Line, AnyEvent
<1>8. TimerMatchesState' /\ IdleSdk' /\ TurnBegun' /\ CleanPast'
  BY <1>2, <1>4 DEF TimerMatchesState, IdleSdk, TurnBegun, CleanPast
<1>9. AnsweredWhenOver'
  <2>1. {stdin'[i] : i \in DOMAIN stdin'} \subseteq {stdin[i] : i \in DOMAIN stdin}
    BY <1>1, ReadWork
  <2>2. \A t \in Turn : UnderWay(t)' => UnderWay(t)
    <3>1. CASE UNCHANGED <<stdout, waiting, executing, doing, attempted>>
      BY <2>1, <3>1 DEF UnderWay
    <3>2. CASE executing' = {} /\ UNCHANGED waiting
                 /\ (Emit(<<"agent_end">>) \/ Emit(<<"compaction_aborted">>) \/ Emit(<<>>))
      BY <1>5, <2>1, <3>2, EmitWork
    <3> QED
      BY <1>4, <3>1, <3>2
  <2> QED
    BY <1>2, <2>2, OldTurns DEF Over, RecoveryTypeOK
<1>10. CleanTurn'
  <2> SUFFICES ASSUME turn \in clean \ disturbed, phase # "idle" PROVE FALSE
    BY <1>2 DEF CleanTurn
  <2>1. Sent
    BY <1>1 DEF CleanTurn, Fresh, Prepared, Running, Read
  <2> QED
    BY <1>3, <2>1 DEF Sent
<1> QED
  BY <1>7, <1>8, <1>9, <1>10

-----------------------------------------------------------------------------
(* Steps of PiAgent *)

\* A turn that begins with nothing left over is fresh.
LEMMA BeginTurnStep == ASSUME IInv, BeginTurn PROVE IInv'
<1> USE DEF IInv
<1>1. /\ phase \in {"idle", "hung"} /\ turn < MaxTurn /\ turn' = turn + 1
      /\ isProcessing' = TRUE /\ done' = FALSE
      /\ \/ phase' = "setup" /\ subprocess' = "ready"
         \/ phase' = "spawn" /\ subprocess' = "starting"
      /\ UNCHANGED <<overflowState, heldOverflowError, fallbackTimer, stdin, stdout, waiting,
                     executing, doing, attempted, shown, disturbed, stops, exits>>
  BY DEF BeginTurn, adapter, sdk
<1>2. turn \in 0..MaxTurn /\ MaxTurn \in Nat
  BY RecoveryBounds DEF RecoveryTypeOK
<1>3. /\ turn' \in Turn /\ turn' \in 0..MaxTurn
      /\ clean \subseteq clean' /\ clean' \subseteq clean \union {turn'}
      /\ turn' \in clean' \ clean => /\ overflowState = "none" /\ stdin = <<>> /\ stdout = <<>>
                                     /\ waiting = {} /\ doing = "nothing"
  BY <1>1, <1>2 DEF BeginTurn, Turn
<1>4. turn' \notin clean
  BY <1>1, <1>2 DEF CleanPast
<1>5. RecoveryTypeOK'
  BY <1>1, <1>3 DEF RecoveryTypeOK
<1>6. TimerMatchesState' /\ IdleSdk' /\ TurnBegun'
  BY <1>1, <1>3 DEF TimerMatchesState, IdleSdk, TurnBegun
<1>7. CleanPast'
  BY <1>1, <1>2, <1>3 DEF CleanPast, RecoveryTypeOK, Turn
<1>8. AnsweredWhenOver'
  <2>4. phase = "hung" => turn \notin clean \ disturbed
    BY DEF CleanTurn, Fresh, Sent, Prepared, Running
  <2>1. \A t \in clean' \ disturbed' : Over(t)' => t \in clean \ disturbed /\ Over(t)
    BY <1>1, <1>2, <1>3, <1>5, <2>4 DEF Over, RecoveryTypeOK, Turn
  <2>2. \A t \in Turn : UnderWay(t)' => UnderWay(t)
    BY <1>1 DEF UnderWay
  <2>3. clean' \subseteq Turn
    BY <1>5 DEF RecoveryTypeOK
  <2> QED
    BY <1>1, <2>1, <2>2, <2>3, OldTurns
<1>9. CleanTurn'
  BY <1>1, <1>3, <1>4 DEF CleanTurn, Fresh, NothingElse
<1> QED
  BY <1>5, <1>6, <1>7, <1>8, <1>9

\* A line is added to those to the subprocess.
LEMMA SendFacts ==
  ASSUME RecoveryTypeOK, NEW line \in Line, Send(line)
  PROVE  /\ stdin' \in Seq(Line)
         /\ {stdin'[i] : i \in DOMAIN stdin'} \subseteq {stdin[i] : i \in DOMAIN stdin} \union {line}
         /\ subprocess # "none" /\ stdin = <<>> => Len(stdin') = 1 /\ stdin'[1] = line
<1>1. stdin \in Seq(Line)
  BY DEF RecoveryTypeOK, Line
<1>2. CASE subprocess # "none"
  <2>1. stdin' = Append(stdin, line)
    BY <1>2 DEF Send
  <2>2. /\ Append(stdin, line) \in Seq(Line) /\ Len(Append(stdin, line)) = Len(stdin) + 1
        /\ Len(stdin) \in Nat
        /\ \A i \in 1..(Len(stdin) + 1) :
             Append(stdin, line)[i] = IF i <= Len(stdin) THEN stdin[i] ELSE line
    BY <1>1
  <2>3. DOMAIN stdin = 1..Len(stdin) /\ DOMAIN stdin' = 1..(Len(stdin) + 1)
    BY <1>1, <2>1, <2>2, LenProperties
  <2>4. {stdin'[i] : i \in DOMAIN stdin'} \subseteq {stdin[i] : i \in DOMAIN stdin} \union {line}
    BY <2>1, <2>2, <2>3
  <2>5. stdin = <<>> => Len(stdin') = 1 /\ stdin'[1] = line
    BY <2>1, <2>2, EmptySeq
  <2> QED
    BY <2>1, <2>2, <2>4, <2>5
<1>3. CASE subprocess = "none"
  BY <1>1, <1>3 DEF Send
<1> QED
  BY <1>2, <1>3

\* A subprocess that is ready lets the turn go on.
LEMMA SubprocessReadyStep == ASSUME IInv, SubprocessReady PROVE IInv'
<1> USE DEF IInv
<1>1. /\ phase = "spawn" /\ phase' = "setup" /\ subprocess' = "ready"
      /\ UNCHANGED <<overflowState, heldOverflowError, fallbackTimer, turn, isProcessing, done, stdin,
                     stdout, waiting, executing, doing, attempted, shown, clean, disturbed, stops,
                     exits>>
  BY DEF SubprocessReady, adapter, sdk, history
<1>2. RecoveryTypeOK'
  BY <1>1 DEF RecoveryTypeOK
<1>3. TimerMatchesState' /\ IdleSdk' /\ CleanPast' /\ TurnBegun'
  BY <1>1 DEF TimerMatchesState, IdleSdk, CleanPast, TurnBegun
<1>4. AnsweredWhenOver'
  BY <1>1, OldTurns DEF UnderWay, Over, RecoveryTypeOK
<1>5. CleanTurn'
  BY <1>1 DEF CleanTurn, Fresh, Sent, Prepared, Running, NothingElse
<1> QED
  BY <1>2, <1>3, <1>4, <1>5

\* The prompt of a clean turn is all there is.
LEMMA SendPromptStep == ASSUME IInv, SendPrompt PROVE IInv'
<1> DEFINE prompt == [type |-> "prompt", turn |-> turn]
<1> USE DEF IInv
<1>1. /\ phase = "setup" /\ phase' = "drain" /\ Send(prompt)
      /\ UNCHANGED <<overflowState, heldOverflowError, fallbackTimer, turn, isProcessing, done, subprocess,
                     stdout, waiting, executing, doing, attempted, shown, clean, disturbed, stops,
                     exits>>
  BY DEF SendPrompt, adapter, sdk, history
<1>2. turn \in Turn /\ prompt \in Line
  BY <1>1 DEF TurnBegun, Line
<1>3. stdin' \in Seq(Line)
      /\ {stdin'[i] : i \in DOMAIN stdin'} \subseteq {stdin[i] : i \in DOMAIN stdin} \union {prompt}
  BY <1>1, <1>2, SendFacts
<1>4. RecoveryTypeOK'
  BY <1>1, <1>3 DEF RecoveryTypeOK, Line
<1>5. TimerMatchesState' /\ IdleSdk' /\ CleanPast' /\ TurnBegun'
  BY <1>1, <1>2 DEF TimerMatchesState, IdleSdk, CleanPast, TurnBegun
<1>6. AnsweredWhenOver'
  <2> SUFFICES ASSUME NEW t \in clean \ disturbed, Over(t)'
               PROVE  ~UnderWay(t)' /\ shown[t] # {}
    BY <1>1 DEF AnsweredWhenOver
  <2>1. t \in Turn /\ t # turn /\ Over(t)
    BY <1>1, <1>2 DEF Over, RecoveryTypeOK, Turn
  <2>2. ~UnderWay(t) /\ shown[t] # {}
    BY <2>1 DEF AnsweredWhenOver
  <2>3. [type |-> "prompt", turn |-> t] # prompt
    BY <2>1
  <2> QED
    BY <1>1, <1>3, <2>2, <2>3 DEF UnderWay
<1>7. CleanTurn'
  <2> SUFFICES ASSUME turn \in clean \ disturbed PROVE Sent'
    BY <1>1 DEF CleanTurn
  <2>1. Fresh /\ isProcessing = TRUE /\ subprocess # "none"
    BY <1>1 DEF CleanTurn, Fresh, Sent, Prepared, Running
  <2>2. Len(stdin') = 1 /\ stdin'[1] = prompt
    BY <1>1, <1>2, <2>1, SendFacts DEF Fresh
  <2> QED
    BY <1>1, <2>1, <2>2 DEF Fresh, Sent, NothingElse
<1> QED
  BY <1>4, <1>5, <1>6, <1>7

\* A clean turn ends when its run has, and was answered.
LEMMA EndTurnStep == ASSUME IInv, EndTurn PROVE IInv'
<1> USE DEF IInv
<1>1. /\ phase = "drain" /\ done /\ phase' = "idle" /\ isProcessing' = FALSE
      /\ UNCHANGED <<overflowState, heldOverflowError, fallbackTimer, turn, done, subprocess, stdin, stdout,
                     waiting, executing, doing, attempted, shown, clean, disturbed, stops, exits>>
  BY DEF EndTurn, adapter, sdk, history
<1>2. RecoveryTypeOK'
  BY <1>1 DEF RecoveryTypeOK
<1>3. TimerMatchesState' /\ IdleSdk' /\ CleanPast' /\ TurnBegun' /\ CleanTurn'
  BY <1>1 DEF TimerMatchesState, IdleSdk, CleanPast, TurnBegun, CleanTurn
<1>4. AnsweredWhenOver'
  <2> SUFFICES ASSUME NEW t \in clean \ disturbed, Over(t)'
               PROVE  ~UnderWay(t) /\ shown[t] # {}
    BY <1>1 DEF AnsweredWhenOver, UnderWay
  <2>1. CASE Over(t)
    BY <2>1 DEF AnsweredWhenOver
  <2>2. CASE t = turn
    <3>1. stdin = <<>> /\ waiting = {} /\ Running
      BY <1>1, <2>2 DEF CleanTurn, Fresh, Sent, Prepared, Running, NothingElse
    <3>2. PICK n \in Nat, i \in Nat, a \in Outcome, c \in Outcome, b \in Compacted :
            RunAt(n, i, a, b, c)
      BY <3>1 DEF Running
    <3>3. shown[turn] # {} /\ i = n /\ doing = "nothing" /\ executing = {}
      BY <1>1, <3>2 DEF RunAt, CompleteAt, IdleSdk
    <3>4. Len(stdout) = 0
      BY <3>2, <3>3 DEF RunAt, EventsAt
    <3>5. DOMAIN stdout = {} /\ DOMAIN stdin = {}
      BY <3>1, <3>4, LenProperties, EmptySeq DEF RecoveryTypeOK
    <3> QED
      BY <2>2, <3>1, <3>3, <3>5 DEF UnderWay
  <2> QED
    BY <1>1, <2>1, <2>2 DEF Over
<1> QED
  BY <1>2, <1>3, <1>4

\* A turn that is stopped is not clean any more.
LEMMA ForceAbortStep == ASSUME IInv, ForceAbort PROVE IInv'
<1> DEFINE abort == [type |-> "abort"]
<1> USE DEF IInv
<1>1. /\ phase # "idle" /\ stops < MaxStop /\ stops' = stops + 1 /\ Send(abort)
      /\ disturbed' = disturbed \union {turn} /\ isProcessing' = FALSE /\ done' = TRUE
      /\ UNCHANGED <<overflowState, heldOverflowError, fallbackTimer, turn, phase, subprocess, stdout,
                     waiting, executing, doing, attempted, shown, clean, exits>>
  BY DEF ForceAbort, Complete, adapter, sdk
<1>2. abort \in Line /\ turn \in Turn /\ stops' \in 0..MaxStop
  BY <1>1, RecoveryBounds DEF Line, TurnBegun, RecoveryTypeOK
<1>3. stdin' \in Seq(Line)
      /\ {stdin'[i] : i \in DOMAIN stdin'} \subseteq {stdin[i] : i \in DOMAIN stdin} \union {abort}
  BY <1>1, <1>2, SendFacts
<1>4. RecoveryTypeOK'
  BY <1>1, <1>2, <1>3 DEF RecoveryTypeOK, Line
<1>5. TimerMatchesState' /\ IdleSdk' /\ CleanPast' /\ TurnBegun' /\ CleanTurn'
  BY <1>1 DEF TimerMatchesState, IdleSdk, CleanPast, TurnBegun, CleanTurn
<1>6. AnsweredWhenOver'
  <2>1. \A t \in Turn : [type |-> "prompt", turn |-> t] # abort
    <3> TAKE t \in Turn
    <3>1. [type |-> "prompt", turn |-> t].type # abort.type
      OBVIOUS
    <3> QED
      BY <3>1
  <2>2. \A t \in Turn : UnderWay(t)' => UnderWay(t)
    BY <1>1, <1>3, <2>1 DEF UnderWay
  <2> QED
    BY <1>1, <2>2, OldTurns DEF Over, RecoveryTypeOK
<1> QED
  BY <1>4, <1>5, <1>6

\* Nor is one whose subprocess exited; between turns there is none to disturb.
LEMMA HandleSubprocessExitStep == ASSUME IInv, HandleSubprocessExit PROVE IInv'
<1> USE DEF IInv
<1>1. /\ exits < MaxExit /\ exits' = exits + 1 /\ subprocess' = "none" /\ stdin' = <<>>
      /\ stdout' \in {<<>>, stdout} /\ waiting' = {} /\ executing' = {} /\ doing' = "nothing"
      /\ attempted' = FALSE
      /\ phase' = phase \/ (phase = "spawn" /\ phase' \in {"hung", "setup"})
      /\ UNCHANGED <<overflowState, heldOverflowError, fallbackTimer, turn, isProcessing, clean,
                     stops>>
  BY DEF HandleSubprocessExit, adapter
<1>2. \/ isProcessing = FALSE /\ UNCHANGED <<done, shown, disturbed>>
      \/ /\ isProcessing = TRUE /\ done' = TRUE /\ disturbed' = disturbed \union {turn}
         /\ UNCHANGED shown \/ Show("error", {turn})
  BY DEF HandleSubprocessExit, Complete, RecoveryTypeOK
<1>3. /\ shown' \in [Turn -> SUBSET {"answer", "error"}]
      /\ \A t \in Turn : shown[t] # {} => shown'[t] # {}
  BY <1>2, ShowFacts DEF RecoveryTypeOK
<1>4. exits' \in 0..MaxExit /\ (isProcessing = TRUE => turn \in Turn)
  BY <1>1, RecoveryBounds DEF TurnBegun, RecoveryTypeOK
<1>5. stdin' \in Seq(Line) /\ stdout' \in Seq(AnyEvent) /\ DOMAIN stdin' = {}
  <2>1. <<>> \in Seq(Line) /\ <<>> \in Seq(AnyEvent)
    BY EmptySeq
  <2>2. stdout \in Seq(AnyEvent)
    BY DEF RecoveryTypeOK, AnyEvent
  <2>3. DOMAIN <<>> = {}
    OBVIOUS
  <2> QED
    BY <1>1, <2>1, <2>2, <2>3, Zenon
<1>6. RecoveryTypeOK'
  BY <1>1, <1>2, <1>3, <1>4, <1>5 DEF RecoveryTypeOK, Line, AnyEvent
<1>7. TimerMatchesState' /\ IdleSdk' /\ CleanPast' /\ TurnBegun'
  BY <1>1 DEF TimerMatchesState, IdleSdk, CleanPast, TurnBegun
<1>8. CleanTurn'
  BY <1>1, <1>2 DEF CleanTurn, RecoveryTypeOK
<1>9. AnsweredWhenOver'
  <2>1. \A t \in Turn : UnderWay(t)' => UnderWay(t)
    BY <1>1, <1>5 DEF UnderWay
  <2> QED
    BY <1>1, <1>2, <1>3, <2>1, OldTurns DEF Over, RecoveryTypeOK
<1> QED
  BY <1>6, <1>7, <1>8, <1>9

-----------------------------------------------------------------------------
(* Theorems *)

\* Every step keeps the invariant.
LEMMA StepInv == IInv /\ [RecoveryNext]_recoveryVars => IInv'
<1> SUFFICES ASSUME IInv, [RecoveryNext]_recoveryVars PROVE IInv'
  OBVIOUS
<1>1. CASE \/ BeginTurn \/ SubprocessReady \/ SendPrompt \/ EndTurn \/ ForceAbort
           \/ HandleSubprocessExit
  BY <1>1, BeginTurnStep, SubprocessReadyStep, SendPromptStep, EndTurnStep, ForceAbortStep,
     HandleSubprocessExitStep
<1>2. CASE OnEvent \/ FallbackFires
  BY <1>2, OnTextStep, OnErrorEventStep, OnOverflowStep, OnAgentEndStep, OnCompactionStartStep,
     OnCompactionOkStep, OnCompactionFailedStep, OnCompactionAbortedStep, FallbackFiresStep
     DEF OnEvent
<1>3. CASE ReadPrompt \/ ReadAbort \/ \E t \in Turn : StartPrompt(t)
  BY <1>3, ReadPromptStep, ReadAbortStep, StartPromptStep
<1>4. CASE SdkStep
  BY <1>4, RunEndsStep, CheckCompactionStep, CompactionEndsStep DEF SdkStep
<1>5. CASE UNCHANGED recoveryVars
  <2> USE <1>5 DEF recoveryVars, adapter, chat, sdk, history, IInv
  <2>1. RecoveryTypeOK'
    BY DEF RecoveryTypeOK
  <2>2. TimerMatchesState' /\ IdleSdk' /\ CleanPast' /\ TurnBegun'
    BY DEF TimerMatchesState, IdleSdk, CleanPast, TurnBegun
  <2>3. AnsweredWhenOver'
    BY OldTurns DEF UnderWay, Over, RecoveryTypeOK
  <2>4. CleanTurn'
    <3>1. Fresh' = Fresh /\ Sent' = Sent /\ Prepared' = Prepared
      BY DEF Fresh, Sent, Prepared, NothingElse
    <3>2. \A n, i \in Nat, a, c \in Outcome, b \in Compacted :
            RunAt(n, i, a, b, c)' = RunAt(n, i, a, b, c)
      BY DEF RunAt, EventsAt, SdkAt, WaitingAt, CompleteAt
    <3>3. Running' = Running
      BY <3>2 DEF Running
    <3> QED
      BY <3>1, <3>3 DEF CleanTurn
  <2> QED
    BY <2>1, <2>2, <2>3, <2>4
<1> QED
  BY <1>1, <1>2, <1>3, <1>4, <1>5 DEF RecoveryNext

\* The invariant holds in every reachable state.
THEOREM InvariantHolds == RecoverySpec => []IInv
<1> QED
  BY InitInv, StepInv, PTL DEF RecoverySpec

\* Types, and no turn is processing when there is none.
THEOREM TypesCorrect == RecoverySpec => []RecoveryTypeOK
<1>1. IInv => RecoveryTypeOK
  BY DEF IInv
<1> QED
  BY <1>1, InvariantHolds, PTL

\* The fallback timer runs exactly while a compaction is awaited, and an error is
\* held exactly while its recovery is open.
THEOREM TimerFollowsState == RecoverySpec => []TimerMatchesState
<1>1. IInv => TimerMatchesState
  BY DEF IInv
<1> QED
  BY <1>1, InvariantHolds, PTL

\* The events of a run that are not read yet are of the turn.
LEMMA UnreadEvents ==
  ASSUME RecoveryTypeOK, NEW n \in {0, 2, 3, 4, 6}, NEW i \in 0..n, i # n,
         NEW a, NEW b, NEW c, EventsAt(n, i, a, b, c)
  PROVE  \E k \in DOMAIN stdout : turn \in stdout[k].of
<1>1. Len(stdout) = n - i /\ 1 \in 1..(n - i)
  BY DEF EventsAt
<1>2. DOMAIN stdout = 1..(n - i)
  BY <1>1, LenProperties DEF RecoveryTypeOK
<1>3. stdout[1] = [type |-> EmittedType(a, b, c, i + 1), of |-> {turn}]
  BY <1>1 DEF EventsAt
<1> QED
  BY <1>1, <1>2, <1>3

\* The queue of a clean turn is not held open for nothing: while the turn is not over,
\* there is something to come that can end it.
LEMMA CleanTurnsGoOn ==
  ASSUME IInv, NEW t \in clean \ disturbed, ~Over(t)
  PROVE  GoesOn(t)
<1> USE DEF IInv
<1>1. t \in Int /\ turn \in Int /\ t <= turn
  BY RecoveryBounds DEF RecoveryTypeOK, CleanPast, Turn
<1>2. t = turn /\ phase # "idle"
  BY <1>1 DEF Over
<1>3. CASE Fresh
  BY <1>3 DEF Fresh, GoesOn
<1>4. CASE Sent
  <2>1. 1 \in DOMAIN stdin
    BY <1>4, LenProperties DEF Sent, RecoveryTypeOK
  <2> QED
    BY <1>2, <1>4, <2>1 DEF Sent, GoesOn, UnderWay
<1>5. CASE Running /\ done = FALSE
  <2>1. PICK n \in Nat, i \in Nat, a \in Outcome, c \in Outcome, b \in Compacted :
          RunAt(n, i, a, b, c)
    BY <1>5 DEF Running
  <2>2. n \in {0, 2, 3, 4, 6} /\ i \in 0..n
    BY <2>1 DEF RunAt
  <2>3. CASE i # n
    <3>1. \E k \in DOMAIN stdout : turn \in stdout[k].of
      BY <2>1, <2>2, <2>3, UnreadEvents DEF RunAt
    <3> QED
      BY <1>2, <3>1 DEF GoesOn, UnderWay
  <2>4. CASE i = n /\ executing = {turn}
    BY <1>2, <2>4 DEF GoesOn, UnderWay
  <2>5. CASE i = n /\ executing # {turn}
    <3>1. n = 2 /\ overflowState = "awaiting"
      BY <1>5, <2>1, <2>5 DEF RunAt, SdkAt, WaitingAt
    <3> QED
      BY <3>1 DEF TimerMatchesState, GoesOn
  <2> QED
    BY <2>3, <2>4, <2>5
<1>6. CASE Running /\ done
  BY <1>6 DEF GoesOn, Running
<1>7. CASE Prepared
  BY <1>2, <1>7 DEF Prepared, GoesOn, UnderWay
<1> QED
  BY <1>2, <1>3, <1>4, <1>5, <1>6, <1>7 DEF CleanTurn, RecoveryTypeOK

\* A turn that began clean and was not disturbed is not over before its execution
\* is, through every recovery, and was answered or told why not; and while it is not
\* over, something is to come that can end it.
THEOREM CleanTurnsAnswered == RecoverySpec => []AnsweredInTime
<1>1. IInv => AnsweredInTime
  BY CleanTurnsGoOn DEF IInv, AnsweredInTime, AnsweredWhenOver
<1> QED
  BY <1>1, InvariantHolds, PTL

=============================================================================
