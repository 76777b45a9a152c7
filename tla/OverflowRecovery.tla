--------------------------- MODULE OverflowRecovery ---------------------------
(***************************************************************************)
(* How a turn of PiAgent ends, across the context-overflow recovery of the *)
(* SDK: the state machine of PiEventAdapter, the event queue it holds open *)
(* or completes, and the subprocess whose events drive it.                 *)
(*                                                                         *)
(* The SDK reports an overflow and the end of its run, then may compact    *)
(* the context and continue. The adapter keeps the queue open meanwhile,   *)
(* unless nothing follows within its fallback timeout.                     *)
(*                                                                         *)
(* The stages of a turn that SessionTurns models (its place in a session,  *)
(* overlapping loops, lost wake-ups, a child that cannot be spawned) are   *)
(* left out: one turn follows another. An event carries the turns whose    *)
(* prompts its execution serves; the program's events carry no such        *)
(* thing, and only history reads it.                                       *)
(***************************************************************************)
EXTENDS Naturals, Sequences

CONSTANTS
  MaxTurn,     \* bound: turns
  MaxStop,     \* bound: stops by the user
  MaxExit      \* bound: exits of the subprocess

ASSUME RecoveryBounds == MaxTurn \in Nat /\ MaxStop \in Nat /\ MaxExit \in Nat

Turn == 1..MaxTurn

VARIABLES
  \* PiEventAdapter
  overflowState, heldOverflowError, fallbackTimer,
  \* PiAgent and its event queue
  turn,          \* the turns begun; the last one is the current one
  phase,         \* where chatImpl is
  isProcessing,
  done,          \* EventQueue: the queue is complete
  \* pi-agent-server and the SDK
  subprocess, stdin, stdout,
  waiting,       \* the prompts read and not started: they await the SDK's session, or in waitForCompaction
  executing,     \* the turns the SDK's run serves
  doing,         \* what the SDK does
  attempted,     \* it has compacted for this run once
  \* history
  clean,         \* turns begun with nothing left over from an earlier one
  disturbed,     \* turns stopped, or whose subprocess exited
  shown,         \* what each turn got of its own execution
  stops, exits

adapter == <<overflowState, heldOverflowError, fallbackTimer>>
chat == <<turn, phase, isProcessing>>
sdk == <<waiting, executing, doing, attempted>>
history == <<clean, disturbed, stops, exits>>
recoveryVars == <<adapter, chat, done, subprocess, stdin, stdout, sdk, shown, history>>

Event(type) == [type : {type}, of : SUBSET Turn]
EventType == {"text", "error", "overflow", "agent_end", "compaction_start", "compaction_ok",
              "compaction_failed", "compaction_aborted"}

\* The types of the variables; and no turn is processing when there is none.
RecoveryTypeOK ==
  /\ overflowState \in {"none", "held", "awaiting", "compacting", "recovering"}
  /\ heldOverflowError \in BOOLEAN /\ fallbackTimer \in BOOLEAN
  /\ turn \in 0..MaxTurn /\ phase \in {"idle", "spawn", "setup", "drain", "hung"}
  /\ isProcessing \in BOOLEAN /\ done \in BOOLEAN /\ subprocess \in {"none", "starting", "ready"}
  /\ isProcessing => phase # "idle"
  /\ stdin \in Seq([type : {"prompt"}, turn : Turn] \union [type : {"abort"}])
  /\ stdout \in Seq(UNION {Event(type) : type \in EventType})
  /\ waiting \subseteq Turn /\ executing \subseteq Turn
  /\ doing \in {"nothing", "streaming", "checking", "compacting"} /\ attempted \in BOOLEAN
  /\ clean \subseteq Turn /\ disturbed \subseteq Turn
  /\ shown \in [Turn -> SUBSET {"answer", "error"}]
  /\ stops \in 0..MaxStop /\ exits \in 0..MaxExit

RecoveryInit ==
  /\ overflowState = "none" /\ heldOverflowError = FALSE /\ fallbackTimer = FALSE
  /\ turn = 0 /\ phase = "idle" /\ isProcessing = FALSE /\ done = FALSE
  /\ subprocess = "none" /\ stdin = <<>> /\ stdout = <<>>
  /\ waiting = {} /\ executing = {} /\ doing = "nothing" /\ attempted = FALSE
  /\ clean = {} /\ disturbed = {} /\ shown = [t \in Turn |-> {}]
  /\ stops = 0 /\ exits = 0

-----------------------------------------------------------------------------
(* PiAgent: chatImpl, forceAbort *)

Send(line) == stdin' = IF subprocess # "none" THEN Append(stdin, line) ELSE stdin

\* What the current turn gets of its own execution. Between turns, and when a turn
\* hangs, an event stays in the queue, which the next turn empties.
Show(what, of) ==
  shown' = IF phase \notin {"idle", "hung"} /\ turn \in of
             THEN [shown EXCEPT ![turn] = @ \union {what}] ELSE shown

\* chatImpl up to ensureSubprocess: the queue is reset, and a subprocess is there that
\* is ready, or whose ready promise is awaited. A turn that hung is left behind, once
\* the user has stopped it.
BeginTurn ==
  /\ phase = "idle" \/ (phase = "hung" /\ ~isProcessing)
  /\ turn < MaxTurn
  /\ turn' = turn + 1
  /\ isProcessing' = TRUE /\ done' = FALSE
  /\ IF subprocess = "ready"
       THEN phase' = "setup" /\ UNCHANGED subprocess
       ELSE phase' = "spawn" /\ subprocess' = "starting"
  /\ clean' = IF overflowState = "none" /\ stdin = <<>> /\ stdout = <<>>
                   /\ waiting = {} /\ doing = "nothing"
                THEN clean \union {turn + 1} ELSE clean
  /\ UNCHANGED <<adapter, stdin, stdout, sdk, shown, disturbed, stops, exits>>

\* The subprocess reports that it is ready.
SubprocessReady ==
  /\ phase = "spawn" /\ subprocess = "starting"
  /\ subprocess' = "ready"
  /\ phase' = "setup"
  /\ UNCHANGED <<adapter, turn, isProcessing, done, stdin, stdout, sdk, shown, history>>

SendPrompt ==
  /\ phase = "setup"
  /\ phase' = "drain"
  /\ Send([type |-> "prompt", turn |-> turn])
  /\ UNCHANGED <<adapter, turn, isProcessing, done, subprocess, stdout, sdk, shown, history>>

\* Mutant: the end of chatImpl leaves the agent processing.
EndTurnProcessing ==
  /\ phase = "drain" /\ done
  /\ phase' = "idle"
  /\ UNCHANGED <<adapter, turn, isProcessing, done, subprocess, stdin, stdout, sdk, shown, history>>
\* The consumer has drained a complete queue.
EndTurn ==
  /\ phase = "drain" /\ done
  /\ phase' = "idle"
  /\ isProcessing' = FALSE
  /\ UNCHANGED <<adapter, turn, done, subprocess, stdin, stdout, sdk, shown, history>>

\* EventQueue.complete.
Complete == done' = TRUE

\* forceAbort, for a stop by the user. The adapter is not told.
ForceAbort ==
  /\ phase # "idle" /\ isProcessing /\ stops < MaxStop
  /\ stops' = stops + 1
  /\ disturbed' = disturbed \union {turn}
  /\ isProcessing' = FALSE
  /\ Complete
  /\ Send([type |-> "abort"])
  /\ UNCHANGED <<adapter, turn, phase, subprocess, stdout, sdk, shown, clean, exits>>

\* handleSubprocessExit. The adapter is not told. What the subprocess had written may
\* still be read. The ready promise is dropped, and settled by nobody: a turn that
\* awaits it hangs, unless it has not come to its await yet and finds none.
HandleSubprocessExit ==
  /\ subprocess # "none" /\ exits < MaxExit
  /\ exits' = exits + 1
  /\ subprocess' = "none"
  /\ phase' \in IF phase = "spawn" THEN {"hung", "setup"} ELSE {phase}
  /\ stdin' = <<>> /\ stdout' \in {<<>>, stdout}
  /\ waiting' = {} /\ executing' = {} /\ doing' = "nothing" /\ attempted' = FALSE
  /\ IF isProcessing
       THEN /\ Complete /\ disturbed' = disturbed \union {turn}
            /\ IF phase' = "hung" THEN UNCHANGED shown ELSE Show("error", {turn})
       ELSE UNCHANGED <<done, shown, disturbed>>
  /\ UNCHANGED <<adapter, turn, isProcessing, clean, stops>>

-----------------------------------------------------------------------------
(* PiEventAdapter: an event of the subprocess *)

Receive(type) ==
  /\ stdout # <<>> /\ Head(stdout).type = type
  /\ stdout' = Tail(stdout)
  /\ UNCHANGED <<chat, subprocess, stdin, sdk, history>>
Of == Head(stdout).of

OnText ==
  /\ Receive("text")
  /\ Show("answer", Of)
  /\ UNCHANGED <<adapter, done>>

OnErrorEvent ==
  /\ Receive("error")
  /\ Show("error", Of)
  /\ UNCHANGED <<adapter, done>>

\* The first overflow of a turn is held back, a second one is an error.
OnOverflow ==
  /\ Receive("overflow")
  /\ IF overflowState = "none"
       THEN /\ overflowState' = "held" /\ heldOverflowError' = TRUE
            /\ UNCHANGED shown
       ELSE /\ Show("error", Of)
            /\ UNCHANGED <<overflowState, heldOverflowError>>
  /\ UNCHANGED <<fallbackTimer, done>>

\* Mutant: the end of a run ends the turn, whatever is to follow.
KeepsOpenNever == FALSE
KeepsOpen == overflowState \in {"held", "awaiting", "compacting"}

\* Mutant: no fallback for an SDK that does not compact.
ArmFallbackTimerNot == UNCHANGED fallbackTimer
ArmFallbackTimer == fallbackTimer' = TRUE

OnAgentEnd ==
  /\ Receive("agent_end")
  /\ \/ /\ KeepsOpen
        /\ IF overflowState = "held"
             THEN overflowState' = "awaiting" /\ ArmFallbackTimer
             ELSE UNCHANGED <<overflowState, fallbackTimer>>
        /\ UNCHANGED done
     \/ /\ ~KeepsOpen
        /\ overflowState' = "none"
        /\ Complete
        /\ UNCHANGED fallbackTimer
  /\ UNCHANGED <<heldOverflowError, shown>>

\* Mutant: the fallback timer runs on while the SDK compacts.
KeepFallbackTimer == UNCHANGED fallbackTimer
CancelFallbackTimer == fallbackTimer' = FALSE

OnCompactionStart ==
  /\ Receive("compaction_start")
  /\ IF overflowState \in {"held", "awaiting"}
       THEN overflowState' = "compacting" /\ CancelFallbackTimer
       ELSE UNCHANGED <<overflowState, fallbackTimer>>
  /\ UNCHANGED <<heldOverflowError, done, shown>>

OnCompactionOk ==
  /\ Receive("compaction_ok")
  /\ IF overflowState = "compacting"
       THEN overflowState' = "recovering" /\ heldOverflowError' = FALSE
       ELSE UNCHANGED <<overflowState, heldOverflowError>>
  /\ UNCHANGED <<fallbackTimer, done, shown>>

OnCompactionFailed ==
  /\ Receive("compaction_failed")
  /\ Show("error", Of)
  /\ IF overflowState \in {"compacting", "awaiting", "held"}
       THEN /\ overflowState' = "none" /\ heldOverflowError' = FALSE
            /\ CancelFallbackTimer /\ Complete
       ELSE UNCHANGED <<adapter, done>>

\* A compaction that was aborted has neither a result nor an error.
OnCompactionAborted ==
  /\ Receive("compaction_aborted")
  /\ UNCHANGED <<adapter, done, shown>>

\* Mutant: the queue is completed without the error that was held back.
ReportHeldNot == UNCHANGED shown
ReportHeld == Show("error", {turn})

\* The timer fires when the SDK did not compact: it is slower than the SDK's
\* decision and its event.
FallbackFires ==
  /\ fallbackTimer /\ overflowState = "awaiting"
  /\ doing # "checking"
  /\ \A i \in DOMAIN stdout : stdout[i].type # "compaction_start"
  /\ fallbackTimer' = FALSE
  /\ overflowState' = "none" /\ heldOverflowError' = FALSE
  /\ ReportHeld
  /\ Complete
  /\ UNCHANGED <<chat, subprocess, stdin, stdout, sdk, history>>

-----------------------------------------------------------------------------
(* The subprocess: handlePrompt, waitForCompaction, handleAbort, the SDK *)

Emit(types) ==
  stdout' = stdout \o [i \in DOMAIN types |-> [type |-> types[i], of |-> executing]]

Read(type) ==
  /\ stdin # <<>> /\ Head(stdin).type = type
  /\ stdin' = Tail(stdin)
  /\ UNCHANGED <<adapter, chat, done, subprocess, shown, history>>

\* handlePrompt, up to its awaits.
ReadPrompt ==
  /\ Read("prompt")
  /\ waiting' = waiting \union {Head(stdin).turn}
  /\ UNCHANGED <<stdout, executing, doing, attempted>>

\* It has its session, and its polling finds no compaction under way: session.prompt
\* starts a run, or follows up the one there is. (The timeout of waitForCompaction,
\* 300 s, is taken to be longer than any compaction.)
StartPrompt(t) ==
  /\ t \in waiting /\ doing \in {"nothing", "streaming"}
  /\ waiting' = waiting \ {t}
  /\ executing' = executing \union {t}
  /\ doing' = "streaming"
  /\ attempted' = (attempted /\ doing = "streaming")
  /\ UNCHANGED <<adapter, chat, done, subprocess, stdin, stdout, shown, history>>

\* handleAbort: a run ends at once; a compaction ends, or goes on.
ReadAbort ==
  /\ Read("abort")
  /\ \/ /\ doing = "streaming"
        /\ Emit(<<"agent_end">>)
        /\ executing' = {} /\ doing' = "nothing" /\ UNCHANGED <<waiting, attempted>>
     \/ /\ doing \in {"checking", "compacting"}
        /\ Emit(IF doing = "compacting" THEN <<"compaction_aborted">> ELSE <<>>)
        /\ executing' = {} /\ doing' = "nothing" /\ UNCHANGED <<waiting, attempted>>
     \/ doing # "streaming" /\ UNCHANGED <<stdout, sdk>>

SdkRun(from, types, to) ==
  /\ doing = from
  /\ Emit(types)
  /\ doing' = to
  /\ executing' = IF to = "nothing" THEN {} ELSE executing
  /\ UNCHANGED <<adapter, chat, done, subprocess, stdin, waiting, shown, history>>

\* A run answers, fails (handlePrompt adds the end of the run), or overflows.
RunEnds ==
  /\ UNCHANGED attempted
  /\ \/ SdkRun("streaming", <<"text", "agent_end">>, "nothing")
     \/ SdkRun("streaming", <<"error", "agent_end">>, "nothing")
     \/ SdkRun("streaming", <<"overflow", "agent_end">>, IF attempted THEN "nothing" ELSE "checking")

\* Recovery is tried once for a run, if the SDK's settings have it at all.
CheckCompaction ==
  \/ attempted' = TRUE /\ SdkRun("checking", <<"compaction_start">>, "compacting")
  \/ UNCHANGED attempted /\ SdkRun("checking", <<>>, "nothing")

CompactionEnds ==
  /\ UNCHANGED attempted
  /\ \/ SdkRun("compacting", <<"compaction_ok">>, "streaming")
     \/ SdkRun("compacting", <<"compaction_failed">>, "nothing")

-----------------------------------------------------------------------------
OnEvent ==
  \/ OnText \/ OnErrorEvent \/ OnOverflow \/ OnAgentEnd
  \/ OnCompactionStart \/ OnCompactionOk \/ OnCompactionFailed \/ OnCompactionAborted
SdkStep == RunEnds \/ CheckCompaction \/ CompactionEnds

RecoveryNext ==
  \/ BeginTurn \/ SubprocessReady \/ SendPrompt \/ EndTurn \/ ForceAbort
  \/ HandleSubprocessExit
  \/ OnEvent \/ FallbackFires
  \/ ReadPrompt \/ ReadAbort \/ (\E t \in Turn : StartPrompt(t))
  \/ SdkStep

\* A subprocess reports that it is ready, or exits; the set-up of a turn and its
\* consumer get on, the timer fires, lines are read, and the SDK ends what it does.
\* Nobody has to send a message or to stop a turn.
RecoveryFairness ==
  /\ WF_recoveryVars(SubprocessReady)
  /\ WF_recoveryVars(SendPrompt) /\ WF_recoveryVars(EndTurn)
  /\ WF_recoveryVars(OnEvent) /\ WF_recoveryVars(FallbackFires)
  /\ WF_recoveryVars(ReadPrompt \/ ReadAbort)
  /\ \A t \in Turn : WF_recoveryVars(StartPrompt(t))
  /\ WF_recoveryVars(SdkStep)

RecoverySpec == RecoveryInit /\ [][RecoveryNext]_recoveryVars /\ RecoveryFairness

-----------------------------------------------------------------------------
(* Properties *)

Over(t) == turn > t \/ (turn = t /\ phase = "idle")

\* Something of the execution of t is still to come.
UnderWay(t) ==
  \/ [type |-> "prompt", turn |-> t] \in {stdin[i] : i \in DOMAIN stdin}
  \/ t \in waiting \union executing
  \/ \E i \in DOMAIN stdout : t \in stdout[i].of

\* The turn waits for a subprocess that exited before it was ready, which is for ever.
Hangs(t) == turn = t /\ phase = "hung"

\* A turn is still to come to its end: its subprocess is to be ready, its prompt is to
\* be sent, its queue is complete, something of its execution is to come, or the
\* fallback timer runs.
GoesOn(t) ==
  \/ phase = "spawn" /\ subprocess = "starting"
  \/ phase = "setup"
  \/ phase # "hung" /\ done
  \/ UnderWay(t) \/ fallbackTimer

\* "If we [...] call eventQueue.complete() on the original agent_end, the recovered
\* turn lands in a closed iterator": a turn that began clean, and was not stopped,
\* is not over before its execution is, retries after a compaction included; and it
\* was answered, or told why not: no error stays held back. Nor is its queue held
\* open when nothing is to come that could complete it.
AnsweredInTime ==
  \A t \in clean \ disturbed :
    /\ Over(t) => ~UnderWay(t) /\ shown[t] # {}
    /\ ~Over(t) => GoesOn(t)

\* The fallback timer runs only while the adapter waits for a compaction, and an
\* error is held back from the overflow until its recovery succeeds or fails.
TimerMatchesState ==
  /\ fallbackTimer <=> overflowState = "awaiting"
  /\ heldOverflowError <=> overflowState \in {"held", "awaiting", "compacting"}

\* A turn that began clean ends, and so does one that was stopped or lost its
\* subprocess; but for one whose subprocess exited before it was ready.
CleanTurnsEnd ==
  \A t \in Turn : t \in clean \union disturbed /\ turn = t ~> Over(t) \/ Hangs(t)

\* "With overflow recovery we defer completion until the recovered turn finishes
\* (or recovery fails / times out)": every turn ends. The code does not keep this:
\* a stop leaves the adapter in its recovery, and the next turn waits for its end.
EveryTurnEnds == \A t \in Turn : turn = t ~> Over(t)
=============================================================================
