----------------------------- MODULE SessionTurns -----------------------------
(***************************************************************************)
(* The turns of a session: SessionManager's sendMessage, runTurn,          *)
(* processNextQueuedMessage and cancelProcessing, the PiAgent they drive   *)
(* with its event queue, and the pi-agent-server subprocess behind it.     *)
(*                                                                         *)
(* Each message is a process of its own: the call of sendMessage that      *)
(* brought it, which may run a turn. An action is the code from one await  *)
(* to the next. step says what the call awaits; the calls that await       *)
(* flushSession stand in the queue flushing, since the persistence queue   *)
(* settles the writes of one session in the order they were scheduled.     *)
(*                                                                         *)
(* Titles, the transcript's content, tool calls and permissions are left   *)
(* out. What the SDK inside the subprocess does is nondeterministic. The   *)
(* subprocess is one: a chat that comes while another's is not spawned yet *)
(* would spawn a second one, which here it shares.                         *)
(***************************************************************************)
EXTENDS Naturals, Sequences

CONSTANTS
  MaxMessage,    \* bound: messages sent
  MaxRequest,    \* bound: model calls of the subprocess
  MaxCancel,     \* bound: stops by the user
  MaxExit        \* bound: exits of the subprocess, and failures of turns, spawns and prompts

ASSUME TurnBounds ==
  /\ MaxMessage \in Nat /\ MaxRequest \in Nat /\ MaxCancel \in Nat /\ MaxExit \in Nat

Msg == 1..MaxMessage
None == 0

\* What the call that brought a message awaits. "lost" is a wait for an event
\* whose resolver was dropped, "hung" one for a subprocess whose ready promise
\* nothing settles.
Step == {"unsent", "steered", "queued", "accept", "open", "agent", "spawn", "setup", "drain", "wait",
         "request", "ended", "lost", "hung", "close", "over"}
InChat == {"spawn", "setup", "drain", "wait", "request", "ended", "lost"}
\* The turns under way. One that hung is not: it will do nothing any more.
InTurn == {"open", "agent"} \union InChat

VARIABLES
  step,
  flushing,            \* the calls that await flushSession
  \* ManagedSession
  isProcessing,
  activeRun, abortRequested,
  assembledSelection,  \* the message whose turn assembled it, or None
  messageQueue,
  status,              \* of the run of each message
  failed,              \* the turns whose stopReason is 'error'
  agent,               \* an agent exists
  \* PiAgent
  agentProcessing,     \* _isProcessing
  events, done,        \* EventQueue: queue, done
  \* the subprocess
  subprocess,          \* "failed": it is there, and will never report that it is ready
  stdin, stdout,
  preparing,           \* the number of prompts read and not started
  executing,           \* an execution is under way
  \* history
  runs,                \* the number of runs begun for each message
  patient,             \* the user acted only when no call was between two awaits (see Settled)
  requests, cancels, exits

turnState == <<isProcessing, activeRun, abortRequested, assembledSelection, status, failed,
               agent, runs>>
agentVars == <<agentProcessing, events, done>>
subprocessVars == <<subprocess, stdin, stdout, preparing, executing>>
boundVars == <<requests, cancels, exits>>
historyVars == <<patient, boundVars>>
turnVars == <<step, flushing, turnState, messageQueue, agentVars, subprocessVars, historyVars>>

TurnsTypeOK ==
  /\ step \in [Msg -> Step]
  /\ flushing \in Seq([msg : Msg, at : {"ack", "accept", "open", "request", "close"}])
  /\ isProcessing \in BOOLEAN
  /\ activeRun \in Msg \union {None} /\ abortRequested \in BOOLEAN
  /\ assembledSelection \in Msg \union {None}
  /\ messageQueue \in Seq(Msg)
  /\ status \in [Msg -> {"none", "running", "completed", "error", "aborted"}]
  /\ failed \in SUBSET Msg
  /\ agent \in BOOLEAN /\ agentProcessing \in BOOLEAN
  /\ events \in Seq({"request", "error"}) /\ done \in BOOLEAN
  /\ subprocess \in {"none", "starting", "ready", "failed"}
  /\ stdin \in Seq({"prompt", "steer", "abort"})
  /\ stdout \in Seq({"request", "error", "end"})
  /\ preparing \in Nat /\ executing \in BOOLEAN
  /\ runs \in [Msg -> Nat]
  /\ patient \in BOOLEAN
  /\ requests \in Nat /\ cancels \in Nat /\ exits \in Nat

TurnsInit ==
  /\ step = [m \in Msg |-> "unsent"] /\ flushing = <<>>
  /\ isProcessing = FALSE /\ activeRun = None /\ abortRequested = FALSE
  /\ assembledSelection = None /\ messageQueue = <<>>
  /\ status = [m \in Msg |-> "none"] /\ failed = {}
  /\ agent = FALSE /\ agentProcessing = FALSE
  /\ events = <<>> /\ done = FALSE
  /\ subprocess = "none" /\ stdin = <<>> /\ stdout = <<>> /\ preparing = 0 /\ executing = FALSE
  /\ runs = [m \in Msg |-> 0] /\ patient = TRUE
  /\ requests = 0 /\ cancels = 0 /\ exits = 0

\* A consumer that may go on does so before the event loop turns to anything else.
Consuming == {m \in Msg : step[m] \in {"drain", "ended"}}
EventLoop == Consuming = {}

-----------------------------------------------------------------------------
(* PiAgent and its event queue, with the calls as they are in s *)

\* Mutant: a signal that wakes nobody.
SignalLost(s, next) == s

\* EventQueue.signal: the consumers that wait go on.
Signal(s, next) == [m \in Msg |-> IF s[m] = "wait" THEN next ELSE s[m]]

\* EventQueue.reset: the resolvers are dropped with the events.
Reset(s) ==
  /\ events' = <<>> /\ done' = FALSE
  /\ step' = Signal(s, "lost")

\* The subprocess reads its lines.
Running == subprocess \in {"starting", "ready"}

\* send.
SendLine(line) == stdin' = IF Running THEN Append(stdin, line) ELSE stdin

\* forceAbort: the queue completes, and the subprocess is told.
ForceAbort(s) ==
  /\ agentProcessing' = FALSE
  /\ done' = TRUE
  /\ step' = Signal(s, "ended")
  /\ SendLine("abort")
  /\ UNCHANGED events

-----------------------------------------------------------------------------
(* sendMessage and runTurn *)

FlushAt(f, m, at) == Append(f, [msg |-> m, at |-> at])

\* Mutants: a queue that is pushed at its head, and one that is read and not shifted.
PushFirst(q, m) == <<m>> \o q
Peek(q) == q

\* messageQueue.push and shift.
Push(q, m) == Append(q, m)
Shift(q) == Tail(q)

\* sendMessage up to its first await, with the calls in s, the flushes in f and
\* the queue q. While a turn runs, the message is redirected to the agent, which
\* steers it into the stream, or aborts and leaves it to the queue.
Deliver(m, s, f, q) ==
  \/ /\ ~isProcessing
     /\ step' = [s EXCEPT ![m] = "accept"]
     /\ flushing' = FlushAt(f, m, "accept")
     /\ messageQueue' = q
     /\ UNCHANGED <<agentVars, stdin>>
  \/ /\ isProcessing /\ agent /\ agentProcessing /\ subprocess # "none"
     /\ step' = [s EXCEPT ![m] = "steered"]
     /\ flushing' = FlushAt(f, m, "ack")
     /\ messageQueue' = q
     /\ SendLine("steer")
     /\ UNCHANGED agentVars
  \/ /\ isProcessing /\ agent /\ ~(agentProcessing /\ subprocess # "none")
     /\ flushing' = FlushAt(f, m, "ack")
     /\ messageQueue' = Push(q, m)
     /\ ForceAbort([s EXCEPT ![m] = "queued"])
  \/ /\ isProcessing /\ ~agent
     /\ step' = [s EXCEPT ![m] = "queued"]
     /\ flushing' = FlushAt(f, m, "ack")
     /\ messageQueue' = Push(q, m)
     /\ UNCHANGED <<agentVars, stdin>>

\* No call is between its check of isProcessing and its turn, or between its
\* turn and its end, and isProcessing says whether there is a turn, if only one
\* that hung.
Settled ==
  /\ \A m \in Msg : step[m] \notin {"accept", "close"} /\ (step[m] \in InTurn => isProcessing)
  /\ isProcessing => \E m \in Msg : step[m] \in InTurn \union {"hung"}

Send(m) ==
  /\ EventLoop
  /\ step[m] = "unsent" /\ (m > 1 => step[m - 1] # "unsent")
  /\ Deliver(m, step, flushing, messageQueue)
  /\ patient' = (patient /\ Settled)
  /\ UNCHANGED <<turnState, subprocess, stdout, preparing, executing, boundVars>>

\* runTurn up to the flush that opens the run.
RunTurn(m) ==
  /\ assembledSelection' = m
  /\ isProcessing' = TRUE
  /\ activeRun' = m /\ abortRequested' = FALSE
  /\ status' = [status EXCEPT ![m] = "running"]
  /\ runs' = [runs EXCEPT ![m] = @ + 1]
  /\ step' = [step EXCEPT ![m] = "open"]
  /\ flushing' = FlushAt(Tail(flushing), m, "open")
  /\ UNCHANGED <<failed, agent, messageQueue, agentVars, stdin>>

\* Mutant: a turn that failed leaves the queue alone.
ProcessNextUnlessFailed(m) ==
  LET over == [step EXCEPT ![m] = "over"]
  IN /\ IF messageQueue = <<>> \/ status[m] = "error"
        THEN /\ step' = over /\ flushing' = Tail(flushing)
             /\ UNCHANGED <<messageQueue, agentVars, stdin>>
        ELSE Deliver(Head(messageQueue), over, Tail(flushing), Shift(messageQueue))
     /\ UNCHANGED turnState

\* The end of runTurn: processNextQueuedMessage.
ProcessNext(m) ==
  LET over == [step EXCEPT ![m] = "over"]
  IN /\ IF messageQueue = <<>>
        THEN /\ step' = over /\ flushing' = Tail(flushing)
             /\ UNCHANGED <<messageQueue, agentVars, stdin>>
        ELSE Deliver(Head(messageQueue), over, Tail(flushing), Shift(messageQueue))
     /\ UNCHANGED turnState

\* The write that the first call in line awaits has settled, and the call goes on.
FlushSettles ==
  /\ EventLoop /\ flushing # <<>>
  /\ LET m == Head(flushing).msg
         at == Head(flushing).at
         Goes(s) == /\ step' = s /\ flushing' = Tail(flushing)
                    /\ UNCHANGED <<turnState, messageQueue, agentVars, stdin>>
     IN \/ at = "ack" /\ Goes(step)
        \/ at = "accept" /\ RunTurn(m)
        \/ at = "open" /\ Goes([step EXCEPT ![m] = "agent"])
        \/ at = "request" /\ Goes([step EXCEPT ![m] = "drain"])
        \/ at = "close" /\ ProcessNext(m)
  /\ UNCHANGED <<subprocess, stdout, preparing, executing, historyVars>>

\* getOrCreateAgent is back: chat begins, up to ensureSubprocess, which awaits the
\* credentials to spawn with, or the ready promise there is; or goes on. A
\* subprocess that failed is still there, and so is its promise.
Chat(m) ==
  /\ EventLoop /\ step[m] = "agent"
  /\ agent' = TRUE
  /\ agentProcessing' = TRUE
  /\ Reset([step EXCEPT ![m] = CASE subprocess = "ready" -> "setup"
                                 [] subprocess = "failed" -> "hung"
                                 [] OTHER -> "spawn"])
  /\ UNCHANGED <<flushing, isProcessing, activeRun, abortRequested, assembledSelection,
                 messageQueue, status, failed, runs, subprocessVars, historyVars>>

\* spawnSubprocess has its credentials: the child is there, and gets its init.
Spawn ==
  /\ EventLoop /\ subprocess = "none" /\ \E m \in Msg : step[m] = "spawn"
  /\ subprocess' = "starting"
  /\ UNCHANGED <<step, flushing, turnState, messageQueue, agentVars, stdin, stdout, preparing,
                 executing, historyVars>>

\* The calls that await the ready promise go on, or for ever wait.
Awaken(s, next) == [m \in Msg |-> IF s[m] = "spawn" THEN next ELSE s[m]]

\* The line "ready" resolves the promise.
SubprocessReady ==
  /\ EventLoop /\ subprocess = "starting"
  /\ subprocess' = "ready"
  /\ step' = Awaken(step, "setup")
  /\ UNCHANGED <<flushing, turnState, messageQueue, agentVars, stdin, stdout, preparing,
                 executing, historyVars>>

\* What chatImpl awaits once the subprocess is ready has come back, and with a
\* timeout if need be: the prompt is sent, and the queue drained.
Prompt(m) ==
  /\ EventLoop /\ step[m] = "setup"
  /\ step' = [step EXCEPT ![m] = "drain"]
  /\ SendLine("prompt")
  /\ UNCHANGED <<flushing, turnState, messageQueue, agentVars, subprocess, stdout, preparing,
                 executing, historyVars>>

\* Mutants: the stop reason taken for the status, and a stopped run left as it is.
StopReason(error) == IF error THEN "error" ELSE "complete"
SettleUnlessStopped(error) ==
  IF activeRun = None \/ status[activeRun] # "running" \/ abortRequested THEN status
  ELSE [status EXCEPT ![activeRun] = IF error THEN "error" ELSE "completed"]

\* settleRun: whatever run is active gets its outcome, if it has none.
Outcome(error) == IF error THEN "error" ELSE IF abortRequested THEN "aborted" ELSE "completed"
SettleRun(error) ==
  IF activeRun = None \/ status[activeRun] # "running" THEN status
  ELSE [status EXCEPT ![activeRun] = Outcome(error)]

\* The finally of runTurn, up to its flush, with the calls in s.
EndTurn(m, s, error) ==
  /\ step' = [s EXCEPT ![m] = "close"]
  /\ flushing' = FlushAt(flushing, m, "close")
  /\ status' = SettleRun(error)
  /\ activeRun' = None /\ abortRequested' = FALSE
  /\ isProcessing' = FALSE
  /\ assembledSelection' = None
  /\ UNCHANGED <<agent, runs, messageQueue, events, done, stdin, stdout, preparing, executing>>

\* There is no agent, the set-up of the subprocess throws, or what follows it
\* does: the turn ends with an error. What chat had begun, its finally undoes. A
\* child that was spawned and not given its init stays, and is never ready.
FailTurn(m) ==
  /\ EventLoop /\ step[m] \in {"agent", "spawn", "setup"} /\ exits < MaxExit
  /\ exits' = exits + 1
  /\ agentProcessing' = (agentProcessing /\ step[m] = "agent")
  /\ IF step[m] = "spawn" /\ subprocess = "starting"
     THEN subprocess' = "failed" /\ EndTurn(m, Awaken(step, "hung"), TRUE)
     ELSE UNCHANGED subprocess /\ EndTurn(m, step, TRUE)
  /\ UNCHANGED <<failed, patient, requests, cancels>>

\* The loop takes an event, or finds that there is none left, or waits. A model
\* call that closed is a commit barrier.
Drain(m) ==
  /\ step[m] = "drain"
  /\ \/ /\ events # <<>> /\ Head(events) = "request"
        /\ events' = Tail(events)
        /\ step' = [step EXCEPT ![m] = "request"]
        /\ flushing' = FlushAt(flushing, m, "request")
        /\ UNCHANGED failed
     \/ /\ events # <<>> /\ Head(events) = "error"
        /\ events' = Tail(events)
        /\ failed' = failed \union {m}
        /\ UNCHANGED <<step, flushing>>
     \/ /\ events = <<>>
        /\ step' = [step EXCEPT ![m] = IF done THEN "ended" ELSE "wait"]
        /\ UNCHANGED <<events, flushing, failed>>
  /\ UNCHANGED <<isProcessing, activeRun, abortRequested, assembledSelection, messageQueue,
                 status, agent, runs, agentProcessing, done, subprocessVars, historyVars>>

\* The loop is over: the finally of chatImpl, then that of runTurn.
Unwind(m) ==
  /\ step[m] = "ended"
  /\ agentProcessing' = FALSE
  /\ EndTurn(m, step, m \in failed)
  /\ UNCHANGED <<failed, subprocess, historyVars>>

\* Mutant: a stop that releases the selection, while the turn still unwinds.
CancelAndRelease ==
  /\ EventLoop
  /\ patient' = (patient /\ Settled)
  /\ agent /\ isProcessing /\ cancels < MaxCancel
  /\ cancels' = cancels + 1
  /\ abortRequested' = (activeRun # None)
  /\ ForceAbort(step)
  /\ isProcessing' = FALSE /\ assembledSelection' = None
  /\ UNCHANGED <<flushing, activeRun, messageQueue, status, failed, agent, runs, subprocess,
                 stdout, preparing, executing, requests, exits>>

\* cancelProcessing.
CancelProcessing ==
  /\ EventLoop
  /\ patient' = (patient /\ Settled)
  /\ agent /\ isProcessing /\ cancels < MaxCancel
  /\ cancels' = cancels + 1
  /\ abortRequested' = (activeRun # None)
  /\ ForceAbort(step)
  /\ isProcessing' = FALSE
  /\ UNCHANGED <<flushing, activeRun, assembledSelection, messageQueue, status, failed, agent,
                 runs, subprocess, stdout, preparing, executing, requests, exits>>

-----------------------------------------------------------------------------
(* The subprocess *)

\* A line of its output reaches handleLine.
HandleSubprocessEvent ==
  /\ EventLoop /\ stdout # <<>>
  /\ stdout' = Tail(stdout)
  /\ step' = Signal(step, "drain")
  /\ IF Head(stdout) = "end"
     THEN done' = TRUE /\ UNCHANGED events
     ELSE events' = Append(events, Head(stdout)) /\ UNCHANGED done
  /\ UNCHANGED <<flushing, turnState, messageQueue, agentProcessing, subprocess, stdin, preparing,
                 executing, historyVars>>

\* handleSubprocessExit. It drops the ready promise, which nothing settles then. The
\* call n that spawned the child may not have come to its await of it yet: it finds
\* none, and goes on.
HandleSubprocessExit ==
  /\ EventLoop /\ subprocess # "none" /\ exits < MaxExit
  /\ exits' = exits + 1
  /\ subprocess' = "none"
  /\ stdin' = <<>> /\ stdout' = <<>> /\ preparing' = 0 /\ executing' = FALSE
  /\ \E n \in Msg \union {None} :
       LET s == [m \in Msg |-> IF m = n /\ step[m] = "spawn" THEN "setup" ELSE Awaken(step, "hung")[m]]
       IN IF agentProcessing
          THEN /\ events' = Append(events, "error") /\ done' = TRUE
               /\ step' = Signal(s, "drain")
          ELSE step' = s /\ UNCHANGED <<events, done>>
  /\ UNCHANGED <<flushing, turnState, messageQueue, agentProcessing, patient, requests, cancels>>

\* The child could not be spawned: its 'error' event. The queue completes; the child
\* and its ready promise stay.
SpawnFails ==
  /\ EventLoop /\ subprocess = "starting" /\ exits < MaxExit
  /\ exits' = exits + 1
  /\ subprocess' = "failed"
  /\ events' = Append(events, "error") /\ done' = TRUE
  /\ step' = Signal(Awaken(step, "hung"), "drain")
  /\ UNCHANGED <<flushing, turnState, messageQueue, agentProcessing, stdin, stdout, preparing,
                 executing, patient, requests, cancels>>

\* A prompt is prepared first; an abort ends the execution under way, and no other; a
\* steer joins it, or finds nothing to join.
ProcessMessage ==
  /\ Running /\ stdin # <<>>
  /\ stdin' = Tail(stdin)
  /\ LET line == Head(stdin)
     IN \/ /\ line = "prompt"
           /\ preparing' = preparing + 1
           /\ UNCHANGED <<stdout, executing>>
        \/ /\ line = "abort"
           /\ executing' = FALSE
           /\ stdout' = IF executing THEN Append(stdout, "end") ELSE stdout
           /\ UNCHANGED preparing
        \/ /\ line = "steer"
           /\ UNCHANGED <<stdout, preparing, executing>>
  /\ UNCHANGED <<step, flushing, turnState, messageQueue, agentVars, subprocess, historyVars>>

\* handlePrompt has its session, and no compaction is under way: the prompt starts an
\* execution, or follows up on the one there is. If it fails, an error and the end of
\* an execution are sent in its place.
StartPrompt ==
  /\ preparing > 0
  /\ preparing' = preparing - 1
  /\ \/ executing' = TRUE /\ UNCHANGED <<stdout, exits>>
     \/ /\ exits < MaxExit /\ exits' = exits + 1
        /\ stdout' = stdout \o <<"error", "end">>
        /\ UNCHANGED executing
  /\ UNCHANGED <<step, flushing, turnState, messageQueue, agentVars, subprocess, stdin, patient,
                 requests, cancels>>

\* A model call closes.
ModelCall ==
  /\ executing /\ requests < MaxRequest
  /\ requests' = requests + 1
  /\ stdout' = Append(stdout, "request")
  /\ UNCHANGED <<step, flushing, turnState, messageQueue, agentVars, subprocess, stdin, preparing,
                 executing, patient, cancels, exits>>

\* The execution ends.
AgentEnd ==
  /\ executing
  /\ executing' = FALSE
  /\ stdout' = Append(stdout, "end")
  /\ UNCHANGED <<step, flushing, turnState, messageQueue, agentVars, subprocess, stdin,
                 preparing, historyVars>>

-----------------------------------------------------------------------------
TurnStep(m) == Chat(m) \/ Prompt(m) \/ Drain(m) \/ Unwind(m)
SubprocessStep == ProcessMessage \/ StartPrompt \/ AgentEnd

TurnsNext ==
  \/ \E m \in Msg : Send(m) \/ TurnStep(m) \/ FailTurn(m)
  \/ FlushSettles \/ CancelProcessing
  \/ Spawn \/ SubprocessReady \/ SpawnFails
  \/ HandleSubprocessEvent \/ HandleSubprocessExit
  \/ SubprocessStep \/ ModelCall

TurnsSpec == TurnsInit /\ [][TurnsNext]_turnVars

\* Awaits come back: writes, the agent, credentials, compactions. A subprocess that
\* was spawned reports that it is ready, fails or exits. Executions end.
TurnsFairness ==
  /\ \A m \in Msg : WF_turnVars(TurnStep(m))
  /\ WF_turnVars(FlushSettles)
  /\ WF_turnVars(Spawn) /\ WF_turnVars(SubprocessReady)
  /\ WF_turnVars(HandleSubprocessEvent)
  /\ WF_turnVars(ProcessMessage) /\ WF_turnVars(StartPrompt) /\ WF_turnVars(AgentEnd)

FairTurnsSpec == TurnsSpec /\ TurnsFairness

-----------------------------------------------------------------------------
(* Properties *)

\* However messages, stops and ends of turns interleave, a message starts one
\* run at most, and none once it was steered into another's: "replays a queued
\* message without duplicating".
HandledOnce ==
  \A m \in Msg : runs[m] <= 1 /\ (step[m] = "steered" => runs[m] = 0)

\* The flush that a call awaits is in line.
AwaitsFlush(m) == \E i \in 1..Len(flushing) : flushing[i] = [msg |-> m, at |-> step[m]]

\* The subprocess is still to say that an execution has ended.
Answering ==
  /\ Running
  /\ \/ executing \/ preparing > 0
     \/ \E i \in 1..Len(stdin) : stdin[i] = "prompt"
     \/ \E i \in 1..Len(stdout) : stdout[i] = "end"

\* A call that goes on by itself, or that something under way will wake.
Alive(m) ==
  \/ step[m] \in {"agent", "setup", "drain", "ended"}
  \/ step[m] = "spawn" /\ subprocess \in {"none", "starting"}
  \/ AwaitsFlush(m)
  \/ step[m] = "wait" /\ Answering

\* A turn waits for a subprocess that came to nothing before it was ready. For a
\* patient user it is the last turn that began, and the next message makes good.
Hangs(m) == step[m] = "hung" /\ (patient => activeRun = m)

\* The session is busy, or holds messages in its queue, only while a call is
\* alive that will see to it: no turn waits for an answer that nobody is to give.
\* The one exception is a subprocess that fails or exits before it is ready.
NothingStranded ==
  isProcessing \/ messageQueue # <<>> => \E m \in Msg : Alive(m) \/ Hangs(m)

\* For a patient user there is one turn at a time, with the selection that it was
\* assembled with ("every later read of the route during the turn sees this
\* snapshot"), and its run is settled when it is over ("the single settle point
\* for the run").
OneTurnAtATime ==
  patient => \A m \in Msg :
    /\ step[m] \in InTurn => assembledSelection = m
    /\ step[m] \in {"close", "over"} => status[m] # "running"

\* For a patient user queued messages start their turns in the order they were
\* sent: none that is still queued is older than one that was queued and is not
\* any more.
QueueInOrder ==
  patient => \A i, j \in 1..Len(messageQueue) : i < j => messageQueue[i] < messageQueue[j]

\* Again and again the session is idle and every message was handled: it joined a
\* run, or had its own. The exception is the same.
ComesToRest ==
  []<>(\/ /\ ~isProcessing
          /\ \A m \in Msg : step[m] # "unsent" => step[m] = "steered" \/ runs[m] > 0
       \/ \E m \in Msg : Hangs(m))
=============================================================================
