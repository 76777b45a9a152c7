----------------------------- MODULE ToolApproval -----------------------------
(***************************************************************************)
(* What lets a tool call of the agent run: the permission handshake of a   *)
(* coding or proxy tool (pre_tool_use, from the subprocess to PiAgent and  *)
(* the user), and the approval handshake of an MCP tool (from the adapter  *)
(* in the subprocess to SessionManager, McpRuntimeState and the user).     *)
(*                                                                         *)
(* The checks that decide from a tool's input (modes, skills, paths) are a *)
(* choice of one of the answers the mode allows. The SDK and the MCP       *)
(* adapter are external: the SDK may have several calls under way, and its *)
(* abort() may come back before or after they have settled; the adapter    *)
(* keeps what was allowed for the session until its session is rebuilt.    *)
(*                                                                         *)
(* One session. A window shows a permission request until it answers it,   *)
(* so with several windows a request may be answered again, or late.       *)
(***************************************************************************)
EXTENDS Naturals, Sequences, FiniteSets

CONSTANTS
  Call,        \* tool calls
  McpCall,     \* those of MCP tools
  Tool,        \* tools
  ToolOf,      \* the tool of each call
  MaxEvent     \* bound: mode switches, stops and exits, together

ASSUME ApprovalBounds == /\ IsFiniteSet(Call) /\ McpCall \subseteq Call
                         /\ ToolOf \in [Call -> Tool] /\ MaxEvent \in Nat

\* An MCP tool is no coding or proxy tool.
ASSUME ToolKinds == \A m \in McpCall, c \in Call \ McpCall : ToolOf[m] # ToolOf[c]

Mode == {"safe", "ask", "allow-all"}
Answer == {"deny", "once", "always"}   \* Deny, Allow, Always Allow

VARIABLES
  \* SessionManager, McpRuntimeState, PiAgent
  mode,
  approvedBySession,   \* tools
  approvalTimers,      \* MCP calls; pendingTools has the same keys
  pendingPermissions,  \* other calls
  isProcessing,
  \* pi-agent-server, the SDK and the adapter
  alive, stdin, stdout,
  running,             \* the SDK runs, and may call tools
  aborting,            \* handleAbort awaits the SDK's abort()
  pendingPreToolUse, pendingApprovals,
  adapterCache,        \* tools the adapter does not ask about
  call,                \* where each call is
  \* history
  verdict,             \* the first answer to a call the user was asked about, or "open"
  wantsAlways,         \* tools the user allowed always, by an answer that came first
  askedAgain,          \* calls the user was asked about although their tool was one
  events

decisions == <<mode, approvedBySession, approvalTimers, pendingPermissions>>
pipes == <<alive, stdin, stdout>>
calls == <<pendingPreToolUse, pendingApprovals, adapterCache, call>>
history == <<verdict, wantsAlways, askedAgain>>
approvalVars == <<decisions, isProcessing, pipes, running, aborting, calls, history, events>>

Line == [type : {"prompt", "abort"}]
        \union [type : {"pre_tool_use_response", "mcp_approval_response"}, of : Call, answer : Answer]

\* The types of the variables; and the subprocess has a promise pending for every
\* call that waits, and for no other.
ApprovalTypeOK ==
  /\ mode \in Mode /\ approvedBySession \subseteq Tool
  /\ approvalTimers \subseteq McpCall /\ pendingPermissions \subseteq Call \ McpCall
  /\ isProcessing \in BOOLEAN /\ alive \in BOOLEAN /\ running \in BOOLEAN /\ aborting \in BOOLEAN
  /\ stdin \in Seq(Line) /\ stdout \in Seq(Call)
  /\ pendingPreToolUse \intersect McpCall = {} /\ pendingApprovals \subseteq McpCall
  /\ adapterCache \subseteq Tool
  /\ call \in [Call -> {"none", "waiting", "ran", "blocked", "lost"}]
  /\ pendingPreToolUse \union pendingApprovals = {c \in Call : call[c] = "waiting"}
  /\ verdict \in [Call -> Answer \union {"none", "open"}]
  /\ wantsAlways \subseteq Tool /\ askedAgain \subseteq Call
  /\ events \in 0..MaxEvent

ApprovalInit ==
  /\ mode \in Mode /\ approvedBySession = {} /\ approvalTimers = {} /\ pendingPermissions = {}
  /\ isProcessing = FALSE /\ alive = FALSE /\ stdin = <<>> /\ stdout = <<>>
  /\ running = FALSE /\ aborting = FALSE
  /\ pendingPreToolUse = {} /\ pendingApprovals = {} /\ adapterCache = {}
  /\ call = [c \in Call |-> "none"]
  /\ verdict = [c \in Call |-> "none"] /\ wantsAlways = {} /\ askedAgain = {}
  /\ events = 0

-----------------------------------------------------------------------------
(* The subprocess *)

\* requestPreToolUseApproval for a wrapped or a proxy tool.
CallTool(c) ==
  /\ c \notin McpCall /\ call[c] = "none" /\ running /\ ~aborting
  /\ pendingPreToolUse' = pendingPreToolUse \union {c}
  /\ call' = [call EXCEPT ![c] = "waiting"]
  /\ stdout' = Append(stdout, c)
  /\ UNCHANGED <<decisions, isProcessing, alive, stdin, running, aborting, pendingApprovals,
                 adapterCache, history, events>>

\* The adapter asks the host, which claims the request at once, or has been told.
CallMcpTool(c) ==
  /\ c \in McpCall /\ call[c] = "none" /\ running /\ ~aborting
  /\ IF ToolOf[c] \in adapterCache
       THEN call' = [call EXCEPT ![c] = "ran"] /\ UNCHANGED <<pendingApprovals, stdout>>
       ELSE /\ pendingApprovals' = pendingApprovals \union {c}
            /\ call' = [call EXCEPT ![c] = "waiting"]
            /\ stdout' = Append(stdout, c)
  /\ UNCHANGED <<decisions, isProcessing, alive, stdin, running, aborting, pendingPreToolUse,
                 adapterCache, history, events>>

Read(type) ==
  /\ stdin # <<>> /\ Head(stdin).type = type
  /\ stdin' = Tail(stdin)
  /\ UNCHANGED <<decisions, isProcessing, alive, stdout, history, events>>

Settled(c, answer) == [call EXCEPT ![c] = IF answer = "deny" THEN "blocked" ELSE "ran"]

\* handlePreToolUseResponse: an answer to a call that is no longer pending is dropped.
ReadPreToolUseResponse ==
  /\ Read("pre_tool_use_response")
  /\ LET c == Head(stdin).of
     IN IF c \in pendingPreToolUse
          THEN /\ pendingPreToolUse' = pendingPreToolUse \ {c}
               /\ call' = Settled(c, Head(stdin).answer)
          ELSE UNCHANGED <<pendingPreToolUse, call>>
  /\ UNCHANGED <<running, aborting, pendingApprovals, adapterCache>>

\* resolveMcpApproval of the host extension.
ReadMcpResponse ==
  /\ Read("mcp_approval_response")
  /\ LET c == Head(stdin).of
     IN IF c \in pendingApprovals
          THEN /\ pendingApprovals' = pendingApprovals \ {c}
               /\ call' = Settled(c, Head(stdin).answer)
               /\ adapterCache' = IF Head(stdin).answer = "always"
                                    THEN adapterCache \union {ToolOf[c]} ELSE adapterCache
          ELSE UNCHANGED <<pendingApprovals, call, adapterCache>>
  /\ UNCHANGED <<running, aborting, pendingPreToolUse>>

\* handlePrompt; it may rebuild the session, and with it the adapter.
ReadPrompt ==
  /\ Read("prompt")
  /\ running' = TRUE
  /\ adapterCache' \in {adapterCache, {}}
  /\ UNCHANGED <<aborting, pendingPreToolUse, pendingApprovals, call>>

\* handleAbort up to its await: the signal drops the approvals of the adapter.
ReadAbort ==
  /\ Read("abort")
  /\ aborting' = TRUE
  /\ pendingApprovals' = {}
  /\ call' = [c \in Call |-> IF c \in pendingApprovals THEN "blocked" ELSE call[c]]
  /\ UNCHANGED <<running, pendingPreToolUse, adapterCache>>

\* Mutant: the promises are resolved, and stay in the map.
ClearPendingNot == UNCHANGED pendingPreToolUse
ClearPending == pendingPreToolUse' = {}

\* handleAbort after it: what still waits is blocked. An abort() that waits for the
\* calls under way comes back after them, and one that failed stops nothing.
AbortReturns ==
  /\ aborting
  /\ aborting' = FALSE
  /\ running' \in {FALSE, running}
  /\ ClearPending
  /\ call' = [c \in Call |-> IF c \in pendingPreToolUse THEN "blocked" ELSE call[c]]
  /\ UNCHANGED <<decisions, isProcessing, pipes, pendingApprovals, adapterCache, history, events>>

-----------------------------------------------------------------------------
(* PiAgent, SessionManager and McpRuntimeState *)

Reply(type, c, answer) == [type |-> type, of |-> c, answer |-> answer]
Sent(lines) == IF alive THEN stdin \o lines ELSE stdin

\* The user is asked. In a session whose user has said "always" for the tool, it is
\* once more.
Ask(c) ==
  /\ verdict' = [verdict EXCEPT ![c] = "open"]
  /\ askedAgain' = IF ToolOf[c] \in wantsAlways THEN askedAgain \union {c} ELSE askedAgain
  /\ UNCHANGED wantsAlways

\* History: the answers to calls that are pending; only the first counts.
Answered(cs, answer) ==
  /\ verdict' = [c \in Call |-> IF c \in cs /\ verdict[c] = "open" THEN answer ELSE verdict[c]]
  /\ wantsAlways' = wantsAlways \union
                      {ToolOf[c] : c \in {d \in cs : answer = "always" /\ verdict[d] = "open"}}
  /\ UNCHANGED askedAgain

Receive(c) ==
  /\ stdout # <<>> /\ c = Head(stdout)
  /\ stdout' = Tail(stdout)
  /\ UNCHANGED <<mode, approvedBySession, isProcessing, alive, running, aborting, calls, events>>

\* handlePreToolUseRequest, where the checks have an answer: in every mode a skill or
\* a protected file may refuse a call.
CheckedAnswer == {"once", "deny"}

AnswerPreToolUse(c) ==
  /\ c \notin McpCall /\ Receive(c)
  /\ \E answer \in CheckedAnswer : stdin' = Sent(<<Reply("pre_tool_use_response", c, answer)>>)
  /\ UNCHANGED <<approvalTimers, pendingPermissions, history>>

\* ... and where the user is asked.
PromptUser(c) ==
  /\ c \notin McpCall /\ mode = "ask" /\ Receive(c)
  /\ pendingPermissions' = pendingPermissions \union {c}
  /\ Ask(c)
  /\ UNCHANGED <<approvalTimers, stdin>>

\* Mutant: a request is forwarded without its fail-closed timer.
ScheduleNot(c) == UNCHANGED approvalTimers
\* scheduleApprovalAutoDeny.
ScheduleApprovalAutoDeny(c) == approvalTimers' = approvalTimers \union {c}

\* handleMcpApprovalRequest.
HandleMcpApprovalRequest(c) ==
  /\ c \in McpCall /\ Receive(c)
  /\ UNCHANGED pendingPermissions
  /\ IF mode = "allow-all" \/ ToolOf[c] \in approvedBySession
       THEN /\ stdin' = Sent(<<Reply("mcp_approval_response", c, "always")>>)
            /\ UNCHANGED <<approvalTimers, history>>
       ELSE /\ ScheduleApprovalAutoDeny(c)
            /\ Ask(c)
            /\ UNCHANGED stdin

\* Mutant: the timer's entry outlives the denial.
KeepsTimer(c) == UNCHANGED approvalTimers
\* The timer's own callback and clearApprovalTimer.
DropTimer(c) == approvalTimers' = approvalTimers \ {c}

\* The 120 s are over.
AutoDeny(c) ==
  /\ c \in approvalTimers
  /\ DropTimer(c)
  /\ stdin' = Sent(<<Reply("mcp_approval_response", c, "deny")>>)
  /\ Answered({c}, "deny")
  /\ UNCHANGED <<mode, approvedBySession, pendingPermissions, isProcessing, alive, stdout,
                 running, aborting, calls, events>>

\* Mutant: the approval is looked for after the timer's entry is gone.
RememberNot(c, answer) == UNCHANGED approvedBySession
\* rememberApproval, for the tool that pendingTools has for the request.
RememberApproval(c, answer) ==
  approvedBySession' = IF answer = "always" THEN approvedBySession \union {ToolOf[c]}
                                            ELSE approvedBySession

\* SessionManager.respondToPermission; an answer to nothing pending has no effect.
RespondToPermission(c, answer) ==
  /\ \/ /\ c \in approvalTimers
        /\ RememberApproval(c, answer)
        /\ DropTimer(c)
        /\ stdin' = Sent(<<Reply("mcp_approval_response", c, answer)>>)
        /\ UNCHANGED pendingPermissions
     \/ /\ c \in pendingPermissions
        /\ pendingPermissions' = pendingPermissions \ {c}
        /\ stdin' = Sent(<<Reply("pre_tool_use_response", c, answer)>>)
        /\ UNCHANGED <<approvedBySession, approvalTimers>>
  /\ Answered({c}, answer)
  /\ UNCHANGED <<mode, isProcessing, alive, stdout, running, aborting, calls, events>>

\* setSessionPermissionMode.
SetSessionPermissionMode(m) ==
  /\ m # mode /\ events < MaxEvent
  /\ events' = events + 1
  /\ mode' = m
  /\ UNCHANGED <<approvedBySession, approvalTimers, pendingPermissions, isProcessing, pipes,
                 running, aborting, calls, history>>

\* A turn: the subprocess is there, and gets the prompt.
StartTurn ==
  /\ ~isProcessing
  /\ isProcessing' = TRUE
  /\ alive' = TRUE
  /\ stdin' = Append(stdin, [type |-> "prompt"])
  /\ UNCHANGED <<decisions, stdout, running, aborting, calls, history, events>>

\* Mutant: the stop leaves the user's prompts open.
DenyPendingNot ==
  /\ stdin' = Sent(<<[type |-> "abort"]>>)
  /\ UNCHANGED pendingPermissions
Orders(cs) == {q \in [1..Cardinality(cs) -> cs] : cs = {q[i] : i \in DOMAIN q}}
\* The permissions that wait are denied; their handlers go on after the abort is sent.
DenyPending ==
  /\ \E q \in Orders(pendingPermissions) :
       stdin' = Sent(<<[type |-> "abort"]>>
                     \o [i \in DOMAIN q |-> Reply("pre_tool_use_response", q[i], "deny")])
  /\ pendingPermissions' = {}

\* forceAbort, for a stop by the user.
ForceAbort ==
  /\ isProcessing /\ events < MaxEvent
  /\ events' = events + 1
  /\ isProcessing' = FALSE
  /\ DenyPending
  /\ Answered(pendingPermissions, "deny")
  /\ UNCHANGED <<mode, approvedBySession, approvalTimers, alive, stdout, running, aborting, calls>>

\* The SDK's run is over, and so is the turn.
TurnEnds ==
  /\ running /\ ~aborting
  /\ \A c \in Call : call[c] # "waiting"
  /\ running' = FALSE
  /\ isProcessing' = FALSE
  /\ UNCHANGED <<decisions, pipes, aborting, calls, history, events>>

\* handleSubprocessExit. The permissions and timers of the main process stay, and what
\* the subprocess had written is still read.
HandleSubprocessExit ==
  /\ alive /\ events < MaxEvent
  /\ events' = events + 1
  /\ alive' = FALSE /\ stdin' = <<>>
  /\ running' = FALSE /\ aborting' = FALSE /\ isProcessing' = FALSE
  /\ pendingPreToolUse' = {} /\ pendingApprovals' = {} /\ adapterCache' = {}
  /\ call' = [c \in Call |-> IF call[c] = "waiting" THEN "lost" ELSE call[c]]
  /\ UNCHANGED <<decisions, stdout, history>>

-----------------------------------------------------------------------------
SubprocessReads == ReadPreToolUseResponse \/ ReadMcpResponse \/ ReadPrompt \/ ReadAbort
MainReads(c) == AnswerPreToolUse(c) \/ PromptUser(c) \/ HandleMcpApprovalRequest(c)

ApprovalNext ==
  \/ \E c \in Call :
       \/ CallTool(c) \/ CallMcpTool(c) \/ MainReads(c) \/ AutoDeny(c)
       \/ \E answer \in Answer : RespondToPermission(c, answer)
  \/ SubprocessReads \/ AbortReturns
  \/ \E m \in Mode : SetSessionPermissionMode(m)
  \/ StartTurn \/ ForceAbort \/ TurnEnds \/ HandleSubprocessExit

\* Lines are read and timers fire. Nobody has to answer, and an abort() that waits
\* for a call need not come back before it.
ApprovalFairness ==
  /\ WF_approvalVars(SubprocessReads)
  /\ WF_approvalVars(\E c \in Call : MainReads(c))
  /\ \A c \in McpCall : WF_approvalVars(AutoDeny(c))

ApprovalSpec == ApprovalInit /\ [][ApprovalNext]_approvalVars /\ ApprovalFairness

-----------------------------------------------------------------------------
(* Properties *)

\* The request of a call, the question to the user, or the answer is under way. (The
\* subprocess takes an answer only by the message of its kind.)
ResponseTo(c) == IF c \in McpCall THEN "mcp_approval_response" ELSE "pre_tool_use_response"
AnswerToCome(c) ==
  \/ \E i \in DOMAIN stdout : stdout[i] = c
  \/ c \in approvalTimers \union pendingPermissions
  \/ \E i \in DOMAIN stdin, answer \in Answer : stdin[i] = Reply(ResponseTo(c), c, answer)

\* A call the user was asked about runs only if the first answer (of a window, of the
\* 120 s timer, or of a stop) allowed it, whatever answers, stops, mode switches and
\* exits follow; exactly the requests without an answer can still get one; and no call
\* waits for an answer that is not to come.
FirstAnswerCounts ==
  /\ \A c \in Call : call[c] = "ran" => verdict[c] \in {"none", "once", "always"}
  /\ {c \in Call : verdict[c] = "open"} = approvalTimers \union pendingPermissions
  /\ \A c \in Call : call[c] = "waiting" => AnswerToCome(c)

\* "Always allow" is remembered for tools the user allowed always in time, never
\* because of an answer that came after the denial. "This memory outlives those
\* rebuilds": no later call of such an MCP tool asks, through stops, new sessions
\* and new subprocesses.
AlwaysIsMeantAndKept ==
  /\ approvedBySession \subseteq wantsAlways
  /\ askedAgain \subseteq Call \ McpCall

\* No call waits for ever, unless for the user: an MCP call is denied in the end
\* ("instead of hanging the tool call"), another waits only while its prompt is open.
NoCallHangs ==
  /\ \A c \in McpCall : []<>(call[c] # "waiting")
  /\ \A c \in Call \ McpCall : []<>(call[c] # "waiting" \/ c \in pendingPermissions)
=============================================================================
