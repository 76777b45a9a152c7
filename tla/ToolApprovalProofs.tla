-------------------------- MODULE ToolApprovalProofs --------------------------
(***************************************************************************)
(* Proofs about ToolApproval, for any tool calls and any number of stops,  *)
(* exits and mode switches: types, that the first answer to a request      *)
(* counts, that a call which waits has an answer to come, and that         *)
(* "always" is remembered where it was meant.                              *)
(***************************************************************************)
EXTENDS ToolApproval, SequenceTheorems, FiniteSetTheorems, TLAPS

-----------------------------------------------------------------------------
(* The elements of a queue *)

Elems(s) == {s[i] : i \in 1..Len(s)}
Once(s) == \A i, j \in 1..Len(s) : s[i] = s[j] => i = j

\* Appending adds one element, which is in the queue once if it is new.
LEMMA AppendElems ==
  ASSUME NEW S, NEW s \in Seq(S), NEW e \in S
  PROVE  /\ Append(s, e) \in Seq(S)
         /\ Elems(Append(s, e)) = Elems(s) \union {e}
         /\ Once(s) /\ e \notin Elems(s) => Once(Append(s, e))
<1>1. Len(s) \in Nat
  BY LenProperties
<1>2. /\ Append(s, e) \in Seq(S) /\ Len(Append(s, e)) = Len(s) + 1
      /\ \A i \in 1..(Len(s) + 1) : Append(s, e)[i] = IF i <= Len(s) THEN s[i] ELSE e
  BY <1>1
<1>3. Elems(Append(s, e)) = Elems(s) \union {e}
  BY <1>1, <1>2 DEF Elems
<1>4. Once(s) /\ e \notin Elems(s) => Once(Append(s, e))
  BY <1>1, <1>2 DEF Elems, Once
<1> QED
  BY <1>2, <1>3, <1>4

\* The first element leaves, and what is left was there; nothing that is in the
\* queue once is both.
LEMMA TailElems ==
  ASSUME NEW S, NEW s \in Seq(S), s # <<>>
  PROVE  /\ Tail(s) \in Seq(S)
         /\ Head(s) \in S /\ Head(s) \in Elems(s)
         /\ Elems(Tail(s)) \subseteq Elems(s)
         /\ Once(s) => Once(Tail(s)) /\ Head(s) \notin Elems(Tail(s))
<1>1. Len(s) \in Nat \ {0}
  BY EmptySeq
<1>2. /\ Head(s) \in S /\ Tail(s) \in Seq(S) /\ Len(Tail(s)) = Len(s) - 1
      /\ \A i \in 1..(Len(s) - 1) : Tail(s)[i] = s[i + 1]
  BY HeadTailProperties
<1>3. Head(s) = s[1]
  BY <1>1
<1>4. \A i \in 1..(Len(s) - 1) : i + 1 \in 1..Len(s) /\ i + 1 # 1
  BY <1>1
<1>5. Head(s) \in Elems(s) /\ Elems(Tail(s)) \subseteq Elems(s)
  BY <1>1, <1>2, <1>3, <1>4 DEF Elems
<1>6. ASSUME Once(s) PROVE Once(Tail(s)) /\ Head(s) \notin Elems(Tail(s))
  BY <1>1, <1>2, <1>3, <1>4, <1>6 DEF Elems, Once
<1> QED
  BY <1>2, <1>5, <1>6

\* The lines sent are in the pipe, if there is one, with those that were.
LEMMA SentElems ==
  ASSUME stdin \in Seq(Line), NEW lines \in Seq(Line)
  PROVE  /\ Sent(lines) \in Seq(Line)
         /\ Elems(Sent(lines)) \subseteq Elems(stdin) \union Elems(lines)
<1>1. Len(stdin) \in Nat /\ Len(lines) \in Nat
  BY LenProperties
<1>2. /\ stdin \o lines \in Seq(Line)
      /\ Len(stdin \o lines) = Len(stdin) + Len(lines)
      /\ \A i \in 1..(Len(stdin) + Len(lines)) : (stdin \o lines)[i] =
           IF i <= Len(stdin) THEN stdin[i] ELSE lines[i - Len(stdin)]
  BY ConcatProperties
<1>3. \A i \in 1..(Len(stdin) + Len(lines)) :
        i <= Len(stdin) \/ i - Len(stdin) \in 1..Len(lines)
  BY <1>1
<1>4. Elems(stdin \o lines) \subseteq Elems(stdin) \union Elems(lines)
  BY <1>1, <1>2, <1>3 DEF Elems
<1> QED
  BY <1>2, <1>4 DEF Sent

-----------------------------------------------------------------------------
(* The inductive invariant *)

ReplyType == {"pre_tool_use_response", "mcp_approval_response"}
Replies == {l \in Elems(stdin) : l.type \in ReplyType}
Allowing == {"once", "always"}

\* A call is requested once.
AskedOnce == Once(stdout) /\ \A c \in Elems(stdout) : call[c] # "none"

\* Nobody was asked about a call that was not made, or whose request is not read.
NothingSaid == \A c \in Call : c \in Elems(stdout) \/ call[c] = "none" => verdict[c] = "none"

\* Such a call, and one the user is being asked about, has no reply under way and
\* does not run.
NoReplyYet ==
  \A c \in Call :
    c \in Elems(stdout) \/ call[c] = "none" \/ verdict[c] = "open" =>
      call[c] # "ran" /\ \A l \in Replies : l.of # c

\* A reply that allows a call agrees with the answer to it.
RepliesAgree == \A l \in Replies : l.answer # "deny" => verdict[l.of] \in {"none"} \union Allowing

\* "Always" for a tool of MCP calls is remembered.
AlwaysKept == \A c \in McpCall : ToolOf[c] \in wantsAlways => ToolOf[c] \in approvedBySession

\* The first answer decides.
FirstAnswerInv ==
  /\ \A c \in Call : call[c] = "ran" => verdict[c] \in {"none", "once", "always"}
  /\ {c \in Call : verdict[c] = "open"} = approvalTimers \union pendingPermissions

IInv == /\ ApprovalTypeOK /\ AskedOnce /\ NothingSaid /\ NoReplyYet /\ RepliesAgree
        /\ FirstAnswerInv /\ AlwaysIsMeantAndKept /\ AlwaysKept

\* A line that is a reply has a call and an answer.
LEMMA LineFacts ==
  /\ \A l \in Line : l.type \in ReplyType => l.of \in Call /\ l.answer \in Answer
  /\ \A type \in ReplyType, c \in Call, answer \in Answer :
       /\ Reply(type, c, answer) \in Line
       /\ Reply(type, c, answer).type = type
       /\ Reply(type, c, answer).of = c /\ Reply(type, c, answer).answer = answer
  /\ \A type \in {"prompt", "abort"} :
       [type |-> type] \in Line /\ [type |-> type].type \notin ReplyType
BY DEF Line, ReplyType, Reply

\* What is in the pipes are lines and calls.
LEMMA PipeFacts ==
  ASSUME ApprovalTypeOK
  PROVE  /\ Elems(stdout) \subseteq Call
         /\ \A l \in Replies : l \in Line /\ l.of \in Call /\ l.answer \in Answer
<1>1. Elems(stdout) \subseteq Call /\ Elems(stdin) \subseteq Line
  BY ElementOfSeq DEF ApprovalTypeOK, Elems
<1> QED
  BY <1>1, LineFacts DEF Replies

\* The invariant holds initially.
LEMMA InitInv == ApprovalInit => IInv
<1> SUFFICES ASSUME ApprovalInit PROVE IInv
  OBVIOUS
<1>1. <<>> \in Seq(Line) /\ <<>> \in Seq(Call) /\ Len(<<>>) = 0
  BY EmptySeq
<1>2. Elems(<<>>) = {} /\ Once(<<>>)
  BY <1>1 DEF Elems, Once
<1>3. ApprovalTypeOK
  <2>1. events \in 0..MaxEvent
    BY ApprovalBounds DEF ApprovalInit
  <2>2. /\ pendingPreToolUse \union pendingApprovals = {c \in Call : call[c] = "waiting"}
        /\ call \in [Call -> {"none", "waiting", "ran", "blocked", "lost"}]
        /\ verdict \in [Call -> Answer \union {"none", "open"}]
    BY DEF ApprovalInit
  <2>3. stdin \in Seq(Line) /\ stdout \in Seq(Call)
    BY <1>1 DEF ApprovalInit
  <2> QED
    BY <2>1, <2>2, <2>3 DEF ApprovalInit, ApprovalTypeOK
<1>4. Replies = {}
  BY <1>2 DEF Replies, ApprovalInit
<1>5. AskedOnce /\ NothingSaid /\ NoReplyYet /\ RepliesAgree
  BY <1>2, <1>4 DEF ApprovalInit, AskedOnce, NothingSaid, NoReplyYet, RepliesAgree
<1>6. FirstAnswerInv /\ AlwaysIsMeantAndKept /\ AlwaysKept
  BY DEF ApprovalInit, FirstAnswerInv, AlwaysIsMeantAndKept, AlwaysKept
<1> QED
  BY <1>3, <1>5, <1>6 DEF IInv

-----------------------------------------------------------------------------
(* Steps that add no request, no reply and no answer *)

\* They keep the invariant if they let no call run that did not.
LEMMA QuietStep ==
  ASSUME IInv, ApprovalTypeOK',
         Elems(stdout') \subseteq Elems(stdout), Once(stdout'), Replies' \subseteq Replies,
         UNCHANGED <<approvedBySession, approvalTimers, pendingPermissions, history>>,
         \A c \in Call : \/ call'[c] = call[c]
                         \/ call[c] # "none" /\ call'[c] \in {"waiting", "blocked", "lost"}
  PROVE  IInv'
<1> USE DEF IInv, history
<1>1. Elems(stdout) \subseteq Call
  BY PipeFacts
<1>2. AskedOnce'
  BY <1>1 DEF AskedOnce
<1>3. NothingSaid'
  BY DEF NothingSaid
<1>4. NoReplyYet'
  BY DEF NoReplyYet
<1>5. RepliesAgree'
  BY DEF RepliesAgree
<1>6. FirstAnswerInv' /\ AlwaysIsMeantAndKept' /\ AlwaysKept'
  BY DEF FirstAnswerInv, AlwaysIsMeantAndKept, AlwaysKept
<1> QED
  BY <1>2, <1>3, <1>4, <1>5, <1>6

\* Reading a line leaves the other lines.
LEMMA ReadFacts ==
  ASSUME ApprovalTypeOK, NEW type, Read(type)
  PROVE  /\ stdin' \in Seq(Line) /\ Head(stdin) \in Line
         /\ Replies' \subseteq Replies
         /\ type \in ReplyType => Head(stdin) \in Replies
<1>1. stdin \in Seq(Line) /\ stdin # <<>> /\ stdin' = Tail(stdin) /\ Head(stdin).type = type
  BY DEF Read, ApprovalTypeOK
<1>2. /\ Tail(stdin) \in Seq(Line) /\ Head(stdin) \in Line /\ Head(stdin) \in Elems(stdin)
      /\ Elems(Tail(stdin)) \subseteq Elems(stdin)
  BY <1>1, TailElems
<1> QED
  BY <1>1, <1>2 DEF Replies

\* handlePrompt answers nothing.
LEMMA ReadPromptStep == ASSUME IInv, ReadPrompt PROVE IInv'
<1> USE DEF IInv, history, decisions
<1>1. stdin' \in Seq(Line) /\ Replies' \subseteq Replies
  BY ReadFacts DEF ReadPrompt
<1>2. ApprovalTypeOK'
  BY <1>1 DEF ReadPrompt, Read, ApprovalTypeOK
<1>3. UNCHANGED <<approvedBySession, approvalTimers, pendingPermissions, history, stdout, call>>
  BY DEF ReadPrompt, Read
<1> QED
  BY <1>1, <1>2, <1>3, QuietStep DEF AskedOnce

\* handleAbort blocks MCP calls, up to its await ...
LEMMA ReadAbortStep == ASSUME IInv, ReadAbort PROVE IInv'
<1> USE DEF IInv, history, decisions
<1>1. stdin' \in Seq(Line) /\ Replies' \subseteq Replies
  BY ReadFacts DEF ReadAbort
<1>2. call' \in [Call -> {"none", "waiting", "ran", "blocked", "lost"}]
  BY DEF ReadAbort, ApprovalTypeOK
<1>3. pendingPreToolUse' \union pendingApprovals' = {c \in Call : call'[c] = "waiting"}
  BY DEF ReadAbort, ApprovalTypeOK
<1>4. ApprovalTypeOK'
  BY <1>1, <1>2, <1>3 DEF ReadAbort, Read, ApprovalTypeOK
<1>5. UNCHANGED <<approvedBySession, approvalTimers, pendingPermissions, history, stdout>>
  BY DEF ReadAbort, Read
<1>6. \A c \in Call : \/ call'[c] = call[c]
                      \/ call[c] # "none" /\ call'[c] \in {"waiting", "blocked", "lost"}
  BY DEF ReadAbort, ApprovalTypeOK
<1> QED
  BY <1>1, <1>4, <1>5, <1>6, QuietStep DEF AskedOnce

\* ... and others after it.
LEMMA AbortReturnsStep == ASSUME IInv, AbortReturns PROVE IInv'
<1> USE DEF IInv, history, decisions, pipes, AbortReturns, ClearPending
<1>1. call' \in [Call -> {"none", "waiting", "ran", "blocked", "lost"}]
  BY DEF ApprovalTypeOK
<1>2. pendingPreToolUse' \union pendingApprovals' = {c \in Call : call'[c] = "waiting"}
  BY DEF ApprovalTypeOK
<1>3. ApprovalTypeOK'
  BY <1>1, <1>2 DEF ApprovalTypeOK
<1>4. \A c \in Call : \/ call'[c] = call[c]
                      \/ call[c] # "none" /\ call'[c] \in {"waiting", "blocked", "lost"}
  BY DEF ApprovalTypeOK
<1>5. Replies' = Replies
  BY DEF Replies
<1> QED
  BY <1>3, <1>4, <1>5, QuietStep DEF AskedOnce

\* A mode switch.
LEMMA SetModeStep ==
  ASSUME IInv, NEW m \in Mode, SetSessionPermissionMode(m) PROVE IInv'
<1> USE DEF IInv, history, decisions, pipes, calls, SetSessionPermissionMode
<1>1. events' \in 0..MaxEvent
  BY ApprovalBounds DEF ApprovalTypeOK
<1>2. ApprovalTypeOK'
  BY <1>1 DEF ApprovalTypeOK
<1>3. Replies' = Replies
  BY DEF Replies
<1> QED
  BY <1>2, <1>3, QuietStep DEF AskedOnce

\* A turn starts with a prompt, which is no reply.
LEMMA StartTurnStep == ASSUME IInv, StartTurn PROVE IInv'
<1> USE DEF IInv, history, decisions, calls, StartTurn
<1> DEFINE prompt == [type |-> "prompt"]
<1>1. prompt \in Line /\ prompt.type \notin ReplyType
  BY LineFacts
<1> HIDE DEF prompt
<1>2. stdin' = Append(stdin, prompt)
  BY DEF prompt
<1>3. stdin' \in Seq(Line) /\ Elems(stdin') = Elems(stdin) \union {prompt}
  BY <1>1, <1>2, AppendElems DEF ApprovalTypeOK
<1>4. ApprovalTypeOK'
  BY <1>3 DEF ApprovalTypeOK
<1>5. Replies' \subseteq Replies
  BY <1>1, <1>3 DEF Replies
<1> QED
  BY <1>4, <1>5, QuietStep DEF AskedOnce

\* The end of a turn.
LEMMA TurnEndsStep == ASSUME IInv, TurnEnds PROVE IInv'
<1> USE DEF IInv, history, decisions, pipes, calls, TurnEnds
<1>1. ApprovalTypeOK'
  BY DEF ApprovalTypeOK
<1>2. Replies' = Replies
  BY DEF Replies
<1> QED
  BY <1>1, <1>2, QuietStep DEF AskedOnce

\* The exit loses calls and every line to the subprocess, no request.
LEMMA HandleSubprocessExitStep == ASSUME IInv, HandleSubprocessExit PROVE IInv'
<1> USE DEF IInv, history, decisions, HandleSubprocessExit
<1>1. stdin' \in Seq(Line) /\ Elems(stdin') = {}
  BY EmptySeq DEF Elems
<1>2. events' \in 0..MaxEvent
  BY ApprovalBounds DEF ApprovalTypeOK
<1>3. call' \in [Call -> {"none", "waiting", "ran", "blocked", "lost"}]
  BY DEF ApprovalTypeOK
<1>4. pendingPreToolUse' \union pendingApprovals' = {c \in Call : call'[c] = "waiting"}
  BY DEF ApprovalTypeOK
<1>5. ApprovalTypeOK'
  BY <1>1, <1>2, <1>3, <1>4 DEF ApprovalTypeOK
<1>6. Replies' \subseteq Replies
  BY <1>1 DEF Replies
<1>7. \A c \in Call : \/ call'[c] = call[c]
                      \/ call[c] # "none" /\ call'[c] \in {"waiting", "blocked", "lost"}
  BY DEF ApprovalTypeOK
<1> QED
  BY <1>5, <1>6, <1>7, QuietStep DEF AskedOnce

-----------------------------------------------------------------------------
(* Steps of a call: its request, and a reply to it *)

\* A reply settles its call; it lets it run only if the answer allowed it.
LEMMA SettleStep ==
  ASSUME IInv, ApprovalTypeOK', Replies' \subseteq Replies,
         UNCHANGED <<stdout, approvedBySession, approvalTimers, pendingPermissions, history>>,
         NEW l \in Replies, call' = Settled(l.of, l.answer)
  PROVE  IInv'
<1> USE DEF IInv, history
<1>1. Elems(stdout) \subseteq Call /\ l.of \in Call /\ l.answer \in Answer
  BY PipeFacts
<1>2. /\ \A d \in Call : d # l.of => call'[d] = call[d]
      /\ call'[l.of] = IF l.answer = "deny" THEN "blocked" ELSE "ran"
  BY <1>1 DEF Settled, ApprovalTypeOK
<1>3. l.of \notin Elems(stdout) /\ call[l.of] # "none" /\ verdict[l.of] # "open"
  BY <1>1 DEF NoReplyYet
<1>4. l.answer # "deny" => verdict[l.of] \in {"none", "once", "always"}
  BY DEF RepliesAgree, Allowing
<1>5. AskedOnce'
  BY <1>1, <1>2 DEF AskedOnce
<1>6. NothingSaid' /\ NoReplyYet'
  BY <1>2, <1>3 DEF NothingSaid, NoReplyYet
<1>7. RepliesAgree'
  BY DEF RepliesAgree
<1>8. FirstAnswerInv'
  BY <1>2, <1>4 DEF FirstAnswerInv
<1>9. AlwaysIsMeantAndKept' /\ AlwaysKept'
  BY DEF AlwaysIsMeantAndKept, AlwaysKept
<1> QED
  BY <1>5, <1>6, <1>7, <1>8, <1>9

\* handlePreToolUseResponse.
LEMMA ReadPreToolUseResponseStep == ASSUME IInv, ReadPreToolUseResponse PROVE IInv'
<1> DEFINE l == Head(stdin)
<1> USE DEF IInv, history, decisions
<1>1. stdin' \in Seq(Line) /\ Replies' \subseteq Replies /\ l \in Replies
  BY ReadFacts DEF ReadPreToolUseResponse, ReplyType
<1>2. l.of \in Call /\ l.answer \in Answer
  BY <1>1, PipeFacts
<1>3. UNCHANGED <<stdout, approvedBySession, approvalTimers, pendingPermissions, history>>
  BY DEF ReadPreToolUseResponse, Read
<1>4. CASE l.of \in pendingPreToolUse
  <2>1. call' = Settled(l.of, l.answer) /\ pendingPreToolUse' = pendingPreToolUse \ {l.of}
    BY <1>4 DEF ReadPreToolUseResponse
  <2>2. l.of \notin pendingApprovals
    BY <1>4 DEF ApprovalTypeOK
  <2>3. /\ call' \in [Call -> {"none", "waiting", "ran", "blocked", "lost"}]
        /\ pendingPreToolUse' \union pendingApprovals = {c \in Call : call'[c] = "waiting"}
    BY <1>2, <2>1, <2>2 DEF Settled, ApprovalTypeOK
  <2>4. ApprovalTypeOK'
    BY <1>1, <2>1, <2>3 DEF ReadPreToolUseResponse, Read, ApprovalTypeOK
  <2> QED
    BY <1>1, <1>3, <2>1, <2>4, SettleStep
<1>5. CASE l.of \notin pendingPreToolUse
  <2>1. UNCHANGED <<pendingPreToolUse, call>>
    BY <1>5 DEF ReadPreToolUseResponse
  <2>2. ApprovalTypeOK'
    BY <1>1, <2>1 DEF ReadPreToolUseResponse, Read, ApprovalTypeOK
  <2> QED
    BY <1>1, <1>3, <2>1, <2>2, QuietStep DEF AskedOnce
<1> QED
  BY <1>4, <1>5

\* resolveMcpApproval.
LEMMA ReadMcpResponseStep == ASSUME IInv, ReadMcpResponse PROVE IInv'
<1> DEFINE l == Head(stdin)
<1> USE DEF IInv, history, decisions
<1>1. stdin' \in Seq(Line) /\ Replies' \subseteq Replies /\ l \in Replies
  BY ReadFacts DEF ReadMcpResponse, ReplyType
<1>2. l.of \in Call /\ l.answer \in Answer
  BY <1>1, PipeFacts
<1>3. UNCHANGED <<stdout, approvedBySession, approvalTimers, pendingPermissions, history>>
  BY DEF ReadMcpResponse, Read
<1>4. CASE l.of \in pendingApprovals
  <2>1. /\ call' = Settled(l.of, l.answer) /\ pendingApprovals' = pendingApprovals \ {l.of}
        /\ adapterCache' \subseteq Tool /\ UNCHANGED pendingPreToolUse
    BY <1>2, <1>4, ApprovalBounds DEF ReadMcpResponse, ApprovalTypeOK
  <2>2. l.of \notin pendingPreToolUse
    BY <1>4 DEF ApprovalTypeOK
  <2>3. /\ call' \in [Call -> {"none", "waiting", "ran", "blocked", "lost"}]
        /\ pendingPreToolUse \union pendingApprovals' = {c \in Call : call'[c] = "waiting"}
    BY <1>2, <2>1, <2>2 DEF Settled, ApprovalTypeOK
  <2>4. ApprovalTypeOK'
    BY <1>1, <2>1, <2>3 DEF ReadMcpResponse, Read, ApprovalTypeOK
  <2> QED
    BY <1>1, <1>3, <2>1, <2>4, SettleStep
<1>5. CASE l.of \notin pendingApprovals
  <2>1. UNCHANGED <<pendingApprovals, call, adapterCache>>
    BY <1>5 DEF ReadMcpResponse
  <2>2. ApprovalTypeOK'
    BY <1>1, <2>1 DEF ReadMcpResponse, Read, ApprovalTypeOK
  <2> QED
    BY <1>1, <1>3, <2>1, <2>2, QuietStep DEF AskedOnce
<1> QED
  BY <1>4, <1>5

\* A call that waits has sent its request.
LEMMA RequestStep ==
  ASSUME IInv, ApprovalTypeOK', NEW c \in Call, call[c] = "none",
         call' = [call EXCEPT ![c] = "waiting"], stdout' = Append(stdout, c),
         UNCHANGED <<stdin, approvedBySession, approvalTimers, pendingPermissions, history>>
  PROVE  IInv'
<1> USE DEF IInv, history
<1>1. c \notin Elems(stdout)
  BY DEF AskedOnce
<1>2. Elems(stdout') = Elems(stdout) \union {c} /\ Once(stdout')
  BY <1>1, AppendElems DEF ApprovalTypeOK, AskedOnce
<1>3. Elems(stdout) \subseteq Call
  BY PipeFacts
<1>4. \A d \in Call : call'[d] = IF d = c THEN "waiting" ELSE call[d]
  BY DEF ApprovalTypeOK
<1>5. Replies' = Replies
  BY DEF Replies
<1>6. AskedOnce'
  BY <1>2, <1>3, <1>4 DEF AskedOnce
<1>7. NothingSaid' /\ NoReplyYet' /\ RepliesAgree'
  BY <1>2, <1>4, <1>5 DEF NothingSaid, NoReplyYet, RepliesAgree
<1>8. FirstAnswerInv' /\ AlwaysIsMeantAndKept' /\ AlwaysKept'
  BY <1>4 DEF FirstAnswerInv, AlwaysIsMeantAndKept, AlwaysKept
<1> QED
  BY <1>6, <1>7, <1>8

\* requestPreToolUseApproval.
LEMMA CallToolStep == ASSUME IInv, NEW c \in Call, CallTool(c) PROVE IInv'
<1> USE DEF IInv, history, decisions, CallTool
<1>1. stdout' \in Seq(Call)
  BY AppendElems DEF ApprovalTypeOK
<1>2. /\ call' \in [Call -> {"none", "waiting", "ran", "blocked", "lost"}]
      /\ pendingPreToolUse' \union pendingApprovals = {d \in Call : call'[d] = "waiting"}
  BY DEF ApprovalTypeOK
<1>3. ApprovalTypeOK'
  BY <1>1, <1>2 DEF ApprovalTypeOK
<1> QED
  BY <1>3, RequestStep

\* A call of an MCP tool asks, or runs because the adapter has been told.
LEMMA CallMcpToolStep == ASSUME IInv, NEW c \in Call, CallMcpTool(c) PROVE IInv'
<1> USE DEF IInv, history, decisions, CallMcpTool
<1>1. CASE ToolOf[c] \in adapterCache
  <2>1. \A d \in Call : call'[d] = IF d = c THEN "ran" ELSE call[d]
    BY <1>1 DEF ApprovalTypeOK
  <2>2. /\ call' \in [Call -> {"none", "waiting", "ran", "blocked", "lost"}]
        /\ pendingPreToolUse \union pendingApprovals = {d \in Call : call'[d] = "waiting"}
    BY <1>1 DEF ApprovalTypeOK
  <2>3. ApprovalTypeOK'
    BY <1>1, <2>2 DEF ApprovalTypeOK
  <2>4. c \notin Elems(stdout) /\ verdict[c] = "none" /\ Elems(stdout) \subseteq Call
    BY PipeFacts DEF AskedOnce, NothingSaid
  <2>5. Replies' = Replies /\ UNCHANGED stdout
    BY <1>1 DEF Replies
  <2>6. AskedOnce' /\ NothingSaid' /\ NoReplyYet' /\ RepliesAgree'
    BY <2>1, <2>4, <2>5 DEF AskedOnce, NothingSaid, NoReplyYet, RepliesAgree
  <2>7. FirstAnswerInv' /\ AlwaysIsMeantAndKept' /\ AlwaysKept'
    BY <2>1, <2>4 DEF FirstAnswerInv, AlwaysIsMeantAndKept, AlwaysKept
  <2> QED
    BY <2>3, <2>6, <2>7
<1>2. CASE ToolOf[c] \notin adapterCache
  <2>1. stdout' \in Seq(Call)
    BY <1>2, AppendElems DEF ApprovalTypeOK
  <2>2. /\ call' \in [Call -> {"none", "waiting", "ran", "blocked", "lost"}]
        /\ pendingPreToolUse \union pendingApprovals' = {d \in Call : call'[d] = "waiting"}
    BY <1>2 DEF ApprovalTypeOK
  <2>3. ApprovalTypeOK'
    BY <1>2, <2>1, <2>2 DEF ApprovalTypeOK
  <2> QED
    BY <1>2, <2>3, RequestStep
<1> QED
  BY <1>1, <1>2

-----------------------------------------------------------------------------
(* Steps of the main process: requests *)

\* A reply is added to those under way.
LEMMA SendReply ==
  ASSUME ApprovalTypeOK, NEW type \in ReplyType, NEW c \in Call, NEW answer \in Answer,
         stdin' = Sent(<<Reply(type, c, answer)>>)
  PROVE  /\ stdin' \in Seq(Line)
         /\ \A l \in Replies' : l \in Replies \/ (l.of = c /\ l.answer = answer)
<1> DEFINE reply == Reply(type, c, answer)
<1>1. reply \in Line /\ reply.of = c /\ reply.answer = answer
  BY LineFacts
<1> HIDE DEF reply
<1>2. <<reply>> \in Seq(Line) /\ Elems(<<reply>>) = {reply}
  BY <1>1 DEF Elems
<1>3. stdin' = Sent(<<reply>>)
  BY DEF reply
<1>4. stdin' \in Seq(Line) /\ Elems(stdin') \subseteq Elems(stdin) \union {reply}
  BY <1>2, <1>3, SentElems DEF ApprovalTypeOK
<1> QED
  BY <1>1, <1>4 DEF Replies

\* The request that is received was the only one for its call, and nobody has
\* answered it.
LEMMA ReceiveFacts ==
  ASSUME IInv, NEW c \in Call, Receive(c)
  PROVE  /\ stdout' \in Seq(Call) /\ Once(stdout')
         /\ Elems(stdout') \subseteq Elems(stdout) \ {c}
         /\ verdict[c] = "none" /\ call[c] \notin {"none", "ran"}
         /\ \A l \in Replies : l.of # c
<1> USE DEF IInv
<1>1. /\ Tail(stdout) \in Seq(Call) /\ Head(stdout) \in Elems(stdout)
      /\ Elems(Tail(stdout)) \subseteq Elems(stdout)
      /\ Once(Tail(stdout)) /\ Head(stdout) \notin Elems(Tail(stdout))
  BY TailElems DEF Receive, ApprovalTypeOK, AskedOnce
<1>2. stdout' = Tail(stdout) /\ c = Head(stdout)
  BY DEF Receive
<1>3. c \in Elems(stdout) /\ verdict[c] = "none" /\ call[c] # "none"
  BY <1>1, <1>2 DEF AskedOnce, NothingSaid
<1>4. call[c] # "ran" /\ \A l \in Replies : l.of # c
  BY <1>3 DEF NoReplyYet
<1> QED
  BY <1>1, <1>2, <1>3, <1>4

\* A request that is answered without the user.
LEMMA AnswerStep ==
  ASSUME IInv, ApprovalTypeOK', NEW c \in Call, Receive(c),
         NEW answer, \A l \in Replies' : l \in Replies \/ (l.of = c /\ l.answer = answer),
         UNCHANGED <<approvalTimers, pendingPermissions, history>>
  PROVE  IInv'
<1> USE DEF IInv, history
<1>1. /\ Once(stdout') /\ Elems(stdout') \subseteq Elems(stdout) \ {c}
      /\ verdict[c] = "none" /\ call[c] \notin {"none", "ran"}
  BY ReceiveFacts
<1>2. UNCHANGED <<call, approvedBySession>>
  BY DEF Receive, calls
<1>3. AskedOnce' /\ NothingSaid'
  BY <1>1, <1>2 DEF AskedOnce, NothingSaid
<1>4. NoReplyYet'
  BY <1>1, <1>2 DEF NoReplyYet
<1>5. RepliesAgree'
  BY <1>1 DEF RepliesAgree
<1>6. FirstAnswerInv' /\ AlwaysIsMeantAndKept' /\ AlwaysKept'
  BY <1>2 DEF FirstAnswerInv, AlwaysIsMeantAndKept, AlwaysKept
<1> QED
  BY <1>3, <1>4, <1>5, <1>6

\* A request the user is asked about.
LEMMA AskStep ==
  ASSUME IInv, ApprovalTypeOK', NEW c \in Call, Receive(c), Ask(c), UNCHANGED stdin,
         approvalTimers' \union pendingPermissions'
           = approvalTimers \union pendingPermissions \union {c},
         c \in McpCall => ToolOf[c] \notin approvedBySession
  PROVE  IInv'
<1> USE DEF IInv
<1>1. /\ Once(stdout') /\ Elems(stdout') \subseteq Elems(stdout) \ {c}
      /\ verdict[c] = "none" /\ call[c] \notin {"none", "ran"}
      /\ \A l \in Replies : l.of # c
  BY ReceiveFacts
<1>2. UNCHANGED <<call, approvedBySession, wantsAlways>> /\ Replies' = Replies
  BY DEF Receive, calls, Ask, Replies
<1>3. \A d \in Call : verdict'[d] = IF d = c THEN "open" ELSE verdict[d]
  BY DEF Ask, ApprovalTypeOK
<1>4. AskedOnce' /\ NothingSaid'
  BY <1>1, <1>2, <1>3 DEF AskedOnce, NothingSaid
<1>5. NoReplyYet'
  BY <1>1, <1>2, <1>3 DEF NoReplyYet
<1>6. RepliesAgree'
  BY <1>1, <1>2, <1>3, PipeFacts DEF RepliesAgree
<1>7. FirstAnswerInv'
  BY <1>1, <1>2, <1>3 DEF FirstAnswerInv
<1>8. AlwaysIsMeantAndKept' /\ AlwaysKept'
  BY <1>2 DEF AlwaysIsMeantAndKept, AlwaysKept, Ask
<1> QED
  BY <1>4, <1>5, <1>6, <1>7, <1>8

\* handlePreToolUseRequest, without the user ...
LEMMA AnswerPreToolUseStep == ASSUME IInv, NEW c \in Call, AnswerPreToolUse(c) PROVE IInv'
<1> USE DEF IInv
<1>1. PICK answer \in CheckedAnswer :
        stdin' = Sent(<<Reply("pre_tool_use_response", c, answer)>>)
  BY DEF AnswerPreToolUse
<1>2. answer \in Answer /\ "pre_tool_use_response" \in ReplyType
  BY DEF CheckedAnswer, Answer, ReplyType
<1>3. /\ stdin' \in Seq(Line)
      /\ \A l \in Replies' : l \in Replies \/ (l.of = c /\ l.answer = answer)
  BY <1>1, <1>2, SendReply
<1>4. Receive(c) /\ stdout' \in Seq(Call)
  BY ReceiveFacts DEF AnswerPreToolUse
<1>5. ApprovalTypeOK'
  BY <1>3, <1>4 DEF AnswerPreToolUse, Receive, calls, history, ApprovalTypeOK
<1> QED
  BY <1>3, <1>4, <1>5, AnswerStep DEF AnswerPreToolUse

\* Asking keeps the types of the history.
LEMMA AskType ==
  ASSUME ApprovalTypeOK, NEW c \in Call, Ask(c)
  PROVE  /\ verdict' \in [Call -> Answer \union {"none", "open"}]
         /\ wantsAlways' \subseteq Tool /\ askedAgain' \subseteq Call
BY DEF ApprovalTypeOK, Ask

\* ... and with it.
LEMMA PromptUserStep == ASSUME IInv, NEW c \in Call, PromptUser(c) PROVE IInv'
<1> USE DEF IInv
<1>1. Receive(c) /\ Ask(c) /\ stdout' \in Seq(Call)
  BY ReceiveFacts DEF PromptUser
<1>2. ApprovalTypeOK'
  BY <1>1, AskType DEF PromptUser, Receive, calls, ApprovalTypeOK
<1> QED
  BY <1>1, <1>2, AskStep DEF PromptUser

\* handleMcpApprovalRequest.
LEMMA HandleMcpApprovalRequestStep ==
  ASSUME IInv, NEW c \in Call, HandleMcpApprovalRequest(c) PROVE IInv'
<1> USE DEF IInv, HandleMcpApprovalRequest
<1>1. Receive(c) /\ stdout' \in Seq(Call) /\ UNCHANGED pendingPermissions
  BY ReceiveFacts
<1>2. CASE mode = "allow-all" \/ ToolOf[c] \in approvedBySession
  <2>1. "always" \in Answer /\ "mcp_approval_response" \in ReplyType
    BY DEF Answer, ReplyType
  <2>2. /\ stdin' \in Seq(Line)
        /\ \A l \in Replies' : l \in Replies \/ (l.of = c /\ l.answer = "always")
    BY <1>2, <2>1, SendReply
  <2>3. ApprovalTypeOK'
    BY <1>1, <1>2, <2>2 DEF Receive, calls, history, ApprovalTypeOK
  <2> QED
    BY <1>1, <1>2, <2>2, <2>3, AnswerStep
<1>3. CASE ~(mode = "allow-all" \/ ToolOf[c] \in approvedBySession)
  <2>1. Ask(c) /\ UNCHANGED stdin /\ approvalTimers' = approvalTimers \union {c}
    BY <1>3 DEF ScheduleApprovalAutoDeny
  <2>2. ApprovalTypeOK'
    BY <1>1, <2>1, AskType DEF Receive, calls, ApprovalTypeOK
  <2> QED
    BY <1>1, <1>3, <2>1, <2>2, AskStep
<1> QED
  BY <1>2, <1>3

-----------------------------------------------------------------------------
(* Steps of the main process: answers to requests *)

\* An answer to requests that are open is the first one, closes them, and is what
\* the replies that go with it say. An answer "always" is remembered for MCP tools.
LEMMA AnsweredStep ==
  ASSUME IInv, ApprovalTypeOK', NEW answer \in Answer,
         NEW cs \in SUBSET (approvalTimers \union pendingPermissions),
         Answered(cs, answer), UNCHANGED <<call, stdout>>,
         approvalTimers' \union pendingPermissions'
           = (approvalTimers \union pendingPermissions) \ cs,
         \A l \in Replies' : l \in Replies \/ (l.of \in cs /\ l.answer = answer),
         approvedBySession \subseteq approvedBySession',
         \A c \in cs \intersect McpCall : answer = "always" => ToolOf[c] \in approvedBySession',
         \A t \in approvedBySession' \ approvedBySession :
           answer = "always" /\ \E c \in cs : t = ToolOf[c]
  PROVE  IInv'
<1> USE DEF IInv
<1>1. cs \subseteq {c \in Call : verdict[c] = "open"}
  BY DEF FirstAnswerInv
<1>2. \A d \in Call : verdict'[d] = IF d \in cs THEN answer ELSE verdict[d]
  BY <1>1 DEF Answered, ApprovalTypeOK
<1>3. \A c \in cs : c \notin Elems(stdout) /\ call[c] \notin {"none", "ran"}
                    /\ \A l \in Replies : l.of # c
  BY <1>1 DEF NothingSaid, NoReplyYet
<1>4. answer # "open" /\ answer # "none"
  BY DEF Answer
<1>5. AskedOnce'
  BY DEF AskedOnce
<1>6. NothingSaid'
  BY <1>2, <1>3 DEF NothingSaid
<1>7. NoReplyYet'
  BY <1>2, <1>3, <1>4 DEF NoReplyYet
<1>8. RepliesAgree'
  <2> SUFFICES ASSUME NEW l \in Replies', l.answer # "deny"
               PROVE  verdict'[l.of] \in {"none"} \union Allowing
    BY DEF RepliesAgree
  <2>1. CASE l \in Replies
    BY <1>2, <1>3, <2>1, PipeFacts DEF RepliesAgree
  <2>2. CASE l.of \in cs /\ l.answer = answer
    BY <1>1, <1>2, <2>2 DEF Answer, Allowing
  <2> QED
    BY <2>1, <2>2
<1>9. FirstAnswerInv'
  <2>1. \A c \in Call : call'[c] = "ran" => verdict'[c] \in {"none", "once", "always"}
    BY <1>2, <1>3 DEF FirstAnswerInv
  <2>2. {c \in Call : verdict'[c] = "open"} = approvalTimers' \union pendingPermissions'
    BY <1>2, <1>4 DEF FirstAnswerInv
  <2> QED
    BY <2>1, <2>2 DEF FirstAnswerInv
<1>10. wantsAlways' = wantsAlways \union
                       (IF answer = "always" THEN {ToolOf[c] : c \in cs} ELSE {})
  BY <1>1 DEF Answered
<1>11. AlwaysIsMeantAndKept'
  BY <1>10 DEF AlwaysIsMeantAndKept, Answered
<1>12. AlwaysKept'
  <2> SUFFICES ASSUME NEW m \in McpCall, ToolOf[m] \in wantsAlways'
               PROVE  ToolOf[m] \in approvedBySession'
    BY DEF AlwaysKept
  <2>1. CASE ToolOf[m] \in wantsAlways
    BY <2>1 DEF AlwaysKept
  <2>2. CASE answer = "always" /\ \E c \in cs : ToolOf[m] = ToolOf[c]
    BY <1>1, <2>2, ToolKinds
  <2> QED
    BY <1>10, <2>1, <2>2
<1> QED
  BY <1>5, <1>6, <1>7, <1>8, <1>9, <1>11, <1>12

\* An answer keeps the types of the history.
LEMMA AnsweredType ==
  ASSUME ApprovalTypeOK, NEW cs \in SUBSET Call, NEW answer \in Answer, Answered(cs, answer)
  PROVE  /\ verdict' \in [Call -> Answer \union {"none", "open"}]
         /\ wantsAlways' \subseteq Tool /\ askedAgain' \subseteq Call
BY ApprovalBounds DEF ApprovalTypeOK, Answered

\* The auto-deny timer.
LEMMA AutoDenyStep == ASSUME IInv, NEW c \in Call, AutoDeny(c) PROVE IInv'
<1> USE DEF IInv, AutoDeny, DropTimer
<1>1. "deny" \in Answer /\ "mcp_approval_response" \in ReplyType
  BY DEF Answer, ReplyType
<1>2. /\ stdin' \in Seq(Line)
      /\ \A l \in Replies' : l \in Replies \/ (l.of = c /\ l.answer = "deny")
  BY <1>1, SendReply
<1>3. ApprovalTypeOK'
  BY <1>1, <1>2, AnsweredType DEF calls, ApprovalTypeOK
<1>4. c \notin pendingPermissions /\ UNCHANGED call
  BY DEF ApprovalTypeOK, calls
<1> QED
  BY <1>1, <1>2, <1>3, <1>4, AnsweredStep

\* respondToPermission.
LEMMA RespondToPermissionStep ==
  ASSUME IInv, NEW c \in Call, NEW answer \in Answer, RespondToPermission(c, answer)
  PROVE  IInv'
<1> USE DEF IInv
<1>1. Answered({c}, answer) /\ UNCHANGED <<mode, isProcessing, alive, stdout, running, aborting,
                                         calls, events>>
  BY DEF RespondToPermission
<1>2. UNCHANGED call
  BY <1>1 DEF calls
<1>3. "mcp_approval_response" \in ReplyType /\ "pre_tool_use_response" \in ReplyType
  BY DEF ReplyType
<1>4. CASE c \in approvalTimers
  <2>1. c \in McpCall /\ c \notin pendingPermissions
    BY <1>4 DEF ApprovalTypeOK
  <2>2. /\ RememberApproval(c, answer)
        /\ approvalTimers' = approvalTimers \ {c}
        /\ stdin' = Sent(<<Reply("mcp_approval_response", c, answer)>>)
        /\ UNCHANGED pendingPermissions
    BY <2>1 DEF RespondToPermission, DropTimer
  <2>3. /\ stdin' \in Seq(Line)
        /\ \A l \in Replies' : l \in Replies \/ (l.of = c /\ l.answer = answer)
    BY <1>3, <2>2, SendReply
  <2>4. /\ approvedBySession \subseteq approvedBySession' /\ approvedBySession' \subseteq Tool
        /\ answer = "always" => ToolOf[c] \in approvedBySession'
        /\ \A t \in approvedBySession' \ approvedBySession : answer = "always" /\ t = ToolOf[c]
    BY <2>2, ApprovalBounds DEF RememberApproval, ApprovalTypeOK
  <2>5. ApprovalTypeOK'
    BY <1>1, <2>2, <2>3, <2>4, AnsweredType DEF calls, ApprovalTypeOK
  <2> QED
    BY <1>1, <1>2, <1>4, <2>1, <2>2, <2>3, <2>4, <2>5, AnsweredStep
<1>5. CASE c \in pendingPermissions
  <2>1. c \notin McpCall /\ c \notin approvalTimers
    BY <1>5 DEF ApprovalTypeOK
  <2>2. /\ pendingPermissions' = pendingPermissions \ {c}
        /\ stdin' = Sent(<<Reply("pre_tool_use_response", c, answer)>>)
        /\ UNCHANGED <<approvedBySession, approvalTimers>>
    BY <2>1 DEF RespondToPermission
  <2>3. /\ stdin' \in Seq(Line)
        /\ \A l \in Replies' : l \in Replies \/ (l.of = c /\ l.answer = answer)
    BY <1>3, <2>2, SendReply
  <2>4. ApprovalTypeOK'
    BY <1>1, <2>2, <2>3, AnsweredType DEF calls, ApprovalTypeOK
  <2> QED
    BY <1>1, <1>2, <1>5, <2>1, <2>2, <2>3, <2>4, AnsweredStep
<1> QED
  BY <1>4, <1>5 DEF RespondToPermission

\* The lines of a stop: the abort, and a denial of every permission that waits.
LEMMA DenyPendingFacts ==
  ASSUME ApprovalTypeOK, DenyPending
  PROVE  /\ stdin' \in Seq(Line)
         /\ \A l \in Replies' : \/ l \in Replies
                                \/ l.of \in pendingPermissions /\ l.answer = "deny"
<1>1. PICK q \in Orders(pendingPermissions) :
        stdin' = Sent(<<[type |-> "abort"]>>
                      \o [i \in DOMAIN q |-> Reply("pre_tool_use_response", q[i], "deny")])
  BY DEF DenyPending
<1> DEFINE abort == [type |-> "abort"]
           n == Cardinality(pendingPermissions)
           denials == [i \in 1..n |-> Reply("pre_tool_use_response", q[i], "deny")]
<1>2. n \in Nat /\ pendingPermissions \subseteq Call
  BY ApprovalBounds, FS_Subset, FS_CardinalityType DEF ApprovalTypeOK
<1>3. q \in [1..n -> pendingPermissions]
  BY DEF Orders
<1>4. abort \in Line /\ abort.type \notin ReplyType
  BY LineFacts
<1>5. \A i \in 1..n : /\ denials[i] \in Line /\ denials[i].of \in pendingPermissions
                      /\ denials[i].answer = "deny"
  <2>1. "pre_tool_use_response" \in ReplyType /\ "deny" \in Answer
    BY DEF ReplyType, Answer
  <2> QED
    BY <1>2, <1>3, <2>1, LineFacts
<1>6. stdin' = Sent(<<abort>> \o denials)
  BY <1>1, <1>3
<1> HIDE DEF abort, denials, n
<1>7. denials \in Seq(Line) /\ Len(denials) = n
  <2>1. denials \in [1..n -> Line]
    BY <1>5 DEF denials
  <2> QED
    BY <1>2, <2>1, LenProperties
<1>8. <<abort>> \in Seq(Line) /\ Len(<<abort>>) = 1 /\ <<abort>>[1] = abort
  BY <1>4
<1>9. /\ <<abort>> \o denials \in Seq(Line)
      /\ Len(<<abort>> \o denials) = 1 + n
      /\ \A i \in 1..(1 + n) : (<<abort>> \o denials)[i] =
           IF i <= 1 THEN <<abort>>[i] ELSE denials[i - 1]
  BY <1>7, <1>8, ConcatProperties
<1>10. \A l \in Elems(<<abort>> \o denials) :
         l.type \in ReplyType => l.of \in pendingPermissions /\ l.answer = "deny"
  <2> SUFFICES ASSUME NEW i \in 1..(1 + n)
               PROVE  LET l == (<<abort>> \o denials)[i]
                      IN l = abort \/ (l.of \in pendingPermissions /\ l.answer = "deny")
    BY <1>4, <1>9 DEF Elems
  <2>1. CASE i = 1
    BY <1>8, <1>9, <2>1
  <2>2. CASE i # 1
    <3>1. i - 1 \in 1..n /\ ~(i <= 1)
      BY <1>2, <2>2
    <3> QED
      BY <1>5, <1>9, <3>1
  <2> QED
    BY <2>1, <2>2
<1>11. stdin' \in Seq(Line) /\ Elems(stdin') \subseteq Elems(stdin) \union Elems(<<abort>> \o denials)
  BY <1>6, <1>9, SentElems DEF ApprovalTypeOK
<1> QED
  BY <1>10, <1>11 DEF Replies

\* forceAbort.
LEMMA ForceAbortStep == ASSUME IInv, ForceAbort PROVE IInv'
<1> USE DEF IInv
<1>1. /\ DenyPending /\ Answered(pendingPermissions, "deny") /\ pendingPermissions' = {}
      /\ UNCHANGED <<mode, approvedBySession, approvalTimers, alive, stdout, running, aborting>>
      /\ UNCHANGED calls /\ isProcessing' = FALSE
  BY DEF ForceAbort, DenyPending
<1>2. /\ stdin' \in Seq(Line)
      /\ \A l \in Replies' : \/ l \in Replies
                             \/ l.of \in pendingPermissions /\ l.answer = "deny"
  BY <1>1, DenyPendingFacts
<1>3. pendingPermissions \subseteq Call \ McpCall /\ approvalTimers \subseteq McpCall
  BY DEF ApprovalTypeOK
<1>4. events' \in 0..MaxEvent
  BY ApprovalBounds DEF ForceAbort, ApprovalTypeOK
<1>5. "deny" \in Answer
  BY DEF Answer
<1>6. ApprovalTypeOK'
  BY <1>1, <1>2, <1>3, <1>4, <1>5, AnsweredType DEF calls, ApprovalTypeOK
<1>7. UNCHANGED call
  BY <1>1 DEF calls
<1> QED
  BY <1>1, <1>2, <1>3, <1>5, <1>6, <1>7, AnsweredStep

-----------------------------------------------------------------------------
(* The invariant *)

\* Every step keeps the invariant.
LEMMA StepInv == IInv /\ [ApprovalNext]_approvalVars => IInv'
<1> SUFFICES ASSUME IInv, [ApprovalNext]_approvalVars PROVE IInv'
  OBVIOUS
<1>1. ASSUME NEW c \in Call,
             CallTool(c) \/ CallMcpTool(c) \/ MainReads(c) \/ AutoDeny(c)
               \/ \E answer \in Answer : RespondToPermission(c, answer)
      PROVE  IInv'
  BY <1>1, CallToolStep, CallMcpToolStep, AnswerPreToolUseStep, PromptUserStep,
     HandleMcpApprovalRequestStep, AutoDenyStep, RespondToPermissionStep DEF MainReads
<1>2. CASE SubprocessReads \/ AbortReturns
  BY <1>2, ReadPreToolUseResponseStep, ReadMcpResponseStep, ReadPromptStep, ReadAbortStep,
     AbortReturnsStep DEF SubprocessReads
<1>3. ASSUME NEW m \in Mode, SetSessionPermissionMode(m) PROVE IInv'
  BY <1>3, SetModeStep
<1>4. CASE StartTurn \/ ForceAbort \/ TurnEnds \/ HandleSubprocessExit
  BY <1>4, StartTurnStep, ForceAbortStep, TurnEndsStep, HandleSubprocessExitStep
<1>5. CASE UNCHANGED approvalVars
  <2>1. UNCHANGED <<approvedBySession, approvalTimers, pendingPermissions, history, stdout, call>>
    BY <1>5 DEF approvalVars, decisions, pipes, calls
  <2>2. ApprovalTypeOK'
    BY <1>5 DEF approvalVars, decisions, pipes, calls, history, ApprovalTypeOK, IInv
  <2>3. Replies' = Replies
    BY <1>5 DEF approvalVars, pipes, Replies
  <2> QED
    BY <2>1, <2>2, <2>3, QuietStep DEF AskedOnce, IInv
<1> QED
  BY <1>1, <1>2, <1>3, <1>4, <1>5 DEF ApprovalNext

\* The invariant holds in every reachable state.
THEOREM InvariantHolds == ApprovalSpec => []IInv
<1> QED
  BY InitInv, StepInv, PTL DEF ApprovalSpec

-----------------------------------------------------------------------------
(* No call waits for an answer that is not to come *)

ReplyTo(c, answer) == Reply(ResponseTo(c), c, answer)
Asked(c) == c \in Elems(stdout) \/ c \in approvalTimers \union pendingPermissions
ReplyComes(c) == \E answer \in Answer : ReplyTo(c, answer) \in Elems(stdin)

\* Nothing runs or is under way to a subprocess that is not there; and a call that
\* waits has its request, its question or its answer under way.
WaitInv ==
  /\ ~alive => stdin = <<>> /\ ~running /\ \A c \in Call : call[c] # "waiting"
  /\ \A c \in Call : call[c] = "waiting" => Asked(c) \/ ReplyComes(c)

\* Lines that are sent to a subprocess that lives are under way with the others.
LEMMA SentArrives ==
  ASSUME stdin \in Seq(Line), NEW lines \in Seq(Line)
  PROVE  /\ Elems(stdin) \subseteq Elems(Sent(lines))
         /\ alive => Elems(lines) \subseteq Elems(Sent(lines))
         /\ ~alive => Sent(lines) = stdin
<1>1. Len(stdin) \in Nat /\ Len(lines) \in Nat
  BY LenProperties
<1>2. /\ Len(stdin \o lines) = Len(stdin) + Len(lines)
      /\ \A i \in 1..(Len(stdin) + Len(lines)) : (stdin \o lines)[i] =
           IF i <= Len(stdin) THEN stdin[i] ELSE lines[i - Len(stdin)]
  BY ConcatProperties
<1>3. ASSUME NEW i \in 1..Len(stdin) PROVE stdin[i] \in Elems(stdin \o lines)
  <2>1. i \in 1..(Len(stdin) + Len(lines)) /\ i <= Len(stdin)
    BY <1>1
  <2> QED
    BY <1>2, <2>1 DEF Elems
<1>4. ASSUME NEW i \in 1..Len(lines) PROVE lines[i] \in Elems(stdin \o lines)
  <2>1. /\ Len(stdin) + i \in 1..(Len(stdin) + Len(lines)) /\ ~(Len(stdin) + i <= Len(stdin))
        /\ Len(stdin) + i - Len(stdin) = i
    BY <1>1
  <2>2. (stdin \o lines)[Len(stdin) + i] = lines[i]
    BY <1>2, <2>1
  <2> QED
    BY <1>2, <2>1, <2>2 DEF Elems
<1>5. Elems(stdin) \subseteq Elems(stdin \o lines)
  BY <1>3 DEF Elems
<1>6. Elems(lines) \subseteq Elems(stdin \o lines)
  BY <1>4 DEF Elems
<1> QED
  BY <1>5, <1>6 DEF Sent

\* Only the first element leaves a queue.
LEMMA TailKeeps ==
  ASSUME NEW S, NEW s \in Seq(S), s # <<>>
  PROVE  Elems(s) \subseteq Elems(Tail(s)) \union {Head(s)}
<1>1. Len(s) \in Nat \ {0}
  BY EmptySeq
<1>2. /\ Len(Tail(s)) = Len(s) - 1
      /\ \A i \in 1..(Len(s) - 1) : Tail(s)[i] = s[i + 1]
  BY HeadTailProperties
<1> SUFFICES ASSUME NEW i \in 1..Len(s) PROVE s[i] \in Elems(Tail(s)) \union {Head(s)}
  BY DEF Elems
<1>3. CASE i = 1
  BY <1>1, <1>3
<1>4. CASE i # 1
  <2>1. i - 1 \in 1..(Len(s) - 1) /\ (i - 1) + 1 = i
    BY <1>1, <1>4
  <2>2. Tail(s)[i - 1] = s[i]
    BY <1>2, <2>1
  <2> QED
    BY <1>2, <2>1, <2>2 DEF Elems
<1> QED
  BY <1>3, <1>4

\* A reply is of its call, and of the kind that its call takes.
LEMMA ReplyFacts ==
  ASSUME NEW c \in Call, NEW answer \in Answer
  PROVE  /\ ResponseTo(c) \in ReplyType /\ ReplyTo(c, answer) \in Line
         /\ ReplyTo(c, answer).of = c /\ ReplyTo(c, answer).type = ResponseTo(c)
BY LineFacts DEF ReplyTo, ResponseTo, ReplyType

LEMMA InitWait == ApprovalInit => WaitInv
BY DEF ApprovalInit, WaitInv

\* Steps of the subprocess that read nothing, and of the main process that send
\* nothing away: who waits, waited before, and nothing is lost.
LEMMA KeepsWait ==
  ASSUME IInv, WaitInv,
         alive => alive', alive' \/ UNCHANGED <<stdin, running>>,
         Elems(stdin) \subseteq Elems(stdin'), Elems(stdout) \subseteq Elems(stdout'),
         UNCHANGED <<approvalTimers, pendingPermissions>>,
         \A c \in Call : call'[c] = "waiting" =>
           alive /\ (call[c] = "waiting" \/ c \in Elems(stdout'))
  PROVE  WaitInv'
BY DEF WaitInv, Asked, ReplyComes, ReplyTo, Reply, ResponseTo

\* A line is read: the reply to a call that waits settles it.
LEMMA ReadsWait ==
  ASSUME IInv, WaitInv, SubprocessReads
  PROVE  WaitInv'
<1> USE DEF IInv
<1>1. stdin \in Seq(Line) /\ stdin # <<>> /\ stdin' = Tail(stdin) /\ alive
      /\ Head(stdin).type \in {"prompt", "abort"} \union ReplyType
      /\ UNCHANGED <<alive, stdout, approvalTimers, pendingPermissions>>
  BY DEF SubprocessReads, ReadPreToolUseResponse, ReadMcpResponse, ReadPrompt, ReadAbort, Read,
     decisions, ApprovalTypeOK, WaitInv, ReplyType
<1>2. Elems(stdin) \subseteq Elems(stdin') \union {Head(stdin)}
  BY <1>1, TailKeeps
<1>3. \A c \in Call : call'[c] = "waiting" => call[c] = "waiting"
  BY DEF SubprocessReads, ReadPreToolUseResponse, ReadMcpResponse, ReadPrompt, ReadAbort,
     Settled, ApprovalTypeOK
<1>4. ASSUME NEW c \in Call, call'[c] = "waiting", NEW answer \in Answer
      PROVE  Head(stdin) # ReplyTo(c, answer)
  <2> SUFFICES ASSUME Head(stdin) = ReplyTo(c, answer) PROVE FALSE
    OBVIOUS
  <2>1. Head(stdin).of = c /\ Head(stdin).type = ResponseTo(c)
    BY ReplyFacts
  <2>2. CASE c \in McpCall
    <3>1. Head(stdin).type = "mcp_approval_response"
      BY <2>1, <2>2 DEF ResponseTo
    <3>2. ReadMcpResponse
      BY <3>1 DEF SubprocessReads, ReadPreToolUseResponse, ReadPrompt, ReadAbort, Read
    <3>3. c \in pendingApprovals
      BY <1>3, <1>4, <2>2 DEF ApprovalTypeOK
    <3>4. call' = Settled(c, Head(stdin).answer)
      BY <2>1, <3>2, <3>3 DEF ReadMcpResponse
    <3> QED
      BY <1>4, <3>4 DEF Settled, ApprovalTypeOK
  <2>3. CASE c \notin McpCall
    <3>1. Head(stdin).type = "pre_tool_use_response"
      BY <2>1, <2>3 DEF ResponseTo
    <3>2. ReadPreToolUseResponse
      BY <3>1 DEF SubprocessReads, ReadMcpResponse, ReadPrompt, ReadAbort, Read
    <3>3. c \in pendingPreToolUse
      BY <1>3, <1>4, <2>3 DEF ApprovalTypeOK
    <3>4. call' = Settled(c, Head(stdin).answer)
      BY <2>1, <3>2, <3>3 DEF ReadPreToolUseResponse
    <3> QED
      BY <1>4, <3>4 DEF Settled, ApprovalTypeOK
  <2> QED
    BY <2>2, <2>3
<1>5. ASSUME NEW c \in Call, call'[c] = "waiting"
      PROVE  Asked(c)' \/ ReplyComes(c)'
  <2>1. CASE Asked(c)
    BY <1>1, <2>1 DEF Asked
  <2>2. CASE ReplyComes(c)
    <3>1. PICK answer \in Answer : ReplyTo(c, answer) \in Elems(stdin)
      BY <2>2 DEF ReplyComes
    <3>2. ReplyTo(c, answer) \in Elems(stdin')
      BY <1>2, <1>4, <1>5, <3>1
    <3> QED
      BY <3>2 DEF ReplyComes, ReplyTo, Reply, ResponseTo
  <2> QED
    BY <1>3, <1>5, <2>1, <2>2 DEF WaitInv
<1> QED
  BY <1>1, <1>5 DEF WaitInv

\* The main process moves on: a request or a question makes way for what follows it.
LEMMA MovesWait ==
  ASSUME IInv, WaitInv, UNCHANGED <<alive, running, call>>,
         ~alive => stdin' = stdin,
         Elems(stdin) \subseteq Elems(stdin'),
         \A c \in Call : call[c] = "waiting" /\ Asked(c) => Asked(c)' \/ ReplyComes(c)'
  PROVE  WaitInv'
<1>1. \A c \in Call : ReplyComes(c) => ReplyComes(c)'
  BY DEF ReplyComes, ReplyTo, Reply, ResponseTo
<1> QED
  BY <1>1 DEF WaitInv

\* The reply that is sent to a call that waits is under way.
LEMMA ReplyArrives ==
  ASSUME IInv, WaitInv, NEW c \in Call, NEW answer \in Answer, NEW type, type = ResponseTo(c),
         stdin' = Sent(<<Reply(type, c, answer)>>)
  PROVE  /\ Elems(stdin) \subseteq Elems(stdin')
         /\ ~alive => stdin' = stdin
         /\ call[c] = "waiting" => ReplyComes(c)'
<1> DEFINE reply == ReplyTo(c, answer)
<1>1. reply \in Line
  BY ReplyFacts
<1>2. stdin' = Sent(<<reply>>)
  BY DEF ReplyTo
<1>3. reply = ReplyTo(c, answer)'
  BY DEF ReplyTo, Reply, ResponseTo
<1> HIDE DEF reply
<1>4. <<reply>> \in Seq(Line) /\ Elems(<<reply>>) = {reply} /\ stdin \in Seq(Line)
  BY <1>1 DEF Elems, IInv, ApprovalTypeOK
<1>5. /\ Elems(stdin) \subseteq Elems(stdin')
      /\ ~alive => stdin' = stdin
      /\ alive => reply \in Elems(stdin')
  BY <1>2, <1>4, SentArrives
<1>6. alive => ReplyComes(c)'
  BY <1>3, <1>5 DEF ReplyComes
<1>7. call[c] = "waiting" => alive
  BY DEF WaitInv
<1> QED
  BY <1>5, <1>6, <1>7

\* A stop replies to every call whose question is open.
LEMMA StopWait == ASSUME IInv, WaitInv, ForceAbort PROVE WaitInv'
<1> USE DEF IInv
<1>1. UNCHANGED <<alive, running, call, stdout, approvalTimers>> /\ DenyPending
  BY DEF ForceAbort, calls
<1>2. PICK q \in Orders(pendingPermissions) :
        stdin' = Sent(<<[type |-> "abort"]>>
                      \o [i \in DOMAIN q |-> Reply("pre_tool_use_response", q[i], "deny")])
  BY <1>1 DEF DenyPending
<1> DEFINE abort == [type |-> "abort"]
           n == Cardinality(pendingPermissions)
           denials == [i \in 1..n |-> Reply("pre_tool_use_response", q[i], "deny")]
           lines == <<abort>> \o denials
<1>3. n \in Nat /\ pendingPermissions \subseteq Call \ McpCall
  BY ApprovalBounds, FS_Subset, FS_CardinalityType DEF ApprovalTypeOK
<1>4. q \in [1..n -> pendingPermissions] /\ pendingPermissions = {q[i] : i \in 1..n}
  BY DEF Orders
<1>5. "deny" \in Answer /\ "pre_tool_use_response" \in ReplyType /\ abort \in Line
  BY LineFacts DEF Answer, ReplyType
<1>6. \A i \in 1..n : denials[i] \in Line
  BY <1>3, <1>4, <1>5, LineFacts
<1>7. ASSUME NEW c \in pendingPermissions PROVE \E i \in 1..n : denials[i] = ReplyTo(c, "deny")
  BY <1>3, <1>4 DEF ReplyTo, ResponseTo
<1>8. stdin' = Sent(lines)
  BY <1>2, <1>4
<1>9. denials \in Seq(Line) /\ Len(denials) = n
  <2>1. denials \in [1..n -> Line]
    BY <1>6
  <2> QED
    BY <1>3, <2>1, LenProperties
<1> HIDE DEF abort, denials, n
<1>10. <<abort>> \in Seq(Line) /\ Len(<<abort>>) = 1
  BY <1>5
<1>11. /\ lines \in Seq(Line) /\ Len(lines) = 1 + n
       /\ \A i \in 1..(1 + n) : lines[i] = IF i <= 1 THEN <<abort>>[i] ELSE denials[i - 1]
  BY <1>9, <1>10, ConcatProperties
<1> HIDE DEF lines
<1>12. ASSUME NEW i \in 1..n PROVE denials[i] \in Elems(lines)
  <2>1. i + 1 \in 1..(1 + n) /\ ~(i + 1 <= 1) /\ (i + 1) - 1 = i
    BY <1>3
  <2>2. lines[i + 1] = denials[i]
    BY <1>11, <2>1
  <2> QED
    BY <1>11, <2>1, <2>2 DEF Elems
<1>13. /\ Elems(stdin) \subseteq Elems(stdin')
       /\ ~alive => stdin' = stdin
       /\ alive => Elems(lines) \subseteq Elems(stdin')
  BY <1>8, <1>11, SentArrives DEF ApprovalTypeOK
<1>14. ASSUME NEW c \in Call, call[c] = "waiting", Asked(c) PROVE Asked(c)' \/ ReplyComes(c)'
  <2>1. CASE c \in pendingPermissions
    <3>1. alive
      BY <1>14 DEF WaitInv
    <3>2. ReplyTo(c, "deny") \in Elems(stdin')
      BY <1>7, <1>12, <1>13, <2>1, <3>1
    <3> QED
      BY <1>5, <3>2 DEF ReplyComes, ReplyTo, Reply, ResponseTo
  <2>2. CASE c \notin pendingPermissions
    BY <1>1, <1>14, <2>2 DEF Asked
  <2> QED
    BY <2>1, <2>2
<1> QED
  BY <1>1, <1>13, <1>14, MovesWait

\* Every step that makes a call wait, or takes its request, its question or its reply
\* away, brings what follows it.
LEMMA StepWait ==
  ASSUME IInv, WaitInv, [ApprovalNext]_approvalVars
  PROVE  WaitInv'
<1> USE DEF IInv
<1>1. CASE \E c \in Call : CallTool(c) \/ CallMcpTool(c)
  <2>1. PICK c \in Call : CallTool(c) \/ CallMcpTool(c)
    BY <1>1
  <2>2. UNCHANGED <<approvalTimers, pendingPermissions, alive, stdin, running>> /\ alive
    BY <2>1 DEF CallTool, CallMcpTool, decisions, WaitInv, ApprovalTypeOK
  <2>3. \/ UNCHANGED stdout /\ call' = [call EXCEPT ![c] = "ran"]
        \/ stdout' = Append(stdout, c) /\ call' = [call EXCEPT ![c] = "waiting"]
    BY <2>1 DEF CallTool, CallMcpTool
  <2>4. Elems(Append(stdout, c)) = Elems(stdout) \union {c}
    BY AppendElems DEF ApprovalTypeOK
  <2>5. /\ Elems(stdout) \subseteq Elems(stdout')
        /\ \A d \in Call : call'[d] = "waiting" => call[d] = "waiting" \/ d \in Elems(stdout')
    BY <2>3, <2>4 DEF ApprovalTypeOK
  <2> QED
    BY <2>2, <2>5, KeepsWait
<1>2. CASE SubprocessReads
  BY <1>2, ReadsWait
<1>3. CASE \/ AbortReturns \/ TurnEnds \/ UNCHANGED approvalVars
           \/ \E m \in Mode : SetSessionPermissionMode(m)
  <2>1. UNCHANGED <<approvalTimers, pendingPermissions, alive, stdin, stdout>>
    BY <1>3 DEF AbortReturns, TurnEnds, SetSessionPermissionMode, approvalVars, decisions, pipes
  <2>2. running' => running
    BY <1>3 DEF AbortReturns, TurnEnds, SetSessionPermissionMode, approvalVars, ApprovalTypeOK
  <2>3. \A c \in Call : call'[c] = "waiting" => call[c] = "waiting"
    BY <1>3 DEF AbortReturns, TurnEnds, SetSessionPermissionMode, approvalVars, calls, ApprovalTypeOK
  <2>4. \A c \in Call : Asked(c)' = Asked(c) /\ ReplyComes(c)' = ReplyComes(c)
    BY <2>1 DEF Asked, ReplyComes, ReplyTo, Reply, ResponseTo
  <2> QED
    BY <2>1, <2>3, <2>4, <2>2 DEF WaitInv
<1>4. CASE StartTurn
  <2> DEFINE prompt == [type |-> "prompt"]
  <2>1. prompt \in Line /\ stdin' = Append(stdin, prompt)
    BY <1>4, LineFacts DEF StartTurn
  <2> HIDE DEF prompt
  <2>2. Elems(stdin') = Elems(stdin) \union {prompt}
    BY <2>1, AppendElems DEF ApprovalTypeOK
  <2>3. alive' /\ UNCHANGED <<approvalTimers, pendingPermissions, stdout, running, call>>
    BY <1>4 DEF StartTurn, decisions, calls
  <2>4. \A c \in Call : call[c] = "waiting" => alive
    BY DEF WaitInv
  <2> QED
    BY <2>2, <2>3, <2>4, KeepsWait
<1>5. CASE HandleSubprocessExit
  BY <1>5 DEF HandleSubprocessExit, WaitInv, ApprovalTypeOK
<1>6. ASSUME NEW c \in Call, MainReads(c) PROVE WaitInv'
  <2>1. stdout \in Seq(Call) /\ stdout # <<>> /\ stdout' = Tail(stdout) /\ Head(stdout) = c
        /\ UNCHANGED <<alive, running, call>>
    BY <1>6 DEF MainReads, AnswerPreToolUse, PromptUser, HandleMcpApprovalRequest, Receive, calls,
       ApprovalTypeOK
  <2>2. Elems(stdout) \subseteq Elems(stdout') \union {c}
    BY <2>1, TailKeeps
  <2>3. /\ approvalTimers \subseteq approvalTimers'
        /\ pendingPermissions \subseteq pendingPermissions'
    BY <1>6 DEF MainReads, AnswerPreToolUse, PromptUser, HandleMcpApprovalRequest,
       ScheduleApprovalAutoDeny
  <2>4. \A d \in Call \ {c} : Asked(d) => Asked(d)'
    BY <2>2, <2>3 DEF Asked
  <2>5. CASE UNCHANGED stdin /\ Asked(c)'
    BY <2>1, <2>4, <2>5, MovesWait
  <2>6. CASE \E answer \in Answer : stdin' = Sent(<<Reply(ResponseTo(c), c, answer)>>)
    <3>1. /\ Elems(stdin) \subseteq Elems(stdin')
          /\ ~alive => stdin' = stdin
          /\ call[c] = "waiting" => ReplyComes(c)'
      BY <2>6, ReplyArrives
    <3> QED
      BY <2>1, <2>4, <3>1, MovesWait
  <2>7. \/ UNCHANGED stdin /\ Asked(c)'
        \/ \E answer \in Answer : stdin' = Sent(<<Reply(ResponseTo(c), c, answer)>>)
    BY <1>6 DEF MainReads, AnswerPreToolUse, PromptUser, HandleMcpApprovalRequest, Asked, ResponseTo,
       ScheduleApprovalAutoDeny, CheckedAnswer, Answer
  <2> QED
    BY <2>5, <2>6, <2>7
<1>7. ASSUME NEW c \in Call, AutoDeny(c) \/ \E answer \in Answer : RespondToPermission(c, answer)
      PROVE  WaitInv'
  <2>1. UNCHANGED <<alive, running, call, stdout>>
    BY <1>7 DEF AutoDeny, RespondToPermission, calls
  <2>2. \E answer \in Answer : stdin' = Sent(<<Reply(ResponseTo(c), c, answer)>>)
    BY <1>7 DEF AutoDeny, RespondToPermission, ResponseTo, ApprovalTypeOK, Answer
  <2>3. \A d \in Call \ {c} : Asked(d) => Asked(d)'
    BY <1>7, <2>1 DEF AutoDeny, RespondToPermission, DropTimer, Asked
  <2>4. /\ Elems(stdin) \subseteq Elems(stdin')
        /\ ~alive => stdin' = stdin
        /\ call[c] = "waiting" => ReplyComes(c)'
    BY <2>2, ReplyArrives
  <2> QED
    BY <2>1, <2>3, <2>4, MovesWait
<1>8. CASE ForceAbort
  BY <1>8, StopWait
<1> QED
  BY <1>1, <1>2, <1>3, <1>4, <1>5, <1>6, <1>7, <1>8 DEF ApprovalNext
-----------------------------------------------------------------------------
(* Theorems *)

\* Types, and the subprocess waits for exactly the calls it has a promise for.
THEOREM TypesCorrect == ApprovalSpec => []ApprovalTypeOK
<1>1. IInv => ApprovalTypeOK
  BY DEF IInv
<1> QED
  BY <1>1, InvariantHolds, PTL

\* A call the user was asked about runs only if the first answer allowed it, the
\* requests without an answer are exactly those that can still get one, and no call
\* waits for an answer that is not to come.
THEOREM FirstAnswerDecides == ApprovalSpec => []FirstAnswerCounts
<1>1. ApprovalSpec => []WaitInv
  <2>1. IInv /\ WaitInv /\ [ApprovalNext]_approvalVars => WaitInv'
    BY StepWait
  <2> QED
    BY <2>1, InitWait, InvariantHolds, PTL DEF ApprovalSpec
<1>2. IInv /\ WaitInv => FirstAnswerCounts
  <2> SUFFICES ASSUME IInv, WaitInv, NEW c \in Call, call[c] = "waiting"
               PROVE  AnswerToCome(c)
    BY DEF FirstAnswerCounts, FirstAnswerInv, IInv
  <2>1. DOMAIN stdout = 1..Len(stdout) /\ DOMAIN stdin = 1..Len(stdin)
    BY LenProperties DEF IInv, ApprovalTypeOK
  <2> QED
    BY <2>1 DEF WaitInv, Asked, ReplyComes, ReplyTo, AnswerToCome, Elems
<1> QED
  BY <1>1, <1>2, InvariantHolds, PTL

\* "Always allow" is remembered for what the user allowed in time, and an MCP tool
\* allowed always is not asked about again.
THEOREM AlwaysIsRemembered == ApprovalSpec => []AlwaysIsMeantAndKept
<1>1. IInv => AlwaysIsMeantAndKept
  BY DEF IInv
<1> QED
  BY <1>1, InvariantHolds, PTL

=============================================================================
