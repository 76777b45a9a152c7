---------------------------- MODULE RuntimeRefresh ----------------------------
(***************************************************************************)
(* Under which connection and model a turn of a session runs: the picked   *)
(* and the assembled selection, the agent with its runtime signature, and  *)
(* the refresh that updates the agent, or drops it for another, before it  *)
(* is used (SessionManager: runTurn, getOrCreateAgent, performRuntime-     *)
(* Refresh, selectModel; PiAgent: updateRuntimeConfig, setModel).          *)
(*                                                                         *)
(* A runtime is what an agent was built from or updated to. The settings   *)
(* of a connection are their version; "restart" is the version of those    *)
(* that no live agent takes over. One session with one turn at a time      *)
(* (SessionTurns has their overlaps), and generateTitle and refreshTitle,  *)
(* which use the session's agent beside the turn. A selection names a      *)
(* model. Thinking levels and image admission are left out.                *)
(***************************************************************************)
EXTENDS Naturals, FiniteSets

CONSTANTS
  Connection, Model,
  MaxTurn, MaxSave, MaxSelect   \* bounds: turns, saved settings, switches

ASSUME RefreshBounds == /\ Connection # {} /\ Model # {}
                        /\ MaxTurn \in Nat /\ MaxSave \in Nat /\ MaxSelect \in Nat

\* Names of agents: one of the session, one of a turn that lost it, one of a title. A
\* name is used again when nothing refers to it.
Agent == 1..3
None == 0
Version == 0..MaxSave
Selection == [connection : Connection, model : Model]
Runtime == [connection : Connection, model : Model, version : Version, restart : Version]
Nothing == [connection |-> "none"]

VARIABLES
  \* the settings on disk
  version, restart,
  \* ManagedSession
  picked,                \* pickedSelection
  assembled,             \* assembledSelection, while a turn is running
  agent,                 \* the session's agent, or None
  signature,             \* the two signatures, as the runtime they were built from
  refresh,               \* runtimeRefreshPromise: "none", or what it awaits
  target,                \* the runtime that the refresh is for
  \* agents
  runtime, disposed,
  \* the callers of getOrCreateAgent
  turn, stage,           \* the current turn and where it is
  turnAgent,             \* the agent its chat runs on
  title,                 \* a title waits for the refresh
  \* history
  since,                 \* the settings when the turn assembled
  metOlder,              \* a refresh is in flight that began before the turn
  switched,              \* the user switched after the turn assembled, before it ran
  ranAs,                 \* the runtime of its agent when its chat began
  refused,               \* agents whose last update was refused
  saves, selects

settings == <<version, restart>>
session == <<picked, assembled, agent, signature, refresh, target>>
agents == <<runtime, disposed>>
turnVars == <<turn, stage, turnAgent>>
history == <<since, metOlder, switched, ranAs, refused>>
bounds == <<saves, selects>>
refreshVars == <<settings, session, agents, turnVars, title, history, bounds>>

\* Mutant: the route is read anew while the turn is assembled.
RoutePicked == picked
\* routeOf: what the turn assembled, or what is picked now.
Route == IF assembled = Nothing THEN picked ELSE assembled
RuntimeOf(route) == [connection |-> route.connection, model |-> route.model,
                     version |-> version[route.connection], restart |-> restart[route.connection]]

\* The types of the variables; and a session has the signature of an agent it has.
RuntimeTypeOK ==
  /\ version \in [Connection -> Version] /\ restart \in [Connection -> Version]
  /\ picked \in Selection /\ assembled \in Selection \union {Nothing}
  /\ agent \in Agent \union {None}
  /\ signature \in Runtime \union {Nothing} /\ (agent # None => signature \in Runtime)
  /\ refresh \in {"none", "updating", "disposing"}
  /\ target \in Runtime \union {Nothing}
  /\ runtime \in [Agent -> Runtime \union {Nothing}]
  /\ disposed \subseteq Agent /\ refused \subseteq Agent
  /\ turn \in 0..MaxTurn /\ stage \in {"idle", "flush", "waiting", "chat"}
  /\ turnAgent \in Agent \union {None} /\ title \in BOOLEAN
  /\ since \in [Connection -> Version] /\ metOlder \in BOOLEAN /\ switched \in BOOLEAN
  /\ ranAs \in Runtime \union {Nothing}
  /\ saves \in 0..MaxSave /\ selects \in 0..MaxSelect

RuntimeInit ==
  /\ version = [c \in Connection |-> 0] /\ restart = [c \in Connection |-> 0]
  /\ picked \in Selection /\ assembled = Nothing
  /\ agent = None /\ signature = Nothing /\ refresh = "none" /\ target = Nothing
  /\ runtime = [a \in Agent |-> Nothing] /\ disposed = {}
  /\ turn = 0 /\ stage = "idle" /\ turnAgent = None /\ title = FALSE
  /\ since = version /\ metOlder = FALSE /\ switched = FALSE /\ ranAs = Nothing /\ refused = {}
  /\ saves = 0 /\ selects = 0

-----------------------------------------------------------------------------
(* The refresh *)

Chatting(a) == stage = "chat" /\ turnAgent = a

\* Mutant: a refresh does not look whether its agent is in a turn.
MayRefreshAlways == agent # None /\ refresh = "none"
\* performRuntimeRefresh has nothing to do for no agent, and none in a turn; one in
\* flight is joined.
MayRefresh == agent # None /\ refresh = "none" /\ ~Chatting(agent)

\* The signatures differ: the agent is updated or, where no update can do, dropped.
\* updateRuntimeConfig takes the update over before it asks the subprocess.
StartRefresh(to) ==
  /\ target' = to
  /\ IF to.connection = signature.connection /\ to.restart = signature.restart
       THEN refresh' = "updating" /\ runtime' = [runtime EXCEPT ![agent] = to]
       ELSE refresh' = "disposing" /\ UNCHANGED runtime

\* refreshManagedRuntime up to its first await: it may begin a refresh.
RefreshManagedRuntime(route, settingsNow) ==
  LET to == [connection |-> route.connection, model |-> route.model,
             version |-> settingsNow.version[route.connection],
             restart |-> settingsNow.restart[route.connection]]
  IN IF MayRefresh /\ to # signature
       THEN StartRefresh(to)
       ELSE UNCHANGED <<refresh, target, runtime>>

Now == [version |-> version, restart |-> restart]
\* The caller goes on at once when there is no refresh to wait for.
GoesOnAtOnce == refresh = "none" /\ (MayRefresh => RuntimeOf(Route) = signature)

\* Mutant: the signatures are left to the first refresh.
RecordSignatureNot == UNCHANGED signature
RecordSignature == signature' = RuntimeOf(Route)

\* createBackendFromResolvedContext, by n callers after one another; the agent of the
\* last one stays the session's. An agent that is gone has its name free.
New(n) == CHOOSE as \in SUBSET (Agent \ {agent, turnAgent}) : Cardinality(as) = n
Create(n, gone) ==
  /\ agent' \in New(n)
  /\ disposed' = (disposed \union gone) \ New(n) /\ refused' = refused \ New(n)
  /\ runtime' = [a \in Agent |-> IF a \in New(n) THEN RuntimeOf(Route) ELSE runtime[a]]
  /\ RecordSignature

\* The turn has its agent and its chat begins.
ChatOn(a) ==
  /\ stage' = "chat" /\ turnAgent' = a
  /\ ranAs' = runtime'[a]

\* The callers that waited go on, in one order or the other: with the session's agent,
\* or each with one it creates.
Waiting == (IF stage = "waiting" THEN 1 ELSE 0) + (IF title THEN 1 ELSE 0)
WaitersCreate ==
  /\ IF Waiting = 0
       THEN agent' = None /\ disposed' = disposed \union {agent} /\ UNCHANGED <<runtime, signature, refused>>
       ELSE Create(Waiting, {agent})
  /\ IF stage = "waiting" THEN \E a \in New(Waiting) : ChatOn(a)
                          ELSE UNCHANGED <<stage, turnAgent, ranAs>>
WaitersReuse ==
  /\ UNCHANGED <<runtime, agent>>
  /\ IF stage = "waiting" THEN ChatOn(agent) ELSE UNCHANGED <<stage, turnAgent, ranAs>>

\* Mutant: the session keeps an agent whose subprocess took nothing over.
DropNot ==
  /\ refresh' = "none" /\ WaitersReuse /\ title' = FALSE
  /\ UNCHANGED <<signature, disposed, refused>>
\* The agent is disposed of, and the session has none.
Drop ==
  /\ refresh' = "none" /\ WaitersCreate /\ title' = FALSE

\* Mutant: the signatures of the session stay those of its agent's creation.
TakeOverNot == UNCHANGED signature
TakeOver == signature' = target

\* The subprocess took the update over.
UpdateAccepted ==
  /\ refresh = "updating"
  /\ refresh' = "none" /\ target' = Nothing /\ title' = FALSE
  /\ WaitersReuse /\ TakeOver
  /\ metOlder' = (metOlder /\ stage # "flush")
  /\ UNCHANGED <<settings, picked, assembled, disposed, turn, since, switched, refused, bounds>>

\* Mutant: a rejection escapes, and fails the turn that waits.
UpdateRefusedFails ==
  /\ refresh = "updating"
  /\ refresh' = "none" /\ title' = FALSE
  /\ refused' = refused \union {agent}
  /\ stage' = IF stage = "waiting" THEN "idle" ELSE stage
  /\ metOlder' = (metOlder /\ stage # "flush")
  /\ UNCHANGED <<settings, picked, assembled, agent, signature, target, agents, turn, turnAgent,
                 since, switched, ranAs, bounds>>
\* It refused it, failed, or did not answer in time.
UpdateRefused ==
  /\ refresh = "updating"
  /\ refresh' = "disposing"
  /\ refused' = refused \union {agent}
  /\ UNCHANGED <<settings, picked, assembled, agent, signature, target, agents, turnVars, title,
                 since, metOlder, switched, ranAs, bounds>>

\* disposeForRestart is over.
AgentDropped ==
  /\ refresh = "disposing"
  /\ Drop /\ target' = Nothing
  /\ metOlder' = (metOlder /\ stage # "flush")
  /\ UNCHANGED <<settings, picked, assembled, turn, since, switched, bounds>>

-----------------------------------------------------------------------------
(* What the user does *)

\* llmConnections.SAVE and refreshConnectionRuntime of the sessions that picked it.
SaveConnection(c, needsRestart) ==
  /\ saves < MaxSave
  /\ saves' = saves + 1
  /\ version' = [version EXCEPT ![c] = @ + 1]
  /\ restart' = IF needsRestart THEN [restart EXCEPT ![c] = version'[c]] ELSE restart
  /\ IF picked.connection = c
       THEN RefreshManagedRuntime(Route, [version |-> version', restart |-> restart'])
       ELSE UNCHANGED <<refresh, target, runtime>>
  /\ UNCHANGED <<picked, assembled, agent, signature, disposed, turnVars, title, history,
                 selects>>

\* selectModel: within the picked connection the live agent is told at once.
SelectModel(next) ==
  /\ next # picked /\ selects < MaxSelect
  /\ selects' = selects + 1
  /\ picked' = next
  /\ runtime' = IF next.connection = picked.connection /\ agent # None
                  THEN [runtime EXCEPT ![agent].model = next.model] ELSE runtime
  /\ switched' = (switched \/ stage \in {"flush", "waiting"})
  /\ UNCHANGED <<settings, assembled, agent, signature, refresh, target, disposed, turnVars,
                 title, since, metOlder, ranAs, refused, saves>>

\* runTurn up to its flush: the assembly boundary.
RunTurn ==
  /\ stage = "idle" /\ turn < MaxTurn
  /\ turn' = turn + 1
  /\ stage' = "flush"
  /\ assembled' = picked
  /\ since' = version
  /\ metOlder' = (refresh # "none")
  /\ switched' = FALSE
  /\ UNCHANGED <<settings, picked, agent, signature, refresh, target, agents, turnAgent, title,
                 ranAs, refused, bounds>>

-----------------------------------------------------------------------------
(* getOrCreateAgent *)

\* The turn is flushed, and gets its agent or waits for a refresh.
TurnGetsAgent ==
  /\ stage = "flush"
  /\ \/ /\ agent = None
        /\ Create(1, {}) /\ ChatOn(agent')
        /\ UNCHANGED <<refresh, target>>
     \/ /\ agent # None /\ GoesOnAtOnce
        /\ UNCHANGED <<refresh, target, agent, signature, agents, refused>>
        /\ ChatOn(agent)
     \/ /\ agent # None /\ ~GoesOnAtOnce
        /\ RefreshManagedRuntime(Route, Now)
        /\ stage' = "waiting"
        /\ UNCHANGED <<turnAgent, ranAs, agent, signature, disposed, refused>>
  /\ UNCHANGED <<settings, picked, assembled, turn, title, since, metOlder, switched, bounds>>

\* A title wants the agent: generateTitle of a turn that ended, or refreshTitle.
TitleGetsAgent ==
  /\ ~title /\ turn > 0
  /\ \/ /\ agent = None
        /\ Create(1, {})
        /\ UNCHANGED <<refresh, target, title>>
     \/ /\ agent # None /\ ~GoesOnAtOnce
        /\ RefreshManagedRuntime(Route, Now)
        /\ title' = TRUE
        /\ UNCHANGED <<agent, signature, disposed, refused>>
  /\ UNCHANGED <<settings, picked, assembled, turnVars, since, metOlder, switched, ranAs, bounds>>

\* The chat is over, and runTurn releases its snapshot.
TurnEnds ==
  /\ stage = "chat"
  /\ stage' = "idle" /\ turnAgent' = None /\ ranAs' = Nothing
  /\ assembled' = Nothing
  /\ metOlder' = FALSE /\ switched' = FALSE /\ since' = [c \in Connection |-> 0]
  /\ UNCHANGED <<settings, picked, agent, signature, refresh, target, agents, turn, title,
                 refused, bounds>>

RuntimeNext ==
  \/ \E c \in Connection, b \in BOOLEAN : SaveConnection(c, b)
  \/ \E s \in Selection : SelectModel(s)
  \/ RunTurn \/ TurnGetsAgent \/ TitleGetsAgent \/ TurnEnds
  \/ UpdateAccepted \/ UpdateRefused \/ AgentDropped

\* A flush ends, and a refresh does: its request has a timeout, and the wait for the
\* subprocess to exit another.
RuntimeFairness ==
  /\ WF_refreshVars(TurnGetsAgent)
  /\ WF_refreshVars(UpdateAccepted \/ UpdateRefused)
  /\ WF_refreshVars(AgentDropped)

RuntimeSpec == RuntimeInit /\ [][RuntimeNext]_refreshVars /\ RuntimeFairness

-----------------------------------------------------------------------------
(* Properties *)

\* A turn never runs on an agent that was disposed of, or that refused its update, and
\* none is updated or disposed of under it ("Without a mutex [...] the subprocess can
\* race a chat against the still-pending update"); and turns and titles wait for an
\* agent only while a refresh is under way, whose end wakes them.
TurnRunsOnLiveAgent ==
  /\ stage = "chat" => /\ turnAgent \notin disposed \union refused
                       /\ refresh # "none" => turnAgent # agent
  /\ stage = "waiting" \/ title => refresh # "none" /\ agent # None

\* A turn that met no refresh older than itself runs on the connection it assembled,
\* with its settings of that time or later ones, whatever was saved or picked since.
TurnRunsOnItsConnection ==
  stage = "chat" /\ ~metOlder =>
    /\ ranAs.connection = assembled.connection
    /\ ranAs.version >= since[assembled.connection]

\* What the signatures say of the agent's connection is so when no refresh is under
\* way; where it is not, a refresh that is due would be taken for done.
SignatureIsTrue ==
  refresh = "none" /\ agent # None =>
    /\ runtime[agent].connection = signature.connection
    /\ runtime[agent].version = signature.version

\* A turn that was started gets an agent: "letting the rejection escape would fail
\* every following turn with the same error".
TurnsGetAgents == stage \in {"flush", "waiting"} ~> stage = "chat"

\* "This turn commits to the selection that is current NOW": a turn that met no older
\* refresh and no switch since runs the model it assembled. The code does not keep
\* this: switches between turns compare selections, not the agent they retarget.
TurnRunsItsModel == stage = "chat" /\ ~metOlder /\ ~switched => ranAs.model = assembled.model
=============================================================================
