-------------------------- MODULE RuntimeRefreshProofs --------------------------
(***************************************************************************)
(* Proofs about RuntimeRefresh, for any connections, models, and numbers   *)
(* of turns, saved settings and switches: types, that a turn runs on a     *)
(* live agent, on the connection it assembled, that who waits for a        *)
(* refresh waits for one under way, and that the signatures are true of    *)
(* the agent.                                                              *)
(***************************************************************************)
EXTENDS RuntimeRefresh, FiniteSetTheorems, TLAPS

-----------------------------------------------------------------------------
(* The inductive invariant *)

\* Settings only get newer.
VersionsInv ==
  \A c \in Connection : restart[c] <= version[c] /\ version[c] <= saves /\ since[c] <= version[c]

\* The session's agent is live, and refused its update only while it is dropped. A
\* refresh has an agent, which is in no turn, and callers wait only for a refresh.
AgentInv ==
  /\ agent # None => /\ agent \notin disposed /\ runtime[agent] \in Runtime
                     /\ agent \in refused => refresh = "disposing"
  /\ refresh # "none" => agent # None /\ target \in Runtime /\ turnAgent # agent
  /\ refresh = "none" => ~title /\ stage # "waiting"

\* A turn has an agent that is live exactly while it chats, and a selection.
TurnInv ==
  /\ turnAgent = None <=> stage # "chat"
  /\ turnAgent \notin disposed \union refused
  /\ stage = "chat" => ranAs \in Runtime
  /\ stage # "idle" => assembled \in Selection
  /\ assembled # Nothing <=> stage # "idle"

\* The signatures say what the agent is, and what an update makes of it.
SignatureInv ==
  /\ SignatureIsTrue
  /\ refresh = "updating" => /\ runtime[agent].connection = target.connection
                             /\ runtime[agent].version = target.version

\* A refresh that a turn meets and that is not older is for what the turn assembled.
RouteInv ==
  /\ TurnRunsOnItsConnection
  /\ stage \in {"flush", "waiting"} /\ ~metOlder /\ refresh # "none" =>
       /\ target.connection = assembled.connection
       /\ target.version >= since[assembled.connection]

IInv == RuntimeTypeOK /\ VersionsInv /\ AgentInv /\ TurnInv /\ SignatureInv /\ RouteInv

-----------------------------------------------------------------------------
(* Runtimes and names of agents *)

\* A selection is not the lack of one, nor is a runtime.
LEMMA NothingIsNone == Nothing \notin Selection
<1>1. \A s \in Selection : DOMAIN s = {"connection", "model"}
  BY DEF Selection
<1>2. DOMAIN Nothing = {"connection"}
  BY DEF Nothing
<1> QED
  BY <1>1, <1>2

\* There are always names for the agents that the callers create.
LEMMA NewNames ==
  ASSUME agent \in Agent \union {None}, turnAgent \in Agent \union {None},
         NEW n \in {1, 2}, n = 2 => turnAgent = None
  PROVE  New(n) \subseteq Agent \ {agent, turnAgent}
<1> DEFINE Names == Agent \ {agent, turnAgent}
<1>1. \E as \in SUBSET Names : Cardinality(as) = n
  <2>1. CASE n = 1
    <3>1. PICK x \in Names : TRUE
      BY DEF Agent, None
    <3>2. Cardinality({x}) = 1
      BY FS_Singleton
    <3> QED
      BY <2>1, <3>1, <3>2
  <2>2. CASE n = 2
    <3>1. \E x, y \in Names : x # y
      BY <2>2 DEF Agent, None
    <3>2. PICK x \in Names, y \in Names : x # y
      BY <3>1
    <3>3. IsFiniteSet({x}) /\ Cardinality({x}) = 1
      BY FS_Singleton
    <3>4. Cardinality({x} \union {y}) = 2
      BY <3>2, <3>3, FS_AddElement
    <3>5. {x} \union {y} \in SUBSET Names
      BY <3>2
    <3> QED
      BY <2>2, <3>4, <3>5
  <2> QED
    BY <2>1, <2>2
<1> QED
  BY <1>1 DEF New

\* What is read from the settings is a runtime.
LEMMA RuntimeOfType ==
  ASSUME RuntimeTypeOK, NEW s \in Selection
  PROVE  /\ RuntimeOf(s) \in Runtime
         /\ RuntimeOf(s).connection = s.connection
         /\ RuntimeOf(s).version = version[s.connection]
<1>1. s.connection \in Connection /\ s.model \in Model
  BY DEF Selection
<1>2. version[s.connection] \in Version /\ restart[s.connection] \in Version
  BY <1>1 DEF RuntimeTypeOK
<1> QED
  BY <1>1, <1>2 DEF RuntimeOf, Runtime

\* The route is a selection: the one of the turn that is running.
LEMMA RouteType ==
  ASSUME RuntimeTypeOK, TurnInv
  PROVE  Route \in Selection /\ (stage # "idle" => Route = assembled)
BY DEF RuntimeTypeOK, TurnInv, Route
-----------------------------------------------------------------------------
(* What the steps are made of *)

\* A refresh for the runtime to begins.
Begins(to) ==
  /\ refresh = "none" /\ agent # None /\ turnAgent # agent
  /\ refresh' \in {"updating", "disposing"} /\ target' = to
  /\ runtime' \in [Agent -> Runtime \union {Nothing}]
  /\ runtime'[agent] \in Runtime
  /\ refresh' = "updating" => runtime'[agent] = to

\* refreshManagedRuntime begins a refresh, or changes nothing.
LEMMA RefreshBegins ==
  ASSUME IInv, NEW to \in Runtime, MayRefresh, StartRefresh(to)
  PROVE  Begins(to)
<1>1. agent \in Agent /\ agent # None /\ refresh = "none"
  BY DEF MayRefresh, IInv, RuntimeTypeOK, None, Agent
<1>2. turnAgent # agent
  BY <1>1 DEF MayRefresh, Chatting, IInv, TurnInv
<1>3. runtime[agent] \in Runtime /\ runtime \in [Agent -> Runtime \union {Nothing}]
  BY <1>1 DEF IInv, AgentInv, RuntimeTypeOK
<1> QED
  BY <1>1, <1>2, <1>3 DEF StartRefresh, Begins

\* An agent that is created is new, and is what the signatures say.
Created(n, gone) ==
  /\ agent' \in New(n) /\ New(n) \subseteq Agent \ {turnAgent}
  /\ signature' = RuntimeOf(Route) /\ signature' \in Runtime
  /\ runtime' \in [Agent -> Runtime \union {Nothing}]
  /\ disposed' \subseteq Agent /\ refused' \subseteq Agent
  /\ \A a \in New(n) : runtime'[a] = signature' /\ a \notin disposed' \union refused'
  /\ turnAgent \notin gone => turnAgent \notin disposed' \union refused'

LEMMA CreateIsNew ==
  ASSUME IInv, NEW n \in {1, 2}, n = 2 => turnAgent = None, NEW gone \in SUBSET Agent,
         Create(n, gone)
  PROVE  Created(n, gone)
<1>1. New(n) \subseteq Agent \ {agent, turnAgent}
  BY NewNames DEF IInv, RuntimeTypeOK
<1>2. RuntimeOf(Route) \in Runtime
  BY RouteType, RuntimeOfType DEF IInv
<1>3. runtime \in [Agent -> Runtime \union {Nothing}] /\ disposed \subseteq Agent /\ refused \subseteq Agent
  BY DEF IInv, RuntimeTypeOK
<1>4. turnAgent \notin disposed \union refused
  BY DEF IInv, TurnInv
<1> QED
  BY <1>1, <1>2, <1>3, <1>4 DEF Create, RecordSignature, Created

-----------------------------------------------------------------------------
(* The initial states *)

LEMMA InitInv == RuntimeInit => IInv
<1> SUFFICES ASSUME RuntimeInit PROVE IInv
  OBVIOUS
<1> USE DEF RuntimeInit
<1>1. RuntimeTypeOK
  <2>1. 0 \in Version /\ 0 \in 0..MaxTurn /\ 0 \in 0..MaxSave /\ 0 \in 0..MaxSelect
    BY RefreshBounds DEF Version
  <2> QED
    BY <2>1 DEF RuntimeTypeOK, None
<1>2. VersionsInv
  BY DEF VersionsInv
<1>3. AgentInv /\ TurnInv /\ SignatureInv /\ RouteInv
  BY DEF AgentInv, TurnInv, SignatureInv, RouteInv, SignatureIsTrue, TurnRunsOnItsConnection, None
<1> QED
  BY <1>1, <1>2, <1>3 DEF IInv

-----------------------------------------------------------------------------
(* What the user does *)

LEMMA SaveConnectionStep ==
  ASSUME IInv, NEW c \in Connection, NEW b \in BOOLEAN, SaveConnection(c, b)
  PROVE  IInv'
<1> DEFINE route == Route
           to == [connection |-> route.connection, model |-> route.model,
                  version |-> version'[route.connection],
                  restart |-> restart'[route.connection]]
<1>1. UNCHANGED <<picked, assembled, agent, signature, disposed, stage, turn, turnAgent, title, since,
                  metOlder, switched, ranAs, refused, selects>>
  BY DEF SaveConnection, turnVars, history
<1>2. /\ saves \in 0..MaxSave /\ saves' \in 0..MaxSave /\ saves' = saves + 1
  BY RefreshBounds DEF SaveConnection, IInv, RuntimeTypeOK
<1>3. version \in [Connection -> Version] /\ restart \in [Connection -> Version] /\ since \in [Connection -> Version]
  BY DEF IInv, RuntimeTypeOK
<1>4. \A d \in Connection : version[d] \in Nat /\ restart[d] \in Nat /\ since[d] \in Nat
  BY <1>3 DEF Version
<1>5. version' = [version EXCEPT ![c] = @ + 1]
      /\ restart' = IF b THEN [restart EXCEPT ![c] = version'[c]] ELSE restart
  BY DEF SaveConnection
<1>6. \A d \in Connection : /\ restart'[d] <= version'[d] /\ version'[d] <= saves'
                            /\ version[d] <= version'[d] /\ restart'[d] \in Nat /\ version'[d] \in Nat
  BY <1>2, <1>3, <1>4, <1>5 DEF IInv, VersionsInv
<1>7. version' \in [Connection -> Version] /\ restart' \in [Connection -> Version]
  <2>1. \A d \in Connection : version'[d] \in Version /\ restart'[d] \in Version
    BY <1>2, <1>6, RefreshBounds DEF Version
  <2> QED
    BY <2>1, <1>3, <1>5
<1>8. VersionsInv'
  BY <1>1, <1>4, <1>6 DEF IInv, VersionsInv
<1>9. route \in Selection /\ (stage # "idle" => route = assembled)
  BY RouteType DEF IInv
<1>10. to \in Runtime
  BY <1>7, <1>9 DEF Selection, Runtime
<1>11. Begins(to) \/ UNCHANGED <<refresh, target, runtime>>
  <2>1. CASE picked.connection = c /\ MayRefresh /\ to # signature
    <3>1. StartRefresh(to)
      BY <2>1 DEF SaveConnection, RefreshManagedRuntime
    <3> QED
      BY <2>1, <3>1, <1>10, RefreshBegins
  <2>2. CASE ~(picked.connection = c /\ MayRefresh /\ to # signature)
    BY <2>2 DEF SaveConnection, RefreshManagedRuntime
  <2> QED
    BY <2>1, <2>2
<1> HIDE DEF route
<1>12. to.connection = route.connection /\ to.version = version'[route.connection]
  OBVIOUS
<1> HIDE DEF to
<1>13. RuntimeTypeOK'
  BY <1>1, <1>2, <1>7, <1>10, <1>11 DEF Begins, IInv, RuntimeTypeOK
<1>14. AgentInv'
  BY <1>1, <1>10, <1>11 DEF Begins, IInv, AgentInv
<1>15. TurnInv'
  BY <1>1 DEF IInv, TurnInv
<1>16. SignatureInv'
  BY <1>1, <1>11 DEF Begins, IInv, SignatureInv, SignatureIsTrue
<1>17. RouteInv'
  <2>1. TurnRunsOnItsConnection'
    BY <1>1 DEF IInv, RouteInv, TurnRunsOnItsConnection
  <2>2. CASE UNCHANGED <<refresh, target, runtime>>
    BY <2>1, <2>2, <1>1 DEF IInv, RouteInv
  <2>3. CASE Begins(to)
    <3>1. stage # "idle" => since[route.connection] <= version'[route.connection]
      BY <1>4, <1>6, <1>9 DEF IInv, VersionsInv, Selection
    <3> QED
      BY <2>1, <2>3, <3>1, <1>1, <1>4, <1>6, <1>9, <1>12 DEF Begins, RouteInv, Selection
  <2> QED
    BY <1>11, <2>2, <2>3
<1> QED
  BY <1>8, <1>13, <1>14, <1>15, <1>16, <1>17 DEF IInv

\* An agent told another model is of the connection it was of.
LEMMA OtherModel ==
  ASSUME NEW f \in [Agent -> Runtime \union {Nothing}], NEW a \in Agent, f[a] \in Runtime, NEW m \in Model
  PROVE  LET g == [f EXCEPT ![a].model = m]
         IN /\ g \in [Agent -> Runtime \union {Nothing}] /\ g[a] \in Runtime
            /\ g[a].connection = f[a].connection /\ g[a].version = f[a].version
<1> DEFINE r == [f[a] EXCEPT !.model = m]
<1>1. r \in Runtime /\ r.connection = f[a].connection /\ r.version = f[a].version
  BY DEF Runtime
<1>2. [f EXCEPT ![a].model = m] = [f EXCEPT ![a] = r]
  OBVIOUS
<1> HIDE DEF r
<1> QED
  BY <1>1, <1>2

LEMMA SelectModelStep ==
  ASSUME IInv, NEW next \in Selection, SelectModel(next)
  PROVE  IInv'
<1>1. UNCHANGED <<version, restart, assembled, agent, signature, refresh, target, disposed, stage, turn,
                  turnAgent, title, since, metOlder, ranAs, refused, saves>>
      /\ picked' = next
  BY DEF SelectModel, settings, turnVars
<1>2. /\ runtime' \in [Agent -> Runtime \union {Nothing}]
      /\ agent # None => /\ runtime'[agent] \in Runtime
                         /\ runtime'[agent].connection = runtime[agent].connection
                         /\ runtime'[agent].version = runtime[agent].version
  <2>1. CASE next.connection = picked.connection /\ agent # None
    <3>1. agent \in Agent /\ runtime \in [Agent -> Runtime \union {Nothing}] /\ runtime[agent] \in Runtime
      BY <2>1 DEF IInv, RuntimeTypeOK, AgentInv
    <3>2. next.model \in Model /\ runtime' = [runtime EXCEPT ![agent].model = next.model]
      BY <2>1 DEF SelectModel, Selection
    <3> QED
      BY <3>1, <3>2, OtherModel
  <2>2. CASE ~(next.connection = picked.connection /\ agent # None)
    BY <2>2 DEF SelectModel, IInv, RuntimeTypeOK, AgentInv
  <2> QED
    BY <2>1, <2>2
<1>3. RuntimeTypeOK'
  <2>1. selects' \in 0..MaxSelect /\ switched' \in BOOLEAN
    BY RefreshBounds DEF SelectModel, IInv, RuntimeTypeOK
  <2> QED
    BY <1>1, <1>2, <2>1 DEF IInv, RuntimeTypeOK
<1>4. VersionsInv' /\ AgentInv' /\ TurnInv'
  BY <1>1, <1>2 DEF IInv, VersionsInv, AgentInv, TurnInv
<1>5. SignatureInv'
  BY <1>1, <1>2 DEF IInv, AgentInv, SignatureInv, SignatureIsTrue
<1>6. RouteInv'
  BY <1>1 DEF IInv, RouteInv, TurnRunsOnItsConnection
<1> QED
  BY <1>3, <1>4, <1>5, <1>6 DEF IInv

\* The turn assembles what is picked.
LEMMA RunTurnStep ==
  ASSUME IInv, RunTurn
  PROVE  IInv'
<1>1. UNCHANGED <<version, restart, picked, agent, signature, refresh, target, runtime, disposed, turnAgent,
                  title, ranAs, refused, saves, selects>>
      /\ stage = "idle" /\ stage' = "flush" /\ assembled' = picked /\ since' = version
      /\ metOlder' = (refresh # "none") /\ switched' = FALSE
  BY DEF RunTurn, settings, agents, bounds
<1>2. picked \in Selection /\ picked # Nothing
  BY NothingIsNone DEF IInv, RuntimeTypeOK
<1>3. turn' \in 0..MaxTurn
  BY RefreshBounds DEF RunTurn, IInv, RuntimeTypeOK
<1>4. RuntimeTypeOK'
  BY <1>1, <1>2, <1>3 DEF IInv, RuntimeTypeOK
<1>5. VersionsInv'
  <2>1. \A c \in Connection : version[c] \in Nat
    BY DEF IInv, RuntimeTypeOK, Version
  <2> QED
    BY <1>1, <2>1 DEF IInv, VersionsInv
<1>6. AgentInv' /\ TurnInv' /\ SignatureInv'
  BY <1>1, <1>2 DEF IInv, AgentInv, TurnInv, SignatureInv, SignatureIsTrue
<1>7. RouteInv'
  BY <1>1 DEF RouteInv, TurnRunsOnItsConnection
<1> QED
  BY <1>4, <1>5, <1>6, <1>7 DEF IInv

LEMMA TurnEndsStep ==
  ASSUME IInv, TurnEnds
  PROVE  IInv'
<1>1. UNCHANGED <<version, restart, picked, agent, signature, refresh, target, runtime, disposed, turn,
                  title, refused, saves, selects>>
      /\ stage = "chat" /\ stage' = "idle" /\ turnAgent' = None /\ assembled' = Nothing
      /\ ranAs' = Nothing /\ metOlder' = FALSE /\ switched' = FALSE
      /\ since' = [c \in Connection |-> 0]
  BY DEF TurnEnds, settings, agents, bounds
<1>2. 0 \in Version
  BY RefreshBounds DEF Version
<1>3. RuntimeTypeOK'
  BY <1>1, <1>2 DEF IInv, RuntimeTypeOK
<1>4. VersionsInv'
  <2>1. \A c \in Connection : version[c] \in Nat
    BY DEF IInv, RuntimeTypeOK, Version
  <2> QED
    BY <1>1, <2>1 DEF IInv, VersionsInv
<1>5. None \notin disposed \union refused
  BY DEF IInv, RuntimeTypeOK, Agent, None
<1>6. AgentInv' /\ TurnInv' /\ SignatureInv'
  BY <1>1, <1>5 DEF IInv, AgentInv, TurnInv, SignatureInv, SignatureIsTrue
<1>7. RouteInv'
  BY <1>1 DEF RouteInv, TurnRunsOnItsConnection
<1> QED
  BY <1>3, <1>4, <1>6, <1>7 DEF IInv
-----------------------------------------------------------------------------
(* The callers of getOrCreateAgent *)

\* A caller that has to wait finds a refresh under way or begins one, which is for the
\* route; one that need not finds the agent as the signatures say.
LEMMA Waits ==
  ASSUME IInv, agent # None, ~GoesOnAtOnce, RefreshManagedRuntime(Route, Now)
  PROVE  \/ refresh # "none" /\ UNCHANGED <<refresh, target, runtime>>
         \/ Begins(RuntimeOf(Route))
<1>1. RuntimeOf(Route) \in Runtime
  BY RouteType, RuntimeOfType DEF IInv
<1>2. CASE refresh # "none"
  BY <1>2 DEF RefreshManagedRuntime, MayRefresh
<1>3. CASE refresh = "none"
  <2>1. MayRefresh /\ RuntimeOf(Route) # signature
    BY <1>3 DEF GoesOnAtOnce
  <2>2. StartRefresh(RuntimeOf(Route))
    BY <2>1 DEF RefreshManagedRuntime, Now, RuntimeOf
  <2> QED
    BY <1>1, <2>1, <2>2, RefreshBegins
<1> QED
  BY <1>2, <1>3

\* The settings have not become older since a turn assembled its connection.
LEMMA RouteOfTurn ==
  ASSUME IInv, stage # "idle"
  PROVE  /\ RuntimeOf(Route).connection = assembled.connection
         /\ RuntimeOf(Route).version >= since[assembled.connection]
<1>1. Route = assembled /\ Route \in Selection
  BY RouteType DEF IInv
<1>2. assembled.connection \in Connection
  BY <1>1 DEF Selection
<1>3. /\ version[assembled.connection] \in Nat /\ since[assembled.connection] \in Nat
      /\ since[assembled.connection] <= version[assembled.connection]
  BY <1>2 DEF IInv, RuntimeTypeOK, VersionsInv, Version
<1> QED
  BY <1>1, <1>3, RuntimeOfType DEF IInv

LEMMA TurnCreates ==
  ASSUME IInv, stage = "flush", agent = None, Create(1, {}), ChatOn(agent'),
         UNCHANGED <<settings, picked, assembled, turn, title, since, metOlder, switched, bounds,
                     refresh, target>>
  PROVE  IInv'
<1>1. Created(1, {})
  BY CreateIsNew
<1>2. UNCHANGED <<version, restart, picked, assembled, turn, title, since, metOlder, switched, saves, selects,
                  refresh, target>>
  BY DEF settings, bounds
<1>3. stage' = "chat" /\ turnAgent' = agent' /\ ranAs' = signature' /\ agent' \in Agent
  BY <1>1 DEF ChatOn, Created
<1>4. agent' # None
  BY <1>3 DEF Agent, None
<1>5. RuntimeTypeOK'
  BY <1>1, <1>2, <1>3 DEF Created, IInv, RuntimeTypeOK
<1>6. VersionsInv'
  BY <1>2 DEF IInv, VersionsInv
<1>7. refresh = "none" /\ ~title
  BY DEF IInv, AgentInv
<1>8. AgentInv'
  BY <1>1, <1>2, <1>3, <1>4, <1>7 DEF Created, AgentInv
<1>9. TurnInv'
  BY <1>1, <1>2, <1>3, <1>4 DEF Created, IInv, TurnInv
<1>10. SignatureInv'
  BY <1>1, <1>2, <1>7 DEF Created, SignatureInv, SignatureIsTrue
<1>11. RouteInv'
  BY <1>1, <1>2, <1>3, RouteOfTurn DEF Created, RouteInv, TurnRunsOnItsConnection
<1> QED
  BY <1>5, <1>6, <1>8, <1>9, <1>10, <1>11 DEF IInv

LEMMA TurnGoesOn ==
  ASSUME IInv, stage = "flush", agent # None, GoesOnAtOnce, ChatOn(agent),
         UNCHANGED <<settings, picked, assembled, turn, title, since, metOlder, switched, bounds,
                     refresh, target, agent, signature, agents, refused>>
  PROVE  IInv'
<1>1. UNCHANGED <<version, restart, picked, assembled, turn, title, since, metOlder, switched, saves, selects,
                  refresh, target, agent, signature, runtime, disposed, refused>>
  BY DEF settings, bounds, agents
<1>2. stage' = "chat" /\ turnAgent' = agent /\ ranAs' = runtime[agent]
  BY <1>1 DEF ChatOn
<1>3. refresh = "none" /\ turnAgent = None /\ agent \in Agent
  BY DEF GoesOnAtOnce, IInv, TurnInv, RuntimeTypeOK
<1>4. signature = RuntimeOf(Route)
  BY <1>3 DEF GoesOnAtOnce, MayRefresh, Chatting
<1>5. runtime[agent] \in Runtime /\ agent \notin disposed \union refused
  BY <1>3 DEF IInv, AgentInv
<1>6. RuntimeTypeOK'
  BY <1>1, <1>2, <1>3, <1>5 DEF IInv, RuntimeTypeOK
<1>7. VersionsInv' /\ AgentInv' /\ SignatureInv'
  BY <1>1, <1>2, <1>3 DEF IInv, VersionsInv, AgentInv, SignatureInv, SignatureIsTrue
<1>8. TurnInv'
  BY <1>1, <1>2, <1>5 DEF IInv, TurnInv
<1>9. RouteInv'
  BY <1>1, <1>2, <1>3, <1>4, RouteOfTurn DEF IInv, SignatureInv, SignatureIsTrue, RouteInv,
     TurnRunsOnItsConnection
<1> QED
  BY <1>6, <1>7, <1>8, <1>9 DEF IInv

LEMMA TurnWaits ==
  ASSUME IInv, stage = "flush", agent # None, ~GoesOnAtOnce, RefreshManagedRuntime(Route, Now),
         stage' = "waiting",
         UNCHANGED <<settings, picked, assembled, turn, title, since, metOlder, switched, bounds,
                     turnAgent, ranAs, agent, signature, disposed, refused>>
  PROVE  IInv'
<1>1. UNCHANGED <<version, restart, picked, assembled, turn, title, since, metOlder, switched, saves, selects,
                  turnAgent, ranAs, agent, signature, disposed, refused>>
  BY DEF settings, bounds
<1> DEFINE to == RuntimeOf(Route)
<1>2. (refresh # "none" /\ UNCHANGED <<refresh, target, runtime>>) \/ Begins(to)
  BY Waits
<1>3. to \in Runtime /\ to.connection = assembled.connection /\ to.version >= since[assembled.connection]
  BY RouteType, RuntimeOfType, RouteOfTurn DEF IInv
<1> HIDE DEF to
<1>4. RuntimeTypeOK'
  BY <1>1, <1>2, <1>3 DEF Begins, IInv, RuntimeTypeOK
<1>5. VersionsInv' /\ TurnInv'
  BY <1>1 DEF IInv, VersionsInv, TurnInv
<1>6. AgentInv'
  BY <1>1, <1>2, <1>3 DEF Begins, IInv, AgentInv
<1>7. SignatureInv'
  BY <1>1, <1>2 DEF Begins, IInv, SignatureInv, SignatureIsTrue
<1>8. RouteInv'
  BY <1>1, <1>2, <1>3 DEF Begins, IInv, RouteInv, TurnRunsOnItsConnection
<1> QED
  BY <1>4, <1>5, <1>6, <1>7, <1>8 DEF IInv

LEMMA TurnGetsAgentStep == IInv /\ TurnGetsAgent => IInv'
<1> SUFFICES ASSUME IInv, TurnGetsAgent PROVE IInv'
  OBVIOUS
<1>1. CASE agent = None
  BY <1>1, TurnCreates DEF TurnGetsAgent
<1>2. CASE agent # None /\ GoesOnAtOnce
  BY <1>2, TurnGoesOn DEF TurnGetsAgent
<1>3. CASE agent # None /\ ~GoesOnAtOnce
  BY <1>3, TurnWaits DEF TurnGetsAgent
<1> QED
  BY <1>1, <1>2, <1>3

LEMMA TitleGetsAgentStep ==
  ASSUME IInv, TitleGetsAgent
  PROVE  IInv'
<1>1. UNCHANGED <<version, restart, picked, assembled, turn, stage, turnAgent, since, metOlder, switched,
                  ranAs, saves, selects>>
  BY DEF TitleGetsAgent, settings, turnVars, bounds
<1>2. VersionsInv'
  BY <1>1 DEF IInv, VersionsInv
<1>3. CASE agent = None
  <2>1. Create(1, {}) /\ UNCHANGED <<refresh, target, title>>
    BY <1>3 DEF TitleGetsAgent
  <2>2. Created(1, {}) /\ agent' \in Agent
    BY <2>1, CreateIsNew DEF Created
  <2>3. refresh = "none" /\ turnAgent \notin disposed' \union refused'
    BY <1>3, <2>2 DEF IInv, AgentInv, Created
  <2>4. RuntimeTypeOK'
    BY <1>1, <2>1, <2>2 DEF Created, IInv, RuntimeTypeOK
  <2>5. AgentInv'
    BY <1>1, <2>1, <2>2, <2>3 DEF Created, IInv, AgentInv
  <2>6. TurnInv'
    BY <1>1, <2>3 DEF IInv, TurnInv
  <2>7. SignatureInv' /\ RouteInv'
    BY <1>1, <2>1, <2>2, <2>3 DEF Created, IInv, SignatureInv, SignatureIsTrue, RouteInv,
       TurnRunsOnItsConnection
  <2> QED
    BY <1>2, <2>4, <2>5, <2>6, <2>7 DEF IInv
<1>4. CASE agent # None
  <2>1. ~GoesOnAtOnce /\ RefreshManagedRuntime(Route, Now) /\ title' = TRUE
        /\ UNCHANGED <<agent, signature, disposed, refused>>
    BY <1>4 DEF TitleGetsAgent
  <2> DEFINE to == RuntimeOf(Route)
  <2>2. (refresh # "none" /\ UNCHANGED <<refresh, target, runtime>>) \/ Begins(to)
    BY <1>4, <2>1, Waits
  <2>3. /\ to \in Runtime
        /\ stage # "idle" => /\ to.connection = assembled.connection
                             /\ to.version >= since[assembled.connection]
    BY RouteType, RuntimeOfType, RouteOfTurn DEF IInv
  <2> HIDE DEF to
  <2>4. RuntimeTypeOK'
    BY <1>1, <2>1, <2>2, <2>3 DEF Begins, IInv, RuntimeTypeOK
  <2>5. AgentInv'
    BY <1>1, <2>1, <2>2, <2>3 DEF Begins, IInv, AgentInv
  <2>6. TurnInv'
    BY <1>1, <2>1 DEF IInv, TurnInv
  <2>7. SignatureInv'
    BY <1>1, <2>1, <2>2 DEF Begins, IInv, SignatureInv, SignatureIsTrue
  <2>8. RouteInv'
    BY <1>1, <2>1, <2>2, <2>3 DEF Begins, IInv, RouteInv, TurnRunsOnItsConnection
  <2> QED
    BY <1>2, <2>4, <2>5, <2>6, <2>7, <2>8 DEF IInv
<1> QED
  BY <1>3, <1>4

-----------------------------------------------------------------------------
(* The refresh *)

\* The callers that waited chat on the session's agent, which is for what they assembled.
LEMMA UpdateAcceptedStep ==
  ASSUME IInv, UpdateAccepted
  PROVE  IInv'
<1>1. /\ refresh = "updating" /\ refresh' = "none" /\ target' = Nothing /\ title' = FALSE
      /\ signature' = target /\ metOlder' = (metOlder /\ stage # "flush")
      /\ UNCHANGED <<version, restart, picked, assembled, disposed, turn, since, switched, refused, saves, selects,
                     runtime, agent>>
  BY DEF UpdateAccepted, WaitersReuse, TakeOver, settings, bounds
<1>2. /\ agent \in Agent /\ agent # None /\ runtime[agent] \in Runtime /\ target \in Runtime
      /\ agent \notin disposed \union refused
  BY <1>1 DEF IInv, AgentInv, RuntimeTypeOK
<1>3. \/ stage = "waiting" /\ stage' = "chat" /\ turnAgent' = agent /\ ranAs' = runtime[agent]
      \/ stage # "waiting" /\ UNCHANGED <<stage, turnAgent, ranAs>>
  BY <1>1 DEF UpdateAccepted, WaitersReuse, ChatOn
<1>4. RuntimeTypeOK'
  BY <1>1, <1>2, <1>3 DEF IInv, RuntimeTypeOK
<1>5. VersionsInv'
  BY <1>1 DEF IInv, VersionsInv
<1>6. AgentInv'
  BY <1>1, <1>2, <1>3 DEF IInv, AgentInv
<1>7. TurnInv'
  BY <1>1, <1>2, <1>3 DEF IInv, TurnInv
<1>8. SignatureInv'
  BY <1>1 DEF IInv, SignatureInv, SignatureIsTrue
<1>9. RouteInv'
  <2>1. CASE stage = "waiting"
    BY <2>1, <1>1, <1>3 DEF IInv, SignatureInv, RouteInv, TurnRunsOnItsConnection
  <2>2. CASE stage # "waiting"
    BY <2>2, <1>1, <1>3 DEF IInv, RouteInv, TurnRunsOnItsConnection
  <2> QED
    BY <2>1, <2>2
<1> QED
  BY <1>4, <1>5, <1>6, <1>7, <1>8, <1>9 DEF IInv

LEMMA UpdateRefusedStep ==
  ASSUME IInv, UpdateRefused
  PROVE  IInv'
<1>1. /\ refresh = "updating" /\ refresh' = "disposing" /\ refused' = refused \union {agent}
      /\ UNCHANGED <<version, restart, picked, assembled, agent, signature, target, runtime, disposed, turn, stage,
                     turnAgent, title, since, metOlder, switched, ranAs, saves, selects>>
  BY DEF UpdateRefused, settings, agents, turnVars, bounds
<1>2. agent \in Agent /\ agent # turnAgent
  BY <1>1 DEF IInv, AgentInv, RuntimeTypeOK
<1>3. RuntimeTypeOK'
  BY <1>1, <1>2 DEF IInv, RuntimeTypeOK
<1>4. VersionsInv' /\ AgentInv' /\ TurnInv'
  BY <1>1, <1>2 DEF IInv, VersionsInv, AgentInv, TurnInv
<1>5. SignatureInv' /\ RouteInv'
  BY <1>1 DEF IInv, SignatureInv, SignatureIsTrue, RouteInv, TurnRunsOnItsConnection
<1> QED
  BY <1>3, <1>4, <1>5 DEF IInv

\* Each caller that waited has an agent of its own.
LEMMA AgentDroppedStep ==
  ASSUME IInv, AgentDropped
  PROVE  IInv'
<1>1. /\ refresh = "disposing" /\ refresh' = "none" /\ target' = Nothing /\ title' = FALSE
      /\ metOlder' = (metOlder /\ stage # "flush") /\ WaitersCreate
      /\ UNCHANGED <<version, restart, picked, assembled, turn, since, switched, saves, selects>>
  BY DEF AgentDropped, Drop, settings, bounds
<1>2. /\ agent \in Agent /\ agent # turnAgent
      /\ turnAgent \notin disposed \union refused
      /\ stage # "chat" <=> turnAgent = None
  BY <1>1 DEF IInv, AgentInv, TurnInv, RuntimeTypeOK
<1>3. VersionsInv'
  BY <1>1 DEF IInv, VersionsInv
<1>4. CASE Waiting = 0
  <2>1. stage # "waiting"
    BY <1>4 DEF Waiting
  <2>2. /\ agent' = None /\ disposed' = disposed \union {agent}
        /\ UNCHANGED <<runtime, signature, refused, stage, turnAgent, ranAs>>
    BY <1>1, <1>4, <2>1 DEF WaitersCreate
  <2>3. RuntimeTypeOK'
    BY <1>1, <1>2, <2>2 DEF IInv, RuntimeTypeOK
  <2>4. AgentInv' /\ TurnInv' /\ SignatureInv'
    BY <1>1, <1>2, <2>1, <2>2 DEF IInv, AgentInv, TurnInv, SignatureInv, SignatureIsTrue
  <2>5. RouteInv'
    BY <1>1, <2>2 DEF IInv, RouteInv, TurnRunsOnItsConnection
  <2> QED
    BY <1>3, <2>3, <2>4, <2>5 DEF IInv
<1>5. CASE Waiting # 0
  <2>1. Waiting \in {1, 2} /\ (Waiting = 2 => stage = "waiting")
    BY <1>5 DEF Waiting
  <2>2. Create(Waiting, {agent})
    BY <1>1, <1>5 DEF WaitersCreate
  <2>3. Created(Waiting, {agent})
    BY <1>2, <2>1, <2>2, CreateIsNew
  <2>4. agent' \in Agent /\ agent' # None /\ turnAgent \notin disposed' \union refused'
    BY <1>2, <2>3 DEF Created, Agent, None
  <2>5. /\ runtime'[agent'] = signature' /\ agent' \notin disposed' \union refused'
        /\ signature' = RuntimeOf(Route) /\ signature' \in Runtime
    BY <2>3 DEF Created
  <2>6. AgentInv' /\ SignatureInv' /\ stage' # "waiting"
    <3>1. stage' # "waiting"
      BY <1>1 DEF WaitersCreate, ChatOn
    <3> QED
      BY <1>1, <2>4, <2>5, <3>1 DEF AgentInv, SignatureInv, SignatureIsTrue
  <2>7. CASE stage = "waiting"
    <3>1. PICK a \in New(Waiting) : ChatOn(a)
      BY <1>1, <2>7 DEF WaitersCreate
    <3>2. /\ stage' = "chat" /\ turnAgent' = a /\ ranAs' = signature'
          /\ a \in Agent /\ a \notin disposed' \union refused'
      BY <2>3, <3>1 DEF ChatOn, Created
    <3>3. a # None
      BY <3>2 DEF Agent, None
    <3>4. RuntimeTypeOK'
      BY <1>1, <2>3, <2>4, <3>2 DEF Created, IInv, RuntimeTypeOK
    <3>5. TurnInv'
      BY <1>1, <2>5, <2>7, <3>2, <3>3 DEF IInv, TurnInv
    <3>6. RouteInv'
      BY <1>1, <2>5, <2>7, <3>2, RouteOfTurn DEF RouteInv, TurnRunsOnItsConnection
    <3> QED
      BY <1>3, <2>6, <3>4, <3>5, <3>6 DEF IInv
  <2>8. CASE stage # "waiting"
    <3>1. UNCHANGED <<stage, turnAgent, ranAs>>
      BY <1>1, <2>8 DEF WaitersCreate
    <3>2. RuntimeTypeOK'
      BY <1>1, <2>3, <2>4, <3>1 DEF Created, IInv, RuntimeTypeOK
    <3>3. TurnInv'
      BY <1>1, <2>4, <3>1 DEF IInv, TurnInv
    <3>4. RouteInv'
      BY <1>1, <3>1 DEF IInv, RouteInv, TurnRunsOnItsConnection
    <3> QED
      BY <1>3, <2>6, <3>2, <3>3, <3>4 DEF IInv
  <2> QED
    BY <2>7, <2>8
<1> QED
  BY <1>4, <1>5

-----------------------------------------------------------------------------
(* Theorems *)

\* Every step keeps the invariant.
LEMMA StepInv == IInv /\ [RuntimeNext]_refreshVars => IInv'
<1> SUFFICES ASSUME IInv, [RuntimeNext]_refreshVars PROVE IInv'
  OBVIOUS
<1>1. ASSUME NEW c \in Connection, NEW b \in BOOLEAN, SaveConnection(c, b) PROVE IInv'
  BY <1>1, SaveConnectionStep
<1>2. ASSUME NEW s \in Selection, SelectModel(s) PROVE IInv'
  BY <1>2, SelectModelStep
<1>3. CASE RunTurn \/ TurnGetsAgent \/ TitleGetsAgent \/ TurnEnds
  BY <1>3, RunTurnStep, TurnGetsAgentStep, TitleGetsAgentStep, TurnEndsStep
<1>4. CASE UpdateAccepted \/ UpdateRefused \/ AgentDropped
  BY <1>4, UpdateAcceptedStep, UpdateRefusedStep, AgentDroppedStep
<1>5. CASE UNCHANGED refreshVars
  <2>1. UNCHANGED <<version, restart, picked, assembled, agent, signature, refresh, target, runtime, disposed,
                    turn, stage, turnAgent, title, since, metOlder, switched, ranAs, refused, saves, selects>>
    BY <1>5 DEF refreshVars, settings, session, agents, turnVars, history, bounds
  <2>2. RuntimeTypeOK' /\ VersionsInv'
    BY <2>1 DEF IInv, RuntimeTypeOK, VersionsInv
  <2>3. AgentInv' /\ TurnInv'
    BY <2>1 DEF IInv, AgentInv, TurnInv
  <2>4. SignatureInv' /\ RouteInv'
    BY <2>1 DEF IInv, SignatureInv, SignatureIsTrue, RouteInv, TurnRunsOnItsConnection
  <2> QED
    BY <2>2, <2>3, <2>4 DEF IInv
<1> QED
  BY <1>1, <1>2, <1>3, <1>4, <1>5 DEF RuntimeNext

\* The invariant holds in every reachable state.
THEOREM InvariantHolds == RuntimeSpec => []IInv
<1> QED
  BY InitInv, StepInv, PTL DEF RuntimeSpec

\* The variables keep their types, and a session has the signature of its agent.
THEOREM TypesCorrect == RuntimeSpec => []RuntimeTypeOK
<1>1. IInv => RuntimeTypeOK
  BY DEF IInv
<1> QED
  BY <1>1, InvariantHolds, PTL

\* A turn runs on an agent that is not disposed of, did not refuse its update, and is
\* neither updated nor disposed of under it, whatever titles, saves and switches do.
THEOREM TurnsRunOnLiveAgents == RuntimeSpec => []TurnRunsOnLiveAgent
<1>1. IInv => TurnRunsOnLiveAgent
  BY DEF IInv, AgentInv, TurnInv, TurnRunsOnLiveAgent
<1> QED
  BY <1>1, InvariantHolds, PTL

\* A turn that met no older refresh runs on the connection that it assembled, with its
\* settings of that time or later ones.
THEOREM TurnsRunOnTheirConnection == RuntimeSpec => []TurnRunsOnItsConnection
<1>1. IInv => TurnRunsOnItsConnection
  BY DEF IInv, RouteInv
<1> QED
  BY <1>1, InvariantHolds, PTL

\* With no refresh under way the signatures are true of the agent's connection.
THEOREM SignaturesAreTrue == RuntimeSpec => []SignatureIsTrue
<1>1. IInv => SignatureIsTrue
  BY DEF IInv, SignatureInv
<1> QED
  BY <1>1, InvariantHolds, PTL

=============================================================================
