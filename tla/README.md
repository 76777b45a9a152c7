# A verified model of the bitlab session server

This directory models the parts of the repository in which several activities
meet: the WebSocket channel between the server and its windows, with its events
and its calls in both directions, the persistence of sessions, the turns of a
session with the agent subprocess behind it, and what a turn meets on its way:
an overflow of the context, approvals, a refresh of its runtime. The modules are
plain TLA+; TLC checks them on small instances, and TLAPS proves the invariants and
the three refinements for every value of the constants. Liveness stays with TLC.

Paths below are relative to `src/`. `PROJECT.json` maps every definition to the
lines it models, lists the runs, the mutants that show each property can fail,
the hazards of the code and the theorems.

## 1. Inventory

The program is an agent server (`packages/server-core`, run headless or inside
the Electron app) with windows that connect over WebSocket. A session of the
server holds a transcript on disk and runs turns; a turn drives an agent, which
is a subprocess that speaks JSON lines.

| Component | State it keeps | Operations | Hard behaviour | Correct when |
|---|---|---|---|---|
| Event channel, `transport/server.ts`, `transport/client.ts` | server: connected and retained clients, each with a replay buffer and sequence numbers; client: client id, last number seen, a pending reconnect | handshake, push, ack, close, expiry, reconnect with replay or as stale, workspace switch | sockets lost at any moment with events under way, an await inside the handshake, buffers that overflow or expire, restarts | no event is lost, doubled or reordered without the window being told; buffers have no gap; acks never evict what was not seen |
| RPC in both directions, same files | pending requests with timers, on both sides | request, answer, timeout, disconnect, calls to a client's capabilities | late answers, timeouts, handlers that go on after theirs | each call settles once, in the end, and is answered only by a handler that was done |
| Client connection, `transport/client.ts` | socket, ready promise, connect and backoff timers, `permanentlyClosed`, `destroyed` | connect, backoff, `reconnectNow`, the server's last notice, destroy | three ways to start a connection, a close that is told later | one socket at a time; comes back unless destroyed or told not to; no call waits for a promise that nothing settles |
| Persistence queue, `shared/sessions/persistence-queue.ts` | one entry and one debounce timer per session, a chain of writes, the last written signature | enqueue, flush, flushAll, write, cancel | timed writes beside flushes, failing disks, crashes between write and rename | one write at a time, a whole file, a flush returns when its data is on disk |
| Session storage and metadata, `shared/sessions/storage.ts`, `config/watcher.ts`, `SessionManager.ts` | the managed session, its file, a header put off during a turn | save, rename, flag, pending-plan operations, delete, external edits, watcher reports | a copy in memory, one in the queue and one on disk, each changed by somebody else | memory and disk agree when all is quiet; a deleted session stays deleted |
| Turns, `SessionManager.ts` | `isProcessing`, `activeRun`, the message queue, the assembled selection | sendMessage, runTurn, settleRun, cancelProcessing, processNextQueuedMessage | each call awaits several times while others arrive | each message is handled once, the queue drains, each run settles, the session becomes idle |
| Agent, `shared/agent/pi-agent.ts`, `backend/event-queue.ts` | `_isProcessing`, an event queue with waiting consumers, the subprocess and its ready promise | chat, spawn, redirect, forceAbort, subprocess exit | an abort before the loop unwinds, an exit or a failed start at any point | a turn ends, unless its subprocess came to nothing before it was ready (section 7) |
| Agent subprocess, `packages/pi-agent-server` | a session of the SDK, prompts being prepared or under way | prompt, abort, steer | messages that arrive when nothing is under way, aborts handled beside a prompt that awaits | a prompt ends in an answer or an error |
| Overflow recovery, `backend/pi/event-adapter.ts` | `overflowState`, the error held back, a fallback timer | hold, compact, recover, complete the queue | the end of a turn held back while the SDK decides, stops and exits meanwhile | a turn ends once, after its last execution, with an answer or an error |
| Permissions and approvals, `pi-agent.ts`, `SessionManager.ts`, `sessions/mcp-runtime.ts`, `pi-agent-server` | pending requests on both sides of the pipe, auto-deny timers, tools approved for the session | ask, answer, deny after 120 s, abort, switch the mode | an answer that races the timer, a stop or an exit; several windows | the first answer counts; "always" is remembered when meant; no tool call hangs |
| Runtime refresh, `SessionManager.ts`, `model-selection.ts`, `runtime-config.ts`, `pi-agent.ts` | picked and assembled selection, the agent, its signatures, the refresh in flight | save settings, switch, assemble a turn, update or drop the agent | a turn, a title and a switch during the await of a refresh | no turn on an agent being changed or dropped; a turn runs on what it assembled |
| Bootstrap, RPC handlers, Web UI, Electron, renderer, fetchers, tools, scripts, website | | | thin, presentational or sequential | not modelled, see section 8 |

How they interact: a window's RPC request calls a handler, which calls
`SessionManager`; `SessionManager` enqueues saves, drives the agent, and pushes
events through the transport; the watcher calls `SessionManager` back when a
session's file changes, whoever wrote it. All of it runs on one event loop per
process, so two activities interleave only at an `await`, a timer or a message.
Every model takes **the code between two awaits as one action**.

## 2. Modules

| Module | Models |
|---|---|
| `EventStream` | abstract: what the event channel promises a window |
| `WsTransport` | the event channel, both ends, and the sockets between them |
| `WsTransportProofs` | its type invariant, `BufferIsSuffix`, `OneHome`, `AckedWasSeen`, the refinement of `EventStream` |
| `DurableFile` | abstract: what saving a session promises |
| `PersistQueue` | the persistence queue, the saves of `SessionManager`, the disk, crashes |
| `PersistQueueProofs` | its invariants and the refinement of `DurableFile` |
| `SessionStore` | extends `PersistQueue`: turns, metadata, pending plans, deletion, other programs, the watcher |
| `SessionTurns` | `SessionManager`'s turns with `PiAgent`, its event queue and the subprocess |
| `RemoteCall` | abstract: what a call over the channel promises its caller |
| `RpcCalls` | the life of the client's connection and the calls in both directions over it |
| `OverflowRecovery` | the event adapter's recovery, between the SDK's events and the agent's queue |
| `ToolApproval` | what lets a tool call run: permissions, MCP approvals, their timers |
| `RuntimeRefresh` | selections, signatures, and the refresh of the agent around turns |
| `SessionStoreProofs`, `SessionTurnsProofs`, `RpcCallsProofs`, `OverflowRecoveryProofs`, `ToolApprovalProofs`, `RuntimeRefreshProofs` | the theorems of section 6 about these modules |
| `MC*` | constants for TLC |

### 2.1 WsTransport

State. `connWs ... lastSentSeq` are the fields of a `ClientConnection`, by
client id; `clients` and `disconnectedClients` are the server's two maps;
`ws ... currentHandshakeWasReconnect` are the fields of each window's
`WsRpcClient`; a socket has two ends, which close independently, and a queue of
messages in each direction. `published`, `known` and `notice` are history: for
whom each event was published, the last event each window was given or was told
to reload for, and what it was told last. They are the variables of
`EventStream`.

Actions. One per handler: `OnConnection`, `OnHandshake` (up to the await of the
authentication), `CompleteReconnect`/`CompleteFresh` (after it; they do not look
at the socket, and neither does the code), `RejectHandshake`, `OnSequenceAck`,
`OnSwitchWorkspace`, `OnClose`, `DisconnectedExpires`, `Push`, `Restart` on the
server; `Connect`, `OnOpen`, `OnHandshakeAck`, `OnEvent`, `OnDisconnect`,
`SendSequenceAck`, `SwitchWorkspace` on the client. `EventsAge` is time passing.

Abstractions.
- A client id is a random UUID made by a fresh handshake. A socket completes at
  most one handshake, so its number serves as the id.
- Timestamps rise with events, so "older than the TTL" is a threshold `expired`
  that only grows, up to any published event.
- `reconnectNow` is a disconnection by the client and a new `Connect`. Backoff
  delays are left out: `Connect` is possible whenever the window has no client.
- The envelope of a handshake stays at the head of its queue while its handler
  awaits the authentication: the handler still holds it.
- `PushTarget`'s `exclude` (no caller uses it), send errors and `error`
  envelopes are left out. RPC traffic is left out: it shares the socket and
  neither changes the state above nor is changed by it, the workspace switch
  apart.
- A stale reconnection makes the UI reload its state, so `EventStream` lets the
  window know everything published when the server sent the ack (`upto`).

### 2.2 PersistQueue

The queue keeps its state per session id and never looks across ids, so one
session is modelled. A stored session is its metadata (the fields that are both
in the header's signature and applied by the watcher), the version of its
transcript (a counter: the code never looks inside it here) and its pending
plan. A write goes through `waiting`, `tmp`, `rename`, `done`; `after` is the
write it was chained to, `tail` is the queue's `writeChain`, `waiting` the
flushes that await a write.

A write whose predecessor has settled starts in a microtask, before any timer,
disk completion or message: `EventLoop` in the guards says so. Two writes
inside one temporary file leave either content or a mixture (`FinishTmp`);
whether two can be there is what `OneWriter` is about. `Crash` keeps the disk
and loads the session from it. `Rename` is the rename of POSIX, which replaces the
file in one step. On win32 a rename that fails is tried again after the file was
removed (`persistence-queue.ts:225`); between the two there is no file, and a crash
there leaves only the temporary one. That branch is left out, so what is said here
of crashes is said of POSIX.

### 2.3 SessionStore

All that touches the file of one session. `WatcherFires` is the end of the
watcher's debounce: it reads the header *then*, reports it whoever wrote it,
and a running turn puts it off to its end (`pendingExternalHeader`).
`PlanOp` is the pending-plan operations of `storage.ts`, which load the session
from disk, change it and save it.

`sendMessage` awaits its flush before `runTurn`: `AcceptMessage` is the first part,
`accepted` holds the writes that are awaited, and `BeginTurn` goes on once one of
them is done. It looks neither at the map nor at anything else that may have changed
meanwhile, as the code does not. `SaveRun` is `emitRunMetrics`, which saves the
session it holds, with the `flushSession` after it, which does nothing for a session
that is not in the map any more. `DeleteSession` cancels the queue's entry and
removes the directory; a turn that it aborted, or a message that was being accepted,
goes on and saves. `deleted` remembers whether there was one ("under way") or none
("at rest"). One turn runs at a time: turns that overlap are `SessionTurns`'.

Left out: the race of the removal with an `open` of the same moment; listing;
plan files; attachments.

### 2.4 SessionTurns

Each message is a process: the call of `sendMessage` that brought it, which may
run a turn. `step` is what the call awaits. Calls that await `flushSession`
stand in one queue, `flushing`: the persistence queue settles the writes of a
session in the order they were scheduled (`PersistQueue` models why).
`Deliver` is `sendMessage` up to its first await, with its four ways: a turn of
its own, a steer, an abort and a place in the queue, or a place in the queue.
`Chat`, `Prompt`, `Drain`, `Unwind` are the agent's loop; a consumer of the
event queue that is woken goes on before anything else happens (`EventLoop`).
`Reset` drops the resolvers of a consumer that still waits, as the code does:
its step is then `lost`.

Between `Chat` and `Prompt` stands `ensureSubprocess`. A call at "spawn" awaits the
credentials or, once `Spawn` has made the child, its ready promise, which only
`SubprocessReady` resolves. `HandleSubprocessExit` drops that promise and
`SpawnFails` leaves it, and neither settles it: the calls that await it are "hung"
from then on. A child that failed stays in place with its promise, so the next
`Chat` hangs too; after an exit the next one spawns again. One window is left to the
call that spawned: if the exit comes while it still reads the credentials of MCP
servers, it finds no promise to await, and goes on with no subprocess. A `FailTurn`
after the child was made leaves one that never got its `init`, which is "failed" as
well.

`ProcessMessage` is the subprocess's reader. A prompt is first prepared
(`preparing`: `handlePrompt` awaits its session and a compaction) and started by
`StartPrompt`, with aborts and steers handled in between; an abort ends the
execution under way, and none that is still to start. What the SDK does is
nondeterministic: it makes model calls and ends when it likes.

`FailTurn` stands for every failure of the set-up, the recovery retry of
`ensureSubprocess` included. Left out: titles (with the flush of the first
one), `/compact`, permissions, text events, completion listeners that throw; and a
second subprocess, spawned by a chat that comes while another's is awaiting its
credentials: the two share one here.

`patient` is history: it is FALSE once the user acts while a call is between its
check of `isProcessing` and its turn, or between its turn and its end. Some
properties are kept only for a patient user; section 7 says why.

### 2.5 RpcCalls

State. `ws ... destroyed` are the fields of `WsRpcClient` (`readyPromise` is the
socket whose handshake settles it), `call` and `waits` where each `invoke()` is
and which promise it awaits; `clients ... closeHandler` and `handler`, `invoke`
the server's maps, handlers and pending calls to clients. One client; each socket
with two ends and a queue in each direction, as in `WsTransport`.

Actions. `InvokeCall` is `invoke` with the four ways of `ensureConnected`;
`OnHandshakeAck`, `OnError`, `OnShuttingDown`, `OnResponse`, `OnServerRequest`
are the client's messages, `OnDisconnect` its close event, which comes after the
close and may find that `reconnectNow` wanted it; `ConnectTimeout`,
`ReconnectTimeout`, `RequestTimeout`, `HandlerTimeout`, `InvokeTimeout` the
timers. `HandlerTimeout` answers the caller and the handler goes on ("late");
`HandlerReturns` of such a one sends nothing. `CapabilityReturns` sends on the
socket the client has *then*, as `onServerRequest` reads `this.ws` after its
await; the server looks the answer up by its id alone. `Notice` and `Close` are
the two steps of `stop()`; after them a new server may listen.

Abstractions. Events and acks are in `WsTransport`. The number under which a
client is known is its socket's; a reconnection keeps the number of the one
before. Delays are left out: timers fire at any time.

### 2.6 OverflowRecovery

Three turns one after another, each a `chatImpl` with the queue it resets and
drains. A turn that finds no ready subprocess is at "spawn" until it reports that it
is ready; if it exits before, the turn is "hung", or goes on without a subprocess, as
in `SessionTurns`. A child that cannot be spawned is left to that module. A turn that
hung is left behind when the user stops it and sends another message.
The subprocess reads prompts and aborts; a prompt that was read is in `waiting` while
`handlePrompt` awaits its session and a compaction; the SDK (external) runs, follows
up a prompt that comes while it runs, and after a run that overflowed checks
whether to compact, compacts, and runs again. Events carry the turns of their
run (`of`): this is history, which the code does not have. `clean` are the turns
that began with nothing of an older one under way, `disturbed` those that were
stopped or lost their subprocess. `FallbackFires` waits for the SDK's decision:
the timer's 5 s are longer than the microtask in which the SDK decides.
Text, usage and tool events are one event, "text".

### 2.7 ToolApproval

A call waits in the subprocess for a line from the main process, which answers
by its checks (a choice: they depend on the tool's input), or asks the user. MCP
calls go another way: the adapter asks, `SessionManager` answers for a mode or a
tool approved for the session, or forwards to the user with a timer.
`approvalTimers` stands for the map of that name and for `pendingTools`, which
has the same keys. `AbortReturns` is the part of `handleAbort` after its await;
calls made meanwhile are blocked by it too. Between a stop and the read of its
line the subprocess goes on. `HandleSubprocessExit` leaves the main process's
permissions and timers, as the code does: their answers reach the next
subprocess, which knows none of them.

### 2.8 RuntimeRefresh

A runtime is what an agent was built from or updated to: connection, model, and
two versions of the connection's settings, one of them of those that need a new
agent. `signature` stands for the two strings. `refresh` is the await in flight:
the subprocess's answer to an update, or the exit of an agent to be dropped.
`RefreshManagedRuntime` is the code from its call to that await, with the early
returns, and is part of the actions that call it: `SaveConnection`,
`TurnGetsAgent`, `TitleGetsAgent`. Callers that wait go on together in the action
that ends the refresh, in one order or the other; two that find no agent create
one each, and the session keeps the last (`Create`).

## 3. Abstract specifications

- `EventStream`: the next event owed to a window is given to it, or the window
  is told to reload, and nothing else. `WsTransport` has its three variables,
  so the refinement mapping is the identity (`StreamSpec`).
- `DurableFile`: the stored version only grows, up to the one held; a promise
  never exceeds it; a crash falls back to what is stored. The mapping is
  `held <- managed.version`, `stored <- file.version`, `promised <- Kept`, where
  `Kept` is the last version reported as saved until the disk refuses a write,
  and what is stored from then on.
- `RemoteCall`: a call waits, and is answered or refused once; it is answered only
  if its handler was done, and what was refused may have had its effect, or still
  get it. `RpcCalls` implements it twice, for the client's calls to the server and
  for the server's calls to a client (`CallsSpec`), with `outcome` and `effected`
  read off where the caller and the handler are.

## 4. Runs

| Run | Asks | Bounds | Distinct states |
|---|---|---|---|
| `transport_stream` | types, buffers without gaps, one home per client, acks that never run ahead, refinement of `EventStream` | 1 window, 2 sockets, 3 events, buffer of 2, 1 retained client, 1 switch, 1 restart | 0.7 M |
| `transport_windows` | refinement with two windows in two workspaces, who compete for one retained place | 2 windows, 3 sockets, 1 event, targets by workspace | 1.2 M |
| `transport_live` | a window is informed again and again | 1 window, 2 sockets, 2 events, 1 switch, 1 restart, targets all and client | 0.5 M |
| `queue_saves` | types, one writer, promises, refinement of `DurableFile`, and saved in the end | 3 versions, 6 writes, 1 refused write, 1 crash | 17.7 k |
| `store_all` | types; memory and disk agree when quiet; deleted stays deleted; promises kept, the file whole | 3 versions, 3 writes, 1 each of refused write, crash, edit, plan operation, message with its turn, deletion | 1.0 M |
| `turns_all` | types, handled once, nobody stranded; for a patient user one turn at a time, settled, in order; all comes to rest | 3 messages, 1 model call, 1 stop, 1 exit, failed start or failure | 1.2 M |
| `rpc_calls` | types, no call stranded, one connection that comes back, refinement of `RemoteCall` both ways, calls settle | 2 calls to the server, 1 to the client, 2 of these made, 2 sockets, 1 manual reconnect or destroy, 1 restart | 0.5 M |
| `recovery_all` | types, a clean turn ends after its execution with something shown, timer and state agree, clean and disturbed turns end | 3 turns, 1 stop, 1 exit | 0.16 M |
| `approvals_all` | types, the first answer counts, "always" is meant and kept, no call hangs | 2 MCP calls of one tool, 1 coding call, 1 stop, exit or mode switch | 0.2 M |
| `runtime_all` | types, no turn on an agent that is changed or dropped, nor on another route; signatures are true; turns get agents | 2 connections, 2 models, 3 turns, 1 saved setting, 2 switches | 0.2 M |
| `recovery_stop`, `runtime_model` | section 7 | small | stop at the violation |

Why the bounds are enough for what they ask. Replay needs a client that has
seen some events, missed some, and has more in its buffer than the limit: three
events with a buffer of two give all of these. A client whose place is taken by
another needs two windows and one place, and a socket more than there are windows. The queue needs a write under way, one scheduled and
one entry: three versions. In `queue_saves` `MaxWrite` is twice `MaxVersion`, as each
save schedules at most a flush and a timed write, so it never binds. In `store_all`
three versions and three writes are those of a message, the begin of its turn and its
end; a timed write takes the place of one of them. A message
queued behind a queued one needs three messages. A call is lost with its socket
and the client comes back with two sockets; a turn that begins clean after one
that did not needs three turns; an MCP tool asked about again needs two calls.
The runtime is refreshed during a turn's assembly with two turns and a switch or
a saved setting between them.

`CHECK_DEADLOCK FALSE` everywhere: with counters at their bound, or with nobody
sending, saving or pushing, the system rests, and that is no fault.

Each property has a mutant in `PROJECT.json`: a change a plausible bug would
make to one definition, under which the run fails. The mutated forms stand
right before the definitions they mutate.

## 5. Fairness

- `WsTransport!FairSpec`: weak fairness of what the event loops do with input
  that has arrived, of the authentication, of reconnecting (the client retries
  with backoff for as long as it is not destroyed), and of noticing that the
  other end is gone (close frames, and the heartbeat when there is none).
  Nothing is assumed of pushes, acks, expiry, losses or switches.
- `PersistQueue!FairSaveSpec`: weak fairness of the debounce timer and of each
  write's steps: timers fire, disk operations end. The timer is restarted by
  each save and has no maximum wait; with finitely many saves it fires.
- `SessionTurns!FairTurnsSpec`: weak fairness of each await coming back (writes,
  agent creation, credentials, a prompt's preparation), of a subprocess that was
  spawned reporting that it is ready as long as it is there, and of executions
  ending. An execution that never
  ends is a hung model call, which the code leaves to the user's stop. Nothing
  is assumed of the user, of failures or of model calls.
- `RpcCalls!FairRpcSpec`: weak fairness of three timers: the client's connect and
  request timers and the server's timer of a call to a client. Nothing is assumed
  of the network, of the other side, or of handlers and capabilities, which may
  never return: the timers alone settle the calls.
- `OverflowRecovery!RecoverySpec`: a subprocess reports that it is ready as long as it
  is there, and the set-up of a turn, its consumer, the fallback timer, both pipes'
  readers and the SDK go on. Nobody has to stop a turn.
- `ToolApproval!ApprovalSpec`: both readers, the auto-deny timer and the return of
  the SDK's `abort()`. The user need not answer.
- `RuntimeRefresh!RuntimeSpec`: a flush ends, and a refresh does: its request and
  its wait for an exit have timeouts.

## 6. Proofs

`WsTransportProofs` proves, for any windows, workspaces, numbers of sockets,
pushes, switches and restarts, buffer size and number of retained clients:
- `TypeCorrect`: `Spec => []TypeOK`;
- `BuffersAreSuffixes`: `Spec => []BufferIsSuffix`;
- `ClientsHaveOneHome`: `Spec => []OneHome`;
- `AcksAreSeen`: `Spec => []AckedWasSeen`;
- `StreamIsImplemented`: `Spec => StreamSpec`, the whole safety refinement, if
  pushes are `Routed`: meant for all windows, or for those of a workspace while no
  window switches. A reconnection undoes a switch (section 7), and a push to one
  client id is buffered while no window has that id, so these keep no promise to a
  window; the runs that check `StreamSpec` have the pushes that the theorem has.

The inductive invariant is `TypeOK /\ SocketInv /\ BufferInv /\ HandlerInv /\
PlacesInv`. `BufferInv` is `BufferIsSuffix` for every client id there ever was,
in one of the maps or not: a step that puts an id into a map then has nothing to
prove about its buffer. `PlacesInv` is `OneHome` over places of the list. It is
not inductive alone. A close moves a client from the connected to the retained,
so the client of the close listener of an open socket must be connected, and by
this socket; a fresh handshake adds its socket's number, so a number may be in
use only when the handshake of its socket is done. Both are in `HandlerInv`.
`SocketInv` (a socket under handshake has a window, and its envelope is still in
its queue) is what the types of a completed handshake rest on.

`AckedWasSeen` relates a window to the server's counters of its client id, and
needs two invariants more. `NetInv` ties sockets, windows and what is under way
together: a socket in use at the client's end is its window's, nothing is sent to
it before its handshake is completed, the first message then is the
acknowledgement of it, and the close listener of an open socket is that of the
window's client id. `SeenInv` then links each window to its client id: the acks
in flight are at most what the window has seen, what it has seen is at most what
was sent to it, and the numbers in its queue rise. A reconnection hands the same
counters to a new socket; a restart or an unknown client id gives a new one.

The refinement needs to know which event each number stands for. `Chain` says, of
a window and the client id it has, will have with the acknowledgement under way,
or will ask for, that there is a map from the numbers beyond the last one it has
seen to events: in order, the first of those it is still owed without a gap. What
is in its queue is the start of that map; what the server retains agrees with it;
and as long as the server knows the client id, all that is owed has a number.
`ChainInv` is `Chain` for each of the three. Losing a queue only shortens what is
under way, so a close keeps it; a push extends the map by one (`PushChain`); a
reconnection is told "replayed" only when the buffer starts where the map does, and
else is owed nothing more (`ResumedChain`); a fresh client starts an empty map.
`RouteInv` says that without switches the server's record of a window's workspace
is right. Then each `OnEvent` is a `Give`, each `OnHandshakeAck` a `Reload` or a
`CaughtUp`, each `Push` a `Publish`, and every other step a stutter.

`PersistQueueProofs` proves, for any metadata values and any number of
versions, writes, refused writes and crashes:
- `QueueTypes`, `WritesAreSerial` (`OneWriter`), `FileStaysWhole`,
  `FlushedIsSaved` (`PromisedIsSaved`), `NothingIsForgotten` (`SavedOrUnderWay`);
- `QueueIsDurable`: `SaveSpec => DurableSpec`, the whole safety refinement.

The inductive invariant is `TypeOK /\ dir /\ ChainInv /\ VersionInv /\ FlushInv /\
PromiseInv`. `ChainInv` says that writes are numbered as they are scheduled,
that each waits for the one before it unless that one had settled, that none
runs before all earlier ones are done, and that `tail` is the last one: it is
what makes writes serial. `VersionInv` orders the versions (on disk, in the
running write, in memory), and says where the last one is: in the entry, in the
running write or, if the disk refused nothing, on disk. `FlushInv` says that
the write a flush waits for, once it runs, has the version of the flush or a
later one. `PromiseInv` is the part of `PromisedIsSaved` about versions.

`SessionStoreProofs` proves `DeletedIsGone` (`DeletedStaysGone`),
`PromisesStand` (`PromisesKept`), `StoreTyped` (`StoreTypeOK`) and `MetadataAgree`
(`MetadataConverges`). The first rests on `DeletedInv`: a session deleted at rest has
no entry, timer, directory, turn or accepted message, and no step makes one: all that
begin something look for it in the map, but for `BeginTurn`, which needs a message
accepted before. The second rests on `KeptInv`: until the first pending-plan
operation or deletion the queue's own invariant holds, and what the watcher put
off is metadata. Each step of the queue is cited from `PersistQueueProofs`; what
is new are the steps that change the header in memory (the watcher), on disk
(other programs) or at the end of a turn, and leave the versions alone. The third holds through
pending-plan operations and deletions too, where the invariants of the queue do
not. Its types alone are not inductive: a pending-plan operation enqueues the
session as it is on disk, which is no session if the file was cut short, and
after the deletion of a running turn's session two writes can be inside the
temporary file and leave just that. `Unbroken` says that it does not happen
while the session is listed: the chain is whole, the file is not cut short, and
neither is the temporary file of a write about to rename. A deletion ends it and
takes the session off the list; only a restart, which loads whole files only,
puts it back. The fourth rests on `ConvergeInv`: while the session is listed, what is
being written is a whole session in a directory that is there, and the metadata agree
unless an entry, a running write, a change not yet reported or a turn is still to make
them agree.

`SessionTurnsProofs` proves `TypesCorrect`, `MessagesHandledOnce`
(`HandledOnce`), `NobodyIsStranded` (`NothingStranded`), `TurnsAreSerial`
(`OneTurnAtATime`) and `QueueKeepsOrder` (`QueueInOrder`), for any number of
messages, model calls, stops and exits. `FlushOK` says that a call in the queue
of flushes awaits what its place there says, and has one place: without it the
end of a flush could wake a call twice. `QueueOK` says that a queued message is
there once and its call has returned, `RunsInv` that only a message whose turn
began has a run; together they give `HandledOnce`. `BusyInv` is stronger than
`NothingStranded`: a busy session has a turn, one that the event queue did not
drop, so a stop or an end finds somebody to go on; a turn that hung is the one that
need not. `SpawnInv` says that who awaits the ready promise awaits one that the
subprocess, or the spawn still to come, can settle. `PatientInv` says that for a
patient user at most one call is under way and that run and selection are its
own; a steer or a queued message then has no second turn to collide with.

`RpcCallsProofs` proves `TypesCorrect`, `NoCallIsStranded` (`NoCallStranded`),
`OneConnectionOnly` (`OneConnection`) and `CallsKeepPromise`
(`RpcSpec => CallsSpec`, the refinement of `RemoteCall` in both directions).
`WaitInv` adds to the properties that the connect timer runs only while there is
a socket and no connection, and that sockets are numbered as they are made: a
close event that is told late is then never that of the present socket.
`MessageInv` is what the refinement needs: a request is under way once, for a
call that no handler had yet, and an answer says "ok" only if its handler was
done. A late answer then changes nothing that was settled.

`OverflowRecoveryProofs` proves `TypesCorrect`, `TimerFollowsState`
(`TimerMatchesState`) and `CleanTurnsAnswered` (`AnsweredInTime`), for any number
of turns, stops and exits. `CleanTurn` describes all that may be on the pipes
while a clean, undisturbed turn is under way: nothing, with a subprocess that is
ready or on its way (`Fresh`), its prompt alone, on the pipe or being prepared, or a
suffix of the events of one execution with its compaction and retry (`RunAt`),
with the state of the adapter that belongs to the place in it.

`ToolApprovalProofs` proves `TypesCorrect`, `FirstAnswerDecides`
(`FirstAnswerCounts`) and `AlwaysIsRemembered` (`AlwaysIsMeantAndKept`), for any
calls and tools. `AskedOnce` and `NoReplyYet` say that a call is requested once,
and has no reply under way until it was answered; `RepliesAgree` that a reply
which allows a call agrees with the first answer to it.

`RuntimeRefreshProofs` proves `TypesCorrect`, `TurnsRunOnLiveAgents`
(`TurnRunsOnLiveAgent`), `TurnsRunOnTheirConnection` (`TurnRunsOnItsConnection`)
and `SignaturesAreTrue` (`SignatureIsTrue`), for any connections and models.
`AgentInv` says that a refresh has an agent which is in no turn, `SignatureInv`
also what an update under way will make of it, and `RouteInv` that a refresh met
by a turn and not older than it is for what the turn assembled. `VersionsInv`
(settings only get newer) lets a later refresh stand in for the one awaited.

The assumptions are the named `ASSUME`s of the modules: bounds are naturals,
the buffer and the retained list hold at least one, the first metadata value is
one of `Meta`, there are a connection and a model, the tool calls are finitely
many, no MCP tool is at once a coding or proxy tool (`ToolKinds`), and `None` is
not a window (`WindowNames`).

Only model-checked: `NoCallHangs` and the other liveness properties, as liveness
under fairness and `ENABLED` are out of the prover's reach, and inductions over data
too.

## 7. Where code and comments disagree

Two runs expect a violation, and `findings` in `PROJECT.json` quotes the line
each contradicts.

- `recovery_stop`: a stop, or an exit, during a recovery leaves the adapter in it.
  The `agent_end` of the next turn is taken for one of the recovery, and the turn
  does not end (`event-adapter.ts:156`; `resetOverflowState` is called by nothing
  on these paths).
- `runtime_model`: `selectModel` compares the new selection with the one picked
  before, not with the connection of the live agent. Picking another connection,
  then a model of it, then the first selection again leaves the agent of the first
  connection with the model of the second, and no signature tells
  (`SessionManager.ts:2069`).

Seen in the models, as the reason why a property has a condition:

- `SessionTurns`, `patient`: two messages pass the check of `isProcessing` before
  either begins its turn; the turns overlap and share one selection
  (`SessionManager.ts:819`, against `:902`). Without the condition TLC shows it in
  a few steps.
- `SessionTurns` and `OverflowRecovery`, `Hangs`: a subprocess that exits before it is
  ready takes its ready promise with it, unsettled (`pi-agent.ts:1645`), and the turn
  awaits it for ever (`:526`; no timer covers it). The error and the completion that
  `:1648` ("If we were processing, emit error + complete") puts in the queue are read
  by nobody, and the session stays busy until the user stops it; messages sent
  meanwhile stay queued until a turn begun after that stop is over. If the child
  could not be spawned at all (`:469`), it and its promise stay: messages are steered
  into it, and later turns of the same agent hang as well. `NothingStranded`,
  `ComesToRest` and `CleanTurnsEnd` except such a turn, and nothing else.
- `SessionStore`, "at rest": a session deleted during a turn is written again by the
  turn that unwinds (`SessionManager.ts:1203`, `:1231`), beside a write still running,
  as `cancel` forgets the chain (`persistence-queue.ts:262`). A session deleted while
  `sendMessage` awaits the flush of a new message (`:819`, `:846`) gets its turn all the
  same (`:852`), and is written again by it. `DeletedStaysGone` is about neither.
- `SessionTurns`: a stop whose abort the subprocess reads while `handlePrompt` awaits
  its session or a compaction (`pi-agent-server/src/index.ts:1976`, `:1995`) finds no
  execution, and the prompt starts one after it.
- `SessionTurns`: a message redirected before the prompt has an execution under
  way is dropped by the subprocess and reported as steered (`pi-agent.ts:2194`).
- `SessionStore`, `planOps = 0`: a pending-plan operation reads the file while a
  newer version is queued or being written, and writes what it read over it
  (`storage.ts:599`).
- `SessionStore`: the watcher reports the process's own write; a change made
  meanwhile is undone by it (`watcher.ts:277`, `SessionManager.ts:2521`).
  `MetadataConverges` asks only that memory and disk agree afterwards.
- `WsTransport`: the handshake carries the workspace of the client's construction;
  after a switch and a reconnection the window is routed to that one again
  (`client.ts:408`).
- `RuntimeRefresh`, `metOlder`: a turn that joins a refresh older than itself does
  not look at the signatures again, and runs on what that refresh was for; and two
  callers that wait for a refresh that drops the agent create one each.
- `ToolApproval`: "Always Allow" is remembered for MCP tools only
  (`pi-agent.ts:2061` ignores it for the others).

Seen while modelling, in the models but without a run of their own: a socket
that closes during its authentication is added to the connected clients and
stays there (`server.ts:591`); sockets still in their handshake are not counted
against the limit of clients (`server.ts:387`); a write that the disk refuses
settles like any other, and its flush returns (`persistence-queue.ts:231`); the
signature is set before the write, so after a refused one the next takes its own
old header for an external change (`:216`); a write merges an external edit into
the file but not into memory, and the next one overwrites the edit (`:188`).

## 8. What is not modelled

- What single RPC handlers, capabilities and tools do: calls to the stores, to the
  operating system or to `SessionManager`, without a protocol of their own.
- Titles, branching, background tasks, thinking levels, MCP status snapshots.
- Codec, typed push, formatting, transcript lines, portable paths, artifacts:
  data without control.
- Bootstrap, Web UI server, Electron main process, renderer: sequential start-up
  or presentation. A restart of the server is in `WsTransport` and `SessionStore`.
- Model fetchers, services, credentials, session tools, the network
  interceptor: calls to the outside or pure code.
- Multi-session effects: sessions share no state in the queue or in their turns.

## 9. Plan

1. `SessionTurns` composed with `OverflowRecovery`: stops and messages while a
   recovery holds the queue open, with more than one message.
2. `ToolApproval` with two windows that answer, and the deletion of a session with
   requests open.
3. A run for a child that cannot be spawned, with more than one agent in turn: what
   drops the agent that holds it.
