----------------------------- MODULE PersistQueue -----------------------------
(***************************************************************************)
(* SessionPersistenceQueue (shared/sessions/persistence-queue.ts) and the  *)
(* two ways SessionManager saves a session with it: persistSession, which  *)
(* enqueues, and flushSession, which enqueues and waits for the write.     *)
(*                                                                         *)
(* The queue keeps its state per session id and never looks across ids, so *)
(* one session is modelled. Between two awaits the code runs alone: an     *)
(* action is the code from one await to the next. The chain of promises is *)
(* kept as it is built: each write waits for the one that was the tail     *)
(* when it was scheduled.                                                  *)
(*                                                                         *)
(* A saved session has metadata (the fields of the header's signature), a  *)
(* transcript, of which the version counts, and a pending plan.            *)
(***************************************************************************)
EXTENDS Naturals

CONSTANTS
  Meta,          \* values of the metadata
  FirstMeta,     \* the metadata of a new session
  MaxVersion,    \* bound: versions of the transcript
  MaxWrite,      \* bound: writes scheduled by one process
  MaxFail,       \* bound: writes that fail
  MaxCrash       \* bound: crashes of the process

Nothing == [none |-> TRUE]
Write == 1..MaxWrite
NoWrite == 0

\* PendingPlanExecution, or none.
NoPlan == [set |-> FALSE, awaitingCompaction |-> FALSE, executionDispatched |-> FALSE]
Plan == {NoPlan} \union [set : {TRUE}, awaitingCompaction : BOOLEAN,
                         executionDispatched : BOOLEAN]

\* A StoredSession; whole is false of a file that was not written to its end.
Stored == [meta : Meta, version : Nat, plan : Plan, whole : {TRUE}]
NewSession == [meta |-> FirstMeta, version |-> 0, plan |-> NoPlan, whole |-> TRUE]
Partial == [NewSession EXCEPT !.whole = FALSE]

ASSUME Metadata == FirstMeta \in Meta
ASSUME QueueBounds ==
  MaxVersion \in Nat /\ MaxWrite \in Nat /\ MaxFail \in Nat /\ MaxCrash \in Nat

VARIABLES
  managed,      \* the session as SessionManager holds it
  pending,      \* the queue's entry: what the next write will take
  timer,        \* the entry's debounce timer is running
  next,         \* the number of the next write scheduled
  phase,        \* how far each write is
  after,        \* the write that each write waits for
  taken,        \* what each running write is writing
  tail,         \* writeChain: the last write scheduled, if it has not settled
  lastWrittenHeaderSignature,   \* a singleton of metadata, or empty
  waiting,      \* the flushes under way: the version saved, the write awaited
  dir,          \* the session's directory exists
  file, tmp,    \* session.jsonl and session.jsonl.tmp
  \* history
  promised,     \* the last version a flush reported as saved
  fails, crashes

chainVars == <<next, phase, after, tail>>
queueVars == <<pending, timer, chainVars, taken, lastWrittenHeaderSignature, waiting>>
diskVars == <<dir, file, tmp>>
historyVars == <<promised, fails, crashes>>
saveVars == <<managed, queueVars, diskVars, historyVars>>

TypeOK ==
  /\ managed \in Stored
  /\ pending \in Stored \union {Nothing}
  /\ timer \in BOOLEAN
  /\ next \in 1..(MaxWrite + 1)
  /\ phase \in [Write -> {"unborn", "waiting", "tmp", "rename", "done"}]
  /\ after \in [Write -> Write \union {NoWrite}]
  /\ taken \in [Write -> Stored \union {Nothing}]
  /\ tail \in Write \union {NoWrite}
  /\ lastWrittenHeaderSignature \in SUBSET Meta
  /\ waiting \in SUBSET [version : Nat, write : Write]
  /\ dir \in BOOLEAN
  /\ file \in Stored \union {Nothing, Partial}
  /\ tmp \in Stored \union {Nothing, Partial}
  /\ promised \in Nat /\ fails \in Nat /\ crashes \in Nat

\* A session that createSession has saved.
Init ==
  /\ managed = NewSession
  /\ pending = Nothing /\ timer = FALSE
  /\ next = 1 /\ tail = NoWrite
  /\ phase = [w \in Write |-> "unborn"]
  /\ after = [w \in Write |-> NoWrite]
  /\ taken = [w \in Write |-> Nothing]
  /\ lastWrittenHeaderSignature = {FirstMeta}
  /\ waiting = {}
  /\ dir = TRUE /\ file = NewSession /\ tmp = Nothing
  /\ promised = 0 /\ fails = 0 /\ crashes = 0

-----------------------------------------------------------------------------
(* The operations of the queue *)

\* Mutant of Enqueue: the timer that was cancelled is not started again.
EnqueueNoTimer(data) == pending' = data /\ timer' = FALSE
\* The entry is replaced and its timer starts again.
Enqueue(data) == pending' = data /\ timer' = TRUE

\* A write is appended to the chain, for the callers in await.
Schedule(await) ==
  /\ next <= MaxWrite
  /\ next' = next + 1
  /\ phase' = [phase EXCEPT ![next] = "waiting"]
  /\ after' = [after EXCEPT ![next] = tail]
  /\ tail' = next
  /\ waiting' = waiting \union [version : await, write : {next}]

\* Mutant of Flush: a write under way is awaited in place of the entry's own.
FlushTail(entry, version) ==
  IF entry # Nothing /\ tail = NoWrite THEN Schedule({version})
  ELSE /\ waiting' = waiting \union
            (IF tail = NoWrite THEN {} ELSE [version : {version}, write : {tail}])
       /\ UNCHANGED chainVars

\* flush: the entry gets a write of its own; with no entry the caller waits for
\* the tail, or for nothing.
Flush(entry, version) ==
  IF entry # Nothing THEN Schedule({version})
  ELSE /\ waiting' = waiting \union
            (IF tail = NoWrite THEN {} ELSE [version : {version}, write : {tail}])
       /\ UNCHANGED chainVars

\* Mutant of Told: every flush goes on, whichever write it waits for.
ToldAll(w) == {f.version : f \in waiting}
\* What the callers that wait for a write are told is saved.
Told(w) == {f.version : f \in {g \in waiting : g.write = w}}

\* Mutant of TailAfter: the chain is dropped whatever its tail is.
TailDropped(w) == NoWrite
\* The chain is dropped if the write was its tail.
TailAfter(w) == IF tail = w THEN NoWrite ELSE tail

\* The write has settled: its callers go on.
Settle(w) ==
  /\ phase' = [phase EXCEPT ![w] = "done"]
  /\ taken' = [taken EXCEPT ![w] = Nothing]
  /\ tail' = TailAfter(w)
  /\ waiting' = {g \in waiting : g.write # w}
  /\ promised' \in Told(w) \union {promised}
  /\ \A v \in Told(w) \union {promised} : v <= promised'
  /\ UNCHANGED <<next, after>>

\* Mutant of Merged: the signature is written where the metadata belongs.
MergedSignature(data) == [data EXCEPT !.meta = lastWrittenHeaderSignature]
\* The header written: the metadata on disk is kept if it is not what this
\* process wrote last.
Merged(data) ==
  LET external == /\ file # Nothing /\ lastWrittenHeaderSignature # {}
                  /\ file.meta \notin lastWrittenHeaderSignature
  IN IF external THEN [data EXCEPT !.meta = file.meta] ELSE data

Ready(w) ==
  /\ phase[w] = "waiting"
  /\ after[w] \in {NoWrite} \union {x \in Write : phase[x] = "done"}

\* A write that may start does so before the event loop turns to a timer, a
\* disk operation that has ended, or a call.
EventLoop == \A w \in Write : ~Ready(w)

\* Mutant of OpenFile: session.jsonl is written in place.
OpenInPlace == file' = Partial /\ UNCHANGED tmp
\* The file that a write opens: the temporary one.
OpenFile == tmp' = Partial /\ UNCHANGED file

\* write: the entry is taken, the directory made, the header merged and its
\* signature noted; then the temporary file is opened and written.
StartWrite(w) ==
  /\ Ready(w) /\ pending # Nothing
  /\ pending' = Nothing /\ timer' = FALSE
  /\ phase' = [phase EXCEPT ![w] = "tmp"]
  /\ taken' = [taken EXCEPT ![w] = Merged(pending)]
  /\ lastWrittenHeaderSignature' = {Merged(pending).meta}
  /\ dir' = TRUE /\ OpenFile
  /\ UNCHANGED <<managed, next, after, tail, waiting, historyVars>>

\* write, with no entry left to take.
SkipWrite(w) ==
  /\ Ready(w) /\ pending = Nothing
  /\ Settle(w)
  /\ UNCHANGED <<managed, pending, timer, lastWrittenHeaderSignature, diskVars, fails,
                 crashes>>

\* The temporary file is complete. Two writes inside it at once leave the
\* content of either, or a mixture.
FinishTmp(w) ==
  /\ EventLoop
  /\ phase[w] = "tmp" /\ dir
  /\ phase' = [phase EXCEPT ![w] = "rename"]
  /\ tmp' \in {taken[w]} \union
       (IF \E x \in Write \ {w} : phase[x] \in {"tmp", "rename"} THEN {Partial} ELSE {})
  /\ UNCHANGED <<managed, pending, timer, next, after, taken, tail,
                 lastWrittenHeaderSignature, waiting, dir, file, historyVars>>

\* The rename replaces the file at once, as POSIX does. What follows a refused
\* replacement on Windows, the removal of the file and a second rename, is left out.
Rename(w) ==
  /\ EventLoop
  /\ phase[w] = "rename" /\ tmp # Nothing
  /\ file' = tmp /\ tmp' = Nothing
  /\ Settle(w)
  /\ UNCHANGED <<managed, pending, timer, lastWrittenHeaderSignature, dir, fails, crashes>>

\* The directory or the temporary file was taken away: the write fails.
LoseWrite(w) ==
  /\ EventLoop
  /\ \/ phase[w] = "tmp" /\ ~dir
     \/ phase[w] = "rename" /\ tmp = Nothing
  /\ Settle(w)
  /\ UNCHANGED <<managed, pending, timer, lastWrittenHeaderSignature, diskVars, fails,
                 crashes>>

\* The disk refuses. The error is logged, and the write settles like any other.
FailWrite(w) ==
  /\ EventLoop
  /\ phase[w] \in {"tmp", "rename"} /\ fails < MaxFail
  /\ fails' = fails + 1
  /\ Settle(w)
  /\ UNCHANGED <<managed, pending, timer, lastWrittenHeaderSignature, diskVars, crashes>>

\* The debounce timer fires.
TimerFires ==
  /\ EventLoop /\ timer
  /\ timer' = FALSE
  /\ Schedule({})
  /\ UNCHANGED <<managed, pending, taken, lastWrittenHeaderSignature, diskVars, historyVars>>

\* Mutant of Cancel: the entry stays.
CancelKeepsEntry ==
  /\ tail' = NoWrite
  /\ lastWrittenHeaderSignature' = {}
  /\ UNCHANGED <<pending, timer>>
\* cancel: the entry, the chain and the signature are forgotten. What is
\* running goes on.
Cancel ==
  /\ pending' = Nothing /\ timer' = FALSE
  /\ tail' = NoWrite
  /\ lastWrittenHeaderSignature' = {}

-----------------------------------------------------------------------------
(* SessionManager *)

\* The session changes, and is saved without waiting or waited for.
PersistSession(session) ==
  /\ managed' = session
  /\ Enqueue(session)
  /\ UNCHANGED <<chainVars, taken, lastWrittenHeaderSignature, waiting, diskVars, historyVars>>

FlushSession(session) ==
  /\ managed' = session
  /\ Enqueue(session)
  /\ Flush(session, session.version)
  /\ UNCHANGED <<taken, lastWrittenHeaderSignature, diskVars, historyVars>>

Changed == [managed EXCEPT !.version = @ + 1]

\* handleAgentEvent and others; sendMessage before its ack, and others.
SaveLater == managed.version < MaxVersion /\ PersistSession(Changed)
SaveNow == managed.version < MaxVersion /\ FlushSession(Changed)

\* renameSession, flagSession.
UpdateMetadata(meta) ==
  /\ managed.version < MaxVersion
  /\ meta # managed.meta
  /\ FlushSession([Changed EXCEPT !.meta = meta])

\* flushAll, for a session with no entry.
FlushInFlight ==
  /\ pending = Nothing /\ tail # NoWrite
  /\ Flush(pending, managed.version)
  /\ UNCHANGED <<managed, pending, timer, taken, lastWrittenHeaderSignature, diskVars,
                 historyVars>>

\* The process dies; the next one loads the session from its file, which it
\* lists if it can read it.
Crash ==
  /\ crashes < MaxCrash
  /\ file # Nothing /\ file.whole
  /\ crashes' = crashes + 1
  /\ managed' = file
  /\ pending' = Nothing /\ timer' = FALSE
  /\ next' = 1 /\ tail' = NoWrite
  /\ phase' = [w \in Write |-> "unborn"]
  /\ after' = [w \in Write |-> NoWrite]
  /\ taken' = [w \in Write |-> Nothing]
  /\ lastWrittenHeaderSignature' = {}
  /\ waiting' = {}
  /\ UNCHANGED <<diskVars, promised, fails>>

-----------------------------------------------------------------------------
QueueStep(w) == StartWrite(w) \/ SkipWrite(w) \/ FinishTmp(w) \/ Rename(w)

SaveNext ==
  \/ SaveLater \/ SaveNow \/ FlushInFlight \/ TimerFires \/ Crash
  \/ \E meta \in Meta : UpdateMetadata(meta)
  \/ \E w \in Write : QueueStep(w) \/ FailWrite(w)

SaveSpec == Init /\ [][SaveNext]_saveVars

\* Timers fire and disk operations end. Nothing is assumed of the callers.
SaveFairness ==
  /\ WF_saveVars(TimerFires)
  /\ \A w \in Write : WF_saveVars(QueueStep(w))

FairSaveSpec == SaveSpec /\ SaveFairness

-----------------------------------------------------------------------------
(* Properties *)

\* No two writes are inside the temporary file at once ("so two of them can
\* never be inside the same .tmp file at once"), and none starts while another
\* is between its write and its rename.
OneWriter ==
  \A w, x \in Write :
    phase[w] \in {"tmp", "rename"} /\ phase[x] \in {"tmp", "rename"} => w = x

\* session.jsonl is a session that was written to its end, or is not there.
FileIsWhole == file # Nothing => file.whole

\* What a flush reported as saved is on disk, as long as the disk refused
\* nothing: a flush waits for the write that has its data, not for another.
PromisedIsSaved == fails = 0 => file # Nothing /\ promised <= file.version

\* A write is running, or may start.
Moving == \E w \in Write : Ready(w) \/ phase[w] \in {"tmp", "rename"}

\* Nothing is forgotten. While there is an entry or a flush that waits, the timer runs
\* or the chain moves, through cancelled timers, flushes that find no entry, and
\* writes that fail; and what is not on disk yet is the entry's, or is being written,
\* unless the disk refused something.
SavedOrUnderWay ==
  /\ pending # Nothing => timer \/ Moving
  /\ waiting # {} => Moving
  /\ fails = 0 /\ pending = Nothing /\ file # managed =>
       \E w \in Write : phase[w] \in {"tmp", "rename"} /\ taken[w] = managed

\* The promises that stand: all of them, till the disk refuses a write; from
\* then on no more is claimed than what is stored.
Kept == IF fails = 0 THEN promised ELSE file.version

\* The queue implements DurableFile: the stored session never goes back, not
\* in a crash and not by a late write, and keeps its promises.
Durable == INSTANCE DurableFile WITH
  held <- managed.version, stored <- file.version, promised <- Kept
DurableSpec == Durable!DurableSpec

\* What the server holds is on disk in the end, without a flush too, unless the
\* disk refused a write.
EventuallySaved == []<>(fails > 0 \/ file = managed)

=============================================================================
