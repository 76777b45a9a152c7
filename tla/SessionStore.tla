----------------------------- MODULE SessionStore -----------------------------
(***************************************************************************)
(* A saved session and everything that writes its file or reads it back:   *)
(* SessionManager with its turns and its metadata, the pending-plan        *)
(* operations of shared/sessions/storage.ts, the deletion of the session,  *)
(* other programs that edit the header, and the ConfigWatcher that reports *)
(* every change of the file, the process's own too. They meet in           *)
(* PersistQueue's file, entry and managed session.                         *)
(***************************************************************************)
EXTENDS PersistQueue

CONSTANTS
  MaxEdit,       \* bound: edits of the header by other programs
  MaxPlanOp,     \* bound: pending-plan operations
  MaxTurn,       \* bound: messages that begin a turn
  MayDelete      \* whether the session may be deleted

ASSUME StoreBounds ==
  MaxEdit \in Nat /\ MaxPlanOp \in Nat /\ MaxTurn \in Nat /\ MayDelete \in BOOLEAN

VARIABLES
  isProcessing,
  accepted,                \* the flushes that sendMessage waits for before runTurn
  turn,                    \* runTurn has not returned
  pendingExternalHeader,   \* a singleton of metadata, or empty
  watch,                   \* a change of session.jsonl waits for the watcher
  listed,                  \* the session is in SessionManager's map
  \* history
  deleted,                 \* whether the session was deleted, and when
  edits, planOps, turns

turnVars == <<isProcessing, accepted, turn, turns>>
storeVars == <<saveVars, turnVars, pendingExternalHeader, watch, listed,
               deleted, edits, planOps>>

StoreTypeOK ==
  /\ TypeOK
  /\ isProcessing \in BOOLEAN /\ turn \in BOOLEAN /\ accepted \in SUBSET Write
  /\ pendingExternalHeader \in SUBSET Meta
  /\ watch \in BOOLEAN /\ listed \in BOOLEAN
  /\ deleted \in {"no", "at rest", "under way"}
  /\ edits \in Nat /\ planOps \in Nat /\ turns \in Nat

StoreInit ==
  /\ Init
  /\ isProcessing = FALSE /\ turn = FALSE /\ accepted = {}
  /\ pendingExternalHeader = {}
  /\ watch = FALSE /\ listed = TRUE
  /\ deleted = "no"
  /\ edits = 0 /\ planOps = 0 /\ turns = 0

Unchanged ==
  UNCHANGED <<turnVars, pendingExternalHeader, watch, listed, deleted,
              edits, planOps>>

-----------------------------------------------------------------------------
(* The queue's steps: the rename changes the watched file *)

Background ==
  /\ \/ TimerFires
     \/ \E w \in Write : StartWrite(w) \/ SkipWrite(w) \/ FinishTmp(w) \/ FailWrite(w)
                         \/ LoseWrite(w)
  /\ Unchanged

RenameSession(w) ==
  /\ Rename(w)
  /\ watch' = TRUE
  /\ UNCHANGED <<turnVars, pendingExternalHeader, listed, deleted, edits,
                 planOps>>

FlushAll == FlushInFlight /\ Unchanged

-----------------------------------------------------------------------------
(* SessionManager *)

\* sendMessage to a turn that runs, and others, outside of a turn's loop.
Message == listed /\ SaveNow /\ Unchanged

SetMetadata(meta) ==
  /\ listed /\ UpdateMetadata(meta)
  /\ UNCHANGED <<turnVars, pendingExternalHeader, watch, listed, deleted, edits, planOps>>

\* sendMessage with no turn running: the message is saved before its turn begins.
AcceptMessage ==
  /\ listed /\ ~isProcessing /\ turns < MaxTurn
  /\ SaveNow
  /\ accepted' = accepted \union {next}
  /\ turns' = turns + 1
  /\ UNCHANGED <<isProcessing, turn, pendingExternalHeader, watch, listed, deleted, edits,
                 planOps>>

\* A run that begins or ends is saved; the flush after it does nothing for a
\* session that is no longer in the map.
SaveRun(session) == IF listed THEN FlushSession(session) ELSE PersistSession(session)

\* runTurn, when the message is saved: it does not look at the map again. One turn
\* at a time; turns that overlap are SessionTurns'.
BeginTurn ==
  /\ ~turn /\ managed.version < MaxVersion
  /\ \E w \in accepted : phase[w] = "done" /\ accepted' = accepted \ {w}
  /\ SaveRun(Changed)
  /\ isProcessing' = TRUE /\ turn' = TRUE
  /\ UNCHANGED <<turns, pendingExternalHeader, watch, listed, deleted, edits, planOps>>

\* handleAgentEvent: it holds the session itself, in the map or not.
TurnEvent == turn /\ SaveLater /\ Unchanged

\* cancelProcessing: the loop goes on until it notices.
CancelTurn ==
  /\ listed /\ isProcessing
  /\ isProcessing' = FALSE
  /\ UNCHANGED <<saveVars, accepted, turn, turns, pendingExternalHeader, watch, listed,
                 deleted, edits, planOps>>

\* The metadata at the end of a turn: the header that was put off, if one was.
HeaderPutOff ==
  IF pendingExternalHeader = {} THEN managed.meta
  ELSE CHOOSE meta \in pendingExternalHeader : TRUE

\* runTurn's finally: the run's metrics, then the header that was put off.
EndTurn ==
  LET ended == [Changed EXCEPT !.meta = HeaderPutOff]
  IN /\ turn /\ managed.version < MaxVersion
     /\ isProcessing' = FALSE /\ turn' = FALSE
     /\ pendingExternalHeader' = {}
     /\ SaveRun(ended)
     /\ UNCHANGED <<accepted, turns, watch, listed, deleted, edits, planOps>>

\* What a pending-plan operation makes of a plan. Marking does nothing to none.
PlanOps == {"set", "compacted", "dispatched", "clear"}
ApplyPlan(op, plan) ==
  CASE op = "set" ->
         [set |-> TRUE, awaitingCompaction |-> TRUE, executionDispatched |-> FALSE]
    [] op = "compacted" -> IF plan.set THEN [plan EXCEPT !.awaitingCompaction = FALSE] ELSE plan
    [] op = "dispatched" -> IF plan.set THEN [plan EXCEPT !.executionDispatched = TRUE] ELSE plan
    [] op = "clear" -> NoPlan

\* The managed session takes the change; what is enqueued and flushed is the
\* session as it is on disk, with the change.
PlanOp(op) ==
  LET loaded == [file EXCEPT !.plan = ApplyPlan(op, @)]
      saved == op \in {"set", "clear"} \/ file.plan.set
  IN /\ EventLoop /\ listed /\ planOps < MaxPlanOp /\ file # Nothing
     /\ planOps' = planOps + 1
     /\ managed' = [managed EXCEPT !.plan = ApplyPlan(op, @)]
     /\ IF saved
          THEN Enqueue(loaded) /\ Flush(loaded, loaded.version)
          ELSE UNCHANGED <<pending, timer, chainVars, waiting>>
     /\ UNCHANGED <<taken, lastWrittenHeaderSignature, diskVars, historyVars, turnVars,
                    pendingExternalHeader, watch, listed, deleted, edits>>

\* deleteSession: the turn is cancelled, the queue too, and the directory goes.
DeleteSession ==
  /\ EventLoop /\ MayDelete /\ listed
  /\ listed' = FALSE
  /\ isProcessing' = FALSE
  /\ deleted' = IF turn \/ accepted # {} THEN "under way" ELSE "at rest"
  /\ Cancel
  /\ dir' = FALSE /\ file' = Nothing /\ tmp' = Nothing
  /\ watch' = TRUE
  /\ UNCHANGED <<managed, next, phase, after, taken, waiting, historyVars, accepted, turn, turns,
                 pendingExternalHeader, edits, planOps>>

-----------------------------------------------------------------------------
(* The file's other writers, and its watcher *)

\* Another program writes the header: the watcher is told.
EditHeader(meta) ==
  /\ edits < MaxEdit
  /\ file # Nothing /\ file.whole /\ file.meta # meta
  /\ edits' = edits + 1
  /\ file' = [file EXCEPT !.meta = meta]
  /\ watch' = TRUE
  /\ UNCHANGED <<managed, queueVars, dir, tmp, historyVars, turnVars, pendingExternalHeader,
                 listed, deleted, planOps>>

\* Mutant of Reported: what this process wrote last is not reported.
ReportedIfForeign ==
  file # Nothing /\ listed /\ file.meta \notin lastWrittenHeaderSignature
\* The watcher reports the header of a session that is there.
Reported == file # Nothing /\ listed

\* The watcher's debounce ends: it reads the header and reports it, whoever
\* wrote it (onSessionMetadataChange). A running turn puts it off.
WatcherFires ==
  /\ EventLoop /\ watch
  /\ watch' = FALSE
  /\ IF ~Reported THEN UNCHANGED <<managed, pendingExternalHeader>>
     ELSE IF isProcessing
       THEN pendingExternalHeader' = {file.meta} /\ UNCHANGED managed
       ELSE managed' = [managed EXCEPT !.meta = file.meta] /\ UNCHANGED pendingExternalHeader
  /\ UNCHANGED <<queueVars, diskVars, historyVars, turnVars, listed, deleted,
                 edits, planOps>>

\* The process dies and is started again: a new watcher, no turn.
Restart ==
  /\ Crash
  /\ isProcessing' = FALSE /\ turn' = FALSE /\ accepted' = {}
  /\ pendingExternalHeader' = {} /\ watch' = FALSE
  /\ listed' = TRUE
  /\ UNCHANGED <<turns, deleted, edits, planOps>>

-----------------------------------------------------------------------------
StoreNext ==
  \/ Background \/ FlushAll \/ Message
  \/ AcceptMessage \/ BeginTurn \/ TurnEvent \/ CancelTurn \/ EndTurn
  \/ DeleteSession \/ WatcherFires \/ Restart
  \/ \E w \in Write : RenameSession(w)
  \/ \E meta \in Meta : SetMetadata(meta) \/ EditHeader(meta)
  \/ \E op \in PlanOps : PlanOp(op)

StoreSpec == StoreInit /\ [][StoreNext]_storeVars

-----------------------------------------------------------------------------
(* Properties *)

\* Nothing is queued or being written, no turn runs, the watcher has caught up.
Quiet ==
  /\ pending = Nothing /\ ~watch /\ ~turn
  /\ \A w \in Write : phase[w] \in {"unborn", "done"}

\* When all is quiet the server holds the metadata that is on disk, however
\* saves, edits, turns and the watcher crossed.
MetadataConverges == Quiet /\ listed /\ fails = 0 => managed.meta = file.meta

\* A session deleted while no turn was running and no message was being accepted
\* stays deleted: no write queued or running at that moment brings its file back.
DeletedStaysGone == deleted = "at rest" => file = Nothing

\* Turns, metadata, edits and the watcher leave the queue's promises standing,
\* and the file whole, as long as no pending-plan operation was made.
PromisesKept == planOps = 0 /\ deleted = "no" => PromisedIsSaved /\ FileIsWhole

=============================================================================
