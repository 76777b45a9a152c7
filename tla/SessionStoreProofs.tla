-------------------------- MODULE SessionStoreProofs ---------------------------
(***************************************************************************)
(* Proofs about SessionStore: its type invariant, which needs the chain of *)
(* writes unbroken while the session is listed; that a session deleted     *)
(* with no turn running and no message being accepted stays deleted; that  *)
(* turns, metadata, edits by other programs and the watcher keep the       *)
(* invariant of the persistence queue, which is cited step by step from    *)
(* PersistQueueProofs; and that server and disk agree on the metadata when *)
(* nothing is under way.                                                   *)
(***************************************************************************)
EXTENDS SessionStore, PersistQueueProofs

\* A session that was deleted at rest has left nothing that could write.
DeletedInv ==
  deleted = "at rest" =>
    /\ ~listed /\ ~turn /\ accepted = {}
    /\ pending = Nothing /\ ~timer
    /\ ~dir /\ file = Nothing /\ tmp = Nothing

\* Until the first pending-plan operation or a deletion the queue keeps its invariant,
\* and what the watcher put off is metadata.
KeptInv ==
  /\ planOps \in Nat
  /\ planOps = 0 /\ deleted = "no" => IInv /\ pendingExternalHeader \in SUBSET Meta

-----------------------------------------------------------------------------
(* Deletion *)

\* What forgets, fails or waits does not write.
LEMMA DeletedStep == DeletedInv /\ [StoreNext]_storeVars => DeletedInv'
<1> SUFFICES ASSUME DeletedInv, [StoreNext]_storeVars PROVE DeletedInv'
  OBVIOUS
<1> USE DEF DeletedInv
<1>1. CASE Background
  <2>1. UNCHANGED <<accepted, turn, listed, deleted>>
    BY <1>1 DEF Background, Unchanged, turnVars
  <2>2. CASE TimerFires
    BY <2>1, <2>2 DEF TimerFires
  <2>3. ASSUME NEW w \in Write, StartWrite(w) PROVE DeletedInv'
    BY <2>1, <2>3 DEF StartWrite
  <2>4. ASSUME NEW w \in Write, FinishTmp(w) PROVE DeletedInv'
    BY <2>1, <2>4 DEF FinishTmp
  <2>5. ASSUME NEW w \in Write, SkipWrite(w) \/ FailWrite(w) \/ LoseWrite(w) PROVE DeletedInv'
    BY <2>1, <2>5 DEF SkipWrite, FailWrite, LoseWrite, diskVars
  <2> QED
    BY <1>1, <2>2, <2>3, <2>4, <2>5 DEF Background
<1>2. ASSUME NEW w \in Write, RenameSession(w) PROVE DeletedInv'
  BY <1>2 DEF RenameSession, Rename, turnVars
<1>3. CASE FlushAll
  BY <1>3 DEF FlushAll, FlushInFlight, Unchanged, turnVars, diskVars
<1>4. CASE Message \/ AcceptMessage \/ CancelTurn
  BY <1>4 DEF Message, AcceptMessage, CancelTurn, saveVars, queueVars, diskVars, Unchanged, turnVars
<1>13. CASE BeginTurn
  BY <1>13 DEF BeginTurn
<1>5. CASE TurnEvent \/ EndTurn
  BY <1>5 DEF TurnEvent, EndTurn, Unchanged, turnVars
<1>6. CASE DeleteSession
  BY <1>6 DEF DeleteSession, Cancel
<1>7. CASE WatcherFires
  BY <1>7 DEF WatcherFires, queueVars, diskVars, turnVars
<1>8. CASE Restart
  BY <1>8 DEF Restart, Crash
<1>9. ASSUME NEW meta \in Meta, SetMetadata(meta) PROVE DeletedInv'
  BY <1>9 DEF SetMetadata, turnVars
<1>10. ASSUME NEW meta \in Meta, EditHeader(meta) PROVE DeletedInv'
  BY <1>10 DEF EditHeader, turnVars
<1>11. ASSUME NEW op \in PlanOps, PlanOp(op) PROVE DeletedInv'
  BY <1>11 DEF PlanOp, turnVars
<1>12. CASE UNCHANGED storeVars
  BY <1>12 DEF storeVars, saveVars, queueVars, diskVars, turnVars
<1> QED
  BY <1>1, <1>2, <1>3, <1>4, <1>5, <1>6, <1>7, <1>8, <1>9, <1>10, <1>11, <1>12, <1>13
     DEF StoreNext

\* A session deleted while no turn was running and no message was being accepted stays
\* deleted, whatever was queued or being written at that moment.
THEOREM DeletedIsGone == StoreSpec => []DeletedStaysGone
<1>1. StoreInit => DeletedInv
  BY DEF StoreInit, DeletedInv
<1>2. DeletedInv => DeletedStaysGone
  BY DEF DeletedInv, DeletedStaysGone
<1> QED
  BY <1>1, <1>2, DeletedStep, PTL DEF StoreSpec

-----------------------------------------------------------------------------
(* Promises *)

\* A change of metadata in memory or on disk leaves the versions.
LEMMA HeaderChanges ==
  ASSUME IInv, managed' \in Stored, managed'.version = managed.version,
         file' \in Stored, file'.version = file.version,
         UNCHANGED <<queueVars, dir, tmp, historyVars>>
  PROVE  IInv'
<1>1. UNCHANGED <<pending, timer, next, phase, after, tail, taken, lastWrittenHeaderSignature, waiting,
                  dir, tmp, promised, fails, crashes>>
  BY DEF queueVars, chainVars, historyVars
<1>2. TypeOK' /\ dir' /\ ChainInv'
  BY <1>1 DEF IInv, TypeOK, ChainInv
<1>3. \A w \in Write : Running(w)' <=> Running(w)
  BY <1>1 DEF Running
<1>4. VersionInv' /\ PromiseInv'
  BY <1>1, <1>3 DEF IInv, VersionInv, PromiseInv, Running
<1>5. FlushInv'
  BY <1>1 DEF IInv, FlushInv, Running
<1> QED
  BY <1>2, <1>4, <1>5 DEF IInv

\* The metadata at the end of a turn is metadata.
LEMMA HeaderFacts ==
  ASSUME managed \in Stored, pendingExternalHeader \in SUBSET Meta
  PROVE  HeaderPutOff \in Meta
<1>1. managed.meta \in Meta
  BY DEF Stored
<1>2. CASE pendingExternalHeader = {}
  BY <1>1, <1>2 DEF HeaderPutOff
<1>3. CASE pendingExternalHeader # {}
  <2>1. (CHOOSE meta \in pendingExternalHeader : TRUE) \in pendingExternalHeader
    BY <1>3
  <2> QED
    BY <1>3, <2>1 DEF HeaderPutOff
<1> QED
  BY <1>2, <1>3

\* A run is saved like anything else, with or without a flush.
LEMMA SaveRunStep ==
  ASSUME IInv, NEW session \in Stored, session.version = managed.version + 1, SaveRun(session)
  PROVE  IInv'
<1>1. session # Nothing
  BY StoredFacts DEF IInv, TypeOK
<1>2. FlushSession(session) \/ PersistSession(session)
  BY DEF SaveRun
<1>3. CASE FlushSession(session)
  <2>1. Schedule({session.version})
    BY <1>1, <1>3 DEF FlushSession, Flush
  <2> QED
    BY <1>1, <1>3, <2>1, SaveInv DEF FlushSession
<1>4. CASE PersistSession(session)
  BY <1>1, <1>4, SaveInv DEF PersistSession
<1> QED
  BY <1>2, <1>3, <1>4

\* The beginning of a turn, and its end.
LEMMA RunStep ==
  ASSUME IInv, pendingExternalHeader \in SUBSET Meta, BeginTurn \/ EndTurn
  PROVE  IInv'
<1> DEFINE ended == [Changed EXCEPT !.meta = HeaderPutOff]
<1>1. HeaderPutOff \in Meta
  <2>1. managed \in Stored
    BY DEF IInv, TypeOK
  <2> QED
    BY <2>1, HeaderFacts
<1>2. /\ ended \in Stored /\ ended.version = managed.version + 1
      /\ Changed \in Stored /\ Changed.version = managed.version + 1
  BY <1>1, ChangedFacts DEF IInv, TypeOK
<1>3. SaveRun(Changed) \/ SaveRun(ended)
  BY DEF BeginTurn, EndTurn
<1> HIDE DEF ended
<1> QED
  BY <1>2, <1>3, SaveRunStep

\* With the directory there and one write at a time, no write is lost.
LEMMA NothingLost ==
  ASSUME IInv, NEW w \in Write, LoseWrite(w)
  PROVE  FALSE
<1>1. phase[w] = "rename" /\ tmp = Nothing
  BY DEF LoseWrite, IInv
<1>2. tmp = taken[w] /\ taken[w] \in Stored
  BY <1>1 DEF IInv, VersionInv, Running
<1> QED
  BY <1>1, <1>2, StoredFacts

LEMMA BackgroundStep == ASSUME IInv, Background PROVE IInv'
<1>1. CASE TimerFires
  BY <1>1, TimerFiresStep
<1>2. ASSUME NEW w \in Write, StartWrite(w) \/ SkipWrite(w) \/ FinishTmp(w) \/ FailWrite(w) PROVE IInv'
  BY <1>2, StartWriteStep, SkipWriteStep, FinishTmpStep, FailWriteStep
<1>3. ASSUME NEW w \in Write, LoseWrite(w) PROVE IInv'
  BY <1>3, NothingLost
<1> QED
  BY <1>1, <1>2, <1>3 DEF Background

\* Only a pending-plan operation or a deletion ends the time the invariant covers.
LEMMA CountStep ==
  ASSUME planOps \in Nat, [StoreNext]_storeVars
  PROVE  /\ planOps' \in Nat
         /\ planOps' = 0 /\ deleted' = "no" =>
              planOps = 0 /\ deleted = "no" /\ ~DeleteSession /\ \A op \in PlanOps : ~PlanOp(op)
<1> DEFINE Uncounted == UNCHANGED <<planOps, deleted>>
<1>1. ASSUME NEW op \in PlanOps, PlanOp(op) PROVE planOps' \in Nat /\ planOps' # 0
  BY <1>1 DEF PlanOp
<1>2. ASSUME DeleteSession PROVE UNCHANGED planOps /\ deleted' # "no"
  BY <1>2 DEF DeleteSession
<1>3. CASE Background \/ FlushAll \/ Message \/ TurnEvent
  BY <1>1, <1>2, <1>3 DEF Background, FlushAll, Message, TurnEvent, Unchanged
<1>4. CASE AcceptMessage \/ BeginTurn \/ CancelTurn
  BY <1>1, <1>2, <1>4 DEF AcceptMessage, BeginTurn, CancelTurn
<1>5. CASE EndTurn
  <2>1. UNCHANGED <<planOps, deleted>>
    BY <1>5 DEF EndTurn
  <2> QED
    BY <1>1, <1>2, <2>1
<1>6. CASE WatcherFires \/ Restart
  BY <1>1, <1>2, <1>6 DEF WatcherFires, Restart
<1>7. ASSUME NEW w \in Write, RenameSession(w) PROVE Uncounted
  BY <1>7 DEF RenameSession
<1>8. ASSUME NEW meta \in Meta, SetMetadata(meta) \/ EditHeader(meta) PROVE Uncounted
  BY <1>8 DEF SetMetadata, EditHeader
<1>9. CASE UNCHANGED storeVars
  BY <1>1, <1>2, <1>9 DEF storeVars
<1> QED
  BY <1>1, <1>2, <1>3, <1>4, <1>5, <1>6, <1>7, <1>8, <1>9 DEF StoreNext

\* What the watcher put off is metadata.
LEMMA PutOffStep ==
  ASSUME pendingExternalHeader \in SUBSET Meta, file.meta \in Meta, [StoreNext]_storeVars
  PROVE  pendingExternalHeader' \in SUBSET Meta
<1>1. CASE Background \/ FlushAll \/ Message \/ TurnEvent
  BY <1>1 DEF Background, FlushAll, Message, TurnEvent, Unchanged
<1>2. CASE AcceptMessage \/ BeginTurn \/ CancelTurn
  BY <1>2 DEF AcceptMessage, BeginTurn, CancelTurn
<1>3. CASE EndTurn
  <2>1. pendingExternalHeader' = {}
    BY <1>3 DEF EndTurn
  <2> QED
    BY <2>1
<1>4. CASE WatcherFires
  BY <1>4 DEF WatcherFires
<1>5. CASE Restart \/ DeleteSession
  BY <1>5 DEF Restart, DeleteSession
<1>6. ASSUME NEW w \in Write, RenameSession(w) PROVE UNCHANGED pendingExternalHeader
  BY <1>6 DEF RenameSession
<1>7. ASSUME NEW meta \in Meta, SetMetadata(meta) \/ EditHeader(meta)
      PROVE  UNCHANGED pendingExternalHeader
  BY <1>7 DEF SetMetadata, EditHeader
<1>8. ASSUME NEW op \in PlanOps, PlanOp(op) PROVE UNCHANGED pendingExternalHeader
  BY <1>8 DEF PlanOp
<1>9. CASE UNCHANGED storeVars
  BY <1>9 DEF storeVars
<1> QED
  BY <1>1, <1>2, <1>3, <1>4, <1>5, <1>6, <1>7, <1>8, <1>9 DEF StoreNext

LEMMA KeptStep == KeptInv /\ [StoreNext]_storeVars => KeptInv'
<1> SUFFICES ASSUME KeptInv, [StoreNext]_storeVars PROVE KeptInv'
  OBVIOUS
<1>1. planOps' \in Nat
  BY CountStep DEF KeptInv
<1> SUFFICES ASSUME planOps' = 0, deleted' = "no" PROVE IInv' /\ pendingExternalHeader' \in SUBSET Meta
  BY <1>1 DEF KeptInv
<1>2. planOps = 0 /\ deleted = "no" /\ ~DeleteSession /\ \A op \in PlanOps : ~PlanOp(op)
  BY CountStep DEF KeptInv
<1>3. IInv /\ pendingExternalHeader \in SUBSET Meta
  BY <1>2 DEF KeptInv
<1>4. file.meta \in Meta /\ file \in Stored /\ managed \in Stored
  BY <1>3 DEF IInv, VersionInv, TypeOK, Stored
<1>5. pendingExternalHeader' \in SUBSET Meta
  BY <1>3, <1>4, PutOffStep
<1>6. CASE Background
  BY <1>3, <1>5, <1>6, BackgroundStep
<1>7. CASE FlushAll \/ Message \/ AcceptMessage
  <2>1. FlushInFlight \/ SaveNow
    BY <1>7 DEF FlushAll, Message, AcceptMessage
  <2> QED
    BY <1>3, <1>5, <2>1, FlushInFlightStep, SaveNowStep
<1>8. CASE TurnEvent
  BY <1>3, <1>5, <1>8, SaveLaterStep DEF TurnEvent
<1>9. CASE Restart
  BY <1>3, <1>5, <1>9, CrashStep DEF Restart
<1>10. ASSUME NEW w \in Write, RenameSession(w) PROVE IInv'
  BY <1>3, <1>10, RenameStep DEF RenameSession
<1>11. ASSUME NEW meta \in Meta, SetMetadata(meta) PROVE IInv'
  BY <1>3, <1>11, UpdateMetadataStep DEF SetMetadata
<1>12. CASE BeginTurn \/ EndTurn
  BY <1>3, <1>5, <1>12, RunStep
<1>13. CASE WatcherFires
  <2>1. managed' = managed \/ managed' = [managed EXCEPT !.meta = file.meta]
    BY <1>13 DEF WatcherFires
  <2>2. managed' \in Stored /\ managed'.version = managed.version
    BY <1>4, <2>1 DEF Stored
  <2> QED
    BY <1>3, <1>4, <1>13, <2>2, HeaderChanges DEF WatcherFires, diskVars
<1>14. ASSUME NEW meta \in Meta, EditHeader(meta) PROVE IInv'
  <2>1. file' = [file EXCEPT !.meta = meta]
    BY <1>14 DEF EditHeader
  <2>2. file' \in Stored /\ file'.version = file.version
    BY <1>4, <2>1 DEF Stored
  <2> QED
    BY <1>3, <1>4, <1>14, <2>2, HeaderChanges DEF EditHeader
<1>15. CASE CancelTurn \/ UNCHANGED storeVars
  BY <1>3, <1>15, StutterStep DEF CancelTurn, storeVars
<1> QED
  BY <1>2, <1>5, <1>6, <1>7, <1>8, <1>9, <1>10, <1>11, <1>12, <1>13, <1>14, <1>15 DEF StoreNext

\* Turns, metadata, edits of the header and the watcher leave the queue's promises
\* standing, and the file whole.
THEOREM PromisesStand == StoreSpec => []PromisesKept
<1>1. StoreInit => KeptInv
  BY InitInv DEF StoreInit, KeptInv
<1>2. KeptInv => PromisesKept
  <2> SUFFICES ASSUME KeptInv, planOps = 0, deleted = "no" PROVE PromisedIsSaved /\ FileIsWhole
    BY DEF PromisesKept
  <2>1. file \in Stored /\ (fails = 0 => promised <= file.version)
    BY DEF KeptInv, IInv, VersionInv, PromiseInv
  <2> QED
    BY <2>1, StoredFacts DEF PromisedIsSaved, FileIsWhole
<1> QED
  BY <1>1, <1>2, KeptStep, PTL DEF StoreSpec

-----------------------------------------------------------------------------
(* Types *)

\* While the session is listed its file is not cut short, and no write that is
\* about to rename has lost the temporary file to another.
Unbroken ==
  /\ ChainInv
  /\ file # Partial
  /\ \A w \in Write : phase[w] = "rename" => tmp # Partial

\* The types alone are not inductive: a pending-plan operation enqueues the session as
\* it is on disk, which must be one that was written to its end.
TypedInv == StoreTypeOK /\ (listed => Unbroken)

\* The pieces of the queue's state that scheduling a write leaves typed.
LEMMA ScheduleTyped ==
  ASSUME TypeOK, NEW await \in SUBSET Nat, Schedule(await)
  PROVE  /\ next' \in 1..(MaxWrite + 1)
         /\ phase' \in [Write -> {"unborn", "waiting", "tmp", "rename", "done"}]
         /\ after' \in [Write -> Write \union {NoWrite}]
         /\ tail' \in Write \union {NoWrite}
         /\ waiting' \in SUBSET [version : Nat, write : Write]
<1>1. next \in Write /\ next' \in 1..(MaxWrite + 1)
  BY QueueBounds DEF TypeOK, Schedule, Write
<1>2. waiting' = waiting \union [version : await, write : {next}]
  BY DEF Schedule
<1>3. waiting' \in SUBSET [version : Nat, write : Write]
  BY <1>1, <1>2 DEF TypeOK
<1> QED
  BY <1>1, <1>3 DEF TypeOK, Schedule

\* What a settling write leaves typed.
LEMMA SettleTyped ==
  ASSUME TypeOK, NEW w \in Write, Settle(w)
  PROVE  /\ next' = next /\ after' = after
         /\ phase' \in [Write -> {"unborn", "waiting", "tmp", "rename", "done"}]
         /\ \A x \in Write : phase'[x] = IF x = w THEN "done" ELSE phase[x]
         /\ taken' \in [Write -> Stored \union {Nothing}]
         /\ tail' \in Write \union {NoWrite}
         /\ waiting' \in SUBSET [version : Nat, write : Write]
         /\ promised' \in Nat
<1>1. Told(w) \subseteq Nat
  BY DEF Told, TypeOK
<1>2. promised' \in Nat
  BY <1>1 DEF Settle, TypeOK
<1>3. waiting' \subseteq waiting
  BY DEF Settle
<1> QED
  BY <1>2, <1>3 DEF Settle, TailAfter, TypeOK

\* A file, whole or not, has metadata, and a whole one is a session.
LEMMA FileFacts ==
  ASSUME TypeOK, file # Nothing
  PROVE  /\ file.meta \in Meta
         /\ file # Partial => file \in Stored
         /\ file.whole => file # Partial
<1>1. Partial.meta \in Meta /\ ~Partial.whole
  BY Metadata DEF Partial, NewSession
<1>2. \A s \in Stored : s.meta \in Meta
  BY DEF Stored
<1> QED
  BY <1>1, <1>2 DEF TypeOK

\* What a write takes is a session, whatever file it is merged with.
LEMMA MergedTyped ==
  ASSUME TypeOK, NEW data \in Stored
  PROVE  Merged(data) \in Stored
<1>1. \A m \in Meta : [data EXCEPT !.meta = m] \in Stored
  BY DEF Stored
<1> QED
  BY <1>1, FileFacts DEF Merged

\* A session that is saved, with or without a write scheduled for it.
LEMMA SaveTyped ==
  ASSUME TypeOK, NEW session \in Stored,
         FlushSession(session) \/ PersistSession(session)
  PROVE  TypeOK'
<1>1. session.version \in Nat /\ session # Nothing
  BY StoredFacts DEF Stored
<1>2. CASE FlushSession(session)
  <2>1. Schedule({session.version})
    BY <1>1, <1>2 DEF FlushSession, Flush
  <2>2. {session.version} \in SUBSET Nat
    BY <1>1
  <2>3. /\ managed' = session /\ pending' = session /\ timer' = TRUE
        /\ UNCHANGED <<taken, lastWrittenHeaderSignature, dir, file, tmp, promised, fails, crashes>>
    BY <1>2 DEF FlushSession, Enqueue, diskVars, historyVars
  <2> QED
    BY <2>1, <2>2, <2>3, ScheduleTyped DEF TypeOK
<1>3. CASE PersistSession(session)
  BY <1>3 DEF PersistSession, Enqueue, chainVars, diskVars, historyVars, TypeOK
<1> QED
  BY <1>2, <1>3

\* A write that settles, with the disk as it was or with the file renamed.
LEMMA SettledTyped ==
  ASSUME TypeOK, NEW w \in Write, Settle(w),
         UNCHANGED <<managed, pending, timer, lastWrittenHeaderSignature, dir, crashes>>,
         fails' \in {fails, fails + 1},
         file' \in {file, tmp}, tmp' \in {tmp, Nothing}
  PROVE  TypeOK'
BY SettleTyped DEF TypeOK

\* The queue's own steps.
LEMMA BackgroundTyped == ASSUME TypeOK, Background PROVE TypeOK'
<1>1. CASE TimerFires
  BY <1>1, ScheduleTyped DEF TimerFires, diskVars, historyVars, TypeOK
<1>2. ASSUME NEW w \in Write, StartWrite(w) PROVE TypeOK'
  <2>1. pending \in Stored
    BY <1>2 DEF StartWrite, TypeOK
  <2>2. Merged(pending) \in Stored /\ Merged(pending).meta \in Meta
    BY <2>1, MergedTyped DEF Stored
  <2>3. /\ phase' = [phase EXCEPT ![w] = "tmp"]
        /\ taken' = [taken EXCEPT ![w] = Merged(pending)]
        /\ lastWrittenHeaderSignature' = {Merged(pending).meta}
        /\ pending' = Nothing /\ timer' = FALSE /\ dir' = TRUE
        /\ tmp' = Partial
        /\ UNCHANGED <<managed, next, after, tail, waiting, file, promised, fails, crashes>>
    BY <1>2 DEF StartWrite, OpenFile, historyVars
  <2> QED
    BY <2>2, <2>3 DEF TypeOK
<1>3. ASSUME NEW w \in Write, SkipWrite(w) \/ FailWrite(w) \/ LoseWrite(w) PROVE TypeOK'
  BY <1>3, SettledTyped DEF SkipWrite, FailWrite, LoseWrite, diskVars
<1>4. ASSUME NEW w \in Write, FinishTmp(w) PROVE TypeOK'
  <2>1. tmp' \in {taken[w], Partial} /\ phase' = [phase EXCEPT ![w] = "rename"]
    BY <1>4 DEF FinishTmp
  <2> QED
    BY <1>4, <2>1 DEF FinishTmp, historyVars, TypeOK
<1> QED
  BY <1>1, <1>2, <1>3, <1>4 DEF Background

\* A new process loads a file that is whole.
LEMMA CrashTyped == ASSUME TypeOK, Crash PROVE TypeOK'
<1>1. file \in Stored
  BY FileFacts DEF Crash
<1>2. 1 \in 1..(MaxWrite + 1) /\ crashes' \in Nat
  BY QueueBounds DEF Crash, TypeOK
<1>3. /\ phase' \in [Write -> {"unborn", "waiting", "tmp", "rename", "done"}]
      /\ after' \in [Write -> Write \union {NoWrite}]
      /\ taken' \in [Write -> Stored \union {Nothing}]
  BY DEF Crash
<1>4. /\ managed' = file /\ pending' = Nothing /\ timer' = FALSE
      /\ next' = 1 /\ tail' = NoWrite /\ lastWrittenHeaderSignature' = {} /\ waiting' = {}
      /\ UNCHANGED <<dir, file, tmp, promised, fails>>
  BY DEF Crash, diskVars
<1> QED
  BY <1>1, <1>2, <1>3, <1>4 DEF TypeOK

\* What a pending-plan operation makes of a plan is a plan.
LEMMA PlanTyped ==
  ASSUME NEW op \in PlanOps, NEW session \in Stored
  PROVE  [session EXCEPT !.plan = ApplyPlan(op, @)] \in Stored
<1>1. session.plan \in Plan
  BY DEF Stored
<1>2. ASSUME NEW plan \in Plan PROVE ApplyPlan(op, plan) \in Plan
  <2>1. NoPlan \in Plan /\ ~NoPlan.set
    BY DEF Plan, NoPlan
  <2>2. CASE op = "set"
    BY <2>2 DEF ApplyPlan, Plan
  <2>3. CASE op = "compacted"
    <3>1. ApplyPlan(op, plan) = IF plan.set THEN [plan EXCEPT !.awaitingCompaction = FALSE] ELSE plan
      BY <2>3 DEF ApplyPlan
    <3>2. plan.set => [plan EXCEPT !.awaitingCompaction = FALSE] \in Plan
      BY <2>1 DEF Plan
    <3> QED
      BY <3>1, <3>2
  <2>4. CASE op = "dispatched"
    <3>1. ApplyPlan(op, plan) = IF plan.set THEN [plan EXCEPT !.executionDispatched = TRUE] ELSE plan
      BY <2>4 DEF ApplyPlan
    <3>2. plan.set => [plan EXCEPT !.executionDispatched = TRUE] \in Plan
      BY <2>1 DEF Plan
    <3> QED
      BY <3>1, <3>2
  <2>5. CASE op = "clear"
    BY <2>1, <2>5 DEF ApplyPlan
  <2> QED
    BY <2>2, <2>3, <2>4, <2>5 DEF PlanOps
<1> QED
  BY <1>2 DEF Stored

\* A pending-plan operation, on a file that is whole.
LEMMA PlanOpTyped ==
  ASSUME StoreTypeOK, file # Partial, NEW op \in PlanOps, PlanOp(op)
  PROVE  StoreTypeOK'
<1> DEFINE loaded == [file EXCEPT !.plan = ApplyPlan(op, @)]
<1>1. file \in Stored
  BY FileFacts DEF StoreTypeOK, PlanOp
<1>2. loaded \in Stored
  BY <1>1, PlanTyped
<1>3. managed' \in Stored
  BY PlanTyped DEF PlanOp, StoreTypeOK, TypeOK
<1>4. \/ Enqueue(loaded) /\ Flush(loaded, loaded.version)
      \/ UNCHANGED <<pending, timer, chainVars, waiting>>
  BY DEF PlanOp
<1> HIDE DEF loaded
<1>5. /\ pending' \in Stored \union {Nothing} /\ timer' \in BOOLEAN
      /\ next' \in 1..(MaxWrite + 1)
      /\ phase' \in [Write -> {"unborn", "waiting", "tmp", "rename", "done"}]
      /\ after' \in [Write -> Write \union {NoWrite}]
      /\ tail' \in Write \union {NoWrite}
      /\ waiting' \in SUBSET [version : Nat, write : Write]
  <2>1. CASE Enqueue(loaded) /\ Flush(loaded, loaded.version)
    <3>1. loaded.version \in Nat /\ loaded # Nothing
      BY <1>2, StoredFacts DEF Stored
    <3>2. Schedule({loaded.version}) /\ {loaded.version} \in SUBSET Nat
      BY <2>1, <3>1 DEF Flush
    <3> QED
      BY <1>2, <2>1, <3>2, ScheduleTyped DEF Enqueue, StoreTypeOK
  <2>2. CASE UNCHANGED <<pending, timer, chainVars, waiting>>
    BY <2>2 DEF chainVars, StoreTypeOK, TypeOK
  <2> QED
    BY <1>4, <2>1, <2>2
<1>6. /\ planOps' = planOps + 1
      /\ UNCHANGED <<taken, lastWrittenHeaderSignature, diskVars, historyVars, turnVars,
                     pendingExternalHeader, watch, listed, deleted, edits>>
  BY DEF PlanOp
<1>7. TypeOK'
  BY <1>3, <1>5, <1>6 DEF StoreTypeOK, TypeOK, diskVars, historyVars
<1>8. planOps' \in Nat
  <2>1. planOps \in Nat
    BY DEF StoreTypeOK
  <2> QED
    BY <1>6, <2>1
<1>9. UNCHANGED <<isProcessing, accepted, turn, turns, pendingExternalHeader, watch, listed, deleted,
                  edits>>
  BY <1>6 DEF turnVars
<1> QED
  BY <1>7, <1>8, <1>9 DEF StoreTypeOK

\* The end of a turn saves a session whose metadata may be what was put off.
LEMMA EndTurnTyped == ASSUME StoreTypeOK, EndTurn PROVE TypeOK'
<1> DEFINE ended == [Changed EXCEPT !.meta = HeaderPutOff]
<1>1. HeaderPutOff \in Meta
  <2>1. managed \in Stored /\ pendingExternalHeader \in SUBSET Meta
    BY DEF StoreTypeOK, TypeOK
  <2> QED
    BY <2>1, HeaderFacts
<1>2. ended \in Stored
  BY <1>1, ChangedFacts DEF StoreTypeOK, TypeOK
<1>3. FlushSession(ended) \/ PersistSession(ended)
  BY DEF EndTurn, SaveRun
<1> HIDE DEF ended
<1> QED
  BY <1>2, <1>3, SaveTyped DEF StoreTypeOK

\* A message that is accepted waits for a write.
LEMMA AcceptTyped == ASSUME StoreTypeOK, AcceptMessage PROVE accepted' \in SUBSET Write
<1>1. Changed # Nothing
  <2>1. managed \in Stored
    BY DEF StoreTypeOK, TypeOK
  <2> QED
    BY <2>1, ChangedFacts, StoredFacts
<1>2. Schedule({Changed.version})
  BY <1>1 DEF AcceptMessage, SaveNow, FlushSession, Flush
<1>3. next \in 1..(MaxWrite + 1) /\ next <= MaxWrite /\ MaxWrite \in Nat
  BY <1>2, QueueBounds DEF Schedule, StoreTypeOK, TypeOK
<1>4. next \in Write
  BY <1>3 DEF Write
<1> QED
  BY <1>4 DEF AcceptMessage, StoreTypeOK

\* Every step keeps the types, given that a listed session's file is not cut short.
LEMMA TypeStep ==
  ASSUME StoreTypeOK, listed => file # Partial, [StoreNext]_storeVars
  PROVE  StoreTypeOK'
<1>1. CASE Background
  BY <1>1, BackgroundTyped DEF Background, Unchanged, turnVars, StoreTypeOK
<1>2. ASSUME NEW w \in Write, RenameSession(w) PROVE StoreTypeOK'
  <2>1. TypeOK'
    BY <1>2, SettledTyped DEF RenameSession, Rename, StoreTypeOK
  <2> QED
    BY <1>2, <2>1 DEF RenameSession, turnVars, StoreTypeOK
<1>3. CASE FlushAll
  <2>1. managed.version \in Nat /\ tail \in Write
    BY <1>3 DEF FlushAll, FlushInFlight, StoreTypeOK, TypeOK, Stored
  <2>2. /\ waiting' = waiting \union [version : {managed.version}, write : {tail}]
        /\ UNCHANGED <<managed, pending, timer, chainVars, taken, lastWrittenHeaderSignature,
                       diskVars, historyVars>>
    BY <1>3 DEF FlushAll, FlushInFlight, Flush
  <2>3. TypeOK'
    BY <2>1, <2>2 DEF StoreTypeOK, TypeOK, chainVars, diskVars, historyVars
  <2> QED
    BY <1>3, <2>3 DEF FlushAll, Unchanged, turnVars, StoreTypeOK
<1>4. CASE Message \/ AcceptMessage \/ BeginTurn \/ TurnEvent
  <2>1. FlushSession(Changed) \/ PersistSession(Changed)
    BY <1>4 DEF Message, AcceptMessage, BeginTurn, TurnEvent, SaveNow, SaveLater, SaveRun
  <2>2. TypeOK'
    BY <2>1, ChangedFacts, SaveTyped DEF StoreTypeOK, TypeOK
  <2>3. CASE Message \/ TurnEvent
    BY <2>2, <2>3 DEF Message, TurnEvent, Unchanged, turnVars, StoreTypeOK
  <2>4. CASE AcceptMessage
    <3>1. turns' \in Nat
      <4>1. turns \in Nat
        BY DEF StoreTypeOK
      <4> QED
        BY <2>4, <4>1 DEF AcceptMessage
    <3>2. accepted' \in SUBSET Write
      BY <2>4, AcceptTyped
    <3>3. UNCHANGED <<isProcessing, turn, pendingExternalHeader, watch, listed, deleted, edits,
                      planOps>>
      BY <2>4 DEF AcceptMessage
    <3> QED
      BY <2>2, <3>1, <3>2, <3>3 DEF StoreTypeOK
  <2>5. CASE BeginTurn
    <3>1. /\ isProcessing' = TRUE /\ turn' = TRUE /\ accepted' \subseteq accepted
          /\ UNCHANGED <<turns, pendingExternalHeader, watch, listed, deleted, edits, planOps>>
      BY <2>5 DEF BeginTurn
    <3> QED
      BY <2>2, <3>1 DEF StoreTypeOK
  <2> QED
    BY <1>4, <2>3, <2>4, <2>5
<1>5. ASSUME NEW meta \in Meta, SetMetadata(meta) PROVE StoreTypeOK'
  <2>1. FlushSession([Changed EXCEPT !.meta = meta])
    BY <1>5 DEF SetMetadata, UpdateMetadata
  <2>2. TypeOK'
    BY <2>1, ChangedFacts, SaveTyped DEF StoreTypeOK, TypeOK
  <2> QED
    BY <1>5, <2>2 DEF SetMetadata, turnVars, StoreTypeOK
<1>6. CASE CancelTurn
  <2>1. /\ isProcessing' = FALSE
        /\ UNCHANGED <<saveVars, accepted, turn, turns, pendingExternalHeader, watch, listed,
                       deleted, edits, planOps>>
    BY <1>6 DEF CancelTurn
  <2>2. TypeOK'
    BY <2>1 DEF saveVars, queueVars, chainVars, diskVars, historyVars, StoreTypeOK, TypeOK
  <2> QED
    BY <2>1, <2>2 DEF StoreTypeOK
<1>7. CASE EndTurn
  <2>1. /\ isProcessing' = FALSE /\ turn' = FALSE /\ pendingExternalHeader' = {}
        /\ UNCHANGED <<accepted, turns, watch, listed, deleted, edits, planOps>>
    BY <1>7 DEF EndTurn
  <2> QED
    BY <1>7, <2>1, EndTurnTyped DEF StoreTypeOK
<1>8. ASSUME NEW op \in PlanOps, PlanOp(op) PROVE StoreTypeOK'
  BY <1>8, PlanOpTyped DEF PlanOp
<1>9. CASE DeleteSession
  <2>1. TypeOK'
    BY <1>9 DEF DeleteSession, Cancel, historyVars, StoreTypeOK, TypeOK
  <2> QED
    BY <1>9, <2>1 DEF DeleteSession, StoreTypeOK
<1>10. ASSUME NEW meta \in Meta, EditHeader(meta) PROVE StoreTypeOK'
  <2>1. file \in Stored
    BY <1>10, FileFacts DEF EditHeader, StoreTypeOK
  <2>2. file' \in Stored
    BY <1>10, <2>1 DEF EditHeader, Stored
  <2>3. TypeOK'
    BY <1>10, <2>2 DEF EditHeader, queueVars, chainVars, historyVars, StoreTypeOK, TypeOK
  <2>4. edits' \in Nat
    <3>1. edits \in Nat
      BY DEF StoreTypeOK
    <3> QED
      BY <1>10, <3>1 DEF EditHeader
  <2>5. watch' = TRUE /\ UNCHANGED <<turnVars, pendingExternalHeader, listed, deleted, planOps>>
    BY <1>10 DEF EditHeader
  <2> QED
    BY <2>3, <2>4, <2>5 DEF turnVars, StoreTypeOK
<1>11. CASE WatcherFires
  <2>1. /\ managed' = managed \/ (file # Nothing /\ managed' = [managed EXCEPT !.meta = file.meta])
        /\ \/ pendingExternalHeader' = pendingExternalHeader
           \/ file # Nothing /\ pendingExternalHeader' = {file.meta}
        /\ watch' = FALSE
        /\ UNCHANGED <<queueVars, diskVars, historyVars, turnVars, listed, deleted, edits, planOps>>
    BY <1>11 DEF WatcherFires, Reported
  <2>2. managed' \in Stored /\ pendingExternalHeader' \in SUBSET Meta
    <3>1. \A m \in Meta : [managed EXCEPT !.meta = m] \in Stored
      BY DEF StoreTypeOK, TypeOK, Stored
    <3> QED
      BY <2>1, <3>1, FileFacts DEF StoreTypeOK, TypeOK
  <2>3. TypeOK'
    BY <2>1, <2>2 DEF queueVars, chainVars, diskVars, historyVars, StoreTypeOK, TypeOK
  <2> QED
    BY <2>1, <2>2, <2>3 DEF turnVars, StoreTypeOK
<1>12. CASE Restart
  <2>1. TypeOK'
    BY <1>12, CrashTyped DEF Restart, StoreTypeOK
  <2> QED
    BY <1>12, <2>1 DEF Restart, StoreTypeOK
<1>13. CASE UNCHANGED storeVars
  <2>1. TypeOK'
    BY <1>13 DEF storeVars, saveVars, queueVars, chainVars, diskVars, historyVars, StoreTypeOK, TypeOK
  <2>2. UNCHANGED <<isProcessing, accepted, turn, turns, pendingExternalHeader, watch, listed,
                    deleted, edits, planOps>>
    BY <1>13 DEF storeVars, turnVars
  <2> QED
    BY <2>1, <2>2 DEF StoreTypeOK
<1> QED
  BY <1>1, <1>2, <1>3, <1>4, <1>5, <1>6, <1>7, <1>8, <1>9, <1>10, <1>11, <1>12, <1>13
     DEF StoreNext

\* A write scheduled leaves the disk as it is.
LEMMA ScheduleUnbroken ==
  ASSUME TypeOK, Unbroken, NEW await \in SUBSET Nat, Schedule(await), UNCHANGED diskVars
  PROVE  Unbroken'
<1>1. ChainInv' /\ \A w \in Write : phase'[w] = "rename" => phase[w] = "rename"
  BY ScheduleChain DEF Unbroken, Schedule, TypeOK
<1> QED
  BY <1>1 DEF Unbroken, diskVars

\* What leaves the chain, the file and the temporary file leaves them unbroken.
LEMMA SameUnbroken ==
  ASSUME Unbroken, UNCHANGED <<chainVars, file, tmp>>
  PROVE  Unbroken'
BY DEF Unbroken, ChainInv, chainVars

\* A write that settles leaves nothing about to rename.
LEMMA SettleUnbroken ==
  ASSUME TypeOK, Unbroken, NEW w \in Write, Ready(w) \/ Running(w), Settle(w), file' # Partial
  PROVE  Unbroken'
<1>1. ChainInv' /\ \A x \in Write : ~Running(x)'
  BY SettleChain DEF Unbroken
<1> QED
  BY <1>1 DEF Unbroken, Running

\* A session that is saved.
LEMMA SaveUnbroken ==
  ASSUME TypeOK, Unbroken, NEW session \in Stored,
         FlushSession(session) \/ PersistSession(session)
  PROVE  Unbroken'
<1>1. {session.version} \in SUBSET Nat /\ session # Nothing
  BY StoredFacts DEF Stored
<1>2. CASE FlushSession(session)
  <2>1. Schedule({session.version}) /\ UNCHANGED diskVars
    BY <1>1, <1>2 DEF FlushSession, Flush
  <2> QED
    BY <1>1, <2>1, ScheduleUnbroken
<1>3. CASE PersistSession(session)
  BY <1>3, SameUnbroken DEF PersistSession, diskVars
<1> QED
  BY <1>2, <1>3

\* A write that starts, or goes on to its rename, leaves the chain.
LEMMA RunChain ==
  ASSUME TypeOK, ChainInv, NEW w \in Write, Ready(w) \/ Running(w),
         NEW stage \in {"tmp", "rename"},
         \A x \in Write : phase'[x] = IF x = w THEN stage ELSE phase[x],
         UNCHANGED <<next, after, tail>>
  PROVE  ChainInv'
<1>1. w < next /\ \A x \in Write : x < w => phase[x] = "done"
  BY EarlierDone
<1>2. phase[w] # "unborn" /\ phase[w] # "done" /\ next \in Nat /\ w \in Nat
  BY DEF Ready, Running, TypeOK, Write
<1>3. \A x, y \in Write : x < next /\ y < x /\ (after[x] = NoWrite \/ phase'[x] # "waiting")
        => phase'[y] = "done"
  <2> SUFFICES ASSUME NEW x \in Write, NEW y \in Write, x < next, y < x,
                      after[x] = NoWrite \/ phase'[x] # "waiting"
               PROVE  phase'[y] = "done"
    OBVIOUS
  <2>1. x \in Nat /\ y \in Nat
    BY DEF Write
  <2>2. phase[y] = "done"
    BY <1>1, <2>1 DEF ChainInv
  <2> QED
    BY <1>2, <2>2
<1>4. (\A x \in Write : phase[x] = "unborn" <=> x >= next)'
  BY <1>1, <1>2 DEF ChainInv
<1>5. (tail # NoWrite => tail = next - 1 /\ phase[tail] # "done")'
  BY DEF ChainInv, TypeOK
<1>6. (tail = NoWrite => \A x \in Write : x < next => phase[x] = "done")'
  BY <1>1, <1>2 DEF ChainInv
<1>7. (\A x \in Write : x < next /\ after[x] # NoWrite => after[x] = x - 1)'
  BY DEF ChainInv
<1> QED
  BY <1>3, <1>4, <1>5, <1>6, <1>7 DEF ChainInv

\* The queue's own steps: with one write at a time, none spoils another's file.
LEMMA BackgroundUnbroken == ASSUME TypeOK, Unbroken, Background PROVE Unbroken'
<1>1. CASE TimerFires
  BY <1>1, ScheduleUnbroken DEF TimerFires
<1>2. ASSUME NEW w \in Write, StartWrite(w) PROVE Unbroken'
  <2>1. /\ Ready(w) /\ UNCHANGED <<next, after, tail, file>>
        /\ \A x \in Write : phase'[x] = IF x = w THEN "tmp" ELSE phase[x]
    BY <1>2 DEF StartWrite, OpenFile, TypeOK
  <2>2. \A x \in Write : phase[x] # "rename"
    BY <2>1, OneRuns DEF Unbroken, Ready, Running
  <2>3. ChainInv'
    BY <2>1, RunChain DEF Unbroken
  <2> QED
    BY <2>1, <2>2, <2>3 DEF Unbroken
<1>3. ASSUME NEW w \in Write, SkipWrite(w) \/ FailWrite(w) \/ LoseWrite(w) PROVE Unbroken'
  <2>1. Settle(w) /\ file' = file /\ (Ready(w) \/ Running(w))
    BY <1>3 DEF SkipWrite, FailWrite, LoseWrite, diskVars, Running
  <2>2. file' # Partial
    BY <2>1 DEF Unbroken
  <2> QED
    BY <2>1, <2>2, SettleUnbroken
<1>4. ASSUME NEW w \in Write, FinishTmp(w) PROVE Unbroken'
  <2>1. /\ phase[w] = "tmp" /\ UNCHANGED <<next, after, tail, file>>
        /\ \A x \in Write : phase'[x] = IF x = w THEN "rename" ELSE phase[x]
    BY <1>4 DEF FinishTmp, TypeOK
  <2>2. ~\E x \in Write \ {w} : phase[x] \in {"tmp", "rename"}
    BY <2>1, OneRuns DEF Unbroken, Running
  <2>3. tmp' = taken[w]
    BY <1>4, <2>2 DEF FinishTmp
  <2>4. tmp' # Partial
    BY <2>3, StoredFacts DEF TypeOK
  <2>5. ChainInv'
    BY <2>1, RunChain DEF Unbroken, Running
  <2> QED
    BY <2>1, <2>4, <2>5 DEF Unbroken
<1> QED
  BY <1>1, <1>2, <1>3, <1>4 DEF Background

\* A session that stays listed stays unbroken; one that is listed again starts so.
LEMMA UnbrokenStep ==
  ASSUME TypedInv, listed', [StoreNext]_storeVars
  PROVE  Unbroken'
<1>1. TypeOK /\ managed \in Stored
  BY DEF TypedInv, StoreTypeOK, TypeOK
<1>2. CASE Restart
  <2>1. ChainInv' /\ \A w \in Write : phase'[w] = "unborn"
    BY <1>2, QueueBounds DEF Restart, Crash, ChainInv, Write, NoWrite
  <2>2. file' # Partial
    BY <1>1, <1>2, FileFacts DEF Restart, Crash, diskVars
  <2> QED
    BY <2>1, <2>2 DEF Unbroken
<1>3. CASE ~Restart /\ ~listed
  <2>1. ~DeleteSession /\ \A op \in PlanOps : ~PlanOp(op)
    BY <1>3 DEF DeleteSession, PlanOp
  <2>2. UNCHANGED listed
    BY <1>3, <2>1 DEF StoreNext, Background, FlushAll, Message, AcceptMessage, BeginTurn, TurnEvent,
       CancelTurn, EndTurn, WatcherFires, RenameSession, SetMetadata, EditHeader, Unchanged, storeVars
  <2> QED
    BY <1>3, <2>2
<1>4. CASE ~Restart /\ listed
  <2>1. Unbroken
    BY <1>4 DEF TypedInv
  <2>2. CASE Background
    BY <1>1, <2>1, <2>2, BackgroundUnbroken
  <2>3. ASSUME NEW w \in Write, RenameSession(w) PROVE Unbroken'
    <3>1. Running(w) /\ Settle(w) /\ file' = tmp
      BY <2>3 DEF RenameSession, Rename, Running
    <3>2. file' # Partial
      BY <2>1, <2>3, <3>1 DEF Unbroken, RenameSession, Rename
    <3> QED
      BY <1>1, <2>1, <3>1, <3>2, SettleUnbroken
  <2>4. CASE FlushAll
    BY <2>1, <2>4, SameUnbroken DEF FlushAll, FlushInFlight, Flush, diskVars
  <2>5. CASE Message \/ AcceptMessage \/ BeginTurn \/ TurnEvent
    <3>1. FlushSession(Changed) \/ PersistSession(Changed)
      BY <2>5 DEF Message, AcceptMessage, BeginTurn, TurnEvent, SaveNow, SaveLater, SaveRun
    <3> QED
      BY <1>1, <2>1, <3>1, ChangedFacts, SaveUnbroken
  <2>6. ASSUME NEW meta \in Meta, SetMetadata(meta) PROVE Unbroken'
    <3>1. FlushSession([Changed EXCEPT !.meta = meta])
      BY <2>6 DEF SetMetadata, UpdateMetadata
    <3> QED
      BY <1>1, <2>1, <3>1, ChangedFacts, SaveUnbroken
  <2>7. CASE EndTurn
    <3>1. PICK session \in Stored : FlushSession(session)
      <4> DEFINE ended == [Changed EXCEPT !.meta = HeaderPutOff]
      <4>1. pendingExternalHeader \in SUBSET Meta
        BY DEF TypedInv, StoreTypeOK
      <4>2. ended \in Stored
        BY <1>1, <4>1, HeaderFacts, ChangedFacts
      <4>3. FlushSession(ended)
        BY <1>4, <2>7 DEF EndTurn, SaveRun
      <4> QED
        BY <4>2, <4>3
    <3> QED
      BY <1>1, <2>1, <3>1, SaveUnbroken
  <2>8. ASSUME NEW op \in PlanOps, PlanOp(op) PROVE Unbroken'
    <3> DEFINE loaded == [file EXCEPT !.plan = ApplyPlan(op, @)]
    <3>1. loaded \in Stored
      BY <1>1, <2>1, <2>8, FileFacts, PlanTyped DEF Unbroken, PlanOp
    <3>2. \/ Flush(loaded, loaded.version)
          \/ UNCHANGED chainVars
      BY <2>8 DEF PlanOp
    <3>3. UNCHANGED diskVars
      BY <2>8 DEF PlanOp
    <3> HIDE DEF loaded
    <3>4. {loaded.version} \in SUBSET Nat /\ loaded # Nothing
      BY <3>1, StoredFacts DEF Stored
    <3>5. CASE Flush(loaded, loaded.version)
      BY <1>1, <2>1, <3>3, <3>4, <3>5, ScheduleUnbroken DEF Flush
    <3>6. CASE UNCHANGED chainVars
      BY <2>1, <3>3, <3>6, SameUnbroken DEF diskVars
    <3> QED
      BY <3>2, <3>5, <3>6
  <2>9. CASE DeleteSession
    BY <2>9 DEF DeleteSession
  <2>10. ASSUME NEW meta \in Meta, EditHeader(meta) PROVE Unbroken'
    <3>1. file \in Stored
      BY <1>1, <2>10, FileFacts DEF EditHeader
    <3>2. file' \in Stored
      BY <2>10, <3>1 DEF EditHeader, Stored
    <3>3. file' # Partial /\ UNCHANGED <<next, phase, after, tail, tmp>>
      BY <2>10, <3>2, StoredFacts DEF EditHeader, queueVars, chainVars
    <3> QED
      BY <2>1, <3>3 DEF Unbroken, ChainInv
  <2>11. CASE CancelTurn \/ WatcherFires \/ UNCHANGED storeVars
    BY <2>1, <2>11, SameUnbroken
       DEF CancelTurn, WatcherFires, storeVars, saveVars, queueVars, diskVars
  <2> QED
    BY <1>4, <2>2, <2>3, <2>4, <2>5, <2>6, <2>7, <2>8, <2>9, <2>10, <2>11 DEF StoreNext
<1> QED
  BY <1>2, <1>3, <1>4

\* Types, and an unbroken chain while the session is listed.
LEMMA TypedStep == TypedInv /\ [StoreNext]_storeVars => TypedInv'
<1> SUFFICES ASSUME TypedInv, [StoreNext]_storeVars PROVE TypedInv'
  OBVIOUS
<1>1. StoreTypeOK'
  BY TypeStep DEF TypedInv, Unbroken
<1> QED
  BY <1>1, UnbrokenStep DEF TypedInv

\* Initially the types hold, and the chain is unbroken.
LEMMA TypedInit == StoreInit => TypedInv
<1> SUFFICES ASSUME StoreInit PROVE TypedInv
  OBVIOUS
<1>1. IInv /\ file = NewSession /\ tmp = Nothing
  BY InitInv DEF StoreInit, Init
<1>2. NewSession # Partial /\ Nothing # Partial
  BY <1>1, StoredFacts DEF IInv, VersionInv
<1>3. Unbroken
  BY <1>1, <1>2 DEF Unbroken, IInv
<1> QED
  BY <1>1, <1>3 DEF TypedInv, StoreTypeOK, StoreInit, IInv

\* The state is typed, through pending-plan operations, deletions and restarts: what is
\* enqueued, written and loaded is always a session, and metadata is metadata.
THEOREM StoreTyped == StoreSpec => []StoreTypeOK
<1>1. TypedInv => StoreTypeOK
  BY DEF TypedInv
<1> QED
  BY <1>1, TypedInit, TypedStep, PTL DEF StoreSpec

-----------------------------------------------------------------------------
(* Metadata *)

\* While the session is listed its file is there and whole, in its directory, and no
\* running write has lost what it writes.
WritesInv ==
  /\ dir /\ file \in Stored
  /\ \A w \in Write : Running(w) => taken[w] \in Stored
  /\ \A w \in Write : phase[w] = "rename" => tmp = taken[w]

\* Nothing is going to change the metadata, in memory or on disk.
Still == pending = Nothing /\ ~watch /\ ~turn /\ \A w \in Write : ~Running(w)

\* The metadata agree unless something that will make them agree is under way: an
\* entry or a running write, whose rename the watcher will report, a change of the file
\* that it has not reported, or a turn, at whose end the session is saved.
ConvergeInv ==
  /\ TypedInv
  /\ isProcessing => turn
  /\ file # Nothing \/ tmp # Nothing => dir
  /\ listed => WritesInv
  /\ listed /\ fails = 0 /\ Still => managed.meta = file.meta

\* A session is listed again by a restart only.
LEMMA ListedStep ==
  ASSUME [StoreNext]_storeVars, ~Restart, listed'
  PROVE  listed /\ ~DeleteSession
<1>1. ~DeleteSession
  BY DEF DeleteSession
<1>2. ASSUME NEW op \in PlanOps, PlanOp(op) PROVE UNCHANGED listed
  BY <1>2 DEF PlanOp
<1>3. ASSUME EndTurn PROVE UNCHANGED listed
  BY <1>3 DEF EndTurn
<1>4. ASSUME NEW w \in Write, RenameSession(w) PROVE UNCHANGED listed
  BY <1>4 DEF RenameSession
<1>5. ASSUME NEW meta \in Meta, SetMetadata(meta) \/ EditHeader(meta) PROVE UNCHANGED listed
  BY <1>5 DEF SetMetadata, EditHeader
<1>6. CASE \/ Background \/ FlushAll \/ Message \/ AcceptMessage \/ BeginTurn \/ TurnEvent
           \/ CancelTurn \/ WatcherFires
  BY <1>1, <1>6 DEF Background, FlushAll, Message, AcceptMessage, BeginTurn, TurnEvent, CancelTurn,
     WatcherFires, Unchanged
<1>7. CASE UNCHANGED storeVars
  BY <1>1, <1>7 DEF storeVars
<1> QED
  BY <1>1, <1>2, <1>3, <1>4, <1>5, <1>6, <1>7 DEF StoreNext

\* The file and the temporary file are in the directory.
LEMMA DirectoryStep ==
  ASSUME file # Nothing \/ tmp # Nothing => dir, [StoreNext]_storeVars
  PROVE  (file # Nothing \/ tmp # Nothing => dir)'
<1>1. CASE Background
  <2>1. CASE TimerFires
    BY <2>1 DEF TimerFires, diskVars
  <2>2. ASSUME NEW w \in Write, StartWrite(w) \/ FinishTmp(w) PROVE dir'
    BY <2>2 DEF StartWrite, FinishTmp
  <2>3. ASSUME NEW w \in Write, SkipWrite(w) \/ FailWrite(w) \/ LoseWrite(w) PROVE UNCHANGED diskVars
    BY <2>3 DEF SkipWrite, FailWrite, LoseWrite
  <2> QED
    BY <1>1, <2>1, <2>2, <2>3 DEF Background, diskVars
<1>2. ASSUME NEW w \in Write, RenameSession(w) PROVE tmp # Nothing /\ UNCHANGED dir
  BY <1>2 DEF RenameSession, Rename
<1>3. CASE FlushAll \/ Message \/ AcceptMessage \/ BeginTurn \/ TurnEvent
  <2>1. UNCHANGED diskVars
    BY <1>3 DEF FlushAll, FlushInFlight, Message, AcceptMessage, BeginTurn, TurnEvent, SaveNow,
       SaveLater, SaveRun, FlushSession, PersistSession
  <2> QED
    BY <2>1 DEF diskVars
<1>4. CASE EndTurn
  <2>1. UNCHANGED diskVars
    BY <1>4 DEF EndTurn, SaveRun, FlushSession, PersistSession
  <2> QED
    BY <2>1 DEF diskVars
<1>5. ASSUME NEW meta \in Meta, SetMetadata(meta) PROVE UNCHANGED diskVars
  BY <1>5 DEF SetMetadata, UpdateMetadata, FlushSession
<1>6. ASSUME NEW op \in PlanOps, PlanOp(op) PROVE UNCHANGED diskVars
  BY <1>6 DEF PlanOp
<1>7. ASSUME NEW meta \in Meta, EditHeader(meta) PROVE file # Nothing /\ UNCHANGED dir
  BY <1>7 DEF EditHeader
<1>8. CASE DeleteSession
  BY <1>8 DEF DeleteSession
<1>9. CASE CancelTurn \/ WatcherFires \/ Restart \/ UNCHANGED storeVars
  BY <1>9 DEF CancelTurn, WatcherFires, Restart, Crash, storeVars, saveVars, diskVars
<1> QED
  BY <1>1, <1>2, <1>3, <1>4, <1>5, <1>6, <1>7, <1>8, <1>9 DEF StoreNext, diskVars

\* The session is processing only while a turn has not returned.
LEMMA ProcessingStep ==
  ASSUME isProcessing => turn, [StoreNext]_storeVars
  PROVE  (isProcessing => turn)'
<1>1. CASE Background \/ FlushAll \/ Message \/ TurnEvent
  BY <1>1 DEF Background, FlushAll, Message, TurnEvent, Unchanged, turnVars
<1>2. CASE AcceptMessage \/ BeginTurn \/ CancelTurn \/ DeleteSession \/ Restart
  BY <1>2 DEF AcceptMessage, BeginTurn, CancelTurn, DeleteSession, Restart
<1>3. CASE EndTurn
  BY <1>3 DEF EndTurn
<1>4. ASSUME NEW w \in Write, RenameSession(w) PROVE UNCHANGED turnVars
  BY <1>4 DEF RenameSession
<1>5. ASSUME NEW meta \in Meta, SetMetadata(meta) \/ EditHeader(meta) PROVE UNCHANGED turnVars
  BY <1>5 DEF SetMetadata, EditHeader
<1>6. ASSUME NEW op \in PlanOps, PlanOp(op) PROVE UNCHANGED turnVars
  BY <1>6 DEF PlanOp
<1>7. CASE WatcherFires \/ UNCHANGED storeVars
  BY <1>7 DEF WatcherFires, storeVars, turnVars
<1> QED
  BY <1>1, <1>2, <1>3, <1>4, <1>5, <1>6, <1>7 DEF StoreNext, turnVars

\* A step that starts no write and finishes none leaves the writes' content.
LEMMA SameWrites ==
  ASSUME WritesInv, UNCHANGED <<taken, dir, tmp>>, file' \in Stored,
         \A w \in Write : Running(w)' => Running(w) /\ (phase'[w] = "rename" => phase[w] = "rename")
  PROVE  WritesInv'
<1>1. \A w \in Write : phase'[w] = "rename" => Running(w)'
  BY DEF Running
<1> QED
  BY <1>1 DEF WritesInv

\* Scheduling starts no write.
LEMMA ScheduleWrites ==
  ASSUME TypeOK, Unbroken, WritesInv, NEW await \in SUBSET Nat, Schedule(await),
         UNCHANGED <<taken, diskVars>>
  PROVE  WritesInv' /\ \A w \in Write : Running(w)' <=> Running(w)
<1>1. \A w \in Write : Running(w)' <=> Running(w)
  BY ScheduleChain DEF Unbroken
<1>2. \A w \in Write : phase'[w] = "rename" => phase[w] = "rename"
  BY DEF Schedule, TypeOK
<1>3. file \in Stored
  BY DEF WritesInv
<1> QED
  BY <1>1, <1>2, <1>3, SameWrites DEF diskVars

\* A session that is saved.
LEMMA SaveWrites ==
  ASSUME TypeOK, Unbroken, WritesInv, NEW session \in Stored,
         FlushSession(session) \/ PersistSession(session)
  PROVE  WritesInv' /\ pending' # Nothing
<1>1. {session.version} \in SUBSET Nat /\ session # Nothing
  BY StoredFacts DEF Stored
<1>2. CASE FlushSession(session)
  <2>1. Schedule({session.version}) /\ UNCHANGED <<taken, diskVars>>
    BY <1>1, <1>2 DEF FlushSession, Flush
  <2>2. pending' = session
    BY <1>2 DEF FlushSession, Enqueue
  <2> QED
    BY <1>1, <2>1, <2>2, ScheduleWrites
<1>3. CASE PersistSession(session)
  <2>1. pending' = session /\ UNCHANGED <<phase, taken, dir, file, tmp>>
    BY <1>3 DEF PersistSession, Enqueue, chainVars, diskVars
  <2>2. file \in Stored
    BY DEF WritesInv
  <2>3. WritesInv'
    BY <2>1, <2>2, SameWrites DEF Running
  <2> QED
    BY <1>1, <2>1, <2>3
<1> QED
  BY <1>2, <1>3

\* No write of a listed session is lost.
LEMMA ListedLosesNone ==
  ASSUME WritesInv, NEW w \in Write, LoseWrite(w)
  PROVE  FALSE
<1>1. phase[w] = "rename" /\ tmp = Nothing
  BY DEF LoseWrite, WritesInv
<1>2. tmp = taken[w] /\ taken[w] \in Stored
  BY <1>1 DEF WritesInv, Running
<1> QED
  BY <1>1, <1>2, StoredFacts

\* The queue's own steps keep what is written, and if everything is still after one,
\* then it was before, with the same metadata.
LEMMA BackgroundConverges ==
  ASSUME StoreTypeOK, Unbroken, WritesInv, Background
  PROVE  /\ WritesInv'
         /\ fails' = 0 /\ Still' => fails = 0 /\ Still /\ UNCHANGED <<managed, file>>
<1> USE DEF StoreTypeOK
<1>1. UNCHANGED <<turn, watch>>
  BY DEF Background, Unchanged, turnVars
<1>2. CASE TimerFires
  <2>1. Schedule({}) /\ UNCHANGED <<managed, pending, fails, taken, diskVars>>
    BY <1>2 DEF TimerFires, historyVars
  <2>2. WritesInv' /\ \A w \in Write : Running(w)' <=> Running(w)
    BY <2>1, ScheduleWrites
  <2> QED
    BY <1>1, <2>1, <2>2 DEF Still, diskVars
<1>3. ASSUME NEW w \in Write, StartWrite(w) PROVE WritesInv' /\ ~Still'
  <2>1. /\ Ready(w) /\ dir' = TRUE /\ file' = file
        /\ \A x \in Write : phase'[x] = IF x = w THEN "tmp" ELSE phase[x]
        /\ \A x \in Write : taken'[x] = IF x = w THEN Merged(pending) ELSE taken[x]
    BY <1>3 DEF StartWrite, OpenFile, TypeOK
  <2>2. \A x \in Write : ~Running(x)
    <3> SUFFICES ASSUME NEW x \in Write, Running(x) PROVE FALSE
      OBVIOUS
    <3>1. x = w
      BY <2>1, OneRuns DEF Unbroken
    <3> QED
      BY <2>1, <3>1 DEF Running, Ready
  <2>3. Merged(pending) \in Stored
    BY <1>3, MergedTyped DEF StartWrite, TypeOK
  <2>4. \A x \in Write : Running(x)' <=> x = w
    BY <2>1, <2>2 DEF Running
  <2>5. WritesInv'
    BY <2>1, <2>2, <2>3, <2>4 DEF WritesInv, Running
  <2> QED
    BY <2>4, <2>5 DEF Still
<1>4. ASSUME NEW w \in Write, SkipWrite(w)
      PROVE  WritesInv' /\ (Still' => Still /\ UNCHANGED <<managed, fails, file>>)
  <2>1. /\ Ready(w) /\ Settle(w)
        /\ UNCHANGED <<managed, pending, dir, file, tmp, fails>>
    BY <1>4 DEF SkipWrite, diskVars
  <2>2. /\ \A x \in Write : ~Running(x)'
        /\ \A x \in Write : phase'[x] = IF x = w THEN "done" ELSE phase[x]
    BY <2>1, SettleChain, SettleTyped DEF Unbroken
  <2>3. \A x \in Write : ~Running(x)
    BY <2>1, <2>2 DEF Running, Ready
  <2>4. WritesInv'
    BY <2>1, <2>2 DEF WritesInv, Running
  <2> QED
    BY <1>1, <2>1, <2>3, <2>4 DEF Still
<1>5. ASSUME NEW w \in Write, FinishTmp(w) PROVE WritesInv' /\ ~Still'
  <2>1. /\ phase[w] = "tmp" /\ Running(w) /\ UNCHANGED <<taken, dir, file>>
        /\ \A x \in Write : phase'[x] = IF x = w THEN "rename" ELSE phase[x]
    BY <1>5 DEF FinishTmp, TypeOK, Running
  <2>2. \A x \in Write : Running(x) => x = w
    BY <2>1, OneRuns DEF Unbroken
  <2>3. tmp' = taken[w]
    BY <1>5, <2>2 DEF FinishTmp, Running
  <2>4. \A x \in Write : Running(x)' <=> x = w
    BY <2>1, <2>2 DEF Running
  <2>5. WritesInv'
    BY <2>1, <2>3, <2>4 DEF WritesInv, Running
  <2> QED
    BY <2>4, <2>5 DEF Still
<1>6. ASSUME NEW w \in Write, FailWrite(w) PROVE WritesInv' /\ fails' # 0
  <2>1. Running(w) /\ Settle(w) /\ UNCHANGED <<dir, file, tmp>> /\ fails' = fails + 1
    BY <1>6 DEF FailWrite, Running, diskVars
  <2>2. \A x \in Write : ~Running(x)'
    BY <2>1, SettleChain DEF Unbroken
  <2>3. fails' # 0
    <3>1. fails \in Nat
      BY DEF TypeOK
    <3>2. fails' = fails + 1
      BY <2>1
    <3> HIDE DEF StoreTypeOK
    <3> QED
      BY <3>1, <3>2
  <2>4. WritesInv'
    BY <2>1, <2>2 DEF WritesInv, Running
  <2> QED
    BY <2>3, <2>4
<1>7. ASSUME NEW w \in Write, LoseWrite(w) PROVE FALSE
  BY <1>7, ListedLosesNone
<1> QED
  BY <1>2, <1>3, <1>4, <1>5, <1>6, <1>7 DEF Background

\* A listed session after any step: its writes keep what they write, and if all is
\* still then the metadata agree.
LEMMA ListedConverges ==
  ASSUME ConvergeInv, listed, [StoreNext]_storeVars, ~Restart, ~DeleteSession
  PROVE  WritesInv' /\ (fails' = 0 /\ Still' => managed'.meta = file'.meta)
<1> DEFINE Goal == WritesInv' /\ (fails' = 0 /\ Still' => managed'.meta = file'.meta)
<1>1. /\ StoreTypeOK /\ TypeOK /\ Unbroken /\ WritesInv /\ managed \in Stored /\ file \in Stored
      /\ fails = 0 /\ Still => managed.meta = file.meta
  BY DEF ConvergeInv, TypedInv, StoreTypeOK, TypeOK, WritesInv
<1>2. CASE Background
  BY <1>1, <1>2, BackgroundConverges
<1>3. ASSUME NEW w \in Write, RenameSession(w) PROVE Goal
  <2>1. /\ phase[w] = "rename" /\ file' = tmp /\ Settle(w) /\ watch' = TRUE /\ dir' = dir
    BY <1>3 DEF RenameSession, Rename
  <2>2. file' \in Stored
    BY <1>1, <2>1 DEF WritesInv, Running
  <2>3. \A x \in Write : ~Running(x)'
    BY <1>1, <2>1, SettleChain DEF Unbroken, Running
  <2> QED
    BY <1>1, <2>1, <2>2, <2>3 DEF WritesInv, Running, Still
<1>4. ASSUME NEW session \in Stored, FlushSession(session) \/ PersistSession(session) PROVE Goal
  BY <1>1, <1>4, SaveWrites DEF Still
<1>5. CASE Message \/ AcceptMessage \/ BeginTurn \/ TurnEvent
  <2>1. FlushSession(Changed) \/ PersistSession(Changed)
    BY <1>5 DEF Message, AcceptMessage, BeginTurn, TurnEvent, SaveNow, SaveLater, SaveRun
  <2> QED
    BY <1>1, <1>4, <2>1, ChangedFacts
<1>6. ASSUME NEW meta \in Meta, SetMetadata(meta) PROVE Goal
  <2>1. FlushSession([Changed EXCEPT !.meta = meta])
    BY <1>6 DEF SetMetadata, UpdateMetadata
  <2> QED
    BY <1>1, <1>4, <2>1, ChangedFacts
<1>7. CASE EndTurn
  <2> DEFINE ended == [Changed EXCEPT !.meta = HeaderPutOff]
  <2>1. HeaderPutOff \in Meta
    BY <1>1, HeaderFacts DEF StoreTypeOK
  <2>2. ended \in Stored
    BY <1>1, <2>1, ChangedFacts
  <2>3. FlushSession(ended) \/ PersistSession(ended)
    BY <1>7 DEF EndTurn, SaveRun
  <2> QED
    BY <1>4, <2>2, <2>3
<1>8. CASE FlushAll \/ CancelTurn \/ UNCHANGED storeVars
  <2>1. UNCHANGED <<managed, pending, phase, taken, dir, file, tmp, fails, watch>>
    BY <1>8 DEF FlushAll, FlushInFlight, Flush, CancelTurn, Unchanged, storeVars, saveVars, queueVars,
       chainVars, diskVars, historyVars
  <2>2. UNCHANGED turn
    BY <1>8 DEF FlushAll, CancelTurn, Unchanged, storeVars, turnVars
  <2>3. \A w \in Write : Running(w)' <=> Running(w)
    BY <2>1 DEF Running
  <2>4. WritesInv'
    BY <1>1, <2>1, <2>3, SameWrites
  <2>5. Still' => Still
    BY <2>1, <2>2, <2>3 DEF Still
  <2> QED
    BY <1>1, <2>1, <2>4, <2>5
<1>9. ASSUME NEW op \in PlanOps, PlanOp(op) PROVE Goal
  <2> DEFINE loaded == [file EXCEPT !.plan = ApplyPlan(op, @)]
  <2>1. loaded \in Stored
    BY <1>1, PlanTyped
  <2>2. /\ managed' = [managed EXCEPT !.plan = ApplyPlan(op, @)]
        /\ \/ Enqueue(loaded) /\ Flush(loaded, loaded.version)
           \/ UNCHANGED <<pending, timer, chainVars, waiting>>
        /\ UNCHANGED <<taken, diskVars, fails, turn, watch>>
    BY <1>9 DEF PlanOp, historyVars, turnVars
  <2>3. managed'.meta = managed.meta
    BY <1>1, <2>2 DEF Stored
  <2> HIDE DEF loaded
  <2>4. loaded # Nothing /\ {loaded.version} \in SUBSET Nat
    BY <2>1, StoredFacts DEF Stored
  <2>5. CASE Enqueue(loaded) /\ Flush(loaded, loaded.version)
    <3>1. Schedule({loaded.version}) /\ pending' # Nothing
      BY <2>4, <2>5 DEF Flush, Enqueue
    <3> QED
      BY <1>1, <2>2, <2>4, <3>1, ScheduleWrites DEF Still
  <2>6. CASE UNCHANGED <<pending, timer, chainVars, waiting>>
    <3>1. UNCHANGED <<pending, phase, taken, dir, file, tmp, fails, turn, watch>>
      BY <2>2, <2>6 DEF chainVars, diskVars
    <3>2. \A w \in Write : Running(w)' <=> Running(w)
      BY <3>1 DEF Running
    <3>3. WritesInv'
      BY <1>1, <3>1, <3>2, SameWrites
    <3>4. Still' => Still
      BY <3>1, <3>2 DEF Still
    <3> QED
      BY <1>1, <2>3, <3>1, <3>3, <3>4
  <2> QED
    BY <2>2, <2>5, <2>6
<1>10. ASSUME NEW meta \in Meta, EditHeader(meta) PROVE Goal
  <2>1. /\ file' = [file EXCEPT !.meta = meta] /\ watch' = TRUE
        /\ UNCHANGED <<phase, taken, dir, tmp>>
    BY <1>10 DEF EditHeader, queueVars, chainVars
  <2>2. file' \in Stored
    BY <1>1, <2>1 DEF Stored
  <2>3. WritesInv'
    BY <1>1, <2>1, <2>2, SameWrites DEF Running
  <2> QED
    BY <2>1, <2>3 DEF Still
<1>11. CASE WatcherFires
  <2>1. UNCHANGED <<phase, taken, dir, file, tmp, turn>>
    BY <1>11 DEF WatcherFires, queueVars, chainVars, diskVars, turnVars
  <2>2. WritesInv'
    BY <1>1, <2>1, SameWrites DEF Running
  <2>3. Still' => managed' = [managed EXCEPT !.meta = file.meta]
    <3>1. Still' => ~isProcessing
      BY <2>1 DEF Still, ConvergeInv
    <3>2. Reported
      BY <1>1, StoredFacts DEF Reported
    <3> QED
      BY <1>11, <3>1, <3>2 DEF WatcherFires
  <2>4. Still' => managed'.meta = file'.meta
    BY <1>1, <2>1, <2>3 DEF Stored
  <2> QED
    BY <2>2, <2>4
<1> QED
  BY <1>2, <1>3, <1>5, <1>6, <1>7, <1>8, <1>9, <1>10, <1>11 DEF StoreNext

\* A restart loads what is on disk.
LEMMA RestartConverges ==
  ASSUME ConvergeInv, Restart
  PROVE  WritesInv' /\ managed'.meta = file'.meta
<1>1. /\ file # Nothing /\ file.whole /\ managed' = file
      /\ UNCHANGED <<dir, file, tmp>>
      /\ phase' = [w \in Write |-> "unborn"]
  BY DEF Restart, Crash, diskVars
<1>2. file \in Stored /\ dir
  BY <1>1, FileFacts DEF ConvergeInv, TypedInv, StoreTypeOK
<1>3. \A w \in Write : ~Running(w)' /\ phase'[w] # "rename"
  BY <1>1 DEF Running
<1> QED
  BY <1>1, <1>2, <1>3 DEF WritesInv

\* When all is quiet the server holds the metadata that is on disk, however saves,
\* edits, turns, pending-plan operations, restarts and the watcher crossed.
THEOREM MetadataAgree == StoreSpec => []MetadataConverges
<1>1. StoreInit => ConvergeInv
  <2> SUFFICES ASSUME StoreInit PROVE ConvergeInv
    OBVIOUS
  <2>1. IInv /\ managed = file /\ ~isProcessing
    BY InitInv DEF StoreInit, Init
  <2>2. WritesInv
    BY <2>1 DEF IInv, VersionInv, WritesInv, Running
  <2> QED
    BY <2>1, <2>2, TypedInit DEF ConvergeInv, IInv
<1>2. ConvergeInv /\ [StoreNext]_storeVars => ConvergeInv'
  <2> SUFFICES ASSUME ConvergeInv, [StoreNext]_storeVars PROVE ConvergeInv'
    OBVIOUS
  <2>1. TypedInv' /\ (isProcessing => turn)' /\ (file # Nothing \/ tmp # Nothing => dir)'
    BY TypedStep, ProcessingStep, DirectoryStep DEF ConvergeInv
  <2>2. listed' => WritesInv' /\ (fails' = 0 /\ Still' => managed'.meta = file'.meta)
    <3>1. CASE Restart
      BY <3>1, RestartConverges
    <3>2. CASE ~Restart
      BY <3>2, ListedStep, ListedConverges
    <3> QED
      BY <3>1, <3>2
  <2> QED
    BY <2>1, <2>2 DEF ConvergeInv
<1>3. ConvergeInv => MetadataConverges
  <2>1. Quiet => Still
    BY DEF Quiet, Still, Running
  <2> QED
    BY <2>1 DEF ConvergeInv, MetadataConverges
<1> QED
  BY <1>1, <1>2, <1>3, PTL DEF StoreSpec

=============================================================================
