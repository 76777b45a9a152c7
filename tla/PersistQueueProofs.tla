--------------------------- MODULE PersistQueueProofs ---------------------------
(***************************************************************************)
(* Proofs about PersistQueue: its type invariant, that one write at most   *)
(* is inside the temporary file, that what a flush reported is saved, that *)
(* the queue implements DurableFile, and that nothing is forgotten: what   *)
(* is not on disk yet is in the entry or in a write, and the timer runs or *)
(* the chain moves.                                                        *)
(***************************************************************************)
EXTENDS PersistQueue, Integers, TLAPS

Running(w) == phase[w] \in {"tmp", "rename"}

\* The chain of promises: writes are numbered as they are scheduled, each waits
\* for the one before it unless that one had settled, and none runs before all
\* earlier ones have settled.
ChainInv ==
  /\ \A w \in Write : phase[w] = "unborn" <=> w >= next
  /\ \A w \in Write : w < next /\ after[w] # NoWrite => after[w] = w - 1
  /\ \A w, x \in Write :
       w < next /\ x < w /\ (after[w] = NoWrite \/ phase[w] # "waiting") => phase[x] = "done"
  /\ tail = NoWrite => \A w \in Write : w < next => phase[w] = "done"
  /\ tail # NoWrite => tail = next - 1 /\ phase[tail] # "done"

\* Where the last version is: in the entry, in the running write, or on disk.
VersionInv ==
  /\ file \in Stored /\ file.version <= managed.version
  /\ pending # Nothing => pending.version = managed.version
  /\ \A w \in Write : Running(w) =>
       /\ taken[w] \in Stored
       /\ file.version <= taken[w].version /\ taken[w].version <= managed.version
       /\ pending = Nothing => taken[w].version = managed.version
       /\ phase[w] = "rename" => tmp = taken[w]
  /\ fails = 0 /\ pending = Nothing /\ (\A w \in Write : ~Running(w)) =>
       file.version = managed.version

\* What the flushes under way will report.
FlushInv ==
  \A f \in waiting :
    /\ f.version <= managed.version
    /\ f.write < next
    /\ Running(f.write) => f.version <= taken[f.write].version

PromiseInv == fails = 0 => promised <= file.version

IInv == TypeOK /\ dir /\ ChainInv /\ VersionInv /\ FlushInv /\ PromiseInv

-----------------------------------------------------------------------------
(* The shape of the data *)

\* A session is neither nothing nor a file cut short.
LEMMA StoredFacts ==
  /\ \A s \in Stored : s # Nothing /\ s # Partial /\ s.whole
  /\ Partial # Nothing
<1>1. \A s \in Stored : s.whole /\ "whole" \in DOMAIN s
  BY DEF Stored
<1>2. Partial.whole = FALSE /\ "whole" \in DOMAIN Partial
  BY DEF Partial, NewSession
<1>3. "whole" \notin DOMAIN Nothing
  BY DEF Nothing
<1> QED
  BY <1>1, <1>2, <1>3

\* Merging the header changes the metadata only.
LEMMA MergedFacts ==
  ASSUME NEW data \in Stored, file \in Stored
  PROVE  Merged(data) \in Stored /\ Merged(data).version = data.version
BY DEF Merged, Stored

\* The changed session is the next version.
LEMMA ChangedFacts ==
  ASSUME managed \in Stored
  PROVE  /\ Changed \in Stored /\ Changed.version = managed.version + 1
         /\ \A m \in Meta : /\ [Changed EXCEPT !.meta = m] \in Stored
                            /\ [Changed EXCEPT !.meta = m].version = managed.version + 1
<1>1. managed.version \in Nat /\ managed.version + 1 \in Nat
  BY DEF Stored
<1>2. Changed \in Stored /\ Changed.version = managed.version + 1
  BY <1>1 DEF Changed, Stored
<1>3. ASSUME NEW m \in Meta
      PROVE  /\ [Changed EXCEPT !.meta = m] \in Stored
             /\ [Changed EXCEPT !.meta = m].version = Changed.version
  BY <1>2 DEF Stored
<1> QED
  BY <1>2, <1>3

\* The invariant holds initially.
LEMMA InitInv == Init => IInv
<1> SUFFICES ASSUME Init PROVE IInv
  OBVIOUS
<1>1. NewSession \in Stored /\ NewSession.version = 0
  BY Metadata DEF NewSession, Stored, Plan
<1>2. 1 \in 1..(MaxWrite + 1)
  BY QueueBounds
<1>3. TypeOK
  BY <1>1, <1>2, Metadata DEF Init, TypeOK, NoWrite
<1>4. ChainInv
  BY QueueBounds DEF Init, ChainInv, Write, NoWrite
<1>5. VersionInv
  BY <1>1 DEF Init, VersionInv, Running
<1>6. FlushInv /\ PromiseInv /\ dir
  BY <1>1 DEF Init, FlushInv, PromiseInv
<1> QED
  BY <1>3, <1>4, <1>5, <1>6 DEF IInv

-----------------------------------------------------------------------------
(* The chain of writes *)

\* When a write may start or is running, all earlier ones have settled.
LEMMA EarlierDone ==
  ASSUME TypeOK, ChainInv, NEW w \in Write, Ready(w) \/ Running(w)
  PROVE  w < next /\ \A x \in Write : x < w => phase[x] = "done"
<1>1. next \in Int /\ Write \subseteq Int
  BY QueueBounds DEF TypeOK, Write
<1>2. w < next
  BY <1>1 DEF ChainInv, Ready, Running
<1>3. CASE after[w] = NoWrite \/ phase[w] # "waiting"
  BY <1>2, <1>3 DEF ChainInv
<1>4. CASE after[w] # NoWrite /\ phase[w] = "waiting"
  <2>1. after[w] = w - 1 /\ w - 1 \in Write /\ phase[w - 1] = "done"
    BY <1>2, <1>4 DEF ChainInv, Ready, Running
  <2>2. \A x \in Write : x < w - 1 => phase[x] = "done"
    BY <1>1, <1>2, <2>1 DEF ChainInv
  <2>3. \A x \in Write : x < w => x < w - 1 \/ x = w - 1
    BY <1>1
  <2> QED
    BY <1>2, <2>1, <2>2, <2>3
<1> QED
  BY <1>2, <1>3, <1>4

\* While a write runs, no other runs or may start.
LEMMA OneRuns ==
  ASSUME TypeOK, ChainInv, NEW w \in Write, NEW x \in Write,
         Running(w), Ready(x) \/ Running(x)
  PROVE  w = x
<1>1. w \in Int /\ x \in Int
  BY QueueBounds DEF Write
<1>2. phase[w] # "done" /\ phase[x] # "done"
  BY DEF Running, Ready
<1>3. ~(w < x) /\ ~(x < w)
  BY <1>2, EarlierDone
<1> QED
  BY <1>1, <1>3

\* A write is appended to the chain.
LEMMA ScheduleChain ==
  ASSUME TypeOK, ChainInv, NEW await \in SUBSET Nat, Schedule(await)
  PROVE  /\ ChainInv'
         /\ next \in Write /\ next' \in 1..(MaxWrite + 1)
         /\ phase' \in [Write -> {"unborn", "waiting", "tmp", "rename", "done"}]
         /\ after' \in [Write -> Write \union {NoWrite}]
         /\ tail' \in Write \union {NoWrite}
         /\ waiting' \in SUBSET [version : Nat, write : Write]
         /\ \A w \in Write : Running(w)' <=> Running(w)
<1>1. next \in Write /\ next \in Int /\ Write \subseteq Int /\ NoWrite \notin Write
  BY QueueBounds DEF TypeOK, Schedule, Write, NoWrite
<1>2. \A w \in Write : phase'[w] = IF w = next THEN "waiting" ELSE phase[w]
  BY <1>1 DEF TypeOK, Schedule
<1>3. \A w \in Write : after'[w] = IF w = next THEN tail ELSE after[w]
  BY <1>1 DEF TypeOK, Schedule
<1>4. next' = next + 1 /\ tail' = next
  BY DEF Schedule
<1>5. phase[next] = "unborn"
  BY <1>1 DEF ChainInv
<1>6. (\A w \in Write : phase[w] = "unborn" <=> w >= next)'
  BY <1>1, <1>2, <1>4 DEF ChainInv
<1>7. (\A w \in Write : w < next /\ after[w] # NoWrite => after[w] = w - 1)'
  BY <1>1, <1>3, <1>4 DEF ChainInv
<1>8. (\A w, x \in Write :
         w < next /\ x < w /\ (after[w] = NoWrite \/ phase[w] # "waiting")
           => phase[x] = "done")'
  <2> SUFFICES ASSUME NEW w \in Write, NEW x \in Write, w < next', x < w,
                      after'[w] = NoWrite \/ phase'[w] # "waiting"
               PROVE  phase'[x] = "done"
    OBVIOUS
  <2>1. CASE w = next
    BY <1>1, <1>2, <1>3, <2>1 DEF ChainInv
  <2>2. CASE w # next
    BY <1>1, <1>2, <1>3, <1>4, <2>2 DEF ChainInv
  <2> QED
    BY <2>1, <2>2
<1>9. (tail # NoWrite => tail = next - 1 /\ phase[tail] # "done")'
  BY <1>1, <1>2, <1>4
<1>10. (tail = NoWrite => \A w \in Write : w < next => phase[w] = "done")'
  BY <1>1, <1>4
<1>11. ChainInv'
  BY <1>6, <1>7, <1>8, <1>9, <1>10 DEF ChainInv
<1>12. \A w \in Write : Running(w)' <=> Running(w)
  BY <1>2, <1>5 DEF Running
<1>13. next' \in 1..(MaxWrite + 1)
  BY <1>1, <1>4, QueueBounds DEF Write
<1>14. waiting' \in SUBSET [version : Nat, write : Write]
  BY <1>1 DEF TypeOK, Schedule
<1> QED
  BY <1>1, <1>4, <1>11, <1>12, <1>13, <1>14 DEF TypeOK, Schedule

\* A write that may start or is running settles.
LEMMA SettleChain ==
  ASSUME TypeOK, ChainInv, NEW w \in Write, Ready(w) \/ Running(w), Settle(w)
  PROVE  /\ ChainInv'
         /\ next' = next
         /\ phase' \in [Write -> {"unborn", "waiting", "tmp", "rename", "done"}]
         /\ after' \in [Write -> Write \union {NoWrite}]
         /\ taken' \in [Write -> Stored \union {Nothing}]
         /\ tail' \in Write \union {NoWrite}
         /\ waiting' \subseteq waiting /\ promised' \in Nat
         /\ \A x \in Write : ~Running(x)'
<1>1. next \in Int /\ Write \subseteq Int /\ NoWrite \notin Write
  BY QueueBounds DEF TypeOK, Write, NoWrite
<1>2. \A x \in Write : phase'[x] = IF x = w THEN "done" ELSE phase[x]
  BY DEF TypeOK, Settle, Told, TailAfter
<1>3. next' = next /\ after' = after /\ tail' = (IF tail = w THEN NoWrite ELSE tail)
  BY DEF Settle, Told, TailAfter
<1>4. w < next /\ \A x \in Write : x < w => phase[x] = "done"
  BY EarlierDone
<1>5. phase[w] # "unborn"
  BY DEF Ready, Running
<1>6. (\A x \in Write : phase[x] = "unborn" <=> x >= next)'
  BY <1>1, <1>2, <1>3, <1>4, <1>5 DEF ChainInv
<1>7. (\A x \in Write : x < next /\ after[x] # NoWrite => after[x] = x - 1)'
  BY <1>3 DEF ChainInv
<1>8. (\A x, y \in Write :
         x < next /\ y < x /\ (after[x] = NoWrite \/ phase[x] # "waiting")
           => phase[y] = "done")'
  BY <1>2, <1>3, <1>4 DEF ChainInv
<1>9. (tail # NoWrite => tail = next - 1 /\ phase[tail] # "done")'
  BY <1>2, <1>3 DEF ChainInv, TypeOK
<1>10. (tail = NoWrite => \A x \in Write : x < next => phase[x] = "done")'
  <2>1. CASE tail = w
    BY <1>1, <1>2, <1>3, <1>4, <2>1 DEF ChainInv
  <2>2. CASE tail # w
    BY <1>2, <1>3, <2>2 DEF ChainInv
  <2> QED
    BY <2>1, <2>2
<1>11. ChainInv'
  BY <1>6, <1>7, <1>8, <1>9, <1>10 DEF ChainInv
<1>12. \A x \in Write : ~Running(x)'
  <2> SUFFICES ASSUME NEW x \in Write, x # w, Running(x) PROVE FALSE
    BY <1>2 DEF Running
  <2> QED
    BY OneRuns
<1>13. promised' \in Nat /\ waiting' \subseteq waiting
  BY DEF Settle, Told, TailAfter, TypeOK
<1> QED
  BY <1>3, <1>11, <1>12, <1>13 DEF Settle, Told, TailAfter, TypeOK

-----------------------------------------------------------------------------
(* The saves: a change of the session, enqueued, with or without a flush *)

\* A change that is enqueued keeps the invariant, given what the chain is after
\* it: the entry holds the new version, so nothing written before is the last.
LEMMA SaveInv ==
  ASSUME IInv, NEW session \in Stored, session.version = managed.version + 1,
         managed' = session, Enqueue(session),
         \/ UNCHANGED <<chainVars, waiting>>
         \/ Schedule({session.version})
         \/ Schedule({}),
         UNCHANGED <<taken, lastWrittenHeaderSignature, diskVars, historyVars>>
  PROVE  IInv'
<1> USE DEF IInv
<1>1. session.version \in Nat /\ managed.version \in Nat
  BY DEF TypeOK, Stored
<1>2. /\ ChainInv' /\ next' \in 1..(MaxWrite + 1)
      /\ phase' \in [Write -> {"unborn", "waiting", "tmp", "rename", "done"}]
      /\ after' \in [Write -> Write \union {NoWrite}]
      /\ tail' \in Write \union {NoWrite}
      /\ waiting' \in SUBSET [version : Nat, write : Write]
      /\ \A w \in Write : Running(w)' <=> Running(w)
  <2>1. CASE UNCHANGED <<chainVars, waiting>>
    BY <2>1 DEF chainVars, ChainInv, TypeOK, Running
  <2>2. CASE Schedule({session.version}) \/ Schedule({})
    BY <1>1, <2>2, ScheduleChain
  <2> QED
    BY <2>1, <2>2
<1>3. TypeOK'
  BY <1>2 DEF TypeOK, Enqueue, diskVars, historyVars
<1>4. \A w \in Write : phase'[w] = "rename" => phase[w] = "rename"
  BY DEF Schedule, chainVars, TypeOK
<1>5. VersionInv'
  <2>1. pending' = session /\ session # Nothing
    BY StoredFacts DEF Enqueue
  <2>2. file' \in Stored /\ file'.version <= managed'.version
    <3>1. file' = file /\ file \in Stored /\ file.version <= managed.version
      BY DEF VersionInv, diskVars
    <3>2. file.version \in Nat /\ managed'.version = managed.version + 1
      BY <3>1 DEF Stored
    <3> QED
      BY <1>1, <3>1, <3>2
  <2>3. ASSUME NEW w \in Write, Running(w)'
        PROVE  /\ taken'[w] \in Stored
               /\ file'.version <= taken'[w].version
               /\ taken'[w].version <= managed'.version
               /\ phase'[w] = "rename" => tmp' = taken'[w]
    <3>1. Running(w)
      BY <1>2, <2>3
    <3>2. taken[w] \in Stored /\ taken[w].version \in Nat
      BY <3>1 DEF VersionInv, Stored
    <3> QED
      BY <1>1, <1>4, <3>1, <3>2 DEF VersionInv, diskVars
  <2> QED
    BY <2>1, <2>2, <2>3 DEF VersionInv
<1>6. FlushInv'
  <2> SUFFICES ASSUME NEW f \in waiting'
               PROVE  /\ f.version <= managed'.version
                      /\ f.write < next'
                      /\ Running(f.write)' => f.version <= taken'[f.write].version
    BY DEF FlushInv
  <2>1. f \in [version : Nat, write : Write]
    BY <1>2
  <2>2. CASE f \in waiting
    <3>1. f.version <= managed.version /\ f.write < next /\ f.write \in Write
      BY <2>1, <2>2 DEF FlushInv
    <3>2. next \in Nat /\ next' \in {next, next + 1} /\ f.write \in Nat
      BY <2>1, QueueBounds DEF Schedule, chainVars, TypeOK, Write
    <3>3. f.version \in Nat
      BY <2>1
    <3> QED
      BY <1>1, <1>2, <2>2, <3>1, <3>2, <3>3 DEF FlushInv
  <2>3. CASE f \notin waiting
    <3>1. f.version = session.version /\ f.write = next /\ next' = next + 1 /\ next \in Nat
      BY <2>3 DEF Schedule, TypeOK
    <3>2. phase'[next] = "waiting"
      BY <2>1, <2>3, <3>1 DEF Schedule, TypeOK, chainVars
    <3> QED
      BY <1>1, <3>1, <3>2 DEF Running
  <2> QED
    BY <2>2, <2>3
<1>7. PromiseInv' /\ dir'
  BY DEF PromiseInv, diskVars, historyVars
<1> QED
  BY <1>2, <1>3, <1>5, <1>6, <1>7

\* Saving without waiting.
LEMMA SaveLaterStep == ASSUME IInv, SaveLater PROVE IInv'
<1>1. Changed \in Stored /\ Changed.version = managed.version + 1
  BY ChangedFacts DEF IInv, TypeOK
<1> QED
  BY <1>1, SaveInv DEF SaveLater, PersistSession

\* Saving and waiting.
LEMMA SaveNowStep == ASSUME IInv, SaveNow PROVE IInv'
<1>1. Changed \in Stored /\ Changed.version = managed.version + 1 /\ Changed # Nothing
  BY ChangedFacts, StoredFacts DEF IInv, TypeOK
<1>2. Schedule({Changed.version})
  BY <1>1 DEF SaveNow, FlushSession, Flush
<1> QED
  BY <1>1, <1>2, SaveInv DEF SaveNow, FlushSession

\* A change of the metadata is saved and waited for.
LEMMA UpdateMetadataStep ==
  ASSUME IInv, NEW meta \in Meta, UpdateMetadata(meta) PROVE IInv'
<1> DEFINE session == [Changed EXCEPT !.meta = meta]
<1>1. session \in Stored /\ session.version = managed.version + 1 /\ session # Nothing
  BY ChangedFacts, StoredFacts DEF IInv, TypeOK
<1>2. FlushSession(session)
  BY DEF UpdateMetadata
<1> HIDE DEF session
<1>3. Schedule({session.version})
  BY <1>1, <1>2 DEF FlushSession, Flush
<1> QED
  BY <1>1, <1>2, <1>3, SaveInv DEF FlushSession

-----------------------------------------------------------------------------
(* The other calls *)

\* The timer schedules a write that no caller waits for.
LEMMA TimerFiresStep == ASSUME IInv, TimerFires PROVE IInv'
<1> USE DEF IInv
<1>1. /\ ChainInv' /\ next' \in 1..(MaxWrite + 1)
      /\ phase' \in [Write -> {"unborn", "waiting", "tmp", "rename", "done"}]
      /\ after' \in [Write -> Write \union {NoWrite}]
      /\ tail' \in Write \union {NoWrite}
      /\ waiting' \in SUBSET [version : Nat, write : Write]
      /\ \A w \in Write : Running(w)' <=> Running(w)
  BY ScheduleChain DEF TimerFires
<1>2. TypeOK'
  BY <1>1 DEF TypeOK, TimerFires, diskVars, historyVars
<1>3. \A w \in Write : phase'[w] = "rename" => phase[w] = "rename"
  BY DEF TimerFires, Schedule, TypeOK
<1>4. VersionInv'
  BY <1>1, <1>3 DEF VersionInv, TimerFires, diskVars, historyVars
<1>5. waiting' = waiting /\ next' = next + 1 /\ next \in Nat
  BY DEF TimerFires, Schedule, TypeOK
<1>6. FlushInv'
  <2> SUFFICES ASSUME NEW f \in waiting
               PROVE  /\ f.version <= managed'.version
                      /\ f.write < next'
                      /\ Running(f.write)' => f.version <= taken'[f.write].version
    BY <1>5 DEF FlushInv
  <2>1. f.write \in Write /\ f.write \in Nat
    BY DEF TypeOK, Write
  <2> QED
    BY <1>1, <1>5, <2>1 DEF FlushInv, TimerFires
<1>7. PromiseInv' /\ dir'
  BY DEF PromiseInv, TimerFires, diskVars, historyVars
<1> QED
  BY <1>1, <1>2, <1>4, <1>6, <1>7

\* Waiting for a write in flight: it has the last version.
LEMMA FlushInFlightStep == ASSUME IInv, FlushInFlight PROVE IInv'
<1> USE DEF IInv
<1>1. /\ tail \in Write /\ managed.version \in Nat
      /\ waiting' = waiting \union [version : {managed.version}, write : {tail}]
      /\ UNCHANGED chainVars
  BY DEF FlushInFlight, Flush, TypeOK, Stored
<1>2. UNCHANGED <<managed, pending, timer, taken, lastWrittenHeaderSignature, diskVars,
                  historyVars>>
  BY DEF FlushInFlight
<1>3. TypeOK' /\ ChainInv' /\ VersionInv' /\ PromiseInv' /\ dir'
  BY <1>1, <1>2
     DEF TypeOK, ChainInv, VersionInv, PromiseInv, Running, chainVars, diskVars, historyVars
<1>4. FlushInv'
  <2> SUFFICES ASSUME NEW f \in waiting'
               PROVE  /\ f.version <= managed.version
                      /\ f.write < next
                      /\ Running(f.write) => f.version <= taken[f.write].version
    BY <1>1, <1>2 DEF FlushInv, Running, chainVars
  <2>1. CASE f \in waiting
    BY <2>1 DEF FlushInv
  <2>2. CASE f \notin waiting
    <3>1. f.version = managed.version /\ f.write = tail
      BY <1>1, <2>2
    <3>2. next \in Nat /\ tail \in Nat /\ tail = next - 1
      BY <1>1 DEF FlushInFlight, ChainInv, TypeOK, Write
    <3>3. Running(tail) => taken[tail].version = managed.version
      BY <1>1 DEF VersionInv, FlushInFlight
    <3> QED
      BY <1>1, <3>1, <3>2, <3>3
  <2> QED
    BY <2>1, <2>2
<1> QED
  BY <1>3, <1>4

\* A new process starts from the file.
LEMMA CrashStep == ASSUME IInv, Crash PROVE IInv'
<1> USE DEF IInv
<1>1. file \in Stored /\ file.version \in Nat
  BY DEF VersionInv, Stored
<1>2. TypeOK'
  <2>1. 1 \in 1..(MaxWrite + 1) /\ crashes' \in Nat
    BY QueueBounds DEF Crash, TypeOK
  <2>2. /\ phase' \in [Write -> {"unborn", "waiting", "tmp", "rename", "done"}]
        /\ after' \in [Write -> Write \union {NoWrite}]
        /\ taken' \in [Write -> Stored \union {Nothing}]
    BY DEF Crash
  <2> QED
    BY <1>1, <2>1, <2>2 DEF Crash, TypeOK, diskVars
<1>3. ChainInv'
  BY QueueBounds DEF Crash, ChainInv, Write, NoWrite
<1>4. \A w \in Write : ~Running(w)'
  BY DEF Crash, Running
<1>5. VersionInv'
  BY <1>1, <1>4 DEF Crash, VersionInv, diskVars
<1>6. FlushInv' /\ PromiseInv' /\ dir'
  BY DEF Crash, FlushInv, PromiseInv, diskVars
<1> QED
  BY <1>2, <1>3, <1>5, <1>6

-----------------------------------------------------------------------------
(* The writes *)

\* A write starts: it takes the entry, which is the last version, and is alone.
LEMMA StartWriteStep ==
  ASSUME IInv, NEW w \in Write, StartWrite(w) PROVE IInv'
<1> USE DEF IInv
<1>1. /\ pending \in Stored /\ pending.version = managed.version
      /\ managed.version \in Nat
  BY DEF StartWrite, OpenFile, TypeOK, VersionInv, Stored
<1>2. /\ Merged(pending) \in Stored /\ Merged(pending).version = managed.version
      /\ Merged(pending).meta \in Meta
  <2>1. Merged(pending) \in Stored /\ Merged(pending).version = pending.version
    BY <1>1, MergedFacts DEF VersionInv
  <2> QED
    BY <1>1, <2>1 DEF Stored
<1>3. /\ Ready(w) /\ pending' = Nothing /\ timer' = FALSE
      /\ \A x \in Write : phase'[x] = IF x = w THEN "tmp" ELSE phase[x]
      /\ \A x \in Write : taken'[x] = IF x = w THEN Merged(pending) ELSE taken[x]
      /\ dir' = TRUE /\ tmp' = Partial
      /\ UNCHANGED <<managed, next, after, tail, waiting, file, historyVars>>
  BY DEF StartWrite, OpenFile, TypeOK
<1>4. TypeOK'
  BY <1>2 DEF StartWrite, OpenFile, TypeOK, historyVars
<1>5. ChainInv'
  <2>1. w < next /\ \A x \in Write : x < w => phase[x] = "done"
    BY <1>3, EarlierDone
  <2>2. phase[w] = "waiting" /\ next \in Nat /\ w \in Nat
    BY <1>3 DEF Ready, TypeOK, Write
  <2>3. \A x, y \in Write : x < next /\ y < x /\ (after[x] = NoWrite \/ phase'[x] # "waiting")
          => phase'[y] = "done"
    <3> SUFFICES ASSUME NEW x \in Write, NEW y \in Write, x < next, y < x,
                        after[x] = NoWrite \/ phase'[x] # "waiting"
                 PROVE  phase'[y] = "done"
      OBVIOUS
    <3>1. x \in Nat /\ y \in Nat
      BY DEF Write
    <3>2. phase[y] = "done"
      BY <1>3, <2>1, <3>1 DEF ChainInv
    <3> QED
      BY <1>3, <2>2, <3>2
  <2>4. (\A x \in Write : phase[x] = "unborn" <=> x >= next)'
    BY <1>3, <2>2 DEF ChainInv
  <2>5. (tail # NoWrite => tail = next - 1 /\ phase[tail] # "done")'
    BY <1>3 DEF ChainInv, TypeOK
  <2>6. (tail = NoWrite => \A x \in Write : x < next => phase[x] = "done")'
    BY <1>3, <2>1, <2>2 DEF ChainInv
  <2> QED
    BY <1>3, <2>3, <2>4, <2>5, <2>6 DEF ChainInv
<1>6. \A x \in Write : Running(x)' <=> x = w
  <2>1. \A x \in Write : Running(x) => x = w
    BY <1>3, OneRuns
  <2> QED
    BY <1>3, <2>1 DEF Running
<1>7. VersionInv'
  <2>1. file.version <= managed.version /\ file \in Stored
    BY DEF VersionInv
  <2>2. phase'[w] = "tmp" /\ taken'[w] = Merged(pending)
    BY <1>3
  <2> QED
    BY <1>1, <1>2, <1>3, <1>6, <2>1, <2>2 DEF VersionInv
<1>8. FlushInv'
  <2> SUFFICES ASSUME NEW f \in waiting
               PROVE  /\ f.version <= managed.version
                      /\ f.write < next
                      /\ Running(f.write)' => f.version <= taken'[f.write].version
    BY <1>3 DEF FlushInv
  <2>1. f.version <= managed.version /\ f.write < next /\ f.write \in Write
    BY DEF FlushInv, TypeOK
  <2> QED
    BY <1>2, <1>3, <1>6, <2>1
<1>9. PromiseInv' /\ dir'
  BY <1>3 DEF PromiseInv, historyVars
<1> QED
  BY <1>4, <1>5, <1>7, <1>8, <1>9

\* What the callers of a write that settles are told, when the version written is
\* on disk, and the callers of other writes.
LEMMA SettleFlush ==
  ASSUME IInv, NEW w \in Write, Ready(w) \/ Running(w), Settle(w),
         managed' = managed, file' \in Stored, file.version <= file'.version,
         fails' = fails,
         fails = 0 => \A f \in waiting : f.write = w => f.version <= file'.version
  PROVE  FlushInv' /\ PromiseInv'
<1> USE DEF IInv
<1>1. /\ next' = next /\ waiting' \subseteq waiting /\ promised' \in Nat
      /\ \A x \in Write : ~Running(x)'
  BY SettleChain
<1>2. FlushInv'
  BY <1>1 DEF FlushInv, TypeOK
<1>3. PromiseInv'
  <2> SUFFICES ASSUME fails = 0 PROVE promised' <= file'.version
    BY DEF PromiseInv
  <2>1. CASE promised' = promised
    <3>1. promised <= file.version /\ promised \in Nat
      BY DEF PromiseInv, TypeOK
    <3>2. file.version \in Nat /\ file'.version \in Nat
      BY DEF VersionInv, Stored
    <3> QED
      BY <2>1, <3>1, <3>2
  <2>2. CASE \E f \in waiting : f.write = w /\ promised' = f.version
    BY <2>2
  <2> QED
    BY <2>1, <2>2 DEF Settle, Told, TailAfter
<1> QED
  BY <1>2, <1>3

\* A write with nothing to take: the last version is on disk.
LEMMA SkipWriteStep ==
  ASSUME IInv, NEW w \in Write, SkipWrite(w) PROVE IInv'
<1> USE DEF IInv
<1>1. /\ Ready(w) /\ pending = Nothing /\ Settle(w)
      /\ UNCHANGED <<managed, pending, timer, lastWrittenHeaderSignature, diskVars, fails,
                     crashes>>
  BY DEF SkipWrite
<1>2. /\ ChainInv' /\ next' = next
      /\ phase' \in [Write -> {"unborn", "waiting", "tmp", "rename", "done"}]
      /\ after' \in [Write -> Write \union {NoWrite}]
      /\ taken' \in [Write -> Stored \union {Nothing}]
      /\ tail' \in Write \union {NoWrite}
      /\ waiting' \subseteq waiting /\ promised' \in Nat
      /\ \A x \in Write : ~Running(x)'
  BY <1>1, SettleChain
<1>3. TypeOK'
  BY <1>1, <1>2 DEF TypeOK, diskVars
<1>4. \A x \in Write : ~Running(x)
  BY <1>1, OneRuns DEF Running, Ready
<1>5. fails = 0 => file.version = managed.version
  BY <1>1, <1>4 DEF VersionInv
<1>6. VersionInv'
  BY <1>1, <1>2, <1>5 DEF VersionInv, diskVars
<1>7. FlushInv' /\ PromiseInv'
  <2>1. file' = file /\ file \in Stored /\ file.version \in Nat
    BY <1>1 DEF VersionInv, Stored, diskVars
  <2>2. fails = 0 => \A f \in waiting : f.write = w => f.version <= file.version
    BY <1>5 DEF FlushInv
  <2> QED
    BY <1>1, <2>1, <2>2, SettleFlush
<1> QED
  BY <1>1, <1>2, <1>3, <1>6, <1>7 DEF diskVars

\* The temporary file is complete, and of this write alone.
LEMMA FinishTmpStep ==
  ASSUME IInv, NEW w \in Write, FinishTmp(w) PROVE IInv'
<1> USE DEF IInv
<1>1. /\ phase[w] = "tmp" /\ Running(w)
      /\ \A x \in Write : phase'[x] = IF x = w THEN "rename" ELSE phase[x]
      /\ UNCHANGED <<managed, pending, timer, next, after, taken, tail,
                     lastWrittenHeaderSignature, waiting, dir, file, historyVars>>
  BY DEF FinishTmp, TypeOK, Running
<1>2. \A x \in Write : Running(x) <=> x = w
  BY <1>1, OneRuns
<1>3. tmp' = taken[w] /\ taken[w] \in Stored
  BY <1>1, <1>2 DEF FinishTmp, VersionInv, Running
<1>4. \A x \in Write : Running(x)' <=> x = w
  BY <1>1, <1>2 DEF Running
<1>5. TypeOK'
  BY <1>1, <1>3 DEF FinishTmp, TypeOK, historyVars
<1>6. ChainInv'
  <2>1. \A x \in Write : /\ phase'[x] = "unborn" <=> phase[x] = "unborn"
                         /\ phase'[x] = "waiting" <=> phase[x] = "waiting"
                         /\ phase'[x] = "done" <=> phase[x] = "done"
    BY <1>1
  <2>2. next' = next /\ after' = after /\ tail' = tail /\ tail \in Write \union {NoWrite}
    BY <1>1 DEF TypeOK
  <2> QED
    BY <2>1, <2>2 DEF ChainInv
<1>7. VersionInv'
  BY <1>1, <1>2, <1>3, <1>4 DEF VersionInv
<1>8. FlushInv'
  BY <1>1, <1>2, <1>4 DEF FlushInv, TypeOK
<1>9. PromiseInv' /\ dir'
  BY <1>1 DEF PromiseInv, historyVars
<1> QED
  BY <1>5, <1>6, <1>7, <1>8, <1>9

\* The rename puts what was written in place.
LEMMA RenameStep ==
  ASSUME IInv, NEW w \in Write, Rename(w) PROVE IInv'
<1> USE DEF IInv
<1>1. /\ phase[w] = "rename" /\ Running(w) /\ Settle(w) /\ file' = tmp /\ tmp' = Nothing
      /\ UNCHANGED <<managed, pending, timer, lastWrittenHeaderSignature, dir, fails, crashes>>
  BY DEF Rename, Running
<1>2. /\ ChainInv' /\ next' = next
      /\ phase' \in [Write -> {"unborn", "waiting", "tmp", "rename", "done"}]
      /\ after' \in [Write -> Write \union {NoWrite}]
      /\ taken' \in [Write -> Stored \union {Nothing}]
      /\ tail' \in Write \union {NoWrite}
      /\ waiting' \subseteq waiting /\ promised' \in Nat
      /\ \A x \in Write : ~Running(x)'
  BY <1>1, SettleChain
<1>3. /\ file' = taken[w] /\ file' \in Stored
      /\ file.version <= file'.version /\ file'.version <= managed.version
      /\ pending = Nothing => file'.version = managed.version
  BY <1>1 DEF VersionInv
<1>4. TypeOK'
  BY <1>1, <1>2, <1>3 DEF TypeOK
<1>5. VersionInv'
  BY <1>1, <1>2, <1>3 DEF VersionInv
<1>6. FlushInv' /\ PromiseInv'
  <2>1. \A f \in waiting : f.write = w => f.version <= file'.version
    BY <1>1, <1>3 DEF FlushInv
  <2> QED
    BY <1>1, <1>3, <2>1, SettleFlush
<1> QED
  BY <1>1, <1>2, <1>4, <1>5, <1>6

\* A write fails: nothing is claimed of what it was to save.
LEMMA FailWriteStep ==
  ASSUME IInv, NEW w \in Write, FailWrite(w) PROVE IInv'
<1> USE DEF IInv
<1>1. /\ Running(w) /\ Settle(w) /\ fails' = fails + 1
      /\ UNCHANGED <<managed, pending, timer, lastWrittenHeaderSignature, diskVars, crashes>>
  BY DEF FailWrite, Running
<1>2. /\ ChainInv' /\ next' = next
      /\ phase' \in [Write -> {"unborn", "waiting", "tmp", "rename", "done"}]
      /\ after' \in [Write -> Write \union {NoWrite}]
      /\ taken' \in [Write -> Stored \union {Nothing}]
      /\ tail' \in Write \union {NoWrite}
      /\ waiting' \subseteq waiting /\ promised' \in Nat
      /\ \A x \in Write : ~Running(x)'
  BY <1>1, SettleChain
<1>3. fails' \in Nat /\ fails' # 0
  BY <1>1 DEF TypeOK
<1>4. TypeOK'
  BY <1>1, <1>2, <1>3 DEF TypeOK, diskVars
<1>5. VersionInv'
  BY <1>1, <1>2, <1>3 DEF VersionInv, diskVars
<1>6. FlushInv' /\ PromiseInv' /\ dir'
  BY <1>1, <1>2, <1>3 DEF FlushInv, PromiseInv, TypeOK, diskVars
<1> QED
  BY <1>2, <1>4, <1>5, <1>6

-----------------------------------------------------------------------------
(* The theorems *)

\* A step that changes nothing.
LEMMA StutterStep == ASSUME IInv, UNCHANGED saveVars PROVE IInv'
BY DEF IInv, TypeOK, ChainInv, VersionInv, FlushInv, PromiseInv, Running, saveVars, queueVars,
       chainVars, diskVars, historyVars

\* Every step keeps the invariant.
LEMMA NextInv == ASSUME IInv, [SaveNext]_saveVars PROVE IInv'
<1>1. CASE SaveLater
  BY <1>1, SaveLaterStep
<1>2. CASE SaveNow
  BY <1>2, SaveNowStep
<1>3. CASE FlushInFlight
  BY <1>3, FlushInFlightStep
<1>4. CASE TimerFires
  BY <1>4, TimerFiresStep
<1>5. CASE Crash
  BY <1>5, CrashStep
<1>6. CASE \E meta \in Meta : UpdateMetadata(meta)
  BY <1>6, UpdateMetadataStep
<1>7. CASE \E w \in Write : QueueStep(w)
  BY <1>7, StartWriteStep, SkipWriteStep, FinishTmpStep, RenameStep DEF QueueStep
<1>8. CASE \E w \in Write : FailWrite(w)
  BY <1>8, FailWriteStep
<1>9. CASE UNCHANGED saveVars
  BY <1>9, StutterStep
<1> QED
  BY <1>1, <1>2, <1>3, <1>4, <1>5, <1>6, <1>7, <1>8, <1>9 DEF SaveNext

\* The invariant holds in every behaviour.
LEMMA Invariance == SaveSpec => []IInv
<1>1. Init => IInv
  BY InitInv
<1>2. IInv /\ [SaveNext]_saveVars => IInv'
  BY NextInv
<1> QED
  BY <1>1, <1>2, PTL DEF SaveSpec

\* The state of the queue, of the session and of its file keep their types.
THEOREM QueueTypes == SaveSpec => []TypeOK
<1>1. IInv => TypeOK
  BY DEF IInv
<1> QED
  BY <1>1, Invariance, PTL

\* However saves, flushes, timers, failures and crashes interleave, two writes
\* are never inside the temporary file at once: the chain serialises them, and
\* is dropped only by the write that is its tail.
THEOREM WritesAreSerial == SaveSpec => []OneWriter
<1>1. IInv => OneWriter
  <2> SUFFICES ASSUME IInv, NEW w \in Write, NEW x \in Write, Running(w), Running(x)
               PROVE  w = x
    BY DEF OneWriter, Running
  <2> QED
    BY OneRuns DEF IInv
<1> QED
  BY <1>1, Invariance, PTL

\* session.jsonl is always a session written to its end: what is renamed over it
\* was complete.
THEOREM FileStaysWhole == SaveSpec => []FileIsWhole
<1>1. IInv => FileIsWhole
  BY StoredFacts DEF IInv, VersionInv, FileIsWhole
<1> QED
  BY <1>1, Invariance, PTL

\* What a flush reported as saved is on disk, as long as the disk refuses nothing.
THEOREM FlushedIsSaved == SaveSpec => []PromisedIsSaved
<1>1. IInv => PromisedIsSaved
  <2>1. IInv => file # Nothing
    BY StoredFacts DEF IInv, VersionInv
  <2> QED
    BY <2>1 DEF IInv, PromiseInv, PromisedIsSaved
<1> QED
  BY <1>1, Invariance, PTL

\* The queue implements DurableFile, on a disk that refuses writes too: what is
\* stored only moves forward to what is held, and no step takes back a promise
\* that stands.
THEOREM QueueIsDurable == SaveSpec => DurableSpec
<1> USE DEF Durable!DurableInit, Durable!DurableNext, Durable!Change, Durable!Save,
            Durable!Reload, Durable!durableVars
<1>1. Init => Durable!DurableInit
  BY DEF Init, NewSession, Kept
<1>2. IInv /\ IInv' /\ [SaveNext]_saveVars
        => [Durable!DurableNext]_(Durable!durableVars)
  <2> SUFFICES ASSUME IInv, IInv', [SaveNext]_saveVars
               PROVE  [Durable!DurableNext]_(Durable!durableVars)
    OBVIOUS
  <2>0. /\ managed.version \in Nat /\ file.version \in Nat /\ file'.version \in Nat
        /\ promised \in Nat /\ promised' \in Nat /\ managed \in Stored
        /\ fails \in Nat /\ Kept \in Nat /\ Kept' \in Nat
    BY DEF IInv, TypeOK, VersionInv, Stored, Kept
  <2>1. ASSUME managed'.version = managed.version + 1, UNCHANGED <<file, promised, fails>>
        PROVE  Durable!Change
    BY <2>0, <2>1 DEF Kept
  <2>2. Kept <= file.version /\ Kept' <= file'.version
    BY <2>0 DEF IInv, PromiseInv, Kept
  \* A write that settles, whether it landed, was refused or had nothing to write.
  <2>3. ASSUME NEW w \in Write, Settle(w), managed' = managed, file.version <= file'.version,
               fails' = fails \/ fails' = fails + 1
        PROVE  Durable!Save
    <3>1. file'.version <= managed.version
      BY <2>3 DEF IInv, VersionInv
    <3>2. promised <= promised'
      BY <2>3 DEF Settle, Told, TailAfter
    <3>3. Kept <= Kept'
      <4>1. CASE fails' = 0
        BY <2>0, <2>3, <3>2, <4>1 DEF Kept
      <4>2. CASE fails' # 0
        <5>1. Kept' = file'.version
          BY <4>2 DEF Kept
        <5> QED
          BY <2>0, <2>2, <2>3, <5>1
      <4> QED
        BY <4>1, <4>2
    <3> QED
      BY <2>0, <2>2, <2>3, <3>1, <3>3
  <2>4. CASE SaveLater \/ SaveNow
    BY <2>0, <2>1, <2>4, ChangedFacts
       DEF SaveLater, SaveNow, PersistSession, FlushSession, diskVars, historyVars
  <2>5. ASSUME NEW meta \in Meta, UpdateMetadata(meta) PROVE Durable!Change
    <3>1. managed' = [Changed EXCEPT !.meta = meta] /\ UNCHANGED <<file, promised, fails>>
      BY <2>5 DEF UpdateMetadata, FlushSession, diskVars, historyVars
    <3> QED
      BY <2>0, <2>1, <3>1, ChangedFacts
  <2>6. CASE FlushInFlight \/ TimerFires
    BY <2>6 DEF FlushInFlight, TimerFires, diskVars, historyVars, Kept
  <2>7. CASE Crash
    BY <2>7 DEF Crash, diskVars, Kept
  <2>8. ASSUME NEW w \in Write, StartWrite(w) \/ FinishTmp(w)
        PROVE  UNCHANGED Durable!durableVars
    BY <2>8 DEF StartWrite, OpenFile, FinishTmp, historyVars, Kept
  <2>9. ASSUME NEW w \in Write, SkipWrite(w) \/ FailWrite(w) PROVE Durable!Save
    BY <2>0, <2>3, <2>9 DEF SkipWrite, FailWrite, diskVars
  <2>10. ASSUME NEW w \in Write, Rename(w) PROVE Durable!Save
    <3>1. file.version <= file'.version
      BY <2>10 DEF Rename, IInv, VersionInv, Running
    <3> QED
      BY <2>3, <2>10, <3>1 DEF Rename
  <2>11. CASE UNCHANGED saveVars
    BY <2>11 DEF saveVars, diskVars, historyVars, Kept
  <2> QED
    BY <2>4, <2>5, <2>6, <2>7, <2>8, <2>9, <2>10, <2>11 DEF SaveNext, QueueStep
<1> QED
  BY <1>1, <1>2, Invariance, PTL DEF SaveSpec, DurableSpec, Durable!DurableSpec

-----------------------------------------------------------------------------
(* Nothing is forgotten *)

\* The writes that have settled are the first ones.
PrefixInv == \E h \in 1..(MaxWrite + 1) : \A w \in Write : phase[w] = "done" <=> w < h

\* An entry has its timer or a write that is still to start, and a flush waits for a
\* write that has not settled.
WorkInv ==
  /\ PrefixInv
  /\ pending # Nothing => timer \/ \E w \in Write : phase[w] = "waiting"
  /\ \A f \in waiting : phase[f.write] \in {"waiting", "tmp", "rename"}

\* Unless the disk refused something: what the entry, the running write and at last the
\* file hold is what the server holds, and the header on disk is the process's own.
ContentInv ==
  fails = 0 =>
    /\ pending # Nothing => pending = managed
    /\ \A w \in Write : Running(w) =>
         /\ lastWrittenHeaderSignature = {taken[w].meta}
         /\ pending = Nothing => taken[w] = managed
    /\ (\A w \in Write : ~Running(w)) =>
         /\ lastWrittenHeaderSignature \subseteq {file.meta}
         /\ pending = Nothing => file = managed

\* A chain with a write that has not started moves: the first write that has not
\* settled runs, or waits for none or for one that has.
LEMMA ChainMoves ==
  ASSUME TypeOK, ChainInv, PrefixInv, NEW w \in Write, phase[w] = "waiting"
  PROVE  Moving
<1>1. PICK h \in 1..(MaxWrite + 1) : \A x \in Write : phase[x] = "done" <=> x < h
  BY DEF PrefixInv
<1>2. next \in Int /\ h \in Int /\ MaxWrite \in Int /\ Write = 1..MaxWrite
  BY QueueBounds DEF TypeOK, Write
<1>3. w < next /\ h <= w
  BY <1>1, <1>2 DEF ChainInv
<1>4. h \in Write /\ h < next
  BY <1>2, <1>3
<1>5. phase[h] \in {"waiting", "tmp", "rename"}
  BY <1>1, <1>2, <1>4 DEF ChainInv, TypeOK
<1>6. CASE phase[h] = "waiting" /\ after[h] # NoWrite
  <2>1. after[h] = h - 1 /\ h - 1 \in Write
    BY <1>4, <1>6 DEF ChainInv, TypeOK
  <2>2. phase[h - 1] = "done"
    BY <1>1, <1>2, <2>1
  <2> QED
    BY <1>4, <1>6, <2>1, <2>2 DEF Moving, Ready
<1>7. CASE phase[h] = "waiting" /\ after[h] = NoWrite
  BY <1>4, <1>7 DEF Moving, Ready
<1>8. CASE phase[h] \in {"tmp", "rename"}
  BY <1>4, <1>8 DEF Moving
<1> QED
  BY <1>5, <1>6, <1>7, <1>8

\* A write settles after all before it.
LEMMA SettlePrefix ==
  ASSUME TypeOK, ChainInv, PrefixInv, NEW w \in Write, Ready(w) \/ Running(w),
         phase' = [phase EXCEPT ![w] = "done"]
  PROVE  PrefixInv'
<1>1. PICK h \in 1..(MaxWrite + 1) : \A x \in Write : phase[x] = "done" <=> x < h
  BY DEF PrefixInv
<1>2. h \in Int /\ MaxWrite \in Int /\ Write = 1..MaxWrite /\ w \in Int
  BY QueueBounds DEF Write
<1>3. phase[w] # "done" /\ \A x \in Write : x < w => phase[x] = "done"
  BY EarlierDone DEF Ready, Running
<1>4. h <= w
  BY <1>1, <1>2, <1>3
<1>5. h = w
  <2> SUFFICES ASSUME h < w PROVE FALSE
    BY <1>2, <1>4
  <2>1. h \in Write
    BY <1>2
  <2>2. phase[h] = "done"
    BY <1>3, <2>1
  <2> QED
    BY <1>1, <1>2, <2>1, <2>2
<1>6. \A x \in Write : phase'[x] = IF x = w THEN "done" ELSE phase[x]
  BY DEF TypeOK
<1>7. \A x \in Write : phase'[x] = "done" <=> x < w + 1
  BY <1>1, <1>2, <1>5, <1>6
<1>8. w + 1 \in 1..(MaxWrite + 1)
  BY <1>2
<1> QED
  BY <1>7, <1>8 DEF PrefixInv

\* The writes that settled stay the first ones where none settles.
LEMMA SamePrefix ==
  ASSUME PrefixInv, \A w \in Write : phase'[w] = "done" <=> phase[w] = "done"
  PROVE  PrefixInv'
BY DEF PrefixInv

LEMMA InitWork == Init => WorkInv /\ ContentInv
<1> SUFFICES ASSUME Init PROVE WorkInv /\ ContentInv
  OBVIOUS
<1>1. 1 \in 1..(MaxWrite + 1) /\ \A w \in Write : phase[w] = "unborn" /\ ~(w < 1)
  BY QueueBounds DEF Init, Write
<1>2. PrefixInv
  <2>1. \A w \in Write : phase[w] = "done" <=> w < 1
    BY <1>1
  <2> QED
    BY <1>1, <2>1 DEF PrefixInv
<1>3. WorkInv
  BY <1>2 DEF Init, WorkInv
<1>4. ContentInv
  BY DEF Init, ContentInv, Running, NewSession
<1> QED
  BY <1>3, <1>4

\* A write that is scheduled is waited for, and the entry has it to come.
LEMMA ScheduleWork ==
  ASSUME IInv, WorkInv, NEW await \in SUBSET Nat, Schedule(await)
  PROVE  WorkInv'
<1> USE DEF IInv
<1>1. next \in Write /\ phase[next] = "unborn"
  BY ScheduleChain, QueueBounds DEF ChainInv, TypeOK, Write
<1>2. \A w \in Write : phase'[w] = IF w = next THEN "waiting" ELSE phase[w]
  BY <1>1 DEF TypeOK, Schedule
<1>3. PrefixInv'
  BY <1>1, <1>2, SamePrefix DEF WorkInv
<1>4. \A f \in waiting' : phase'[f.write] \in {"waiting", "tmp", "rename"}
  <2> SUFFICES ASSUME NEW f \in waiting'
               PROVE  phase'[f.write] \in {"waiting", "tmp", "rename"}
    OBVIOUS
  <2>1. f.write \in Write
    BY ScheduleChain
  <2>2. f \in waiting \/ f.write = next
    BY DEF Schedule
  <2> QED
    BY <1>2, <2>1, <2>2 DEF WorkInv
<1>5. \E w \in Write : phase'[w] = "waiting"
  BY <1>1, <1>2
<1> QED
  BY <1>3, <1>4, <1>5 DEF WorkInv

\* A write that settles took the entry with it, or there was none, and its flushes go on.
LEMMA SettleWork ==
  ASSUME IInv, WorkInv, NEW w \in Write, Ready(w) \/ Running(w), Settle(w),
         UNCHANGED <<pending, timer>>, pending # Nothing => Running(w)
  PROVE  WorkInv'
<1> USE DEF IInv
<1>1. \A x \in Write : phase'[x] = IF x = w THEN "done" ELSE phase[x]
  BY DEF TypeOK, Settle
<1>2. PrefixInv'
  BY SettlePrefix DEF Settle, WorkInv
<1>3. pending' # Nothing => timer' \/ \E x \in Write : phase'[x] = "waiting"
  <2>1. Running(w) => phase[w] # "waiting"
    BY DEF Running
  <2> QED
    BY <1>1, <2>1 DEF WorkInv
<1>4. \A f \in waiting' : phase'[f.write] \in {"waiting", "tmp", "rename"}
  <2> SUFFICES ASSUME NEW f \in waiting'
               PROVE  phase'[f.write] \in {"waiting", "tmp", "rename"}
    OBVIOUS
  <2>1. f \in waiting /\ f.write # w /\ f.write \in Write
    BY DEF Settle, TypeOK
  <2> QED
    BY <1>1, <2>1 DEF WorkInv
<1> QED
  BY <1>2, <1>3, <1>4 DEF WorkInv

\* Every step leaves what is to be written with somebody who will write it.
LEMMA StepWork ==
  ASSUME IInv, WorkInv, [SaveNext]_saveVars
  PROVE  WorkInv'
<1> USE DEF IInv
<1>1. CASE SaveLater
  <2>1. timer' /\ UNCHANGED <<phase, waiting>>
    BY <1>1 DEF SaveLater, PersistSession, Enqueue, chainVars
  <2>2. PrefixInv'
    BY <2>1, SamePrefix DEF WorkInv
  <2> QED
    BY <2>1, <2>2 DEF WorkInv
<1>2. CASE SaveNow \/ \E meta \in Meta : UpdateMetadata(meta)
  <2>1. PICK session \in Stored : FlushSession(session)
    BY <1>2, ChangedFacts DEF SaveNow, UpdateMetadata, TypeOK
  <2>2. Schedule({session.version}) /\ session.version \in Nat
    BY <2>1, StoredFacts DEF FlushSession, Flush, Stored
  <2> QED
    BY <2>2, ScheduleWork
<1>3. CASE FlushInFlight
  <2>1. tail \in Write /\ pending = Nothing
        /\ UNCHANGED <<phase, pending, timer>>
        /\ waiting' = waiting \union [version : {managed.version}, write : {tail}]
    BY <1>3 DEF FlushInFlight, Flush, chainVars, TypeOK
  <2>2. phase[tail] \in {"waiting", "tmp", "rename"}
    <3>1. tail = next - 1 /\ phase[tail] # "done"
      BY <1>3 DEF FlushInFlight, ChainInv
    <3>2. next \in Int /\ tail \in Int
      BY <2>1, QueueBounds DEF TypeOK, Write
    <3>3. phase[tail] # "unborn"
      BY <2>1, <3>1, <3>2 DEF ChainInv
    <3> QED
      BY <2>1, <3>1, <3>3 DEF TypeOK
  <2>3. PrefixInv'
    BY <2>1, SamePrefix DEF WorkInv
  <2> QED
    BY <2>1, <2>2, <2>3 DEF WorkInv
<1>4. CASE TimerFires
  BY <1>4, ScheduleWork DEF TimerFires
<1>5. CASE Crash
  <2>1. 1 \in 1..(MaxWrite + 1) /\ \A w \in Write : phase'[w] = "unborn" /\ ~(w < 1)
    BY <1>5, QueueBounds DEF Crash, Write
  <2>2. \A w \in Write : phase'[w] = "done" <=> w < 1
    BY <2>1
  <2> QED
    BY <1>5, <2>1, <2>2 DEF Crash, WorkInv, PrefixInv
<1>6. ASSUME NEW w \in Write, StartWrite(w) \/ FinishTmp(w) PROVE WorkInv'
  <2>1. /\ \A x \in Write \ {w} : phase'[x] = phase[x]
        /\ phase[w] \in {"waiting", "tmp"} /\ phase'[w] \in {"tmp", "rename"}
        /\ phase[w] # "waiting" \/ pending' = Nothing
        /\ pending' # Nothing => UNCHANGED <<pending, timer>>
        /\ UNCHANGED waiting
    BY <1>6 DEF StartWrite, FinishTmp, Ready, TypeOK
  <2>2. PrefixInv'
    BY <2>1, SamePrefix DEF WorkInv
  <2>3. pending' # Nothing => timer' \/ \E x \in Write : phase'[x] = "waiting"
    BY <2>1 DEF WorkInv
  <2>4. \A f \in waiting' : f.write \in Write
    BY <2>1 DEF TypeOK
  <2> QED
    BY <2>1, <2>2, <2>3, <2>4 DEF WorkInv
<1>7. ASSUME NEW w \in Write, SkipWrite(w) \/ Rename(w) \/ FailWrite(w) PROVE WorkInv'
  <2>1. /\ Ready(w) \/ Running(w)
        /\ Settle(w) /\ UNCHANGED <<pending, timer>>
        /\ pending # Nothing => Running(w)
    BY <1>7 DEF SkipWrite, Rename, FailWrite, Running
  <2> QED
    BY <2>1, SettleWork
<1>8. CASE UNCHANGED saveVars
  <2>1. UNCHANGED <<pending, timer, phase, waiting>>
    BY <1>8 DEF saveVars, queueVars, chainVars
  <2>2. PrefixInv'
    BY <2>1, SamePrefix DEF WorkInv
  <2> QED
    BY <2>1, <2>2 DEF WorkInv
<1> QED
  BY <1>1, <1>2, <1>3, <1>4, <1>5, <1>6, <1>7, <1>8 DEF SaveNext, QueueStep

\* A save leaves the change in the entry, whatever runs.
LEMMA SaveContent ==
  ASSUME ContentInv, NEW session \in Stored, managed' = session, pending' = session,
         UNCHANGED <<taken, lastWrittenHeaderSignature, file, fails>>,
         \A w \in Write : Running(w)' <=> Running(w)
  PROVE  ContentInv'
<1>1. session # Nothing
  BY StoredFacts
<1> QED
  BY <1>1 DEF ContentInv

\* Every step passes what the server holds on: from the entry to the write that takes it,
\* which merges nothing from a header this process wrote, and from there to the file.
LEMMA StepContent ==
  ASSUME IInv, ContentInv, [SaveNext]_saveVars
  PROVE  ContentInv'
<1> USE DEF IInv
<1>1. CASE SaveLater
  <2>1. PICK session \in Stored : PersistSession(session)
    BY <1>1, ChangedFacts DEF SaveLater, TypeOK
  <2>2. \A w \in Write : Running(w)' <=> Running(w)
    BY <2>1 DEF PersistSession, chainVars, Running
  <2> QED
    BY <2>1, <2>2, SaveContent DEF PersistSession, Enqueue, diskVars, historyVars
<1>2. CASE SaveNow \/ \E meta \in Meta : UpdateMetadata(meta)
  <2>1. PICK session \in Stored : FlushSession(session)
    BY <1>2, ChangedFacts DEF SaveNow, UpdateMetadata, TypeOK
  <2>2. Schedule({session.version}) /\ session.version \in Nat
    BY <2>1, StoredFacts DEF FlushSession, Flush, Stored
  <2>3. \A w \in Write : Running(w)' <=> Running(w)
    BY <2>2, ScheduleChain
  <2> QED
    BY <2>1, <2>3, SaveContent DEF FlushSession, Enqueue, diskVars, historyVars
<1>3. CASE FlushInFlight
  <2>1. UNCHANGED <<managed, pending, phase, taken, lastWrittenHeaderSignature, file, fails>>
    BY <1>3 DEF FlushInFlight, Flush, chainVars, diskVars, historyVars
  <2> QED
    BY <2>1 DEF ContentInv, Running
<1>4. CASE TimerFires
  <2>1. \A w \in Write : Running(w)' <=> Running(w)
    BY <1>4, ScheduleChain DEF TimerFires
  <2>2. UNCHANGED <<managed, pending, taken, lastWrittenHeaderSignature, file, fails>>
    BY <1>4 DEF TimerFires, diskVars, historyVars
  <2> QED
    BY <2>1, <2>2 DEF ContentInv
<1>5. CASE Crash
  BY <1>5 DEF Crash, ContentInv, Running, diskVars
<1>6. ASSUME NEW w \in Write, StartWrite(w) PROVE ContentInv'
  <2>1. \A x \in Write : ~Running(x)
    BY <1>6, OneRuns DEF StartWrite, Ready, Running
  <2>2. /\ \A x \in Write : Running(x)' <=> x = w
        /\ taken'[w] = Merged(pending)
    BY <1>6, <2>1 DEF StartWrite, Running, TypeOK
  <2>3. pending' = Nothing /\ lastWrittenHeaderSignature' = {Merged(pending).meta}
        /\ UNCHANGED <<managed, fails>> /\ pending # Nothing
    BY <1>6 DEF StartWrite, historyVars
  <2>4. fails = 0 => pending = managed /\ lastWrittenHeaderSignature \subseteq {file.meta}
    BY <2>1, <2>3 DEF ContentInv
  <2>5. fails = 0 => Merged(pending) = managed
    BY <2>4 DEF Merged
  <2> QED
    BY <2>2, <2>3, <2>5 DEF ContentInv
<1>7. ASSUME NEW w \in Write, SkipWrite(w) PROVE ContentInv'
  <2>1. \A x \in Write : ~Running(x)
    BY <1>7, OneRuns DEF SkipWrite, Ready, Running
  <2>2. \A x \in Write : ~Running(x)'
    BY <1>7, SettleChain DEF SkipWrite
  <2>3. UNCHANGED <<managed, pending, lastWrittenHeaderSignature, file, fails>>
    BY <1>7 DEF SkipWrite, diskVars
  <2> QED
    BY <2>1, <2>2, <2>3 DEF ContentInv
<1>8. ASSUME NEW w \in Write, FinishTmp(w) PROVE ContentInv'
  <2>1. \A x \in Write : Running(x)' <=> Running(x)
    BY <1>8 DEF FinishTmp, Running, TypeOK
  <2>2. UNCHANGED <<managed, pending, taken, lastWrittenHeaderSignature, file, fails>>
    BY <1>8 DEF FinishTmp, historyVars
  <2> QED
    BY <2>1, <2>2 DEF ContentInv
<1>9. ASSUME NEW w \in Write, Rename(w) PROVE ContentInv'
  <2>1. Running(w) /\ phase[w] = "rename"
    BY <1>9 DEF Rename, Running
  <2>2. file' = taken[w] /\ UNCHANGED <<managed, pending, lastWrittenHeaderSignature, fails>>
    BY <1>9, <2>1 DEF Rename, VersionInv
  <2>3. \A x \in Write : ~Running(x)'
    BY <1>9, <2>1, SettleChain DEF Rename
  <2> QED
    BY <2>1, <2>2, <2>3 DEF ContentInv
<1>10. ASSUME NEW w \in Write, FailWrite(w) PROVE ContentInv'
  <2>1. fails \in Nat /\ fails' = fails + 1
    BY <1>10 DEF FailWrite, TypeOK
  <2>2. fails' # 0
    BY <2>1
  <2> QED
    BY <2>2 DEF ContentInv
<1>11. CASE UNCHANGED saveVars
  BY <1>11 DEF saveVars, queueVars, chainVars, diskVars, historyVars, ContentInv, Running
<1> QED
  BY <1>1, <1>2, <1>3, <1>4, <1>5, <1>6, <1>7, <1>8, <1>9, <1>10, <1>11 DEF SaveNext, QueueStep

\* Whatever timers are cancelled, flushes come late and writes fail: an entry has its
\* timer or a chain that moves, a flush never waits on a chain that stands still, and
\* what is not on disk yet is about to be.
THEOREM NothingIsForgotten == SaveSpec => []SavedOrUnderWay
<1>1. Init => WorkInv /\ ContentInv
  BY InitWork
<1>2. IInv /\ WorkInv /\ ContentInv /\ [SaveNext]_saveVars => (WorkInv /\ ContentInv)'
  BY StepWork, StepContent
<1>3. IInv /\ WorkInv /\ ContentInv => SavedOrUnderWay
  <2> SUFFICES ASSUME IInv, WorkInv, ContentInv PROVE SavedOrUnderWay
    OBVIOUS
  <2>1. ASSUME NEW w \in Write, phase[w] \in {"waiting", "tmp", "rename"} PROVE Moving
    BY <2>1, ChainMoves DEF IInv, WorkInv, Moving
  <2>2. pending # Nothing => timer \/ Moving
    BY <2>1 DEF WorkInv
  <2>3. waiting # {} => Moving
    <3> SUFFICES ASSUME NEW f \in waiting PROVE Moving
      OBVIOUS
    <3>1. f.write \in Write
      BY DEF IInv, TypeOK
    <3> QED
      BY <2>1, <3>1 DEF WorkInv
  <2>4. fails = 0 /\ pending = Nothing /\ file # managed =>
          \E w \in Write : phase[w] \in {"tmp", "rename"} /\ taken[w] = managed
    BY DEF ContentInv, Running
  <2> QED
    BY <2>2, <2>3, <2>4 DEF SavedOrUnderWay
<1> QED
  BY <1>1, <1>2, <1>3, Invariance, PTL DEF SaveSpec

=============================================================================
