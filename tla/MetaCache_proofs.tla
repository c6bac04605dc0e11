--------------------------- MODULE MetaCache_proofs ---------------------------
(***************************************************************************)
(* Proofs about the saving of the metadata cache: for any number of lines, *)
(* snapshots and stops, the file is whole, and the queue, the worker and   *)
(* the two files implement SnapshotFile.  They rest on the proofs about    *)
(* WorkQueue, whose steps all but one of these steps are.                  *)
(***************************************************************************)
EXTENDS MetaCache, WorkQueue_proofs

\* What the worker's steps change in the queue are steps of WorkQueue.
LEMMA StepsOfQueue ==
  ASSUME [MNext]_mvars, ~ Stop
  PROVE  [Next]_vars
  <1>1. ASSUME NEW c \in Clients, Restore(c) \/ Save(c) PROVE Next
    BY <1>1 DEF Restore, Save, Next
  <1>2. ASSUME NEW w \in Workers, Fetch(w) \/ Rest(w) PROVE Next
    BY <1>2 DEF Fetch, Rest, Next, WorkerStep
  <1>3. ASSUME NEW w \in Workers, OpenTmp(w) \/ WriteTmp(w) \/ Rename(w) PROVE [Next]_vars
    BY <1>3 DEF OpenTmp, WriteTmp, Rename, Next, WorkerStep
  <1>4. CASE SpuriousWakeup
    BY <1>4 DEF Next
  <1>5. CASE UNCHANGED mvars
    BY <1>5 DEF mvars
  <1>6. QED
    BY <1>1, <1>2, <1>3, <1>4, <1>5 DEF MNext, WriterStep

\* The end of the process leaves the queue as it was at the beginning, but for the
\* numbers that were given to its snapshots.
LEMMA StopQueue ==
  ASSUME IInv, TaskInv, Stop
  PROVE  IInv' /\ TaskInv'
  <1>1. /\ \A w \in Workers : pc'[w] = "none" /\ doing'[w] = NoTask
        /\ \A c \in Clients : pc'[c] = "idle"
        /\ queue' = <<>> /\ ccond' = {} /\ wcond' = {} /\ threads' = {} /\ exited' = 0
        /\ ok' = TRUE /\ open' = TRUE /\ clientsWaiting' = 0 /\ workersWaiting' = 0
        /\ UNCHANGED <<arg, puts, starts>>
    BY ThreadsAssumption DEF Stop
  <1>2. /\ fate \in [Tasks -> Fates]
        /\ fate' = [i \in Tasks |-> IF fate[i] \in {"queued", "taken"} THEN "failed" ELSE fate[i]]
    BY DEF IInv, TypeOK, DataOK, Stop
  <1>3. ThreadsOK'
    <2>1. pc' \in [Clients \cup Workers -> ClientStates \cup WorkerStates]
      BY DEF Stop, ClientStates, WorkerStates
    <2>2. QED
      BY <1>1, <2>1 DEF IInv, TypeOK, ThreadsOK, ClientStates, WorkerStates
  <1>4. DataOK'
    <2>1. queue' \in Seq(Tasks)
      BY <1>1
    <2>2. fate' \in [Tasks -> Fates]
      BY <1>2 DEF Fates
    <2>3. doing' \in [Workers -> Tasks \cup {NoTask}]
      BY DEF Stop
    <2>4. QED
      BY <1>1, <2>1, <2>2, <2>3, ParamsAssumption DEF IInv, TypeOK, DataOK
  <1>5. Waiters' = {} /\ Gone' = {}
    BY <1>1 DEF Waiters, Gone
  <1>6. WorkersCounted' /\ ExitsCounted'
    BY <1>1, <1>5, FS_EmptySet DEF WorkersCounted, ExitsCounted, Waiters, Gone
  <1>7. QueueBound' /\ NoLostWakeup' /\ BlockedInTake' /\ NoneLeft'
    BY <1>1, ParamsAssumption DEF QueueBound, NoLostWakeup, Ok, BlockedInTake, NoneLeft
  <1>8. IInv'
    BY <1>3, <1>4, <1>6, <1>7 DEF IInv, TypeOK
  <1>9. Numbered' /\ WaitersOwn' /\ Executing'
    BY <1>1, <1>2 DEF TaskInv, Numbered, WaitersOwn, Executing
  <1>10. ExactlyOnce'
    <2>1. \A i \in Tasks : fate'[i] \notin {"queued", "taken"} /\ i # NoTask
      BY <1>2, ParamsAssumption DEF Tasks, NoTask
    <2>2. QED
      BY <1>1, <2>1 DEF ExactlyOnce, InQueue
  <1>11. QED
    BY <1>8, <1>9, <1>10 DEF TaskInv

LEMMA QueueKept ==
  ASSUME MInv, [MNext]_mvars
  PROVE  IInv' /\ TaskInv'
BY StepsOfQueue, StopQueue, NextInv, NextTasks DEF MInv

-----------------------------------------------------------------------------
\* The rest of the invariant, step by step.

Rests == MTypeOK /\ InService /\ NewestOnly /\ Saving /\ FileOld /\ FileWhole

\* The queue accepts every snapshot and no other is left on it.
LEMMA SavePushes ==
  ASSUME OneSaver, MInv, NEW c \in Clients, Save(c)
  PROVE  /\ queue' = <<puts + 1>> /\ puts' = puts + 1 /\ puts + 1 \in Tasks
         /\ Push(c, puts + 1, TRUE)
         /\ UNCHANGED <<sync, arg, doing, starts, disk, step, stops>>
         /\ \A w \in Workers : pc'[w] = pc[w]
         /\ \A d \in Clients : pc'[d] = "idle"
  <1>1. Ok /\ open /\ ~ Full
    BY DEF Save, MInv, InService, Ok, OneSaver, Full
  <1>2. Push(c, puts + 1, TRUE) /\ UNCHANGED arg
    BY <1>1 DEF Save, Put
  <1>3. puts + 1 \in Tasks
    BY ParamsAssumption DEF Save, Put, MInv, IInv, TypeOK, DataOK, Tasks
  <1>4. queue' = <<puts + 1>>
    BY <1>2 DEF Push
  <1>5. /\ \A w \in Workers : pc'[w] = pc[w]
        /\ \A d \in Clients : pc'[d] = IF d = c THEN "idle" ELSE pc[d]
    BY <1>2, ThreadsAssumption DEF MInv, IInv, TypeOK, ThreadsOK, Push, Goto
  <1>6. QED
    BY <1>2, <1>3, <1>4, <1>5 DEF Save, Put, Push, MInv, InService

LEMMA SaveRests ==
  ASSUME OneSaver, MInv, NEW c \in Clients, Save(c), TypeOK'
  PROVE  Rests'
  <1>1. /\ queue' = <<puts + 1>> /\ puts' = puts + 1
        /\ UNCHANGED <<ok, open, threads, exited, doing, file, tmp, restored, step, stops>>
        /\ threads # {}
        /\ \A w \in Workers : pc'[w] = pc[w]
        /\ \A d \in Clients : pc'[d] = "idle"
    BY SavePushes DEF sync, disk, Save
  <1>2. MTypeOK'
    BY <1>1 DEF MInv, MTypeOK
  <1>3. InService' /\ NewestOnly'
    BY <1>1 DEF MInv, InService, NewestOnly
  <1>4. puts \in Nat /\ Len(queue') = 1 /\ queue'[1] = puts + 1 /\ file.snap \in Nat
        /\ \A w \in Workers : doing[w] \in Nat
    <2>1. puts \in 0 .. MaxTasks /\ doing \in [Workers -> Tasks \cup {NoTask}] /\ file \in Files
      BY DEF MInv, IInv, TypeOK, DataOK, MTypeOK
    <2>2. Tasks \cup {NoTask} \subseteq Nat /\ 0 .. MaxTasks \subseteq Nat
      BY ParamsAssumption DEF Tasks, NoTask
    <2>3. puts \in Nat /\ \A w \in Workers : doing[w] \in Nat
      BY <2>1, <2>2
    <2>4. file.snap \in Nat
      BY <2>1, <2>2 DEF Files
    <2>5. Len(queue') = 1 /\ queue'[1] = puts + 1
      BY <1>1
    <2>6. QED
      BY <2>3, <2>4, <2>5
  <1>5. Saving'
    BY <1>1, <1>4 DEF MInv, Saving
  <1>6. FileOld' /\ FileWhole'
    BY <1>1, <1>4 DEF MInv, FileOld, FileWhole
  <1>7. QED
    BY <1>2, <1>3, <1>5, <1>6 DEF Rests

LEMMA RestoreRests ==
  ASSUME OneSaver, MInv, NEW c \in Clients, Restore(c), TypeOK'
  PROVE  Rests'
  <1>1. /\ \A w \in Workers : pc[w] = "none" /\ pc'[w] = "run"
        /\ \A d \in Clients : pc'[d] = pc[d]
        /\ UNCHANGED <<queue, ok, open, exited, doing, puts, file, tmp, step, stops>>
        /\ restored' = file /\ threads' # {}
    BY ThreadsAssumption DEF MInv, IInv, NoneLeft, Restore, Start, ledger
  <1>2. MTypeOK'
    BY <1>1 DEF MInv, MTypeOK
  <1>3. InService' /\ NewestOnly' /\ Saving' /\ FileOld' /\ FileWhole'
    BY <1>1 DEF MInv, InService, NewestOnly, Saving, FileOld, FileWhole
  <1>4. QED
    BY <1>2, <1>3 DEF Rests

\* take(): the only snapshot of the queue becomes the one that is written.
LEMMA FetchTakes ==
  ASSUME OneSaver, MInv, NEW w \in Workers, Fetch(w)
  PROVE  /\ UNCHANGED <<ok, open, threads, exited, arg, puts, starts, file, tmp, restored, stops>>
         /\ step[w] = "take" /\ doing[w] = NoTask
         /\ \A c \in Clients : pc'[c] = pc[c]
         /\ \/ /\ pc'[w] = "take" /\ step'[w] = "take"
               /\ UNCHANGED <<queue, doing, fate>>
            \/ /\ pc'[w] = "work" /\ step'[w] = "open"
               /\ queue = <<puts>> /\ queue' = <<>>
               /\ doing'[w] = puts /\ puts \in Tasks
               /\ fate' = [fate EXCEPT ![puts] = "taken"]
  <1>1. /\ UNCHANGED <<ok, open, threads, exited, arg, puts, starts, file, tmp, restored, stops>>
        /\ pc[w] \in {"run", "take"}
        /\ step' = [step EXCEPT ![w] = IF pc'[w] = "work" THEN "open" ELSE "take"]
    BY DEF Fetch, Take, sync, disk
  <1>2. step[w] = "take" /\ doing[w] = NoTask
    BY <1>1 DEF MInv, Saving, TaskInv, Executing
  <1>3. Ok
    <2>1. threads # {}
      BY <1>1 DEF MInv, IInv, NoneLeft
    <2>2. QED
      BY <2>1 DEF MInv, InService, Ok
  <1>4. PICK n : TakeSleep(w, n) \/ TakeTask(w, n)
    BY <1>3 DEF Fetch, Take, TakeNotOk
  <1>5. \A c \in Clients : pc'[c] = pc[c]
    BY <1>4, ThreadsAssumption DEF MInv, IInv, TypeOK, ThreadsOK, TakeSleep, TakeTask, Goto
  <1>6. CASE TakeSleep(w, n)
    <2>1. pc'[w] = "take"
      BY <1>6, ThreadsAssumption DEF MInv, IInv, TypeOK, ThreadsOK, TakeSleep, Goto
    <2>2. step'[w] = "take"
      BY <1>1, <2>1 DEF MInv, MTypeOK
    <2>3. QED
      BY <1>1, <1>2, <1>5, <1>6, <2>1, <2>2 DEF TakeSleep
  <1>7. CASE TakeTask(w, n)
    <2>1. pc'[w] = "work"
      BY <1>7, ThreadsAssumption DEF MInv, IInv, TypeOK, ThreadsOK, TakeTask, Goto
    <2>2. step'[w] = "open"
      BY <1>1, <2>1 DEF MInv, MTypeOK
    <2>3. queue \in Seq(Tasks) /\ Len(queue) >= Low
      BY <1>7 DEF MInv, IInv, TypeOK, DataOK, TakeTask
    <2>4. queue = <<puts>>
      <3>1. queue # <<>>
        BY <2>3, PoppedTasks
      <3>2. QED
        BY <3>1 DEF MInv, NewestOnly
    <2>5. Head(queue) = puts /\ Tail(queue) = <<>> /\ Head(queue) \in Tasks
      BY <2>3, <2>4, TakeFrom
    <2>6. /\ queue' = <<>> /\ fate' = [fate EXCEPT ![puts] = "taken"]
          /\ doing'[w] = puts
      BY <1>7, <2>5 DEF TakeTask, MInv, IInv, TypeOK, DataOK
    <2>7. QED
      BY <1>1, <1>2, <1>5, <2>1, <2>2, <2>4, <2>5, <2>6
  <1>8. QED
    BY <1>4, <1>6, <1>7

LEMMA FetchRests ==
  ASSUME OneSaver, MInv, NEW w \in Workers, Fetch(w), TypeOK'
  PROVE  Rests'
  <1> USE FetchTakes
  <1>1. \A v \in Workers : v = w
    BY DEF OneSaver
  <1>2. step' = [step EXCEPT ![w] = IF pc'[w] = "work" THEN "open" ELSE "take"]
    BY DEF Fetch
  <1>3. MTypeOK'
    BY <1>2 DEF MInv, MTypeOK
  <1>4. InService' /\ NewestOnly'
    BY <1>1 DEF MInv, InService, NewestOnly
  <1>5. puts \in Nat /\ file.snap \in Nat
    BY DEF MInv, IInv, TypeOK, DataOK, MTypeOK, Files
  <1>6. CASE pc'[w] = "take"
    <2>1. Saving'
      BY <1>1, <1>6 DEF MInv, Saving
    <2>2. FileOld' /\ FileWhole'
      BY <1>6 DEF MInv, FileOld, FileWhole
    <2>3. QED
      BY <1>3, <1>4, <2>1, <2>2 DEF Rests
  <1>7. CASE pc'[w] = "work"
    <2>1. queue = <<puts>> /\ Len(queue) = 1 /\ queue[1] = puts /\ Len(queue') = 0
      BY <1>7
    <2>2. file.snap < puts
      BY <2>1 DEF MInv, FileOld
    <2>3. Saving'
      BY <1>1, <1>5, <1>7, <2>1, <2>2 DEF MInv, Saving
    <2>4. FileOld' /\ FileWhole'
      BY <2>1, <2>2 DEF MInv, FileOld, FileWhole
    <2>5. QED
      BY <1>3, <1>4, <2>3, <2>4 DEF Rests
  <1>8. QED
    BY <1>6, <1>7

\* Opening, writing and renaming leave the queue alone.
LEMMA WriteRests ==
  ASSUME OneSaver, MInv, NEW w \in Workers, OpenTmp(w) \/ WriteTmp(w) \/ Rename(w), TypeOK'
  PROVE  Rests'
  <1>1. /\ \A v \in Workers : v = w
        /\ ~ DiskFails /\ Lines \in Nat
    BY DEF OneSaver
  <1>2. UNCHANGED <<vars, restored, stops>>
    BY <1>1 DEF OpenTmp, WriteTmp, Rename
  <1>3. InService' /\ NewestOnly'
    BY <1>2 DEF MInv, InService, NewestOnly, vars, sync, ledger
  <1>4. /\ doing[w] \in 0 .. MaxTasks /\ file \in Files /\ tmp \in Files
        /\ MaxTasks \in Nat
    BY ParamsAssumption DEF MInv, IInv, TypeOK, DataOK, MTypeOK, Tasks, NoTask
  <1>5. /\ pc' = pc /\ doing' = doing /\ queue' = queue /\ puts' = puts
    BY <1>2 DEF vars, ledger
  <1>6. CASE OpenTmp(w)
    <2>1. /\ step[w] = "open" /\ step' = [step EXCEPT ![w] = "write"]
          /\ tmp' = [snap |-> doing[w], lines |-> 0] /\ file' = file
      BY <1>1, <1>6 DEF OpenTmp
    <2>2. MTypeOK'
      BY <1>1, <1>2, <1>4, <2>1 DEF MInv, MTypeOK, Files
    <2>3. step'[w] = "write"
      BY <2>1 DEF MInv, MTypeOK
    <2>4. Saving' /\ FileOld' /\ FileWhole'
      BY <1>1, <1>5, <2>1, <2>3 DEF MInv, Saving, FileOld, FileWhole
    <2>5. QED
      BY <1>3, <2>2, <2>4 DEF Rests
  <1>7. CASE WriteTmp(w)
    <2>1. PICK n \in 0 .. Lines : n = Lines /\ tmp' = [tmp EXCEPT !.lines = @ + n]
      BY <1>1, <1>7 DEF WriteTmp
    <2>2. step[w] = "write" /\ step' = [step EXCEPT ![w] = "rename"] /\ file' = file
      BY <1>7 DEF WriteTmp
    <2>3. tmp' = [snap |-> doing[w], lines |-> Lines]
      BY <1>1, <2>1, <2>2 DEF MInv, Saving
    <2>4. MTypeOK'
      BY <1>1, <1>2, <1>4, <2>2, <2>3 DEF MInv, MTypeOK, Files
    <2>5. step'[w] = "rename"
      BY <2>2 DEF MInv, MTypeOK
    <2>6. Saving' /\ FileOld' /\ FileWhole'
      BY <1>1, <1>5, <2>2, <2>3, <2>5 DEF MInv, Saving, FileOld, FileWhole
    <2>7. QED
      BY <1>3, <2>4, <2>6 DEF Rests
  <1>8. CASE Rename(w)
    <2>1. /\ step[w] = "rename" /\ step' = [step EXCEPT ![w] = "rest"]
          /\ file' = tmp /\ tmp' = NoFile
      BY <1>1, <1>8 DEF Rename
    <2>2. tmp = [snap |-> doing[w], lines |-> Lines]
      BY <2>1 DEF MInv, Saving
    <2>3. MTypeOK'
      BY <1>1, <1>2, <1>4, <2>1 DEF MInv, MTypeOK, Files, NoFile
    <2>4. step'[w] = "rest" /\ file'.snap = doing[w] /\ file'.lines = Lines
      BY <2>1, <2>2 DEF MInv, MTypeOK
    <2>5. Saving'
      BY <1>1, <1>5, <2>1, <2>4 DEF MInv, Saving
    <2>6. FileOld' /\ FileWhole'
      BY <1>5, <2>4 DEF MInv, Saving, FileOld, FileWhole
    <2>7. QED
      BY <1>3, <2>3, <2>5, <2>6 DEF Rests
  <1>9. QED
    BY <1>6, <1>7, <1>8

\* The task is over: the file has its snapshot.
LEMMA RestEnds ==
  ASSUME OneSaver, MInv, NEW w \in Workers, Rest(w)
  PROVE  /\ UNCHANGED <<queue, ok, open, threads, exited, arg, puts, starts, disk, stops>>
         /\ step[w] = "rest" /\ pc'[w] = "run" /\ step'[w] = "take"
         /\ doing[w] \in Tasks /\ doing'[w] = NoTask /\ fate' = [fate EXCEPT ![doing[w]] = "done"]
         /\ \A c \in Clients : pc'[c] = pc[c]
  <1>1. /\ Work(w) /\ ~ MayFail /\ step[w] = "rest" /\ step' = [step EXCEPT ![w] = "take"]
        /\ UNCHANGED <<disk, stops>>
    BY DEF Rest, OneSaver
  <1>2. /\ UNCHANGED <<queue, ok, open, threads, exited, arg, puts, starts>>
        /\ fate' = [fate EXCEPT ![doing[w]] = "done"] /\ Goto(w, "run")
        /\ doing' = [doing EXCEPT ![w] = NoTask]
    BY <1>1 DEF Work, sync
  <1>3. /\ pc'[w] = "run" /\ \A c \in Clients : pc'[c] = pc[c]
    BY <1>2, ThreadsAssumption DEF MInv, IInv, TypeOK, ThreadsOK, Goto
  <1>4. doing'[w] = NoTask /\ step'[w] = "take"
    BY <1>1, <1>2 DEF MInv, IInv, TypeOK, DataOK, MTypeOK
  <1>5. doing[w] \in Tasks
    BY <1>1 DEF MInv, IInv, TypeOK, DataOK, TaskInv, Executing, Work
  <1>6. QED
    BY <1>1, <1>2, <1>3, <1>4, <1>5

LEMMA RestRests ==
  ASSUME OneSaver, MInv, NEW w \in Workers, Rest(w), TypeOK'
  PROVE  Rests'
  <1> USE RestEnds
  <1>1. \A v \in Workers : v = w
    BY DEF OneSaver
  <1>2. step' = [step EXCEPT ![w] = "take"]
    BY DEF Rest
  <1>3. MTypeOK'
    BY <1>2 DEF MInv, MTypeOK, disk
  <1>4. InService' /\ NewestOnly'
    BY <1>1 DEF MInv, InService, NewestOnly
  <1>5. FileOld' /\ FileWhole'
    BY DEF MInv, FileOld, FileWhole, disk
  <1>6. /\ puts \in Nat /\ queue \in Seq(Tasks)
        /\ \A k \in 1 .. Len(queue) : queue[k] \in Nat /\ queue[k] > 0
    <2>1. puts \in 0 .. MaxTasks /\ queue \in Seq(Tasks)
      BY DEF MInv, IInv, TypeOK, DataOK
    <2>2. \A k \in 1 .. Len(queue) : queue[k] \in Tasks
      BY <2>1, ElementOfSeq
    <2>3. \A i \in Tasks : i \in Nat /\ i > 0
      BY ParamsAssumption DEF Tasks
    <2>4. QED
      BY <2>1, <2>2, <2>3, ParamsAssumption
  <1>7. Saving'
    BY <1>1, <1>6 DEF Saving, NoTask
  <1>8. QED
    BY <1>3, <1>4, <1>5, <1>7 DEF Rests

LEMMA StopRests ==
  ASSUME OneSaver, MInv, Stop, TypeOK'
  PROVE  Rests'
  <1>1. /\ queue' = <<>> /\ ok' = TRUE /\ open' = TRUE /\ exited' = 0
        /\ \A w \in Workers : pc'[w] = "none" /\ step'[w] = "take" /\ doing'[w] = NoTask
        /\ \A c \in Clients : pc'[c] = "idle"
        /\ UNCHANGED <<file, tmp, restored, puts>> /\ stops' = stops + 1
    BY ThreadsAssumption DEF Stop, disk
  <1>2. step' = [w \in Workers |-> "take"] /\ stops < MaxStops
    BY DEF Stop
  <1>3. MTypeOK'
    BY <1>1, <1>2 DEF MInv, MTypeOK, OneSaver
  <1>4. InService' /\ NewestOnly' /\ FileWhole'
    BY <1>1 DEF MInv, InService, NewestOnly, FileWhole
  <1>5. Saving' /\ FileOld'
    <2>1. puts \in Nat /\ Len(queue') = 0
      BY <1>1 DEF MInv, IInv, TypeOK, DataOK
    <2>2. QED
      BY <1>1, <2>1 DEF MInv, Saving, FileOld, NoTask
  <1>6. QED
    BY <1>3, <1>4, <1>5 DEF Rests

LEMMA InitMInv == OneSaver /\ MInit => MInv
  <1> SUFFICES ASSUME OneSaver, MInit PROVE MInv
    OBVIOUS
  <1>1. IInv /\ TaskInv /\ TypeOK
    BY InitInv, InitTasks, InitType DEF MInit
  <1>2. NoFile \in Files /\ 0 \in 0 .. MaxStops
    BY ParamsAssumption DEF NoFile, Files, OneSaver
  <1>3. MTypeOK
    BY <1>1, <1>2 DEF MTypeOK, MInit
  <1>4. /\ \A w \in Workers : pc[w] = "none" /\ step[w] = "take" /\ doing[w] = NoTask
        /\ \A c \in Clients : pc[c] = "idle"
        /\ queue = <<>> /\ Len(queue) = 0 /\ puts = 0 /\ file.snap = 0
    BY ThreadsAssumption DEF MInit, Init, NoFile
  <1>5. InService /\ NewestOnly /\ Saving /\ FileOld /\ FileWhole
    BY <1>4 DEF MInit, Init, InService, NewestOnly, Saving, FileOld, FileWhole, NoTask
  <1>6. QED
    BY <1>1, <1>3, <1>5 DEF MInv

LEMMA NextMInv == OneSaver /\ MInv /\ [MNext]_mvars => MInv'
  <1> SUFFICES ASSUME OneSaver, MInv, [MNext]_mvars PROVE MInv'
    OBVIOUS
  <1>1. IInv' /\ TaskInv' /\ TypeOK'
    BY QueueKept DEF IInv
  <1>2. ASSUME NEW c \in Clients, Restore(c) \/ Save(c) PROVE Rests'
    BY <1>1, <1>2, RestoreRests, SaveRests
  <1>3. ASSUME NEW w \in Workers, WriterStep(w) PROVE Rests'
    BY <1>1, <1>3, FetchRests, WriteRests, RestRests DEF WriterStep
  <1>4. ASSUME Stop PROVE Rests'
    BY <1>1, <1>4, StopRests
  <1>5. ASSUME UNCHANGED <<queue, ok, open, threads, exited, pc, doing, puts>>,
               UNCHANGED <<file, tmp, restored, step, stops>>
        PROVE  Rests'
    BY <1>1, <1>5 DEF MInv, Rests, MTypeOK, InService, NewestOnly, Saving, FileOld, FileWhole
  <1>6. Rests'
    <2>1. CASE SpuriousWakeup /\ UNCHANGED <<disk, step, stops>>
      BY <1>5, <2>1 DEF SpuriousWakeup, sync, ledger, disk
    <2>2. CASE UNCHANGED mvars
      BY <1>5, <2>2 DEF mvars, vars, sync, ledger, disk
    <2>3. QED
      BY <1>2, <1>3, <1>4, <2>1, <2>2 DEF MNext
  <1>7. QED
    BY <1>1, <1>6 DEF MInv, Rests

\* Wherever the process stops the cache file is a complete snapshot, and no more
\* than one snapshot waits for the worker, whatever the sizes and the number of
\* saves and stops (dmcacheSave, dmcacheSaveWorker, dmcacheRestore).
THEOREM FileIsWhole ==
  ASSUME OneSaver
  PROVE  MSpec => []FileAndQueue
  <1>1. MInit => MInv
    BY InitMInv
  <1>2. MInv /\ [MNext]_mvars => MInv'
    BY NextMInv
  <1>3. MInv => FileAndQueue
    BY DEF MInv, NewestOnly, FileAndQueue, OneQueued
  <1>4. QED
    BY <1>1, <1>2, <1>3, PTL DEF MSpec
-----------------------------------------------------------------------------
\* The refinement.

\* The newest of a set of snapshots.
LEMMA Newest ==
  ASSUME NEW S \in SUBSET Nat, NEW m \in S, \A j \in S : j <= m
  PROVE  S # {} /\ (CHOOSE i \in S : \A j \in S : j <= i) = m
  <1>1. \A i \in S : (\A j \in S : j <= i) => i = m
    OBVIOUS
  <1>2. QED
    BY <1>1

\* Where the snapshot is that the process still has to store: on the queue, or with
\* the worker, or in the file already.
WantedThere ==
  /\ queue = <<puts>> => Wanted = puts
  /\ \A w \in Workers :
       queue = <<>> => Wanted = IF pc[w] = "work" THEN doing[w] ELSE file.snap

LEMMA WantedIs == OneSaver /\ MInv => WantedThere
  <1> SUFFICES ASSUME OneSaver, MInv PROVE WantedThere
    OBVIOUS
  <1>1. PICK w \in Workers : Workers = {w}
    BY DEF OneSaver
  <1>2. /\ Pending \in SUBSET Nat
        /\ Pending = {i \in Tasks : InQueue(i) \/ doing[w] = i}
    BY <1>1, ParamsAssumption DEF MInv, TaskInv, ExactlyOnce, Pending, Tasks
  <1>3. /\ doing[w] \in Tasks \cup {NoTask}
        /\ doing[w] # NoTask <=> pc[w] = "work"
        /\ doing[w] <= puts /\ puts \in 0 .. MaxTasks
    BY <1>1 DEF MInv, TaskInv, Executing, IInv, TypeOK, DataOK, Saving
  <1>4. ASSUME queue = <<puts>> PROVE Wanted = puts
    <2>1. Len(queue) = 1 /\ queue[1] = puts /\ queue \in Seq(Tasks)
      BY <1>4 DEF MInv, IInv, TypeOK, DataOK
    <2>2. puts \in Pending
      BY <1>2, <2>1 DEF InQueue
    <2>3. \A i \in Pending : i <= puts
      <3>1. \A i \in Tasks : InQueue(i) => i = puts
        BY <2>1 DEF InQueue
      <3>2. QED
        BY <1>2, <1>3, <3>1
    <2>4. QED
      BY <1>2, <2>2, <2>3, Newest DEF Wanted
  <1>5. ASSUME queue = <<>>, pc[w] = "work" PROVE Wanted = doing[w]
    <2>1. Pending = {doing[w]}
      <3>1. doing[w] \in Tasks /\ \A i \in Tasks : ~ InQueue(i)
        BY <1>3, <1>5 DEF InQueue, NoTask
      <3>2. QED
        BY <1>2, <3>1
    <2>2. doing[w] \in Nat
      BY <1>3, ParamsAssumption DEF Tasks, NoTask
    <2>3. QED
      BY <1>2, <2>1, <2>2, Newest DEF Wanted
  <1>6. ASSUME queue = <<>>, pc[w] # "work" PROVE Wanted = file.snap
    <2>1. Pending = {}
      BY <1>2, <1>3, <1>6, ParamsAssumption DEF InQueue, Tasks, NoTask
    <2>2. QED
      BY <2>1 DEF Wanted
  <1>7. QED
    BY <1>1, <1>4, <1>5, <1>6 DEF WantedThere

\* dmcacheSave() is a request.
LEMMA SaveRequests ==
  ASSUME OneSaver, MInv, WantedThere', NEW c \in Clients, Save(c)
  PROVE  Abstract!Request
  <1>1. /\ queue' = <<puts + 1>> /\ puts' = puts + 1 /\ file' = file /\ stops' = stops
        /\ puts < MaxTasks
    BY SavePushes DEF disk, Save, Put
  <1>2. Wanted' = puts'
    BY <1>1 DEF WantedThere
  <1>3. QED
    BY <1>1, <1>2 DEF Abstract!Request

\* The rename stores the snapshot that the worker has.
LEMMA RenameStores ==
  ASSUME OneSaver, MInv, WantedThere, WantedThere', NEW w \in Workers, Rename(w)
  PROVE  Abstract!Store
  <1>1. /\ step[w] = "rename" /\ file' = tmp /\ stops' = stops
        /\ queue' = queue /\ pc' = pc /\ doing' = doing /\ puts' = puts
    BY DEF Rename, OneSaver, vars, ledger
  <1>2. pc[w] = "work" /\ file.snap < doing[w] /\ file'.snap = doing[w] /\ doing[w] <= puts
    BY <1>1 DEF MInv, Saving
  <1>3. Wanted' = Wanted /\ doing[w] <= Wanted
    BY <1>1, <1>2 DEF MInv, NewestOnly, WantedThere, IInv, TypeOK, DataOK, Tasks, NoTask
  <1>4. file.snap \in Nat /\ doing[w] \in Nat /\ Wanted \in Nat
    BY <1>1, <1>2, ParamsAssumption
    DEF MInv, MTypeOK, Files, NewestOnly, WantedThere, IInv, TypeOK, DataOK, Tasks, NoTask
  <1>5. QED
    BY <1>1, <1>2, <1>3, <1>4 DEF Abstract!Store

\* The end of the process forgets what was not stored.
LEMMA StopForgets ==
  ASSUME WantedThere', Stop
  PROVE  Abstract!Forget
  <1>1. /\ queue' = <<>> /\ \A w \in Workers : pc'[w] = "none"
        /\ file' = file /\ puts' = puts /\ stops' = stops + 1
    BY ThreadsAssumption DEF Stop, disk
  <1>2. Wanted' = file.snap
    BY <1>1, ThreadsAssumption DEF WantedThere
  <1>3. QED
    BY <1>1, <1>2 DEF Abstract!Forget

\* The other steps of the worker, and the start of the process, move the snapshot or
\* the temporary file only.
LEMMA OthersStutter ==
  ASSUME OneSaver, MInv, WantedThere, WantedThere', NEW w \in Workers,
         \/ Fetch(w) \/ OpenTmp(w) \/ WriteTmp(w) \/ Rest(w)
         \/ \E c \in Clients : Restore(c)
         \/ SpuriousWakeup /\ UNCHANGED <<disk, step, stops>>
         \/ UNCHANGED mvars
  PROVE  UNCHANGED Abstract!avars
  <1>1. \A v \in Workers : v = w
    BY DEF OneSaver
  <1>2. CASE Fetch(w)
    <2>1. UNCHANGED <<puts, file, stops>> /\ step[w] = "take"
      BY <1>2, FetchTakes
    <2>2. pc[w] # "work"
      BY <2>1 DEF MInv, Saving
    <2>3. CASE pc'[w] = "take" /\ queue' = queue
      BY <2>1, <2>2, <2>3 DEF MInv, NewestOnly, WantedThere, Abstract!avars
    <2>4. CASE pc'[w] = "work" /\ queue = <<puts>> /\ queue' = <<>> /\ doing'[w] = puts
      BY <2>1, <2>2, <2>4 DEF WantedThere, Abstract!avars
    <2>5. QED
      BY <1>2, <2>3, <2>4, FetchTakes
  <1>3. CASE Rest(w)
    <2>1. /\ UNCHANGED <<puts, file, stops, queue>> /\ step[w] = "rest" /\ pc'[w] = "run"
      BY <1>3, RestEnds DEF disk
    <2>2. pc[w] = "work" /\ doing[w] = file.snap
      BY <2>1 DEF MInv, Saving
    <2>3. QED
      BY <2>1, <2>2 DEF MInv, NewestOnly, WantedThere, Abstract!avars
  <1>4. CASE \E c \in Clients : Restore(c)
    <2>1. /\ UNCHANGED <<puts, file, stops, queue>>
          /\ pc[w] = "none" /\ pc'[w] = "run"
      BY <1>4, ThreadsAssumption DEF MInv, IInv, NoneLeft, Restore, Start, ledger
    <2>2. QED
      BY <2>1 DEF MInv, NewestOnly, WantedThere, Abstract!avars
  <1>5. CASE \/ OpenTmp(w) \/ WriteTmp(w)
             \/ SpuriousWakeup /\ UNCHANGED <<disk, step, stops>>
             \/ UNCHANGED mvars
    <2>1. UNCHANGED <<puts, file, stops, queue, pc, doing>>
      BY <1>5 DEF OpenTmp, WriteTmp, OneSaver, SpuriousWakeup, mvars, vars, disk, ledger, sync
    <2>2. QED
      BY <2>1 DEF MInv, NewestOnly, WantedThere, Abstract!avars
  <1>6. QED
    BY <1>2, <1>3, <1>4, <1>5

LEMMA InitAbstract == OneSaver /\ MInit => Abstract!AInit
  <1> SUFFICES ASSUME OneSaver, MInit PROVE Abstract!AInit
    OBVIOUS
  <1>1. \A w \in Workers : pc[w] = "none"
    BY ThreadsAssumption DEF MInit, Init
  <1>2. Wanted = file.snap
    BY <1>1, InitMInv, WantedIs, ThreadsAssumption DEF WantedThere, MInit, Init
  <1>3. QED
    BY <1>2 DEF MInit, Init, NoFile, Abstract!AInit

LEMMA NextAbstract ==
  OneSaver /\ MInv /\ WantedThere /\ WantedThere' /\ [MNext]_mvars
    => [Abstract!ANext]_(Abstract!avars)
  <1> SUFFICES ASSUME OneSaver, MInv, WantedThere, WantedThere', [MNext]_mvars
               PROVE  [Abstract!ANext]_(Abstract!avars)
    OBVIOUS
  <1>1. ASSUME NEW c \in Clients, Save(c) PROVE Abstract!ANext
    BY <1>1, SaveRequests DEF Abstract!ANext
  <1>2. ASSUME NEW w \in Workers, Rename(w) PROVE Abstract!ANext
    BY <1>2, RenameStores DEF Abstract!ANext
  <1>3. ASSUME Stop PROVE Abstract!ANext
    BY <1>3, StopForgets DEF Abstract!ANext
  <1>4. ASSUME NEW w \in Workers, Fetch(w) \/ OpenTmp(w) \/ WriteTmp(w) \/ Rest(w)
        PROVE  UNCHANGED Abstract!avars
    BY <1>4, OthersStutter
  <1>5. ASSUME \/ \E c \in Clients : Restore(c)
               \/ SpuriousWakeup /\ UNCHANGED <<disk, step, stops>>
               \/ UNCHANGED mvars
        PROVE  UNCHANGED Abstract!avars
    <2>1. PICK w : w \in Workers
      BY ThreadsAssumption
    <2>2. QED
      BY <1>5, <2>1, OthersStutter
  <1>6. QED
    BY <1>1, <1>2, <1>3, <1>4, <1>5 DEF MNext, WriterStep

\* The queue, the worker and the temporary file implement SnapshotFile, but for its
\* fairness: the file only moves forward to a requested snapshot, and what is lost
\* is lost by a stop of the process (dmcacheSave, dmcacheSaveWorker).
THEOREM SavesImplement ==
  ASSUME OneSaver
  PROVE  MSpec => MovesForward
  <1>1. MInit => MInv /\ Abstract!AInit
    BY InitMInv, InitAbstract
  <1>2. MInv /\ [MNext]_mvars => MInv'
    BY NextMInv
  <1>3. MInv => WantedThere
    BY WantedIs
  <1>4. MInv /\ WantedThere /\ WantedThere' /\ [MNext]_mvars => [Abstract!ANext]_(Abstract!avars)
    BY NextAbstract
  <1>5. QED
    BY <1>1, <1>2, <1>3, <1>4, PTL DEF MSpec, MovesForward
=============================================================================
