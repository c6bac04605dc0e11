--------------------------- MODULE WorkQueue_proofs ---------------------------
(***************************************************************************)
(* Proofs about WorkQueue, for every number of clients and workers and     *)
(* every m_high and m_low.                                                 *)
(***************************************************************************)
EXTENDS WorkQueue, FiniteSetTheorems, SequenceTheorems, TLAPS

\* Workers inside the wait of take(), and workers past workerExit().
Waiters == {w \in Workers : pc[w] = "take"}
Gone    == {w \in Workers : pc[w] = "exited"}

-----------------------------------------------------------------------------
\* The unsigned counters do not wrap around between 0 and UIntMax.
LEMMA Counters ==
  ASSUME NEW n \in 0 .. UIntMax
  PROVE  /\ Inc(n) \in 0 .. UIntMax
         /\ Dec(n) \in 0 .. UIntMax
         /\ n < UIntMax => Inc(n) = n + 1
         /\ n > 0 => Dec(n) = n - 1
BY ParamsAssumption DEF Inc, Dec

\* The head and the tail of a queue that take() may take from.
LEMMA TakeFrom ==
  ASSUME NEW q \in Seq(Tasks), Len(q) >= Low
  PROVE  /\ Head(q) \in Tasks
         /\ Tail(q) \in Seq(Tasks)
         /\ Len(Tail(q)) = Len(q) - 1
  <1>1. q # <<>>
    BY ParamsAssumption
  <1>2. QED
    BY <1>1, HeadTailProperties

\* What Push leaves on the queue.
LEMMA PushOnto ==
  ASSUME NEW q \in Seq(Tasks), NEW t \in Tasks, NEW flush \in BOOLEAN
  PROVE  /\ Append(IF flush THEN <<>> ELSE q, t) \in Seq(Tasks)
         /\ Len(Append(IF flush THEN <<>> ELSE q, t)) =
              IF flush THEN 1 ELSE Len(q) + 1
  <1>1. (IF flush THEN <<>> ELSE q) \in Seq(Tasks)
    OBVIOUS
  <1>2. QED
    BY <1>1, AppendProperties

\* A notification only removes threads from the blocked ones, and removes one
\* if there is one.
LEMMA NotifiedShrinks ==
  ASSUME NEW S, NEW T \in Notified(S)
  PROVE  T \subseteq S /\ (S # {} => \E t \in S : t \notin T)
BY DEF Notified

-----------------------------------------------------------------------------
\* Type correctness: Init establishes TypeOK and each action preserves it.

\* The program counters: a client goes to any of its states but the wait of
\* put(), a worker to any of its states.
LEMMA ClientGoto ==
  ASSUME ThreadsOK, NEW c \in Clients, NEW s \in ClientStates \ {"put"},
         Goto(c, s), arg' = arg
  PROVE  ThreadsOK'
BY ThreadsAssumption DEF ThreadsOK, Goto

LEMMA WorkerGoto ==
  ASSUME ThreadsOK, NEW w \in Workers, NEW s \in WorkerStates,
         Goto(w, s), arg' = arg
  PROVE  ThreadsOK'
BY ThreadsAssumption DEF ThreadsOK, Goto

LEMMA InitType == Init => TypeOK
  <1> SUFFICES ASSUME Init PROVE TypeOK
    OBVIOUS
  <1>1. ThreadsOK
    BY ThreadsAssumption
    DEF Init, ThreadsOK, ClientStates, WorkerStates, NoTask
  <1>2. queue \in Seq(Tasks)
    BY DEF Init
  <1>3. DataOK
    BY <1>2, ParamsAssumption DEF Init, DataOK, Fates, NoTask
  <1>4. QED
    BY <1>1, <1>3 DEF TypeOK

LEMMA PushType ==
  ASSUME TypeOK, NEW c \in Clients, NEW t \in Tasks, NEW flush \in BOOLEAN,
         Push(c, t, flush), clientsWaiting' \in 0 .. UIntMax,
         puts' \in 0 .. MaxTasks, arg' = arg
  PROVE  TypeOK'
  <1>1. queue' \in Seq(Tasks)
    BY PushOnto DEF TypeOK, DataOK, Push
  <1>2. wcond' \subseteq Workers
    BY NotifiedShrinks DEF TypeOK, DataOK, Push
  <1>3. fate' \in [Tasks -> Fates]
    BY DEF TypeOK, DataOK, Push, Fates
  <1>4. DataOK'
    BY <1>1, <1>2, <1>3 DEF TypeOK, DataOK, Push, sync
  <1>5. ThreadsOK'
    BY ClientGoto DEF TypeOK, Push, ClientStates
  <1>6. QED
    BY <1>4, <1>5 DEF TypeOK

LEMMA RefuseType ==
  ASSUME TypeOK, NEW c \in Clients, NEW t, Refuse(c, t),
         clientsWaiting' \in 0 .. UIntMax, puts' \in 0 .. MaxTasks, arg' = arg
  PROVE  TypeOK'
  <1>1. ThreadsOK'
    BY ClientGoto DEF TypeOK, Refuse, ClientStates
  <1>2. DataOK'
    BY DEF TypeOK, DataOK, Refuse, sync, Fates
  <1>3. QED
    BY <1>1, <1>2 DEF TypeOK

LEMMA PutType ==
  ASSUME TypeOK, NEW c \in Clients, NEW flush \in BOOLEAN, Put(c, flush)
  PROVE  TypeOK'
  <1>1. puts + 1 \in Tasks /\ puts' \in 0 .. MaxTasks
    BY ParamsAssumption DEF TypeOK, DataOK, Put, Tasks
  <1>2. CASE /\ Refuse(c, puts + 1) /\ UNCHANGED <<clientsWaiting, arg>>
    BY <1>1, <1>2, RefuseType DEF TypeOK, DataOK
  <1>3. CASE /\ Push(c, puts + 1, flush) /\ UNCHANGED <<clientsWaiting, arg>>
    BY <1>1, <1>3, PushType DEF TypeOK, DataOK
  <1>4. CASE /\ clientsWaiting' = Inc(clientsWaiting)
             /\ ccond' = ccond \cup {c}
             /\ arg' = [arg EXCEPT ![c] = [task |-> puts + 1, flush |-> flush]]
             /\ fate' = [fate EXCEPT ![puts + 1] = "waiting"]
             /\ Goto(c, "put")
             /\ UNCHANGED <<queue, sync, workersWaiting, wcond, doing, starts>>
    <2>1. ThreadsOK'
      BY <1>1, <1>4, ThreadsAssumption DEF TypeOK, ThreadsOK, Goto, ClientStates
    <2>2. DataOK'
      BY <1>1, <1>4, Counters DEF TypeOK, DataOK, sync, Fates
    <2>3. QED
      BY <2>1, <2>2 DEF TypeOK
  <1>5. QED
    BY <1>2, <1>3, <1>4 DEF Put

LEMMA PutWakeType ==
  ASSUME TypeOK, NEW c \in Clients, PutWake(c)
  PROVE  TypeOK'
  <1>1. /\ puts' \in 0 .. MaxTasks /\ arg' = arg
        /\ arg[c].task \in Tasks /\ arg[c].flush \in BOOLEAN
    BY DEF TypeOK, DataOK, ThreadsOK, PutWake
  <1>2. Dec(clientsWaiting) \in 0 .. UIntMax
    BY Counters DEF TypeOK, DataOK
  <1>3. CASE clientsWaiting' = Dec(clientsWaiting) /\ Refuse(c, arg[c].task)
    BY <1>1, <1>2, <1>3, RefuseType
  <1>4. CASE clientsWaiting' = Dec(clientsWaiting)
             /\ Push(c, arg[c].task, arg[c].flush)
    BY <1>1, <1>2, <1>4, PushType
  <1>5. CASE /\ ccond' = ccond \cup {c}
             /\ UNCHANGED <<queue, sync, clientsWaiting, workersWaiting, wcond,
                            pc, doing, fate, starts>>
    BY <1>1, <1>5 DEF TypeOK, ThreadsOK, DataOK, sync
  <1>6. QED
    BY <1>3, <1>4, <1>5 DEF PutWake

LEMMA IdleType ==
  ASSUME TypeOK, NEW c \in Clients, WaitIdle(c) \/ IdleCheck(c)
  PROVE  TypeOK'
  <1>1. ThreadsOK'
    BY ClientGoto DEF TypeOK, WaitIdle, IdleCheck, ClientStates
  <1>2. clientsWaiting' \in 0 .. UIntMax /\ ccond' \subseteq Clients
    BY Counters DEF TypeOK, DataOK, WaitIdle, IdleCheck
  <1>3. DataOK'
    BY <1>2 DEF TypeOK, DataOK, WaitIdle, IdleCheck, sync, ledger
  <1>4. QED
    BY <1>1, <1>3 DEF TypeOK

LEMMA ControlType ==
  ASSUME TypeOK, NEW c \in Clients, Start(c) \/ CloseShop(c) \/ Terminate(c)
  PROVE  TypeOK'
  <1>1. CASE Start(c)
    <2>1. ThreadsOK'
      BY <1>1, ThreadsAssumption
      DEF TypeOK, ThreadsOK, Start, ClientStates, WorkerStates
    <2>2. DataOK'
      BY <1>1 DEF TypeOK, DataOK, Start, ledger
    <2>3. QED
      BY <2>1, <2>2 DEF TypeOK
  <1>2. CASE CloseShop(c)
    BY <1>2 DEF TypeOK, ThreadsOK, DataOK, CloseShop, ledger
  <1>3. CASE Terminate(c)
    <2>1. ThreadsOK'
      BY <1>3, ClientGoto DEF TypeOK, Terminate, ClientStates
    <2>2. QED
      BY <1>3, <2>1 DEF TypeOK, DataOK, Terminate, sync, ledger
  <1>4. QED
    BY <1>1, <1>2, <1>3

LEMMA TermCheckType ==
  ASSUME TypeOK, NEW c \in Clients, TermCheck(c)
  PROVE  TypeOK'
  <1>1. ASSUME JoinAndReset(c) PROVE ThreadsOK'
    BY <1>1, ThreadsAssumption, ParamsAssumption
    DEF TypeOK, ThreadsOK, JoinAndReset, TermCheck, ClientStates, WorkerStates
  <1>2. ASSUME Goto(c, "termsleep") \/ Goto(c, "idle") PROVE ThreadsOK'
    BY <1>2, ClientGoto DEF TypeOK, TermCheck, ClientStates
  <1>3. ThreadsOK'
    BY <1>1, <1>2 DEF TypeOK, TermCheck
  <1>4. clientsWaiting' \in 0 .. UIntMax
    <2>1. /\ clientsWaiting \in 0 .. UIntMax
          /\ Inc(clientsWaiting) \in 0 .. UIntMax
          /\ Inc(Dec(clientsWaiting)) \in 0 .. UIntMax
      BY Counters DEF TypeOK, DataOK
    <2>2. \/ clientsWaiting' \in {clientsWaiting, 0}
          \/ clientsWaiting' = Inc(clientsWaiting)
          \/ clientsWaiting' = Inc(Dec(clientsWaiting))
      BY DEF TermCheck, JoinAndReset
    <2>3. QED
      BY <2>1, <2>2, ParamsAssumption
  <1>5. /\ workersWaiting' \in 0 .. UIntMax /\ exited' \in Nat
        /\ threads' \in {{}, Workers}
        /\ ccond' \subseteq Clients /\ wcond' \subseteq Workers
    <2>1. /\ workersWaiting' \in {workersWaiting, 0} /\ exited' \in {exited, 0}
          /\ threads' \in {threads, {}}
          /\ ccond' \in {ccond, ccond \cup {c}} /\ wcond' \in {wcond, {}}
      BY DEF TermCheck, JoinAndReset
    <2>2. QED
      BY <2>1, ParamsAssumption DEF TypeOK, DataOK
  <1>6. ok' \in BOOLEAN
    <2>1. ok' \in {ok, TRUE, FALSE}
      BY DEF TermCheck, JoinAndReset
    <2>2. QED
      BY <2>1 DEF TypeOK, DataOK
  <1>7. DataOK'
    BY <1>4, <1>5, <1>6 DEF TypeOK, DataOK, TermCheck, ledger
  <1>8. QED
    BY <1>3, <1>7 DEF TypeOK

LEMMA TakeType ==
  ASSUME TypeOK, NEW w \in Workers, NEW n \in 0 .. UIntMax,
         \/ TakeNotOk(w, n) \/ TakeSleep(w, n) \/ TakeTask(w, n),
         UNCHANGED <<sync, clientsWaiting, arg, puts, starts>>
  PROVE  TypeOK'
  <1>1. ThreadsOK'
    BY WorkerGoto DEF TypeOK, TakeNotOk, TakeSleep, TakeTask, WorkerStates
  <1>2. CASE TakeNotOk(w, n)
    BY <1>1, <1>2 DEF TypeOK, DataOK, TakeNotOk, sync
  <1>3. CASE TakeSleep(w, n)
    BY <1>1, <1>3, Counters DEF TypeOK, DataOK, TakeSleep, sync
  <1>4. CASE TakeTask(w, n)
    <2>1. Head(queue) \in Tasks /\ Tail(queue) \in Seq(Tasks)
      BY <1>4, TakeFrom DEF TypeOK, DataOK, TakeTask
    <2>2. ccond' \subseteq Clients
      BY <1>4, NotifiedShrinks DEF TypeOK, DataOK, TakeTask
    <2>3. fate' \in [Tasks -> Fates]
      BY <1>4 DEF TypeOK, DataOK, TakeTask, Fates
    <2>4. QED
      BY <1>1, <1>4, <2>1, <2>2, <2>3 DEF TypeOK, DataOK, TakeTask, sync
  <1>5. QED
    BY <1>2, <1>3, <1>4

LEMMA WorkerType ==
  ASSUME TypeOK, NEW w \in Workers, WorkerStep(w) \/ TakeTimeout(w)
  PROVE  TypeOK'
  <1>1. CASE Take(w)
    <2>1. workersWaiting \in 0 .. UIntMax /\ Dec(workersWaiting) \in 0 .. UIntMax
      BY Counters DEF TypeOK, DataOK
    <2>2. QED
      BY <1>1, <2>1, TakeType DEF Take
  <1>2. CASE TakeTimeout(w)
    <2>1. ThreadsOK'
      BY <1>2, WorkerGoto DEF TypeOK, TakeTimeout, WorkerStates
    <2>2. QED
      BY <1>2, <2>1, Counters DEF TypeOK, DataOK, TakeTimeout, sync, ledger
  <1>3. CASE Work(w)
    <2>1. ThreadsOK'
      BY <1>3, WorkerGoto DEF TypeOK, Work, WorkerStates
    <2>2. fate' \in [Tasks -> Fates] /\ doing' \in [Workers -> Tasks \cup {NoTask}]
      BY <1>3 DEF TypeOK, DataOK, Work, Fates
    <2>3. QED
      BY <1>3, <2>1, <2>2 DEF TypeOK, DataOK, Work, sync
  <1>4. CASE WorkerExit(w)
    <2>1. ThreadsOK'
      BY <1>4, WorkerGoto DEF TypeOK, WorkerExit, WorkerStates
    <2>2. ok' \in BOOLEAN
      BY <1>4 DEF WorkerExit
    <2>3. exited' \in Nat /\ ccond' \subseteq Clients
      BY <1>4 DEF TypeOK, DataOK, WorkerExit
    <2>4. UNCHANGED <<queue, open, threads, clientsWaiting, workersWaiting,
                      wcond, doing, fate, puts, starts>>
      BY <1>4 DEF WorkerExit, ledger
    <2>5. QED
      BY <2>1, <2>2, <2>3, <2>4 DEF TypeOK, DataOK
  <1>5. QED
    BY <1>1, <1>2, <1>3, <1>4 DEF WorkerStep

LEMMA NextType == TypeOK /\ [Next]_vars => TypeOK'
  <1> SUFFICES ASSUME TypeOK, [Next]_vars PROVE TypeOK'
    OBVIOUS
  <1>1. ASSUME NEW c \in Clients, NEW flush \in BOOLEAN, Put(c, flush)
        PROVE  TypeOK'
    BY <1>1, PutType
  <1>2. ASSUME NEW c \in Clients,
               \/ Start(c) \/ CloseShop(c) \/ Terminate(c)
               \/ WaitIdle(c) \/ ClientResumes(c)
        PROVE  TypeOK'
    BY <1>2, PutWakeType, IdleType, TermCheckType, ControlType DEF ClientResumes
  <1>3. ASSUME NEW w \in Workers, WorkerStep(w) \/ TakeTimeout(w)
        PROVE  TypeOK'
    BY <1>3, WorkerType
  <1>4. CASE SpuriousWakeup
    BY <1>4 DEF TypeOK, ThreadsOK, DataOK, SpuriousWakeup, sync, ledger
  <1>5. CASE UNCHANGED vars
    BY <1>5 DEF TypeOK, ThreadsOK, DataOK, vars, sync, ledger
  <1>6. QED
    BY <1>1, <1>2, <1>3, <1>4, <1>5 DEF Next

\* The types of workqueue.h's members hold in every reachable state.
THEOREM TypeCorrect == Spec => []TypeOK
  <1>1. QED
    BY InitType, NextType, PTL DEF Spec

-----------------------------------------------------------------------------
\* The invariant behind NoLostWakeup.

\* The parts of it that are about the workers only.
Counted == WorkersCounted /\ ExitsCounted /\ BlockedInTake /\ NoneLeft

LEMMA FiniteCounts ==
  /\ IsFiniteSet(Waiters) /\ IsFiniteSet(Gone)
  /\ Cardinality(Waiters) \in Nat /\ Cardinality(Waiters) < UIntMax
  /\ Cardinality(Gone) \in Nat
  <1>1. /\ IsFiniteSet(Waiters) /\ IsFiniteSet(Gone)
        /\ Cardinality(Waiters) <= Cardinality(Workers)
    BY ThreadsAssumption, FS_Subset DEF Waiters, Gone
  <1>2. /\ Cardinality(Waiters) \in Nat /\ Cardinality(Gone) \in Nat
        /\ Cardinality(Workers) \in Nat
    BY <1>1, FS_CardinalityType, ThreadsAssumption
  <1>3. QED
    BY <1>1, <1>2, ParamsAssumption

\* A step that changes neither the workers nor their counters.
LEMMA CountedFrame ==
  ASSUME Counted, \A w \in Workers : pc'[w] = pc[w],
         UNCHANGED <<threads, exited, workersWaiting>>, wcond' \subseteq wcond,
         wcond \subseteq Workers
  PROVE  Counted'
  <1>1. Waiters' = Waiters /\ Gone' = Gone
    BY DEF Waiters, Gone
  <1>2. WorkersCounted' /\ ExitsCounted'
    BY <1>1 DEF Counted, WorkersCounted, ExitsCounted, Waiters, Gone
  <1>3. BlockedInTake' /\ NoneLeft'
    BY DEF Counted, BlockedInTake, NoneLeft
  <1>4. QED
    BY <1>2, <1>3 DEF Counted

\* A worker goes from one place to another.
LEMMA CountedMove ==
  ASSUME TypeOK, Counted, NEW w \in Workers, NEW s \in WorkerStates \ {"none"},
         Goto(w, s), pc[w] \notin {"none", "exited"}, threads' = threads,
         exited' = IF s = "exited" THEN exited + 1 ELSE exited,
         workersWaiting' = CASE pc[w] # "take" /\ s = "take" -> workersWaiting + 1
                             [] pc[w] = "take" /\ s # "take" -> workersWaiting - 1
                             [] OTHER -> workersWaiting,
         wcond' \subseteq IF s = "take" THEN wcond \cup {w} ELSE wcond \ {w}
  PROVE  Counted'
  <1>1. /\ pc' = [pc EXCEPT ![w] = s] /\ w \in DOMAIN pc
        /\ \A v \in Workers : pc'[v] = IF v = w THEN s ELSE pc[v]
        /\ wcond \subseteq Workers
    BY DEF TypeOK, ThreadsOK, DataOK, Goto
  <1>2. Waiters' = IF s = "take" THEN Waiters \cup {w} ELSE Waiters \ {w}
    BY <1>1 DEF Waiters
  <1>3. Gone' = IF s = "exited" THEN Gone \cup {w} ELSE Gone
    BY <1>1 DEF Gone
  <1>4. /\ workersWaiting = Cardinality(Waiters)
        /\ exited = Cardinality(Gone)
    BY DEF Counted, WorkersCounted, ExitsCounted, Waiters, Gone
  <1>5. workersWaiting' = Cardinality(Waiters')
    <2>1. w \in Waiters <=> pc[w] = "take"
      BY DEF Waiters
    <2>2. CASE s = "take"
      BY <1>2, <1>4, <2>1, <2>2, FiniteCounts, FS_AddElement
    <2>3. CASE s # "take"
      BY <1>2, <1>4, <2>1, <2>3, FiniteCounts, FS_RemoveElement
    <2>4. QED
      BY <2>2, <2>3
  <1>6. exited' = Cardinality(Gone')
    <2>1. w \notin Gone
      BY DEF Gone
    <2>2. QED
      BY <1>3, <1>4, <2>1, FiniteCounts, FS_AddElement
  <1>7. BlockedInTake'
    BY <1>1 DEF Counted, BlockedInTake
  <1>8. NoneLeft'
    BY DEF Counted, NoneLeft
  <1>9. QED
    BY <1>5, <1>6, <1>7, <1>8
    DEF Counted, WorkersCounted, ExitsCounted, Waiters, Gone

\* The counters hold the exact numbers, so Inc and Dec are + 1 and - 1.
LEMMA ExactCounters ==
  ASSUME TypeOK, Counted
  PROVE  /\ Inc(workersWaiting) = workersWaiting + 1
         /\ \A w \in Workers : pc[w] = "take" =>
              /\ Dec(workersWaiting) = workersWaiting - 1
              /\ Inc(Dec(workersWaiting)) = workersWaiting
  <1>1. workersWaiting = Cardinality(Waiters) /\ workersWaiting \in 0 .. UIntMax
    BY DEF TypeOK, DataOK, Counted, WorkersCounted, Waiters
  <1>2. workersWaiting < UIntMax
    BY <1>1, FiniteCounts
  <1>3. ASSUME NEW w \in Workers, pc[w] = "take" PROVE workersWaiting > 0
    <2>1. Waiters # {}
      BY <1>3 DEF Waiters
    <2>2. QED
      BY <1>1, <2>1, FiniteCounts, FS_EmptySet
  <1>4. QED
    BY <1>1, <1>2, <1>3, ParamsAssumption DEF Inc, Dec

LEMMA InitInv == Init => IInv
  <1> SUFFICES ASSUME Init PROVE IInv
    OBVIOUS
  <1>1. \A w \in Workers : pc[w] = "none"
    BY ThreadsAssumption DEF Init
  <1>2. Waiters = {} /\ Gone = {}
    BY <1>1 DEF Waiters, Gone
  <1>3. WorkersCounted /\ ExitsCounted
    BY <1>2, FS_EmptySet DEF Init, WorkersCounted, ExitsCounted, Waiters, Gone
  <1>4. QueueBound
    BY ParamsAssumption DEF Init, QueueBound
  <1>5. QED
    BY <1>1, <1>3, <1>4, InitType
    DEF Init, IInv, BlockedInTake, NoneLeft, NoLostWakeup, Ok

\* A client changes its own program counter only.
LEMMA ClientMove ==
  ASSUME TypeOK, NEW c \in Clients, NEW s, Goto(c, s)
  PROVE  \A w \in Workers : pc'[w] = pc[w]
BY ThreadsAssumption DEF TypeOK, ThreadsOK, Goto

\* put() of a task on the queue, when the queue is not full: no wakeup is lost
\* because a worker that waits without being counted does not exist.
LEMMA PushInv ==
  ASSUME IInv, NEW c \in Clients, NEW t \in Tasks, NEW flush \in BOOLEAN,
         Ok, ~ Full, Push(c, t, flush)
  PROVE  QueueBound' /\ Counted' /\ NoLostWakeup'
  <1>1. wcond' \subseteq wcond /\ wcond \subseteq Workers
    BY NotifiedShrinks DEF IInv, TypeOK, DataOK, Push
  <1>2. \A w \in Workers : pc'[w] = pc[w]
    BY ClientMove DEF IInv, Push
  <1>3. Counted'
    BY <1>1, <1>2, CountedFrame DEF IInv, Counted, Push, sync
  <1>4. Len(queue') = IF flush THEN 1 ELSE Len(queue) + 1
    BY PushOnto DEF IInv, TypeOK, DataOK, Push
  <1>5. QueueBound'
    BY <1>4, ParamsAssumption DEF IInv, TypeOK, DataOK, QueueBound, Full
  <1>6. \E w \in threads : w \notin wcond'
    <2>1. threads = Workers /\ threads # {}
      BY DEF Ok, IInv, TypeOK, DataOK
    <2>2. CASE wcond = {}
      BY <1>1, <2>1, <2>2
    <2>3. CASE wcond # {}
      <3>1. PICK w \in wcond : pc[w] = "take"
        BY <2>3 DEF IInv, BlockedInTake
      <3>2. Waiters # {}
        BY <1>1, <3>1 DEF Waiters
      <3>3. workersWaiting > 0
        BY <3>2, FiniteCounts, FS_EmptySet DEF IInv, WorkersCounted, Waiters
      <3>4. wcond' \in Notified(wcond)
        BY <3>3 DEF Push
      <3>5. QED
        BY <1>1, <2>1, <2>3, <3>4, NotifiedShrinks
    <2>4. QED
      BY <2>2, <2>3
  <1>7. NoLostWakeup'
    BY <1>6 DEF NoLostWakeup, Push, sync
  <1>8. QED
    BY <1>3, <1>5, <1>7

\* A step that leaves the queue, the workers and their synchronisation alone,
\* or only wakes workers.
LEMMA FrameInv ==
  ASSUME IInv, \A w \in Workers : pc'[w] = pc[w],
         UNCHANGED <<queue, threads, exited, workersWaiting>>,
         ok' => ok, wcond' \subseteq wcond
  PROVE  QueueBound' /\ Counted' /\ NoLostWakeup'
  <1>1. Counted'
    BY CountedFrame DEF IInv, Counted, TypeOK, DataOK
  <1>2. QueueBound'
    BY DEF IInv, QueueBound
  <1>3. NoLostWakeup'
    BY DEF IInv, NoLostWakeup, Ok
  <1>4. QED
    BY <1>1, <1>2, <1>3

Safe == QueueBound /\ Counted /\ NoLostWakeup

LEMMA PutInv ==
  ASSUME IInv, NEW c \in Clients, NEW flush \in BOOLEAN,
         Put(c, flush) \/ PutWake(c)
  PROVE  Safe'
  <1> USE DEF Safe
  <1>1. CASE Put(c, flush)
    <2>1. puts + 1 \in Tasks
      BY <1>1, ParamsAssumption DEF IInv, TypeOK, DataOK, Put, Tasks
    <2>2. CASE Ok /\ ~ Full /\ Push(c, puts + 1, flush)
      BY <2>1, <2>2, PushInv
    <2>3. CASE Refuse(c, puts + 1)
      BY <2>3, ClientMove, FrameInv DEF IInv, Refuse, sync
    <2>4. CASE /\ Goto(c, "put")
               /\ UNCHANGED <<queue, sync, workersWaiting, wcond, doing, starts>>
      BY <2>4, ClientMove, FrameInv DEF IInv, sync
    <2>5. QED
      BY <1>1, <2>2, <2>3, <2>4 DEF Put
  <1>2. CASE PutWake(c)
    <2>1. arg[c].task \in Tasks /\ arg[c].flush \in BOOLEAN
      BY <1>2 DEF IInv, TypeOK, ThreadsOK, PutWake
    <2>2. CASE Ok /\ ~ Full /\ Push(c, arg[c].task, arg[c].flush)
      BY <2>1, <2>2, PushInv
    <2>3. CASE Refuse(c, arg[c].task)
      BY <2>3, ClientMove, FrameInv DEF IInv, Refuse, sync
    <2>4. CASE UNCHANGED <<queue, sync, clientsWaiting, workersWaiting, wcond,
                           pc, doing, fate, starts>>
      BY <2>4, FrameInv DEF sync
    <2>5. QED
      BY <1>2, <2>2, <2>3, <2>4 DEF PutWake
  <1>3. QED
    BY <1>1, <1>2

LEMMA IdleInv ==
  ASSUME IInv, NEW c \in Clients,
         WaitIdle(c) \/ IdleCheck(c) \/ CloseShop(c) \/ Terminate(c)
  PROVE  Safe'
  <1>1. \A w \in Workers : pc'[w] = pc[w]
    BY ClientMove DEF IInv, WaitIdle, IdleCheck, CloseShop, Terminate
  <1>2. /\ UNCHANGED <<queue, ok, threads, exited, workersWaiting>>
        /\ wcond' = wcond
    BY DEF WaitIdle, IdleCheck, CloseShop, Terminate, sync
  <1>3. QED
    BY <1>1, <1>2, FrameInv DEF Safe

\* All workers are at the same place, outside take() and not past workerExit().
LEMMA AllAt ==
  ASSUME NEW s \in {"none", "run"}, \A w \in Workers : pc'[w] = s,
         workersWaiting' = 0, exited' = 0, wcond' = {},
         s = "none" \/ threads' # {}
  PROVE  Counted'
  <1>1. Waiters' = {} /\ Gone' = {}
    BY DEF Waiters, Gone
  <1>2. WorkersCounted' /\ ExitsCounted'
    BY <1>1, FS_EmptySet DEF WorkersCounted, ExitsCounted, Waiters, Gone
  <1>3. QED
    BY <1>2 DEF Counted, BlockedInTake, NoneLeft

LEMMA StartInv ==
  ASSUME IInv, NEW c \in Clients, Start(c)
  PROVE  Safe'
  <1>1. \A w \in Workers : pc[w] = "none"
    BY DEF IInv, NoneLeft, Start
  <1>2. Waiters = {} /\ Gone = {}
    BY <1>1 DEF Waiters, Gone
  <1>3. workersWaiting = 0 /\ exited = 0
    BY <1>2, FS_EmptySet DEF IInv, WorkersCounted, ExitsCounted, Waiters, Gone
  <1>4. wcond = {}
    BY <1>1 DEF IInv, TypeOK, DataOK, BlockedInTake
  <1>5. \A w \in Workers : pc'[w] = "run"
    BY DEF Start
  <1>6. threads' = Workers /\ Workers # {}
    BY ThreadsAssumption DEF Start
  <1>7. Counted'
    BY <1>3, <1>4, <1>5, <1>6, AllAt DEF Start
  <1>8. QueueBound' /\ NoLostWakeup'
    BY <1>4, <1>6 DEF IInv, QueueBound, NoLostWakeup, Start
  <1>9. QED
    BY <1>7, <1>8 DEF Safe

\* The workers are past workerExit() when they are joined.
LEMMA AllGone ==
  ASSUME IInv, threads # {}, exited >= Cardinality(threads)
  PROVE  \A w \in threads : pc[w] = "exited"
  <1>1. threads = Workers
    BY DEF IInv, TypeOK, DataOK
  <1>2. /\ Gone \in SUBSET Workers /\ exited = Cardinality(Gone)
        /\ Cardinality(Workers) \in Nat
    BY ThreadsAssumption, FS_CardinalityType DEF Gone, IInv, ExitsCounted
  <1>3. Cardinality(Gone) <= Cardinality(Workers)
    BY <1>2, ThreadsAssumption, FS_Subset
  <1>4. Cardinality(Gone) = Cardinality(Workers)
    BY <1>1, <1>2, <1>3, FiniteCounts
  <1>5. Gone = Workers
    BY <1>2, <1>4, ThreadsAssumption, FS_Subset
  <1>6. QED
    BY <1>1, <1>5 DEF Gone

LEMMA TermInv ==
  ASSUME IInv, NEW c \in Clients, TermCheck(c)
  PROVE  Safe'
  <1>1. CASE /\ wcond' = {} /\ Goto(c, "termsleep") /\ (ok' => ok)
             /\ UNCHANGED <<queue, threads, exited, workersWaiting>>
    BY <1>1, ClientMove, FrameInv DEF IInv, Safe
  <1>2. CASE /\ Goto(c, "idle")
             /\ UNCHANGED <<queue, ok, threads, exited, workersWaiting, wcond>>
    BY <1>2, ClientMove, FrameInv DEF IInv, Safe
  <1>3. CASE /\ exited >= Cardinality(threads) /\ JoinAndReset(c)
             /\ queue' = queue
    <2>1. \A w \in Workers : pc'[w] = "none"
      BY <1>3, ThreadsAssumption DEF JoinAndReset
    <2>2. \A w \in Workers : pc[w] # "take"
      BY <1>3, AllGone DEF IInv, TypeOK, DataOK, NoneLeft
    <2>3. wcond' = {}
      BY <1>3, <2>2 DEF IInv, TypeOK, DataOK, BlockedInTake, JoinAndReset
    <2>4. Counted'
      BY <1>3, <2>1, <2>3, AllAt DEF JoinAndReset
    <2>5. QueueBound' /\ NoLostWakeup'
      BY <1>3 DEF IInv, QueueBound, NoLostWakeup, Ok, JoinAndReset
    <2>6. QED
      BY <2>4, <2>5 DEF Safe
  <1>4. QED
    BY <1>1, <1>2, <1>3 DEF TermCheck

LEMMA TakeInv ==
  ASSUME IInv, NEW w \in Workers, Take(w)
  PROVE  Safe'
  <1> DEFINE n == IF pc[w] = "take" THEN Dec(workersWaiting) ELSE workersWaiting
  <1>1. /\ pc[w] \in {"run", "take"}
        /\ pc[w] = "take" => w \notin wcond
        /\ TakeNotOk(w, n) \/ TakeSleep(w, n) \/ TakeTask(w, n)
        /\ UNCHANGED <<ok, threads, exited>>
    BY DEF Take, sync
  <1>2. /\ TypeOK /\ Counted
        /\ n = IF pc[w] = "take" THEN workersWaiting - 1 ELSE workersWaiting
        /\ Inc(n) = IF pc[w] = "take" THEN workersWaiting ELSE workersWaiting + 1
    BY <1>1, ExactCounters DEF IInv, Counted
  <1>3. w \notin wcond /\ wcond \subseteq Workers
    BY <1>1 DEF IInv, BlockedInTake, TypeOK, DataOK
  <1> HIDE DEF n
  <1>4. CASE TakeNotOk(w, n)
    <2>1. Counted'
      BY <1>1, <1>2, <1>3, <1>4, CountedMove DEF TakeNotOk, WorkerStates
    <2>2. QED
      BY <1>1, <1>4, <2>1
      DEF Safe, IInv, QueueBound, NoLostWakeup, Ok, TakeNotOk
  <1>5. CASE TakeSleep(w, n)
    <2>1. Counted'
      BY <1>1, <1>2, <1>3, <1>5, CountedMove DEF TakeSleep, WorkerStates
    <2>2. QED
      BY <1>1, <1>5, <2>1, ParamsAssumption
      DEF Safe, IInv, TypeOK, DataOK, QueueBound, NoLostWakeup, TakeSleep
  <1>6. CASE TakeTask(w, n)
    <2>1. Counted'
      BY <1>1, <1>2, <1>3, <1>6, CountedMove DEF TakeTask, WorkerStates
    <2>2. queue' \in Seq(Tasks) /\ Len(queue') = Len(queue) - 1
      BY <1>6, TakeFrom DEF IInv, TypeOK, DataOK, TakeTask
    <2>3. QueueBound'
      BY <2>2, ParamsAssumption DEF IInv, TypeOK, DataOK, QueueBound
    <2>4. w \in threads /\ w \notin wcond'
      BY <1>3, <1>6 DEF IInv, TypeOK, DataOK, TakeTask, Ok
    <2>5. NoLostWakeup'
      BY <1>1, <2>4 DEF NoLostWakeup
    <2>6. QED
      BY <2>1, <2>3, <2>5 DEF Safe
  <1>7. QED
    BY <1>1, <1>4, <1>5, <1>6

LEMMA WorkerInv ==
  ASSUME IInv, NEW w \in Workers, WorkerStep(w) \/ TakeTimeout(w)
  PROVE  Safe'
  <1>1. CASE Take(w)
    BY <1>1, TakeInv
  <1>2. CASE TakeTimeout(w)
    <2>1. Counted'
      BY <1>2, ExactCounters, CountedMove
      DEF IInv, Counted, TakeTimeout, sync, WorkerStates
    <2>2. QED
      BY <1>2, <2>1
      DEF Safe, IInv, QueueBound, NoLostWakeup, Ok, TakeTimeout, sync
  <1>3. CASE Work(w)
    <2>1. w \notin wcond
      BY <1>3 DEF IInv, BlockedInTake, Work
    <2>2. Counted'
      BY <1>3, <2>1, CountedMove DEF IInv, Counted, Work, sync, WorkerStates
    <2>3. QED
      BY <1>3, <2>2 DEF Safe, IInv, QueueBound, NoLostWakeup, Ok, Work, sync
  <1>4. CASE WorkerExit(w)
    <2>1. w \notin wcond
      BY <1>4 DEF IInv, BlockedInTake, WorkerExit
    <2>2. Counted'
      BY <1>4, <2>1, CountedMove DEF IInv, Counted, WorkerExit, WorkerStates
    <2>3. QED
      BY <1>4, <2>2 DEF Safe, IInv, QueueBound, NoLostWakeup, Ok, WorkerExit
  <1>5. QED
    BY <1>1, <1>2, <1>3, <1>4 DEF WorkerStep

LEMMA NextInv == IInv /\ [Next]_vars => IInv'
  <1> SUFFICES ASSUME IInv, [Next]_vars PROVE IInv'
    OBVIOUS
  <1>1. TypeOK'
    BY NextType DEF IInv
  <1>2. ASSUME NEW c \in Clients, NEW flush \in BOOLEAN, Put(c, flush)
        PROVE  Safe'
    BY <1>2, PutInv
  <1>3. ASSUME NEW c \in Clients,
               \/ Start(c) \/ CloseShop(c) \/ Terminate(c)
               \/ WaitIdle(c) \/ ClientResumes(c)
        PROVE  Safe'
    BY <1>3, StartInv, IdleInv, PutInv, TermInv DEF ClientResumes
  <1>4. ASSUME NEW w \in Workers, WorkerStep(w) \/ TakeTimeout(w)
        PROVE  Safe'
    BY <1>4, WorkerInv
  <1>5. ASSUME SpuriousWakeup PROVE Safe'
    BY <1>5, FrameInv DEF SpuriousWakeup, Safe, sync
  <1>6. ASSUME UNCHANGED vars PROVE Safe'
    BY <1>6, FrameInv DEF vars, Safe, sync
  <1>7. Safe'
    BY <1>2, <1>3, <1>4, <1>5, <1>6 DEF Next
  <1>8. QED
    BY <1>1, <1>7 DEF IInv, Safe, Counted

\* A client inside setTerminateAndWait() is moved by TermCheck only.
LEMMA OthersStay ==
  ASSUME IInv, [Next]_vars, NEW c \in Clients, pc[c] \in {"term", "termsleep"},
         ~ TermCheck(c), pc'[c] = "idle"
  PROVE  pc'[c] = pc[c]
  <1> USE ThreadsAssumption DEF IInv, TypeOK, ThreadsOK, Goto
  <1>1. ASSUME NEW d \in Clients, NEW flush \in BOOLEAN,
               \/ Start(d) \/ CloseShop(d) \/ Put(d, flush) \/ WaitIdle(d)
               \/ Terminate(d)
        PROVE  pc'[c] = pc[c]
    BY <1>1 DEF Start, CloseShop, Put, Push, Refuse, WaitIdle, Terminate
  <1>2. ASSUME NEW d \in Clients, PutWake(d) \/ IdleCheck(d)
        PROVE  pc'[c] = pc[c]
    BY <1>2 DEF PutWake, Push, Refuse, IdleCheck
  <1>3. ASSUME NEW d \in Clients, TermCheck(d)
        PROVE  pc'[c] = pc[c]
    BY <1>3 DEF TermCheck, JoinAndReset
  <1>4. ASSUME NEW w \in Workers, WorkerStep(w) \/ TakeTimeout(w)
        PROVE  pc'[c] = pc[c]
    BY <1>4 DEF WorkerStep, Take, TakeNotOk, TakeSleep, TakeTask, Work,
                WorkerExit, TakeTimeout
  <1>5. CASE SpuriousWakeup \/ UNCHANGED vars
    BY <1>5 DEF SpuriousWakeup, vars
  <1>6. QED
    BY <1>1, <1>2, <1>3, <1>4, <1>5 DEF Next, ClientResumes

\* A client inside waitIdle() is moved by IdleCheck only.
LEMMA OthersStayIdle ==
  ASSUME IInv, [Next]_vars, NEW c \in Clients,
         pc[c] \in {"waitidle", "idlesleep"}, ~ IdleCheck(c)
  PROVE  pc'[c] = pc[c]
  <1> USE ThreadsAssumption DEF IInv, TypeOK, ThreadsOK, Goto
  <1>1. ASSUME NEW d \in Clients, NEW flush \in BOOLEAN,
               \/ Start(d) \/ CloseShop(d) \/ Put(d, flush) \/ WaitIdle(d)
               \/ Terminate(d)
        PROVE  pc'[c] = pc[c]
    BY <1>1 DEF Start, CloseShop, Put, Push, Refuse, WaitIdle, Terminate
  <1>2. ASSUME NEW d \in Clients, PutWake(d) \/ IdleCheck(d)
        PROVE  pc'[c] = pc[c]
    BY <1>2 DEF PutWake, Push, Refuse, IdleCheck
  <1>3. ASSUME NEW d \in Clients, TermCheck(d)
        PROVE  pc'[c] = pc[c]
    BY <1>3 DEF TermCheck, JoinAndReset
  <1>4. ASSUME NEW w \in Workers, WorkerStep(w) \/ TakeTimeout(w)
        PROVE  pc'[c] = pc[c]
    BY <1>4 DEF WorkerStep, Take, TakeNotOk, TakeSleep, TakeTask, Work,
                WorkerExit, TakeTimeout
  <1>5. CASE SpuriousWakeup \/ UNCHANGED vars
    BY <1>5 DEF SpuriousWakeup, vars
  <1>6. QED
    BY <1>1, <1>2, <1>3, <1>4, <1>5 DEF Next, ClientResumes

-----------------------------------------------------------------------------
\* The invariant behind ExactlyOnce.

\* What push_back() adds to the queue and what pop_front() takes from it.
LEMMA PushedTasks ==
  ASSUME NEW q \in Seq(Tasks), NEW t \in Tasks
  PROVE  LET r == Append(q, t) IN
           /\ Len(r) = Len(q) + 1
           /\ \A k \in 1 .. Len(q) : r[k] = q[k]
           /\ r[Len(q) + 1] = t
BY AppendProperties

LEMMA PoppedTasks ==
  ASSUME NEW q \in Seq(Tasks), Len(q) >= Low
  PROVE  /\ Len(q) > 0 /\ q[1] = Head(q)
         /\ Len(Tail(q)) = Len(q) - 1
         /\ \A k \in 1 .. Len(q) - 1 : Tail(q)[k] = q[k + 1]
  <1>1. q # <<>> /\ Len(q) > 0
    BY ParamsAssumption
  <1>2. QED
    BY <1>1, HeadTailProperties

\* A step that moves no task: threads go elsewhere, but not into put() and
\* neither to nor from the execution of a task.
LEMMA TasksFrame ==
  ASSUME TaskInv, UNCHANGED <<queue, arg, doing, fate, puts>>,
         \A c \in Clients : pc'[c] = "put" => pc[c] = "put",
         \A w \in Workers : pc'[w] = "work" <=> pc[w] = "work"
  PROVE  TaskInv'
BY DEF TaskInv, Numbered, WaitersOwn, Executing, ExactlyOnce, InQueue

\* put() queues a task that is on no queue yet, and may flush the others.
LEMMA PushTasks ==
  ASSUME TypeOK, TaskInv, NEW c \in Clients, NEW t \in Tasks, NEW flush \in BOOLEAN,
         Push(c, t, flush), puts' >= puts, puts' \in Nat, t <= puts', arg' = arg,
         \/ fate[t] = "new" /\ pc[c] # "put"
         \/ pc[c] = "put" /\ arg[c].task = t
  PROVE  TaskInv'
  <1> USE DEF TaskInv
  <1>1. /\ queue \in Seq(Tasks) /\ fate \in [Tasks -> Fates]
        /\ doing \in [Workers -> Tasks \cup {NoTask}]
        /\ \A d \in Clients : pc[d] = "put" => arg[d].task \in Tasks
        /\ puts \in Nat /\ Tasks \subseteq Nat
    BY ParamsAssumption DEF TypeOK, ThreadsOK, DataOK, Tasks
  <1>2. /\ \A d \in Clients : pc'[d] = IF d = c THEN "idle" ELSE pc[d]
        /\ \A w \in Workers : pc'[w] = pc[w]
    BY ThreadsAssumption DEF TypeOK, ThreadsOK, Push, Goto
  <1>3. fate[t] \in {"new", "waiting"}
    BY DEF WaitersOwn
  <1>4. /\ \A i \in Tasks : fate'[i] = IF i = t THEN "queued"
                                       ELSE IF flush /\ fate[i] = "queued" THEN "flushed"
                                       ELSE fate[i]
        /\ doing' = doing
    BY <1>1 DEF Push
  <1>5. Numbered'
    BY <1>1, <1>4 DEF Numbered
  <1>6. WaitersOwn'
    <2>1. \A d \in Clients : pc'[d] = "put" => d # c /\ pc[d] = "put" /\ arg[d].task # t
      BY <1>2 DEF WaitersOwn
    <2>2. QED
      BY <1>1, <1>4, <2>1 DEF WaitersOwn
  <1>7. Executing'
    BY <1>2, <1>4 DEF Executing
  <1> DEFINE q == IF flush THEN <<>> ELSE queue
  <1>8. /\ q \in Seq(Tasks) /\ queue' = Append(q, t) /\ Len(q) \in Nat
        /\ flush => Len(q) = 0
        /\ ~ flush => q = queue
    BY <1>1 DEF Push
  <1> HIDE DEF q
  <1>9. /\ Len(queue') = Len(q) + 1
        /\ \A k \in 1 .. Len(q) : queue'[k] = q[k]
        /\ queue'[Len(q) + 1] = t
    BY <1>8, PushedTasks
  <1>10. \A i \in Tasks : fate'[i] = "queued" <=> InQueue(i)'
    <2> SUFFICES ASSUME NEW i \in Tasks
                 PROVE  fate'[i] = "queued" <=> InQueue(i)'
      OBVIOUS
    <2>1. CASE i = t
      BY <1>4, <1>8, <1>9, <2>1 DEF InQueue
    <2>2. CASE i # t /\ flush
      BY <1>4, <1>8, <1>9, <2>2 DEF InQueue
    <2>3. CASE i # t /\ ~ flush
      <3>1. InQueue(i)' <=> InQueue(i)
        BY <1>8, <1>9, <2>3 DEF InQueue
      <3>2. QED
        BY <1>4, <2>3, <3>1 DEF ExactlyOnce
    <2>4. QED
      BY <2>1, <2>2, <2>3
  <1>11. \A i \in Tasks : fate'[i] = "taken" <=> \E w \in Workers : doing'[w] = i
    BY <1>3, <1>4 DEF ExactlyOnce
  <1>12. \A j, k \in 1 .. Len(queue') : queue'[j] = queue'[k] => j = k
    <2>1. \A k \in 1 .. Len(q) : q[k] # t
      BY <1>3, <1>8 DEF ExactlyOnce, InQueue
    <2>2. \A j, k \in 1 .. Len(q) : q[j] = q[k] => j = k
      BY <1>8 DEF ExactlyOnce
    <2>3. QED
      BY <1>8, <1>9, <2>1, <2>2
  <1>13. ExactlyOnce'
    BY <1>4, <1>10, <1>11, <1>12 DEF ExactlyOnce
  <1>14. QED
    BY <1>5, <1>6, <1>7, <1>13

\* put() gives up a task that is on no queue.
LEMMA RefuseTasks ==
  ASSUME TypeOK, TaskInv, NEW c \in Clients, NEW t \in Tasks,
         Refuse(c, t), puts' >= puts, puts' \in Nat, t <= puts', arg' = arg,
         \/ fate[t] = "new" /\ pc[c] # "put"
         \/ pc[c] = "put" /\ arg[c].task = t
  PROVE  TaskInv'
  <1> USE DEF TaskInv
  <1>1. /\ fate \in [Tasks -> Fates] /\ puts \in Nat /\ Tasks \subseteq Nat
        /\ \A d \in Clients : pc[d] = "put" => arg[d].task \in Tasks
    BY ParamsAssumption DEF TypeOK, ThreadsOK, DataOK, Tasks
  <1>2. /\ \A d \in Clients : pc'[d] = IF d = c THEN "idle" ELSE pc[d]
        /\ \A w \in Workers : pc'[w] = pc[w]
    BY ThreadsAssumption DEF TypeOK, ThreadsOK, Refuse, Goto
  <1>3. fate[t] \in {"new", "waiting"}
    BY DEF WaitersOwn
  <1>4. /\ \A i \in Tasks : fate'[i] = IF i = t THEN "refused" ELSE fate[i]
        /\ doing' = doing /\ queue' = queue
    BY <1>1 DEF Refuse
  <1>5. Numbered'
    BY <1>1, <1>4 DEF Numbered
  <1>6. WaitersOwn'
    <2>1. \A d \in Clients : pc'[d] = "put" => d # c /\ pc[d] = "put" /\ arg[d].task # t
      BY <1>2 DEF WaitersOwn
    <2>2. QED
      BY <1>1, <1>4, <2>1 DEF WaitersOwn
  <1>7. Executing'
    BY <1>2, <1>4 DEF Executing
  <1>8. ExactlyOnce'
    BY <1>3, <1>4 DEF ExactlyOnce, InQueue
  <1>9. QED
    BY <1>5, <1>6, <1>7, <1>8

LEMMA PutTasks ==
  ASSUME TypeOK, TaskInv, NEW c \in Clients, NEW flush \in BOOLEAN, Put(c, flush)
  PROVE  TaskInv'
  <1> USE DEF TaskInv
  <1>1. /\ puts + 1 \in Tasks /\ puts' = puts + 1 /\ puts \in Nat /\ Tasks \subseteq Nat
        /\ pc[c] = "idle"
    BY ParamsAssumption DEF TypeOK, DataOK, Put, Tasks
  <1>2. fate[puts + 1] = "new"
    BY <1>1 DEF Numbered
  <1>3. CASE Refuse(c, puts + 1) /\ arg' = arg
    BY <1>1, <1>2, <1>3, RefuseTasks
  <1>4. CASE Push(c, puts + 1, flush) /\ arg' = arg
    BY <1>1, <1>2, <1>4, PushTasks
  <1>5. CASE /\ arg' = [arg EXCEPT ![c] = [task |-> puts + 1, flush |-> flush]]
             /\ fate' = [fate EXCEPT ![puts + 1] = "waiting"]
             /\ Goto(c, "put")
             /\ UNCHANGED <<queue, doing>>
    <2>1. /\ \A d \in Clients : pc'[d] = IF d = c THEN "put" ELSE pc[d]
          /\ \A w \in Workers : pc'[w] = pc[w]
          /\ \A d \in Clients : arg'[d].task = IF d = c THEN puts + 1 ELSE arg[d].task
      BY <1>5, ThreadsAssumption DEF TypeOK, ThreadsOK, Goto
    <2>2. \A i \in Tasks : fate'[i] = IF i = puts + 1 THEN "waiting" ELSE fate[i]
      BY <1>5 DEF TypeOK, DataOK
    <2>3. \A d \in Clients : pc[d] = "put" => arg[d].task \in Tasks /\ arg[d].task # puts + 1
      BY <1>2 DEF TypeOK, ThreadsOK, WaitersOwn
    <2>4. WaitersOwn'
      <3>1. ASSUME NEW d \in Clients, pc'[d] = "put" PROVE fate'[arg'[d].task] = "waiting"
        <4>1. CASE d = c
          <5>1. arg'[d].task = puts + 1
            BY <2>1, <4>1
          <5>2. QED
            BY <1>1, <2>2, <5>1
        <4>2. CASE d # c
          <5>1. pc[d] = "put" /\ arg'[d].task = arg[d].task
            BY <2>1, <3>1, <4>2
          <5>2. arg[d].task \in Tasks /\ arg[d].task # puts + 1 /\ fate[arg[d].task] = "waiting"
            BY <2>3, <5>1 DEF WaitersOwn
          <5>3. QED
            BY <2>2, <5>1, <5>2
        <4>3. QED
          BY <4>1, <4>2
      <3>2. ASSUME NEW d \in Clients, NEW e \in Clients, pc'[d] = "put", pc'[e] = "put",
                   arg'[e].task = arg'[d].task
            PROVE  e = d
        <4>1. CASE d # c /\ e # c
          BY <2>1, <3>2, <4>1 DEF WaitersOwn
        <4>2. CASE d = c \/ e = c
          BY <1>1, <2>1, <2>3, <3>2, <4>2
        <4>3. QED
          BY <4>1, <4>2
      <3>3. QED
        BY <3>1, <3>2 DEF WaitersOwn
    <2>5. Numbered'
      BY <1>1, <2>2 DEF Numbered
    <2>6. Executing'
      BY <1>5, <2>1 DEF Executing
    <2>7. ExactlyOnce'
      BY <1>1, <1>2, <1>5, <2>2 DEF ExactlyOnce, InQueue
    <2>8. QED
      BY <2>4, <2>5, <2>6, <2>7
  <1>6. QED
    BY <1>3, <1>4, <1>5 DEF Put

LEMMA PutWakeTasks ==
  ASSUME TypeOK, TaskInv, NEW c \in Clients, PutWake(c)
  PROVE  TaskInv'
  <1> DEFINE t == arg[c].task
  <1>1. /\ t \in Tasks /\ arg[c].flush \in BOOLEAN
        /\ puts' = puts /\ puts \in Nat /\ arg' = arg /\ pc[c] = "put"
    BY DEF TypeOK, DataOK, ThreadsOK, PutWake
  <1>2. t <= puts
    BY <1>1, ParamsAssumption DEF TaskInv, WaitersOwn, Numbered, Tasks
  <1>3. CASE Refuse(c, t)
    BY <1>1, <1>2, <1>3, RefuseTasks
  <1>4. CASE Push(c, t, arg[c].flush)
    BY <1>1, <1>2, <1>4, PushTasks
  <1>5. CASE UNCHANGED <<queue, pc, doing, fate>>
    BY <1>1, <1>5, TasksFrame
  <1>6. QED
    BY <1>3, <1>4, <1>5 DEF PutWake

\* What the other operations of the clients do: none of them touches a task.
LEMMA ClientTasks ==
  ASSUME IInv, TaskInv, NEW c \in Clients,
         Start(c) \/ CloseShop(c) \/ Terminate(c) \/ WaitIdle(c) \/ IdleCheck(c) \/ TermCheck(c)
  PROVE  TaskInv'
  <1>1. UNCHANGED <<queue, arg, doing, fate, puts>>
    BY DEF Start, CloseShop, Terminate, WaitIdle, IdleCheck, TermCheck, ledger
  <1>2. CASE Start(c)
    <2>1. \A w \in Workers : pc[w] = "none" /\ pc'[w] = "run"
      BY <1>2 DEF IInv, NoneLeft, Start
    <2>2. \A d \in Clients : pc'[d] = pc[d]
      BY <1>2, ThreadsAssumption DEF Start
    <2>3. QED
      BY <1>1, <2>1, <2>2, TasksFrame
  <1>3. ASSUME NEW s \in {"term", "termsleep", "waitidle", "idlesleep", "idle"}, Goto(c, s)
        PROVE  TaskInv'
    <2>1. /\ \A d \in Clients : pc'[d] = IF d = c THEN s ELSE pc[d]
          /\ \A w \in Workers : pc'[w] = pc[w]
      BY <1>3, ThreadsAssumption DEF IInv, TypeOK, ThreadsOK, Goto
    <2>2. QED
      BY <1>1, <2>1, TasksFrame
  <1>4. ASSUME exited >= Cardinality(threads), JoinAndReset(c)
        PROVE  TaskInv'
    <2>1. /\ \A w \in Workers : pc'[w] = "none"
          /\ \A d \in Clients : pc'[d] = IF d = c THEN "idle" ELSE pc[d]
      BY <1>4, ThreadsAssumption DEF JoinAndReset
    <2>2. \A w \in Workers : pc[w] # "work"
      BY <1>4, AllGone DEF IInv, TypeOK, DataOK, NoneLeft
    <2>3. QED
      BY <1>1, <2>1, <2>2, TasksFrame
  <1>5. CASE CloseShop(c)
    BY <1>1, <1>5, TasksFrame DEF CloseShop
  <1>6. QED
    BY <1>2, <1>3, <1>4, <1>5 DEF Terminate, WaitIdle, IdleCheck, TermCheck

\* take() hands the first task of the queue to the worker.
LEMMA TakeTasks ==
  ASSUME IInv, TaskInv, NEW w \in Workers, NEW n, TakeTask(w, n),
         pc[w] # "work", UNCHANGED <<arg, puts>>
  PROVE  TaskInv'
  <1> USE DEF TaskInv
  <1>1. /\ queue \in Seq(Tasks) /\ fate \in [Tasks -> Fates]
        /\ doing \in [Workers -> Tasks \cup {NoTask}] /\ Len(queue) >= Low
        /\ Head(queue) \in Tasks /\ queue' = Tail(queue)
    BY TakeFrom DEF IInv, TypeOK, DataOK, TakeTask
  <1>2. /\ \A v \in Workers : pc'[v] = IF v = w THEN "work" ELSE pc[v]
        /\ \A c \in Clients : pc'[c] = pc[c]
    BY ThreadsAssumption DEF IInv, TypeOK, ThreadsOK, TakeTask, Goto
  <1> DEFINE t == Head(queue)
  <1>3. /\ \A v \in Workers : doing'[v] = IF v = w THEN t ELSE doing[v]
        /\ \A i \in Tasks : fate'[i] = IF i = t THEN "taken" ELSE fate[i]
    BY <1>1 DEF TakeTask
  <1>4. /\ Len(queue) > 0 /\ queue[1] = t /\ Len(queue) \in Nat
        /\ Len(queue') = Len(queue) - 1
        /\ \A k \in 1 .. Len(queue) - 1 : queue'[k] = queue[k + 1]
    BY <1>1, PoppedTasks
  <1> HIDE DEF t
  <1>5. fate[t] = "queued" /\ t \in Tasks /\ t # NoTask
    <2>1. t \in Tasks /\ InQueue(t)
      BY <1>1, <1>4 DEF t, InQueue
    <2>2. QED
      BY <2>1, ParamsAssumption DEF ExactlyOnce, Tasks, NoTask
  <1>6. doing[w] = NoTask /\ \A v \in Workers : doing[v] # t
    BY <1>5 DEF Executing, ExactlyOnce
  <1>7. Numbered'
    BY <1>3, <1>5 DEF Numbered
  <1>8. WaitersOwn'
    <2>1. \A c \in Clients : pc[c] = "put" => arg[c].task \in Tasks /\ arg[c].task # t
      BY <1>5 DEF WaitersOwn, IInv, TypeOK, ThreadsOK
    <2>2. QED
      BY <1>2, <1>3, <2>1 DEF WaitersOwn
  <1>9. Executing'
    BY <1>2, <1>3, <1>5, <1>6 DEF Executing
  <1>10. \A i \in Tasks : InQueue(i)' <=> InQueue(i) /\ i # t
    <2> SUFFICES ASSUME NEW i \in Tasks PROVE InQueue(i)' <=> InQueue(i) /\ i # t
      OBVIOUS
    <2>1. ASSUME NEW k \in 1 .. Len(queue'), queue'[k] = i PROVE InQueue(i) /\ i # t
      <3>1. k + 1 \in 1 .. Len(queue) /\ queue[k + 1] = i /\ k + 1 # 1 /\ 1 \in 1 .. Len(queue)
        BY <1>4, <2>1
      <3>2. QED
        BY <1>4, <3>1 DEF InQueue, ExactlyOnce
    <2>2. ASSUME NEW k \in 1 .. Len(queue), queue[k] = i, i # t PROVE InQueue(i)'
      <3>1. k - 1 \in 1 .. Len(queue') /\ queue'[k - 1] = i
        BY <1>4, <2>2
      <3>2. QED
        BY <3>1 DEF InQueue
    <2>3. QED
      BY <2>1, <2>2 DEF InQueue
  <1>11. \A j, k \in 1 .. Len(queue') : queue'[j] = queue'[k] => j = k
    <2> SUFFICES ASSUME NEW j \in 1 .. Len(queue'), NEW k \in 1 .. Len(queue'), queue'[j] = queue'[k]
                 PROVE  j = k
      OBVIOUS
    <2>1. j + 1 \in 1 .. Len(queue) /\ k + 1 \in 1 .. Len(queue) /\ queue[j + 1] = queue[k + 1]
      BY <1>4
    <2>2. QED
      BY <2>1 DEF ExactlyOnce
  <1>12. ExactlyOnce'
    <2>1. \A i \in Tasks : fate'[i] = "queued" <=> InQueue(i)'
      BY <1>3, <1>10 DEF ExactlyOnce
    <2>2. \A i \in Tasks : fate'[i] = "taken" <=> \E v \in Workers : doing'[v] = i
      BY <1>3, <1>5, <1>6, ParamsAssumption DEF ExactlyOnce, Tasks, NoTask
    <2>3. \A u, v \in Workers : doing'[u] = doing'[v] /\ doing'[u] # NoTask => u = v
      BY <1>3, <1>6 DEF ExactlyOnce
    <2>4. QED
      BY <1>11, <2>1, <2>2, <2>3 DEF ExactlyOnce
  <1>13. QED
    BY <1>7, <1>8, <1>9, <1>12

\* A worker completes its task or gives up.
LEMMA WorkTasks ==
  ASSUME IInv, TaskInv, NEW w \in Workers, Work(w)
  PROVE  TaskInv'
  <1> USE DEF TaskInv
  <1>1. /\ fate \in [Tasks -> Fates] /\ doing \in [Workers -> Tasks \cup {NoTask}]
        /\ pc[w] = "work" /\ UNCHANGED <<queue, arg, puts>>
    BY DEF IInv, TypeOK, DataOK, Work
  <1> DEFINE t == doing[w]
  <1>2. t \in Tasks /\ t # NoTask /\ fate[t] = "taken"
    BY <1>1 DEF Executing, ExactlyOnce
  <1>3. PICK end \in {"done", "failed"}, s \in {"run", "exit"} :
          /\ \A i \in Tasks : fate'[i] = IF i = t THEN end ELSE fate[i]
          /\ \A v \in Workers : doing'[v] = IF v = w THEN NoTask ELSE doing[v]
          /\ \A v \in Workers : pc'[v] = IF v = w THEN s ELSE pc[v]
          /\ \A c \in Clients : pc'[c] = pc[c]
    <2>1. /\ \/ fate' = [fate EXCEPT ![t] = "done"] /\ Goto(w, "run")
             \/ fate' = [fate EXCEPT ![t] = "failed"] /\ Goto(w, "exit")
          /\ doing' = [doing EXCEPT ![w] = NoTask]
      BY DEF Work
    <2>2. QED
      BY <1>1, <2>1, ThreadsAssumption DEF IInv, TypeOK, ThreadsOK, Goto
  <1> HIDE DEF t
  <1>4. Numbered'
    BY <1>1, <1>2, <1>3 DEF Numbered
  <1>5. WaitersOwn'
    <2>1. \A c \in Clients : pc[c] = "put" => arg[c].task \in Tasks /\ arg[c].task # t
      BY <1>2 DEF WaitersOwn, IInv, TypeOK, ThreadsOK
    <2>2. QED
      BY <1>1, <1>3, <2>1 DEF WaitersOwn
  <1>6. Executing'
    BY <1>3 DEF Executing
  <1>7. \A v \in Workers : v # w => doing[v] # t
    BY <1>2 DEF t, ExactlyOnce
  <1>8. ExactlyOnce'
    <2>1. \A i \in Tasks : fate'[i] = "queued" <=> InQueue(i)'
      BY <1>1, <1>2, <1>3 DEF ExactlyOnce, InQueue
    <2>2. \A i \in Tasks : fate'[i] = "taken" <=> \E v \in Workers : doing'[v] = i
      BY <1>2, <1>3, <1>7, ParamsAssumption DEF ExactlyOnce, Tasks, NoTask, t
    <2>3. \A u, v \in Workers : doing'[u] = doing'[v] /\ doing'[u] # NoTask => u = v
      BY <1>3 DEF ExactlyOnce
    <2>4. QED
      BY <1>1, <2>1, <2>2, <2>3 DEF ExactlyOnce
  <1>9. QED
    BY <1>4, <1>5, <1>6, <1>8

LEMMA WorkerTasks ==
  ASSUME IInv, TaskInv, NEW w \in Workers, WorkerStep(w) \/ TakeTimeout(w)
  PROVE  TaskInv'
  <1>1. ASSUME UNCHANGED <<queue, arg, doing, fate, puts>>, pc[w] # "work",
               NEW s \in {"exit", "take", "run", "exited"}, Goto(w, s)
        PROVE  TaskInv'
    <2>1. /\ \A v \in Workers : pc'[v] = IF v = w THEN s ELSE pc[v]
          /\ \A c \in Clients : pc'[c] = pc[c]
      BY <1>1, ThreadsAssumption DEF IInv, TypeOK, ThreadsOK, Goto
    <2>2. QED
      BY <1>1, <2>1, TasksFrame
  <1>2. CASE Take(w)
    <2>1. PICK n : TakeNotOk(w, n) \/ TakeSleep(w, n) \/ TakeTask(w, n)
      BY <1>2 DEF Take
    <2>2. pc[w] # "work" /\ UNCHANGED <<arg, puts>>
      BY <1>2 DEF Take
    <2>3. CASE TakeNotOk(w, n) \/ TakeSleep(w, n)
      BY <1>1, <2>2, <2>3 DEF TakeNotOk, TakeSleep
    <2>4. CASE TakeTask(w, n)
      BY <2>2, <2>4, TakeTasks
    <2>5. QED
      BY <2>1, <2>3, <2>4
  <1>3. CASE TakeTimeout(w)
    BY <1>1, <1>3 DEF TakeTimeout, ledger
  <1>4. CASE WorkerExit(w)
    BY <1>1, <1>4 DEF WorkerExit, ledger
  <1>5. CASE Work(w)
    BY <1>5, WorkTasks
  <1>6. QED
    BY <1>2, <1>3, <1>4, <1>5 DEF WorkerStep

LEMMA InitTasks == Init => TaskInv
  <1> SUFFICES ASSUME Init PROVE TaskInv
    OBVIOUS
  <1>1. \A w \in Workers : pc[w] = "none" /\ doing[w] = NoTask
    BY ThreadsAssumption DEF Init
  <1>2. \A c \in Clients : pc[c] = "idle"
    BY DEF Init
  <1>3. /\ \A i \in Tasks : fate[i] = "new" /\ i # NoTask
        /\ Len(queue) = 0
    BY ParamsAssumption DEF Init, Tasks, NoTask
  <1>4. QED
    BY <1>1, <1>2, <1>3
    DEF TaskInv, Numbered, WaitersOwn, Executing, ExactlyOnce, InQueue

LEMMA NextTasks == IInv /\ TaskInv /\ [Next]_vars => TaskInv'
  <1> SUFFICES ASSUME IInv, TaskInv, [Next]_vars PROVE TaskInv'
    OBVIOUS
  <1>1. ASSUME NEW c \in Clients, NEW flush \in BOOLEAN, Put(c, flush)
        PROVE  TaskInv'
    BY <1>1, PutTasks DEF IInv
  <1>2. ASSUME NEW c \in Clients,
               \/ Start(c) \/ CloseShop(c) \/ Terminate(c)
               \/ WaitIdle(c) \/ ClientResumes(c)
        PROVE  TaskInv'
    BY <1>2, ClientTasks, PutWakeTasks DEF IInv, ClientResumes
  <1>3. ASSUME NEW w \in Workers, WorkerStep(w) \/ TakeTimeout(w)
        PROVE  TaskInv'
    BY <1>3, WorkerTasks
  <1>4. CASE SpuriousWakeup
    BY <1>4, TasksFrame DEF SpuriousWakeup, ledger
  <1>5. CASE UNCHANGED vars
    BY <1>5, TasksFrame DEF vars, ledger
  <1>6. QED
    BY <1>1, <1>2, <1>3, <1>4, <1>5 DEF Next

-----------------------------------------------------------------------------
\* Whatever the number of clients and workers and the sizes m_high and m_low,
\* put() never loses the wakeup of a worker.
THEOREM NeverLostWakeup == Spec => []NoLostWakeup
  <1>1. IInv => NoLostWakeup
    BY DEF IInv
  <1>2. QED
    BY <1>1, InitInv, NextInv, PTL DEF Spec

\* A task is queued once or executed by one worker, and no task is executed after
\* put() refused or flushed it, whatever fails, times out or is joined.
THEOREM TasksRunOnce == Spec => []ExactlyOnce
  <1>1. TaskInv => ExactlyOnce
    BY DEF TaskInv
  <1>2. QED
    BY <1>1, InitInv, NextInv, InitTasks, NextTasks, PTL DEF Spec

\* The queue never holds more than m_high tasks.
THEOREM QueueIsBounded == Spec => []QueueBound
  <1>1. IInv => QueueBound
    BY DEF IInv
  <1>2. QED
    BY <1>1, InitInv, NextInv, PTL DEF Spec

\* m_workers_waiting is exact, even when workers time out, fail or are joined.
THEOREM WorkersAreCounted == Spec => []WorkersCounted
  <1>1. IInv => WorkersCounted
    BY DEF IInv
  <1>2. QED
    BY <1>1, InitInv, NextInv, PTL DEF Spec

\* The join of setTerminateAndWait(), done with the mutex held, only waits for
\* workers that no longer need the mutex.
THEOREM JoinIsSafe == Spec => JoinNeverBlocks
  <1>1. ASSUME IInv, [Next]_vars, NEW c \in Clients,
               pc[c] \in {"term", "termsleep"}, pc'[c] = "idle"
        PROVE  \A w \in threads : pc[w] = "exited"
    <2>1. SUFFICES ASSUME threads # {} PROVE \A w \in threads : pc[w] = "exited"
      OBVIOUS
    <2>2. exited >= Cardinality(threads)
      <3>1. CASE TermCheck(c)
        BY <1>1, <3>1 DEF TermCheck, Goto, IInv, TypeOK, ThreadsOK
      <3>2. CASE ~ TermCheck(c)
        <4>1. pc'[c] = pc[c]
          BY <1>1, <3>2, OthersStay
        <4>2. QED
          BY <1>1, <4>1
      <3>3. QED
        BY <3>1, <3>2
    <2>3. QED
      BY <1>1, <2>1, <2>2, AllGone
  <1>2. IInv /\ [Next]_vars =>
          [\A c \in Clients :
             pc[c] \in {"term", "termsleep"} /\ pc'[c] = "idle"
               => \A w \in threads : pc[w] = "exited"]_vars
    BY <1>1
  <1>3. QED
    BY <1>2, InitInv, NextInv, PTL DEF Spec, JoinNeverBlocks

\* waitIdle() does not return from a queue in service while a task is queued or
\* executed.
THEOREM WaitIdleIsTrue == Spec => WaitIdleTrue
  <1>1. ASSUME IInv, [Next]_vars, NEW c \in Clients,
               pc[c] \in {"waitidle", "idlesleep"}, pc'[c] = "idle", Ok
        PROVE  queue = <<>> /\ \A w \in Workers : pc[w] = "take"
    <2>1. IdleCheck(c)
      <3>1. pc'[c] # pc[c]
        BY <1>1
      <3>2. QED
        BY <1>1, <3>1, OthersStayIdle
    <2>2. ~ Busy
      BY <1>1, <2>1 DEF IdleCheck, Goto, IInv, TypeOK, ThreadsOK
    <2>3. /\ threads = Workers /\ exited = 0
          /\ Cardinality(Workers) \in Nat /\ Cardinality(Workers) # 0
      BY <1>1, ThreadsAssumption, FS_CardinalityType, FS_EmptySet
      DEF Ok, IInv, TypeOK, DataOK
    <2>4. Waiters \in SUBSET Workers /\ workersWaiting = Cardinality(Waiters)
      BY <1>1 DEF Waiters, IInv, WorkersCounted
    <2>5. Cardinality(Waiters) = Cardinality(Workers)
      <3>1. Cardinality(Waiters) <= Cardinality(Workers)
        BY <2>4, ThreadsAssumption, FS_Subset
      <3>2. ~ (Cardinality(Waiters) + 0 < Cardinality(Workers))
        BY <2>2, <2>3, <2>4 DEF Busy
      <3>3. QED
        BY <2>3, <3>1, <3>2, FiniteCounts
    <2>6. Waiters = Workers
      BY <2>4, <2>5, ThreadsAssumption, FS_Subset
    <2>7. queue = <<>>
      <3>1. ~ (Len(queue) > 0) /\ queue \in Seq(Tasks)
        BY <1>1, <2>2, <2>3 DEF Busy, IInv, TypeOK, DataOK
      <3>2. QED
        BY <3>1, EmptySeq
    <2>8. QED
      BY <2>6, <2>7 DEF Waiters
  <1>2. IInv /\ [Next]_vars =>
          [\A c \in Clients :
             pc[c] \in {"waitidle", "idlesleep"} /\ pc'[c] = "idle" /\ Ok
               => queue = <<>> /\ \A w \in Workers : pc[w] = "take"]_vars
    BY <1>1
  <1>3. QED
    BY <1>2, InitInv, NextInv, PTL DEF Spec, WaitIdleTrue
=============================================================================
