------------------------------ MODULE WorkQueue ------------------------------
(***************************************************************************)
(* The WorkQueue template of src/src/workqueue.h: client threads put tasks *)
(* on a queue, worker threads take them.  One mutex protects everything,   *)
(* so the code between two waits is one action; a wait on m_ccond or       *)
(* m_wcond splits an operation in two.  A thread blocked in a wait is in   *)
(* ccond or wcond; a thread that was notified (or woke spuriously) has     *)
(* left the set but has not run yet.                                       *)
(*                                                                         *)
(* Workers follow the loop that the class comment prescribes: take a task, *)
(* execute it, call workerExit() and return when take() fails.             *)
(***************************************************************************)
EXTENDS Naturals, Sequences, FiniteSets

CONSTANTS
  Clients,    \* threads that call put, waitIdle, setTerminateAndWait
  Workers,    \* threads created by start(); all of them at each start
  High,       \* m_high: queue size that blocks put, 0 for no limit
  Low,        \* m_low: minimum queue size for a worker to take
  UIntMax,    \* largest unsigned int: the waiting counters wrap around
  MaxTasks,   \* bound on the number of put calls
  MaxStarts,  \* bound on the number of start calls
  TimedTake,  \* TRUE if the workers give take() a wait duration
  MayFail     \* TRUE if a worker may give up after an unrecoverable error

ASSUME ThreadsAssumption ==
  /\ IsFiniteSet(Clients)
  /\ IsFiniteSet(Workers) /\ Workers # {}
  /\ Clients \cap Workers = {}

ASSUME ParamsAssumption ==
  /\ High \in Nat /\ Low \in Nat \ {0}
  /\ UIntMax \in Nat /\ Cardinality(Workers) < UIntMax
  /\ MaxTasks \in Nat /\ MaxStarts \in Nat
  /\ TimedTake \in BOOLEAN /\ MayFail \in BOOLEAN

Tasks  == 1 .. MaxTasks
NoTask == 0

VARIABLES
  queue,           \* m_queue
  ok,              \* m_ok
  open,            \* m_openforbusiness
  threads,         \* m_worker_threads
  exited,          \* m_workers_exited
  clientsWaiting,  \* m_clients_waiting
  workersWaiting,  \* m_workers_waiting
  ccond,           \* clients blocked on m_ccond
  wcond,           \* workers blocked on m_wcond
  pc,              \* where each thread is
  arg,             \* the arguments of each client's put
  doing,           \* the task each worker executes
  fate,            \* what became of each task (history)
  puts,            \* number of put calls so far
  starts           \* number of start calls so far

sync   == <<ok, open, threads, exited>>
ledger == <<fate, puts>>
vars == <<queue, sync, clientsWaiting, workersWaiting, ccond, wcond, pc, arg,
          doing, ledger, starts>>

ClientStates == {"idle", "put", "waitidle", "idlesleep", "term", "termsleep"}
WorkerStates == {"none", "run", "take", "work", "exit", "exited"}
Fates == {"new", "waiting", "refused", "queued", "flushed", "taken", "done",
          "failed"}

Init ==
  /\ queue = <<>>
  /\ ok = TRUE /\ open = TRUE /\ threads = {} /\ exited = 0
  /\ clientsWaiting = 0 /\ workersWaiting = 0
  /\ ccond = {} /\ wcond = {}
  /\ pc = [t \in Clients \cup Workers |-> IF t \in Clients THEN "idle" ELSE "none"]
  /\ arg = [c \in Clients |-> [task |-> NoTask, flush |-> FALSE]]
  /\ doing = [w \in Workers |-> NoTask]
  /\ fate = [i \in Tasks |-> "new"]
  /\ puts = 0 /\ starts = 0

-----------------------------------------------------------------------------
\* Helpers: the predicate ok(), the unsigned counters, the notifications.

Ok   == ok /\ exited = 0 /\ threads # {}
Full == High > 0 /\ Len(queue) >= High

Inc(n) == IF n = UIntMax THEN 0 ELSE n + 1
Dec(n) == IF n = 0 THEN UIntMax ELSE n - 1

\* Mutant of Notified: the notification is forgotten.
NotNotified(S) == {S}

\* The sets that notify_one may leave of the set S of blocked threads.
Notified(S) == IF S = {} THEN {S} ELSE {S \ {t} : t \in S}

Goto(t, where) == pc' = [pc EXCEPT ![t] = where]

-----------------------------------------------------------------------------
\* start(): by one client, when no worker is left from an earlier start.
Start(c) ==
  /\ pc[c] = "idle" /\ threads = {} /\ starts < MaxStarts
  /\ starts' = starts + 1
  /\ threads' = Workers
  /\ pc' = [t \in Clients \cup Workers |-> IF t \in Workers THEN "run" ELSE pc[t]]
  /\ UNCHANGED <<queue, ok, open, exited, clientsWaiting, workersWaiting,
                 ccond, wcond, arg, doing, ledger>>

\* closeShop(): sets the flag without the mutex.
CloseShop(c) ==
  /\ pc[c] = "idle" /\ open
  /\ open' = FALSE
  /\ UNCHANGED <<queue, ok, threads, exited, clientsWaiting, workersWaiting,
                 ccond, wcond, pc, arg, doing, ledger, starts>>

\* The end of put(): flush if asked, push, wake one worker.
Push(c, task, flush) ==
  /\ queue' = Append(IF flush THEN <<>> ELSE queue, task)
  /\ fate' = [i \in Tasks |->
                IF i = task THEN "queued"
                ELSE IF flush /\ fate[i] = "queued" THEN "flushed" ELSE fate[i]]
  /\ wcond' \in IF workersWaiting > 0 THEN Notified(wcond) ELSE {wcond}
  /\ Goto(c, "idle")
  /\ UNCHANGED <<sync, workersWaiting, ccond, doing, starts>>

\* put() returns false: the task was not queued.
Refuse(c, task) ==
  /\ fate' = [fate EXCEPT ![task] = "refused"]
  /\ Goto(c, "idle")
  /\ UNCHANGED <<queue, sync, workersWaiting, ccond, wcond, doing, starts>>

\* put() up to its return or to its first wait.
Put(c, flush) ==
  /\ pc[c] = "idle" /\ puts < MaxTasks
  /\ puts' = puts + 1
  /\ \/ /\ ~ (Ok /\ open)
        /\ Refuse(c, puts + 1)
        /\ UNCHANGED <<clientsWaiting, arg>>
     \/ /\ Ok /\ open /\ ~ Full
        /\ Push(c, puts + 1, flush)
        /\ UNCHANGED <<clientsWaiting, arg>>
     \/ /\ Ok /\ open /\ Full
        /\ clientsWaiting' = Inc(clientsWaiting)
        /\ ccond' = ccond \cup {c}
        /\ arg' = [arg EXCEPT ![c] = [task |-> puts + 1, flush |-> flush]]
        /\ fate' = [fate EXCEPT ![puts + 1] = "waiting"]
        /\ Goto(c, "put")
        /\ UNCHANGED <<queue, sync, workersWaiting, wcond, doing, starts>>

\* put() when its wait returns: give up, finish, or wait again.
PutWake(c) ==
  /\ pc[c] = "put" /\ c \notin ccond
  /\ UNCHANGED <<puts, arg>>
  /\ \/ /\ ~ Ok
        /\ clientsWaiting' = Dec(clientsWaiting)
        /\ Refuse(c, arg[c].task)
     \/ /\ Ok /\ ~ Full
        /\ clientsWaiting' = Dec(clientsWaiting)
        /\ Push(c, arg[c].task, arg[c].flush)
     \/ /\ Ok /\ Full
        /\ ccond' = ccond \cup {c}
        /\ UNCHANGED <<queue, sync, clientsWaiting, workersWaiting, wcond, pc,
                       doing, fate, starts>>

-----------------------------------------------------------------------------
\* Mutant of Busy: the queue is not looked at.
BusyWorkersOnly == workersWaiting + exited < Cardinality(threads)

\* waitIdle(): tasks are left that some worker can take, or a worker works.
Busy == \/ Len(queue) > 0 /\ exited < Cardinality(threads)
        \/ workersWaiting + exited < Cardinality(threads)

WaitIdle(c) ==
  /\ pc[c] = "idle"
  /\ Goto(c, "waitidle")
  /\ UNCHANGED <<queue, sync, clientsWaiting, workersWaiting, ccond, wcond,
                 arg, doing, ledger, starts>>

\* With the mutex: on entry and each time the wait returns.
IdleCheck(c) ==
  /\ pc[c] \in {"waitidle", "idlesleep"} /\ c \notin ccond
  /\ LET n == IF pc[c] = "idlesleep" THEN Dec(clientsWaiting) ELSE clientsWaiting
     IN  \/ /\ Busy
            /\ clientsWaiting' = Inc(n)
            /\ ccond' = ccond \cup {c}
            /\ Goto(c, "idlesleep")
         \/ /\ ~ Busy
            /\ clientsWaiting' = n
            /\ Goto(c, "idle")
            /\ UNCHANGED ccond
  /\ UNCHANGED <<queue, sync, workersWaiting, wcond, arg, doing, ledger, starts>>

-----------------------------------------------------------------------------
\* Mutant of JoinAndReset: m_workers_exited is not reset.
JoinNoReset(c) ==
  /\ threads' = {} /\ ok' = TRUE
  /\ clientsWaiting' = 0 /\ workersWaiting' = 0
  /\ pc' = [t \in Clients \cup Workers |->
              IF t = c THEN "idle" ELSE IF t \in Workers THEN "none" ELSE pc[t]]
  /\ UNCHANGED <<ccond, wcond, exited>>

\* setTerminateAndWait() (also the destructor).
\* The threads are joined and the queue is reset for another start.
JoinAndReset(c) ==
  /\ threads' = {} /\ exited' = 0 /\ ok' = TRUE
  /\ clientsWaiting' = 0 /\ workersWaiting' = 0
  /\ pc' = [t \in Clients \cup Workers |->
              IF t = c THEN "idle" ELSE IF t \in Workers THEN "none" ELSE pc[t]]
  /\ UNCHANGED <<ccond, wcond>>

\* Nothing to do when the workers are gone already.
Terminate(c) ==
  /\ pc[c] = "idle" /\ threads # {}
  /\ Goto(c, "term")
  /\ UNCHANGED <<queue, sync, clientsWaiting, workersWaiting, ccond, wcond,
                 arg, doing, ledger, starts>>

\* With the mutex: on entry, and each time the wait returns.
TermCheck(c) ==
  /\ pc[c] \in {"term", "termsleep"} /\ c \notin ccond
  /\ LET n == IF pc[c] = "termsleep" THEN Dec(clientsWaiting) ELSE clientsWaiting
     IN  \/ /\ exited < Cardinality(threads)
            /\ ok' = IF pc[c] = "term" THEN FALSE ELSE ok
            /\ wcond' = {}
            /\ clientsWaiting' = Inc(n)
            /\ ccond' = ccond \cup {c}
            /\ Goto(c, "termsleep")
            /\ UNCHANGED <<threads, exited, workersWaiting>>
         \/ /\ exited >= Cardinality(threads)
            /\ \/ /\ pc[c] = "term" /\ threads = {}
                  /\ Goto(c, "idle")
                  /\ UNCHANGED <<ok, threads, exited, clientsWaiting,
                                 workersWaiting, ccond, wcond>>
               \/ /\ pc[c] = "termsleep" \/ threads # {}
                  /\ JoinAndReset(c)
  /\ UNCHANGED <<queue, open, arg, doing, ledger, starts>>

-----------------------------------------------------------------------------
\* take(): the exits of one evaluation of its wait loop, with n the value of
\* m_workers_waiting once the calling worker is no longer counted.

TakeNotOk(w, n) ==
  /\ ~ Ok
  /\ workersWaiting' = n
  /\ Goto(w, "exit")
  /\ UNCHANGED <<queue, ccond, wcond, doing, fate>>

\* Mutant of TakeSleep: clients are not told that the queue is empty.
TakeSleepSilent(w, n) ==
  /\ Ok /\ Len(queue) < Low
  /\ workersWaiting' = Inc(n)
  /\ wcond' = wcond \cup {w}
  /\ Goto(w, "take")
  /\ UNCHANGED <<queue, ccond, doing, fate>>

TakeSleep(w, n) ==
  /\ Ok /\ Len(queue) < Low
  /\ workersWaiting' = Inc(n)
  /\ ccond' = IF queue = <<>> THEN {} ELSE ccond
  /\ wcond' = wcond \cup {w}
  /\ Goto(w, "take")
  /\ UNCHANGED <<queue, doing, fate>>

\* Mutant of TakeTask: the task is not popped.
TakeTaskKept(w, n) ==
  /\ Ok /\ Len(queue) >= Low
  /\ workersWaiting' = n
  /\ doing' = [doing EXCEPT ![w] = Head(queue)]
  /\ fate' = [fate EXCEPT ![Head(queue)] = "taken"]
  /\ ccond' \in IF clientsWaiting > 0 THEN Notified(ccond) ELSE {ccond}
  /\ Goto(w, "work")
  /\ UNCHANGED <<queue, wcond>>

TakeTask(w, n) ==
  /\ Ok /\ Len(queue) >= Low
  /\ workersWaiting' = n
  /\ doing' = [doing EXCEPT ![w] = Head(queue)]
  /\ fate' = [fate EXCEPT ![Head(queue)] = "taken"]
  /\ queue' = Tail(queue)
  /\ ccond' \in IF clientsWaiting > 0 THEN Notified(ccond) ELSE {ccond}
  /\ Goto(w, "work")
  /\ UNCHANGED wcond

Take(w) ==
  /\ \/ /\ pc[w] = "run"
        /\ \/ TakeNotOk(w, workersWaiting)
           \/ TakeSleep(w, workersWaiting)
           \/ TakeTask(w, workersWaiting)
     \/ /\ pc[w] = "take" /\ w \notin wcond
        /\ \/ TakeNotOk(w, Dec(workersWaiting))
           \/ TakeSleep(w, Dec(workersWaiting))
           \/ TakeTask(w, Dec(workersWaiting))
  /\ UNCHANGED <<sync, clientsWaiting, arg, puts, starts>>

\* The wait duration is over, whether or not a notification came too: take()
\* returns true with a null task and the worker calls it again.
TakeTimeout(w) ==
  /\ TimedTake /\ pc[w] = "take"
  /\ workersWaiting' = Dec(workersWaiting)
  /\ wcond' = wcond \ {w}
  /\ Goto(w, "run")
  /\ UNCHANGED <<queue, sync, clientsWaiting, ccond, arg, doing, ledger, starts>>

\* The worker's own code: it completes the task, or fails and stops.
Work(w) ==
  /\ pc[w] = "work"
  /\ doing' = [doing EXCEPT ![w] = NoTask]
  /\ \/ /\ fate' = [fate EXCEPT ![doing[w]] = "done"]
        /\ Goto(w, "run")
     \/ /\ MayFail
        /\ fate' = [fate EXCEPT ![doing[w]] = "failed"]
        /\ Goto(w, "exit")
  /\ UNCHANGED <<queue, sync, clientsWaiting, workersWaiting, ccond, wcond,
                 arg, puts, starts>>

\* workerExit(): the thread counts itself out and stops the queue.
WorkerExit(w) ==
  /\ pc[w] = "exit"
  /\ exited' = exited + 1
  /\ ok' = FALSE
  /\ ccond' = {}
  /\ Goto(w, "exited")
  /\ UNCHANGED <<queue, open, threads, clientsWaiting, workersWaiting, wcond,
                 arg, doing, ledger, starts>>

\* Condition variables may wake a thread for no reason.
SpuriousWakeup ==
  /\ \/ \E c \in ccond : ccond' = ccond \ {c} /\ UNCHANGED wcond
     \/ \E w \in wcond : wcond' = wcond \ {w} /\ UNCHANGED ccond
  /\ UNCHANGED <<queue, sync, clientsWaiting, workersWaiting, pc, arg, doing,
                 ledger, starts>>

-----------------------------------------------------------------------------
\* What a client does when it resumes, and everything a worker does.
ClientResumes(c) == PutWake(c) \/ IdleCheck(c) \/ TermCheck(c)
WorkerStep(w)    == Take(w) \/ Work(w) \/ WorkerExit(w)

Next ==
  \/ \E c \in Clients : \/ Start(c)
                        \/ CloseShop(c)
                        \/ \E flush \in BOOLEAN : Put(c, flush)
                        \/ WaitIdle(c)
                        \/ Terminate(c)
                        \/ ClientResumes(c)
  \/ \E w \in Workers : WorkerStep(w) \/ TakeTimeout(w)
  \/ SpuriousWakeup

Spec == Init /\ [][Next]_vars

\* A thread that is not blocked is eventually scheduled.  Nothing forces a
\* client to make a call, a wait to time out or to wake up spuriously.
FairSpec ==
  /\ Spec
  /\ \A c \in Clients : WF_vars(ClientResumes(c))
  /\ \A w \in Workers : WF_vars(WorkerStep(w))
-----------------------------------------------------------------------------
\* Properties.

InQueue(i) == \E k \in 1 .. Len(queue) : queue[k] = i

\* The values each variable may have; a client that waits in put() has a task.
ThreadsOK ==
  /\ pc \in [Clients \cup Workers -> ClientStates \cup WorkerStates]
  /\ \A c \in Clients : pc[c] \in ClientStates
  /\ \A w \in Workers : pc[w] \in WorkerStates
  /\ arg \in [Clients -> [task : Tasks \cup {NoTask}, flush : BOOLEAN]]
  /\ \A c \in Clients : pc[c] = "put" => arg[c].task \in Tasks

DataOK ==
  /\ queue \in Seq(Tasks)
  /\ ok \in BOOLEAN /\ open \in BOOLEAN
  /\ threads \in {{}, Workers}
  /\ exited \in Nat
  /\ clientsWaiting \in 0 .. UIntMax /\ workersWaiting \in 0 .. UIntMax
  /\ ccond \subseteq Clients /\ wcond \subseteq Workers
  /\ doing \in [Workers -> Tasks \cup {NoTask}]
  /\ fate \in [Tasks -> Fates]
  /\ puts \in 0 .. MaxTasks /\ starts \in Nat

TypeOK == ThreadsOK /\ DataOK

\* put() never leaves more than m_high tasks on the queue, however many clients
\* were waiting for the same free place (the wait of put() is in a loop).
QueueBound == High > 0 => Len(queue) <= High

\* m_workers_waiting is the number of workers inside the wait of take(),
\* blocked or already notified: put() relies on it to skip the notification and
\* waitIdle() to decide that nobody works.
WorkersCounted == workersWaiting = Cardinality({w \in Workers : pc[w] = "take"})

\* The queue is running, holds enough tasks, and yet every worker is blocked:
\* the wakeup of put() was lost.  This never happens.
NoLostWakeup == Ok /\ Len(queue) >= Low => \E w \in threads : w \notin wcond

\* The rest of the inductive invariant behind NoLostWakeup: only workers inside
\* take() are blocked, m_workers_exited counts the workers past workerExit(),
\* and no worker thread is left when m_worker_threads is empty.
BlockedInTake == \A w \in wcond : pc[w] = "take"
ExitsCounted  == exited = Cardinality({w \in Workers : pc[w] = "exited"})
NoneLeft      == threads = {} => \A w \in Workers : pc[w] = "none"

IInv == /\ TypeOK /\ QueueBound
        /\ WorkersCounted /\ ExitsCounted /\ BlockedInTake /\ NoneLeft
        /\ NoLostWakeup

\* A task is on the queue once or executed by one worker, never both, and a
\* task that was refused, flushed or finished is in neither place.
ExactlyOnce ==
  /\ \A i \in Tasks : fate[i] = "queued" <=> InQueue(i)
  /\ \A i \in Tasks : fate[i] = "taken" <=> \E w \in Workers : doing[w] = i
  /\ \A j, k \in 1 .. Len(queue) : queue[j] = queue[k] => j = k
  /\ \A v, w \in Workers : doing[v] = doing[w] /\ doing[v] # NoTask => v = w

\* The rest of the inductive invariant behind ExactlyOnce: numbers go to the calls
\* of put() in their order, each client that waits in put() has a waiting task of
\* its own, and a worker has a task while it executes one.
Numbered   == \A i \in Tasks : i > puts => fate[i] = "new"
WaitersOwn == \A c \in Clients : pc[c] = "put" =>
                /\ fate[arg[c].task] = "waiting"
                /\ \A d \in Clients : pc[d] = "put" /\ arg[d].task = arg[c].task => d = c
Executing  == \A w \in Workers : doing[w] # NoTask <=> pc[w] = "work"

TaskInv == Numbered /\ WaitersOwn /\ Executing /\ ExactlyOnce

\* When waitIdle() returns on a queue that still works, nothing is queued and
\* every worker is back in take(): no task is being executed.
WaitIdleTrue ==
  [][\A c \in Clients :
        pc[c] \in {"waitidle", "idlesleep"} /\ pc'[c] = "idle" /\ Ok
          => queue = <<>> /\ \A w \in Workers : pc[w] = "take"]_vars

\* setTerminateAndWait() joins the workers with the mutex held: each of them
\* must be past workerExit(), its last use of the mutex, or the join blocks.
JoinNeverBlocks ==
  [][\A c \in Clients :
        pc[c] \in {"term", "termsleep"} /\ pc'[c] = "idle"
          => \A w \in threads : pc[w] = "exited"]_vars

\* A queued task is eventually taken or flushed, unless the queue stops; and
\* put(), waitIdle() and setTerminateAndWait(), which share one condition
\* variable, eventually return; waitIdle() may miss the moment when all workers
\* wait as long as their timed waits keep ending.
CallsReturn ==
  /\ \A i \in Tasks : fate[i] = "queued" ~> (fate[i] # "queued" \/ ~ Ok)
  /\ \A c \in Clients :
       /\ pc[c] = "put" ~> pc[c] # "put"
       /\ \/ pc[c] \in {"waitidle", "idlesleep"} ~> pc[c] = "idle"
          \/ []<>(\E w \in Workers : pc[w] = "run")
       /\ pc[c] \in {"term", "termsleep"} ~> pc[c] = "idle"
=============================================================================
