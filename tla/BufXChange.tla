----------------------------- MODULE BufXChange -----------------------------
(***************************************************************************)
(* The BufXChange template of src/src/mediaserver/cdplugins/bufxchange.h:  *)
(* clients put buffers, workers take them and give them back.  The module  *)
(* has the object's state and its operations; the modules that extend it   *)
(* say which threads call them.  at[t] is the call that thread t is        *)
(* waiting in, "out" if none.  The parameter r of an operation is what it  *)
(* returns in this step: Yes, No, or Waits if it does not return yet.      *)
(*                                                                         *)
(* One mutex protects the object: an action runs until the call returns or *)
(* waits.  A thread blocked in a wait is in ccond or wcond; one that was   *)
(* notified has left the set but has not run yet.                          *)
(***************************************************************************)
EXTENDS Naturals, Sequences, FiniteSets

CONSTANTS
  Clients,      \* upstream threads
  Workers,      \* downstream threads
  High,         \* m_high: queue size that blocks put, 0 for no limit
  MaxRecycled,  \* m_maxrecycled: size of the recycling queue
  UIntMax,      \* largest unsigned int
  PutTimed,     \* TRUE if a put timeout is set
  TakeTimed     \* TRUE if a take timeout is set

ASSUME BufXAssumption ==
  /\ IsFiniteSet(Clients) /\ IsFiniteSet(Workers)
  /\ High \in Nat /\ MaxRecycled \in Nat \ {0} /\ UIntMax \in Nat \ {0}
  /\ PutTimed \in BOOLEAN /\ TakeTimed \in BOOLEAN

Threads  == Clients \cup Workers
NoBuf    == 0

\* What a call returns in a step.
Yes   == "true"
No    == "false"
Waits == "waits"
Result(b) == IF b THEN Yes ELSE No

NoArg    == [buf |-> NoBuf, flush |-> FALSE]

VARIABLES
  queue,           \* m_queue
  rqueue,          \* m_rqueue
  ok,              \* m_ok
  clientsWaiting,  \* m_clients_waiting
  workersWaiting,  \* m_workers_waiting
  ccond,           \* threads blocked on m_ccond
  wcond,           \* threads blocked on m_wcond
  at,              \* the call each thread waits in
  arg              \* the arguments of each put that waits

counts == <<clientsWaiting, workersWaiting>>
conds  == <<ccond, wcond>>
xvars  == <<queue, rqueue, ok, counts, conds, at, arg>>

XInit ==
  /\ queue = <<>> /\ rqueue = <<>> /\ ok = TRUE
  /\ clientsWaiting = 0 /\ workersWaiting = 0
  /\ ccond = {} /\ wcond = {}
  /\ at = [t \in Threads |-> "out"]
  /\ arg = [t \in Threads |-> NoArg]

-----------------------------------------------------------------------------

Full == High > 0 /\ Len(queue) >= High

Inc(n) == IF n = UIntMax THEN 0 ELSE n + 1
Dec(n) == IF n = 0 THEN UIntMax ELSE n - 1

\* The sets that notify_one may leave of the set S of blocked threads.
Notified(S) == IF S = {} THEN {S} ELSE {S \ {t} : t \in S}

Return(t)      == at' = [at EXCEPT ![t] = "out"]
WaitIn(t, call) == at' = [at EXCEPT ![t] = call]

-----------------------------------------------------------------------------
\* put(): the exits of one evaluation of its loop.

PutEnd(c, buf, flush, r) ==
  /\ ok /\ ~ Full
  /\ queue' = Append(IF flush THEN <<>> ELSE queue, buf)
  /\ wcond' \in IF workersWaiting > 0 THEN Notified(wcond) ELSE {wcond}
  /\ Return(c) /\ r = Yes
  /\ UNCHANGED ccond

PutRefused(c, r) == ~ ok /\ Return(c) /\ r = No /\ UNCHANGED <<queue, conds>>

PutSleeps(c, r) ==
  /\ ok /\ Full
  /\ ccond' = ccond \cup {c}
  /\ WaitIn(c, "put") /\ r = Waits
  /\ UNCHANGED <<queue, wcond>>

Put(c, buf, flush, r) ==
  /\ at[c] = "out"
  /\ \/ /\ PutEnd(c, buf, flush, r) \/ PutRefused(c, r)
        /\ UNCHANGED <<clientsWaiting, arg>>
     \/ /\ PutSleeps(c, r)
        /\ clientsWaiting' = Inc(clientsWaiting)
        /\ arg' = [arg EXCEPT ![c] = [buf |-> buf, flush |-> flush]]
  /\ UNCHANGED <<rqueue, ok, workersWaiting>>

PutWake(c, r) ==
  /\ at[c] = "put" /\ c \notin ccond
  /\ \/ /\ PutEnd(c, arg[c].buf, arg[c].flush, r) \/ PutRefused(c, r)
        /\ clientsWaiting' = Dec(clientsWaiting)
        /\ arg' = [arg EXCEPT ![c] = NoArg]
     \/ PutSleeps(c, r) /\ UNCHANGED <<clientsWaiting, arg>>
  /\ UNCHANGED <<rqueue, ok, workersWaiting>>

\* The timeout of put() and waitIdle(): they return false, still counted.
ClientTimeout(c) ==
  /\ PutTimed /\ at[c] \in {"put", "waitidle"}
  /\ ccond' = ccond \ {c}
  /\ arg' = [arg EXCEPT ![c] = NoArg]
  /\ Return(c)
  /\ UNCHANGED <<queue, rqueue, ok, counts, wcond>>

\* waitIdle(): one evaluation of its loop; n is m_clients_waiting once the
\* caller is no longer counted in it.
IdleCheck(c, n, r) ==
  \/ /\ ok /\ queue # <<>>
     /\ ccond' = ccond \cup {c}
     /\ clientsWaiting' = Inc(n)
     /\ WaitIn(c, "waitidle") /\ r = Waits
  \/ /\ ~ ok \/ queue = <<>>
     /\ clientsWaiting' = n
     /\ Return(c) /\ r = Result(ok)
     /\ UNCHANGED ccond

WaitIdle(c, r) ==
  /\ at[c] = "out" /\ IdleCheck(c, clientsWaiting, r)
  /\ UNCHANGED <<queue, rqueue, ok, workersWaiting, wcond, arg>>

WaitIdleWake(c, r) ==
  /\ at[c] = "waitidle" /\ c \notin ccond /\ IdleCheck(c, Dec(clientsWaiting), r)
  /\ UNCHANGED <<queue, rqueue, ok, workersWaiting, wcond, arg>>

-----------------------------------------------------------------------------
\* take(): the exits of one evaluation of its loop, with n the value of
\* m_workers_waiting once the caller is no longer counted in it.  The buffer
\* that a take hands out is Head(queue).

TakeRefused(w, n, r) ==
  /\ ~ ok
  /\ workersWaiting' = n
  /\ Return(w) /\ r = No
  /\ UNCHANGED <<queue, conds>>

TakeSleeps(w, n, r) ==
  /\ ok /\ queue = <<>>
  /\ workersWaiting' = Inc(n)
  /\ ccond' = {}
  /\ wcond' = wcond \cup {w}
  /\ WaitIn(w, "take") /\ r = Waits
  /\ UNCHANGED queue

TakeBuf(w, n, r) ==
  /\ ok /\ queue # <<>>
  /\ workersWaiting' = n
  /\ queue' = Tail(queue)
  /\ ccond' \in IF clientsWaiting > 0 THEN Notified(ccond) ELSE {ccond}
  /\ Return(w) /\ r = Yes
  /\ UNCHANGED wcond

TakeCheck(w, n, r) == TakeRefused(w, n, r) \/ TakeSleeps(w, n, r) \/ TakeBuf(w, n, r)

Take(w, r) ==
  /\ at[w] = "out" /\ TakeCheck(w, workersWaiting, r)
  /\ UNCHANGED <<rqueue, ok, clientsWaiting, arg>>

TakeWake(w, r) ==
  /\ at[w] = "take" /\ w \notin wcond /\ TakeCheck(w, Dec(workersWaiting), r)
  /\ UNCHANGED <<rqueue, ok, clientsWaiting, arg>>

\* The timeout of take(): it returns false, still counted.
TakeTimeout(w) ==
  /\ TakeTimed /\ at[w] = "take"
  /\ wcond' = wcond \ {w}
  /\ Return(w)
  /\ UNCHANGED <<queue, rqueue, ok, counts, ccond, arg>>

-----------------------------------------------------------------------------
\* The operations that do not wait.

\* untake(): nobody is notified.
Untake(w, buf, r) ==
  /\ at[w] = "out" /\ r = Result(ok)
  /\ queue' = IF ok THEN <<buf>> \o queue ELSE queue
  /\ UNCHANGED <<rqueue, ok, counts, conds, at, arg>>

LastN(s, n) == IF Len(s) > n THEN SubSeq(s, Len(s) - n + 1, Len(s)) ELSE s

\* recycle_nolock() for each of bufs: the oldest ones are deleted to make room.
Recycled(rq, bufs) == LastN(rq \o bufs, MaxRecycled)

Recycle(w, buf) ==
  /\ at[w] = "out"
  /\ rqueue' = Recycled(rqueue, <<buf>>)
  /\ UNCHANGED <<queue, ok, counts, conds, at, arg>>

\* take_recycled(); the buffer it hands out is Head(rqueue).
TakeRecycled(c, r) ==
  /\ at[c] = "out" /\ r = Result(ok /\ rqueue # <<>>)
  /\ rqueue' = IF ok /\ rqueue # <<>> THEN Tail(rqueue) ELSE rqueue
  /\ UNCHANGED <<queue, ok, counts, conds, at, arg>>

\* setTerminate(), and workerExit() which only calls it.
SetTerminate ==
  /\ ok' = FALSE /\ ccond' = {} /\ wcond' = {}
  /\ UNCHANGED <<queue, rqueue, counts, at, arg>>

\* reset(): the queue is recycled, the counters start again from zero.
Reset ==
  /\ rqueue' = Recycled(rqueue, queue)
  /\ queue' = <<>>
  /\ clientsWaiting' = 0 /\ workersWaiting' = 0
  /\ ok' = TRUE /\ ccond' = {} /\ wcond' = {}
  /\ UNCHANGED <<at, arg>>

XWakeup ==
  /\ \/ \E c \in ccond : ccond' = ccond \ {c} /\ UNCHANGED wcond
     \/ \E w \in wcond : wcond' = wcond \ {w} /\ UNCHANGED ccond
  /\ UNCHANGED <<queue, rqueue, ok, counts, at, arg>>
=============================================================================
