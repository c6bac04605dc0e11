------------------------------ MODULE BufXUsers ------------------------------
(***************************************************************************)
(* Threads that use a BufXChange as the streaming code does: a client gets *)
(* a recycled buffer or allocates one, in place of one that is too small,  *)
(* puts it, and deletes it if put() fails (NetFetch::databufToQ); a worker takes a buffer, then gives it    *)
(* back to the queue when it used a part of it, or to the recycling queue  *)
(* (ContentReader::contentRead).                                           *)
(***************************************************************************)
EXTENDS BufXChange

CONSTANTS
  MaxBufs,      \* bound on the number of buffers allocated
  MaxLeak,      \* bound on what timeouts may leave in a waiting counter
  ResetAnytime  \* FALSE if reset() is called only when no thread is waiting

VARIABLES
  held,     \* the buffer each thread works on
  next,     \* buffers allocated so far
  deleted   \* buffers freed so far

uvars == <<xvars, held, next, deleted>>

Bufs   == 1 .. MaxBufs
In(s)  == {s[k] : k \in 1 .. Len(s)}

UInit == XInit /\ held = [t \in Threads |-> NoBuf] /\ next = 0 /\ deleted = {}

Results == {Yes, No, Waits}
Hold(t, buf) == held' = [held EXCEPT ![t] = buf]

\* Client: take_recycled() or new, which may be because the recycled buffer is too
\* small.  next counts both, which bounds the puts.
Acquire(c) ==
  /\ held[c] = NoBuf /\ next < MaxBufs
  /\ next' = next + 1
  /\ \/ TakeRecycled(c, Yes) /\ Hold(c, Head(rqueue)) /\ UNCHANGED deleted
     \/ TakeRecycled(c, Yes) /\ Hold(c, next + 1) /\ deleted' = deleted \cup {Head(rqueue)}
     \/ TakeRecycled(c, No) /\ Hold(c, next + 1) /\ UNCHANGED deleted

\* After put() a buffer is on the queue, or deleted by the caller.
PutDone(c, r) ==
  /\ Hold(c, IF r = Waits THEN held[c] ELSE NoBuf)
  /\ deleted' = deleted \cup (In(queue) \ In(queue'))
                       \cup (IF r = No THEN {held[c]} ELSE {})
  /\ UNCHANGED next

UPut(c, flush) ==
  held[c] # NoBuf /\ \E r \in Results : Put(c, held[c], flush, r) /\ PutDone(c, r)

UPutWake(c) == \E r \in Results : PutWake(c, r) /\ PutDone(c, r)

UTimeout(c) ==
  /\ ClientTimeout(c) /\ clientsWaiting <= MaxLeak
  /\ IF at[c] = "put" THEN PutDone(c, No) ELSE UNCHANGED <<held, next, deleted>>

UWaitIdle(c) ==
  /\ held[c] = NoBuf
  /\ \E r \in Results : WaitIdle(c, r)
  /\ UNCHANGED <<held, next, deleted>>

UIdleWake(c) ==
  /\ \E r \in Results : WaitIdleWake(c, r)
  /\ UNCHANGED <<held, next, deleted>>

\* Worker.
TakeDone(w, r) ==
  /\ Hold(w, IF r = Yes THEN Head(queue) ELSE held[w])
  /\ UNCHANGED <<next, deleted>>

UTake(w)     == held[w] = NoBuf /\ \E r \in Results : Take(w, r) /\ TakeDone(w, r)
UTakeWake(w) == \E r \in Results : TakeWake(w, r) /\ TakeDone(w, r)

UTakeTimeout(w) ==
  /\ TakeTimeout(w) /\ workersWaiting <= MaxLeak
  /\ UNCHANGED <<held, next, deleted>>

\* Mutant of UUntake: the worker goes on using the buffer.
UUntakeKeeps(w) ==
  /\ held[w] # NoBuf
  /\ \E r \in Results : Untake(w, held[w], r)
  /\ UNCHANGED <<held, next, deleted>>

\* The caller does not look at the result: the buffer is lost if it is false.
UUntake(w) ==
  /\ held[w] # NoBuf
  /\ \E r \in Results : Untake(w, held[w], r)
  /\ Hold(w, NoBuf)
  /\ UNCHANGED <<next, deleted>>

URecycle(w) ==
  /\ held[w] # NoBuf /\ Recycle(w, held[w])
  /\ Hold(w, NoBuf)
  /\ deleted' = deleted \cup (In(rqueue) \ In(rqueue'))
  /\ UNCHANGED next

\* Anybody.
UTerminate == ok /\ SetTerminate /\ UNCHANGED <<held, next, deleted>>

UReset ==
  /\ ResetAnytime \/ \A t \in Threads : at[t] = "out"
  /\ ~ ok \/ queue # <<>> \/ clientsWaiting + workersWaiting > 0
  /\ Reset
  /\ deleted' = deleted \cup ((In(queue) \cup In(rqueue)) \ In(rqueue'))
  /\ UNCHANGED <<held, next>>

ClientResumes(c) == UPutWake(c) \/ UIdleWake(c)
WorkerGoesOn(w)  == UTake(w) \/ UTakeWake(w) \/ URecycle(w)

UNext ==
  \/ \E c \in Clients : \/ Acquire(c)
                        \/ \E flush \in BOOLEAN : UPut(c, flush)
                        \/ UWaitIdle(c)
                        \/ UTimeout(c)
                        \/ ClientResumes(c)
  \/ \E w \in Workers : UTakeTimeout(w) \/ UUntake(w) \/ WorkerGoesOn(w)
  \/ UTerminate
  \/ UReset
  \/ XWakeup /\ UNCHANGED <<held, next, deleted>>

USpec == UInit /\ [][UNext]_uvars

-----------------------------------------------------------------------------
\* Properties.

\* The queue, the counters and the threads' positions have their types, and a
\* put that waits, and only it, has a buffer to put.
TypeOK ==
  /\ queue \in Seq(Bufs) /\ rqueue \in Seq(Bufs)
  /\ ok \in BOOLEAN
  /\ clientsWaiting \in 0 .. UIntMax /\ workersWaiting \in 0 .. UIntMax
  /\ ccond \subseteq Clients /\ wcond \subseteq Workers
  /\ at \in [Threads -> {"out", "put", "waitidle", "take"}]
  /\ arg \in [Threads -> [buf : Bufs \cup {NoBuf}, flush : BOOLEAN]]
  /\ \A t \in Threads : at[t] = "put" <=> arg[t].buf # NoBuf
  /\ held \in [Threads -> Bufs \cup {NoBuf}]
  /\ next \in 0 .. MaxBufs /\ deleted \subseteq Bufs

\* put() holds its clients at High, but untake() does not look: each worker may
\* push its buffer back on a queue that was filled again, and no more.
QueueBound ==
  High > 0 => Len(queue) + Cardinality({w \in Workers : held[w] # NoBuf})
                <= High + Cardinality(Workers)

\* A buffer is in one place at most - on a queue, or with a thread - and one
\* that was deleted is nowhere: no double delete and no use after delete.
OneOwner ==
  LET qr == queue \o rqueue IN
  /\ \A j, k \in 1 .. Len(qr) : qr[j] = qr[k] => j = k
  /\ \A t \in Threads : held[t] # NoBuf => held[t] \notin In(qr)
  /\ \A s, t \in Threads : held[s] = held[t] /\ held[s] # NoBuf => s = t
  /\ deleted \cap (In(qr) \cup {held[t] : t \in Threads}) = {}

\* The recycling queue keeps at most m_maxrecycled buffers.
RecycledBound == Len(rqueue) <= MaxRecycled

\* A buffer is on the queue and yet every worker is blocked in take(): the
\* wakeup of put() was lost.
NoLostWakeup == ok /\ queue # <<>> => \E w \in Workers : w \notin wcond

\* All of that: what the callers of take(), untake(), recycle() and put() rely on.
BuffersKept == TypeOK /\ QueueBound /\ OneOwner /\ RecycledBound /\ NoLostWakeup

\* What the streaming code makes of the constants: threads at both ends, reset()
\* called when they are gone, and fewer timeouts than it takes to wrap a counter.
Streaming ==
  /\ Workers # {} /\ Clients \cap Workers = {}
  /\ MaxBufs \in Nat /\ MaxLeak \in Nat
  /\ MaxLeak + Cardinality(Clients) <= UIntMax /\ MaxLeak + Cardinality(Workers) <= UIntMax
  /\ ~ ResetAnytime

\* The invariant behind BuffersKept: each thread waits in the calls of its end only
\* and with what that call needs, the counters are the number of threads that wait
\* and what the timeouts left, and a buffer that is not allocated yet is nowhere.
Positions ==
  /\ \A c \in Clients : at[c] # "take" /\ (at[c] = "put" => arg[c].buf = held[c])
  /\ \A w \in Workers : at[w] \in {"out", "take"} /\ (at[w] = "take" => held[w] = NoBuf)
  /\ \A c \in ccond : at[c] # "out"
  /\ \A w \in wcond : at[w] = "take"
Waiting(S)      == {t \in S : at[t] # "out"}
Leaks(count, S) == count \in Cardinality(Waiting(S)) .. Cardinality(Waiting(S)) + MaxLeak
CountersLeak    == Leaks(clientsWaiting, Clients) /\ Leaks(workersWaiting, Workers)
Allocated ==
  /\ \A b \in In(queue) \cup In(rqueue) \cup deleted : b <= next
  /\ \A t \in Threads : held[t] <= next
UInv == BuffersKept /\ Positions /\ CountersLeak /\ Allocated
=============================================================================
