------------------------------ MODULE MCQueues ------------------------------
(***************************************************************************)
(* The two queues between threads, for TLC: WorkQueue, and BufXChange with *)
(* the threads that use it.  A behaviour is one of one of them, the other  *)
(* stays as it is.                                                         *)
(***************************************************************************)
EXTENDS WorkQueue, TLC

VARIABLES part, bqueue, brqueue, bok, bclientsWaiting, bworkersWaiting, bccond, bwcond, at, barg, held, next, deleted
bvars == <<bqueue, brqueue, bok, bclientsWaiting, bworkersWaiting, bccond, bwcond, at, barg, held, next, deleted>>
allVars == <<part, vars, bvars>>

\* Clients are interchangeable, and so are workers.
Symmetry == Permutations(Clients) \cup Permutations(Workers)

\* Four buffers at most, timeouts at both ends, a counter that leaks once.
Buffers == INSTANCE BufXUsers WITH
  High <- 1, MaxRecycled <- 1, UIntMax <- 5, PutTimed <- TRUE, TakeTimed <- TRUE,
  MaxBufs <- 4, MaxLeak <- 1, ResetAnytime <- FALSE,
  queue <- bqueue, rqueue <- brqueue, ok <- bok, clientsWaiting <- bclientsWaiting, workersWaiting <- bworkersWaiting,
  ccond <- bccond, wcond <- bwcond, at <- at, arg <- barg, held <- held, next <- next, deleted <- deleted

InitAll == Init /\ Buffers!UInit /\ part \in {"tasks", "buffers"}
NextAll ==
  /\ \/ part = "tasks" /\ Next /\ UNCHANGED bvars
     \/ part = "buffers" /\ Buffers!UNext /\ UNCHANGED vars
  /\ UNCHANGED part
SpecAll == InitAll /\ [][NextAll]_allVars

-----------------------------------------------------------------------------
(* Properties. *)

\* A buffer has one owner from its allocation to its only deletion, the queues
\* of buffers keep to their bounds, and no wakeup of put() is lost, whatever
\* timeouts and reset() do to the counters (take, untake, recycle, put).
BuffersKept == Buffers!BuffersKept
=============================================================================
