------------------------------- MODULE MCLive -------------------------------
(***************************************************************************)
(* What must come to an end, for TLC: the calls of WorkQueue, the updates  *)
(* of uprcl, and the changes from one MPDCli to another.  A behaviour is   *)
(* one of one of them, the others stay as they are.                        *)
(***************************************************************************)
EXTENDS UprclUpdate

CONSTANTS c1, c2, w1, w2
VARIABLES part, queue, ok, open, threads, exited, clientsWaiting, workersWaiting, ccond, wcond,
          pc, arg, doing, fate, puts, starts
queueVars == <<queue, ok, open, threads, exited, clientsWaiting, workersWaiting, ccond, wcond,
               pc, arg, doing, fate, puts, starts>>
VARIABLES th, poller, m_dopoll, m_idleneedstop, m_subs, use, ctl, excused
eventVars == <<th, poller, m_dopoll, m_idleneedstop, m_subs, use, ctl, excused>>
allVars == <<part, vars, queueVars, eventVars>>

\* Two clients and two workers, two tasks, one start.
Clients == {c1, c2}
Workers == {w1, w2}
Tasks == INSTANCE WorkQueue WITH
  High <- 1, Low <- 1, UIntMax <- 5, MaxTasks <- 2, MaxStarts <- 1, TimedTake <- TRUE, MayFail <- FALSE

Events == INSTANCE EventLoop

InitAll == Init /\ Tasks!Init /\ Events!Init /\ part \in {"tasks", "updates", "events"}
NextAll ==
  /\ \/ part = "tasks" /\ Tasks!Next /\ UNCHANGED <<vars, eventVars>>
     \/ part = "updates" /\ Next /\ UNCHANGED <<queueVars, eventVars>>
     \/ part = "events" /\ ~excused /\ Events!Next /\ UNCHANGED <<vars, queueVars>>
  /\ UNCHANGED part
\* The fairness of WorkQueue, of UprclUpdate and of EventLoop, which is not followed
\* beyond the joins that its properties exclude.
OfTasks(A) == part = "tasks" /\ A /\ UNCHANGED <<part, vars, eventVars>>
OfUpdates(A) == part = "updates" /\ A /\ UNCHANGED <<part, queueVars, eventVars>>
OfEvents(A) == part = "events" /\ ~excused /\ A /\ UNCHANGED <<part, vars, queueVars>>
SpecAll ==
  /\ InitAll /\ [][NextAll]_allVars
  /\ \A c \in Clients : WF_allVars(OfTasks(Tasks!ClientResumes(c)))
  /\ \A w \in Workers : WF_allVars(OfTasks(Tasks!WorkerStep(w)))
  /\ WF_allVars(OfUpdates(getTree \/ Answer))
  /\ \A a \in Askers : WF_allVars(OfUpdates(ReleaseRead(a)))
  /\ \A u \in Updates :
       /\ SF_allVars(OfUpdates(Locks(u))) /\ WF_allVars(OfUpdates(Proceeds(u))) /\ WF_allVars(OfUpdates(Indexer(u)))
  /\ WF_allVars(OfEvents(Events!CtlStep))
  /\ \A c \in Events!Clis : WF_allVars(OfEvents(Events!IdleStep(c))) /\ WF_allVars(OfEvents(Events!PollerStep(c)))

-----------------------------------------------------------------------------
(* Properties. *)

\* Each queued task is taken or flushed, and put(), waitIdle() and
\* setTerminateAndWait(), which share one condition variable, return.
CallsReturn == Tasks!CallsReturn
\* The MPDCli in use tells the services what MPD does, no other one does
\* (EventsFollow of EventLoop).
EventsFollow == part = "events" => Events!EventsFollow
\* Every update ends, and a change of MPDCli returns, though it joins threads
\* (UpdatesEnd of UprclUpdate, TakeoverEnds of EventLoop).
ChangesEnd == (part = "updates" => UpdatesEnd) /\ (part = "events" => Events!TakeoverEnds)
=============================================================================
