------------------------------ MODULE EventLoop ------------------------------
(***************************************************************************)
(* The threads through which MPD's events reach the services.  Each MPDCli *)
(* has an idle thread, which waits for MPD on a connection of its own, and *)
(* while MPD plays a poller.  Songcast makes a second MPDCli, which takes  *)
(* the subscribers over and gives them back: the control thread stops one  *)
(* loop, joins its thread, and starts the other.                           *)
(*                                                                         *)
(* Three joins can wait for ever, and the program can end because a thread *)
(* is not joined or subscribers are replaced while they are called;        *)
(* "excused" remembers that one of these was met.                          *)
(***************************************************************************)
EXTENDS Naturals

VARIABLES th,        \* the idle thread of each MPDCli
          poller,    \* its poller thread
          m_dopoll, m_idleneedstop,
          m_subs,    \* whether it has the subscribers
          use,       \* the MPDCli in use
          ctl,       \* the control thread
          excused    \* history

vars == <<th, poller, m_dopoll, m_idleneedstop, m_subs, use, ctl, excused>>

Clis == {"main", "aux"}
Other(c) == CHOOSE d \in Clis : d # c
\* Before its first connection, and once it has freed the last one, there is none.
m_idleconn(c) == th[c] \notin {"none", "connect", "ended"}
Moves(c, there) == th' = [th EXCEPT ![c] = there]
Goes(there) == ctl' = there

\* The destructor of the second MPDCli holds its m_mutex while it joins.
m_mutexHeld(c) == c = "aux" /\ ctl = "destroying"

-----------------------------------------------------------------------------
(* The idle thread. *)

\* The first connection, or another one after MPD was lost.
Connect(c) ==
  /\ th[c] \in {"connect", "reconnect"}
  /\ Moves(c, "first status")
  /\ UNCHANGED <<poller, m_dopoll, m_idleneedstop, m_subs, use, ctl, excused>>
\* updStatus() and pollerCtl(): the poller runs while MPD plays.
pollerCtl(c) ==
  /\ th[c] \in {"first status", "status"} /\ ~m_mutexHeld(c)
  /\ LET next == IF th[c] = "status" THEN "tell" ELSE "test" IN
       \/ /\ Moves(c, next)
          /\ poller' = [poller EXCEPT ![c] = IF m_dopoll[c] THEN @ ELSE "top"]
          /\ m_dopoll' = [m_dopoll EXCEPT ![c] = TRUE]
       \/ /\ Moves(c, IF poller[c] = "none" THEN next ELSE IF next = "tell" THEN "join, tell" ELSE "join, test")
          /\ m_dopoll' = [m_dopoll EXCEPT ![c] = FALSE]
          /\ UNCHANGED poller
  /\ UNCHANGED <<m_idleneedstop, m_subs, use, ctl, excused>>
JoinPoller(c) ==
  /\ th[c] \in {"join, test", "join, tell", "join, close"}
  /\ poller[c] = "ended"
  /\ poller' = [poller EXCEPT ![c] = "none"]
  /\ Moves(c, CASE th[c] = "join, test" -> "test" [] th[c] = "join, tell" -> "tell" [] OTHER -> "close")
  /\ UNCHANGED <<m_dopoll, m_idleneedstop, m_subs, use, ctl, excused>>
\* Between this test and the idle command a noidle is without effect.
TestStop(c) ==
  /\ th[c] = "test"
  /\ Moves(c, IF m_idleneedstop[c] THEN "quit" ELSE "enter")
  /\ m_idleneedstop' = [m_idleneedstop EXCEPT ![c] = FALSE]
  /\ UNCHANGED <<poller, m_dopoll, m_subs, use, ctl, excused>>
EnterIdle(c) ==
  /\ th[c] = "enter"
  /\ Moves(c, "idle")
  /\ UNCHANGED <<poller, m_dopoll, m_idleneedstop, m_subs, use, ctl, excused>>
\* MPD tells a change.
Event(c) ==
  /\ th[c] = "idle"
  /\ Moves(c, "status")
  /\ UNCHANGED <<poller, m_dopoll, m_idleneedstop, m_subs, use, ctl, excused>>
\* MPD goes away.
Lost(c) ==
  /\ th[c] = "idle"
  /\ Moves(c, "no mask")
  /\ UNCHANGED <<poller, m_dopoll, m_idleneedstop, m_subs, use, ctl, excused>>
\* mpd_run_idle_mask() returned 0: a noidle, or MPD is lost.
NoMask(c) ==
  /\ th[c] = "no mask"
  /\ Moves(c, IF m_idleneedstop[c] THEN "quit" ELSE "reconnect")
  /\ m_idleneedstop' = [m_idleneedstop EXCEPT ![c] = FALSE]
  /\ UNCHANGED <<poller, m_dopoll, m_subs, use, ctl, excused>>
\* The callbacks of the subscribers; then a second of sleep.
Tell(c) ==
  /\ th[c] = "tell"
  /\ Moves(c, "test")
  /\ UNCHANGED <<poller, m_dopoll, m_idleneedstop, m_subs, use, ctl, excused>>
Quit(c) ==
  /\ th[c] = "quit"
  /\ m_dopoll' = [m_dopoll EXCEPT ![c] = FALSE]
  /\ Moves(c, IF poller[c] = "none" THEN "close" ELSE "join, close")
  /\ UNCHANGED <<poller, m_idleneedstop, m_subs, use, ctl, excused>>
Close(c) ==
  /\ th[c] = "close"
  /\ Moves(c, "ended")
  /\ UNCHANGED <<poller, m_dopoll, m_idleneedstop, m_subs, use, ctl, excused>>

IdleStep(c) ==
  \/ Connect(c) \/ pollerCtl(c) \/ JoinPoller(c) \/ TestStop(c) \/ EnterIdle(c) \/ NoMask(c) \/ Tell(c)
  \/ Quit(c) \/ Close(c)

-----------------------------------------------------------------------------
(* The poller thread. *)

\* updStatus() and the callbacks; then a wait for a second or a notification.
Poll(c) ==
  /\ poller[c] = "top" /\ ~m_mutexHeld(c)
  /\ poller' = [poller EXCEPT ![c] = "wait"]
  /\ UNCHANGED <<th, m_dopoll, m_idleneedstop, m_subs, use, ctl, excused>>
TestPoll(c) ==
  /\ poller[c] = "wait"
  /\ poller' = [poller EXCEPT ![c] = IF m_dopoll[c] THEN "top" ELSE "ended"]
  /\ UNCHANGED <<th, m_dopoll, m_idleneedstop, m_subs, use, ctl, excused>>
PollerStep(c) == Poll(c) \/ TestPoll(c)

-----------------------------------------------------------------------------
(* The control thread. *)

\* Without a connection it joins a thread that is about to make one, and holds
\* the mutex that this takes.
startEventLoop(c, then) ==
  IF th[c] = "connect" THEN Goes("stuck") /\ excused' = TRUE /\ UNCHANGED th
  ELSE /\ Goes(then) /\ UNCHANGED excused
       /\ IF m_idleconn(c) THEN UNCHANGED th ELSE Moves(c, "connect")
\* MPD answers noidle if it is idle, and ignores it otherwise.
Wakes(c) == IF th[c] = "idle" THEN Moves(c, "no mask") ELSE UNCHANGED th
Missed(c) == th[c] = "enter"
noidle(c) == m_idleneedstop' = [m_idleneedstop EXCEPT ![c] = TRUE] /\ Wakes(c)
Joined(c) == th[c] = "ended" /\ m_idleneedstop' = [m_idleneedstop EXCEPT ![c] = FALSE]

\* restoreState(), which copies the state of the other MPD, opens the connection twice,
\* any command does when it finds it closed: that starts the loop, too.
openconn(c) ==
  /\ \/ ctl = "rest" /\ c = use
     \/ ctl \in {"begun", "leaving"}
  /\ ~m_idleconn(c)
  /\ startEventLoop(c, ctl)
  /\ UNCHANGED <<poller, m_dopoll, m_idleneedstop, m_subs, use>>

\* SenderReceiver::start(): the second MPDCli; its constructor connects.
NewMpd ==
  /\ ctl = "rest" /\ use = "main" /\ th["aux"] = "none"
  /\ Moves("aux", "connect") /\ Goes("begun")
  /\ UNCHANGED <<poller, m_dopoll, m_idleneedstop, m_subs, use, excused>>
\* The receiver does not start: clear() deletes the second MPDCli.
ReceiverFails ==
  /\ ctl = "begun" /\ Goes("destroy")
  /\ UNCHANGED <<th, poller, m_dopoll, m_idleneedstop, m_subs, use, excused>>
\* SenderReceiver::stop() copies the state back first.
LeaveSongcast ==
  /\ ctl = "rest" /\ use = "aux" /\ Goes("leaving")
  /\ UNCHANGED <<th, poller, m_dopoll, m_idleneedstop, m_subs, use, excused>>
setmpdcli ==
  /\ ctl \in {"begun", "leaving"}
  /\ use' = Other(use) /\ Goes("take")
  /\ UNCHANGED <<th, poller, m_dopoll, m_idleneedstop, m_subs, excused>>

\* What follows takeEvents() in start() and in stop().
Afterwards == IF use = "aux" THEN "rest" ELSE "destroy"
\* Nothing is taken from an MPDCli that has not connected yet.
takeEvents ==
  LET from == Other(use) IN
    /\ ctl = "take"
    /\ IF m_idleconn(from)
       THEN noidle(from) /\ Goes("stopping") /\ excused' = (excused \/ Missed(from))
       ELSE UNCHANGED <<th, m_idleneedstop>> /\ Goes(Afterwards) /\ excused' = TRUE
    /\ UNCHANGED <<poller, m_dopoll, m_subs, use>>
\* The subscribers are replaced without the mutex of the callbacks.
Telling(c) == th[c] = "tell" \/ poller[c] = "top"
Take ==
  LET from == Other(use) IN
    /\ ctl = "stopping" /\ Joined(from)
    /\ Moves(from, "none")
    /\ m_subs' = [m_subs EXCEPT ![use] = m_subs[from]]
    /\ \/ Goes("start") /\ UNCHANGED excused
       \/ Telling(use) /\ Goes("aborted") /\ excused' = TRUE
    /\ UNCHANGED <<poller, m_dopoll, use>>
\* Mutant of Start: the loop is taken to run already.
NoStart ==
  /\ ctl = "start" /\ Goes(Afterwards)
  /\ UNCHANGED <<th, poller, m_dopoll, m_idleneedstop, m_subs, use, excused>>
Start ==
  /\ ctl = "start" /\ startEventLoop(use, Afterwards)
  /\ UNCHANGED <<poller, m_dopoll, m_idleneedstop, m_subs, use>>

\* ~MPDCli(): a thread that has not connected is not joined, which ends the program;
\* one that needs m_mutex never ends.
NeedsMutex(c) == th[c] \in {"first status", "status", "reconnect"} \/ poller[c] = "top" \/ (poller[c] = "wait" /\ m_dopoll[c])
Destroy ==
  /\ ctl = "destroy"
  /\ IF m_idleconn("aux")
     THEN /\ noidle("aux") /\ Goes("destroying")
          /\ excused' = (excused \/ Missed("aux") \/ NeedsMutex("aux"))
     ELSE /\ UNCHANGED <<th, m_idleneedstop>>
          /\ IF th["aux"] = "none" THEN Goes("rest") /\ UNCHANGED excused
             ELSE Goes("aborted") /\ excused' = TRUE
  /\ m_subs' = [m_subs EXCEPT !["aux"] = FALSE]
  /\ UNCHANGED <<poller, m_dopoll, use>>
Destroyed ==
  /\ ctl = "destroying" /\ Joined("aux")
  /\ Moves("aux", "none") /\ Goes("rest")
  /\ UNCHANGED <<poller, m_dopoll, m_subs, use, excused>>

CtlStep == ReceiverFails \/ setmpdcli \/ takeEvents \/ Take \/ Start \/ Destroy \/ Destroyed

Init ==
  /\ th = [main |-> "connect", aux |-> "none"]
  /\ poller = [c \in Clis |-> "none"]
  /\ m_dopoll = [c \in Clis |-> FALSE] /\ m_idleneedstop = [c \in Clis |-> FALSE]
  /\ m_subs = [c \in Clis |-> c = "main"]
  /\ use = "main" /\ ctl = "rest" /\ excused = FALSE
Next ==
  \/ \E c \in Clis : IdleStep(c) \/ PollerStep(c) \/ Event(c) \/ Lost(c) \/ openconn(c)
  \/ NewMpd \/ LeaveSongcast \/ CtlStep
\* Threads run. MPD need not tell anything.
Fairness ==
  /\ WF_vars(CtlStep)
  /\ \A c \in Clis : WF_vars(IdleStep(c)) /\ WF_vars(PollerStep(c))
Spec == Init /\ [][Next]_vars /\ Fairness

-----------------------------------------------------------------------------
(* Properties. *)

\* Whatever sources were selected, failed and left, the MPDCli in use has the
\* subscribers and a loop that is not about to end, and no other one tells them
\* anything (takeEvents, stopEventLoop, openconn).
EventsFollow ==
  ctl = "rest" /\ ~excused =>
    /\ m_subs[use]
    /\ th[use] \notin {"none", "quit", "join, close", "close", "ended"} /\ ~m_idleneedstop[use]
    /\ th[Other(use)] = "none" /\ poller[Other(use)] = "none"
\* A change of MPDCli returns, though it joins threads that wait for MPD, for
\* their poller or for a mutex, and MPD may be gone (stopEventLoop, pollerCtl).
TakeoverEnds == ctl # "rest" ~> ctl = "rest" \/ excused
==============================================================================
