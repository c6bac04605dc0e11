------------------------------- MODULE MpdCli -------------------------------
(***************************************************************************)
(* The MPD server, as far as upmpdcli sees it, and MPDCli, the object      *)
(* through which every service of upmpdcli talks to it                     *)
(* (src/src/mpdcli.cxx).                                                   *)
(*                                                                         *)
(* A public call of MPDCli holds m_mutex from its first to its last        *)
(* command, which excludes the other threads of upmpdcli but not the other *)
(* clients of MPD: a call is one action, except insertion, where a change  *)
(* by another client between two commands matters.  The commands of MPD    *)
(* succeed whenever MPD documents that they do: the connection is up.      *)
(***************************************************************************)
EXTENDS Integers, Sequences, SequencesExt

CONSTANTS
  Uris,        \* the URIs of songs
  MaxInit,     \* bound on the length of MPD's queue when upmpdcli starts
  MaxQueue,    \* bound on the length of MPD's queue
  MaxForeign   \* bound on the number of changes that upmpdcli did not ask for

ASSUME MpdAssumption ==
  Uris # {} /\ MaxInit \in Nat /\ MaxQueue \in Nat /\ MaxForeign \in Nat

VARIABLES
  mpd,         \* MPD: queue, names, vers, state, cur, title, event
  stat,        \* m_stat: what the last updStatus() read
  last,        \* m_lastinsertid, m_lastinsertpos, m_lastinsertqvers
  locked,      \* m_mutex is held between two actions
  foreign,     \* how many changes upmpdcli did not ask for
  raced        \* such a change happened while m_mutex was held

mpdVars == <<mpd, stat, last, locked, foreign, raced>>

\* Ids start at 1 and are never used twice while MPD runs; 0 is no song.  The
\* URI of each id that was ever used is in mpd.names.
NoSong    == 0
NextId(m) == Len(m.names) + 1
NoUri  == "none"

IdsOf(q)   == [i \in DOMAIN q |-> q[i].id]
UrisOf(q)  == {q[i].uri : i \in DOMAIN q}
IndexOf(q, id) == SelectInSeq(q, LAMBDA s : s.id = id)
UriOf(q, id)   == q[IndexOf(q, id)].uri

-----------------------------------------------------------------------------
\* What the commands of MPD do to it.  Every change raises the idle event.

Current(m, id) ==
  [m EXCEPT !.cur = id, !.title = IF id = m.cur THEN @ ELSE "plain", !.event = TRUE]

Added(m, pos, u) ==
  [m EXCEPT !.queue = InsertAt(@, pos + 1, [id |-> NextId(m), uri |-> u]),
            !.names = Append(@, u), !.vers = @ + 1, !.event = TRUE]

\* Without its current song MPD goes on with the next one, or stops.
Deleted(m, id) ==
  LET i == IndexOf(m.queue, id)
      n == [m EXCEPT !.queue = RemoveAt(@, i), !.vers = @ + 1, !.event = TRUE]
  IN IF id # m.cur THEN n
     ELSE IF m.state # "stop" /\ i < Len(m.queue) THEN Current(n, m.queue[i + 1].id)
     ELSE Current([n EXCEPT !.state = "stop"], NoSong)

Cleared(m) == Current([m EXCEPT !.queue = <<>>, !.vers = @ + 1, !.state = "stop"], NoSong)

Played(m, id) == Current([m EXCEPT !.state = "play"], id)

PlayedAny(m) ==
  IF m.queue = <<>> THEN m
  ELSE Played(m, IF m.cur # NoSong THEN m.cur ELSE m.queue[1].id)

\* next and previous: past the last song MPD stops.
Skipped(m, by) ==
  LET i == IndexOf(m.queue, m.cur) + by
  IN IF i > Len(m.queue) THEN Current([m EXCEPT !.state = "stop"], NoSong)
     ELSE Played(m, m.queue[IF i = 0 THEN 1 ELSE i].id)

Paused(m)  == IF m.state = "play" THEN [m EXCEPT !.state = "pause", !.event = TRUE] ELSE m

Stopped(m) == IF m.state = "stop" THEN m ELSE [m EXCEPT !.state = "stop", !.event = TRUE]

-----------------------------------------------------------------------------
\* updStatus(): the status and the current song.
Status(m) ==
  [vers |-> m.vers, state |-> m.state, songid |-> m.cur, title |-> m.title,
   uri |-> IF m.cur = NoSong THEN NoUri ELSE UriOf(m.queue, m.cur)]

\* A call of MPDCli that changes MPD to m, and one that then reads the status.
Call(m)       == ~ locked /\ mpd' = m /\ UNCHANGED <<stat, last, locked, foreign, raced>>
CallStatus(m) == ~ locked /\ mpd' = m /\ stat' = Status(m) /\ UNCHANGED <<last, locked, foreign, raced>>

\* saveState()
SavedState ==
  [queue |-> mpd.queue, state |-> mpd.state, pos |-> IndexOf(mpd.queue, mpd.cur)]

\* What restoreState() makes of MPD: the songs get new ids, and the song at the
\* saved position plays if one played or paused.
Restored(st) ==
  LET clear == Cleared(mpd)
      n     == Len(st.queue)
      full  == [clear EXCEPT
                  !.queue  = [i \in 1 .. n |->
                                [id |-> NextId(clear) + i - 1, uri |-> st.queue[i].uri]],
                  !.names  = @ \o [i \in 1 .. n |-> st.queue[i].uri], !.vers = @ + n]
  IN IF st.state \in {"play", "pause"} /\ st.pos \in 1 .. n
     THEN Played(full, full.queue[st.pos].id)
     ELSE full

\* restoreState(): each insertion leaves its trace in m_lastinsert*; the pause
\* comes last, after the last updStatus().
RestoreState(st) ==
  LET n == Len(st.queue) IN
  /\ ~ locked
  /\ mpd' = IF st.state = "pause" THEN Paused(Restored(st)) ELSE Restored(st)
  /\ IF n = 0 THEN UNCHANGED <<stat, last>>
     ELSE /\ stat' = Status(Restored(st))
          /\ last' = [id |-> Len(mpd'.names), pos |-> n - 1, vers |-> mpd'.vers]
  /\ UNCHANGED <<locked, foreign, raced>>

\* Mutant of Position: m_lastinsertqvers is not looked at.
PositionStale(after) ==
  IF after = NoSong THEN 0
  ELSE IF last.id = after /\ last.pos >= 0 THEN last.pos + 1
  ELSE IF IndexOf(mpd.queue, after) # 0 THEN IndexOf(mpd.queue, after)
  ELSE Len(mpd.queue)

\* insertAfterId() up to the insertion: m_mutex is taken, and the position is
\* the one after the last insertion if that is the song and the queue has not
\* changed since, or is looked up; an unknown id means the end of the queue.
Position(after) ==
  IF after = NoSong THEN 0
  ELSE IF last.id = after /\ last.pos >= 0 /\ last.vers = mpd.vers THEN last.pos + 1
  ELSE IF IndexOf(mpd.queue, after) # 0 THEN IndexOf(mpd.queue, after)
  ELSE Len(mpd.queue)

Locate(after) ==
  /\ ~ locked /\ locked' = TRUE
  /\ stat' = IF after = NoSong THEN stat ELSE Status(mpd)
  /\ UNCHANGED <<mpd, last, foreign, raced>>

\* insert_i(), first command: MPD refuses a position beyond its queue.
AddAt(pos, u) ==
  /\ IF pos <= Len(mpd.queue)
     THEN /\ mpd' = Added(mpd, pos, u)
          /\ last' = [last EXCEPT !.id = NextId(mpd)]
          /\ UNCHANGED locked
     ELSE /\ last' = [last EXCEPT !.id = -1]
          /\ locked' = FALSE
          /\ UNCHANGED mpd
  /\ UNCHANGED <<stat, foreign, raced>>

\* insert_i(), last command: the status after the insertion.
AddDone(pos) ==
  /\ stat' = Status(mpd)
  /\ last' = [last EXCEPT !.pos = pos, !.vers = mpd.vers]
  /\ locked' = FALSE
  /\ UNCHANGED <<mpd, foreign, raced>>

-----------------------------------------------------------------------------
\* What MPD does for its other clients, or by itself.

ForeignChange(m) ==
  /\ foreign < MaxForeign /\ foreign' = foreign + 1
  /\ mpd' = m
  /\ raced' = (raced \/ (locked /\ m.vers # mpd.vers))
  /\ UNCHANGED <<stat, last, locked>>

Foreign ==
  \/ \E u \in Uris, pos \in 0 .. Len(mpd.queue) :
       Len(mpd.queue) < MaxQueue /\ ForeignChange(Added(mpd, pos, u))
  \/ \E i \in DOMAIN mpd.queue : ForeignChange(Deleted(mpd, mpd.queue[i].id))
  \/ mpd.queue # <<>> /\ mpd.state # "play" /\ ForeignChange(PlayedAny(mpd))
  \/ mpd.state # "stop" /\ ForeignChange(Stopped(mpd))
  \/ /\ mpd.state = "play"      \* the stream that plays changes its title
     /\ ForeignChange([mpd EXCEPT !.title = "changed", !.event = TRUE])

\* upmpdcli starts when MPD has any queue, which does not play.
MpdInit ==
  /\ \E n \in 0 .. MaxInit : \E names \in [1 .. n -> Uris] :
       mpd = [queue |-> [i \in 1 .. n |-> [id |-> i, uri |-> names[i]]], names |-> names,
              vers |-> 1, state |-> "stop", cur |-> NoSong, title |-> "plain",
              event |-> FALSE]
  /\ stat = Status(mpd)
  /\ last = [id |-> -1, pos |-> -1, vers |-> -1]
  /\ locked = FALSE /\ foreign = 0 /\ raced = FALSE
=============================================================================
