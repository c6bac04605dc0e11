------------------------------- MODULE Sources -------------------------------
(***************************************************************************)
(* The sources of the OpenHome renderer: OHProduct selects one, leaving    *)
(* the service behind the old one and entering that of the new one, and    *)
(* the actions of a service select its source when it is not active.  The  *)
(* Playlist and Radio services share MPD's queue; the Receiver runs        *)
(* sc2mpd; the Songcast sources start a sender and a second MPD that takes *)
(* over, and play what is sent through the Receiver.                       *)
(*                                                                         *)
(* The actions of control points come one at a time.  What the queue holds *)
(* is told apart by the service that put it there; a pause is a stop.      *)
(***************************************************************************)
EXTENDS Naturals, FiniteSets

CONSTANTS MaxEdits,     \* bound on the changes of the playlist
          MaxRestarts,  \* bound on the restarts of the process
          StackSize     \* nested selections that fit on the stack

VARIABLES method,    \* how the Receiver plays: "alsa" or "mpd"
          r,         \* the renderer
          latest,    \* history: the playlist as its last change left it
          edits, restarts

vars == <<method, r, latest, edits, restarts>>

Playlists == {"Playlist", "PL-to-Songcast"}
Radios == {"Radio", "RD-to-Songcast"}
Songcast == {"PL-to-Songcast", "RD-to-Songcast"}
m_sources == {"Playlist", "Radio", "Receiver"} \cup (IF method = "alsa" THEN Songcast \cup {"Analog"} ELSE {})
ServiceOf(source) ==
  IF source \in Playlists THEN {"playlist"}
  ELSE IF source \in Radios THEN {"radio"}
  ELSE IF source = "Receiver" THEN {"receiver"} ELSE {}

\* An MPD: the version of the playlist in its queue, what else is in there, what it plays.
NoSongs == 0
EmptyQueue == [songs |-> NoSongs, others |-> {}, plays |-> "nothing"]
\* What helpers may do: the sender starts, its MPD answers, sc2mpd starts and
\* connects, an audio URL is found, MPD takes it. All do, or one fails.
Helpers == {"sender", "connect", "receive", "fetch", "insert"}
Luck == {Helpers} \cup {Helpers \ {helper} : helper \in Helpers}

-----------------------------------------------------------------------------
(* MPDCli, of the MPD in use. *)
Mpd(s) == s.mpds[s.mpdcli]
WithMpd(s, mpd) == [s EXCEPT !.mpds[s.mpdcli] = mpd]
StopMpd(s) == WithMpd(s, [Mpd(s) EXCEPT !.plays = "nothing"])
clearQueue(s) == WithMpd(s, EmptyQueue)
saveState(s, service) == [s EXCEPT !.saved[service] = {Mpd(s)}]
restoreState(s, service) == WithMpd(s, CHOOSE mpd \in s.saved[service] : TRUE)
First(mpd) == IF "net" \in mpd.others THEN "net" ELSE IF mpd.songs # NoSongs THEN "songs"
              ELSE IF "station" \in mpd.others THEN "station" ELSE "nothing"
PlayFirst(s) == WithMpd(s, [Mpd(s) EXCEPT !.plays = First(Mpd(s))])

-----------------------------------------------------------------------------
(* OHReceiver.  urlMap() shows the saved playlist, which has no Songcast URI: *)
(* none is found to be removed or used again.                                 *)
Receiver_iStop(s) ==
  LET stopped == [s EXCEPT !.cmd = "none"] IN IF method = "mpd" THEN StopMpd(stopped) ELSE stopped
Receiver_iPlay(s, luck) ==
  IF s.uri = "none" THEN [s EXCEPT !.ok = FALSE]
  ELSE IF "receive" \notin luck THEN [Receiver_iStop(s) EXCEPT !.ok = FALSE]
  ELSE LET runs == [s EXCEPT !.cmd = "runs", !.ok = TRUE] IN
       IF method = "alsa" THEN runs
       ELSE WithMpd(runs, [Mpd(runs) EXCEPT !.others = @ \cup {"net"}, !.plays = "net"])
iSetSender(s, uri) ==
  IF s.uri = uri THEN s ELSE [(IF s.cmd = "none" THEN s ELSE Receiver_iStop(s)) EXCEPT !.uri = uri]

-----------------------------------------------------------------------------
(* SenderReceiver. *)
\* Mutant of clear: the sender is left running.
ClearButSender(s) == [Receiver_iStop([s EXCEPT !.mpdcli = "main"]) EXCEPT !.mpds["aux"] = EmptyQueue, !.ok = FALSE]
clear(s) ==
  [Receiver_iStop([s EXCEPT !.mpdcli = "main"]) EXCEPT
     !.mpds["aux"] = EmptyQueue, !.senders = {}, !.ok = FALSE]
copyMpd(s, from, to) == [s EXCEPT !.mpds[to] = s.mpds[from]]
start(s, internal, luck) ==
  LET sender == [StopMpd(s) EXCEPT !.senders = {IF internal THEN "isender" ELSE "ssender"}]
      receiving == Receiver_iPlay(iSetSender(sender, "own"), luck)
  IN IF "sender" \notin luck \/ (internal /\ "connect" \notin luck) THEN clear(sender)
     ELSE IF ~receiving.ok THEN clear(receiving)
     ELSE IF internal THEN [copyMpd(receiving, "main", "aux") EXCEPT !.mpdcli = "aux"]
     ELSE receiving
stop(s) ==
  LET silent == Receiver_iStop(s)
      back == IF s.mpdcli = "aux" THEN [copyMpd(silent, "aux", "main") EXCEPT !.mpdcli = "main"] ELSE silent
  IN [back EXCEPT !.senders = {}, !.mpds["aux"] = EmptyQueue]

-----------------------------------------------------------------------------
(* OHPlaylist, OHRadio and OHProduct. *)
\* Mutant of Playlist_setActive: a playlist is saved when it is left first, not again.
SavedOnce(s, onoff) ==
  IF onoff THEN [restoreState(s, "playlist") EXCEPT !.active = @ \cup {"playlist"}]
  ELSE [StopMpd(IF s.saved["playlist"] = {} THEN saveState(s, "playlist") ELSE s) EXCEPT !.active = @ \ {"playlist"}]
Playlist_setActive(s, onoff) ==
  IF onoff THEN [restoreState(s, "playlist") EXCEPT !.active = @ \cup {"playlist"}]
  ELSE [StopMpd(saveState(s, "playlist")) EXCEPT !.active = @ \ {"playlist"}]

\* Radio restores what it saved, if it did, for a preset channel (m_id is not 0).
Radio_activate(s) ==
  LET on == [s EXCEPT !.active = @ \cup {"radio"}] IN
    IF s.id \in {"none", "given"} \/ s.saved["radio"] = {} THEN on ELSE restoreState(on, "radio")

RECURSIVE iSetSourceIndex(_, _, _, _)
\* OHProduct is there once its constructor has ended.
maybeActivate(s, luck, stack) ==
  IF "radio" \in s.active \/ ~s.ready THEN s ELSE iSetSourceIndex(s, "Radio", luck, stack)
Radio_iStop(s, luck, stack) ==
  LET on == maybeActivate(s, luck, stack) IN IF on.crashed THEN on ELSE [clearQueue(on) EXCEPT !.playpending = FALSE]
Radio_deactivate(s, luck, stack) ==
  Radio_iStop(clearQueue(saveState([s EXCEPT !.active = @ \ {"radio"}], "radio")), luck, stack)

Leave(s, luck, stack) ==
  CASE s.source = "Playlist" -> Playlist_setActive(s, FALSE)
    [] s.source = "Receiver" -> Receiver_iStop([s EXCEPT !.active = @ \ {"receiver"}])
    [] s.source = "Radio" -> Radio_deactivate(s, luck, stack)
    [] s.source = "PL-to-Songcast" -> stop(Playlist_setActive(s, FALSE))
    [] s.source = "RD-to-Songcast" ->
         LET left == Radio_deactivate(s, luck, stack) IN IF left.crashed THEN left ELSE stop(left)
    [] OTHER -> stop(s)
Enter(s, source, luck) ==
  CASE source = "Playlist" -> Playlist_setActive(s, TRUE)
    [] source = "Receiver" -> [s EXCEPT !.active = @ \cup {"receiver"}]
    [] source = "Radio" -> Radio_activate(s)
    [] source = "PL-to-Songcast" -> Playlist_setActive(start(s, TRUE, luck), TRUE)
    [] source = "RD-to-Songcast" -> Radio_activate(start(s, TRUE, luck))
    [] OTHER -> start(s, FALSE, luck)
iSetSourceIndex(s, source, luck, stack) ==
  IF stack = 0 THEN [s EXCEPT !.crashed = TRUE]
  ELSE IF s.source = source THEN [s EXCEPT !.ok = TRUE]
  ELSE LET left == Leave(s, luck, stack - 1) IN
       IF left.crashed THEN left
       ELSE [Enter([left EXCEPT !.ok = TRUE], source, luck) EXCEPT !.source = source, !.stored = source]
Select(s, source, luck) == iSetSourceIndex(s, source, luck, StackSize)

\* A channel has a playlist URI, or a script that gives the audio URL later.
setPlaying(s, luck) ==
  LET on == maybeActivate(s, luck, StackSize)
      cleared == clearQueue(on)
  IN IF on.crashed \/ on.id = "none" THEN on
     ELSE IF on.id = "script" THEN [cleared EXCEPT !.playpending = TRUE]
     ELSE IF "fetch" \notin luck THEN on
     ELSE IF "insert" \notin luck THEN cleared
     ELSE PlayFirst(WithMpd(cleared, [Mpd(cleared) EXCEPT !.others = {"station"}]))

-----------------------------------------------------------------------------
(* The actions of control points.  Other actions of a service change neither *)
(* its source nor MPD.                                                       *)
Becomes(s) == r' = s
Kept == UNCHANGED <<method, latest, edits, restarts>>
setSourceIndex == \E source \in m_sources, luck \in Luck : Becomes(Select(r, source, luck)) /\ Kept

\* The playlist is changed by Insert, which selects it, or by DeleteId, which
\* changes the saved one.
ChangesTo(s, songs) ==
  /\ Becomes(s) /\ latest' = IF s.crashed THEN latest ELSE songs
  /\ edits' = edits + 1 /\ UNCHANGED <<method, restarts>>
OnPlaylist(luck) == IF "playlist" \in r.active THEN r ELSE Select(r, "Playlist", luck)
Insert ==
  /\ edits < MaxEdits
  /\ \E luck \in Luck : LET on == OnPlaylist(luck) IN
       ChangesTo(IF on.crashed THEN on ELSE WithMpd(on, [Mpd(on) EXCEPT !.songs = edits + 1]), edits + 1)
deleteId ==
  /\ edits < MaxEdits
  /\ IF "playlist" \in r.active THEN ChangesTo(WithMpd(r, [Mpd(r) EXCEPT !.songs = edits + 1]), edits + 1)
     ELSE ChangesTo([r EXCEPT !.saved["playlist"] = {[mpd EXCEPT !.songs = edits + 1] : mpd \in @}], edits + 1)
Playlist_play ==
  \E luck \in Luck : LET on == OnPlaylist(luck) IN Becomes(IF on.crashed THEN on ELSE PlayFirst(on)) /\ Kept
Playlist_stop == Becomes(StopMpd(r)) /\ Kept

Radio_play == \E luck \in Luck : Becomes(setPlaying(r, luck)) /\ Kept
Radio_stop == \E luck \in Luck : Becomes(Radio_iStop(r, luck, StackSize)) /\ Kept
Radio_pause == Becomes([StopMpd(r) EXCEPT !.playpending = FALSE]) /\ Kept
\* A preset channel is remembered across restarts, one set by its URI is not.
Channel(id, stored) ==
  \E luck \in Luck : LET on == Radio_iStop(r, luck, StackSize) IN
    Becomes(IF on.crashed THEN on ELSE [on EXCEPT !.id = id, !.storedid = stored]) /\ Kept
setId == \E id \in {"uri", "script"} : Channel(id, id)
setChannel == Channel("given", r.storedid)
\* The script of the channel, when MPD's state changes: it may tell an audio URL.
Radio_makestate ==
  /\ "radio" \in r.active /\ r.id = "script" /\ (r.playpending \/ Mpd(r).plays # "nothing")
  /\ LET told == WithMpd(r, [Mpd(r) EXCEPT !.others = @ \cup {"station"}]) IN
       Becomes(IF Mpd(r).plays = "nothing" THEN PlayFirst(told) ELSE told)
  /\ Kept

Receiver_play ==
  \E luck \in Luck :
    LET on == IF "receiver" \in r.active THEN r ELSE Select(r, "Receiver", luck) IN
      Becomes(IF on.crashed THEN on ELSE Receiver_iPlay(on, luck)) /\ Kept
Receiver_stop == \E luck \in Luck : Becomes(Select(Receiver_iStop(r), "Playlist", luck)) /\ Kept
setSender == Becomes(iSetSender(r, "other")) /\ Kept
\* sc2mpd ends by itself; the event that notices it keeps a command without a process.
ReceiverEnds == r.cmd = "runs" /\ Becomes([r EXCEPT !.cmd = "ended"]) /\ Kept

\* The process ends and starts again.  MPD and its queue stay; the stored
\* source is selected by the constructor of OHProduct.
Started(main, stored, storedid, uri) ==
  [source |-> "Playlist", active |-> {"playlist"}, saved |-> [playlist |-> {}, radio |-> {}],
   mpds |-> [main |-> main, aux |-> EmptyQueue], mpdcli |-> "main", senders |-> {}, cmd |-> "none", uri |-> uri,
   id |-> storedid, storedid |-> storedid, playpending |-> FALSE, stored |-> stored, ok |-> TRUE,
   ready |-> FALSE, crashed |-> FALSE]
OHProduct(s, luck) ==
  LET on == Select(s, s.stored, luck) IN
    [on EXCEPT !.ready = TRUE, !.stored = IF on.ok THEN @ ELSE "Playlist"]
Restart ==
  /\ restarts < MaxRestarts
  /\ \E luck \in Luck : Becomes(OHProduct(Started(r.mpds["main"], r.stored, r.storedid, r.uri), luck))
  /\ latest' = r.mpds["main"].songs
  /\ restarts' = restarts + 1 /\ UNCHANGED <<method, edits>>

Init ==
  /\ method \in {"alsa", "mpd"}
  /\ r = OHProduct(Started([EmptyQueue EXCEPT !.songs = 1], "Playlist", "none", "none"), {})
  /\ latest = 1 /\ edits = 1 /\ restarts = 0
Act ==
  \/ setSourceIndex \/ Insert \/ deleteId \/ Playlist_play \/ Playlist_stop
  \/ Radio_play \/ Radio_stop \/ Radio_pause \/ setId \/ setChannel \/ Radio_makestate
  \/ Receiver_play \/ Receiver_stop \/ setSender \/ ReceiverEnds
Next == (~r.crashed /\ Act) \/ Restart
Spec == Init /\ [][Next]_vars

-----------------------------------------------------------------------------
(* Properties. *)

\* The service of the selected source is active and no other one, through
\* failures and nested selections (iSetSourceIndex).
OneServiceActive == ~r.crashed => r.active = ServiceOf(r.source)
\* With a playlist source MPD has the playlist as it was last changed, in the
\* MPD that is in use (setActive, copyMpd).
PlaylistComesBack == ~r.crashed /\ r.source \in Playlists => Mpd(r).songs = latest
\* A sender runs only for the sources that send, the second MPD is used only
\* while its sender runs, and the first one is silent then (start, stop, clear).
SenderHasSource ==
  ~r.crashed =>
    /\ r.senders # {} => r.source \in Songcast \cup {"Analog"}
    /\ (r.mpdcli = "aux") = ("isender" \in r.senders)
    /\ r.mpdcli = "aux" => r.mpds["main"].plays = "nothing"
\* sc2mpd and MPD do not both play to the sound card (iStop, setActive).
OneSound == ~(method = "alsa" /\ ~r.crashed /\ r.cmd = "runs" /\ r.mpds["main"].plays # "nothing")
\* While the radio is active MPD plays nothing but its stations (setPlaying, Radio setActive).
RadioPlaysStations == ~r.crashed /\ "radio" \in r.active => Mpd(r).plays \in {"nothing", "station"}
\* "Sources are switchable from any Control Point" (upmpdcli-manual.txt:111):
\* a selection ends.
SelectionEnds == ~r.crashed
=============================================================================
