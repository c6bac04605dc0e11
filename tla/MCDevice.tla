------------------------------ MODULE MCDevice ------------------------------
(***************************************************************************)
(* The renderer for TLC: the Playlist service in detail, and the selection *)
(* of sources around it.  A behaviour is one of one of them, the other     *)
(* stays as it is.                                                         *)
(***************************************************************************)
EXTENDS Playlist

VARIABLES part, method, r, latest, edits, restarts
sourceVars == <<method, r, latest, edits, restarts>>
allVars == <<part, vars, sourceVars>>

\* Two changes of the playlist besides the initial one, a restart; an endless selection is cut at depth 4.
Device == INSTANCE Sources WITH MaxEdits <- 2, MaxRestarts <- 1, StackSize <- 4

InitAll ==
  /\ PlInit /\ Device!Init
  /\ \/ part = "playlist" /\ method = "alsa"
     \/ part = "sources" /\ mpd.queue = <<>> /\ mpd.state = "stop"
NextAll ==
  /\ \/ part = "playlist" /\ PlNext /\ UNCHANGED sourceVars
     \/ part = "sources" /\ Device!Next /\ UNCHANGED vars
  /\ UNCHANGED part
\* The fairness of PlSpec.
OfPlaylist(A) == part = "playlist" /\ A /\ UNCHANGED <<part, sourceVars>>
SpecAll == InitAll /\ [][NextAll]_allVars /\ WF_allVars(OfPlaylist(CtlStep)) /\ WF_allVars(OfPlaylist(NtfStep))

-----------------------------------------------------------------------------
(* Properties. *)

\* Through failures and nested selections the selected source, the active
\* service, the sender, the receiver and what the MPD in use plays agree
\* (iSetSourceIndex, SenderReceiver, OHRadio).
SourcesAgree == Device!OneServiceActive /\ Device!SenderHasSource /\ Device!OneSound /\ Device!RadioPlaysStations
\* A playlist source finds the playlist as it was last changed, in the MPD that
\* is in use, however many sources were selected since (setActive, copyMpd).
PlaylistComesBack == Device!PlaylistComesBack
=============================================================================
