------------------------------ MODULE MCStores ------------------------------
(***************************************************************************)
(* What the Tidal and the Subsonic plugin keep in their databases.  A      *)
(* behaviour is one of one plugin; the variables of the other stay as they *)
(* are.                                                                    *)
(***************************************************************************)
EXTENDS SubsonicStore

VARIABLES part, tcount, trecent, turis, tqueue, tmeta, tjob, ttile, tleaked, theard
tidalVars == <<tcount, trecent, turis, tqueue, tmeta, tjob, ttile, tleaked, theard>>
allVars == <<part, vars, tidalVars>>

\* Two albums, one of two songs; Stores.cfg takes pages of two, lets the server
\* change once and the plugin start twice.
MCAlbumOf == <<1, 1, 2>>

\* Two tracks of one album, and an album of which none is listed.
Tidal == INSTANCE TidalStore WITH
  Tracks <- {1, 2}, Albums <- {"a", "b"}, AlbumOf <- <<"a", "a">>, Qualities <- {"lossless"}, NoRow <- 99,
  count <- tcount, recent <- trecent, uris <- turis, queue <- tqueue, meta <- tmeta, job <- tjob,
  tile <- ttile, leaked <- tleaked, heard <- theard

InitAll == Init /\ Tidal!Init /\ part \in {"tidal", "subsonic"}
NextAll ==
  /\ \/ part = "tidal" /\ Tidal!Next /\ UNCHANGED vars
     \/ part = "subsonic" /\ Next /\ UNCHANGED tidalVars
  /\ UNCHANGED part
\* The caching thread goes on (SubsonicStore!Fairness).
Caching == part = "subsonic" /\ ThreadStep /\ UNCHANGED <<tidalVars, part>>
SpecAll == InitAll /\ [][NextAll]_allVars /\ WF_allVars(Caching)

-----------------------------------------------------------------------------
(* Properties. *)

\* Statistics count what was streamed, in both of their lists
\* (track_playback, remove_album_from_played_tracks).
StatsAgree == Tidal!StatsOnlyFromPlays /\ Tidal!ListsAgree
\* No row and no quality is lost but by a purge, a prune of what is gone or a
\* page that misses it (store_album_metadata, preload_albums).
RowsKept == [][Tidal!MetadataKept /\ PrunedWasGone /\ RatedStays]_allVars
=============================================================================
