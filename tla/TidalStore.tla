----------------------------- MODULE TidalStore -----------------------------
(***************************************************************************)
(* The tables of tidal/persistence.py at run time, and trackuri() and the  *)
(* cached URIs of tidal-app.py, which write to them.  The time stamps are  *)
(* kept as orders: the tracks from the last played one on, each listen     *)
(* queue from its first entry on; an image or a URI is fresh or too old.   *)
(*                                                                         *)
(* Each call opens a connection of its own.  The one whose INSERT fails on *)
(* the primary key is kept by the traceback of the exception, with its     *)
(* transaction, until the collector frees it: until then the database is   *)
(* locked for every other writer, whose statement raises.                  *)
(*                                                                         *)
(* Two threads write: the one that serves the pages, one request after     *)
(* another, and the preloading thread, which stores the favourite albums   *)
(* and the images of the tags.  A write meets the open transaction of the  *)
(* other thread: it waits, or it waits too long and raises.                *)
(***************************************************************************)
EXTENDS Naturals, Sequences, FiniteSets

CONSTANTS Tracks, Albums, AlbumOf, Qualities,
          NoRow     \* the play count of a track without a row

VARIABLES count,   \* [Tracks -> Nat \cup {NoRow}]: play_count of the row, if any
          recent,  \* the tracks with a last_played, the latest first
          uris,    \* [Tracks \X Qualities -> {"none", "fresh", "old"}], track_uri_cache
          queue,   \* the album listen queue
          meta,    \* the albums with a row in album_metadata_cache_v1
          job,     \* [Writers -> <<row, step>>]: the row a thread stores, and how far it is
          tile,    \* the row of a tag's image: none, fresh, old or null
          leaked,  \* a dead connection holds the write lock
          heard    \* history: the tracks whose stream was given since they were last removed

store == <<count, recent, queue, meta, job, tile>>
vars == <<count, recent, uris, queue, meta, job, tile, leaked, heard>>

Writers == {"page", "preloading"}
Tile == "tile"
Idle == <<"none", "idle">>
Dead == <<"none", "dead">>
Without(seq, set) == SelectSeq(seq, LAMBDA x : x \notin set)
Ids(seq) == {seq[i] : i \in DOMAIN seq}

Init ==
  /\ count = [t \in Tracks |-> NoRow] /\ recent = <<>>
  /\ uris = [k \in Tracks \X Qualities |-> "none"]
  /\ queue = <<>> /\ meta = {} /\ tile = "none"
  /\ job = [w \in Writers |-> Idle]
  /\ leaked = FALSE /\ heard = {}

track_has_been_played(t) == count[t] # NoRow
Counted == {t \in Tracks : count[t] \notin {NoRow, 0}}
Row(w)  == job[w][1]
Step(w) == job[w][2]
\* Between its DELETE and its COMMIT a thread holds the write lock.
Locked(w) == leaked \/ \E v \in Writers \ {w} : Step(v) = "deleted"
\* The requests come one at a time: while one replaces a row, no other.
PageFree == job["page"] = Idle
Writable == PageFree /\ ~Locked("page")

-----------------------------------------------------------------------------
\* trackuri(): the purge of the old entries comes first, in the lookup.
track_uri_purge_old == [k \in DOMAIN uris |-> IF uris[k] = "old" THEN "none" ELSE uris[k]]
Cached(t, q) == track_uri_purge_old[t, q] = "fresh"
StoreUri(t, q) == uris' = [track_uri_purge_old EXCEPT ![t, q] = "fresh"]

TrackUriCached(t, q) ==
  /\ PageFree /\ Cached(t, q)
  /\ uris' = track_uri_purge_old
  /\ UNCHANGED <<store, leaked, heard>>

\* The track or its stream is not available.
TrackUriFails(t, q) ==
  /\ PageFree /\ ~Cached(t, q)
  /\ uris' = track_uri_purge_old
  /\ UNCHANGED <<store, leaked, heard>>

\* The stream is there, its album is not: nothing is counted.
TrackUriNoAlbum(t, q) ==
  /\ PageFree /\ ~Cached(t, q)
  /\ StoreUri(t, q)
  /\ UNCHANGED <<store, leaked, heard>>

\* track_playback: the INSERT of a track without a row.
TrackUriFirst(t, q) ==
  /\ PageFree /\ ~Cached(t, q) /\ ~Locked("page") /\ count[t] = NoRow
  /\ count' = [count EXCEPT ![t] = 1]
  /\ recent' = <<t>> \o recent
  /\ heard' = heard \cup {t}
  /\ StoreUri(t, q)
  /\ UNCHANGED <<queue, meta, job, tile, leaked>>

\* The INSERT raises because of a lock, or it fails on the primary key and keeps
\* a lock of its own, which the UPDATE that follows meets and raises.
TrackUriLocked(t, q) ==
  /\ PageFree /\ ~Cached(t, q) /\ (Locked("page") \/ count[t] # NoRow)
  /\ leaked' = (leaked \/ ~Locked("page"))
  /\ uris' = track_uri_purge_old
  /\ UNCHANGED <<store, heard>>

\* The collector frees the connection.
Collect ==
  /\ leaked
  /\ leaked' = FALSE
  /\ UNCHANGED <<store, uris, heard>>

AgeUri(t, q) ==
  /\ uris[t, q] = "fresh"
  /\ uris' = [uris EXCEPT ![t, q] = "old"]
  /\ UNCHANGED <<store, leaked, heard>>

-----------------------------------------------------------------------------
\* Mutant of track_ghost_playback: a listing counts as a play.
GhostCounting(t) ==
  /\ Writable /\ ~track_has_been_played(t)
  /\ count' = [count EXCEPT ![t] = 1]
  /\ UNCHANGED <<recent, uris, queue, meta, job, tile, leaked, heard>>
\* A track that is listed without being played.
track_ghost_playback(t) ==
  /\ Writable /\ ~track_has_been_played(t)
  /\ count' = [count EXCEPT ![t] = 0]
  /\ UNCHANGED <<recent, uris, queue, meta, job, tile, leaked, heard>>

Forget(ts) ==
  /\ Writable
  /\ count' = [t \in Tracks |-> IF t \in ts /\ count[t] # NoRow THEN 0 ELSE count[t]]
  /\ recent' = Without(recent, ts)
  /\ heard' = heard \ ts
  /\ UNCHANGED <<uris, queue, meta, job, tile, leaked>>
remove_track_from_played_tracks(t) == Forget({t})
remove_album_from_played_tracks(a) == Forget({t \in Tracks : AlbumOf[t] = a})

purge_album_from_played_tracks(a) ==
  LET ts == {t \in Tracks : AlbumOf[t] = a} IN
    /\ Writable
    /\ count' = [t \in Tracks |-> IF t \in ts THEN NoRow ELSE count[t]]
    /\ recent' = Without(recent, ts)
    /\ heard' = heard \ ts
    /\ UNCHANGED <<uris, queue, meta, job, tile, leaked>>

-----------------------------------------------------------------------------
add_to_album_listen_queue(a) ==
  /\ Writable /\ a \notin Ids(queue)
  /\ queue' = Append(queue, a)
  /\ UNCHANGED <<count, recent, uris, meta, job, tile, leaked, heard>>

remove_from_album_listen_queue(a) ==
  /\ Writable /\ a \in Ids(queue)
  /\ queue' = Without(queue, {a})
  /\ UNCHANGED <<count, recent, uris, meta, job, tile, leaked, heard>>

\* A thread that is going to store a row looks first whether there is one: an
\* album that the service lists, or the image of a tag whose row is not fresh.
LookUp(w, row, found) ==
  /\ job[w] = Idle
  /\ job' = [job EXCEPT ![w] = <<row, IF found THEN "found" ELSE "missing">>]
  /\ UNCHANGED <<count, recent, uris, queue, meta, tile, leaked, heard>>
store_album_metadata(w, a) == LookUp(w, a, a \in meta)
image_retriever_cached(w) == tile # "fresh" /\ LookUp(w, Tile, tile # "none")

\* Mutant of delete_album_metadata: the deletion is committed by itself.
DeleteCommitted(w) ==
  /\ Row(w) \in Albums /\ Step(w) = "found" /\ ~Locked(w)
  /\ job' = [job EXCEPT ![w][2] = "deleted"] /\ meta' = meta \ {Row(w)}
  /\ UNCHANGED <<count, recent, uris, queue, tile, leaked, heard>>
\* The row is deleted and inserted in one transaction, which this begins; the row
\* need not be there any more.
delete_album_metadata(w) ==
  /\ Row(w) \in Albums /\ Step(w) = "found" /\ ~Locked(w)
  /\ job' = [job EXCEPT ![w][2] = "deleted"]
  /\ UNCHANGED <<count, recent, uris, queue, meta, tile, leaked, heard>>

insert_album_metadata(w) ==
  /\ Row(w) \in Albums
  /\ Step(w) = "deleted" \/ (Step(w) = "missing" /\ ~Locked(w) /\ Row(w) \notin meta)
  /\ meta' = meta \cup {Row(w)}
  /\ job' = [job EXCEPT ![w] = Idle]
  /\ UNCHANGED <<count, recent, uris, queue, tile, leaked, heard>>

\* The UPDATE of the row that was found, or the INSERT of one.
save_tile_image(w) ==
  /\ Row(w) = Tile /\ ~Locked(w)
  /\ Step(w) = "missing" => tile = "none"
  /\ tile' = "fresh"
  /\ job' = [job EXCEPT ![w] = Idle]
  /\ UNCHANGED <<count, recent, uris, queue, meta, leaked, heard>>

\* The write waits too long for the lock of the other, or the other has inserted
\* the row since the look: a page leaves the item out or fails, the preloading thread,
\* which catches nothing, ends.
WriteRaises(w) ==
  /\ \/ Step(w) \in {"found", "missing"} /\ Locked(w)
     \/ Step(w) = "missing" /\ (Row(w) \in meta \/ (Row(w) = Tile /\ tile # "none"))
  /\ job' = [job EXCEPT ![w] = IF w = "page" THEN Idle ELSE Dead]
  /\ UNCHANGED <<count, recent, uris, queue, meta, tile, leaked, heard>>

\* A request of the preloading thread fails.
preloading_raises ==
  /\ job["preloading"] = Idle
  /\ job' = [job EXCEPT !["preloading"] = Dead]
  /\ UNCHANGED <<count, recent, uris, queue, meta, tile, leaked, heard>>

purge_album_from_metadata_cache(a) ==
  /\ Writable
  /\ meta' = meta \ {a}
  /\ UNCHANGED <<count, recent, uris, queue, job, tile, leaked, heard>>

AgeTile ==
  /\ tile = "fresh"
  /\ tile' = "old"
  /\ UNCHANGED <<count, recent, uris, queue, meta, job, leaked, heard>>
\* At the start, before the preloading thread, images of another base URL are set
\* to null.
clean_image_url_starting_with ==
  /\ Writable /\ job["preloading"] = Idle /\ tile # "none"
  /\ tile' = "null"
  /\ UNCHANGED <<count, recent, uris, queue, meta, job, leaked, heard>>

\* The process ends at any point: the open transactions are rolled back, their
\* locks and the cached URIs are gone, and the next start runs both threads.
Stop ==
  /\ job' = [w \in Writers |-> Idle] /\ leaked' = FALSE
  /\ uris' = [k \in Tracks \X Qualities |-> "none"]
  /\ UNCHANGED <<count, recent, queue, meta, tile, heard>>

Play(t, q) == TrackUriCached(t, q) \/ TrackUriFails(t, q) \/ TrackUriNoAlbum(t, q)
              \/ TrackUriFirst(t, q) \/ TrackUriLocked(t, q) \/ AgeUri(t, q)
Next ==
  \/ \E t \in Tracks : track_ghost_playback(t) \/ remove_track_from_played_tracks(t)
                       \/ \E q \in Qualities : Play(t, q)
  \/ \E a \in Albums : remove_album_from_played_tracks(a) \/ purge_album_from_played_tracks(a)
                       \/ add_to_album_listen_queue(a) \/ remove_from_album_listen_queue(a)
                       \/ purge_album_from_metadata_cache(a)
  \/ \E w \in Writers : \/ \E a \in Albums : store_album_metadata(w, a)
                       \/ delete_album_metadata(w) \/ insert_album_metadata(w)
                       \/ image_retriever_cached(w) \/ save_tile_image(w) \/ WriteRaises(w)
  \/ preloading_raises \/ AgeTile \/ clean_image_url_starting_with
  \/ Collect \/ Stop
Spec == Init /\ [][Next]_vars

-----------------------------------------------------------------------------
\* The statistics count only tracks whose stream was given since they were last
\* removed, and no track that was just listed (insert_playback with no time).
StatsOnlyFromPlays == Counted \subseteq heard

\* "Recently played" has each counted track once, and no other: removing a track
\* or an album from the statistics takes it out of both lists.
ListsAgree == Len(recent) = Cardinality(Ids(recent)) /\ Ids(recent) = Counted

\* A row of the album metadata cache disappears by a purge only: not when the
\* process ends between the DELETE and the INSERT of a new version, nor when the
\* two threads replace or purge the same row.
MetadataKept == \A a \in meta : a \in meta' \/ purge_album_from_metadata_cache(a)
=============================================================================
