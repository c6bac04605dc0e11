---------------------------- MODULE SubsonicStore -----------------------------
(***************************************************************************)
(* The database of the Subsonic plugin and its two writers: the pages of   *)
(* the menus, one at a time, and the caching thread of subsonic_init.py,   *)
(* which walks through the albums and then the songs of the server and     *)
(* prunes what it did not meet.  SQLite lets one writer in: a transaction  *)
(* begins at the first row that it writes and holds the lock until its     *)
(* commit; another writer waits for five seconds, then raises.             *)
(***************************************************************************)
EXTENDS Naturals, Sequences, FiniteSets, Functions

CONSTANTS Albums, Songs,   \* that the server may have
          AlbumOf,
          PageSize,        \* SUBSONIC_API_MAX_RETURN_SIZE
          MaxChanges,      \* bound on the changes of the server
          MaxStarts        \* bound on the starts of the plugin
ASSUME StoreAssumption ==
  /\ IsFiniteSet(Albums) /\ IsFiniteSet(Songs) /\ AlbumOf \in [Songs -> Albums]
  /\ PageSize \in Nat \ {0} /\ MaxChanges \in Nat /\ MaxStarts \in Nat

VARIABLES server,   \* its albums, its songs and the albums with tags (a year and a genre)
          db,       \* what is committed
          txn,      \* what the caching thread wrote, while its transaction is open
          thread,   \* where it is
          main,     \* the page under way
          excuse,   \* history: since the thread started, the server or a page removed something
          changes, starts

vars == <<server, db, txn, thread, main, excuse, changes, starts>>

Stopped == [at |-> "stopped"]
NoTxn == [open |-> FALSE]
Begun(d) == [open |-> TRUE, db |-> d]
\* Rows of album_metadata, those updated since the thread started, with a quality,
\* with a genre in its list; with the year as a property; rows of song_metadata.
NoRows == [rows |-> {}, fresh |-> {}, rated |-> {}, genre |-> {}, year |-> {},
           songs |-> {}, freshSongs |-> {}]
SongsOf(a) == {s \in Songs : AlbumOf[s] = a}
Of(albums) == {s \in Songs : AlbumOf[s] \in albums}

-----------------------------------------------------------------------------
(* persistence.py.  Whatever refers to an album goes with its row. *)
WithoutAlbums(d, gone) ==
  [rows |-> d.rows \ gone, fresh |-> d.fresh \ gone, rated |-> d.rated \ gone,
   genre |-> d.genre \ gone, year |-> d.year \ gone,
   songs |-> d.songs \ Of(gone), freshSongs |-> d.freshSongs \ Of(gone)]
WithoutSongs(d, gone) == [d EXCEPT !.songs = @ \ gone, !.freshSongs = @ \ gone]

\* A calculated column keeps its value when the new one is not known.
prefer_data_simple(new, old) == new \/ old
\* What the songs tell of their album: lossless or not, resolution, badge.
SongProperties(songs) == songs # {}
save_album_metadata(d, albums, rated) ==
  [d EXCEPT !.rows = @ \cup albums, !.fresh = @ \cup albums,
            !.rated = {a \in @ \cup albums : a \in albums => prefer_data_simple(rated, a \in @)}]
update_album_metadata_table(d, a) == [d EXCEPT !.rated = @ \cup {a}]
\* Only the keys of the new properties are replaced, and the year is one
\* only if there is a year.
save_album_properties(d, tagged) == [d EXCEPT !.year = @ \cup tagged]
\* A list (of genres, artists, discs, labels, moods, release types) is deleted
\* and inserted again.
DeleteList(d, albums) == [d EXCEPT !.genre = @ \ albums]
InsertList(d, tagged) == [d EXCEPT !.genre = @ \cup tagged]
update_album_multivalue_table(d, albums, tagged) == InsertList(DeleteList(d, albums), tagged)
save_song(d, s) == [d EXCEPT !.songs = @ \cup {s}, !.freshSongs = @ \cup {s}]
SaveSongs(d, songs) == [d EXCEPT !.songs = @ \cup songs, !.freshSongs = @ \cup songs]
prune_album_metadata(d) == WithoutAlbums(d, d.rows \ d.fresh)
prune_song_metadata(d) == WithoutSongs(d, d.songs \ d.freshSongs)

\* Those of the albums that have tags.
SaveTags(d, albums, tagged) ==
  update_album_multivalue_table(save_album_properties(d, tagged), albums, tagged)
\* All of an album in one transaction; a list of albums comes without songs.
on_album(d, a, tagged, songs) ==
  LET saved == SaveTags(save_album_metadata(d, {a}, SongProperties(songs)), {a}, tagged)
  IN IF songs = {} THEN saved ELSE WithoutSongs(SaveSongs(saved, songs), SongsOf(a) \ songs)

-----------------------------------------------------------------------------
(* The pages.  The database is free for a page when the thread has no open *)
(* transaction; else the page waits and gives up.                          *)
Idle == [step |-> "idle"]
Page(step, a, known) ==
  [step |-> step, album |-> a, known |-> known, tagged |-> {a} \cap server.tagged,
   songs |-> server.songs \cap SongsOf(a)]
Writable == ~txn.open

\* The page of an album and an entry of a list read the row first.
NavigableAlbum(a) == main = Idle /\ a \in server.albums /\ main' = Page("save", a, a \in db.rows)
AlbumToEntry(a) ==
  main = Idle /\ a \in server.albums \ db.rows /\ main' = [Page("save", a, FALSE) EXCEPT !.songs = {}]
AlbumTracks(a) == main = Idle /\ a \in server.albums /\ main' = Page("cache", a, TRUE)
AlbumsByArtist(a) ==
  main = Idle /\ a \in server.albums /\ main' = [Page("cache", a, TRUE) EXCEPT !.songs = {}]

\* A row that the thread inserted after the page had read none fails the INSERT;
\* a row that is gone is not updated.  The page raises when it cannot write.
SaveMetadata ==
  /\ main.step = "save"
  /\ IF Writable /\ (main.known \/ main.album \notin db.rows)
     THEN /\ db' = IF main.known /\ main.album \notin db.rows THEN db
                   ELSE save_album_metadata(db, {main.album}, SongProperties(main.songs))
          /\ main' = IF main.songs = {} THEN Idle ELSE [main EXCEPT !.step = "cache"]
     ELSE main' = Idle /\ UNCHANGED db
\* on_album() swallows its failure.
CacheAlbum ==
  /\ main.step = "cache"
  /\ db' = IF Writable THEN on_album(db, main.album, main.tagged, main.songs) ELSE db
  /\ main' = Idle

\* The server did not answer for the album.
AlbumNotFound(a) ==
  /\ main = Idle /\ Writable /\ a \in db.rows
  /\ db' = WithoutAlbums(db, {a})
  /\ excuse' = TRUE
  /\ UNCHANGED main

MainStep ==
  /\ thread # Stopped
  /\ \/ /\ \E a \in Albums : NavigableAlbum(a) \/ AlbumToEntry(a) \/ AlbumTracks(a) \/ AlbumsByArtist(a)
        /\ UNCHANGED <<db, excuse>>
     \/ (SaveMetadata \/ CacheAlbum) /\ UNCHANGED excuse
     \/ \E a \in Albums : AlbumNotFound(a)
  /\ UNCHANGED <<server, txn, thread, changes, starts>>

-----------------------------------------------------------------------------
(* The caching thread. *)
\* The server has its own order, which stays while it does not change.
Listing(set) == CHOOSE list \in Bijection(1..Cardinality(set), set) : TRUE
Listed(seq, offset) == SubSeq(seq, offset + 1, IF offset + PageSize < Len(seq) THEN offset + PageSize ELSE Len(seq))
Seen == IF txn.open THEN txn.db ELSE db

\* known: the albums whose rows were found, missing: those not found; counted: the songs
\* met; promised: song_count of the albums met by the first walk, if it came to its end.
\* Were the albums cached less than PRELOAD_MAX_DELTA_SEC ago?
Recently == IF db.rows = {} THEN {FALSE} ELSE BOOLEAN
NoPromise == [a \in {} |-> 0]
Start ==
  /\ thread = Stopped /\ starts < MaxStarts
  /\ starts' = starts + 1
  /\ excuse' = FALSE
  /\ db' = [db EXCEPT !.fresh = {}, !.freshSongs = {}]
  /\ \E recent \in Recently :
       /\ thread' = [at |-> IF recent THEN "ask songs" ELSE "ask albums", walk |-> ~recent, offset |-> 0,
                     page |-> <<>>, short |-> FALSE, saved |-> FALSE, exists |-> FALSE,
                     known |-> {}, missing |-> {}, counted |-> {}, promised |-> NoPromise]
  /\ UNCHANGED <<server, txn, main, changes>>

\* An exception rolls back and goes on with the songs, without the result.
Abandon ==
  /\ txn' = NoTxn
  /\ thread' = IF thread.at \in {"ask albums", "read album", "store albums"}
               THEN [thread EXCEPT !.at = "ask songs", !.walk = FALSE, !.offset = 0, !.page = <<>>,
                                   !.saved = FALSE, !.promised = NoPromise]
               ELSE [thread EXCEPT !.at = "failed"]
\* A request fails, or what is written breaks a key (two discs of one number).
Fails ==
  /\ thread.at \in {"ask albums", "store albums", "ask songs", "store song"}
  /\ Abandon
  /\ UNCHANGED <<server, db, main, excuse, changes, starts>>

AskAlbums ==
  /\ thread.at = "ask albums"
  /\ LET page == Listed(Listing(server.albums), thread.offset)
     IN thread' = [thread EXCEPT !.page = page, !.short = Len(page) < PageSize,
                                 !.at = IF page = <<>> THEN "store albums" ELSE "read album"]
  /\ UNCHANGED <<server, db, txn, main, excuse, changes, starts>>

\* The row of the first album is looked up before the transaction begins.
ReadAlbum ==
  /\ thread.at = "read album"
  /\ thread' = [thread EXCEPT !.exists = Head(thread.page) \in db.rows, !.at = "store albums"]
  /\ UNCHANGED <<server, db, txn, main, excuse, changes, starts>>

StoredPage(d) ==
  LET albums == Range(thread.page)
  IN SaveTags(save_album_metadata(d, albums, FALSE), albums, albums \cap server.tagged)
\* The INSERT of a row that a page inserted meanwhile fails: there is no save_mode
\* yet at the first album.  The properties of a row that a page deleted fail.
Overtaken ==
  /\ thread.page # <<>>
  /\ \/ ~thread.exists /\ Head(thread.page) \in db.rows /\ ~thread.saved
     \/ thread.exists /\ Head(thread.page) \notin db.rows
\* Mutant of NextOffset: the page does not move.
SameOffset(offset) == offset
NextOffset(offset) == offset + Len(thread.page)
\* Each page of albums is committed, the last one with the prune.
CommitPage(d) == db' = d /\ UNCHANGED txn
WithPage(promised) ==
  [a \in DOMAIN promised \cup Range(thread.page) |->
     IF a \in DOMAIN promised THEN promised[a] ELSE Cardinality(server.songs \cap SongsOf(a))]
StoreAlbums ==
  /\ thread.at = "store albums"
  /\ IF Overtaken THEN Abandon /\ UNCHANGED db
     ELSE /\ CommitPage(IF thread.short THEN prune_album_metadata(StoredPage(Seen)) ELSE StoredPage(Seen))
          /\ thread' = [thread EXCEPT
               !.promised = WithPage(@),
               !.saved = IF thread.short THEN FALSE ELSE TRUE,
               !.offset = IF thread.short THEN 0 ELSE NextOffset(@),
               !.page = <<>>,
               !.at = IF thread.short THEN "ask songs" ELSE "ask albums"]
  /\ UNCHANGED <<server, main, excuse, changes, starts>>

AskSongs ==
  /\ thread.at = "ask songs"
  /\ LET page == Listed(Listing(server.songs), thread.offset)
     IN thread' = [thread EXCEPT !.page = page, !.short = Len(page) < PageSize,
                                 !.at = IF page = <<>> THEN "end of songs" ELSE "read song"]
  /\ UNCHANGED <<server, db, txn, main, excuse, changes, starts>>

\* The album is looked up once, the row of the song each time.
ReadSong ==
  /\ thread.at = "read song"
  /\ LET s == Head(thread.page)  a == AlbumOf[s]  new == a \notin thread.known \cup thread.missing
     IN thread' = [thread EXCEPT !.known = IF new /\ a \in Seen.rows THEN @ \cup {a} ELSE @,
                                 !.missing = IF new /\ a \notin Seen.rows THEN @ \cup {a} ELSE @,
                                 !.exists = s \in Seen.songs,
                                 !.at = "store song"]
  /\ UNCHANGED <<server, db, txn, main, excuse, changes, starts>>

AfterSong(t) ==
  [t EXCEPT !.page = Tail(@), !.offset = @ + 1,
            !.at = IF Len(t.page) > 1 THEN "read song" ELSE IF t.short THEN "end of songs" ELSE "ask songs"]
\* Mutant of AllSongsMet: more songs than the server promised.
LessThanPromised(t, a) ==
  a \in DOMAIN t.promised /\ Cardinality(t.counted \cap SongsOf(a)) > t.promised[a]
AllSongsMet(t, a) ==
  a \in DOMAIN t.promised /\ Cardinality(t.counted \cap SongsOf(a)) = t.promised[a]
\* The quality of an album follows with the last of its songs, and the commit.
StoreSong ==
  /\ thread.at = "store song"
  /\ LET s == Head(thread.page)
         a == AlbumOf[s]
         met == [thread EXCEPT !.counted = @ \cup {s}, !.saved = TRUE]
         stored == save_song(Seen, s)
     IN IF a \notin thread.known THEN thread' = AfterSong(thread) /\ UNCHANGED <<db, txn>>
        ELSE IF a \notin Seen.rows \/ (s \in Seen.songs /\ ~thread.exists /\ ~thread.saved)
             THEN Abandon /\ UNCHANGED db
        ELSE IF AllSongsMet(met, a)
             THEN /\ db' = update_album_metadata_table(stored, a)
                  /\ txn' = NoTxn
                  /\ thread' = AfterSong(met)
        ELSE txn' = Begun(stored) /\ thread' = AfterSong(met) /\ UNCHANGED db
  /\ UNCHANGED <<server, main, excuse, changes, starts>>

EndOfSongs ==
  /\ thread.at = "end of songs"
  /\ db' = prune_song_metadata(Seen)
  /\ txn' = NoTxn
  /\ thread' = [thread EXCEPT !.at = "done"]
  /\ UNCHANGED <<server, main, excuse, changes, starts>>

ThreadStep == Fails \/ AskAlbums \/ ReadAlbum \/ StoreAlbums
              \/ AskSongs \/ ReadSong \/ StoreSong \/ EndOfSongs

-----------------------------------------------------------------------------
(* The server changes; the plugin is stopped, or killed: the open          *)
(* transaction is rolled back.                                             *)
ServerChange ==
  /\ changes < MaxChanges
  /\ changes' = changes + 1
  /\ \/ \E a \in Albums \ server.albums :
          /\ server' = [server EXCEPT !.albums = @ \cup {a}, !.songs = @ \cup SongsOf(a), !.tagged = @ \cup {a}]
     \/ \E a \in server.albums :
          server' = [albums |-> server.albums \ {a}, songs |-> server.songs \ SongsOf(a),
                     tagged |-> server.tagged \ {a}]
     \/ \E s \in server.songs : server' = [server EXCEPT !.songs = @ \ {s}]
     \/ \E a \in server.tagged : server' = [server EXCEPT !.tagged = @ \ {a}]
  /\ excuse' = TRUE
  /\ UNCHANGED <<db, txn, thread, main, starts>>

Stop ==
  /\ thread # Stopped
  /\ thread' = Stopped /\ txn' = NoTxn /\ main' = Idle
  /\ UNCHANGED <<server, db, excuse, changes, starts>>

Init ==
  /\ server = [albums |-> Albums, songs |-> Songs, tagged |-> Albums]
  /\ db = NoRows /\ txn = NoTxn /\ thread = Stopped /\ main = Idle
  /\ excuse = FALSE /\ changes = 0 /\ starts = 0

Next == Start \/ ThreadStep \/ MainStep \/ ServerChange \/ Stop

Fairness == WF_vars(ThreadStep)
Spec == Init /\ [][Next]_vars /\ Fairness

-----------------------------------------------------------------------------
(* Properties. *)

\* What the thread removes was not on the server: the prune of preload_albums()
\* and preload_songs() takes only what the walk did not meet, unless the server
\* changed under the pages of the walk or a page forgot an album.
PrunedWasGone ==
  thread' # thread /\ ~excuse =>
    /\ (db.rows \ db'.rows) \cap server.albums = {}
    /\ (db.songs \ db'.songs) \cap server.songs = {}

\* When initial_caching() has walked through everything, the database has what
\* the server has, the lists of the albums too, and every album with songs has
\* its quality, whatever the pages wrote in between.
CompleteAfterPreload ==
  thread.at = "done" /\ thread.walk /\ ~excuse =>
    /\ db.rows = server.albums
    /\ db.songs = server.songs
    /\ db.genre = server.tagged
    /\ {AlbumOf[s] : s \in db.songs} \subseteq db.rated

\* A list of albums comes without the songs that the quality is computed from:
\* saving the album again from such a list keeps the quality it had.
RatedStays == (db.rated \ db'.rated) \cap db'.rows = {}

\* While the thread waits for the server's albums it holds no lock, so that the
\* pages can write (they cannot while it waits for songs).
PagesCanWrite == thread.at = "ask albums" => ~txn.open

\* Both: a walk that nothing disturbed leaves what the server has, and keeps no
\* page from writing while it waits for albums (initial_caching).
StoreFollowsServer == CompleteAfterPreload /\ PagesCanWrite

\* The walk through the pages of the server comes to an end (preload_albums,
\* preload_songs).
CachingEnds == thread.at = "ask albums" ~> thread.at \in {"done", "failed", "stopped"}
=============================================================================
