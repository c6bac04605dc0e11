------------------------- MODULE SubsonicStore_proofs -------------------------
(***************************************************************************)
(* Proofs about the database of the Subsonic plugin, for any finite        *)
(* library, any size of the server's pages and any number of changes and   *)
(* starts.  Induction is over the steps; what a walk has done so far is    *)
(* told by the part of the server's list before its offset.                *)
(***************************************************************************)
EXTENDS SubsonicStore, FiniteSetTheorems, SequenceTheorems, TLAPS

-----------------------------------------------------------------------------
(* Types. *)

AlbumPlaces == {"ask albums", "read album", "store albums"}
SongPlaces == {"ask songs", "read song", "store song", "end of songs"}
Promises == UNION {[D -> Nat] : D \in SUBSET Albums}
Servers == [albums : SUBSET Albums, songs : SUBSET Songs, tagged : SUBSET Albums]
Databases ==
  [rows : SUBSET Albums, fresh : SUBSET Albums, rated : SUBSET Albums, genre : SUBSET Albums,
   year : SUBSET Albums, songs : SUBSET Songs, freshSongs : SUBSET Songs]
Pages ==
  [step : {"save", "cache"}, album : Albums, known : BOOLEAN, tagged : SUBSET Albums, songs : SUBSET Songs]
Threads ==
  [at : AlbumPlaces \cup SongPlaces \cup {"done", "failed"}, walk : BOOLEAN, offset : Nat,
   page : Seq(Albums) \cup Seq(Songs), short : BOOLEAN, saved : BOOLEAN, exists : BOOLEAN,
   known : SUBSET Albums, missing : SUBSET Albums, counted : SUBSET Songs, promised : Promises]

TypeOK ==
  /\ server \in Servers /\ db \in Databases
  /\ txn = NoTxn \/ txn \in [open : {TRUE}, db : Databases]
  /\ thread = Stopped \/ thread \in Threads
  /\ main = Idle \/ main \in Pages
  /\ excuse \in BOOLEAN /\ changes \in Nat /\ starts \in Nat

-----------------------------------------------------------------------------
(* The inductive invariant: what holds whatever the server does ...  *)

ServerFits(sv) == sv.tagged \subseteq sv.albums /\ \A s \in sv.songs : AlbumOf[s] \in sv.albums
\* What refers to an album refers to a row.
Closed(d) ==
  /\ d.fresh \subseteq d.rows /\ d.genre \subseteq d.rows /\ d.freshSongs \subseteq d.songs
  /\ \A s \in d.songs : AlbumOf[s] \in d.rows
\* A transaction adds songs, and is open during the walk through the songs only.
TxnFits(x, d, at) ==
  x.open =>
    /\ at \in SongPlaces /\ Closed(x.db)
    /\ x.db.rows = d.rows /\ x.db.rated = d.rated /\ x.db.fresh = d.fresh
    /\ d.songs \subseteq x.db.songs /\ d.freshSongs \subseteq x.db.freshSongs
PlaceFits(t) ==
  /\ t.at \in {"read album", "store albums"} => t.page \in Seq(Albums)
  /\ t.at \in {"read song", "store song"} => t.page \in Seq(Songs)
  /\ t.at \in {"read album", "read song", "store song"} => t.page # <<>>
  /\ t.at = "store song" => AlbumOf[Head(t.page)] \in t.known \cup t.missing
PageFits(m) == m # Idle => m.tagged \subseteq {m.album} /\ m.songs \subseteq SongsOf(m.album)

(* ... and what holds while nothing excuses the thread. *)

On(sv, a) == sv.songs \cap SongsOf(a)
First(list, n) == {list[i] : i \in 1..n}
PageAt(list, t) ==
  /\ t.offset + Len(t.page) <= Len(list)
  /\ \A i \in 1..Len(t.page) : t.page[i] = list[t.offset + i]
  /\ t.short => t.offset + Len(t.page) = Len(list)
Promised(sv, albums, promised) ==
  /\ albums \subseteq DOMAIN promised
  /\ \A a \in DOMAIN promised : promised[a] = Cardinality(On(sv, a))

\* The page under way describes the server.
PageTells(sv, m) ==
  m # Idle =>
    /\ m.album \in sv.albums /\ m.tagged = {m.album} \cap sv.tagged
    /\ m.songs = {} \/ m.songs = On(sv, m.album)
FreshIsThere(sv, d) == d.fresh \subseteq sv.albums /\ d.freshSongs \subseteq sv.songs
\* The albums before the offset are saved, with their tags.
AlbumWalk(sv, d, t) ==
  t.at \in AlbumPlaces =>
    LET list == Listing(sv.albums)  met == First(list, t.offset) IN
    /\ t.walk /\ t.missing = {} /\ t.counted = {}
    /\ t.offset <= Len(list)
    /\ met \subseteq d.fresh
    /\ \A a \in met : a \in d.genre <=> a \in sv.tagged
    /\ Promised(sv, met, t.promised)
    /\ t.at # "ask albums" => PageAt(list, t)
\* The songs before the offset, and those of albums that the walk missed, are
\* marked if they are there.
SongWalk(sv, d, t) ==
  t.at \in SongPlaces =>
    LET list == Listing(sv.songs) IN
    /\ t.offset <= Len(list)
    /\ \A s \in d.songs : s \in First(list, t.offset) \/ AlbumOf[s] \in t.missing => s \in d.freshSongs
    /\ t.at \in {"read song", "store song"} => PageAt(list, t)
    /\ t.at = "end of songs" => t.offset = Len(list)
\* After a whole walk through the albums.
WholeWalk(sv, d, t) ==
  t.walk /\ t.at \in SongPlaces \cup {"done"} =>
    /\ d.rows = sv.albums /\ d.genre = sv.tagged
    /\ t.missing = {} /\ Promised(sv, sv.albums, t.promised)
    /\ \A a \in sv.albums : On(sv, a) # {} /\ On(sv, a) \subseteq t.counted => a \in d.rated
    /\ t.counted \subseteq d.songs
    /\ t.at \in SongPlaces => t.counted = First(Listing(sv.songs), t.offset)
    /\ t.at = "done" => t.counted = sv.songs /\ d.songs \subseteq sv.songs
Undisturbed(sv, d, t) ==
  FreshIsThere(sv, d) /\ AlbumWalk(sv, d, t) /\ SongWalk(sv, d, t) /\ WholeWalk(sv, d, t)

StoreInv ==
  /\ TypeOK
  /\ ServerFits(server) /\ Closed(db) /\ PageFits(main)
  /\ IF thread = Stopped THEN main = Idle /\ txn = NoTxn
     ELSE /\ PlaceFits(thread) /\ TxnFits(txn, db, thread.at)
          /\ ~excuse => PageTells(server, main) /\ Undisturbed(server, Seen, thread)

-----------------------------------------------------------------------------
(* Lists of the server and their pages. *)

\* The server lists each member of a finite set, in some order (search()).
LEMMA ListingFacts ==
  ASSUME NEW S, IsFiniteSet(S)
  PROVE  /\ Listing(S) \in Seq(S) /\ Len(Listing(S)) \in Nat
         /\ \A i \in 1..Len(Listing(S)) : Listing(S)[i] \in S
         /\ First(Listing(S), Len(Listing(S))) = S
  <1> DEFINE n == Cardinality(S)
  <1>1. n \in Nat /\ Bijection(1..n, S) # {}
    BY FS_CardinalityType DEF ExistsBijection
  <1>2. Listing(S) \in Bijection(1..n, S)
    BY <1>1 DEF Listing
  <1>3. Listing(S) \in [1..n -> S] /\ \A a \in S : \E i \in 1..n : Listing(S)[i] = a
    BY <1>2 DEF Bijection, Surjection
  <1>4. Listing(S) \in Seq(S) /\ Len(Listing(S)) = n
    BY <1>1, <1>3
  <1>5. QED
    BY <1>1, <1>3, <1>4 DEF First

\* A page of search() with an offset.
LEMMA ListedFacts ==
  ASSUME NEW S, NEW list \in Seq(S), NEW k \in Nat
  PROVE  LET page == Listed(list, k) IN
         /\ page \in Seq(S) /\ Len(page) \in Nat /\ (page = <<>> <=> Len(page) = 0)
         /\ k <= Len(list) =>
              /\ k + Len(page) <= Len(list)
              /\ \A i \in 1..Len(page) : page[i] = list[k + i]
              /\ Len(page) < PageSize => k + Len(page) = Len(list)
  <1> DEFINE n == IF k + PageSize < Len(list) THEN k + PageSize ELSE Len(list)
             page == SubSeq(list, k + 1, n)
  <1>1. n \in Nat /\ n <= Len(list) /\ PageSize \in Nat \ {0} /\ Len(list) \in Nat
    BY StoreAssumption
  <1>2. \A i \in k + 1..n : list[i] \in S
    BY <1>1
  <1>3. page \in Seq(S) /\ Len(page) = (IF k + 1 <= n THEN n - (k + 1) + 1 ELSE 0)
        /\ \A i \in 1..n - (k + 1) + 1 : page[i] = list[(k + 1) + i - 1]
    <2> HIDE DEF n
    <2>1. k + 1 \in Int /\ n \in Int
      BY <1>1
    <2>2. QED
      BY ONLY <1>2, <2>1, SubSeqProperties
  <1>4. page = <<>> <=> Len(page) = 0
    BY <1>3
  <1>5. Listed(list, k) = page
    BY DEF Listed
  <1>6. Len(page) \in Nat
    BY <1>3
  <1>7. ASSUME k <= Len(list)
        PROVE  /\ k + Len(page) <= Len(list) /\ \A i \in 1..Len(page) : page[i] = list[k + i]
               /\ Len(page) < PageSize => k + Len(page) = Len(list)
    BY <1>1, <1>3, <1>7
  <1>8. QED
    BY <1>3, <1>4, <1>5, <1>6, <1>7

\* What is met grows by the page.
LEMMA FirstFacts ==
  ASSUME NEW list, NEW k \in Nat
  PROVE  First(list, 0) = {} /\ First(list, k + 1) = First(list, k) \cup {list[k + 1]}
BY DEF First

LEMMA FirstPage ==
  ASSUME NEW list, NEW k \in Nat, NEW page, Len(page) \in Nat,
         \A i \in 1..Len(page) : page[i] = list[k + i]
  PROVE  First(list, k + Len(page)) = First(list, k) \cup {page[i] : i \in 1..Len(page)}
  <1> DEFINE n == Len(page)
  <1> HIDE DEF n
  <1>1. \A i \in 1..k + n : i \in 1..k \/ (i - k \in 1..n /\ list[i] = page[i - k])
    BY DEF n
  <1>2. First(list, k + n) \subseteq First(list, k) \cup {page[i] : i \in 1..n}
    BY <1>1 DEF First
  <1>3. \A i \in 1..n : k + i \in 1..k + n /\ page[i] = list[k + i]
    BY DEF n
  <1>4. \A i \in 1..k : i \in 1..k + n
    BY DEF n
  <1>5. First(list, k) \cup {page[i] : i \in 1..n} \subseteq First(list, k + n)
    BY <1>3, <1>4 DEF First
  <1>6. QED
    BY <1>2, <1>5 DEF n

LEMMA FirstOf ==
  ASSUME NEW S, NEW list \in Seq(S), NEW k \in Nat, k <= Len(list)
  PROVE  First(list, k) \subseteq S
BY DEF First

-----------------------------------------------------------------------------
(* What each operation of the database does to its parts. *)

LEMMA AlbumsSaved ==
  ASSUME NEW d \in Databases, NEW albums \in SUBSET Albums, NEW rated \in BOOLEAN
  PROVE  LET e == save_album_metadata(d, albums, rated) IN
         /\ e \in Databases
         /\ e.rows = d.rows \cup albums /\ e.fresh = d.fresh \cup albums
         /\ d.rated \subseteq e.rated
         /\ e.genre = d.genre /\ e.songs = d.songs /\ e.freshSongs = d.freshSongs
BY DEF save_album_metadata, prefer_data_simple, Databases

LEMMA TagsSaved ==
  ASSUME NEW d \in Databases, NEW albums \in SUBSET Albums, NEW tagged \in SUBSET Albums
  PROVE  LET e == SaveTags(d, albums, tagged) IN
         /\ e \in Databases
         /\ e.rows = d.rows /\ e.fresh = d.fresh /\ e.rated = d.rated
         /\ e.genre = (d.genre \ albums) \cup tagged
         /\ e.songs = d.songs /\ e.freshSongs = d.freshSongs
BY DEF SaveTags, update_album_multivalue_table, InsertList, DeleteList, save_album_properties, Databases

LEMMA SongsSaved ==
  ASSUME NEW d \in Databases, NEW songs \in SUBSET Songs
  PROVE  LET e == SaveSongs(d, songs) IN
         /\ e \in Databases
         /\ e.rows = d.rows /\ e.fresh = d.fresh /\ e.rated = d.rated /\ e.genre = d.genre
         /\ e.songs = d.songs \cup songs /\ e.freshSongs = d.freshSongs \cup songs
BY DEF SaveSongs, Databases

LEMMA SongsRemoved ==
  ASSUME NEW d \in Databases, NEW gone
  PROVE  LET e == WithoutSongs(d, gone) IN
         /\ e \in Databases
         /\ e.rows = d.rows /\ e.fresh = d.fresh /\ e.rated = d.rated /\ e.genre = d.genre
         /\ e.songs = d.songs \ gone /\ e.freshSongs = d.freshSongs \ gone
BY DEF WithoutSongs, Databases

LEMMA AlbumsRemoved ==
  ASSUME NEW d \in Databases, NEW gone \in SUBSET Albums
  PROVE  LET e == WithoutAlbums(d, gone) IN
         /\ e \in Databases
         /\ e.rows = d.rows \ gone /\ e.fresh = d.fresh \ gone /\ e.rated = d.rated \ gone
         /\ e.genre = d.genre \ gone
         /\ e.songs = {s \in d.songs : AlbumOf[s] \notin gone}
         /\ e.freshSongs = {s \in d.freshSongs : AlbumOf[s] \notin gone}
BY DEF WithoutAlbums, Of, Databases

LEMMA SongSaved ==
  ASSUME NEW d \in Databases, NEW s \in Songs
  PROVE  LET e == save_song(d, s) IN
         /\ e \in Databases
         /\ e.rows = d.rows /\ e.fresh = d.fresh /\ e.rated = d.rated /\ e.genre = d.genre
         /\ e.songs = d.songs \cup {s} /\ e.freshSongs = d.freshSongs \cup {s}
BY DEF save_song, Databases

LEMMA QualitySaved ==
  ASSUME NEW d \in Databases, NEW a \in Albums
  PROVE  LET e == update_album_metadata_table(d, a) IN
         /\ e \in Databases
         /\ e.rows = d.rows /\ e.fresh = d.fresh /\ e.rated = d.rated \cup {a} /\ e.genre = d.genre
         /\ e.songs = d.songs /\ e.freshSongs = d.freshSongs
BY DEF update_album_metadata_table, Databases

-----------------------------------------------------------------------------
(* The pages. *)

\* What a page may do to the database: save what the server has.
Grows(sv, d, e) ==
  /\ d.rows \subseteq e.rows /\ e.rows \subseteq d.rows \cup sv.albums
  /\ d.fresh \subseteq e.fresh /\ e.fresh \subseteq d.fresh \cup sv.albums
  /\ \A a \in d.rows : (a \in e.genre <=> a \in d.genre) \/ (a \in e.genre <=> a \in sv.tagged)
  /\ e.genre \subseteq d.genre \cup sv.tagged
  /\ d.rated \subseteq e.rated
  /\ d.songs \cap sv.songs \subseteq e.songs /\ e.songs \subseteq d.songs \cup sv.songs
  /\ e.freshSongs \subseteq d.freshSongs \cup sv.songs
  /\ \A s \in e.songs : s \in e.freshSongs \/ (s \in d.songs /\ s \notin d.freshSongs)

LEMMA GrowingKeeps ==
  ASSUME NEW sv \in Servers, NEW d \in Databases, NEW e \in Databases, NEW t \in Threads,
         ServerFits(sv), Closed(d), Grows(sv, d, e), Undisturbed(sv, d, t)
  PROVE  Undisturbed(sv, e, t)
  <1>1. FreshIsThere(sv, e)
    BY DEF Undisturbed, FreshIsThere, Grows
  <1>2. AlbumWalk(sv, e, t)
    BY DEF Undisturbed, AlbumWalk, Grows, Closed
  <1>3. SongWalk(sv, e, t)
    BY DEF Undisturbed, SongWalk, Grows
  <1>4. WholeWalk(sv, e, t)
    <2> SUFFICES ASSUME t.walk, t.at \in SongPlaces \cup {"done"}
                 PROVE  WholeWalk(sv, e, t)
      BY DEF WholeWalk
    <2>1. t.counted \subseteq sv.songs
      <3>1. CASE t.at = "done"
        BY <3>1 DEF Undisturbed, WholeWalk
      <3>2. CASE t.at \in SongPlaces
        <4>1. IsFiniteSet(sv.songs)
          BY StoreAssumption, FS_Subset DEF Servers
        <4>2. Listing(sv.songs) \in Seq(sv.songs) /\ t.offset \in Nat /\ t.offset <= Len(Listing(sv.songs))
          BY <3>2, <4>1, ListingFacts DEF Undisturbed, SongWalk, Threads
        <4>3. First(Listing(sv.songs), t.offset) \subseteq sv.songs
          BY <4>2, FirstOf
        <4>4. QED
          BY <3>2, <4>3 DEF Undisturbed, WholeWalk
      <3>3. QED
        BY <3>1, <3>2
    <2>2. e.rows = sv.albums /\ e.genre = sv.tagged
      BY DEF Undisturbed, WholeWalk, Grows, ServerFits
    <2>3. QED
      BY <2>1, <2>2 DEF Undisturbed, WholeWalk, Grows
  <1>5. QED
    BY <1>1, <1>2, <1>3, <1>4 DEF Undisturbed

\* A page writes only while the thread has no transaction open.
LEMMA WriteOfAPage ==
  ASSUME NEW e, StoreInv, thread # Stopped, e \in Databases, Closed(e),
         Writable \/ e = db, db' = e, main' \in {Idle} \cup Pages, PageFits(main'),
         UNCHANGED <<server, txn, thread, changes, starts>>,
         \/ excuse'
         \/ /\ ~excuse => Grows(server, db, e) /\ PageTells(server, main')
            /\ excuse' = excuse,
         excuse' \in BOOLEAN
  PROVE  StoreInv'
  <1> USE DEF StoreInv
  <1>1. TypeOK'
    BY DEF TypeOK
  <1>2. txn' = txn /\ thread' = thread /\ server' = server
    OBVIOUS
  <1>3. CASE Writable
    <2>1. Seen = db /\ Seen' = e /\ ~txn.open
      BY <1>2, <1>3 DEF Writable, Seen
    <2>2. TxnFits(txn', db', thread'.at)
      BY <1>2, <2>1 DEF TxnFits
    <2>3. ASSUME ~excuse' PROVE PageTells(server, main') /\ Undisturbed(server, e, thread)
      BY <1>2, <2>1, <2>3, GrowingKeeps DEF TypeOK
    <2>4. QED
      BY <1>1, <1>2, <2>1, <2>2, <2>3
  <1>4. CASE e = db
    <2>1. Seen' = Seen
      BY <1>2, <1>4 DEF Seen
    <2>2. QED
      BY <1>1, <1>2, <1>4, <2>1
  <1>5. QED
    BY <1>3, <1>4

LEMMA OpeningKeeps ==
  ASSUME StoreInv, thread # Stopped, NEW a \in Albums,
         NavigableAlbum(a) \/ AlbumToEntry(a) \/ AlbumTracks(a) \/ AlbumsByArtist(a),
         UNCHANGED <<server, db, txn, thread, excuse, changes, starts>>
  PROVE  StoreInv'
  <1> USE DEF StoreInv
  <1>1. /\ a \in server.albums /\ main' \in Pages /\ main'.album = a
        /\ main'.tagged = {a} \cap server.tagged
        /\ main'.songs = {} \/ main'.songs = server.songs \cap SongsOf(a)
    <2> DEFINE p(step, known) == Page(step, a, known)
    <2>1. a \in server.albums
      BY DEF NavigableAlbum, AlbumToEntry, AlbumTracks, AlbumsByArtist
    <2>2. \A step \in {"save", "cache"}, known \in BOOLEAN :
            /\ p(step, known) \in Pages /\ p(step, known).album = a
            /\ p(step, known).tagged = {a} \cap server.tagged
            /\ p(step, known).songs = server.songs \cap SongsOf(a)
      BY DEF Page, Pages, TypeOK, Servers
    <2>3. \E step \in {"save", "cache"}, known \in BOOLEAN :
            main' = p(step, known) \/ main' = [p(step, known) EXCEPT !.songs = {}]
      <3> HIDE DEF p
      <3>1. \/ main' = p("save", a \in db.rows) \/ main' = [p("save", FALSE) EXCEPT !.songs = {}]
            \/ main' = p("cache", TRUE) \/ main' = [p("cache", TRUE) EXCEPT !.songs = {}]
        BY DEF NavigableAlbum, AlbumToEntry, AlbumTracks, AlbumsByArtist, p
      <3>2. (a \in db.rows) = TRUE \/ (a \in db.rows) = FALSE
        OBVIOUS
      <3>3. QED
        BY <3>1, <3>2, Zenon
    <2> HIDE DEF p
    <2>4. PICK step \in {"save", "cache"}, known \in BOOLEAN :
            main' = p(step, known) \/ main' = [p(step, known) EXCEPT !.songs = {}]
      BY <2>3
    <2>5. QED
      BY <2>1, <2>2, <2>4 DEF Pages
  <1>2. PageFits(main') /\ PageTells(server, main')
    BY <1>1 DEF PageFits, PageTells, On, SongsOf
  <1>3. TypeOK'
    BY <1>1 DEF TypeOK
  <1>4. Seen' = Seen
    BY DEF Seen
  <1>5. QED
    BY <1>2, <1>3, <1>4

LEMMA ServerFinite ==
  ASSUME NEW sv \in Servers
  PROVE  IsFiniteSet(sv.albums) /\ IsFiniteSet(sv.songs)
BY StoreAssumption, FS_Subset DEF Servers

\* The whole of an album.
LEMMA AlbumStored ==
  ASSUME NEW sv \in Servers, ServerFits(sv), NEW d \in Databases, Closed(d),
         NEW m \in Pages, PageFits(m), m # Idle
  PROVE  LET e == on_album(d, m.album, m.tagged, m.songs) IN
         /\ e \in Databases /\ Closed(e) /\ d.rated \subseteq e.rated
         /\ PageTells(sv, m) => Grows(sv, d, e)
  <1> DEFINE a == m.album
             A == {a}
             b == save_album_metadata(d, A, SongProperties(m.songs))
             c == SaveTags(b, A, m.tagged)
             f == SaveSongs(c, m.songs)
             g == WithoutSongs(f, SongsOf(a) \ m.songs)
             e == on_album(d, a, m.tagged, m.songs)
  <1>1. a \in Albums /\ m.tagged \in SUBSET Albums /\ m.songs \in SUBSET Songs
        /\ m.tagged \subseteq {a} /\ (\A s \in m.songs : AlbumOf[s] = a) /\ A \in SUBSET Albums
    BY DEF Pages, PageFits, SongsOf
  <1> HIDE DEF A
  <1>2. SongProperties(m.songs) \in BOOLEAN
    BY DEF SongProperties
  <1>3. /\ b \in Databases
        /\ b.rows = d.rows \cup A /\ b.fresh = d.fresh \cup A /\ d.rated \subseteq b.rated
        /\ b.genre = d.genre /\ b.songs = d.songs /\ b.freshSongs = d.freshSongs
    <2> DEFINE known == SongProperties(m.songs)
    <2> HIDE DEF known
    <2>1. d \in Databases /\ A \in SUBSET Albums /\ known \in BOOLEAN /\ b = save_album_metadata(d, A, known)
      BY <1>1, <1>2 DEF known
    <2> HIDE DEF b
    <2>2. QED
      BY ONLY <2>1 DEF save_album_metadata, prefer_data_simple, Databases
  <1> HIDE DEF b
  <1>4. /\ c \in Databases
        /\ c.rows = d.rows \cup A /\ c.fresh = d.fresh \cup A /\ d.rated \subseteq c.rated
        /\ c.genre = (d.genre \ A) \cup m.tagged /\ c.songs = d.songs /\ c.freshSongs = d.freshSongs
    <2> DEFINE T == m.tagged
    <2>1. c = SaveTags(b, A, T) /\ T \in SUBSET Albums /\ A \in SUBSET Albums /\ b \in Databases
      BY <1>1, <1>3
    <2> HIDE DEF c, T
    <2>2. /\ c \in Databases
          /\ c.rows = b.rows /\ c.fresh = b.fresh /\ c.rated = b.rated
          /\ c.genre = (b.genre \ A) \cup T
          /\ c.songs = b.songs /\ c.freshSongs = b.freshSongs
      BY ONLY <2>1, TagsSaved
    <2>3. QED
      BY <1>3, <2>2 DEF T
  <1> HIDE DEF c
  <1>5. /\ f \in Databases
        /\ f.rows = c.rows /\ f.fresh = c.fresh /\ f.rated = c.rated /\ f.genre = c.genre
        /\ f.songs = c.songs \cup m.songs /\ f.freshSongs = c.freshSongs \cup m.songs
    BY <1>1, <1>4, SongsSaved
  <1> HIDE DEF f
  <1>6. /\ g \in Databases
        /\ g.rows = c.rows /\ g.fresh = c.fresh /\ g.rated = c.rated /\ g.genre = c.genre
        /\ g.songs = (c.songs \cup m.songs) \ (SongsOf(a) \ m.songs)
        /\ g.freshSongs = (c.freshSongs \cup m.songs) \ (SongsOf(a) \ m.songs)
    BY <1>5, SongsRemoved
  <1> HIDE DEF g
  <1>7. e = IF m.songs = {} THEN c ELSE g
    BY DEF on_album, A, b, c, f, g
  <1> HIDE DEF e
  <1>8. /\ e \in Databases
        /\ e.rows = d.rows \cup {a} /\ e.fresh = d.fresh \cup {a} /\ d.rated \subseteq e.rated
        /\ e.genre = (d.genre \ {a}) \cup m.tagged
    BY <1>4, <1>6, <1>7 DEF A
  <1>9. \/ m.songs = {} /\ e.songs = d.songs /\ e.freshSongs = d.freshSongs
        \/ /\ m.songs # {} /\ e.songs = (d.songs \cup m.songs) \ (SongsOf(a) \ m.songs)
           /\ e.freshSongs = (d.freshSongs \cup m.songs) \ (SongsOf(a) \ m.songs)
    BY <1>4, <1>6, <1>7
  <1>10. Closed(e)
    BY <1>1, <1>8, <1>9 DEF Closed
  <1>11. ASSUME PageTells(sv, m) PROVE Grows(sv, d, e)
    <2>1. a \in sv.albums /\ m.tagged = {a} \cap sv.tagged /\ (m.songs = {} \/ m.songs = sv.songs \cap SongsOf(a))
      BY <1>11 DEF PageTells, On
    <2>2. /\ d.songs \cap sv.songs \subseteq e.songs /\ e.songs \subseteq d.songs \cup sv.songs
          /\ e.freshSongs \subseteq d.freshSongs \cup sv.songs
      BY <1>9, <2>1
    <2>3. \A s \in e.songs : s \in e.freshSongs \/ (s \in d.songs /\ s \notin d.freshSongs)
      BY <1>9
    <2>4. QED
      BY <1>8, <2>1, <2>2, <2>3 DEF Grows
  <1>12. QED
    BY <1>8, <1>10, <1>11 DEF e

LEMMA RowSaved ==
  ASSUME NEW sv \in Servers, ServerFits(sv), NEW d \in Databases, Closed(d), NEW m \in Pages, m # Idle
  PROVE  LET e == save_album_metadata(d, {m.album}, SongProperties(m.songs)) IN
         /\ e \in Databases /\ Closed(e) /\ d.rated \subseteq e.rated
         /\ PageTells(sv, m) => Grows(sv, d, e)
  <1> DEFINE A == {m.album}
             known == SongProperties(m.songs)
             e == save_album_metadata(d, A, known)
  <1>1. A \in SUBSET Albums /\ known \in BOOLEAN
    BY DEF Pages, SongProperties
  <1> HIDE DEF A, known
  <1>2. /\ e \in Databases
        /\ e.rows = d.rows \cup A /\ e.fresh = d.fresh \cup A /\ d.rated \subseteq e.rated
        /\ e.genre = d.genre /\ e.songs = d.songs /\ e.freshSongs = d.freshSongs
    <2>1. d \in Databases /\ A \in SUBSET Albums /\ known \in BOOLEAN /\ e = save_album_metadata(d, A, known)
      BY <1>1
    <2> HIDE DEF e
    <2>2. QED
      BY ONLY <2>1 DEF save_album_metadata, prefer_data_simple, Databases
  <1> HIDE DEF e
  <1>3. Closed(e)
    BY <1>2 DEF Closed
  <1>4. PageTells(sv, m) => Grows(sv, d, e)
    BY <1>2 DEF PageTells, Grows, Closed, A
  <1>5. QED
    BY <1>2, <1>3, <1>4 DEF e, A, known

LEMMA StayingGrows ==
  ASSUME NEW sv, NEW d
  PROVE  Grows(sv, d, d)
BY DEF Grows

LEMMA MainKeeps ==
  ASSUME StoreInv, MainStep
  PROVE  StoreInv'
  <1> USE DEF StoreInv
  <1>0. /\ thread # Stopped /\ UNCHANGED <<server, txn, thread, changes, starts>>
        /\ server \in Servers /\ db \in Databases /\ excuse \in BOOLEAN /\ main \in {Idle} \cup Pages
        /\ ServerFits(server) /\ Closed(db) /\ PageFits(main)
        /\ ~excuse => PageTells(server, main)
        /\ Idle \in {Idle} \cup Pages /\ PageFits(Idle) /\ PageTells(server, Idle)
    BY DEF MainStep, TypeOK, PageFits, PageTells
  <1>1. CASE /\ \E a \in Albums : NavigableAlbum(a) \/ AlbumToEntry(a) \/ AlbumTracks(a) \/ AlbumsByArtist(a)
             /\ UNCHANGED <<db, excuse>>
    BY <1>0, <1>1, OpeningKeeps
  <1>2. CASE SaveMetadata /\ UNCHANGED excuse
    <2> DEFINE e == save_album_metadata(db, {main.album}, SongProperties(main.songs))
    <2>1. main.step = "save" /\ main # Idle /\ main \in Pages
      BY <1>0, <1>2 DEF SaveMetadata, Idle
    <2>2. e \in Databases /\ Closed(e) /\ (PageTells(server, main) => Grows(server, db, e))
      BY <1>0, <2>1, RowSaved
    <2> HIDE DEF e
    <2>3. (db' = e /\ Writable) \/ db' = db
      BY <1>2 DEF SaveMetadata, e
    <2>4. main' = Idle \/ main' = [main EXCEPT !.step = "cache"]
      BY <1>2 DEF SaveMetadata
    <2>5. main' \in {Idle} \cup Pages /\ PageFits(main') /\ (PageTells(server, main) => PageTells(server, main'))
      BY <1>0, <2>1, <2>4 DEF Pages, PageFits, PageTells
    <2>6. CASE db' = e /\ Writable
      BY <1>0, <1>2, <2>2, <2>5, <2>6, WriteOfAPage
    <2>7. CASE db' = db
      BY <1>0, <1>2, <2>5, <2>7, WriteOfAPage, StayingGrows
    <2>8. QED
      BY <2>3, <2>6, <2>7
  <1>3. CASE CacheAlbum /\ UNCHANGED excuse
    <2> DEFINE e == on_album(db, main.album, main.tagged, main.songs)
    <2>1. main.step = "cache" /\ main # Idle /\ main \in Pages /\ main' = Idle
      BY <1>0, <1>3 DEF CacheAlbum, Idle
    <2>2. e \in Databases /\ Closed(e) /\ (PageTells(server, main) => Grows(server, db, e))
      BY <1>0, <2>1, AlbumStored
    <2> HIDE DEF e
    <2>3. (db' = e /\ Writable) \/ db' = db
      BY <1>3 DEF CacheAlbum, e
    <2>4. CASE db' = e /\ Writable
      BY <1>0, <1>3, <2>1, <2>2, <2>4, WriteOfAPage
    <2>5. CASE db' = db
      BY <1>0, <1>3, <2>1, <2>5, WriteOfAPage, StayingGrows
    <2>6. QED
      BY <2>3, <2>4, <2>5
  <1>4. CASE \E a \in Albums : AlbumNotFound(a)
    <2> PICK a \in Albums : AlbumNotFound(a)
      BY <1>4
    <2> DEFINE A == {a}
               e == WithoutAlbums(db, A)
    <2>1. A \in SUBSET Albums /\ db' = e /\ Writable /\ excuse' = TRUE /\ main' = main
      BY DEF AlbumNotFound
    <2>2. e = WithoutAlbums(db, A)
      OBVIOUS
    <2> HIDE DEF A, e
    <2>3. /\ e \in Databases
          /\ e.rows = db.rows \ A /\ e.fresh = db.fresh \ A /\ e.genre = db.genre \ A
          /\ e.songs = {s \in db.songs : AlbumOf[s] \notin A}
          /\ e.freshSongs = {s \in db.freshSongs : AlbumOf[s] \notin A}
      BY <1>0, <2>1, <2>2, AlbumsRemoved
    <2>4. Closed(e)
      BY <1>0, <2>3 DEF Closed
    <2>5. QED
      BY <1>0, <2>1, <2>3, <2>4, WriteOfAPage
  <1>5. QED
    BY <1>1, <1>2, <1>3, <1>4 DEF MainStep

-----------------------------------------------------------------------------
(* The thread. *)

LEMMA RunningThread ==
  ASSUME NEW t, t.at # "stopped"
  PROVE  t # Stopped
  <1>1. Stopped.at = "stopped"
    BY DEF Stopped
  <1>2. QED
    BY <1>1

LEMMA StepOfTheThread ==
  ASSUME NEW d, NEW x, NEW t, StoreInv, thread # Stopped,
         d \in Databases, x = NoTxn \/ x \in [open : {TRUE}, db : Databases], t \in Threads,
         Closed(d), TxnFits(x, d, t.at), PlaceFits(t),
         ~excuse => Undisturbed(server, IF x.open THEN x.db ELSE d, t),
         db' = d, txn' = x, thread' = t, UNCHANGED <<server, main, excuse, changes, starts>>
  PROVE  StoreInv'
  <1> USE DEF StoreInv
  <1>1. thread' # Stopped
    BY RunningThread DEF Threads, AlbumPlaces, SongPlaces
  <1>2. TypeOK'
    BY DEF TypeOK
  <1>3. Seen' = IF x.open THEN x.db ELSE d
    BY DEF Seen
  <1>4. QED
    BY <1>1, <1>2, <1>3

LEMMA Running ==
  ASSUME StoreInv, thread # Stopped
  PROVE  /\ thread \in Threads /\ server \in Servers /\ db \in Databases /\ Seen \in Databases
         /\ txn = NoTxn \/ txn \in [open : {TRUE}, db : Databases]
         /\ Closed(db) /\ Closed(Seen) /\ ServerFits(server)
         /\ PlaceFits(thread) /\ TxnFits(txn, db, thread.at)
         /\ ~excuse => Undisturbed(server, Seen, thread)
         /\ thread.at \notin SongPlaces => txn = NoTxn /\ Seen = db
         /\ Seen.rows = db.rows /\ Seen.rated = db.rated /\ Seen.fresh = db.fresh
         /\ db.songs \subseteq Seen.songs /\ db.freshSongs \subseteq Seen.freshSongs
  <1> USE DEF StoreInv
  <1>1. /\ thread \in Threads /\ server \in Servers /\ db \in Databases
        /\ txn = NoTxn \/ txn \in [open : {TRUE}, db : Databases]
        /\ Closed(db) /\ ServerFits(server) /\ PlaceFits(thread) /\ TxnFits(txn, db, thread.at)
        /\ ~excuse => Undisturbed(server, Seen, thread)
    BY DEF TypeOK
  <1>2. CASE txn = NoTxn
    <2>1. Seen = db
      BY <1>2 DEF Seen, NoTxn
    <2>2. QED
      BY <1>1, <1>2, <2>1
  <1>3. CASE txn \in [open : {TRUE}, db : Databases]
    <2>1. Seen = txn.db /\ Seen \in Databases /\ txn.open
      BY <1>3 DEF Seen
    <2>2. QED
      BY <1>1, <2>1 DEF TxnFits
  <1>4. QED
    BY <1>1, <1>2, <1>3

\* The lists of the server.
LEMMA AlbumList ==
  ASSUME NEW sv \in Servers
  PROVE  /\ Listing(sv.albums) \in Seq(Albums) /\ Len(Listing(sv.albums)) \in Nat
         /\ \A i \in 1..Len(Listing(sv.albums)) : Listing(sv.albums)[i] \in sv.albums
         /\ First(Listing(sv.albums), Len(Listing(sv.albums))) = sv.albums
  <1>1. sv.albums \subseteq Albums /\ IsFiniteSet(sv.albums)
    BY ServerFinite DEF Servers
  <1> DEFINE list == Listing(sv.albums)
  <1>2. /\ list \in Seq(sv.albums) /\ Len(list) \in Nat /\ (\A i \in 1..Len(list) : list[i] \in sv.albums)
        /\ First(list, Len(list)) = sv.albums
    BY <1>1, ListingFacts
  <1> HIDE DEF list
  <1>3. list \in Seq(Albums)
    BY <1>1, <1>2
  <1>4. QED
    BY <1>2, <1>3 DEF list

LEMMA SongList ==
  ASSUME NEW sv \in Servers
  PROVE  /\ Listing(sv.songs) \in Seq(Songs) /\ Len(Listing(sv.songs)) \in Nat
         /\ \A i \in 1..Len(Listing(sv.songs)) : Listing(sv.songs)[i] \in sv.songs
         /\ First(Listing(sv.songs), Len(Listing(sv.songs))) = sv.songs
  <1>1. sv.songs \subseteq Songs /\ IsFiniteSet(sv.songs)
    BY ServerFinite DEF Servers
  <1> DEFINE list == Listing(sv.songs)
  <1>2. /\ list \in Seq(sv.songs) /\ Len(list) \in Nat /\ (\A i \in 1..Len(list) : list[i] \in sv.songs)
        /\ First(list, Len(list)) = sv.songs
    BY <1>1, ListingFacts
  <1> HIDE DEF list
  <1>3. list \in Seq(Songs)
    BY <1>1, <1>2
  <1>4. QED
    BY <1>2, <1>3 DEF list

LEMMA NoTransaction ==
  ASSUME NEW d, NEW at
  PROVE  TxnFits(NoTxn, d, at) /\ ~NoTxn.open
BY DEF TxnFits, NoTxn

\* At the first page of songs nothing is met.
LEMMA SongsBegin ==
  ASSUME NEW sv \in Servers, NEW d, NEW t, t.offset = 0, t.missing = {}, t.at = "ask songs"
  PROVE  SongWalk(sv, d, t)
  <1>1. Len(Listing(sv.songs)) \in Nat /\ First(Listing(sv.songs), 0) = {}
    BY ServerFinite, ListingFacts, FirstFacts
  <1>2. \A s \in d.songs : s \notin First(Listing(sv.songs), t.offset) /\ AlbumOf[s] \notin t.missing
    BY <1>1
  <1>3. t.offset <= Len(Listing(sv.songs))
    <2> DEFINE n == Len(Listing(sv.songs))
    <2>1. n \in Nat /\ t.offset = 0
      BY <1>1
    <2> HIDE DEF n
    <2>2. t.offset <= n
      BY ONLY <2>1
    <2>3. QED
      BY <2>2 DEF n
  <1>4. QED
    BY <1>2, <1>3 DEF SongWalk

LEMMA AbandonKeeps ==
  ASSUME StoreInv, Abandon, thread.at \in AlbumPlaces \cup SongPlaces,
         UNCHANGED <<server, db, main, excuse, changes, starts>>
  PROVE  StoreInv'
  <1>1. thread # Stopped
    BY RunningThread DEF AlbumPlaces, SongPlaces
  <1> USE <1>1, Running
  <1>2. CASE thread.at \in AlbumPlaces
    <2> DEFINE t == [thread EXCEPT !.at = "ask songs", !.walk = FALSE, !.offset = 0, !.page = <<>>,
                                   !.saved = FALSE, !.promised = NoPromise]
    <2>1. thread' = t /\ txn' = NoTxn
      BY <1>2 DEF Abandon, AlbumPlaces
    <2>2. <<>> \in Seq(Albums) /\ NoPromise \in Promises
      BY ONLY TRUE DEF NoPromise, Promises
    <2>3. t \in Threads /\ t.at = "ask songs" /\ t.walk = FALSE /\ t.offset = 0 /\ t.missing = thread.missing
      BY <2>2 DEF Threads, SongPlaces
    <2> HIDE DEF t
    <2>4. ASSUME ~excuse PROVE Undisturbed(server, db, t)
      <3>1. Undisturbed(server, db, thread) /\ thread.missing = {}
        BY <1>2, <2>4 DEF AlbumPlaces, SongPlaces, Undisturbed, AlbumWalk
      <3>2. FreshIsThere(server, db) /\ AlbumWalk(server, db, t) /\ WholeWalk(server, db, t)
        BY <2>3, <3>1 DEF Undisturbed, AlbumWalk, WholeWalk, AlbumPlaces
      <3>3. SongWalk(server, db, t)
        BY <2>3, <3>1, SongsBegin
      <3>4. QED
        BY <3>2, <3>3 DEF Undisturbed
    <2>5. PlaceFits(t)
      BY <2>3 DEF PlaceFits
    <2>6. QED
      BY <2>1, <2>3, <2>4, <2>5, NoTransaction, StepOfTheThread
  <1>3. CASE thread.at \in SongPlaces
    <2> DEFINE t == [thread EXCEPT !.at = "failed"]
    <2>1. thread' = t /\ txn' = NoTxn
      BY <1>3 DEF Abandon, SongPlaces
    <2>2. t \in Threads /\ t.at = "failed"
      BY DEF Threads
    <2> HIDE DEF t
    <2>3. ASSUME ~excuse PROVE Undisturbed(server, db, t)
      <3>1. FreshIsThere(server, db)
        BY <2>3 DEF Undisturbed, FreshIsThere
      <3>2. QED
        BY <2>2, <3>1 DEF Undisturbed, AlbumWalk, SongWalk, WholeWalk, AlbumPlaces, SongPlaces
    <2>4. PlaceFits(t)
      BY <2>2 DEF PlaceFits
    <2>5. QED
      BY <2>1, <2>2, <2>3, <2>4, NoTransaction, StepOfTheThread
  <1>4. QED
    BY <1>2, <1>3

LEMMA FailsKeeps ==
  ASSUME StoreInv, Fails
  PROVE  StoreInv'
BY AbandonKeeps DEF Fails, AlbumPlaces, SongPlaces

LEMMA AskAlbumsKeeps ==
  ASSUME StoreInv, AskAlbums
  PROVE  StoreInv'
  <1>1. thread.at = "ask albums" /\ thread # Stopped
    BY RunningThread DEF AskAlbums
  <1> USE <1>1, Running
  <1> DEFINE list == Listing(server.albums)
             page == Listed(list, thread.offset)
             t == [thread EXCEPT !.page = page, !.short = Len(page) < PageSize,
                                 !.at = IF page = <<>> THEN "store albums" ELSE "read album"]
  <1>2. txn = NoTxn /\ Seen = db /\ server.albums \subseteq Albums /\ thread.offset \in Nat
    BY DEF SongPlaces, Servers, Threads
  <1>3. list \in Seq(Albums) /\ Len(list) \in Nat
    BY AlbumList
  <1>4. thread' = t
    BY DEF AskAlbums
  <1> HIDE DEF list
  <1>5. /\ page \in Seq(Albums) /\ Len(page) \in Nat /\ (page = <<>> <=> Len(page) = 0)
        /\ thread.offset <= Len(list) =>
             /\ thread.offset + Len(page) <= Len(list)
             /\ \A i \in 1..Len(page) : page[i] = list[thread.offset + i]
             /\ Len(page) < PageSize => thread.offset + Len(page) = Len(list)
    BY <1>2, <1>3, ListedFacts
  <1> HIDE DEF page
  <1>6. (Len(page) < PageSize) \in BOOLEAN
    BY ONLY <1>5
  <1>7. /\ t \in Threads /\ t.page = page /\ t.short = (Len(page) < PageSize)
        /\ t.at = IF page = <<>> THEN "store albums" ELSE "read album"
        /\ t.walk = thread.walk /\ t.offset = thread.offset /\ t.missing = thread.missing
        /\ t.counted = thread.counted /\ t.promised = thread.promised
    BY <1>5, <1>6 DEF Threads, AlbumPlaces
  <1> HIDE DEF t
  <1>8. PlaceFits(t)
    BY <1>5, <1>7 DEF PlaceFits
  <1>9. ASSUME ~excuse PROVE Undisturbed(server, db, t)
    <2>1. Undisturbed(server, db, thread)
      BY <1>2, <1>9
    <2>2. AlbumWalk(server, db, t)
      <3>1. PageAt(list, t)
        <4>1. thread.offset <= Len(list)
          BY <1>1, <2>1 DEF Undisturbed, AlbumWalk, AlbumPlaces, list
        <4>2. /\ thread.offset + Len(page) <= Len(list)
              /\ \A i \in 1..Len(page) : page[i] = list[thread.offset + i]
              /\ Len(page) < PageSize => thread.offset + Len(page) = Len(list)
          BY ONLY <1>5, <4>1
        <4>3. t.page = page /\ t.offset = thread.offset /\ (t.short => Len(page) < PageSize)
          BY <1>7
        <4>4. QED
          BY ONLY <4>2, <4>3 DEF PageAt
      <3>2. QED
        BY <1>7, <2>1, <3>1 DEF Undisturbed, AlbumWalk, AlbumPlaces, list
    <2>3. QED
      BY <1>7, <2>1, <2>2 DEF Undisturbed, SongWalk, WholeWalk, SongPlaces
  <1>10. UNCHANGED <<server, db, txn, main, excuse, changes, starts>>
    BY DEF AskAlbums
  <1>11. QED
    BY <1>2, <1>4, <1>7, <1>8, <1>9, <1>10, NoTransaction, StepOfTheThread

LEMMA ReadAlbumKeeps ==
  ASSUME StoreInv, ReadAlbum
  PROVE  StoreInv'
  <1>1. thread.at = "read album" /\ thread # Stopped
    BY RunningThread DEF ReadAlbum
  <1> USE <1>1, Running
  <1> DEFINE exists == Head(thread.page) \in db.rows
             t == [thread EXCEPT !.exists = exists, !.at = "store albums"]
  <1>2. txn = NoTxn /\ Seen = db /\ thread.page \in Seq(Albums)
    BY DEF SongPlaces, PlaceFits
  <1>3. thread' = t /\ exists \in BOOLEAN
    <2>1. thread' = t
      BY ONLY ReadAlbum DEF ReadAlbum
    <2>2. exists \in BOOLEAN
      BY ONLY TRUE
    <2>3. QED
      BY <2>1, <2>2
  <1> HIDE DEF exists
  <1>4. /\ t \in Threads /\ t.page = thread.page /\ t.short = thread.short /\ t.at = "store albums"
        /\ t.walk = thread.walk /\ t.offset = thread.offset /\ t.missing = thread.missing
        /\ t.counted = thread.counted /\ t.promised = thread.promised
    BY <1>3 DEF Threads, AlbumPlaces
  <1> HIDE DEF t
  <1>5. PlaceFits(t)
    BY <1>2, <1>4 DEF PlaceFits
  <1>6. ASSUME ~excuse PROVE Undisturbed(server, db, t)
    <2>1. Undisturbed(server, db, thread)
      BY <1>2, <1>6
    <2>2. AlbumWalk(server, db, t)
      BY ONLY <1>1, <1>4, <2>1 DEF Undisturbed, AlbumWalk, AlbumPlaces, PageAt
    <2>3. QED
      BY <1>4, <2>1, <2>2 DEF Undisturbed, SongWalk, WholeWalk, SongPlaces
  <1>7. UNCHANGED <<server, db, txn, main, excuse, changes, starts>>
    BY DEF ReadAlbum
  <1>8. QED
    BY <1>2, <1>3, <1>4, <1>5, <1>6, <1>7, NoTransaction, StepOfTheThread

LEMMA PageMembers ==
  ASSUME NEW S, NEW page \in Seq(S)
  PROVE  Range(page) \subseteq S /\ Range(page) = {page[i] : i \in 1..Len(page)} /\ Len(page) \in Nat
BY DEF Range

\* The result of the first walk gets the albums of the page.
LEMMA PagePromised ==
  ASSUME server \in Servers, thread \in Threads, thread.page \in Seq(Albums)
  PROVE  LET p == WithPage(thread.promised) IN
         /\ p \in Promises
         /\ DOMAIN p = DOMAIN thread.promised \cup Range(thread.page)
         /\ \A a \in DOMAIN p :
              p[a] = IF a \in DOMAIN thread.promised THEN thread.promised[a] ELSE Cardinality(On(server, a))
  <1> DEFINE old == thread.promised
             D == DOMAIN old \cup Range(thread.page)
             p == WithPage(old)
  <1>1. PICK E \in SUBSET Albums : old \in [E -> Nat]
    BY DEF Threads, Promises
  <1>2. D \in SUBSET Albums
    BY <1>1, PageMembers
  <1>3. \A a \in Albums : Cardinality(On(server, a)) \in Nat
    <2> TAKE a \in Albums
    <2>1. IsFiniteSet(On(server, a))
      BY ServerFinite, FS_Subset DEF On
    <2>2. QED
      BY <2>1, FS_CardinalityType
  <1>4. p = [a \in D |-> IF a \in DOMAIN old THEN old[a] ELSE Cardinality(On(server, a))]
    BY DEF WithPage, On
  <1>5. \A a \in D : (IF a \in DOMAIN old THEN old[a] ELSE Cardinality(On(server, a))) \in Nat
    BY <1>1, <1>2, <1>3
  <1>6. p \in [D -> Nat]
    <2> HIDE DEF D, old
    <2>1. QED
      BY <1>4, <1>5
  <1>7. p \in Promises
    BY <1>2, <1>6 DEF Promises
  <1>8. QED
    BY <1>4, <1>7

\* A page of albums is saved without songs (preload_albums).
LEMMA PageSaved ==
  ASSUME server \in Servers, thread.page \in Seq(Albums), NEW d \in Databases
  PROVE  LET e == StoredPage(d)  albums == Range(thread.page) IN
         /\ e \in Databases
         /\ e.rows = d.rows \cup albums /\ e.fresh = d.fresh \cup albums /\ d.rated \subseteq e.rated
         /\ e.genre = (d.genre \ albums) \cup (albums \cap server.tagged)
         /\ e.songs = d.songs /\ e.freshSongs = d.freshSongs
  <1> DEFINE A == Range(thread.page)
             T == A \cap server.tagged
             b == save_album_metadata(d, A, FALSE)
             c == SaveTags(b, A, T)
  <1>1. A \in SUBSET Albums /\ T \in SUBSET Albums
    BY PageMembers
  <1> HIDE DEF A
  <1>2. FALSE \in BOOLEAN /\ b = save_album_metadata(d, A, FALSE)
    OBVIOUS
  <1> HIDE DEF b
  <1>3. /\ b \in Databases
        /\ b.rows = d.rows \cup A /\ b.fresh = d.fresh \cup A /\ d.rated \subseteq b.rated
        /\ b.genre = d.genre /\ b.songs = d.songs /\ b.freshSongs = d.freshSongs
    BY <1>1, <1>2, AlbumsSaved
  <1>4. c = SaveTags(b, A, T)
    OBVIOUS
  <1>5. T = A \cap server.tagged /\ StoredPage(d) = c
    BY DEF StoredPage, A, b
  <1> HIDE DEF c, T
  <1>6. b \in Databases /\ A \in SUBSET Albums /\ T \in SUBSET Albums
    BY <1>1, <1>3
  <1>7. /\ c \in Databases
        /\ c.rows = b.rows /\ c.fresh = b.fresh /\ c.rated = b.rated
        /\ c.genre = (b.genre \ A) \cup T
        /\ c.songs = b.songs /\ c.freshSongs = b.freshSongs
    BY ONLY <1>4, <1>6, TagsSaved
  <1>8. QED
    BY <1>3, <1>5, <1>7 DEF A

\* The rows that the walk did not meet go.
LEMMA AlbumsPruned ==
  ASSUME NEW d \in Databases, d.fresh \subseteq d.rows
  PROVE  LET e == prune_album_metadata(d) IN
         /\ e \in Databases
         /\ e.rows = d.fresh /\ e.fresh = d.fresh /\ e.genre = d.genre \ (d.rows \ d.fresh)
         /\ e.rated = d.rated \ (d.rows \ d.fresh)
         /\ e.songs = {s \in d.songs : AlbumOf[s] \notin d.rows \ d.fresh}
         /\ e.freshSongs = {s \in d.freshSongs : AlbumOf[s] \notin d.rows \ d.fresh}
  <1> DEFINE gone == d.rows \ d.fresh
             e == WithoutAlbums(d, gone)
  <1>1. gone \in SUBSET Albums /\ e = WithoutAlbums(d, gone)
    BY DEF Databases
  <1>2. gone = d.rows \ d.fresh /\ prune_album_metadata(d) = e
    BY DEF prune_album_metadata
  <1> HIDE DEF gone, e
  <1>3. /\ e \in Databases
        /\ e.rows = d.rows \ gone /\ e.fresh = d.fresh \ gone /\ e.rated = d.rated \ gone
        /\ e.genre = d.genre \ gone
        /\ e.songs = {s \in d.songs : AlbumOf[s] \notin gone}
        /\ e.freshSongs = {s \in d.freshSongs : AlbumOf[s] \notin gone}
    BY <1>1, AlbumsRemoved
  <1>4. QED
    BY <1>2, <1>3

LEMMA StoreAlbumsKeeps ==
  ASSUME StoreInv, StoreAlbums
  PROVE  StoreInv'
  <1>1. thread.at = "store albums" /\ thread # Stopped
    BY RunningThread DEF StoreAlbums
  <1>2. CASE Overtaken
    <2>1. Abandon /\ UNCHANGED <<server, db, main, excuse, changes, starts>>
      BY <1>2 DEF StoreAlbums
    <2>2. QED
      BY <1>1, <2>1, AbandonKeeps DEF AlbumPlaces
  <1>3. CASE ~Overtaken
    <2> DEFINE A == Range(thread.page)
               e == StoredPage(db)
               f == prune_album_metadata(e)
               p == WithPage(thread.promised)
               t == [thread EXCEPT
                      !.promised = p,
                      !.saved = IF thread.short THEN FALSE ELSE TRUE,
                      !.offset = IF thread.short THEN 0 ELSE thread.offset + Len(thread.page),
                      !.page = <<>>,
                      !.at = IF thread.short THEN "ask songs" ELSE "ask albums"]
    <2>1. /\ txn = NoTxn /\ Seen = db /\ thread.page \in Seq(Albums) /\ Len(thread.page) \in Nat
          /\ server \in Servers /\ db \in Databases /\ thread \in Threads /\ thread.offset \in Nat
          /\ ServerFits(server) /\ Closed(db)
          /\ ~excuse => Undisturbed(server, db, thread)
      <3>1. /\ txn = NoTxn /\ Seen = db /\ PlaceFits(thread)
            /\ server \in Servers /\ db \in Databases /\ thread \in Threads
            /\ ServerFits(server) /\ Closed(db)
            /\ ~excuse => Undisturbed(server, db, thread)
        BY <1>1, Running DEF SongPlaces
      <3>2. thread.page \in Seq(Albums)
        BY <1>1, <3>1 DEF PlaceFits
      <3>3. Len(thread.page) \in Nat
        BY <3>2
      <3>4. thread.offset \in Nat
        BY <3>1 DEF Threads
      <3>5. QED
        BY <3>1, <3>2, <3>3, <3>4
    <2>2. /\ db' = IF thread.short THEN f ELSE e
          /\ thread' = t /\ UNCHANGED <<server, txn, main, excuse, changes, starts>>
      BY ONLY <1>3, <2>1, StoreAlbums DEF StoreAlbums, CommitPage, NextOffset
    <2>3. /\ p \in Promises /\ DOMAIN p = DOMAIN thread.promised \cup A
          /\ \A a \in DOMAIN p :
               p[a] = IF a \in DOMAIN thread.promised THEN thread.promised[a] ELSE Cardinality(On(server, a))
      BY ONLY <2>1, PagePromised
    <2>4. /\ e \in Databases
          /\ e.rows = db.rows \cup A /\ e.fresh = db.fresh \cup A
          /\ e.genre = (db.genre \ A) \cup (A \cap server.tagged)
          /\ e.songs = db.songs /\ e.freshSongs = db.freshSongs
      BY ONLY <2>1, PageSaved
    <2> HIDE DEF p, e
    <2>5. A \subseteq Albums /\ A = {thread.page[i] : i \in 1..Len(thread.page)}
      BY ONLY <2>1, PageMembers
    <2> HIDE DEF A
    <2>6. Closed(e) /\ e.fresh \subseteq e.rows
      BY <2>1, <2>4 DEF Closed
    <2>7. /\ f \in Databases
          /\ f.rows = e.fresh /\ f.fresh = e.fresh /\ f.genre = e.genre \ (e.rows \ e.fresh)
          /\ f.songs = {s \in e.songs : AlbumOf[s] \notin e.rows \ e.fresh}
          /\ f.freshSongs = {s \in e.freshSongs : AlbumOf[s] \notin e.rows \ e.fresh}
      BY <2>4, <2>6, AlbumsPruned
    <2> HIDE DEF f
    <2>8. Closed(f)
      BY <2>6, <2>7 DEF Closed
    <2>9. /\ t \in Threads /\ t.page = <<>> /\ t.promised = p
          /\ t.at = IF thread.short THEN "ask songs" ELSE "ask albums"
          /\ t.offset = IF thread.short THEN 0 ELSE thread.offset + Len(thread.page)
          /\ t.walk = thread.walk /\ t.missing = thread.missing /\ t.counted = thread.counted
      <3>1. <<>> \in Seq(Albums) /\ thread.offset + Len(thread.page) \in Nat
        BY <2>1
      <3>2. CASE thread.short
        BY ONLY <2>1, <2>3, <3>1, <3>2 DEF Threads, AlbumPlaces, SongPlaces
      <3>3. CASE ~thread.short
        BY ONLY <2>1, <2>3, <3>1, <3>3 DEF Threads, AlbumPlaces, SongPlaces
      <3>4. QED
        BY <3>2, <3>3
    <2> HIDE DEF t
    <2>10. PlaceFits(t)
      BY <2>9 DEF PlaceFits
    <2>11. ASSUME ~excuse PROVE Undisturbed(server, IF thread.short THEN f ELSE e, t)
      <3> DEFINE list == Listing(server.albums)
                 met == First(list, thread.offset)
      <3>1. /\ thread.walk /\ thread.missing = {} /\ thread.counted = {}
            /\ thread.offset <= Len(list) /\ met \subseteq db.fresh
            /\ \A a \in met : a \in db.genre <=> a \in server.tagged
            /\ Promised(server, met, thread.promised) /\ PageAt(list, thread)
            /\ FreshIsThere(server, db)
        BY <1>1, <2>1, <2>11 DEF Undisturbed, AlbumWalk, AlbumPlaces
      <3>2. /\ Len(list) \in Nat /\ (\A i \in 1..Len(list) : list[i] \in server.albums)
            /\ First(list, Len(list)) = server.albums
        BY <2>1, AlbumList
      <3> HIDE DEF list
      <3>3. First(list, thread.offset + Len(thread.page)) = met \cup A
        <4> DEFINE page == thread.page
                   k == thread.offset
        <4>1. k \in Nat /\ Len(page) \in Nat /\ \A i \in 1..Len(page) : page[i] = list[k + i]
          BY <2>1, <3>1 DEF PageAt
        <4>2. A = {page[i] : i \in 1..Len(page)}
          BY <2>5
        <4> HIDE DEF page, k
        <4>3. First(list, k + Len(page)) = First(list, k) \cup {page[i] : i \in 1..Len(page)}
          BY ONLY <4>1, FirstPage
        <4>4. QED
          BY <4>2, <4>3 DEF page, k
      <3>4. A \subseteq server.albums
        <4>1. \A i \in 1..Len(thread.page) : thread.page[i] = list[thread.offset + i]
                                            /\ thread.offset + i \in 1..Len(list)
          BY <2>1, <3>1, <3>2 DEF PageAt
        <4>2. QED
          BY <2>5, <3>2, <4>1
      <3>5. FreshIsThere(server, e) /\ met \cup A \subseteq e.fresh
        BY <2>4, <3>1, <3>4 DEF FreshIsThere
      <3>6. \A a \in met \cup A : a \in e.genre <=> a \in server.tagged
        BY <2>4, <3>1
      <3>7. Promised(server, met \cup A, p)
        BY <2>3, <3>1 DEF Promised
      <3>8. CASE ~thread.short
        <4>1. AlbumWalk(server, e, t)
          BY <2>1, <2>9, <3>1, <3>3, <3>5, <3>6, <3>7, <3>8 DEF AlbumWalk, PageAt, list
        <4>2. SongWalk(server, e, t) /\ WholeWalk(server, e, t)
          BY <2>9, <3>8 DEF SongWalk, WholeWalk, SongPlaces
        <4>3. QED
          BY <3>5, <3>8, <4>1, <4>2 DEF Undisturbed
      <3>9. CASE thread.short
        <4>1. met \cup A = server.albums
          BY <3>1, <3>2, <3>3, <3>9 DEF PageAt
        <4>2. FreshIsThere(server, f) /\ f.rows = server.albums
          BY <2>7, <3>5, <4>1 DEF FreshIsThere
        <4>3. f.genre = server.tagged
          <5>1. server.tagged \subseteq server.albums
            BY <2>1 DEF ServerFits
          <5>2. f.genre \subseteq server.albums
            BY <2>6, <2>7, <4>2 DEF Closed
          <5>3. \A a \in server.albums : a \in f.genre <=> a \in server.tagged
            BY <2>7, <3>6, <4>1, <4>2
          <5>4. QED
            BY <5>1, <5>2, <5>3
        <4>4. SongWalk(server, f, t) /\ AlbumWalk(server, f, t)
          BY <2>1, <2>9, <3>1, <3>9, SongsBegin DEF AlbumWalk, AlbumPlaces
        <4>5. WholeWalk(server, f, t)
          <5>1. First(Listing(server.songs), t.offset) = {}
            BY <2>9, <3>9, FirstFacts
          <5>2. QED
            BY <2>9, <3>1, <3>7, <3>9, <4>1, <4>2, <4>3, <5>1 DEF WholeWalk
        <4>6. QED
          BY <3>9, <4>2, <4>4, <4>5 DEF Undisturbed
      <3>10. QED
        BY <3>8, <3>9
    <2>12. QED
      <3> DEFINE d == IF thread.short THEN f ELSE e
      <3>1. d \in Databases /\ Closed(d) /\ db' = d /\ (~excuse => Undisturbed(server, d, t))
        BY <2>2, <2>4, <2>6, <2>7, <2>8, <2>11
      <3> HIDE DEF d
      <3>2. txn' = NoTxn /\ thread' = t /\ UNCHANGED <<server, main, excuse, changes, starts>>
        BY <2>1, <2>2
      <3>3. QED
        BY <1>1, <2>9, <2>10, <3>1, <3>2, NoTransaction, StepOfTheThread
  <1>4. QED
    BY <1>2, <1>3

LEMMA AskSongsKeeps ==
  ASSUME StoreInv, AskSongs
  PROVE  StoreInv'
  <1>1. thread.at = "ask songs" /\ thread # Stopped
    BY RunningThread DEF AskSongs
  <1> DEFINE list == Listing(server.songs)
             page == Listed(list, thread.offset)
             t == [thread EXCEPT !.page = page, !.short = Len(page) < PageSize,
                                 !.at = IF page = <<>> THEN "end of songs" ELSE "read song"]
  <1>2. /\ thread \in Threads /\ thread.offset \in Nat /\ server \in Servers /\ db \in Databases
        /\ txn = NoTxn \/ txn \in [open : {TRUE}, db : Databases]
        /\ Closed(db) /\ TxnFits(txn, db, thread.at)
        /\ ~excuse => Undisturbed(server, Seen, thread)
    BY <1>1, Running DEF Threads
  <1>3. list \in Seq(Songs) /\ Len(list) \in Nat
    BY <1>2, SongList
  <1>4. thread' = t /\ UNCHANGED <<server, db, txn, main, excuse, changes, starts>>
    BY DEF AskSongs
  <1> HIDE DEF list
  <1>5. /\ page \in Seq(Songs) /\ Len(page) \in Nat /\ (page = <<>> <=> Len(page) = 0)
        /\ thread.offset <= Len(list) =>
             /\ thread.offset + Len(page) <= Len(list)
             /\ \A i \in 1..Len(page) : page[i] = list[thread.offset + i]
             /\ Len(page) < PageSize => thread.offset + Len(page) = Len(list)
    BY <1>2, <1>3, ListedFacts
  <1> HIDE DEF page
  <1>6. (Len(page) < PageSize) \in BOOLEAN
    BY ONLY <1>5
  <1>7. /\ t \in Threads /\ t.page = page /\ t.short = (Len(page) < PageSize)
        /\ t.at = IF page = <<>> THEN "end of songs" ELSE "read song"
        /\ t.walk = thread.walk /\ t.offset = thread.offset /\ t.missing = thread.missing
        /\ t.counted = thread.counted /\ t.promised = thread.promised
    BY <1>2, <1>5, <1>6 DEF Threads, SongPlaces
  <1> HIDE DEF t
  <1>8. PlaceFits(t) /\ TxnFits(txn, db, t.at)
    BY <1>2, <1>5, <1>7 DEF PlaceFits, TxnFits, SongPlaces
  <1>9. ASSUME ~excuse PROVE Undisturbed(server, Seen, t)
    <2>1. Undisturbed(server, Seen, thread)
      BY <1>2, <1>9
    <2>2. PageAt(list, t)
      BY <1>1, <1>5, <1>7, <2>1 DEF PageAt, Undisturbed, SongWalk, SongPlaces, list
    <2>3. page = <<>> => thread.offset = Len(list)
      <3>1. thread.offset <= Len(list)
        BY <1>1, <2>1 DEF Undisturbed, SongWalk, SongPlaces, list
      <3>2. PageSize \in Nat \ {0}
        BY StoreAssumption
      <3>3. QED
        BY <1>2, <1>3, <1>5, <3>1, <3>2
    <2>4. SongWalk(server, Seen, t)
      BY <1>1, <1>7, <2>1, <2>2, <2>3 DEF Undisturbed, SongWalk, SongPlaces, list
    <2>5. WholeWalk(server, Seen, t)
      BY <1>1, <1>7, <2>1 DEF Undisturbed, WholeWalk, SongPlaces
    <2>6. QED
      BY <1>7, <2>1, <2>4, <2>5 DEF Undisturbed, AlbumWalk, AlbumPlaces
  <1>10. QED
    BY <1>1, <1>2, <1>4, <1>7, <1>8, <1>9, StepOfTheThread DEF Seen

LEMMA ReadSongKeeps ==
  ASSUME StoreInv, ReadSong
  PROVE  StoreInv'
  <1>1. thread.at = "read song" /\ thread # Stopped
    BY RunningThread DEF ReadSong
  <1> DEFINE s == Head(thread.page)
             a == AlbumOf[s]
             new == a \notin thread.known \cup thread.missing
             known == IF new /\ a \in Seen.rows THEN thread.known \cup {a} ELSE thread.known
             missing == IF new /\ a \notin Seen.rows THEN thread.missing \cup {a} ELSE thread.missing
             exists == s \in Seen.songs
             t == [thread EXCEPT !.known = known, !.missing = missing, !.exists = exists, !.at = "store song"]
  <1>2. /\ thread \in Threads /\ thread.offset \in Nat /\ server \in Servers /\ db \in Databases
        /\ txn = NoTxn \/ txn \in [open : {TRUE}, db : Databases]
        /\ Closed(db) /\ Closed(Seen) /\ TxnFits(txn, db, thread.at)
        /\ ServerFits(server) /\ PlaceFits(thread)
        /\ ~excuse => Undisturbed(server, Seen, thread)
    BY <1>1, Running DEF Threads
  <1>3. thread.page \in Seq(Songs) /\ thread.page # <<>>
    BY <1>1, <1>2 DEF PlaceFits
  <1>4. s \in Songs /\ a \in Albums /\ s = thread.page[1] /\ Len(thread.page) \in Nat /\ Len(thread.page) >= 1
    BY <1>3, StoreAssumption
  <1>5. /\ thread' = t /\ UNCHANGED <<server, db, txn, main, excuse, changes, starts>>
    BY DEF ReadSong
  <1>6. exists \in BOOLEAN
    BY ONLY TRUE
  <1>7. /\ known \in SUBSET Albums /\ missing \in SUBSET Albums /\ a \in known \cup missing
        /\ missing = thread.missing \/ (missing = thread.missing \cup {a} /\ a \notin Seen.rows)
    BY <1>2, <1>4 DEF Threads
  <1> HIDE DEF s, a, new, known, missing, exists
  <1>8. /\ t \in Threads /\ t.page = thread.page /\ t.short = thread.short /\ t.at = "store song"
        /\ t.known = known /\ t.missing = missing
        /\ t.walk = thread.walk /\ t.offset = thread.offset
        /\ t.counted = thread.counted /\ t.promised = thread.promised
    BY <1>2, <1>6, <1>7 DEF Threads, SongPlaces
  <1> HIDE DEF t
  <1>9. PlaceFits(t) /\ TxnFits(txn, db, t.at)
    BY <1>1, <1>2, <1>3, <1>7, <1>8 DEF PlaceFits, TxnFits, SongPlaces, s, a
  <1>10. ASSUME ~excuse PROVE Undisturbed(server, Seen, t)
    <2>1. Undisturbed(server, Seen, thread)
      BY <1>2, <1>10
    <2>2. SongWalk(server, Seen, t)
      <3>1. \A q \in Seen.songs : AlbumOf[q] \in missing => AlbumOf[q] \in thread.missing
        BY <1>2, <1>7 DEF Closed
      <3>2. PageAt(Listing(server.songs), t)
        BY <1>1, <1>8, <2>1 DEF Undisturbed, SongWalk, SongPlaces, PageAt
      <3>3. QED
        BY <1>1, <1>8, <2>1, <3>1, <3>2 DEF Undisturbed, SongWalk, SongPlaces
    <2>3. WholeWalk(server, Seen, t)
      <3>1. a \in server.albums
        <4>1. PageAt(Listing(server.songs), thread)
          BY <1>1, <2>1 DEF Undisturbed, SongWalk, SongPlaces
        <4>2. \A i \in 1..Len(Listing(server.songs)) : Listing(server.songs)[i] \in server.songs
          BY <1>2, SongList
        <4>3. s = Listing(server.songs)[thread.offset + 1] /\ thread.offset + 1 \in 1..Len(Listing(server.songs))
          BY <1>2, <1>4, <4>1, SongList DEF PageAt
        <4>4. s \in server.songs
          BY <4>2, <4>3
        <4>5. QED
          BY <1>2, <4>4 DEF ServerFits, a
      <3>2. QED
        BY <1>1, <1>7, <1>8, <2>1, <3>1 DEF Undisturbed, WholeWalk, SongPlaces
    <2>4. QED
      BY <1>8, <2>1, <2>2, <2>3 DEF Undisturbed, AlbumWalk, AlbumPlaces
  <1>11. QED
    BY <1>1, <1>2, <1>5, <1>8, <1>9, <1>10, StepOfTheThread DEF Seen

\* The thread goes to the next song.
LEMMA NextSong ==
  ASSUME NEW t \in Threads, t.page \in Seq(Songs), t.page # <<>>
  PROVE  LET u == AfterSong(t) IN
         /\ u \in Threads /\ u.at \in {"ask songs", "read song", "end of songs"} /\ PlaceFits(u)
         /\ u.offset = t.offset + 1 /\ u.walk = t.walk /\ u.missing = t.missing
         /\ u.counted = t.counted /\ u.promised = t.promised
         /\ \A list : Len(list) \in Nat /\ PageAt(list, t) =>
              /\ u.offset <= Len(list) /\ Head(t.page) = list[t.offset + 1]
              /\ u.at = "read song" => PageAt(list, u)
              /\ u.at = "end of songs" => u.offset = Len(list)
  <1> DEFINE page == Tail(t.page)
             at == IF Len(t.page) > 1 THEN "read song" ELSE IF t.short THEN "end of songs" ELSE "ask songs"
             u == [t EXCEPT !.page = page, !.offset = t.offset + 1, !.at = at]
  <1>1. AfterSong(t) = u
    BY DEF AfterSong
  <1>2. /\ page \in Seq(Songs) /\ Len(t.page) \in Nat /\ Len(t.page) >= 1
        /\ Len(page) = Len(t.page) - 1 /\ (\A i \in 1..Len(page) : page[i] = t.page[i + 1])
        /\ Head(t.page) = t.page[1] /\ (page = <<>> <=> Len(page) = 0)
    <2>1. page \in Seq(Songs) /\ Len(page) = Len(t.page) - 1 /\ (\A i \in 1..Len(page) : page[i] = t.page[i + 1])
      BY HeadTailProperties
    <2>2. Head(t.page) = t.page[1] /\ Len(t.page) \in Nat /\ Len(t.page) >= 1
      OBVIOUS
    <2> HIDE DEF page
    <2>3. page = <<>> <=> Len(page) = 0
      BY ONLY <2>1, EmptySeq
    <2>4. QED
      BY <2>1, <2>2, <2>3
  <1>3. at \in {"ask songs", "read song", "end of songs"}
    OBVIOUS
  <1>4. t.offset \in Nat
    BY DEF Threads
  <1> HIDE DEF page, at
  <1>5. /\ u \in Threads /\ u.page = page /\ u.offset = t.offset + 1 /\ u.at = at /\ u.short = t.short
        /\ u.walk = t.walk /\ u.missing = t.missing /\ u.counted = t.counted /\ u.promised = t.promised
    <2>0. at \in AlbumPlaces \cup SongPlaces \cup {"done", "failed"}
      BY ONLY <1>3 DEF SongPlaces
    <2>1. t \in Threads /\ t.offset + 1 \in Nat
      BY <1>4
    <2>2. page \in Seq(Albums) \cup Seq(Songs)
      BY <1>2
    <2>3. QED
      BY ONLY <2>0, <2>1, <2>2 DEF Threads
  <1> HIDE DEF u
  <1>6. PlaceFits(u)
    <2>1. u.at \in {"ask songs", "read song", "end of songs"} /\ u.page = page /\ page \in Seq(Songs)
      BY <1>2, <1>3, <1>5
    <2>2. u.at = "read song" => page # <<>>
      <3>1. Len(page) = Len(t.page) - 1 /\ (page = <<>> <=> Len(page) = 0) /\ Len(t.page) \in Nat /\ u.at = at
        BY <1>2, <1>5
      <3>2. at = "read song" => Len(t.page) > 1
        BY ONLY TRUE DEF at
      <3>3. Len(t.page) > 1 => Len(page) # 0
        BY ONLY <3>1
      <3>4. QED
        BY ONLY <3>1, <3>2, <3>3, Zenon
    <2>3. QED
      BY ONLY <2>1, <2>2 DEF PlaceFits
  <1>7. ASSUME NEW list, Len(list) \in Nat, PageAt(list, t)
        PROVE  /\ u.offset <= Len(list) /\ Head(t.page) = list[t.offset + 1]
               /\ u.at = "read song" => PageAt(list, u)
               /\ u.at = "end of songs" => u.offset = Len(list)
    <2>1. /\ t.offset + Len(t.page) <= Len(list)
          /\ \A i \in 1..Len(t.page) : t.page[i] = list[t.offset + i]
          /\ t.short => t.offset + Len(t.page) = Len(list)
      BY <1>7 DEF PageAt
    <2>2. u.offset <= Len(list) /\ Head(t.page) = list[t.offset + 1]
      BY <1>2, <1>4, <1>5, <1>7, <2>1
    <2>3. \A i \in 1..Len(page) : page[i] = list[u.offset + i]
      BY <1>2, <1>4, <1>5, <2>1
    <2>4. u.offset + Len(u.page) = t.offset + Len(t.page)
      <3>1. Len(page) = Len(t.page) - 1 /\ Len(t.page) \in Nat /\ t.offset \in Nat
            /\ u.page = page /\ u.offset = t.offset + 1
        BY <1>2, <1>4, <1>5
      <3>2. QED
        BY ONLY <3>1
    <2>5. PageAt(list, u)
      BY <1>5, <2>1, <2>3, <2>4 DEF PageAt
    <2>6. at = "end of songs" => t.short /\ Len(page) = 0
      BY <1>2 DEF at
    <2>7. u.offset \in Nat
      BY ONLY <1>4, <1>5
    <2>8. u.at = "end of songs" => u.offset = Len(list)
      <3>1. t.short => t.offset + Len(t.page) = Len(list)
        BY <2>1
      <3>2. u.at = at /\ u.page = page
        BY <1>5
      <3>3. at = "end of songs" => u.offset + 0 = Len(list)
        BY ONLY <2>4, <2>6, <3>1, <3>2, Zenon
      <3>4. u.offset + 0 = u.offset
        BY ONLY <2>7
      <3>5. QED
        BY ONLY <3>2, <3>3, <3>4, Zenon
    <2>9. QED
      BY <2>2, <2>5, <2>8
  <1>8. QED
    BY <1>1, <1>3, <1>5, <1>6, <1>7

\* A song that is saved is met by the walk.
LEMMA SongMet ==
  ASSUME NEW sv \in Servers, NEW d \in Databases, NEW e \in Databases, NEW t \in Threads, NEW u \in Threads,
         NEW s \in Songs, ServerFits(sv), Closed(d), Undisturbed(sv, d, t),
         t.at = "store song", s = Head(t.page),
         e.rows = d.rows, e.fresh = d.fresh, e.genre = d.genre, d.rated \subseteq e.rated,
         e.songs = d.songs \cup {s}, e.freshSongs = d.freshSongs \cup {s},
         u.at \in {"ask songs", "read song", "end of songs"},
         u.offset = t.offset + 1, u.walk = t.walk, u.missing = t.missing,
         u.counted = t.counted \cup {s}, u.promised = t.promised,
         \A list : Len(list) \in Nat /\ PageAt(list, t) =>
              /\ u.offset <= Len(list) /\ Head(t.page) = list[t.offset + 1]
              /\ u.at = "read song" => PageAt(list, u)
              /\ u.at = "end of songs" => u.offset = Len(list),
         AllSongsMet([t EXCEPT !.counted = @ \cup {s}, !.saved = TRUE], AlbumOf[s]) => AlbumOf[s] \in e.rated
  PROVE  Undisturbed(sv, e, u)
  <1> DEFINE list == Listing(sv.songs)
             a == AlbumOf[s]
  <1>1. /\ Len(list) \in Nat /\ (\A i \in 1..Len(list) : list[i] \in sv.songs) /\ t.offset \in Nat
    BY SongList DEF Threads
  <1>2. /\ FreshIsThere(sv, d) /\ SongWalk(sv, d, t) /\ WholeWalk(sv, d, t)
        /\ PageAt(list, t) /\ t.offset <= Len(list)
    BY DEF Undisturbed, SongWalk, SongPlaces
  <1> HIDE DEF list
  <1>3. /\ u.offset <= Len(list) /\ s = list[t.offset + 1]
        /\ u.at = "read song" => PageAt(list, u)
        /\ u.at = "end of songs" => u.offset = Len(list)
    BY <1>1, <1>2
  <1>a. Len(list) \in Nat /\ t.offset \in Nat /\ u.offset = t.offset + 1 /\ u.offset <= Len(list)
    BY <1>1, <1>3
  <1>4. s \in sv.songs /\ a \in sv.albums /\ a \in Albums
    <2>1. t.offset + 1 \in 1..Len(list)
      BY ONLY <1>a
    <2>2. s \in sv.songs
      BY <1>1, <1>3, <2>1
    <2>3. QED
      BY <2>2, StoreAssumption DEF ServerFits
  <1>b. First(list, t.offset + 1) = First(list, t.offset) \cup {list[t.offset + 1]} /\ u.offset = t.offset + 1
    BY <1>a, FirstFacts
  <1>5. First(list, u.offset) = First(list, t.offset) \cup {s}
    BY <1>3, <1>b
  <1>6. FreshIsThere(sv, e)
    BY <1>2, <1>4 DEF FreshIsThere
  <1>7. SongWalk(sv, e, u)
    <2>1. \A q \in d.songs : q \in First(list, t.offset) \/ AlbumOf[q] \in t.missing => q \in d.freshSongs
      BY <1>2 DEF SongWalk, SongPlaces, list
    <2>2. \A q \in e.songs : q \in First(list, u.offset) \/ AlbumOf[q] \in u.missing => q \in e.freshSongs
      BY <1>5, <2>1
    <2>3. QED
      BY <1>3, <2>2 DEF SongWalk, list
  <1>8. WholeWalk(sv, e, u)
    <2> SUFFICES ASSUME u.walk PROVE WholeWalk(sv, e, u)
      BY DEF WholeWalk
    <2>1. /\ d.rows = sv.albums /\ d.genre = sv.tagged
          /\ t.missing = {} /\ Promised(sv, sv.albums, t.promised)
          /\ \A b \in sv.albums : On(sv, b) # {} /\ On(sv, b) \subseteq t.counted => b \in d.rated
          /\ t.counted \subseteq d.songs /\ t.counted = First(list, t.offset)
      BY <1>2 DEF WholeWalk, SongPlaces, list
    <2>2. First(list, u.offset) \subseteq sv.songs
      <3>1. \A i \in 1..u.offset : i \in 1..Len(list)
        BY ONLY <1>a
      <3>2. \A i \in 1..Len(list) : list[i] \in sv.songs
        BY <1>1
      <3>3. QED
        BY ONLY <3>1, <3>2 DEF First
    <2>3. ASSUME NEW b \in sv.albums, On(sv, b) # {}, On(sv, b) \subseteq u.counted
          PROVE  b \in e.rated
      <3>1. CASE b = a
        <4> DEFINE met == [t EXCEPT !.counted = @ \cup {s}, !.saved = TRUE]
        <4>1. met.counted = u.counted /\ met.promised = t.promised
          BY DEF Threads
        <4> HIDE DEF met
        <4>2. u.counted \cap SongsOf(a) = On(sv, a)
          BY <1>5, <2>1, <2>2, <2>3, <3>1 DEF On
        <4>3. AllSongsMet(met, a)
          <5>1. a \in DOMAIN t.promised /\ t.promised[a] = Cardinality(On(sv, a))
            BY <1>4, <2>1 DEF Promised
          <5>2. a \in DOMAIN met.promised /\ Cardinality(met.counted \cap SongsOf(a)) = met.promised[a]
            BY ONLY <4>1, <4>2, <5>1
          <5>3. QED
            BY ONLY <5>2 DEF AllSongsMet
        <4>4. QED
          BY <3>1, <4>3 DEF met
      <3>2. CASE b # a
        <4>1. s \notin On(sv, b)
          BY <3>2 DEF On, SongsOf
        <4>2. QED
          BY <2>1, <2>3, <4>1
      <3>3. QED
        BY <3>1, <3>2
    <2>4. u.counted = First(list, u.offset)
      BY <1>5, <2>1
    <2>5. QED
      BY <2>1, <2>3, <2>4 DEF WholeWalk, list
  <1>9. QED
    BY <1>6, <1>7, <1>8 DEF Undisturbed, AlbumWalk, AlbumPlaces

LEMMA StoreSongKeeps ==
  ASSUME StoreInv, StoreSong
  PROVE  StoreInv'
  <1>1. thread.at = "store song" /\ thread # Stopped
    BY RunningThread DEF StoreSong
  <1> DEFINE s == Head(thread.page)
             a == AlbumOf[s]
             met == [thread EXCEPT !.counted = @ \cup {s}, !.saved = TRUE]
             e == save_song(Seen, s)
             f == update_album_metadata_table(e, a)
             t == AfterSong(thread)
             u == AfterSong(met)
  <1>2. /\ thread \in Threads /\ server \in Servers /\ db \in Databases /\ Seen \in Databases
        /\ txn = NoTxn \/ txn \in [open : {TRUE}, db : Databases]
        /\ Closed(db) /\ Closed(Seen) /\ TxnFits(txn, db, thread.at)
        /\ ServerFits(server) /\ PlaceFits(thread)
        /\ ~excuse => Undisturbed(server, Seen, thread)
        /\ Seen.rows = db.rows /\ Seen.rated = db.rated /\ Seen.fresh = db.fresh
        /\ db.songs \subseteq Seen.songs /\ db.freshSongs \subseteq Seen.freshSongs
    BY <1>1, Running
  <1>3. thread.page \in Seq(Songs) /\ thread.page # <<>> /\ a \in thread.known \cup thread.missing
    BY <1>1, <1>2 DEF PlaceFits
  <1>4. s \in Songs /\ a \in Albums
    BY <1>3, StoreAssumption
  <1>5. /\ UNCHANGED <<server, main, excuse, changes, starts>>
        /\ \/ a \notin thread.known /\ thread' = t /\ UNCHANGED <<db, txn>>
           \/ a \in thread.known /\ Abandon /\ UNCHANGED db
           \/ a \in Seen.rows /\ AllSongsMet(met, a) /\ db' = f /\ txn' = NoTxn /\ thread' = u
           \/ a \in Seen.rows /\ ~AllSongsMet(met, a) /\ txn' = Begun(e) /\ thread' = u /\ UNCHANGED db
    BY DEF StoreSong
  <1>6. CASE a \notin thread.known /\ thread' = t /\ UNCHANGED <<db, txn>>
    <2>1. /\ t \in Threads /\ t.at \in {"ask songs", "read song", "end of songs"} /\ PlaceFits(t)
          /\ t.offset = thread.offset + 1 /\ t.walk = thread.walk /\ t.missing = thread.missing
          /\ \A list : Len(list) \in Nat /\ PageAt(list, thread) =>
               /\ t.offset <= Len(list) /\ Head(thread.page) = list[thread.offset + 1]
               /\ t.at = "read song" => PageAt(list, t)
               /\ t.at = "end of songs" => t.offset = Len(list)
      BY <1>2, <1>3, NextSong
    <2> HIDE DEF t
    <2>2. TxnFits(txn, db, t.at)
      BY <1>2, <2>1 DEF TxnFits, SongPlaces
    <2>3. ASSUME ~excuse PROVE Undisturbed(server, Seen, t)
      <3> DEFINE list == Listing(server.songs)
      <3>1. Len(list) \in Nat /\ thread.offset \in Nat
        BY <1>2, SongList DEF Threads
      <3>2. /\ FreshIsThere(server, Seen) /\ SongWalk(server, Seen, thread)
            /\ WholeWalk(server, Seen, thread) /\ PageAt(list, thread)
        BY <1>1, <1>2, <2>3 DEF Undisturbed, SongWalk, SongPlaces
      <3> HIDE DEF list
      <3>3. /\ t.offset <= Len(list) /\ s = list[thread.offset + 1]
            /\ t.at = "read song" => PageAt(list, t)
            /\ t.at = "end of songs" => t.offset = Len(list)
        BY <2>1, <3>1, <3>2
      <3>4. First(list, t.offset) = First(list, thread.offset) \cup {s}
        <4>1. First(list, thread.offset + 1) = First(list, thread.offset) \cup {list[thread.offset + 1]}
          BY <3>1, FirstFacts
        <4>2. QED
          BY <2>1, <3>3, <4>1
      <3>5. \A q \in Seen.songs : q \in First(list, t.offset) \/ AlbumOf[q] \in t.missing => q \in Seen.freshSongs
        <4>1. \A q \in Seen.songs :
                q \in First(list, thread.offset) \/ AlbumOf[q] \in thread.missing => q \in Seen.freshSongs
          BY <1>1, <3>2 DEF SongWalk, SongPlaces, list
        <4>2. AlbumOf[s] \in thread.missing
          BY <1>3, <1>6
        <4>3. QED
          BY <2>1, <3>4, <4>1, <4>2
      <3>6. SongWalk(server, Seen, t)
        BY <2>1, <3>3, <3>5 DEF SongWalk, list
      <3>7. WholeWalk(server, Seen, t)
        <4>1. ~thread.walk
          BY <1>1, <1>3, <1>6, <3>2 DEF WholeWalk, SongPlaces
        <4>2. QED
          BY <2>1, <4>1 DEF WholeWalk
      <3>8. QED
        BY <2>1, <3>2, <3>6, <3>7 DEF Undisturbed, AlbumWalk, AlbumPlaces
    <2>4. QED
      BY <1>1, <1>2, <1>5, <1>6, <2>1, <2>2, <2>3, StepOfTheThread DEF Seen
  <1>7. CASE Abandon /\ UNCHANGED db
    BY <1>1, <1>5, <1>7, AbandonKeeps DEF SongPlaces
  <1>8. ASSUME a \in Seen.rows, thread' = u,
               \/ AllSongsMet(met, a) /\ db' = f /\ txn' = NoTxn
               \/ ~AllSongsMet(met, a) /\ txn' = Begun(e) /\ db' = db
        PROVE  StoreInv'
    <2>1. /\ met \in Threads /\ met.page = thread.page /\ met.offset = thread.offset
          /\ met.walk = thread.walk /\ met.missing = thread.missing /\ met.short = thread.short
          /\ met.counted = thread.counted \cup {s} /\ met.promised = thread.promised
      BY <1>2, <1>4 DEF Threads
    <2>2. \A list : PageAt(list, thread) => PageAt(list, met)
      BY <2>1 DEF PageAt
    <2> DEFINE m == met
    <2> HIDE DEF m
    <2>3. /\ u \in Threads /\ u.at \in {"ask songs", "read song", "end of songs"} /\ PlaceFits(u)
          /\ u.offset = thread.offset + 1 /\ u.walk = thread.walk /\ u.missing = thread.missing
          /\ u.counted = thread.counted \cup {s} /\ u.promised = thread.promised
          /\ \A list : Len(list) \in Nat /\ PageAt(list, thread) =>
               /\ u.offset <= Len(list) /\ Head(thread.page) = list[thread.offset + 1]
               /\ u.at = "read song" => PageAt(list, u)
               /\ u.at = "end of songs" => u.offset = Len(list)
      <3>1. u = AfterSong(m) /\ m \in Threads /\ m.page \in Seq(Songs) /\ m.page # <<>>
        BY <1>3, <2>1 DEF m
      <3> HIDE DEF u
      <3>2. /\ u \in Threads /\ u.at \in {"ask songs", "read song", "end of songs"} /\ PlaceFits(u)
            /\ u.offset = m.offset + 1 /\ u.walk = m.walk /\ u.missing = m.missing
            /\ u.counted = m.counted /\ u.promised = m.promised
            /\ \A list : Len(list) \in Nat /\ PageAt(list, m) =>
                 /\ u.offset <= Len(list) /\ Head(m.page) = list[m.offset + 1]
                 /\ u.at = "read song" => PageAt(list, u)
                 /\ u.at = "end of songs" => u.offset = Len(list)
        BY ONLY <3>1, NextSong
      <3>3. QED
        BY <2>1, <2>2, <3>2 DEF m
    <2> HIDE DEF u
    <2>4. /\ e \in Databases
          /\ e.rows = Seen.rows /\ e.fresh = Seen.fresh /\ e.rated = Seen.rated /\ e.genre = Seen.genre
          /\ e.songs = Seen.songs \cup {s} /\ e.freshSongs = Seen.freshSongs \cup {s}
      BY <1>2, <1>4, SongSaved
    <2> HIDE DEF e
    <2>5. /\ f \in Databases
          /\ f.rows = e.rows /\ f.fresh = e.fresh /\ f.rated = e.rated \cup {a} /\ f.genre = e.genre
          /\ f.songs = e.songs /\ f.freshSongs = e.freshSongs
      BY <1>4, <2>4, QualitySaved
    <2> HIDE DEF f
    <2>6. Closed(e) /\ Closed(f)
      BY <1>2, <1>8, <2>4, <2>5 DEF Closed
    <2>7. ASSUME ~excuse, NEW g \in {e, f}, AllSongsMet(met, a) => g = f
          PROVE  Undisturbed(server, g, u)
      <3>1. /\ g \in Databases
            /\ g.rows = Seen.rows /\ g.fresh = Seen.fresh /\ g.genre = Seen.genre /\ Seen.rated \subseteq g.rated
            /\ g.songs = Seen.songs \cup {s} /\ g.freshSongs = Seen.freshSongs \cup {s}
            /\ AllSongsMet(met, a) => a \in g.rated
        BY <2>4, <2>5, <2>7
      <3>2. Undisturbed(server, Seen, thread)
        BY <1>2, <2>7
      <3>3. QED
        BY <1>1, <1>2, <1>4, <2>3, <3>1, <3>2, SongMet
    <2>8. CASE AllSongsMet(met, a) /\ db' = f /\ txn' = NoTxn
      BY <1>1, <1>2, <1>5, <1>8, <2>3, <2>5, <2>6, <2>7, <2>8, NoTransaction, StepOfTheThread
    <2>9. CASE ~AllSongsMet(met, a) /\ txn' = Begun(e) /\ db' = db
      <3>1. Begun(e) \in [open : {TRUE}, db : Databases] /\ Begun(e).open /\ Begun(e).db = e
        BY <2>4 DEF Begun
      <3>2. TxnFits(Begun(e), db, u.at)
        BY <1>2, <2>3, <2>4, <2>6, <3>1 DEF TxnFits, SongPlaces
      <3>3. QED
        BY <1>1, <1>2, <1>5, <1>8, <2>3, <2>7, <2>9, <3>1, <3>2, StepOfTheThread
    <2>10. QED
      BY <1>8, <2>8, <2>9
  <1>9. QED
    BY <1>5, <1>6, <1>7, <1>8

\* At the end every song that the server has is marked.
LEMMA MetAreMarked ==
  ASSUME NEW sv \in Servers, NEW d, NEW t, Undisturbed(sv, d, t), t.at = "end of songs"
  PROVE  /\ First(Listing(sv.songs), t.offset) = sv.songs
         /\ \A q \in d.songs : q \in sv.songs => q \in d.freshSongs
  <1>1. SongWalk(sv, d, t)
    BY DEF Undisturbed
  <1>2. First(Listing(sv.songs), t.offset) = sv.songs
    BY <1>1, SongList DEF SongWalk, SongPlaces
  <1>3. QED
    BY <1>1, <1>2 DEF SongWalk, SongPlaces

LEMMA EndOfSongsKeeps ==
  ASSUME StoreInv, EndOfSongs
  PROVE  StoreInv'
  <1>1. thread.at = "end of songs" /\ thread # Stopped
    BY RunningThread DEF EndOfSongs
  <1> DEFINE gone == Seen.songs \ Seen.freshSongs
             e == WithoutSongs(Seen, gone)
             t == [thread EXCEPT !.at = "done"]
  <1>2. /\ thread \in Threads /\ server \in Servers /\ Seen \in Databases /\ Closed(Seen)
        /\ ~excuse => Undisturbed(server, Seen, thread)
    BY <1>1, Running
  <1>3. /\ db' = e /\ txn' = NoTxn /\ thread' = t /\ UNCHANGED <<server, main, excuse, changes, starts>>
    BY DEF EndOfSongs, prune_song_metadata
  <1>4. /\ e \in Databases
        /\ e.rows = Seen.rows /\ e.fresh = Seen.fresh /\ e.rated = Seen.rated /\ e.genre = Seen.genre
        /\ e.songs = Seen.songs \ gone /\ e.freshSongs = Seen.freshSongs \ gone
    BY <1>2, SongsRemoved
  <1> HIDE DEF e
  <1>5. /\ t \in Threads /\ t.at = "done" /\ t.walk = thread.walk /\ t.missing = thread.missing
        /\ t.counted = thread.counted /\ t.promised = thread.promised
    BY <1>2 DEF Threads
  <1> HIDE DEF t
  <1>6. Closed(e) /\ PlaceFits(t)
    BY <1>2, <1>4, <1>5 DEF Closed, PlaceFits
  <1>7. ASSUME ~excuse PROVE Undisturbed(server, e, t)
    <2>1. /\ FreshIsThere(server, Seen) /\ SongWalk(server, Seen, thread) /\ WholeWalk(server, Seen, thread)
      BY <1>2, <1>7 DEF Undisturbed
    <2>2. First(Listing(server.songs), thread.offset) = server.songs
      BY <1>1, <1>2, <1>7, MetAreMarked
    <2>3. \A q \in Seen.songs : q \in server.songs => q \in Seen.freshSongs
      BY <1>1, <1>2, <1>7, MetAreMarked
    <2>4. FreshIsThere(server, e) /\ e.songs \subseteq server.songs
      BY <1>2, <1>4, <2>1 DEF FreshIsThere
    <2>5. WholeWalk(server, e, t)
      BY <1>1, <1>4, <1>5, <2>1, <2>2, <2>3, <2>4 DEF WholeWalk, SongPlaces
    <2>6. QED
      BY <1>5, <2>4, <2>5 DEF Undisturbed, AlbumWalk, SongWalk, AlbumPlaces, SongPlaces
  <1>8. QED
    BY <1>1, <1>3, <1>4, <1>5, <1>6, <1>7, NoTransaction, StepOfTheThread

LEMMA ThreadKeeps ==
  ASSUME StoreInv, ThreadStep
  PROVE  StoreInv'
BY FailsKeeps, AskAlbumsKeeps, ReadAlbumKeeps, StoreAlbumsKeeps, AskSongsKeeps, ReadSongKeeps, StoreSongKeeps,
   EndOfSongsKeeps DEF ThreadStep

-----------------------------------------------------------------------------
(* The plugin starts and stops, and the server changes. *)

LEMMA StartKeeps ==
  ASSUME StoreInv, Start
  PROVE  StoreInv'
  <1> DEFINE d == [db EXCEPT !.fresh = {}, !.freshSongs = {}]
             t(recent) == [at |-> IF recent THEN "ask songs" ELSE "ask albums", walk |-> ~recent, offset |-> 0,
                           page |-> <<>>, short |-> FALSE, saved |-> FALSE, exists |-> FALSE,
                           known |-> {}, missing |-> {}, counted |-> {}, promised |-> NoPromise]
  <1>1. /\ thread = Stopped /\ main = Idle /\ txn = NoTxn /\ server \in Servers /\ db \in Databases
        /\ ServerFits(server) /\ Closed(db) /\ PageFits(main) /\ TypeOK
    BY DEF Start, StoreInv, TypeOK
  <1>2. PICK recent \in BOOLEAN : thread' = t(recent)
    BY DEF Start, Recently
  <1>3. db' = d /\ excuse' = FALSE /\ starts' = starts + 1 /\ UNCHANGED <<server, txn, main, changes>>
    BY DEF Start
  <1>4. <<>> \in Seq(Albums) /\ NoPromise \in Promises /\ DOMAIN NoPromise = {}
    BY DEF NoPromise, Promises
  <1>5. /\ t(recent) \in Threads /\ t(recent).offset = 0 /\ t(recent).walk = ~recent
        /\ t(recent).at = IF recent THEN "ask songs" ELSE "ask albums"
        /\ t(recent).missing = {} /\ t(recent).counted = {} /\ t(recent).promised = NoPromise
    <2>1. CASE recent = TRUE
      BY ONLY <1>4, <2>1 DEF Threads, SongPlaces
    <2>2. CASE recent = FALSE
      BY ONLY <1>4, <2>2 DEF Threads, AlbumPlaces
    <2>3. QED
      BY <2>1, <2>2
  <1>6. /\ d \in Databases /\ d.rows = db.rows /\ d.genre = db.genre /\ d.songs = db.songs
        /\ d.fresh = {} /\ d.freshSongs = {}
    BY <1>1 DEF Databases
  <1> HIDE DEF d, t
  <1>7. Closed(d)
    BY <1>1, <1>6 DEF Closed
  <1>8. TypeOK'
    <2>1. /\ server' \in Servers /\ db' \in Databases /\ txn' = NoTxn /\ thread' \in Threads /\ main' = Idle
          /\ excuse' \in BOOLEAN
      BY <1>1, <1>2, <1>3, <1>5, <1>6
    <2>2. changes' \in Nat /\ starts' \in Nat
      BY ONLY <1>1, <1>3 DEF TypeOK
    <2>3. QED
      BY ONLY <2>1, <2>2 DEF TypeOK
  <1>9. PlaceFits(t(recent)) /\ PageTells(server, main) /\ t(recent) # Stopped
    <2>1. t(recent).at \in {"ask songs", "ask albums"}
      BY <1>5
    <2>2. QED
      BY <1>1, <2>1, RunningThread DEF PlaceFits, PageTells
  <1>10. Undisturbed(server, d, t(recent))
    <2>1. FreshIsThere(server, d)
      BY <1>6 DEF FreshIsThere
    <2>2. CASE recent
      <3>1. SongWalk(server, d, t(recent))
        BY <1>1, <1>5, <2>2, SongsBegin
      <3>2. QED
        BY <1>5, <2>1, <2>2, <3>1 DEF Undisturbed, AlbumWalk, WholeWalk, AlbumPlaces
    <2>3. CASE ~recent
      <3> DEFINE list == Listing(server.albums)
      <3>1. Len(list) \in Nat /\ First(list, 0) = {} /\ 0 <= Len(list)
        <4>1. Len(list) \in Nat
          BY <1>1, AlbumList
        <4>2. First(list, 0) = {}
          BY FirstFacts
        <4> HIDE DEF list
        <4>3. QED
          BY ONLY <4>1, <4>2
      <3>2. Promised(server, {}, NoPromise)
        BY <1>4 DEF Promised
      <3>3. AlbumWalk(server, d, t(recent))
        BY <1>5, <2>3, <3>1, <3>2 DEF AlbumWalk
      <3>4. QED
        BY <1>5, <2>1, <2>3, <3>3 DEF Undisturbed, SongWalk, WholeWalk, SongPlaces
    <2>4. QED
      BY <2>2, <2>3
  <1>11. Seen' = d
    BY <1>1, <1>3 DEF Seen, NoTxn
  <1>12. TxnFits(txn, d, t(recent).at)
    BY <1>1, NoTransaction
  <1>13. QED
    BY <1>1, <1>2, <1>3, <1>7, <1>8, <1>9, <1>10, <1>11, <1>12 DEF StoreInv

LEMMA ServerChangeKeeps ==
  ASSUME StoreInv, ServerChange
  PROVE  StoreInv'
  <1>1. /\ server \in Servers /\ ServerFits(server) /\ changes \in Nat
        /\ excuse' = TRUE /\ changes' = changes + 1 /\ UNCHANGED <<db, txn, thread, main, starts>>
    BY DEF ServerChange, StoreInv, TypeOK
  <1>2. server' \in Servers /\ ServerFits(server')
    <2>1. ASSUME NEW a \in Albums,
                 server' = [server EXCEPT !.albums = @ \cup {a}, !.songs = @ \cup SongsOf(a), !.tagged = @ \cup {a}]
          PROVE  server' \in Servers /\ ServerFits(server')
      BY <1>1, <2>1 DEF Servers, ServerFits, SongsOf
    <2>2. ASSUME NEW a \in server.albums,
                 server' = [albums |-> server.albums \ {a}, songs |-> server.songs \ SongsOf(a),
                            tagged |-> server.tagged \ {a}]
          PROVE  server' \in Servers /\ ServerFits(server')
      BY <1>1, <2>2 DEF Servers, ServerFits, SongsOf
    <2>3. ASSUME NEW s \in server.songs, server' = [server EXCEPT !.songs = @ \ {s}]
          PROVE  server' \in Servers /\ ServerFits(server')
      BY <1>1, <2>3 DEF Servers, ServerFits
    <2>4. ASSUME NEW a \in server.tagged, server' = [server EXCEPT !.tagged = @ \ {a}]
          PROVE  server' \in Servers /\ ServerFits(server')
      BY <1>1, <2>4 DEF Servers, ServerFits
    <2>5. QED
      BY <2>1, <2>2, <2>3, <2>4 DEF ServerChange
  <1>3. TypeOK'
    <2>1. changes' \in Nat
      BY ONLY <1>1
    <2>2. QED
      BY <1>1, <1>2, <2>1 DEF StoreInv, TypeOK
  <1>4. db' = db /\ txn' = txn /\ thread' = thread /\ main' = main /\ excuse' = TRUE
    BY <1>1
  <1>5. IF thread' = Stopped THEN main' = Idle /\ txn' = NoTxn
        ELSE PlaceFits(thread') /\ TxnFits(txn', db', thread'.at)
    BY <1>4 DEF StoreInv
  <1>6. Closed(db') /\ PageFits(main')
    BY <1>4 DEF StoreInv
  <1>7. QED
    BY <1>2, <1>3, <1>4, <1>5, <1>6 DEF StoreInv

LEMMA StopKeeps ==
  ASSUME StoreInv, Stop
  PROVE  StoreInv'
BY DEF Stop, StoreInv, TypeOK, PageFits

LEMMA InitHolds ==
  ASSUME Init
  PROVE  StoreInv
  <1>1. NoRows \in Databases /\ Closed(NoRows)
    BY DEF NoRows, Databases, Closed
  <1>2. [albums |-> Albums, songs |-> Songs, tagged |-> Albums] \in Servers
    BY DEF Servers
  <1>3. ServerFits(server)
    BY StoreAssumption DEF Init, ServerFits
  <1>4. QED
    BY <1>1, <1>2, <1>3 DEF Init, StoreInv, TypeOK, PageFits

LEMMA NextKeeps ==
  ASSUME StoreInv, [Next]_vars
  PROVE  StoreInv'
  <1>1. CASE UNCHANGED vars
    <2>1. UNCHANGED <<server, db, txn, thread, main, excuse, changes, starts>>
      BY <1>1 DEF vars
    <2>2. Seen' = Seen /\ TypeOK'
      BY <2>1 DEF Seen, StoreInv, TypeOK
    <2>3. server' = server /\ db' = db /\ txn' = txn /\ thread' = thread /\ main' = main /\ excuse' = excuse
      BY <2>1
    <2>4. QED
      <3>1. ServerFits(server') /\ Closed(db') /\ PageFits(main')
        BY <2>3 DEF StoreInv
      <3>2. thread' = Stopped => main' = Idle /\ txn' = NoTxn
        BY <2>3 DEF StoreInv
      <3>3. ASSUME thread' # Stopped
            PROVE  /\ PlaceFits(thread') /\ TxnFits(txn', db', thread'.at)
                   /\ ~excuse' => PageTells(server', main') /\ Undisturbed(server', Seen', thread')
        BY <2>2, <2>3, <3>3 DEF StoreInv
      <3>4. QED
        BY <2>2, <3>1, <3>2, <3>3 DEF StoreInv
  <1>2. QED
    BY <1>1, StartKeeps, ThreadKeeps, MainKeeps, ServerChangeKeeps, StopKeeps DEF Next

\* Types, and what the thread has done so far.
THEOREM StoreInvariant == Spec => []StoreInv
  <1>1. Init => StoreInv
    BY InitHolds
  <1>2. StoreInv /\ [Next]_vars => StoreInv'
    BY NextKeeps
  <1>3. QED
    BY <1>1, <1>2, PTL DEF Spec

\* After a walk through everything that nothing disturbed, the database has what
\* the server has, and no page waits while the thread waits for albums
\* (initial_caching, preload_albums).
THEOREM StoreFollows == Spec => []StoreFollowsServer
  <1>1. StoreInv => StoreFollowsServer
    <2> SUFFICES ASSUME StoreInv PROVE CompleteAfterPreload /\ PagesCanWrite
      BY DEF StoreFollowsServer
    <2>1. CASE thread = Stopped
      <3>1. thread.at = "stopped"
        BY <2>1 DEF Stopped
      <3>2. QED
        BY <3>1 DEF CompleteAfterPreload, PagesCanWrite
    <2>2. CASE thread # Stopped
      <3>1. PagesCanWrite
        <4>1. thread.at \notin SongPlaces => txn = NoTxn
          BY <2>2, Running
        <4>2. thread.at = "ask albums" => ~txn.open
          BY ONLY <4>1, NoTransaction DEF SongPlaces
        <4>3. QED
          BY <4>2 DEF PagesCanWrite
      <3>2. ASSUME thread.at = "done", thread.walk, ~excuse
            PROVE  /\ db.rows = server.albums /\ db.songs = server.songs /\ db.genre = server.tagged
                   /\ {AlbumOf[s] : s \in db.songs} \subseteq db.rated
        <4>1. WholeWalk(server, db, thread) /\ ServerFits(server)
          BY <2>2, <3>2, Running DEF Undisturbed, SongPlaces
        <4>2. /\ db.rows = server.albums /\ db.genre = server.tagged /\ db.songs = server.songs
              /\ \A a \in server.albums : On(server, a) # {} => a \in db.rated
          BY <3>2, <4>1 DEF WholeWalk, On
        <4>3. ASSUME NEW s \in db.songs PROVE AlbumOf[s] \in db.rated
          <5>1. db \in Databases
            BY <2>2, Running
          <5>2. s \in On(server, AlbumOf[s])
            BY <4>2, <5>1 DEF On, SongsOf, Databases
          <5>3. QED
            BY <4>1, <4>2, <5>2 DEF ServerFits
        <4>4. QED
          BY <4>2, <4>3
      <3>3. QED
        BY <3>1, <3>2 DEF CompleteAfterPreload
    <2>3. QED
      BY <2>1, <2>2
  <1>2. QED
    BY <1>1, StoreInvariant, PTL

-----------------------------------------------------------------------------
(* What a step never does. *)

LEMMA AlbumsStoredRows ==
  ASSUME StoreInv, StoreAlbums, ~Overtaken
  PROVE  /\ (db.rated \ db'.rated) \cap db'.rows = {}
         /\ ~thread.short => db.rows \subseteq db'.rows /\ db'.songs = db.songs
         /\ thread.short => \A s \in db.songs : AlbumOf[s] \in db'.rows => s \in db'.songs
  <1> DEFINE A == Range(thread.page)
             e == StoredPage(db)
             f == prune_album_metadata(e)
  <1>1. thread.at = "store albums" /\ thread # Stopped
    BY RunningThread DEF StoreAlbums
  <1>2. Seen = db /\ PlaceFits(thread) /\ server \in Servers /\ db \in Databases /\ Closed(db)
    BY <1>1, Running DEF SongPlaces
  <1>3. thread.page \in Seq(Albums)
    BY <1>1, <1>2 DEF PlaceFits
  <1>4. db' = IF thread.short THEN f ELSE e
    BY ONLY <1>2, StoreAlbums, ~Overtaken DEF StoreAlbums, CommitPage
  <1>5. /\ e \in Databases
        /\ e.rows = db.rows \cup A /\ e.fresh = db.fresh \cup A /\ db.rated \subseteq e.rated
        /\ e.songs = db.songs
    BY ONLY <1>2, <1>3, PageSaved
  <1> HIDE DEF e, A
  <1>6. e.fresh \subseteq e.rows
    BY <1>2, <1>5 DEF Closed
  <1>7. /\ f.rows = e.fresh /\ f.rated = e.rated \ (e.rows \ e.fresh)
        /\ f.songs = {s \in e.songs : AlbumOf[s] \notin e.rows \ e.fresh}
    BY <1>5, <1>6, AlbumsPruned
  <1> HIDE DEF f
  <1>8. QED
    BY <1>2, <1>4, <1>5, <1>7 DEF Databases
LEMMA RatedIsKept ==
  ASSUME StoreInv, Next
  PROVE  RatedStays
  <1>0. db \in Databases /\ PageFits(main) /\ main \in {Idle} \cup Pages /\ server \in Servers
        /\ ServerFits(server) /\ Closed(db)
    BY DEF StoreInv, TypeOK
  <1>1. CASE Start
    BY <1>0, <1>1 DEF Start, RatedStays, Databases
  <1>2. CASE ThreadStep
    <2>1. CASE UNCHANGED db
      BY <2>1 DEF RatedStays
    <2>2. CASE StoreAlbums /\ ~Overtaken
      BY <2>2, AlbumsStoredRows DEF RatedStays
    <2>3. CASE StoreSong
      <3> DEFINE s == Head(thread.page)
                 e == save_song(Seen, s)
                 f == update_album_metadata_table(e, AlbumOf[s])
      <3>1. thread.at = "store song" /\ thread # Stopped
        BY <2>3, RunningThread DEF StoreSong
      <3>2. PlaceFits(thread) /\ Seen \in Databases /\ Seen.rated = db.rated
        BY <3>1, Running
      <3>3. s \in Songs /\ AlbumOf[s] \in Albums
        <4>1. thread.page \in Seq(Songs) /\ thread.page # <<>>
          BY <3>1, <3>2 DEF PlaceFits
        <4>2. QED
          BY <4>1, StoreAssumption
      <3>4. db' = db \/ db' = f
        BY <2>3 DEF StoreSong
      <3> HIDE DEF s
      <3>5. e \in Databases /\ e.rated = Seen.rated
        BY <3>2, <3>3, SongSaved
      <3> HIDE DEF e
      <3>6. f.rated = e.rated \cup {AlbumOf[s]}
        BY <3>3, <3>5, QualitySaved
      <3> HIDE DEF f
      <3>7. QED
        BY <3>2, <3>4, <3>5, <3>6 DEF RatedStays
    <2>4. CASE EndOfSongs
      <3> DEFINE gone == Seen.songs \ Seen.freshSongs
                 e == WithoutSongs(Seen, gone)
      <3>1. thread.at = "end of songs" /\ thread # Stopped
        BY <2>4, RunningThread DEF EndOfSongs
      <3>2. Seen \in Databases /\ Seen.rated = db.rated
        BY <3>1, Running
      <3>3. db' = e
        BY <2>4 DEF EndOfSongs, prune_song_metadata
      <3>4. e.rated = Seen.rated
        BY <3>2, SongsRemoved
      <3> HIDE DEF e
      <3>5. QED
        BY <3>2, <3>3, <3>4 DEF RatedStays
    <2>5. QED
      BY <1>2, <2>1, <2>2, <2>3, <2>4
         DEF ThreadStep, Fails, AskAlbums, ReadAlbum, StoreAlbums, AskSongs, ReadSong
  <1>3. CASE MainStep
    <2>1. CASE SaveMetadata
      <3> DEFINE e == save_album_metadata(db, {main.album}, SongProperties(main.songs))
      <3>1. main # Idle /\ main \in Pages
        BY <1>0, <2>1 DEF SaveMetadata, Idle
      <3>2. db.rated \subseteq e.rated
        BY <1>0, <3>1, RowSaved
      <3> HIDE DEF e
      <3>3. db' = e \/ db' = db
        BY <2>1 DEF SaveMetadata, e
      <3>4. QED
        BY <3>2, <3>3 DEF RatedStays
    <2>2. CASE CacheAlbum
      <3> DEFINE e == on_album(db, main.album, main.tagged, main.songs)
      <3>1. main # Idle /\ main \in Pages
        BY <1>0, <2>2 DEF CacheAlbum, Idle
      <3>2. db.rated \subseteq e.rated
        BY <1>0, <3>1, AlbumStored
      <3> HIDE DEF e
      <3>3. db' = e \/ db' = db
        BY <2>2 DEF CacheAlbum, e
      <3>4. QED
        BY <3>2, <3>3 DEF RatedStays
    <2>3. ASSUME NEW a \in Albums, AlbumNotFound(a) PROVE RatedStays
      <3> DEFINE A == {a}
                 e == WithoutAlbums(db, A)
      <3>1. db' = e /\ A \in SUBSET Albums /\ e = WithoutAlbums(db, A)
        BY <2>3 DEF AlbumNotFound
      <3> HIDE DEF A, e
      <3>2. e.rows = db.rows \ A /\ e.rated = db.rated \ A
        BY <1>0, <3>1, AlbumsRemoved
      <3>3. QED
        BY <3>1, <3>2 DEF RatedStays
    <2>4. CASE UNCHANGED db
      BY <2>4 DEF RatedStays
    <2>5. QED
      BY <1>3, <2>1, <2>2, <2>3, <2>4 DEF MainStep
  <1>4. CASE ServerChange \/ Stop
    BY <1>4 DEF ServerChange, Stop, RatedStays
  <1>5. QED
    BY <1>1, <1>2, <1>3, <1>4 DEF Next

LEMMA PrunedWasNotThere ==
  ASSUME StoreInv, Next
  PROVE  PrunedWasGone
  <1> SUFFICES ASSUME thread' # thread, ~excuse
               PROVE  /\ (db.rows \ db'.rows) \cap server.albums = {}
                      /\ (db.songs \ db'.songs) \cap server.songs = {}
    BY DEF PrunedWasGone
  <1>1. CASE Start
    <2>1. db \in Databases
      BY DEF StoreInv, TypeOK
    <2>2. db'.rows = db.rows /\ db'.songs = db.songs
      BY <1>1, <2>1 DEF Start, Databases
    <2>3. QED
      BY <2>2
  <1>2. CASE UNCHANGED db
    BY <1>2
  <1>3. CASE StoreAlbums /\ ~Overtaken
    <2>1. CASE ~thread.short
      BY <1>3, <2>1, AlbumsStoredRows
    <2>2. CASE thread.short
      <3>1. thread.at = "store albums" /\ thread # Stopped
        BY <1>3, RunningThread DEF StoreAlbums
      <3>2. thread \in Threads /\ thread.walk /\ ServerFits(server)
        BY <3>1, Running DEF Undisturbed, AlbumWalk, AlbumPlaces
      <3>3. thread'.at = "ask songs" /\ thread'.walk = thread.walk /\ server' = server /\ excuse' = excuse /\ txn' = txn
        BY <1>3, <2>2, <3>2 DEF StoreAlbums, CommitPage, Threads
      <3>4. StoreInv' /\ thread' # Stopped
        BY <1>3, <3>3, StoreAlbumsKeeps, RunningThread
      <3>5. WholeWalk(server', Seen', thread')
        BY <3>3, <3>4 DEF StoreInv, Undisturbed
      <3>6. Seen' = db'
        <4>1. txn = NoTxn
          BY <3>1, Running DEF SongPlaces
        <4>2. QED
          BY <3>3, <4>1 DEF Seen, NoTxn
      <3>7. db'.rows = server.albums
        BY <3>2, <3>3, <3>5, <3>6 DEF WholeWalk, SongPlaces
      <3>8. \A s \in db.songs : AlbumOf[s] \in db'.rows => s \in db'.songs
        BY <1>3, <2>2, AlbumsStoredRows
      <3>9. QED
        BY <3>2, <3>7, <3>8 DEF ServerFits
    <2>3. QED
      BY <2>1, <2>2
  <1>4. CASE StoreSong
    <2> DEFINE s == Head(thread.page)
               e == save_song(Seen, s)
               f == update_album_metadata_table(e, AlbumOf[s])
    <2>1. thread.at = "store song" /\ thread # Stopped
      BY <1>4, RunningThread DEF StoreSong
    <2>2. PlaceFits(thread) /\ Seen \in Databases /\ Seen.rows = db.rows /\ db.songs \subseteq Seen.songs
      BY <2>1, Running
    <2>3. s \in Songs /\ AlbumOf[s] \in Albums
      <3>1. thread.page \in Seq(Songs) /\ thread.page # <<>>
        BY <2>1, <2>2 DEF PlaceFits
      <3>2. QED
        BY <3>1, StoreAssumption
    <2>4. db' = db \/ db' = f
      BY <1>4 DEF StoreSong
    <2> HIDE DEF s
    <2>5. e \in Databases /\ e.rows = Seen.rows /\ e.songs = Seen.songs \cup {s}
      BY <2>2, <2>3, SongSaved
    <2> HIDE DEF e
    <2>6. f.rows = e.rows /\ f.songs = e.songs
      BY <2>3, <2>5, QualitySaved
    <2> HIDE DEF f
    <2>7. QED
      BY <2>2, <2>4, <2>5, <2>6
  <1>5. CASE EndOfSongs
    <2> DEFINE gone == Seen.songs \ Seen.freshSongs
               e == WithoutSongs(Seen, gone)
    <2>1. thread.at = "end of songs" /\ thread # Stopped
      BY <1>5, RunningThread DEF EndOfSongs
    <2>2. /\ Seen \in Databases /\ Seen.rows = db.rows /\ db.songs \subseteq Seen.songs
          /\ server \in Servers /\ Undisturbed(server, Seen, thread)
      BY <2>1, Running
    <2>3. db' = e
      BY <1>5 DEF EndOfSongs, prune_song_metadata
    <2>4. e.rows = Seen.rows /\ e.songs = Seen.songs \ gone
      BY <2>2, SongsRemoved
    <2> HIDE DEF e
    <2>5. \A q \in Seen.songs : q \in server.songs => q \in Seen.freshSongs
      BY <2>1, <2>2, MetAreMarked
    <2>6. QED
      BY <2>2, <2>3, <2>4, <2>5
  <1>6. CASE MainStep
    BY <1>6 DEF MainStep
  <1>7. QED
    BY <1>1, <1>2, <1>3, <1>4, <1>5, <1>6
       DEF Next, ThreadStep, Fails, AskAlbums, ReadAlbum, StoreAlbums, AskSongs, ReadSong, ServerChange, Stop

\* What the thread removes was not on the server, unless something else removed it
\* since the thread started, and no page and no walk loses the quality of an
\* album that stays (store_album_metadata, preload_albums, preload_songs).
THEOREM RowsStay == Spec => [][PrunedWasGone /\ RatedStays]_vars
  <1>1. StoreInv /\ [Next]_vars => [PrunedWasGone /\ RatedStays]_vars
    BY RatedIsKept, PrunedWasNotThere
  <1>2. QED
    BY <1>1, StoreInvariant, PTL DEF Spec
=============================================================================
