--------------------------- MODULE SubsonicSearch ----------------------------
(***************************************************************************)
(* The search of the Subsonic plugin for one value: albums, tracks,        *)
(* artists or playlists, by a title or by an artist.  It asks the server,  *)
(* or, for artists, the database; either may know less than the other.     *)
(* Names are told apart by where the value is in them.                     *)
(***************************************************************************)
EXTENDS Naturals, Sequences, FiniteSets, SequencesExt

CONSTANTS Artists, Albums, Songs, Playlists, \* numbers
          CreditsOf,    \* the artists of an album or a song, in order
          SongsOf,      \* of an album
          GenresOf,     \* of an album
          NameSets,     \* names the library may have: own, sort of artists; display, artist of albums; title of playlists
          AlbumLimit, SongLimit, \* of the configuration
          MaxFound,     \* what the server finds (20 of each kind in the code)
          NoName

VARIABLES names,   \* those of the library, on the server and in the rows
          preload, \* PRELOAD_ALBUMS
          db,      \* artists, albums, credited: which rows artist_metadata, album_metadata, album_artist have
          genres,  \* the cache of albums by genre
          shown    \* the answer to the last search

vars == <<names, preload, db, genres, shown>>

Limited(list, n) == SubSeq(list, 1, IF Len(list) < n THEN Len(list) ELSE n)
\* The loops that keep a set of the identifiers they met.
Once(list) == FoldLeft(LAMBDA met, x : IF x \in ToSet(met) THEN met ELSE Append(met, x), <<>>, list)
Only(list, S) == SelectSeq(list, LAMBDA x : x \in S)
UpTo(S, n) == UNION {[1..k -> S] : k \in 0..n}

-----------------------------------------------------------------------------
(* Ranks.  A name has the places ("same", "starts", "ends", "inside") that  *)
(* the value has in it as it is (exact), and without accents and cases      *)
(* (simple); lower: whether it is in it without cases.                      *)
Place == <<"same", "starts", "ends", "inside">>
SearchResultRank == 1..12
\* simplify() has removed the cases already: each third rank repeats the second.
is_match(rank, n) ==
  LET place == Place[((rank - 1) \div 3) + 1]
  IN IF rank % 3 = 1 THEN place \in n.exact ELSE place \in n.simple
Matches(ns) == {rank \in SearchResultRank : \E n \in ns : is_match(rank, n)}
RankOf(ns) == CHOOSE rank \in Matches(ns) : \A other \in Matches(ns) : rank <= other
\* The objects without a rank are left out, unless none has one.
sort_obj_by_rank(list, key) ==
  LET ranked == SelectSeq(list, LAMBDA x : Matches(key[x]) # {})
      Before(i, j) == \/ RankOf(key[ranked[i]]) < RankOf(key[ranked[j]])
                      \/ RankOf(key[ranked[i]]) = RankOf(key[ranked[j]]) /\ i < j
      order == SetToSortSeq(DOMAIN ranked, Before)
  IN IF ranked = <<>> THEN list ELSE [i \in DOMAIN order |-> ranked[order[i]]]
get_names == [a \in Artists |-> {names.own[a], names.sort[a]} \ {NoName}]
PlaylistName == [p \in Playlists |-> {names.title[p]}]

-----------------------------------------------------------------------------
(* The rows. *)
Fits(n) == n # NoName /\ n.simple # {}
Is(n) == n # NoName /\ "same" \in n.exact
CreditedFor(albums) ==
  {a \in Artists : \E b \in albums \cap db.albums \cap db.credited : a \in ToSet(CreditsOf.album[b])}
get_artist_id_list_by_display_name ==
  CreditedFor({b \in Albums : Is(names.display[b])}) \cup {a \in db.artists : Is(names.own[a]) \/ Is(names.sort[a])}
find_artist_metadata_by_name ==
  LET credited == CreditedFor({b \in Albums : Fits(names.display[b]) \/ Fits(names.artist[b])})
  IN {a \in db.artists : Fits(names.own[a]) \/ Fits(names.sort[a]) \/ a \in credited}

-----------------------------------------------------------------------------
(* The searches.  answer: what the server finds; rows: in which order the   *)
(* database lists; there: the artists and albums that the server loads.     *)
search_artist_by_artist_name(answer, rows, there) ==
  Once(answer.artists) \o SelectSeq(rows, LAMBDA a : a \notin ToSet(answer.artists) /\ a \in there.artists)
AlbumsOf(a) == SetToSortSeq({b \in Albums : a \in ToSet(CreditsOf.album[b])}, <)
AlbumsOfArtists(answer, rows, there) ==
  LET artists == Only(search_artist_by_artist_name(answer, rows, there), there.artists)
  IN Once(FlattenSeq([i \in DOMAIN artists |-> AlbumsOf(artists[i])]))
search_albums_by_artist(answer, rows, there) == Limited(AlbumsOfArtists(answer, rows, there), AlbumLimit)
search_songs_by_artist(answer, rows, there) ==
  LET albums == Only(AlbumsOfArtists(answer, rows, there), there.albums)
  IN Limited(Once(FlattenSeq([i \in DOMAIN albums |-> SongsOf[albums[i]]])), SongLimit)
search_albums_by_album_title(answer) == Limited(answer.albums, AlbumLimit)
search_songs_by_song_title(answer) == answer.songs

search_artist_by_name_using_db(rows) == Limited(sort_obj_by_rank(rows, get_names), AlbumLimit)
\* The artists of every artist, album and song found.
search_artist_by_name_using_api(answer, there) ==
  LET credits(kind, list) == FlattenSeq([i \in DOMAIN list |-> CreditsOf[kind][list[i]]])
  IN Only(Once(answer.artists \o credits("album", answer.albums) \o credits("song", answer.songs)), there.artists)
search_artist_by_name(answer, rows, there) ==
  IF preload THEN search_artist_by_name_using_db(rows) ELSE search_artist_by_name_using_api(answer, there)
search_playlists(there) ==
  IF there.playlists
  THEN sort_obj_by_rank(SetToSortSeq({p \in Playlists : names.title[p].lower}, <), PlaylistName)
  ELSE <<>>
sort_song_list(list) == SetToSortSeq(ToSet(list), <)

-----------------------------------------------------------------------------
(* One search: its kind and its field, either of which may be missing.     *)
Titles == {"track", "title"}
Kinds == {"album", "track", "artist", "playlist"}
Fields == {"album", "artist", "track", "title"}
Of(kind, field) == IF kind = NoName THEN field ELSE kind
ByArtistName(kind, field) == kind \in {"album", "track"} /\ field = "artist"
ForArtistNames(kind, field) == kind = "artist" /\ field \in Titles
\* The rows that the search reads, ...
RowsFor(kind, field) ==
  CASE ByArtistName(kind, field) -> get_artist_id_list_by_display_name
    [] ForArtistNames(kind, field) /\ preload -> find_artist_metadata_by_name
    [] OTHER -> {}
\* ... what it asks the server to find: artistCount, albumCount, songCount, ...
KindOf(what) == CASE what = "album" -> {"albums"} [] what \in Titles -> {"songs"} [] what = "artist" -> {"artists"} [] OTHER -> {}
AskedFor(kind, field) ==
  CASE kind = NoName \/ field = NoName -> KindOf(Of(kind, field))
    [] ByArtistName(kind, field) -> {"artists"}
    [] kind \in {"album", "track"} /\ field \in Titles -> KindOf(kind)
    [] ForArtistNames(kind, field) /\ ~preload -> {"artists", "albums", "songs"}
    [] OTHER -> {}
\* The server finds what it likes; an artist in its answer may repeat.
FoundOf(S, asked) == IF asked THEN UpTo(S, MaxFound) ELSE {<<>>}
Found(kinds) ==
  {f \in [artists : FoundOf(Artists, "artists" \in kinds),
          albums : {l \in FoundOf(Albums, "albums" \in kinds) : IsInjective(l)},
          songs : {l \in FoundOf(Songs, "songs" \in kinds) : IsInjective(l)}] :
     Len(f.artists) + Len(f.albums) + Len(f.songs) <= MaxFound}
\* ... and what it loads.
Loaded(kind, field) ==
  [artists : IF ByArtistName(kind, field) \/ (ForArtistNames(kind, field) /\ ~preload) THEN SUBSET Artists ELSE {Artists},
   albums : IF kind = "track" /\ field = "artist" THEN SUBSET Albums ELSE {Albums},
   playlists : IF kind = "playlist" THEN BOOLEAN ELSE {TRUE}]

\* What a search that names one of them only shows.
Plain(what, answer) ==
  CASE what = "album" -> answer.albums
    [] what \in Titles -> sort_song_list(answer.songs)
    [] what = "artist" -> answer.artists
    [] OTHER -> <<>>
Results(kind, field, answer, rows, there) ==
  CASE kind = "album" /\ field = "artist" -> search_albums_by_artist(answer, rows, there)
    [] kind = "album" /\ field \in Titles -> search_albums_by_album_title(answer)
    [] kind = "track" /\ field = "artist" -> search_songs_by_artist(answer, rows, there)
    [] kind = "track" /\ field \in Titles -> search_songs_by_song_title(answer)
    [] kind = "artist" /\ field \in Titles -> search_artist_by_name(answer, rows, there)
    [] kind = "playlist" /\ field \in Titles -> search_playlists(there)
    [] kind = NoName -> Plain(field, answer)
    [] field = NoName -> Plain(kind, answer)
    [] OTHER -> <<>>
NoAnswer == [kind |-> NoName, field |-> NoName, list |-> <<>>, there |-> {}]

\* An album that is shown gets a row, its artists do not; searched by the kind
\* only, it enters the cache of its genres.
search(kind, field, answer, rows, there) ==
  LET list == Results(kind, field, answer, rows, there)
      albums == IF Of(kind, field) = "album" THEN ToSet(list) ELSE {}
  IN /\ shown' = [kind |-> kind, field |-> field, list |-> list, there |-> there.artists]
     /\ db' = [db EXCEPT !.albums = @ \cup albums]
     /\ genres' = IF kind = "album" /\ field = NoName
                  THEN genres \cup {<<g, b>> \in (UNION {GenresOf[b] : b \in albums}) \X albums : g \in GenresOf[b]}
                  ELSE genres
Search ==
  /\ shown = NoAnswer
  /\ \E kind \in Kinds \cup {NoName}, field \in Fields \cup {NoName} :
       /\ <<kind, field>> # <<NoName, NoName>>
       /\ \E answer \in Found(AskedFor(kind, field)), rows \in SetToSeqs(RowsFor(kind, field)), there \in Loaded(kind, field) :
            search(kind, field, answer, rows, there)
  /\ UNCHANGED <<names, preload>>
\* The list is left; a request that fails shows none.
Leave ==
  /\ shown # NoAnswer /\ shown' = NoAnswer
  /\ UNCHANGED <<names, preload, db, genres>>

Init ==
  /\ names \in NameSets /\ preload \in BOOLEAN
  /\ \E artists \in SUBSET Artists, albums \in SUBSET Albums : db = [artists |-> artists, albums |-> albums, credited |-> albums]
  /\ genres = {} /\ shown = NoAnswer
Next == Search \/ Leave
Spec == Init /\ [][Next]_vars

-----------------------------------------------------------------------------
(* Properties. *)
Listed == ToSet(shown.list)
ByArtist == ByArtistName(shown.kind, shown.field)
ForArtists == ForArtistNames(shown.kind, shown.field)
\* However often the server and the database name an artist, an album or a
\* song, a search by an artist or for artists lists it once
\* (search_songs_by_artist, search_artist_by_name_using_api).
ListedOnce == ByArtist \/ ForArtists => IsInjective(shown.list)
\* An artist whose row has the value as its name is found though the server
\* does not find it: all of its albums are listed, up to the limit
\* (search_artist_by_artist_name, get_artist_id_list_by_display_name).
NamedArtistListed ==
  shown.kind = "album" /\ shown.field = "artist" /\ Len(shown.list) < AlbumLimit =>
    \A a \in db.artists \cap shown.there :
      Is(names.own[a]) \/ Is(names.sort[a]) => ToSet(AlbumsOf(a)) \subseteq Listed
\* Where names are ranked no better match follows or is cut off for a worse one,
\* and none that has the value in its own name gives way to one that has not
\* (sort_obj_by_rank).
Better(x, y) == Matches(x) # {} /\ (Matches(y) = {} \/ RankOf(x) < RankOf(y))
BestMatchesFirst ==
  /\ ForArtists /\ preload =>
       /\ \A i, j \in DOMAIN shown.list : i < j => ~Better(get_names[shown.list[j]], get_names[shown.list[i]])
       /\ \A a \in db.artists \ Listed :
            Matches(get_names[a]) # {} =>
              Len(shown.list) = AlbumLimit /\ \A x \in Listed : ~Better(get_names[a], get_names[x])
  /\ shown.kind = "playlist" =>
       \A i, j \in DOMAIN shown.list : i < j => ~Better(PlaylistName[shown.list[j]], PlaylistName[shown.list[i]])
=============================================================================
