---------------------------- MODULE SubsonicCovers ----------------------------
(***************************************************************************)
(* The covers that the pages of the Subsonic plugin show for an artist and *)
(* for the tags of the front page.  A cover is looked for in the database, *)
(* which holds what pages have saved so far, then on the server.  One      *)
(* artist with some albums; a cover stands for the thing it belongs to.    *)
(***************************************************************************)
EXTENDS Integers, FiniteSets

CONSTANTS Albums,      \* numbers: their order by date
          Own, NoArt   \* the artist's own cover; none

VARIABLES lib,       \* role and cover of every album, the artist's cover
          stored,    \* what has rows: artist, albums, songs of albums
          context,   \* the random albums that the front page has left
          shown      \* the last cover looked for, and the way

vars == <<lib, stored, context, shown>>

Roles == {"main", "singer", "guest", "none"}
Covers == {"none", "empty", "set"}
Role(x) == lib.role[x]
Cover(x) == lib.cover[x]
ArtOf(x) == IF Cover(x) = "set" THEN x ELSE NoArt
get_artist_cover_art == IF lib.own = "set" THEN Own ELSE NoArt

\* The rows that a query for the artist finds: NULL is left out, "" is not.
\* rank: the place of the subquery; songs of an album give way to the album.
Row(object, rank, cover) == [object |-> object, rank |-> rank, cover |-> cover]
ArtistRows == IF stored.artist /\ lib.own # "none" THEN {Row(Own, 1, lib.own)} ELSE {}
AlbumRows == {Row(x, 2, Cover(x)) : x \in {y \in stored.albums : Role(y) = "main" /\ Cover(y) # "none"}}
RankOf(x) == CASE Role(x) = "singer" -> 3 [] OTHER -> 4
\* Mutant of get_cover_art_list_by_artist_id_list: the songs of all artists.
RowsOfAnyone ==
  ArtistRows \cup AlbumRows
  \cup {Row(x, RankOf(x), Cover(x)) : x \in {y \in stored.songs : Cover(y) # "none"}}
get_cover_art_list_by_artist_id_list ==
  ArtistRows \cup AlbumRows
  \cup {Row(x, RankOf(x), Cover(x)) :
          x \in {y \in stored.songs : Role(y) # "none" /\ Cover(y) # "none" /\ ~(Role(y) = "main" /\ y \in stored.albums)}}
\* The first row of an artist or of an album, else any row of a song.
choose_artist_album_cover_art(rows) ==
  {r \in rows : \A q \in rows : r.rank <= q.rank}
ArtOfRow(r) == IF r.cover = "set" THEN r.object ELSE NoArt

as_main == {x \in Albums : Role(x) = "main"}
appears_on == {x \in Albums : Role(x) \in {"singer", "guest"}}
WithCover(albums) == {x \in albums : Cover(x) = "set"}
FirstArt(albums) ==
  IF WithCover(albums) = {} THEN NoArt
  ELSE CHOOSE x \in WithCover(albums) : \A y \in WithCover(albums) : x <= y

\* A result: the cover, and the album whose metadata it saves (0: none).
Found(art) == [art |-> art, saves |-> 0]
\* With PRELOAD_SONGS the server is not asked.
FromServer(answered) ==
  IF ~answered THEN Found(NoArt)
  ELSE IF get_artist_cover_art # NoArt THEN Found(get_artist_cover_art)
  ELSE LET art == FirstArt(IF as_main # {} THEN as_main ELSE appears_on)
       IN [art |-> art, saves |-> IF art = NoArt THEN 0 ELSE art]
get_album_cover_art_by_artist_id(skip, answered) ==
  LET rows == {r \in get_cover_art_list_by_artist_id_list : r.cover = "set"}
  IN IF ~skip /\ stored.artist /\ lib.own = "set" THEN {Found(Own)}
     ELSE IF rows # {} THEN {Found(ArtOfRow(r)) : r \in rows}
     ELSE {FromServer(answered)}
get_album_cover_art_uri_by_artist(answered) ==
  IF get_artist_cover_art # NoArt THEN {Found(get_artist_cover_art)}
  ELSE IF FirstArt(as_main) # NoArt THEN {Found(FirstArt(as_main))}
  ELSE IF FirstArt(appears_on) # NoArt THEN {Found(FirstArt(appears_on))}
  ELSE get_album_cover_art_by_artist_id(FALSE, answered)

-----------------------------------------------------------------------------
Nothing == [way |-> "none", answered |-> TRUE, art |-> NoArt]
Show(way, answered, results) ==
  \E r \in results :
    /\ shown' = [way |-> way, answered |-> answered, art |-> r.art]
    /\ stored' = IF r.saves = 0 THEN stored ELSE [stored EXCEPT !.albums = @ \cup {r.saves}]
    /\ UNCHANGED lib

\* artist_to_entry_raw(), a role, an initial; the Next entry; a list of artists.
ShowArtist(answered) ==
  \E skip \in BOOLEAN : Show("artist", answered, get_album_cover_art_by_artist_id(skip, answered)) /\ context' = {}
ShowNext(answered) == Show("artist", answered, get_album_cover_art_uri_by_artist(answered)) /\ context' = {}
ListArtists ==
  LET rows == get_cover_art_list_by_artist_id_list
  IN /\ Show("list", TRUE, IF rows = {} THEN {Found(NoArt)}
                           ELSE {Found(ArtOfRow(r)) : r \in choose_artist_album_cover_art(rows)})
     /\ context' = {}

\* What a tag of the front page shows.
Tag(results) == Show("tag", TRUE, results)
Random(results) == Show("random", TRUE, results)
random_list == IF context = {} THEN Albums ELSE context
random_albums == IF WithCover(Albums) = {} THEN {NoArt} ELSE WithCover(Albums)
\* consume_random_album_for_cover_art(): "" is taken for a cover.
ConsumeRandom ==
  IF \A x \in random_list : Cover(x) = "none"
  THEN Random({Found(a) : a \in random_albums}) /\ context' = {}
  ELSE \E x \in random_list : \E skipped \in SUBSET {y \in random_list : Cover(y) = "none"} :
         /\ Cover(x) # "none"
         /\ Random({Found(ArtOf(x))})
         /\ context' = random_list \ ({x} \cup skipped)
\* A tag of a group shows the same: the cover of a favourite is looked for and dropped.
random_albums_art_retriever == ConsumeRandom
\* The lists of the server with one album, or with a page of them.
listed_albums_art_retriever ==
  Tag({Found(FirstArt(list)) : list \in SUBSET Albums}) /\ UNCHANGED context
favourite_albums_art_retriever ==
  LET shows(starred) == IF WithCover(starred) # {} THEN WithCover(starred) ELSE random_albums
  IN Tag({Found(a) : a \in UNION {shows(starred) : starred \in SUBSET Albums}}) /\ UNCHANGED context
\* A favourite without a cover shows none.
favourite_artist_art_retriever ==
  /\ Tag(IF get_artist_cover_art # NoArt THEN {Found(Own)} ELSE get_album_cover_art_by_artist_id(FALSE, TRUE))
  /\ UNCHANGED context
favourite_song_retriever == Tag({Found(ArtOf(x)) : x \in Albums}) /\ UNCHANGED context

\* Pages and the caching thread save rows.
Saved(rows) == stored' = rows /\ shown' = Nothing /\ context' = {} /\ UNCHANGED lib
SaveArtist == Saved([stored EXCEPT !.artist = TRUE])
SaveAlbum(x) == Saved([stored EXCEPT !.albums = @ \cup {x}])
SaveSongs(x) == Saved([stored EXCEPT !.songs = @ \cup {x}])

Init ==
  /\ lib \in [role : [Albums -> Roles], cover : [Albums -> Covers], own : Covers]
  /\ stored = [artist |-> FALSE, albums |-> {}, songs |-> {}]
  /\ context = {}
  /\ shown = Nothing
execute_art_retriever ==
  \/ random_albums_art_retriever \/ listed_albums_art_retriever
  \/ favourite_albums_art_retriever \/ favourite_artist_art_retriever \/ favourite_song_retriever
Next ==
  \/ \E answered \in BOOLEAN : ShowArtist(answered) \/ ShowNext(answered)
  \/ ListArtists \/ execute_art_retriever
  \/ SaveArtist \/ \E x \in Albums : SaveAlbum(x) \/ SaveSongs(x)
Spec == Init /\ [][Next]_vars

-----------------------------------------------------------------------------
(* Properties. *)

\* An artist is shown with its own cover or with that of an album it has a part
\* in (the seven subqueries of get_cover_art_list_by_artist_id_list).
CoverBelongs ==
  shown.way \in {"artist", "list"} => shown.art \in {NoArt, Own} \cup as_main \cup appears_on

\* An artist whose own cover or one of whose albums has a cover is not shown
\* without one: as long as the server is asked and answers, and with the songs
\* preloaded once something of it is stored.  A random album is not shown without
\* one when another has a cover, unless it is "" (get_album_cover_art_by_artist_id,
\* consume_random_album_for_cover_art).
NotBlank ==
  shown.art = NoArt =>
    /\ shown.way = "artist" =>
         /\ ~shown.answered \/ (lib.own # "set" /\ WithCover(as_main) = {})
         /\ WithCover(as_main \cap stored.albums) = {}
    /\ shown.way = "random" => WithCover(Albums) = {} \/ \E x \in Albums : Cover(x) = "empty"

\* A list prefers the artist's own cover to an album of the artist, and that to
\* one the artist only takes part in (choose_artist_album_cover_art).
PrefersOwn ==
  shown.way = "list" /\ shown.art \notin {NoArt, Own} =>
    /\ ~(lib.own = "set" /\ stored.artist)
    /\ shown.art \in as_main \/ WithCover(as_main \cap stored.albums) = {}

=============================================================================
