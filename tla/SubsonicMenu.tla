---------------------------- MODULE SubsonicMenu ----------------------------
(***************************************************************************)
(* The menus of the Subsonic plugin.  Every entry of a page carries an     *)
(* identifier: the handler that opens it, a value and further keys.        *)
(* browse() decodes it, looks the handler up and shows the page that it    *)
(* builds from what the server answers and from the plugin's database,     *)
(* where the pages of an artist and of an album keep what they showed.     *)
(* One artist with an album, a song, a playlist and a radio station.       *)
(***************************************************************************)
EXTENDS Naturals

VARIABLES lib,      \* what the library holds and the configuration allows
          gone,     \* what the server has no more
          store,    \* the things with metadata in the database
          here,     \* the identifier whose page is shown
          page,     \* the identifiers of its entries
          raised,   \* the handler raised an exception
          answered  \* the server answered every request of this page

vars == <<lib, gone, store, here, page, raised, answered>>

Thing == {"artist", "album", "song", "playlist", "station"}
Features == {"contributors", "guests", "crowd", "types", "appearances", "twins",
             "versions", "discs", "mixed", "preload", "favorites", "paginated", "flat"}
\* The libraries and configurations considered: everything, nothing, one feature, all but one
\* of those that hide another (which only add entries, alone or not).
Hiding == {"crowd", "discs", "mixed", "versions", "flat"}
Libraries == {{}, Features} \cup {{f} : f \in Features} \cup {Features \ {f} : f \in Hiding}
\* What the server says to the requests of a page: that it holds the thing asked
\* for (get), the rest (ask), that there is a further page, a list not empty.
Answers == SUBSET {"get", "ask", "more", "some"}

\* An identifier: handler, kind of its value and its keys; arg is the value of
\* the key that tells two of them apart.
Link(to, of) == [to |-> to, of |-> of, keys |-> {}, arg |-> "none"]
Keyed(link, key, value) == [link EXCEPT !.keys = @ \cup {key}, !.arg = value]
WithKeys(link, keys) == [link EXCEPT !.keys = @ \cup keys]
Links(targets, of) == {Link(to, of) : to \in targets}
Tags(names) == {Link("TAG", name) : name \in names}
Has(feature, links) == IF feature \in lib THEN links ELSE {}
If(condition, links) == IF condition THEN links ELSE {}

Shows(s, links) == [store |-> s, links |-> links, raised |-> FALSE]
Raises(s) == [store |-> s, links |-> {}, raised |-> TRUE]
Nothing(s) == Shows(s, {})

try_get(thing, w) == thing \notin gone /\ "get" \in w
\* Mutant of delete_metadata: the metadata stays.
NoDelete(s, thing) == s
delete_metadata(s, thing) == s \ {thing}
save_metadata(s, thing) == s \cup {thing}
next_entry(link, keys, w) == If("more" \in w, {[link EXCEPT !.keys = keys \cup {"OFFSET"}]})

-----------------------------------------------------------------------------
(* The entries.  A listed album gets metadata. *)
artist_to_entry == {Link("ARTIST", "artist")}
artist_of_album == {Keyed(Link("ARTIST", "artist"), "ALBUM_ID_REF_FOR_ARTIST", "album")}
genre_artist_to_entry == artist_to_entry
album_to_entry == {Link("ALBUM", "album")}
album_to_navigable_entry(keys) == {WithKeys(Link("NAVIGABLE_ALBUM", "album"), keys)}
AlbumEntry(keys) == IF "flat" \in lib THEN album_to_entry ELSE album_to_navigable_entry(keys)
song_to_entry == {Link("SONG", "song")}
song_to_song_entry(navigable) ==
  {Link(IF navigable THEN "SONG_ENTRY_NAVIGABLE" ELSE "SONG_ENTRY_THE_SONG", "song")}
playlist_to_entry == {Link("PLAYLIST", "playlist")}
station_to_entry == {Link("INTERNET_RADIO", "station")}
genre_to_entry == {Link("GENRE", "genre")}
artist_initial_to_entry == {Link("ARTIST_BY_INITIAL", "initial")}
album_version_to_entry == {Keyed(Link("ALBUM_VERSION", "album"), "ALBUM_VERSION_PATH_BASE64", "path")}
album_disc_entry(keys) == {WithKeys(Link("ALBUM_DISC", "album"), {"ALBUM_DISC_NUMBERS"} \cup keys)}
artist_radio_entries(of) == Links({"RADIO", "RADIO_SONG_LIST"}, of)
ShowsAlbums(s, links) == Shows(IF links = {} THEN s ELSE save_metadata(s, "album"), links)

-----------------------------------------------------------------------------
(* The page of an artist and what it leads to. *)
create_artist_albums_entries ==
  {Link("ARTIST_ALBUMS", "artist")}
  \cup Has("types", {Keyed(Link("ARTIST_ALBUMS", "artist"), "ALBUM_RELEASE_TYPE", "type")})
  \cup Has("appearances", {Link("ARTIST_APPEARANCES", "artist")})
add_artist_albums_by_title ==
  Has("twins", Links({"ARTIST_ALBUMS_WITH_DUPLICATE_TITLES",
                      "ARTIST_ALBUMS_WITH_DUPLICATE_TITLE_VERSION_PAIR"}, "artist"))

\* The selection of the album's songs comes before the artist is asked for.
song_selection(l, w) ==
  If("ALBUM_ID_REF_FOR_ARTIST" \in l.keys /\ "contributors" \in lib /\ try_get("album", w),
     {Keyed(Link("ALBUM_SONG_SELECTION_BY_ARTIST", "artist"), "ALBUM_ID_REF_FOR_ARTIST", "album")})
handler_element_artist(s, l, w) ==
  IF ~try_get("artist", w) THEN Shows(delete_metadata(s, "artist"), song_selection(l, w))
  ELSE Shows(save_metadata(s, "artist"),
         song_selection(l, w)
         \cup If("some" \in w, artist_to_entry)            \* others of the same name
         \cup create_artist_albums_entries \cup add_artist_albums_by_title
         \cup {Link("ARTIST_FOCUS", "artist")})

\* A failure shows no album; Next forgets the release type.
handler_element_artist_albums(s, l, w) ==
  IF ~try_get("artist", w) THEN Nothing(s)
  ELSE ShowsAlbums(s, AlbumEntry({"SKIP_ARTIST_ID"}) \cup next_entry(Link(l.to, l.of), {}, w))
handler_artist_appearances(s, l, w) ==
  IF ~try_get("artist", w) THEN Nothing(s)
  ELSE ShowsAlbums(s, AlbumEntry({"SKIP_ARTIST_ID"}) \cup next_entry(l, {}, w))

TitleKeys(to) == IF to \in {"ARTIST_ALBUMS_WITH_DUPLICATE_TITLES", "ARTIST_ALBUMS_FILTERED_BY_TITLE"}
                 THEN {"ALBUM_TITLE"} ELSE {"ALBUM_TITLE", "ALBUM_VERSION"}
ByTitle(to) == IF to = "ARTIST_ALBUMS_WITH_DUPLICATE_TITLES" THEN "ARTIST_ALBUMS_FILTERED_BY_TITLE"
               ELSE "ARTIST_ALBUMS_FILTERED_BY_TITLE_VERSION"
handler_element_albums_with_duplicate_titles(s, l, w) ==
  IF ~try_get("artist", w) THEN Nothing(delete_metadata(s, "artist"))
  ELSE Shows(s, Has("twins", {WithKeys(Link(ByTitle(l.to), "artist"), TitleKeys(l.to))}))
handler_element_artist_albums_filtered_by_title(s, l, w) ==
  IF ~try_get("artist", w) THEN Nothing(delete_metadata(s, "artist")) ELSE ShowsAlbums(s, album_to_entry)

\* Top songs may fail, similar artists may not.
create_artist_top_songs_entry(w) ==
  If({"ask", "some"} \subseteq w, Links({"ARTIST_TOP_SONGS", "ARTIST_TOP_SONGS_LIST"}, "artist"))
create_similar_artists_entry(w) == If("some" \in w, {Link("ARTIST_SIMILAR", "artist")})
ArtistKnown(w) == "artist" \notin gone /\ "ask" \in w     \* getArtistInfo
Focus(s, of, w) ==
  IF ~try_get(of, w) THEN Nothing(s)
  ELSE IF ~ArtistKnown(w) THEN Raises(s)
  ELSE Shows(s, create_artist_top_songs_entry(w) \cup create_similar_artists_entry(w)
                \cup artist_radio_entries(of))
handler_element_artist_focus(s, w) == Focus(s, "artist", w)
handler_element_album_focus(s, w) == Focus(s, "album", w)
handler_element_similar_artists(s, w) == IF ArtistKnown(w) THEN Shows(s, artist_to_entry) ELSE Raises(s)
handler_element_artist_top_songs_common(s, l, w) ==
  IF ~try_get("artist", w) \/ "ask" \notin w THEN Raises(s)
  ELSE Shows(s, If("some" \in w, IF l.to = "ARTIST_TOP_SONGS_LIST" THEN song_to_entry
                                 ELSE song_to_song_entry(TRUE)))
handler_radio(s, l, w) ==
  IF l.of \in gone \/ "ask" \notin w THEN Raises(s)
  ELSE Shows(s, If("some" \in w, IF l.to = "RADIO" THEN song_to_song_entry(TRUE) ELSE song_to_entry))

-----------------------------------------------------------------------------
(* The page of an album. *)
create_entries_for_album_additional_artists(l) == If("SKIP_ARTIST_ID" \notin l.keys, artist_of_album)
AlbumArtists(l, w) ==
  IF "crowd" \in lib THEN If(try_get("artist", w), artist_to_entry)
                          \cup {Link("ADDITIONAL_ALBUM_ARTISTS", "album")}
  ELSE create_entries_for_album_additional_artists(l) \cup Has("guests", artist_of_album)
handler_element_navigable_album(s, l, w) ==
  IF ~try_get("album", w) THEN Nothing(delete_metadata(s, "album"))
  ELSE ShowsAlbums(s, album_to_entry \cup AlbumArtists(l, w) \cup {Link("ALBUM_FOCUS", "album")})
handler_additional_album_artists(s, l, w) ==
  IF ~try_get("album", w) THEN Nothing(s) ELSE Shows(s, artist_of_album \cup next_entry(l, {}, w))
handler_album_song_selection_by_artist(s, w) ==
  IF ~try_get("album", w) THEN Nothing(s) ELSE Shows(s, song_to_entry)

\* Discs are containers of the album or of one version of it.
present_album_version(s, keys) ==
  Shows(s, IF "discs" \in lib THEN album_disc_entry(keys) ELSE song_to_entry)
handler_element_album(s, w) ==
  IF ~try_get("album", w) THEN Nothing(delete_metadata(s, "album"))
  ELSE IF "mixed" \in lib THEN Shows(s, song_to_entry)
  ELSE IF "versions" \in lib THEN Shows(s, album_version_to_entry)
  ELSE present_album_version(s, {})
handler_element_album_version(s, l, w) ==
  IF ~try_get("album", w) THEN Nothing(s)
  ELSE present_album_version(s, l.keys \cap {"ALBUM_VERSION_PATH_BASE64"})
handler_element_album_disc(s, w) == IF ~try_get("album", w) THEN Nothing(s) ELSE Shows(s, song_to_entry)

-----------------------------------------------------------------------------
(* Songs, playlists and stations. *)
handler_element_song(s, w) == IF try_get("song", w) THEN Shows(s, song_to_entry) ELSE Raises(s)
handler_element_song_entry_song(s, w) == Shows(s, If(try_get("song", w), song_to_entry))
handler_element_song_entry(s, w) ==
  IF ~try_get("song", w) \/ ~try_get("album", w) THEN Raises(s)
  ELSE ShowsAlbums(s, song_to_song_entry(FALSE) \cup album_to_entry
                      \cup If(try_get("artist", w), artist_to_entry))
create_list_of_playlist_entries(s, w) == Shows(s, If(try_get("playlist", w), song_to_entry))
handler_element_radio_station(s, w) ==
  IF try_get("station", w) THEN Shows(s, station_to_entry) ELSE Raises(s)
handler_element_favorite_songs_container(s, w) == Shows(s, If("ask" \in w, song_to_entry))
handler_element_favorite_songs_as_containers(s, w) ==
  Shows(s, If("ask" \in w,
    {WithKeys(Link("FAVORITE_SONGS_CONTAINER", "favorites"), {"OFFSET"})}
    \cup next_entry(Link("FAVORITE_SONGS_AS_CONTAINERS", "favorites"), {}, w)))
get_random_songs(s, l, w) ==
  IF "ask" \notin w THEN Raises(s) ELSE Shows(s, song_to_song_entry(TRUE)
                                        \cup If("more" \in w, {Keyed(Link("NEXT_RANDOM_SONGS", "random"),
                                                                   "SONG_AS_NAVIGABLE_ENTRY", "True")}))

-----------------------------------------------------------------------------
(* Genres, initials and roles. *)
handler_element_genre(s) ==
  Shows(s, {Keyed(Link("GENRE_ARTIST_LIST", "genre"), "GENRE_NAME", "genre"),
            WithKeys(Link("GENRE_ALBUM_LIST", "genre"), {"OFFSET"})})
handler_element_genre_artists(s, l, w) ==
  IF "ask" \notin w THEN Raises(s)
  ELSE Shows(s, genre_artist_to_entry \cup next_entry(l, {"GENRE_NAME"}, w))
handler_element_genre_artist(s, w) ==
  IF ~try_get("artist", w) THEN Raises(s)
  ELSE Shows(s, artist_to_entry \cup {Keyed(Link("GENRE_ARTIST_ALBUMS", "artist"), "GENRE_NAME", "genre")})
handler_element_genre_artist_albums(s, l, w) ==
  IF ~try_get("artist", w) THEN Raises(s)
  ELSE ShowsAlbums(s, album_to_entry \cup next_entry(l, {"GENRE_NAME"}, w))
AlbumsByGenre(l, w) == AlbumEntry({}) \cup next_entry(l, {}, w)
handler_element_genre_album_list(s, l, w) ==
  IF "ask" \notin w THEN Nothing(s) ELSE ShowsAlbums(s, AlbumsByGenre(l, w))
handler_element_artists_by_initial(s, l, w) ==
  Shows(s, If("ask" \in w, artist_to_entry \cup next_entry(l, {}, w)))
handler_element_artist_role(s) ==
  Shows(s, {Keyed(Link("ARTIST_ROLE_INITIAL", "initial"), "ARTIST_ROLE", "role")})
handler_element_artist_role_initial(s, l, w) ==
  Shows(s, artist_to_entry \cup next_entry(l, {"ARTIST_ROLE"}, w))

-----------------------------------------------------------------------------
(* The album browser: conditions on the properties of the albums, one by one. *)
handler_tag_album_browser(s, w) ==
  Shows(s, If("some" \in w, {Link("ALBUM_BROWSE_FILTER_KEY", "key")}))
\* Mutant of handler_album_browse_filter_key: the selection made so far is lost.
NextValuesOfNoSelection(s, l, w) ==
  Shows(s, {WithKeys(Link("ALBUM_BROWSE_FILTER_VALUE", "value"),
                     {"ALBUM_BROWSE_FILTER_KEY", "ALBUM_BROWSE_SELECTION_LIST"})}
           \cup next_entry(l, {}, w))
handler_album_browse_filter_key(s, l, w) ==
  Shows(s, {WithKeys(Link("ALBUM_BROWSE_FILTER_VALUE", "value"),
                     {"ALBUM_BROWSE_FILTER_KEY", "ALBUM_BROWSE_SELECTION_LIST"})}
           \cup next_entry(l, {"ALBUM_BROWSE_SELECTION_LIST"}, w))
handler_album_browse_filter_value(s, w) ==
  Shows(s, {Link("ALBUM_BROWSE_MATCHING_ALBUMS", "selection")}
           \cup If("some" \in w, {WithKeys(Link("ALBUM_BROWSE_FILTER_KEY", "key"),
                                          {"ALBUM_BROWSE_SELECTION_LIST"})}))
\* Of the matching albums, those with metadata that the server still has.
handler_element_matching_albums(s, l, w) ==
  Shows(s, If("album" \in s /\ try_get("album", w), AlbumEntry({}) \cup next_entry(l, {}, w)))

-----------------------------------------------------------------------------
(* The tags. *)
GroupAlbums == {"NEWEST_ALBUMS", "OLDEST_ALBUMS", "RECENTLY_ADDED_ALBUMS", "RECENTLY_PLAYED_ALBUMS",
                "HIGHEST_RATED_ALBUMS", "MOST_PLAYED_ALBUMS", "ALPHABETICAL_BY_NAME_ALBUMS",
                "ALPHABETICAL_BY_ARTIST_ALBUMS", "RANDOM"}
UnsortedArtists == {"ALL_ARTISTS_UNSORTED", "ALL_ALBUM_ARTISTS_UNSORTED",
                    "ALL_COMPOSERS_UNSORTED", "ALL_CONDUCTORS_UNSORTED"}
get_group_artists_item_list ==
  IF "preload" \in lib THEN {"ARTIST_ROLES"}
  ELSE {"ALL_ARTISTS", "ALL_ARTISTS_INDEXED"} \cup UnsortedArtists
FavoriteSongsTags == {"FAVORITE_SONGS_LIST"} \cup Has("paginated", {"FAVORITE_SONGS"})

\* The starred items are asked for by all three groups.  An answer that failed
\* holds nothing: the two that test isOk without calling it stumble over that.
handler_tag_group_albums(s, w) ==
  IF "ask" \notin w THEN Raises(s)
  ELSE Shows(s, Tags(GroupAlbums \cup Has("preload", {"ALBUM_BROWSER"})
                     \cup Has("favorites", {"FAVORITE_ALBUMS"})))
\* Raises when no album has a cover.
handler_tag_group_artists(s, w) ==
  IF ~{"ask", "some"} \subseteq w THEN Raises(s)
  ELSE Shows(s, Tags(get_group_artists_item_list \cup Has("favorites", {"FAVORITE_ARTISTS"})))
handler_tag_group_songs(s, w) ==
  IF "ask" \notin w THEN Raises(s)
  ELSE Shows(s, Tags({"RANDOM_SONGS_LIST", "RECENTLY_PLAYED_SONGS"} \cup Has("favorites", FavoriteSongsTags)))

handler_tag_album_listype(s, l, w) ==
  IF "ask" \notin w THEN Nothing(s)
  ELSE ShowsAlbums(s, If("some" \in w, AlbumEntry({}) \cup next_entry(l, {}, w)))
\* The artists with a role, from pages of a search that names none.
handle_tag_all_artists_unsorted_by_role(s, l, w) ==
  IF "ask" \notin w THEN Raises(s) ELSE Shows(s, artist_to_entry \cup next_entry(l, {}, w))
handler_tag_favourite_artists(s, l, w) ==
  IF "ask" \notin w THEN Raises(s)
  ELSE Shows(s, Has("favorites", artist_to_entry) \cup next_entry(l, {}, w))
handler_tag_all_artists_indexed(s, w) == Shows(s, If("ask" \in w, artist_initial_to_entry))
handler_tag_artist_roles(s) == Shows(s, {Link("ARTIST_ROLE", "role")})
create_entries_for_genres(s, w) == Shows(s, If("ask" \in w, genre_to_entry))
create_list_of_playlist(s, w) == Shows(s, If("ask" \in w, playlist_to_entry))
create_list_of_internet_radio(s, w) == Shows(s, If("ask" \in w, station_to_entry))
handler_tag_random_songs_list(s, w) == Shows(s, If("ask" \in w, song_to_entry))
handler_tag_recently_played_songs(s, w) == Shows(s, If({"ask", "get"} \subseteq w, song_to_entry))
\* The key is set on the identifier that was opened, where it must not be yet.
handler_tag_favourite_songs(s, l, w) ==
  IF "ask" \notin w \/ "SONG_AS_NAVIGABLE_ENTRY" \in l.keys THEN Raises(s)
  ELSE Shows(s, song_to_song_entry(FALSE) \cup next_entry(l, {}, w))
\* Too many songs for a page are shown in containers.
handler_tag_favourite_songs_list(s, w) ==
  IF {"ask", "more"} \subseteq w THEN handler_element_favorite_songs_as_containers(s, w)
  ELSE Shows(s, If("ask" \in w, song_to_entry))

TagNames == GroupAlbums \cup UnsortedArtists \cup
  {"ALBUMS", "ARTISTS", "SONGS", "FAVORITE_ALBUMS", "GENRES", "ARTIST_ROLES", "ALL_ARTISTS",
   "ALL_ARTISTS_INDEXED", "FAVORITE_ARTISTS", "PLAYLISTS", "INTERNET_RADIOS", "RANDOM_SONGS_LIST",
   "FAVORITE_SONGS", "FAVORITE_SONGS_LIST", "RECENTLY_PLAYED_SONGS", "ALBUM_BROWSER"}
tag_enabled_in_initial_page == {"ALBUMS", "ARTISTS", "SONGS", "GENRES", "PLAYLISTS"}
tag_playlists_precondition(w) == {"ask", "some"} \subseteq w
show_tag_entries(w) ==
  Tags(IF "flat" \in lib THEN TagNames        \* every tag enabled by the configuration
       ELSE {tag \in tag_enabled_in_initial_page : tag = "PLAYLISTS" => tag_playlists_precondition(w)})
Tag(s, l, w) ==
  CASE l.of \in GroupAlbums \cup {"FAVORITE_ALBUMS"} -> handler_tag_album_listype(s, l, w)
    [] l.of \in UnsortedArtists \cup {"ALL_ARTISTS"} -> handle_tag_all_artists_unsorted_by_role(s, l, w)
    [] l.of = "ALBUMS" -> handler_tag_group_albums(s, w)
    [] l.of = "ARTISTS" -> handler_tag_group_artists(s, w)
    [] l.of = "SONGS" -> handler_tag_group_songs(s, w)
    [] l.of = "GENRES" -> create_entries_for_genres(s, w)
    [] l.of = "ARTIST_ROLES" -> handler_tag_artist_roles(s)
    [] l.of = "ALL_ARTISTS_INDEXED" -> handler_tag_all_artists_indexed(s, w)
    [] l.of = "FAVORITE_ARTISTS" -> handler_tag_favourite_artists(s, l, w)
    [] l.of = "PLAYLISTS" -> create_list_of_playlist(s, w)
    [] l.of = "INTERNET_RADIOS" -> create_list_of_internet_radio(s, w)
    [] l.of = "RANDOM_SONGS_LIST" -> handler_tag_random_songs_list(s, w)
    [] l.of = "FAVORITE_SONGS" -> handler_tag_favourite_songs(s, l, w)
    [] l.of = "FAVORITE_SONGS_LIST" -> handler_tag_favourite_songs_list(s, w)
    [] l.of = "RECENTLY_PLAYED_SONGS" -> handler_tag_recently_played_songs(s, w)
    [] l.of = "ALBUM_BROWSER" -> handler_tag_album_browser(s, w)

-----------------------------------------------------------------------------
(* Search, by kind. *)
SearchPage(s, kind, w) ==
  IF "ask" \notin w THEN IF kind = "playlist" THEN Nothing(s) ELSE Raises(s)
  ELSE CASE kind = "album" -> ShowsAlbums(s, AlbumEntry({}))
         [] kind = "artist" -> Shows(s, If(try_get("artist", w), artist_to_entry))
         [] kind = "song" -> Shows(s, song_to_entry)
         [] kind = "playlist" -> Shows(s, playlist_to_entry)

-----------------------------------------------------------------------------
(* browse(): the handler of an identifier. *)
ByArtistTitles == {"ARTIST_ALBUMS_WITH_DUPLICATE_TITLES", "ARTIST_ALBUMS_WITH_DUPLICATE_TITLE_VERSION_PAIR"}
FilteredByTitle == {"ARTIST_ALBUMS_FILTERED_BY_TITLE", "ARTIST_ALBUMS_FILTERED_BY_TITLE_VERSION"}
TopSongs == {"ARTIST_TOP_SONGS", "ARTIST_TOP_SONGS_LIST"}
Radios == {"RADIO", "RADIO_SONG_LIST"}
TakesArtist == {"ARTIST", "ARTIST_ALBUMS", "ARTIST_APPEARANCES", "ARTIST_FOCUS", "ARTIST_SIMILAR",
                "ALBUM_SONG_SELECTION_BY_ARTIST", "GENRE_ARTIST", "GENRE_ARTIST_ALBUMS"}
               \cup ByArtistTitles \cup FilteredByTitle \cup TopSongs
TakesAlbum == {"NAVIGABLE_ALBUM", "ALBUM", "ALBUM_VERSION", "ALBUM_DISC", "ALBUM_FOCUS",
               "ADDITIONAL_ALBUM_ARTISTS"}
TakesSong == {"SONG", "SONG_ENTRY_NAVIGABLE", "SONG_ENTRY_THE_SONG"}
ValueOf == [GENRE |-> "genre", GENRE_ARTIST_LIST |-> "genre", GENRE_ALBUM_LIST |-> "genre",
            ARTIST_BY_INITIAL |-> "initial", ARTIST_ROLE |-> "role", ARTIST_ROLE_INITIAL |-> "initial",
            PLAYLIST |-> "playlist", INTERNET_RADIO |-> "station", NEXT_RANDOM_SONGS |-> "random",
            FAVORITE_SONGS_CONTAINER |-> "favorites", FAVORITE_SONGS_AS_CONTAINERS |-> "favorites",
            ALBUM_BROWSE_FILTER_KEY |-> "key", ALBUM_BROWSE_FILTER_VALUE |-> "value",
            ALBUM_BROWSE_MATCHING_ALBUMS |-> "selection"]
Opens(l) ==
  \/ l.to = "TAG" /\ l.of \in TagNames
  \/ l.to \in TakesArtist /\ l.of = "artist"
  \/ l.to \in TakesAlbum /\ l.of = "album"
  \/ l.to \in TakesSong /\ l.of = "song"
  \/ l.to \in Radios /\ l.of \in {"artist", "album"}
  \/ l.to \in DOMAIN ValueOf /\ l.of = ValueOf[l.to]
\* The keys without which a handler has nothing to show.
Needs(l) ==
  CASE l.to \in {"GENRE_ARTIST_LIST", "GENRE_ARTIST", "GENRE_ARTIST_ALBUMS"} -> {"GENRE_NAME"}
    [] l.to = "GENRE_ALBUM_LIST" -> {"OFFSET"}
    [] l.to = "ARTIST_ROLE_INITIAL" -> {"ARTIST_ROLE"}
    [] l.to = "ALBUM_SONG_SELECTION_BY_ARTIST" -> {"ALBUM_ID_REF_FOR_ARTIST"}
    [] l.to = "ALBUM_DISC" -> {"ALBUM_DISC_NUMBERS"}
    [] l.to = "ALBUM_BROWSE_FILTER_VALUE" -> {"ALBUM_BROWSE_FILTER_KEY", "ALBUM_BROWSE_SELECTION_LIST"}
    [] l.to \in FilteredByTitle -> IF l.to = "ARTIST_ALBUMS_FILTERED_BY_TITLE" THEN {"ALBUM_TITLE"}
                                   ELSE {"ALBUM_TITLE", "ALBUM_VERSION"}
    [] OTHER -> {}

ArtistPage(s, l, w) ==
  CASE l.to = "ARTIST" -> handler_element_artist(s, l, w)
    [] l.to = "ARTIST_ALBUMS" -> handler_element_artist_albums(s, l, w)
    [] l.to = "ARTIST_APPEARANCES" -> handler_artist_appearances(s, l, w)
    [] l.to = "ARTIST_FOCUS" -> handler_element_artist_focus(s, w)
    [] l.to = "ARTIST_SIMILAR" -> handler_element_similar_artists(s, w)
    [] l.to = "ALBUM_SONG_SELECTION_BY_ARTIST" -> handler_album_song_selection_by_artist(s, w)
    [] l.to = "GENRE_ARTIST" -> handler_element_genre_artist(s, w)
    [] l.to = "GENRE_ARTIST_ALBUMS" -> handler_element_genre_artist_albums(s, l, w)
    [] l.to \in ByArtistTitles -> handler_element_albums_with_duplicate_titles(s, l, w)
    [] l.to \in FilteredByTitle -> handler_element_artist_albums_filtered_by_title(s, l, w)
    [] l.to \in TopSongs -> handler_element_artist_top_songs_common(s, l, w)
AlbumPage(s, l, w) ==
  CASE l.to = "NAVIGABLE_ALBUM" -> handler_element_navigable_album(s, l, w)
    [] l.to = "ALBUM" -> handler_element_album(s, w)
    [] l.to = "ALBUM_VERSION" -> handler_element_album_version(s, l, w)
    [] l.to = "ALBUM_DISC" -> handler_element_album_disc(s, w)
    [] l.to = "ALBUM_FOCUS" -> handler_element_album_focus(s, w)
    [] l.to = "ADDITIONAL_ALBUM_ARTISTS" -> handler_additional_album_artists(s, l, w)
SongPage(s, l, w) ==
  CASE l.to = "SONG" -> handler_element_song(s, w)
    [] l.to = "SONG_ENTRY_NAVIGABLE" -> handler_element_song_entry(s, w)
    [] l.to = "SONG_ENTRY_THE_SONG" -> handler_element_song_entry_song(s, w)
OtherPage(s, l, w) ==
  CASE l.to = "GENRE" -> handler_element_genre(s)
    [] l.to = "GENRE_ARTIST_LIST" -> handler_element_genre_artists(s, l, w)
    [] l.to = "GENRE_ALBUM_LIST" -> handler_element_genre_album_list(s, l, w)
    [] l.to = "ARTIST_BY_INITIAL" -> handler_element_artists_by_initial(s, l, w)
    [] l.to = "ARTIST_ROLE" -> handler_element_artist_role(s)
    [] l.to = "ARTIST_ROLE_INITIAL" -> handler_element_artist_role_initial(s, l, w)
    [] l.to = "PLAYLIST" -> create_list_of_playlist_entries(s, w)
    [] l.to = "INTERNET_RADIO" -> handler_element_radio_station(s, w)
    [] l.to = "NEXT_RANDOM_SONGS" -> get_random_songs(s, l, w)
    [] l.to = "FAVORITE_SONGS_CONTAINER" -> handler_element_favorite_songs_container(s, w)
    [] l.to = "FAVORITE_SONGS_AS_CONTAINERS" -> handler_element_favorite_songs_as_containers(s, w)
    [] l.to = "ALBUM_BROWSE_FILTER_KEY" -> handler_album_browse_filter_key(s, l, w)
    [] l.to = "ALBUM_BROWSE_FILTER_VALUE" -> handler_album_browse_filter_value(s, w)
    [] l.to = "ALBUM_BROWSE_MATCHING_ALBUMS" -> handler_element_matching_albums(s, l, w)
    [] OTHER -> Nothing(s)
browse(s, l, w) ==
  CASE l.to = "TAG" -> Tag(s, l, w)
    [] l.to \in TakesArtist -> ArtistPage(s, l, w)
    [] l.to \in TakesAlbum -> AlbumPage(s, l, w)
    [] l.to \in TakesSong -> SongPage(s, l, w)
    [] l.to \in Radios -> handler_radio(s, l, w)
    [] OTHER -> OtherPage(s, l, w)

-----------------------------------------------------------------------------
Root == Link("", "")
Init ==
  /\ lib \in Libraries /\ gone = {} /\ store = {}
  /\ here = Root /\ page = show_tag_entries({}) /\ raised = FALSE /\ answered = FALSE

Opened(l, result, w) ==
  /\ here' = l /\ store' = result.store /\ page' = result.links /\ raised' = result.raised
  /\ answered' = ({"get", "ask"} \subseteq w)
  /\ UNCHANGED <<lib, gone>>
Open == \E l \in page, w \in Answers : Opened(l, browse(store, l, w), w)
Home == \E w \in Answers : Opened(Root, Shows(store, show_tag_entries(w)), w)
SearchFor == \E kind \in {"artist", "album", "song", "playlist"}, w \in Answers :
               Opened(Root, SearchPage(store, kind, w), w)
Withdraw ==
  /\ gone = {} /\ \E thing \in Thing : gone' = {thing}
  /\ UNCHANGED <<lib, store, here, page, raised, answered>>

Next == Open \/ Home \/ SearchFor \/ Withdraw
Spec == Init /\ [][Next]_vars

-----------------------------------------------------------------------------
\* Every entry of a page leads to a handler, which finds a value of the kind
\* that it takes and the keys without which it has nothing to show
\* (__tag_action_dict, __elem_action_dict).
EveryEntryOpens == \A l \in page : Opens(l) /\ Needs(l) \subseteq l.keys

\* What the page of an identifier shows besides the thing itself.
AlsoOf(l) == CASE l.to = "ALBUM_FOCUS" -> {"artist"}
               [] l.to = "SONG_ENTRY_NAVIGABLE" -> {"album"}
               [] OTHER -> {}
\* While the server answers and holds what is asked for, no handler raises; but
\* the artists' tags do when no album has a cover (secrets.choice of an empty list).
OnlyFailuresRaise ==
  raised /\ answered => here.of = "ARTISTS" \/ gone \cap ({here.of} \cup AlsoOf(here)) # {}

\* The Next entry of a page asks for the same list: of the keys of this page it
\* misses none, but for the release type of an artist's albums.
NextKeepsTheList ==
  \A l \in page : l.to = here.to /\ l.of = here.of /\ "OFFSET" \in l.keys =>
    (here.keys \subseteq l.keys /\ l.arg = here.arg) \/ here.arg = "type"

\* The database forgets an artist or an album only when its own page, opened,
\* does not get it from the server.
ForgottenWhenMissed ==
  \A thing \in store : thing \notin store' =>
    here'.of = thing /\ (thing \in gone \/ ~answered')

\* The page of an artist or of an album that the server has no more leaves no
\* metadata of it behind.
MissingIsForgotten ==
  Open /\ here'.to \in {"ARTIST", "ALBUM", "NAVIGABLE_ALBUM"} /\ here'.of \in gone =>
    here'.of \notin store'
=============================================================================
