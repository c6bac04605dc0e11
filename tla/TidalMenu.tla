------------------------------ MODULE TidalMenu ------------------------------
(***************************************************************************)
(* The menus of the Tidal plugin.  Every entry of a page carries an        *)
(* identifier: the name of the handler that opens it, a value and further  *)
(* keys.  browse() decodes it, looks the handler up and shows the page it  *)
(* builds.  The buttons of a page change the favourites of the service,    *)
(* the bookmarks and the statistics, then show the page of their artist,   *)
(* album or track again.  One artist with one album of one track.          *)
(***************************************************************************)
EXTENDS Naturals

VARIABLES store,   \* what the buttons change, and the cached album metadata
          gone,    \* what the service has withdrawn: a thing, or the artist's image
          here,    \* the identifier whose page is shown
          page,    \* the identifiers of its entries
          raised,  \* the handler raised an exception
          fresh    \* nothing but this page's handler has run since it was opened

vars == <<store, gone, here, page, raised, fresh>>

Thing == {"artist", "album", "track"}
Store == [favs : SUBSET Thing, marks : SUBSET Thing, played : BOOLEAN,
          meta : {"none", "plain", "dated"}]   \* dated: with user_date_added

\* An identifier: handler, kind of its value, whether an id is a string, and
\* its keys.  arg is the value of the key that tells two of them apart.
Link(to, of) == [to |-> to, of |-> of, str |-> FALSE, keys |-> {}, arg |-> "none"]
Keyed(link, key, value) == [link EXCEPT !.keys = @ \cup {key}, !.arg = value]
WithKeys(link, keys) == [link EXCEPT !.keys = @ \cup keys]
AsStr(link, str) == [link EXCEPT !.str = str]
Links(targets, of) == {Link(to, of) : to \in targets}

\* What a handler leaves: the store and its entries, or an exception.
Shows(s, links) == [store |-> s, links |-> links, raised |-> FALSE]
Raises(s) == [store |-> s, links |-> {}, raised |-> TRUE]
\* Mutant of create_next_button: the keys of the list are lost.
NextWithoutKeys(link, keys, more) == IF more # "no" THEN {[link EXCEPT !.keys = {"OFFSET"}]} ELSE {}
create_next_button(link, keys, more) ==
  IF more # "no" THEN {[link EXCEPT !.keys = keys \cup {"OFFSET"}]} ELSE {}

-----------------------------------------------------------------------------
(* The entries. *)
artist_to_entry_raw(str) == {Keyed(AsStr(Link("ARTIST", "artist"), str), "MISSING_ARTIST_ART",
                                   IF "image" \notin gone THEN "False" ELSE "True")}
artist_to_entry == artist_to_entry_raw(FALSE)
album_adapter_to_entry(to, str) == {AsStr(Link(to, "album"), str)}
album_to_album_container == album_adapter_to_entry("ALBUM_CONTAINER", FALSE)
track_to_entry == {Link("TRACK", "track")}
track_to_track_container == {Link("TRACK_CONTAINER", "track")}
track_to_navigable(to) == {Link(to, "track")}
raw_playlist_to_entry == {Link("PLAYLIST_CONTAINER", "playlist")}
raw_mix_to_entry == {Link("MIX_CONTAINER", "mix")}
page_link_to_entry == {Link("PAGE", "path")}
pagelink_to_entry ==
  {WithKeys(Link("PAGELINK", "title"), {"PAGE_LINK_API_PATH", "CATEGORY_TITLE", "PAGE_LIST"})}
category_to_entry == {Keyed(Link("CATEGORY", "title"), "CATEGORY_KEY", "title")}

\* An album that the service lists is stored: only its list of favourites dates it.
tidal_album_to_adapter(s, dated) == [s EXCEPT !.meta = IF dated THEN "dated" ELSE "plain"]
Listed(s) == tidal_album_to_adapter(s, FALSE)

FavButton(to, of, str) == {AsStr(Link(to, of), str)}
create_artist_fav_button(s, str) ==
  FavButton(IF "artist" \in s.favs THEN "FAV_ARTIST_DEL" ELSE "FAV_ARTIST_ADD", "artist", str)
create_album_fav_action_button(isFavorite, str) ==
  FavButton(IF isFavorite THEN "FAV_ALBUM_DEL" ELSE "FAV_ALBUM_ADD", "album", str)
track_fav_button(s) ==
  {Keyed(Link("TRACK_FAVORITE_ACTION", "track"), "FAVORITE_ACTION",
         IF "track" \in s.favs THEN "del" ELSE "add")}
listen_queue_button(s, to, of, str) ==
  {Keyed(AsStr(Link(to, of), str), "LISTEN_QUEUE_ACTION", IF of \in s.marks THEN "del" ELSE "add")}
remove_from_stats(s, to, of, str) == IF s.played THEN {AsStr(Link(to, of), str)} ELSE {}

-----------------------------------------------------------------------------
(* The page of an artist, of an album and of a track. *)
create_missing_artist_entry(s) == Raises(s)   \* called with an argument it does not have

handler_element_artist(s, l) ==
  IF "artist" \in gone THEN create_missing_artist_entry(s)
  ELSE Shows(s,
         {AsStr(l2, l.str) : l2 \in
            Links({"ARTIST_ALBUM_ALBUMS", "ARTIST_ALBUM_EP_SINGLES", "ARTIST_ALBUM_OTHERS"}, "artist")}
         \cup {Keyed(AsStr(Link("ARTIST_FOCUS", "artist"), l.str), "MISSING_ARTIST_ART", l.arg)}
         \cup create_artist_fav_button(s, l.str)
         \cup listen_queue_button(s, "BOOKMARK_ARTIST_ACTION", "artist", FALSE))

handler_element_artist_related(s, l) ==
  Shows(s, IF "artist" \in gone \/ l.arg = "True" THEN {}
           ELSE {AsStr(l2, l.str) : l2 \in
                   Links({"ARTIST_TOP_TRACKS_NAVIGABLE", "ARTIST_TOP_TRACKS_LIST",
                          "ARTIST_RADIO_NAVIGABLE", "ARTIST_RADIO_LIST", "SIMILAR_ARTISTS"}, "artist")})

\* The album is purged; without metadata the bookmark button has no image to take.
create_missing_album_entry(s, l) ==
  LET purged == [s EXCEPT !.played = FALSE, !.meta = "none"]
      button == IF "album" \in s.favs /\ ~l.str THEN create_album_fav_action_button(TRUE, l.str) ELSE {}
  IN IF "album" \in s.marks THEN Raises(purged)
     ELSE Shows(purged, button \cup {AsStr(Link("MISSING_ALBUM", "album"), l.str)})

\* Without cached metadata the album is loaded and stored, and then the missing
\* metadata is used.
handler_element_album_container(s, l) ==
  IF s.meta = "none" THEN
    IF "album" \in gone THEN create_missing_album_entry(s, l) ELSE Raises(Listed(s))
  ELSE Shows(s,
         album_adapter_to_entry("ALBUM", l.str)
         \cup artist_to_entry_raw(TRUE)
         \cup create_album_fav_action_button(s.meta = "dated", l.str)
         \cup listen_queue_button(s, "BOOKMARK_ALBUM_ACTION", "album", l.str)
         \cup remove_from_stats(s, "REMOVE_ALBUM_FROM_STATS", "album", TRUE))

handler_element_mix_playlist_toptrack_navigable_item(s, l) ==
  IF "track" \in gone THEN Raises(s)
  ELSE LET listed == IF "album" \in gone THEN s ELSE Listed(s) IN
       Shows(listed,
         track_to_track_container \cup track_fav_button(s)
         \cup listen_queue_button(s, "BOOKMARK_TRACK_ACTION", "track", FALSE)
         \cup (IF "artist" \in gone THEN {} ELSE artist_to_entry)
         \cup (IF "album" \in gone THEN {} ELSE album_to_album_container)
         \cup remove_from_stats(s, "REMOVE_TRACK_FROM_STATS", "track", FALSE))

create_missing_track_entry == {Link("MISSING_TRACK", "track")}
handler_element_track_container(s) ==
  Shows(s, IF "track" \in gone THEN create_missing_track_entry ELSE track_to_entry)
handler_element_track_simple(s) ==
  IF "track" \in gone THEN Raises(s) ELSE Shows(s, track_to_entry)
handler_element_album(s) ==
  IF "album" \in gone THEN Raises(s) ELSE Shows(s, track_to_entry)
handler_album_tracks_action(s) ==
  Shows(s, IF "album" \in gone THEN {} ELSE track_to_navigable("NAVIGABLE_TRACK"))

-----------------------------------------------------------------------------
(* The buttons. *)
handler_element_artist_add_to_fav(s, l) ==
  handler_element_artist([s EXCEPT !.favs = @ \cup {"artist"}], AsStr(Link("ARTIST", "artist"), l.str))
handler_element_album_add_to_fav(s, l) ==
  handler_element_album_container([s EXCEPT !.favs = @ \cup {"album"}],
                                  AsStr(Link("ALBUM_CONTAINER", "album"), l.str))

\* The ids that the service lists are integers: a string is not among them.
Unfavoured(s, l) == IF l.str THEN s ELSE [s EXCEPT !.favs = @ \ {l.of}]
handler_element_artist_del_from_fav(s, l) ==
  handler_element_artist(Unfavoured(s, l), AsStr(Link("ARTIST", "artist"), l.str))
handler_element_album_del_from_fav(s, l) ==
  handler_element_album_container(Unfavoured(s, l), AsStr(Link("ALBUM_CONTAINER", "album"), l.str))

handler_track_favorite_action(s, l) ==
  handler_element_mix_playlist_toptrack_navigable_item(
    [s EXCEPT !.favs = IF l.arg = "add" THEN @ \cup {"track"} ELSE @ \ {"track"}], l)

Bookmarked(s, l) == [s EXCEPT !.marks = IF l.arg = "add" THEN @ \cup {l.of} ELSE @ \ {l.of}]
handler_element_artist_bookmark_action(s, l) ==
  handler_element_artist(Bookmarked(s, l), AsStr(Link("ARTIST", "artist"), l.str))
handler_element_album_bookmark_action(s, l) ==
  handler_element_album_container(Bookmarked(s, l), AsStr(Link("ALBUM_CONTAINER", "album"), l.str))
\* Mutant of handler_element_track_bookmark_action: the page is made before the bookmark is set.
ShowThenBookmark(s, l) ==
  [handler_element_mix_playlist_toptrack_navigable_item(s, l) EXCEPT !.store = Bookmarked(s, l)]
handler_element_track_bookmark_action(s, l) ==
  handler_element_mix_playlist_toptrack_navigable_item(Bookmarked(s, l), l)

handler_element_remove_track_from_stats(s) ==
  LET removed == [s EXCEPT !.played = FALSE] IN
    IF "track" \in gone THEN Raises(removed) ELSE Shows(removed, track_to_navigable("NAVIGABLE_TRACK"))
handler_element_remove_album_from_stats(s) ==
  LET removed == [s EXCEPT !.played = FALSE] IN
    IF "album" \in gone THEN Raises(removed) ELSE Shows(Listed(removed), album_to_album_container)

-----------------------------------------------------------------------------
(* The lists.  more: a Next entry is due, with items after the page or, at *)
(* "full", with none: the list ends where a full page does.                *)
More == {"no", "full", "yes"}
Some(thing, links) == IF thing \in gone THEN {} ELSE links
AlbumsListed(s) == IF "album" \in gone THEN s ELSE Listed(s)
TracksAsContainers == Some("track", track_to_track_container)
NavigableTracks == Some("track", track_to_navigable("NAVIGABLE_TRACK"))

convert_page_item_to_entry ==
  raw_playlist_to_entry \cup raw_mix_to_entry \cup page_link_to_entry \cup NavigableTracks
  \cup Some("artist", artist_to_entry) \cup Some("album", album_to_album_container)
page_to_entries(s, l, keys, more) ==
  Shows(AlbumsListed(s), convert_page_item_to_entry \cup create_next_button(l, keys, more))

handler_element_pagelink(s, l, more) ==
  page_to_entries(s, l, {"PAGE_LINK_API_PATH", "CATEGORY_TITLE"}, more)
handler_element_page(s, l, more) == page_to_entries(s, l, {}, more)
handler_tag_page(s, l, more) == page_to_entries(s, l, {}, more)

handler_element_category(s) ==
  Shows(AlbumsListed(s),
    raw_playlist_to_entry \cup raw_mix_to_entry \cup pagelink_to_entry \cup NavigableTracks
    \cup Some("artist", artist_to_entry) \cup Some("album", album_to_album_container))

handler_element_favorite_albums_common(s, l, more) ==
  IF "album" \in s.favs
  THEN Shows(tidal_album_to_adapter(s, TRUE), album_to_album_container \cup create_next_button(l, {}, more))
  ELSE Shows(s, create_next_button(l, {}, more))
handler_favorite_artists_common(s, l, more) ==
  Shows(s, (IF "artist" \in s.favs THEN artist_to_entry ELSE {}) \cup create_next_button(l, {}, more))
handler_element_favorite_tracks_navigable(s, l, more) ==
  Shows(s, (IF "track" \in s.favs THEN track_to_navigable("NAVIGABLE_TRACK") ELSE {})
           \cup create_next_button(l, {}, more))
handler_element_favorite_tracks_list(s, l, more) ==
  Shows(s, (IF "track" \in s.favs THEN TracksAsContainers ELSE {}) \cup create_next_button(l, {}, more))

handler_element_artist_album_catch_all(s, l, more) ==
  IF "artist" \in gone THEN Shows(s, {})
  ELSE Shows(AlbumsListed(s),
             Some("album", album_to_album_container) \cup create_next_button(l, {}, more))
ArtistList(s, l, more, entries) ==
  Shows(s, IF "artist" \in gone THEN {} ELSE entries \cup create_next_button(l, {}, more))
handler_element_similar_artists(s, l, more) == ArtistList(s, l, more, artist_to_entry)
handler_element_artist_top_tracks_list(s, l, more) == ArtistList(s, l, more, TracksAsContainers)
handler_element_artist_top_tracks_navigable(s, l, more) == ArtistList(s, l, more, NavigableTracks)
handler_element_artist_radio_list(s, l, more) == ArtistList(s, l, more, TracksAsContainers)
handler_element_artist_radio_navigable(s, l, more) == ArtistList(s, l, more, NavigableTracks)

\* The container of a mix or playlist, and the pages that walk its tracks.
handle_element_mix_or_playlist_container(s, l, navigable, type) ==
  Shows(s,
    {Link(navigable, l.of), WithKeys(Link(type, l.of), {"OFFSET", "MAX_ITEMS"})}
    \cup {Keyed(l2, "UNDERLYING_TYPE", type) : l2 \in
            Links({"ARTISTS_IN_MIX_OR_PLAYLIST", "ALBUMS_IN_MIX_OR_PLAYLIST",
                   "ALL_TRACKS_IN_PLAYLIST_OR_MIX"}, l.of)})
handler_element_albums_in_mix_or_playlist(s, l, more) ==
  Shows(AlbumsListed(s), Some("album", album_to_album_container)
           \cup create_next_button(l, {"UNDERLYING_TYPE", "LAST_FOUND_ID"}, more))
handler_element_artists_in_mix_or_playlist(s, l, more) ==
  Shows(s, artist_to_entry \cup create_next_button(l, {"UNDERLYING_TYPE", "LAST_FOUND_ID"}, more))
handler_all_tracks_in_playlist_or_mix(s) == Shows(s, Some("track", track_to_entry))
handler_element_mix(s) == Shows(s, Some("track", track_to_entry))
handler_element_mix_navigable(s, l, more) ==
  Shows(s, Some("track", track_to_navigable("MIX_NAVIGABLE_ITEM")) \cup create_next_button(l, {}, more))
playlist_to_entries(s) == Shows(s, TracksAsContainers)
handler_element_playlist_navigable(s, l, more) ==
  Shows(s, Some("track", track_to_navigable("PLAYLIST_NAVIGABLE_ITEM")) \cup create_next_button(l, {}, more))

\* Statistics: the complete rows of the played tracks need nothing of the service.
played_track_list_to_entries(s, l, more, entries) ==
  Shows(s, (IF s.played THEN entries ELSE {}) \cup create_next_button(l, {}, more))
\* The cover of the Next entry is that of the album after the page, which a list
\* that ends with a full page does not have.
PlayedAlbums(s, l, more) ==
  LET listed  == IF s.meta = "none" THEN AlbumsListed(s) ELSE s
      entries == IF s.meta = "none" THEN Some("album", album_to_album_container)
                 ELSE album_adapter_to_entry("ALBUM_CONTAINER", TRUE)
  IN IF ~s.played THEN Shows(s, {})
     ELSE IF more = "full" THEN Raises(listed)
     ELSE Shows(listed, entries \cup create_next_button(l, {}, more))

\* Bookmarks: what is not available is left out.
Bookmarks(s, thing, entries) == IF thing \in s.marks THEN Some(thing, entries) ELSE {}
handler_element_bookmark_artists(s, l, more) ==
  Shows(s, Bookmarks(s, "artist", artist_to_entry) \cup create_next_button(l, {}, more))
handler_element_bookmark_albums(s, l, more) ==
  Shows(IF "album" \in s.marks THEN AlbumsListed(s) ELSE s,
        Bookmarks(s, "album", album_to_album_container) \cup create_next_button(l, {}, more))
handler_element_bookmark_tracks(s, l, more) ==
  Shows(s, Bookmarks(s, "track", track_to_navigable("NAVIGABLE_TRACK")) \cup create_next_button(l, {}, more))

execute_search(s, kind) ==
  CASE kind = "artist" -> Shows(s, Some("artist", artist_to_entry))
    [] kind = "album" -> Shows(AlbumsListed(s), Some("album", album_adapter_to_entry("ALBUM", FALSE)))
    [] kind = "track" -> Shows(s, TracksAsContainers)
SearchPage(s, kind, more) ==
  LET found == execute_search(s, kind)
      next == create_next_button(Keyed(Link("SEARCH", "text"), "SEARCH_FIELD", kind),
                                 {"SEARCH_FIELD", "SEARCH_KIND"}, more)
  IN [found EXCEPT !.links = @ \cup next]

-----------------------------------------------------------------------------
(* The tags, and browse(). *)
PageTags == {"EXPLORE_NEW_MUSIC", "EXPLORE_TIDAL_RISING", "HOME", "EXPLORE", "FOR_YOU",
             "HIRES_PAGE", "GENRES_PAGE", "LOCAL_GENRES_PAGE", "MOODS_PAGE"}
get_page_selection == PageTags \cup {"CATEGORIES"}
TagType == get_page_selection \cup
  {"PAGE_SELECTION", "MY_PLAYLISTS", "ALL_PLAYLISTS", "FAVORITE_ALBUMS", "FAVORITE_ARTISTS",
   "FAVORITE_TRACKS", "PLAYBACK_STATISTICS", "BOOKMARKS"}
tag_to_entry(tag) == Link("TAG", tag)
show_tags == {tag_to_entry(tag) : tag \in TagType \ get_page_selection}

FavoriteAlbums ==
  {"FAVORITE_ALBUMS_BY_ARTIST_ASC", "FAVORITE_ALBUMS_BY_ARTIST_DESC",
   "FAVORITE_ALBUMS_BY_TITLE_ASC", "FAVORITE_ALBUMS_BY_TITLE_DESC",
   "FAVORITE_ALBUMS_BY_RELEASE_DATE_ASC", "FAVORITE_ALBUMS_BY_RELEASE_DATE_DESC",
   "FAVORITE_ALBUMS_BY_USER_DATE_ADDED_ASC", "FAVORITE_ALBUMS_BY_USER_DATE_ADDED_DESC"}
FavoriteArtists ==
  {"FAVORITE_ARTISTS_BY_NAME_ASC", "FAVORITE_ARTISTS_BY_NAME_DESC",
   "FAVORITE_ARTISTS_BY_USER_DATE_ADDED_ASC", "FAVORITE_ARTISTS_BY_USER_DATE_ADDED_DESC"}
FavoriteTracks == {"FAVORITE_TRACKS_NAVIGABLE", "FAVORITE_TRACKS_LIST"}
PlayedAlbumLists == {"RECENTLY_PLAYED_ALBUMS", "MOST_PLAYED_ALBUMS"}
PlayedTrackLists == {"RECENTLY_PLAYED_TRACKS_LIST", "MOST_PLAYED_TRACKS_LIST"}
PlayedTrackNavigables == {"RECENTLY_PLAYED_TRACKS_NAVIGABLE", "MOST_PLAYED_TRACKS_NAVIGABLE"}
BookmarkLists == {"BOOKMARK_ARTISTS", "BOOKMARK_ALBUMS", "BOOKMARK_TRACKS"}

Tag(s, l, more) ==
  CASE l.of = "PAGE_SELECTION" -> Shows(s, {tag_to_entry(tag) : tag \in get_page_selection})
    [] l.of = "CATEGORIES" -> Shows(s, category_to_entry)
    [] l.of \in PageTags -> handler_tag_page(s, l, more)
    [] l.of = "MY_PLAYLISTS" -> Shows(s, raw_playlist_to_entry)
    [] l.of = "ALL_PLAYLISTS" -> Shows(s, raw_playlist_to_entry \cup create_next_button(l, {}, more))
    [] l.of = "FAVORITE_ALBUMS" -> Shows(s, Links(FavoriteAlbums, "title"))
    [] l.of = "FAVORITE_ARTISTS" -> Shows(s, Links(FavoriteArtists, "title"))
    [] l.of = "FAVORITE_TRACKS" -> Shows(s, Links(FavoriteTracks, "title"))
    [] l.of = "PLAYBACK_STATISTICS" ->
         Shows(s, Links(PlayedAlbumLists \cup PlayedTrackLists \cup PlayedTrackNavigables, "title"))
    [] l.of = "BOOKMARKS" -> Shows(s, Links(BookmarkLists, "title"))

\* __elem_action_dict: what each handler takes, and the keys it cannot do without.
TakesArtist == {"ARTIST", "ARTIST_FOCUS", "FAV_ARTIST_ADD", "FAV_ARTIST_DEL", "ARTIST_ALBUM_ALBUMS",
  "ARTIST_ALBUM_EP_SINGLES", "ARTIST_ALBUM_OTHERS", "ARTIST_TOP_TRACKS_NAVIGABLE",
  "ARTIST_TOP_TRACKS_LIST", "ARTIST_RADIO_NAVIGABLE", "ARTIST_RADIO_LIST", "SIMILAR_ARTISTS",
  "BOOKMARK_ARTIST_ACTION"}
TakesAlbum == {"ALBUM", "ALBUM_CONTAINER", "FAV_ALBUM_ADD", "FAV_ALBUM_DEL", "BOOKMARK_ALBUM_ACTION",
  "REMOVE_ALBUM_FROM_STATS", "ALBUM_TRACKS"}
NavigableItems == {"NAVIGABLE_TRACK", "MIX_NAVIGABLE_ITEM", "PLAYLIST_NAVIGABLE_ITEM"}
TakesTrack == NavigableItems \cup {"TRACK", "TRACK_CONTAINER", "TRACK_FAVORITE_ACTION",
  "BOOKMARK_TRACK_ACTION", "REMOVE_TRACK_FROM_STATS"}
TakesMix == {"MIX", "MIX_CONTAINER", "MIX_NAVIGABLE"}
TakesPlaylist == {"PLAYLIST", "PLAYLIST_CONTAINER", "PLAYLIST_NAVIGABLE"}
TakesTracks == {"ALBUMS_IN_MIX_OR_PLAYLIST", "ARTISTS_IN_MIX_OR_PLAYLIST", "ALL_TRACKS_IN_PLAYLIST_OR_MIX"}
TakesText == FavoriteAlbums \cup FavoriteArtists \cup FavoriteTracks \cup PlayedAlbumLists
  \cup PlayedTrackLists \cup PlayedTrackNavigables \cup BookmarkLists \cup {"CATEGORY", "PAGELINK"}

Opens(l) ==
  \/ l.to = "TAG" /\ l.of \in TagType
  \/ l.to \in TakesArtist /\ l.of = "artist"
  \/ l.to \in TakesAlbum /\ l.of = "album"
  \/ l.to \in TakesTrack /\ l.of = "track"
  \/ l.to \in TakesMix /\ l.of = "mix"
  \/ l.to \in TakesPlaylist /\ l.of = "playlist"
  \/ l.to \in TakesTracks /\ l.of \in {"mix", "playlist"}
  \/ l.to \in TakesText /\ l.of = "title"
  \/ l.to = "PAGE" /\ l.of = "path"
  \/ l.to = "SEARCH" /\ l.of = "text"
Needs(l) ==
  CASE l.to = "CATEGORY" -> {"CATEGORY_KEY"}
    [] l.to = "PAGELINK" -> {"PAGE_LINK_API_PATH", "CATEGORY_TITLE"}
    [] l.to \in {"BOOKMARK_ALBUM_ACTION", "BOOKMARK_ARTIST_ACTION", "BOOKMARK_TRACK_ACTION"} ->
         {"LISTEN_QUEUE_ACTION"}
    [] l.to = "TRACK_FAVORITE_ACTION" -> {"FAVORITE_ACTION"}
    [] l.to \in TakesTracks -> {"UNDERLYING_TYPE"}
    [] l.to = "SEARCH" -> {"SEARCH_FIELD"}
    [] OTHER -> {}

\* The handler that browse() calls: an identifier without one shows nothing.
ArtistPage(s, l, more) ==
  CASE l.to = "ARTIST" -> handler_element_artist(s, l)
    [] l.to = "ARTIST_FOCUS" -> handler_element_artist_related(s, l)
    [] l.to = "FAV_ARTIST_ADD" -> handler_element_artist_add_to_fav(s, l)
    [] l.to = "FAV_ARTIST_DEL" -> handler_element_artist_del_from_fav(s, l)
    [] l.to = "BOOKMARK_ARTIST_ACTION" -> handler_element_artist_bookmark_action(s, l)
    [] l.to = "SIMILAR_ARTISTS" -> handler_element_similar_artists(s, l, more)
    [] l.to = "ARTIST_TOP_TRACKS_LIST" -> handler_element_artist_top_tracks_list(s, l, more)
    [] l.to = "ARTIST_TOP_TRACKS_NAVIGABLE" -> handler_element_artist_top_tracks_navigable(s, l, more)
    [] l.to = "ARTIST_RADIO_LIST" -> handler_element_artist_radio_list(s, l, more)
    [] l.to = "ARTIST_RADIO_NAVIGABLE" -> handler_element_artist_radio_navigable(s, l, more)
    [] OTHER -> handler_element_artist_album_catch_all(s, l, more)
AlbumPage(s, l) ==
  CASE l.to = "ALBUM" -> handler_element_album(s)
    [] l.to = "ALBUM_CONTAINER" -> handler_element_album_container(s, l)
    [] l.to = "FAV_ALBUM_ADD" -> handler_element_album_add_to_fav(s, l)
    [] l.to = "FAV_ALBUM_DEL" -> handler_element_album_del_from_fav(s, l)
    [] l.to = "BOOKMARK_ALBUM_ACTION" -> handler_element_album_bookmark_action(s, l)
    [] l.to = "REMOVE_ALBUM_FROM_STATS" -> handler_element_remove_album_from_stats(s)
    [] l.to = "ALBUM_TRACKS" -> handler_album_tracks_action(s)
TrackPage(s, l) ==
  CASE l.to \in NavigableItems -> handler_element_mix_playlist_toptrack_navigable_item(s, l)
    [] l.to = "TRACK" -> handler_element_track_simple(s)
    [] l.to = "TRACK_CONTAINER" -> handler_element_track_container(s)
    [] l.to = "TRACK_FAVORITE_ACTION" -> handler_track_favorite_action(s, l)
    [] l.to = "BOOKMARK_TRACK_ACTION" -> handler_element_track_bookmark_action(s, l)
    [] l.to = "REMOVE_TRACK_FROM_STATS" -> handler_element_remove_track_from_stats(s)
TracksPage(s, l, more) ==
  CASE l.to = "MIX" -> handler_element_mix(s)
    [] l.to = "MIX_CONTAINER" -> handle_element_mix_or_playlist_container(s, l, "MIX_NAVIGABLE", "MIX")
    [] l.to = "MIX_NAVIGABLE" -> handler_element_mix_navigable(s, l, more)
    [] l.to = "PLAYLIST" -> playlist_to_entries(s)
    [] l.to = "PLAYLIST_CONTAINER" ->
         handle_element_mix_or_playlist_container(s, l, "PLAYLIST_NAVIGABLE", "PLAYLIST")
    [] l.to = "PLAYLIST_NAVIGABLE" -> handler_element_playlist_navigable(s, l, more)
    [] l.to = "ALBUMS_IN_MIX_OR_PLAYLIST" -> handler_element_albums_in_mix_or_playlist(s, l, more)
    [] l.to = "ARTISTS_IN_MIX_OR_PLAYLIST" -> handler_element_artists_in_mix_or_playlist(s, l, more)
    [] l.to = "ALL_TRACKS_IN_PLAYLIST_OR_MIX" -> handler_all_tracks_in_playlist_or_mix(s)
TextPage(s, l, more) ==
  CASE l.to = "CATEGORY" -> handler_element_category(s)
    [] l.to = "PAGELINK" -> handler_element_pagelink(s, l, more)
    [] l.to \in FavoriteAlbums -> handler_element_favorite_albums_common(s, l, more)
    [] l.to \in FavoriteArtists -> handler_favorite_artists_common(s, l, more)
    [] l.to = "FAVORITE_TRACKS_NAVIGABLE" -> handler_element_favorite_tracks_navigable(s, l, more)
    [] l.to = "FAVORITE_TRACKS_LIST" -> handler_element_favorite_tracks_list(s, l, more)
    [] l.to \in PlayedAlbumLists -> PlayedAlbums(s, l, more)
    [] l.to \in PlayedTrackLists -> played_track_list_to_entries(s, l, more, track_to_track_container)
    [] l.to \in PlayedTrackNavigables ->
         played_track_list_to_entries(s, l, more, track_to_navigable("NAVIGABLE_TRACK"))
    [] l.to = "BOOKMARK_ARTISTS" -> handler_element_bookmark_artists(s, l, more)
    [] l.to = "BOOKMARK_ALBUMS" -> handler_element_bookmark_albums(s, l, more)
    [] l.to = "BOOKMARK_TRACKS" -> handler_element_bookmark_tracks(s, l, more)
browse(s, l, more) ==
  CASE l.to = "TAG" -> Tag(s, l, more)
    [] l.to \in TakesArtist -> ArtistPage(s, l, more)
    [] l.to \in TakesAlbum -> AlbumPage(s, l)
    [] l.to \in TakesTrack -> TrackPage(s, l)
    [] l.to \in TakesMix \cup TakesPlaylist \cup TakesTracks -> TracksPage(s, l, more)
    [] l.to \in TakesText -> TextPage(s, l, more)
    [] l.to = "PAGE" -> handler_element_page(s, l, more)
    [] l.to = "SEARCH" -> SearchPage(s, l.arg, more)
    [] OTHER -> Shows(s, {})

-----------------------------------------------------------------------------
Root == Link("", "")
Init ==
  /\ store \in [favs : SUBSET Thing, marks : {{}}, played : {FALSE}, meta : {"none"}]
  /\ gone = {}
  /\ here = Root /\ page = show_tags /\ raised = FALSE /\ fresh = TRUE

Opened(l, result) ==
  /\ here' = l /\ store' = result.store /\ page' = result.links /\ raised' = result.raised
  /\ fresh' = TRUE
  /\ UNCHANGED gone
Open == \E l \in page, more \in More : Opened(l, browse(store, l, more))
Home == Opened(Root, Shows(store, show_tags))
SearchFor == \E kind \in Thing, more \in More : Opened(Root, SearchPage(store, kind, more))

Besides(s) ==
  /\ store' = s /\ fresh' = FALSE
  /\ UNCHANGED <<gone, here, page, raised>>
\* trackuri() for an entry of the page.
Play == /\ track_to_entry \subseteq page /\ "track" \notin gone
        /\ Besides([store EXCEPT !.played = TRUE])
\* The preloading thread stores the favourite albums.
Preload == /\ "album" \in store.favs
           /\ Besides(tidal_album_to_adapter(store, TRUE))
\* Another application adds or removes a favourite.
Elsewhere == \E thing \in Thing :
  Besides([store EXCEPT !.favs = IF thing \in @ THEN @ \ {thing} ELSE @ \cup {thing}])
Withdraw == /\ gone = {} /\ \E thing \in Thing \cup {"image"} : gone' = {thing}
            /\ fresh' = FALSE
            /\ UNCHANGED <<store, here, page, raised>>

Next == Open \/ Home \/ SearchFor \/ Play \/ Preload \/ Elsewhere \/ Withdraw
Spec == Init /\ [][Next]_vars

-----------------------------------------------------------------------------
\* Every entry of a page leads to a handler, which finds a value of the kind
\* that it takes and every key that it reads; only what the service has
\* withdrawn leads nowhere (__elem_action_dict, ItemIdentifier).
EveryEntryOpens ==
  \A l \in page :
    \/ Opens(l) /\ Needs(l) \subseteq l.keys
    \/ l.to \in {"MISSING_ALBUM", "MISSING_TRACK"} /\ l.of \in gone

ButtonsOf(thing, targets) == {l \in page : l.to \in targets /\ l.of = thing}
\* The buttons of a page just opened offer what the store has not: bookmarks,
\* statistics and, for artists and tracks, favourites.
ButtonsTell ==
  fresh =>
    /\ \A l \in ButtonsOf("artist", {"FAV_ARTIST_ADD", "FAV_ARTIST_DEL"}) :
         (l.to = "FAV_ARTIST_DEL") = ("artist" \in store.favs)
    /\ \A l \in ButtonsOf("track", {"TRACK_FAVORITE_ACTION"}) : (l.arg = "del") = ("track" \in store.favs)
    /\ \A l \in page : "LISTEN_QUEUE_ACTION" \in l.keys => (l.arg = "del") = (l.of \in store.marks)
    /\ \A l \in page : l.to \in {"REMOVE_ALBUM_FROM_STATS", "REMOVE_TRACK_FROM_STATS"} => store.played

\* A handler raises only for what the service has withdrawn, but for the lists of
\* played albums, which do when they end with a full page.
OnlyWithdrawnRaises == raised => here.of \in gone \/ here.to \in PlayedAlbumLists

\* Whatever is bookmarked was bookmarked by a button of a page of that thing,
\* and only such a button takes it back.
OnlyButtonsBookmark ==
  \A thing \in Thing : (thing \in store.marks) # (thing \in store'.marks) =>
    /\ here'.of = thing /\ "LISTEN_QUEUE_ACTION" \in here'.keys
    /\ (here'.arg = "add") = (thing \in store'.marks)
    /\ here' \in page
=============================================================================
