------------------------------- MODULE MCPages -------------------------------
(***************************************************************************)
(* What the pages of the plugins are computed from: of Subsonic the album  *)
(* browser, artists and roles, covers, the pages of an album, qualities,   *)
(* identifiers, caches and the search, of uprcl folders and tags, of Tidal *)
(* what they tell of streams.                                              *)
(* A behaviour is one of one part; they share the variables only.          *)
(***************************************************************************)
EXTENDS Integers, TLC

CONSTANTS BrowserAlbums, OneRole, Absent, Broken

VARIABLES part, v1, v2, v3, v4, v5, v6, v7, v8
vars == <<part, v1, v2, v3, v4, v5, v6, v7, v8>>

\* Every table of two properties of a few albums.
Browser == INSTANCE AlbumBrowser WITH
  Albums <- BrowserAlbums, Keys <- {"genre", "mood"}, ValuesOf <- [genre |-> 1..3, mood |-> {1}],
  SortedKeys <- {"mood"}, MaxItems <- 2, None <- Absent,
  data <- v1, page <- v2, seen <- v3, metadata <- v4
Alike == Permutations(BrowserAlbums)
\* Three artists, two with the same initial, the third with a wildcard.
Artist == INSTANCE SubsonicArtists WITH
  Artists <- 1..3, Roles <- {OneRole}, InitialOf <- <<"a", "a", "_">>, Wild <- {"_"},
  ReqCount <- 2, PageSize <- 1, MaxChanges <- 1,
  server <- v1, db <- v2, walk <- v3, page <- v4, changes <- v5, calm <- v6
\* An artist with up to two albums.
Cover == INSTANCE SubsonicCovers WITH
  Albums <- {1, 2}, Own <- 3, NoArt <- 0,
  lib <- v1, stored <- v2, context <- v3, shown <- v4
\* An album with the directories of two discs, and one whose name starts with its own.
Album == INSTANCE AlbumPages WITH
  Songs <- {1, 2, 3}, Dirs <- {"a", "a/cd1", "a/cd2", "a2"},
  Parent <- "a/cd1" :> "a" @@ "a/cd2" :> "a",
  Extends <- {<<"a/cd1", "a">>, <<"a/cd2", "a">>, <<"a2", "a">>},
  Format <- "a" :> 1 @@ "a/cd1" :> 1 @@ "a/cd2" :> 2 @@ "a2" :> 3,
  MaxTracks <- 3, NoPath <- "",
  song <- v1, config <- v2, todo <- v3, opened <- v4, seen <- v5
SongOf(suffix, depth, rate) == [suffix |-> suffix, depth |-> depth, rate |-> rate]
Quality == INSTANCE AlbumQuality WITH
  Songs <- {SongOf("mp3", 0, 44100), SongOf("mp3", -1, 44100), SongOf("flac", 16, 44100), SongOf("flac", 16, 48000),
            SongOf("flac", 24, 96000), SongOf("wav", 24, 44100), SongOf("m4a", 24, 44100), SongOf("dsf", 1, 2822400),
            SongOf("mp3", -1, -1)},
  Lossless <- {"flac", "wav", "dsf"}, Whitelist <- {"flac", "wav"}, Missing <- -1, MaxSongs <- 4,
  list <- v1
\* Three identifiers, the base64 form of one has a slash.
Codec == INSTANCE IdentifierCodec WITH
  Values <- {1, 2, 3}, Slashed <- {3}, MaxDepth <- 2, Nothing <- Absent,
  kv <- v1, minimize <- v2, purge <- v3, objid <- v4, meant <- v5, old <- v6
\* The starred items, asked for at once; all artists, in pages.
Answers == INSTANCE ResponseCache WITH
  Lists <- {"starred", "artists"}, Timeout <- [starred |-> 1, artists |-> 2], PageOf <- [starred |-> 0, artists |-> 2],
  MaxItems <- 2, MaxTime <- 4, Never <- Absent,
  now <- v1, length <- v2, cached <- v3, shown <- v4
Images == INSTANCE CoverFiles WITH
  Items <- {"i1", "i2.x"}, Dotted <- {"i2.x"}, Types <- {"jpg", "png"}, Other <- "other", NoUrl <- Absent,
  files <- v1, url <- v2
\* Folders with a group, a playlist, and top directories whose names begin alike.
Document(path, kind, group, titled, list) == [path |-> path, kind |-> kind, group |-> group, titled |-> titled, list |-> list]
Folders == INSTANCE UprclFolders WITH
  Documents <-
    {Document(<<"m", "a", "x">>, "audio", "", TRUE, <<>>), Document(<<"m", "b", "x">>, "audio", "", FALSE, <<>>),
     Document(<<"m", "a", "y">>, "audio", "G", TRUE, <<>>), Document(<<"m", "a">>, "dir", "", TRUE, <<>>),
     Document(<<"m", "p">>, "list", "", TRUE, <<<<"m", "a", "x">>, <<"m", "b", "x">>, <<"m", "a", "y">>>>),
     Document(<<"music", "a", "x">>, "audio", "", TRUE, <<>>), Document(<<"m", "a", "c">>, "image", "", FALSE, <<>>)},
  TopDirs <- {<<<<"m">>>>, <<<<"m">>, <<"music">>>>, <<<<"music">>, <<"m">>>>},
  Begins <- {<<"music", "m">>},
  NoGroup <- "", Audio <- "audio", Directory <- "dir", List <- "list", Other <- "image",
  phase <- v1, topdirs <- v2, rcldocs <- v3, dirvec <- v4, pldirs <- v5, todo <- v6, opened <- v7, shown <- v8
\* Songs of one title: discs told by the tag, the title and the folder.
P == {"p"}
Tagged(name, folder, disc, titledisc, folderdisc, people, genre, artist, no) ==
  [name |-> name, album |-> "A", folder |-> folder, parent |-> "/m", albumartist |-> "none",
   disc |-> disc, titledisc |-> titledisc, folderdisc |-> folderdisc, people |-> people,
   values |-> [Artist |-> artist, Genre |-> genre], trackno |-> no]
TaggedSongs ==
  {Tagged("a", "/m/1", 1, 0, 0, <<P>>, {"rock"}, P, 1), Tagged("b", "/m/1", 0, 0, 0, <<P>>, {"jazz"}, P, 2),
   Tagged("c", "/m/2", 2, 0, 0, <<P>>, {"rock"}, P, 0), Tagged("d", "/m/3", 0, 1, 0, <<P, {"q"}>>, {}, {"p", "q"}, 1),
   Tagged("e", "/m/cd3", 0, 0, 3, <<P>>, {"rock", "jazz"}, P, 1), Tagged("f", "/m/2", 2, 3, 0, <<P>>, {"rock"}, P, 1),
   Tagged("g", "/m/3", 1, 0, 0, <<P>>, {"rock"}, P, 0)}
Tag == INSTANCE UprclTags WITH
  Songs <- TaggedSongs, Tags <- {"Artist", "Genre"}, Scopes <- {{s.folder : s \in TaggedSongs}, {"/m/1"}},
  NoArtist <- "none", Various <- "various", MaxTracks <- 4,
  phase <- v1, tracks <- v2, albums <- v3, scope <- v4, selection <- v5

\* An album of two tracks that stream alike or not, and one of one track.
PageOf(kind, list) == [kind |-> kind, tracks |-> list]
StreamOf(depth, rate, quality) == [depth |-> depth, rate |-> rate, quality |-> quality]
Streams == INSTANCE StreamInfo WITH
  Tracks <- {1, 2, 3}, AlbumOf <- <<1, 1, 2>>,
  StreamSets <- {<<StreamOf(24, 96000, "hires"), StreamOf(24, 96000, "hires"), StreamOf(16, 44100, "low")>>,
                 <<StreamOf(16, 44100, "lossless"), StreamOf(24, 44100, "hires"), StreamOf(16, 44100, "lossless")>>},
  Pages <- {PageOf("album", <<1, 2>>), PageOf("mix", <<2, 3, 2>>), PageOf("all", <<3, 1, 3>>), PageOf("track", <<3>>)},
  AskLimit <- 1, None <- "none", NoRow <- Absent,
  streams <- v1, options <- v2, rows <- v3, played <- v4, page <- v5, answered <- v6, again <- v7

\* How a value is in the names of artists, albums and playlists: all of it, but for
\* an accent, at an end with and at the beginning without it, inside, not at all.
NameWith(exact, simple, lower) == [exact |-> exact, simple |-> simple, lower |-> lower]
Exact == NameWith({"same", "starts", "ends", "inside"}, {"same", "starts", "ends", "inside"}, TRUE)
Accented == NameWith({}, {"same", "starts", "ends", "inside"}, FALSE)
AtEnds == NameWith({"ends", "inside"}, {"starts", "ends", "inside"}, TRUE)
Inside == NameWith({}, {"inside"}, TRUE)
NotIn == NameWith({}, {}, FALSE)
NamesOf(own, sort, display, artist, title) ==
  [own |-> own, sort |-> sort, display |-> display, artist |-> artist, title |-> title]
Find == INSTANCE SubsonicSearch WITH
  Artists <- 1..3, Albums <- 1..2, Songs <- 1..2, Playlists <- 1..2,
  CreditsOf <- [album |-> <<<<1, 2>>, <<2, 3>>>>, song |-> <<<<1>>, <<3, 2>>>>],
  SongsOf <- <<<<1>>, <<2, 1>>>>, GenresOf <- <<{"jazz"}, {}>>,
  NameSets <-
    {NamesOf(<<Inside, Accented, AtEnds>>, <<Exact, Absent, NotIn>>, <<Exact, Inside>>, <<Absent, NotIn>>, <<Accented, Exact>>),
     NamesOf(<<NotIn, NotIn, NotIn>>, <<Absent, NotIn, Absent>>, <<NotIn, Exact>>, <<Accented, Exact>>, <<AtEnds, Inside>>)},
  AlbumLimit <- 2, SongLimit <- 1, MaxFound <- 2, NoName <- Absent,
  names <- v1, preload <- v2, db <- v3, genres <- v4, shown <- v5

Free7 == v7 = 0 /\ v8 = 0
Free6 == v6 = 0 /\ Free7
Free5 == v5 = 0 /\ Free6
Free4 == v4 = 0 /\ Free5
Free2 == v2 = 0 /\ v3 = 0 /\ Free4
Init ==
  \/ part = "browser" /\ Browser!Init /\ Free5
  \/ part = "artists" /\ Artist!Init /\ Free7
  \/ part = "covers" /\ Cover!Init /\ Free5
  \/ part = "album" /\ Album!Init /\ Free6
  \/ part = "quality" /\ Quality!Init /\ Free2
  \/ part = "codec" /\ Codec!Init /\ Free7
  \/ part = "answers" /\ Answers!Init /\ Free5
  \/ part = "images" /\ Images!Init /\ v3 = 0 /\ Free4
  \/ part = "folders" /\ Folders!Init
  \/ part = "tags" /\ Tag!Init /\ Free6
  \/ part = "streams" /\ Streams!Init /\ v8 = 0
  \/ part = "search" /\ Find!Init /\ Free6
Rest7 == UNCHANGED <<v7, v8>>
Rest6 == UNCHANGED v6 /\ Rest7
Rest5 == UNCHANGED v5 /\ Rest6
Rest4 == UNCHANGED v4 /\ Rest5
Next ==
  /\ \/ part = "browser" /\ Browser!Next /\ Rest5
     \/ part = "artists" /\ Artist!Next /\ Rest7
     \/ part = "covers" /\ Cover!Next /\ Rest5
     \/ part = "album" /\ Album!Next /\ Rest6
     \/ part = "quality" /\ Quality!Next /\ UNCHANGED <<v2, v3>> /\ Rest4
     \/ part = "codec" /\ Codec!Next /\ Rest7
     \/ part = "answers" /\ Answers!Next /\ Rest5
     \/ part = "images" /\ Images!Next /\ UNCHANGED v3 /\ Rest4
     \/ part = "folders" /\ Folders!Next
     \/ part = "tags" /\ Tag!Next /\ Rest6
     \/ part = "streams" /\ Streams!Next /\ UNCHANGED v8
     \/ part = "search" /\ Find!Next /\ Rest6
  /\ UNCHANGED part
Spec == Init /\ [][Next]_vars

-----------------------------------------------------------------------------
(* Properties. *)

\* A selection of albums shrinks to what its entries promise: no page is empty,
\* and the numbers in the titles are those of the pages that they open
\* (handler_album_browse_filter_key, handler_album_browse_filter_value).
SelectionKeepsPromises ==
  part = "browser" =>
    Browser!CountsMatch /\ Browser!ChoiceNarrows /\ Browser!KeyCountTells /\ Browser!ConditionsDiffer
\* After an undisturbed walk the artists of the database are those of the
\* server, and the index shows each of them once (preload_artists,
\* handler_element_artist_role_initial).
ArtistsFollow == part = "artists" => Artist!FollowsServer /\ Artist!IndexComplete
\* The objid of an entry opens the page that it was made for, and a local URL of
\* a cover names a file (codec.decode, __build_cover_art_url).
LinksOpen ==
  /\ part = "codec" => Codec!ObjidOpens /\ Codec!OneNumberEach
  /\ part = "images" => Images!LocalUrlsExist
\* No list shown is older than its timeout (request_cache.get_starred).
AnswersAreRecent == [][part = "answers" => Answers!AnswersAreRecent]_vars
\* The cover shown for an artist is its own or one of an album of it, and there
\* is one whenever one is known (get_album_cover_art_by_artist_id).
CoversFit == part = "covers" => Cover!CoverBelongs /\ Cover!NotBlank /\ Cover!PrefersOwn
\* The pages of an album show every song, and tell of its quality what holds of
\* the songs (present_album_version, calc_song_list_quality_badge); what a page
\* tells of a stream is true, at the price of few requests
\* (set_stream_information_for_album_entry).
AlbumsShownRight ==
  /\ part = "album" => Album!EverySongOnce /\ Album!BestOfEach
  /\ part = "quality" => Quality!BadgeHonest /\ Quality!SummaryAdds
  /\ part = "streams" => Streams!EntriesTrue /\ Streams!FewRequests /\ Streams!AskedOnce
\* In whatever order the index lists its songs, the folders show every one of
\* them, and the tags show each in one album, in the order of the discs, and
\* under every selection it fits (_rcl2folders, _createmergedalbums, _tagsbrowse);
\* a search lists what it finds once, misses no artist that the database knows by
\* that name, and has the best matches first (search, sort_obj_by_rank).
LibraryShown ==
  /\ part = "folders" => Folders!EverySongShown /\ Folders!PathsLeadBack /\ Folders!ListsAgree
  /\ part = "tags" => Tag!EverySongInOneAlbum /\ Tag!AlbumsPlayInOrder /\ Tag!PageIsComplete
  /\ part = "search" => Find!ListedOnce /\ Find!NamedArtistListed /\ Find!BestMatchesFirst
=============================================================================
