------------------------------- MODULE UprclTags -------------------------------
(***************************************************************************)
(* The tags view of the local media server (uprcl).  The indexed songs are *)
(* put in a table, in the order of the index; albums are made from their   *)
(* titles and folders, the discs of one album are merged, and control      *)
(* points narrow the songs down by the values of their tags.               *)
(***************************************************************************)
EXTENDS Integers, Sequences, SequencesExt

CONSTANTS Songs,      \* [name, album, folder, parent, albumartist, disc, titledisc, folderdisc, people, values, trackno]
          Tags,       \* the tags of the configuration
          Scopes,     \* sets of folders: all, or those below the one of the view
          NoArtist, Various,
          MaxTracks   \* bound: songs in the index

VARIABLES phase,      \* "index", "browse"
          tracks,     \* docidx -> [song, album]
          albums,     \* album_id -> [title, folder, parent, artist, disc, alb, artists]
          scope, selection

vars == <<phase, tracks, albums, scope, selection>>

\* No number of a disc, and no album of which one is a disc (NULL).
None == 0
Blank == -1

\* The number of the disc and the title, without the disc when it is the same
\* one: a blank is left then.
DiscNumber(s) == IF s.disc # None THEN s.disc ELSE IF s.titledisc # None THEN s.titledisc ELSE s.folderdisc
AlbumTitle(s) ==
  <<s.album, IF s.titledisc = DiscNumber(s) /\ s.titledisc # None THEN Blank ELSE s.titledisc>>
Fits(a, s) ==
  /\ a.title = AlbumTitle(s) /\ a.folder = s.folder
  /\ DiscNumber(s) # None => a.disc = DiscNumber(s)
Lowest(ids) == CHOOSE i \in ids : \A j \in ids : i <= j
NewAlbum(s) ==
  [title |-> AlbumTitle(s), folder |-> s.folder, parent |-> s.parent, artist |-> s.albumartist,
   disc |-> DiscNumber(s), alb |-> None, artists |-> <<>>]
_maybecreatealbum(s) ==
  LET known == {i \in DOMAIN albums : Fits(albums[i], s)}
  IN IF known # {} THEN <<albums, Lowest(known)>> ELSE <<Append(albums, NewAlbum(s)), Len(albums) + 1>>
\* The people of each field: the artist, the composer, the conductor.
_updatealbartistlist(as, i, s) == [as EXCEPT ![i].artists = @ \o SelectSeq(s.people, LAMBDA p : p # {})]

\* An artist of all the fields, else various artists.
_setalbumartists(as) ==
  LET common(a) == {p \in UNION ToSet(a.artists) : \A k \in DOMAIN a.artists : p \in a.artists[k]}
  IN [i \in DOMAIN as |->
        IF as[i].artist # NoArtist THEN as[i]
        ELSE [as[i] EXCEPT !.artist = IF common(as[i]) = {} THEN Various ELSE CHOOSE p \in common(as[i]) : TRUE]]

\* The discs of one album: same title and artist, folders of one parent,
\* numbers in sequence.
_checkseq(as, rows) ==
  /\ \A i, j \in rows : i # j => as[i].disc # as[j].disc
  /\ \A i, j \in rows : \A n \in as[i].disc..as[j].disc : \E k \in rows : as[k].disc = n
_mergealbumsfilterfolders(as, i) ==
  {j \in DOMAIN as : /\ as[j].alb = None /\ as[j].disc # None
                     /\ as[j].title = as[i].title /\ as[j].artist = as[i].artist /\ as[j].parent = as[i].parent}
\* The album of all the discs is a copy of the first one.
_membertotopalbum(as, rows) ==
  Append([j \in DOMAIN as |-> IF j \in rows THEN [as[j] EXCEPT !.alb = Len(as) + 1] ELSE as[j]], [as[Lowest(rows)] EXCEPT !.disc = None])
Candidate(as, i) == as[i].disc # None /\ as[i].alb = None
\* Mutant of MergeDiscs: discs that do not merge stay parts of an album.
MergeOnly(as, i) ==
  LET rows == _mergealbumsfilterfolders(as, i)
  IN IF Candidate(as, i) /\ _checkseq(as, rows) THEN _membertotopalbum(as, rows) ELSE as
MergeDiscs(as, i) ==
  LET rows == _mergealbumsfilterfolders(as, i)
  IN IF ~Candidate(as, i) THEN as
     ELSE IF rows # {i} /\ _checkseq(as, rows) THEN _membertotopalbum(as, rows)
     ELSE [j \in DOMAIN as |-> IF j \in rows THEN [as[j] EXCEPT !.disc = None] ELSE as[j]]
_createmergedalbums(as) ==
  LET merged == FoldLeft(MergeDiscs, as, [i \in DOMAIN as |-> i])
  IN [i \in DOMAIN merged |-> IF merged[i].disc = None THEN [merged[i] EXCEPT !.alb = i] ELSE merged[i]]

-----------------------------------------------------------------------------
(* What control points see. *)

TracksOf(album) == {t \in DOMAIN tracks : tracks[t].album = album}
_albids2rawalbids(albid) == LET members == {i \in DOMAIN albums : albums[i].alb = albid} IN IF members = {} THEN {albid} ELSE members
_albid2rawalbidssorted(albid) ==
  LET members == {i \in DOMAIN albums : albums[i].alb = albid}
  IN SetToSortSeq(IF members = {} THEN {albid} ELSE members, LAMBDA i, j : albums[i].disc < albums[j].disc)
\* The tracks of one disc, by the texts of their titles of albums and by their
\* numbers; those of an album then get increasing numbers, except that a number 0
\* counts as none for the next track.
DiscTracks(i) ==
  LET key(t) == 100 * tracks[t].song.titledisc + tracks[t].song.trackno
  IN SetToSortSeq(TracksOf(i), LAMBDA t, u : key(t) < key(u) \/ (key(t) = key(u) /\ t < u))
NextNumber(numbers, n) ==
  Append(numbers, IF numbers # <<>> /\ Last(numbers) # 0 /\ n <= Last(numbers) THEN Last(numbers) + 1 ELSE n)
_trackentriesforalbum(albid) ==
  LET discs == _albid2rawalbidssorted(albid)
      listed == FlattenSeq([k \in DOMAIN discs |-> DiscTracks(discs[k])])
      numbers == FoldLeft(NextNumber, <<>>, [k \in DOMAIN listed |-> tracks[listed[k]].song.trackno])
  IN [k \in DOMAIN listed |-> [track |-> listed[k], number |-> numbers[k]]]

\* The songs that have the chosen values, their albums, and the tags that
\* narrow them down.
_docidsforsel ==
  {t \in DOMAIN tracks : /\ tracks[t].song.folder \in scope
                         /\ \A tag \in DOMAIN selection : selection[tag] \in tracks[t].song.values[tag]}
RawAlbums == {tracks[t].album : t \in _docidsforsel}
_rawalbids2albids(raw) == {IF albums[i].alb # None THEN albums[i].alb ELSE i : i \in raw}
_subtreealbums == _rawalbids2albids(RawAlbums)
TagValues(tag) == UNION {tracks[t].song.values[tag] : t \in _docidsforsel}
_subtreetags == {tag \in Tags \ DOMAIN selection : \E v, w \in TagValues(tag) : v # w}
_direntriesforalbums(ids) == {i \in ids : albums[i].disc = None}
\* The page of a selection: the entry of the albums with their count, or the
\* one of the whole album, and the songs when no tag is left.
OneAlbum == CHOOSE i \in _subtreealbums : TRUE
ShowsWhole == _subtreealbums = {OneAlbum} /\ Len(_trackentriesforalbum(OneAlbum)) = Cardinality(_docidsforsel)
AlbumsEntry == IF Cardinality(_subtreealbums) > 1 THEN {Cardinality(_subtreealbums)} ELSE {}
SongsOnPage == IF _subtreetags # {} \/ ShowsWhole THEN {} ELSE _docidsforsel
SongsInAlbum(i) == {t \in _docidsforsel : tracks[t].album \in _albids2rawalbids(i)}

-----------------------------------------------------------------------------
(* Actions. *)

\* One document of the loop of recolltosql.
AddTrack(s) ==
  /\ phase = "index" /\ Len(tracks) < MaxTracks /\ \A t \in DOMAIN tracks : tracks[t].song # s
  /\ LET made == _maybecreatealbum(s)
     IN /\ albums' = _updatealbartistlist(made[1], made[2], s)
        /\ tracks' = Append(tracks, [song |-> s, album |-> made[2]])
  /\ UNCHANGED <<phase, scope, selection>>
recolltosql ==
  /\ phase = "index" /\ tracks # <<>>
  /\ albums' = _createmergedalbums(_setalbumartists(albums))
  /\ phase' = "browse"
  /\ UNCHANGED <<tracks, scope, selection>>
\* The page of one value of a tag.
_tagsbrowse(tag, v) ==
  /\ phase = "browse" /\ tag \in _subtreetags /\ v \in TagValues(tag)
  /\ selection' = [k \in DOMAIN selection \cup {tag} |-> IF k = tag THEN v ELSE selection[k]]
  /\ UNCHANGED <<phase, tracks, albums, scope>>

Init == phase = "index" /\ tracks = <<>> /\ albums = <<>> /\ scope \in Scopes /\ selection = <<>>
Next == (\E s \in Songs : AddTrack(s)) \/ recolltosql \/ (\E tag \in Tags : \E v \in TagValues(tag) : _tagsbrowse(tag, v))
Spec == Init /\ [][Next]_vars

-----------------------------------------------------------------------------
(* Properties. *)

Shown == {i \in DOMAIN albums : albums[i].disc = None}

\* Whatever the order of the index, the list of albums shows every song in one
\* album, once: discs that were not merged are shown alone
\* (_createmergedalbums, _direntriesforalbums, _trackentriesforalbum).
EverySongInOneAlbum ==
  phase = "browse" =>
    \A t \in DOMAIN tracks :
      Cardinality({<<i, k>> \in Shown \X (1..Len(tracks)) :
                     k \in DOMAIN _trackentriesforalbum(i) /\ _trackentriesforalbum(i)[k].track = t}) = 1
\* The numbers that an album shows put its songs in the order of their discs,
\* whatever numbers the files have, and no disc of it is missing; only tracks
\* numbered 0 at its beginning all keep their 0 (_checkseq, _trackentriesforalbum).
AlbumsPlayInOrder ==
  phase = "browse" =>
    \A i \in Shown : LET list == _trackentriesforalbum(i)
                         discs == {albums[tracks[list[k].track].album].disc : k \in DOMAIN list}
                     IN /\ \A k \in DOMAIN list \ {1} : /\ \/ list[k-1].number < list[k].number
                                                           \/ list[k-1].number = 0 /\ list[k].number = 0
                                                        /\ albums[tracks[list[k-1].track].album].disc <= albums[tracks[list[k].track].album].disc
                        /\ \A n, m \in discs : n..m \subseteq discs
\* On the page of any selection: the count of albums is that of the entries
\* behind it, these hold the selected songs and no entry is empty, and an entry
\* for a whole album stands for the selected songs only (_tagsbrowse,
\* _tagsbrowsealbums).
PageIsComplete ==
  phase = "browse" /\ _docidsforsel # {} =>
    /\ \A n \in AlbumsEntry : n = Cardinality(_direntriesforalbums(_subtreealbums))
    /\ _docidsforsel = UNION {SongsInAlbum(i) : i \in _direntriesforalbums(_subtreealbums)}
    /\ \A i \in _subtreealbums : SongsInAlbum(i) # {}
    /\ SongsOnPage = {} /\ _subtreetags = {} =>
         _docidsforsel = {_trackentriesforalbum(OneAlbum)[k].track : k \in DOMAIN _trackentriesforalbum(OneAlbum)}

=============================================================================
