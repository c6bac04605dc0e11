------------------------------ MODULE AlbumPages ------------------------------
(***************************************************************************)
(* The pages of one album of the Subsonic plugin: its songs at once, one   *)
(* entry per version (a directory, without the directories of its discs)   *)
(* or one per disc.  A control point opens entry after entry until it has  *)
(* seen them all.                                                          *)
(***************************************************************************)
EXTENDS Integers, FiniteSets

CONSTANTS Songs,
          Dirs,        \* directories of the songs
          Parent,      \* of the directories of discs: the directory above
          Extends,     \* <<path, prefix>>: the text of the path starts with it
          Format,      \* of the songs of a directory: more is better
          MaxTracks,   \* MAX_TRACKS_FOR_NO_DISC_SPLIT
          NoPath

VARIABLES song,        \* disc (0: none), number and directory of each song
          config,      \* the album has disc titles, versions are mixed
          todo,        \* the entries not yet opened
          opened,      \* those opened
          seen         \* how often each song was shown

vars == <<song, config, todo, opened, seen>>

get_album_base_path(dir) == IF dir \in DOMAIN Parent THEN Parent[dir] ELSE dir
StartsWith(dir, path) == dir = path \/ <<dir, path>> \in Extends
PathOf(s) == get_album_base_path(song[s].dir)
getCodecSetByPath == {PathOf(s) : s \in Songs}
get_album_disc_numbers == {song[s].disc : s \in Songs} \ {0}

Entry(kind, path, disc) == [kind |-> kind, path |-> path, disc |-> disc]
Page(entries, songs) == [entries |-> entries, songs |-> songs]

\* The best of the songs with the same disc, number and title.
Key(s) == <<song[s].disc, song[s].number>>
choose_best_track_by_format(songs) ==
  CHOOSE s \in songs : \A t \in songs : Format[song[s].dir] > Format[song[t].dir] \/ (Format[song[s].dir] = Format[song[t].dir] /\ s <= t)
Mixed == {choose_best_track_by_format({t \in Songs : Key(t) = Key(s)}) : s \in Songs}
\* A missing disc number cannot be sorted among the others.
SortRaises == 0 \in {song[s].disc : s \in Songs} /\ get_album_disc_numbers # {}

AsDiscs == Cardinality(get_album_disc_numbers) > 1 /\ (config.titles \/ Cardinality(Songs) > MaxTracks)
present_album_version(path) ==
  IF AsDiscs THEN Page({Entry("ALBUM_DISC", path, d) : d \in get_album_disc_numbers}, {})
  ELSE Page({}, {s \in Songs : path = NoPath \/ PathOf(s) = path})
handler_element_album ==
  IF config.mix THEN Page({}, IF SortRaises THEN {} ELSE Mixed)
  ELSE IF Cardinality(getCodecSetByPath) > 1
  THEN Page({Entry("ALBUM_VERSION", p, 0) : p \in getCodecSetByPath}, {})
  ELSE present_album_version(NoPath)
\* Mutant of handler_element_album_disc: the path itself and not what is below it.
DiscOfPath(path, disc) == Page({}, {s \in Songs : song[s].disc = disc /\ (path = NoPath \/ song[s].dir = path)})
handler_element_album_disc(path, disc) ==
  Page({}, {s \in Songs : song[s].disc = disc /\ (path = NoPath \/ StartsWith(song[s].dir, path))})
PageOf(e) ==
  CASE e.kind = "ALBUM" -> handler_element_album
    [] e.kind = "ALBUM_VERSION" -> present_album_version(e.path)
    [] e.kind = "ALBUM_DISC" -> handler_element_album_disc(e.path, e.disc)

-----------------------------------------------------------------------------
browse(e) ==
  /\ e \in todo
  /\ todo' = (todo \ {e}) \cup (PageOf(e).entries \ opened)
  /\ opened' = opened \cup {e}
  /\ seen' = [s \in Songs |-> seen[s] + IF s \in PageOf(e).songs THEN 1 ELSE 0]
  /\ UNCHANGED <<song, config>>

Init ==
  /\ song \in [Songs -> [disc : 0..2, number : 1..2, dir : Dirs]]
  /\ config \in [titles : BOOLEAN, mix : BOOLEAN]
  /\ todo = {Entry("ALBUM", NoPath, 0)} /\ opened = {}
  /\ seen = [s \in Songs |-> 0]
Next == \E e \in todo : browse(e)
Spec == Init /\ [][Next]_vars

-----------------------------------------------------------------------------
(* Properties. *)

\* Versions whose paths start with one another.
Nested == \E p, q \in getCodecSetByPath : p # q /\ StartsWith(p, q)

\* A walk through the pages of an album shows every song once: but not a song
\* without a disc number among discs, and one of a version whose path starts
\* with the path of another version is on a disc of both; mixed versions show
\* the best of the songs that are the same (present_album_version).
EverySongOnce ==
  todo = {} /\ ~config.mix =>
    \A s \in Songs :
      IF AsDiscs /\ song[s].disc = 0 THEN seen[s] = 0
      ELSE seen[s] >= 1 /\ (seen[s] > 1 => AsDiscs /\ Nested)
BestOfEach ==
  todo = {} /\ config.mix /\ ~SortRaises =>
    \A s \in Songs : \E t \in Songs :
      /\ Key(t) = Key(s) /\ seen[t] = 1 /\ Format[song[t].dir] >= Format[song[s].dir]
      /\ \A u \in Songs : Key(u) = Key(s) /\ u # t => seen[u] = 0

=============================================================================
