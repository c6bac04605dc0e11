----------------------------- MODULE StreamInfo ------------------------------
(***************************************************************************)
(* What the pages of the Tidal plugin tell of the stream of a track: bit   *)
(* depth, sample rate, type.  It is taken from the row of the track, from  *)
(* that of another track of its album, from the first track of the page,   *)
(* or from the service, which is asked a few times at most, or assumed.    *)
(* A page is computed entry by entry; between pages tracks are played.     *)
(***************************************************************************)
EXTENDS Naturals, Sequences, FiniteSets, SequencesExt

CONSTANTS Tracks, AlbumOf, \* numbers, in the order of the albums; their albums
          StreamSets,   \* what the service may stream: functions from Tracks
          Pages,        \* kind and tracks of the pages
          AskLimit,     \* max_get_stream_info_mix_or_playlist
          None, NoRow

VARIABLES streams,  \* what the service streams
          options,  \* guess, assume: the options of these names; quality: the best one wanted
          rows,     \* [Tracks -> info or NoRow], played_track_v1
          played,   \* PLAYED_ALBUM_TRACKS_DICT: its default value is shared by all contexts
          page,     \* the page under way, or the last one
          answered, \* history: albums a row of which an answer of the service gave
          again     \* history: such an album was asked for once more

vars == <<streams, options, rows, played, page, answered, again>>

Albums == {AlbumOf[t] : t \in Tracks}
Info(depth, rate, quality) == [depth |-> depth, rate |-> rate, quality |-> quality]
NoInfo == Info(0, 0, None)
\* A row of a version that had no column for it.
OldRow == NoInfo
Complete(i) == i.depth # 0 /\ i.rate # 0 /\ i.quality # None

\* Of a context: what it knows of the first track of the album, whether a request
\* failed, the number of those that did not, under which key which tracks are marked;
\* tries: history, the number of requests.
Context(p) ==
  [kind |-> p.kind, todo |-> p.tracks, first |-> <<>>, failed |-> FALSE, count |-> 0, marks |-> {},
   shown |-> <<>>, raised |-> FALSE, tries |-> 0]
NoPage == Context([kind |-> "none", tracks |-> <<>>])

-----------------------------------------------------------------------------
(* The pure parts. *)
is_mp3(quality) == quality = "low"
get_mime_type(quality) == IF is_mp3(quality) THEN "mp3" ELSE "flac"

guess_bit_depth(quality, rate) ==
  IF quality = "hires" \/ rate >= 48000 \/ options.quality = "hires" THEN 24 ELSE 16

\* 16 bits are not hires; an unlikely rate gives nothing.
correct_audio_quality(i) ==
  CASE i.depth = 0 \/ i.rate = 0 -> IF i.quality = None THEN "lossless" ELSE i.quality
    [] i.depth # 0 /\ i.rate # 0 /\ i.depth > 16 -> "hires"
    [] i.depth = 16 /\ i.rate \in {44100, 48000} ->
         IF i.quality = None THEN "lossless" ELSE IF i.quality = "hires" THEN None ELSE i.quality
    [] OTHER -> None
Corrected(i) == [i EXCEPT !.quality = correct_audio_quality(i)]

get_fallback_quality_when_missing == IF options.quality = "hires" THEN "lossless" ELSE options.quality
Filled(i, quality) ==
  [depth |-> IF i.depth = 0 THEN 16 ELSE i.depth, rate |-> IF i.rate = 0 THEN 44100 ELSE i.rate,
   quality |-> IF i.quality = None THEN quality ELSE i.quality]
Assumed(i) ==
  IF i.depth = 0 /\ options.assume
  THEN Filled([i EXCEPT !.depth = guess_bit_depth(i.quality, i.rate)], "lossless")
  ELSE Filled(i, get_fallback_quality_when_missing)

-----------------------------------------------------------------------------
(* The rows of an album, in the order of its tracks; a list that was not   *)
(* empty when it was read is never read again.                             *)
Row(t) == [track |-> t, info |-> rows[t]]
get_played_album_entries(a) ==
  LET ts == SetToSortSeq({t \in Tracks : AlbumOf[t] = a /\ rows[t] # NoRow}, <)
  IN [i \in DOMAIN ts |-> Row(ts[i])]
get_or_load_played_album_tracks(a) ==
  IF played[a] # <<>> THEN played[a] ELSE get_played_album_entries(a)
get_played_track(list, t) ==
  LET of == {i \in DOMAIN list : list[i].track = t} IN IF of # {} THEN list[Min(of)].info ELSE NoInfo
select_played_track(list) ==
  LET good == {i \in DOMAIN list : Complete(list[i].info)} IN IF good # {} THEN list[Min(good)].info ELSE list[1].info

-----------------------------------------------------------------------------
(* One entry: where its information comes from, ...                        *)
Source(t, list) ==
  CASE Complete(get_played_track(list, t)) -> "known"
    [] ~Complete(get_played_track(list, t)) /\ list # <<>> /\ options.guess -> "guessed"
    [] OTHER -> IF page.first # <<>> THEN "assumed" ELSE "nowhere"
Found(t, list) ==
  CASE Source(t, list) = "known" -> Corrected(get_played_track(list, t))
    [] Source(t, list) = "guessed" -> Corrected(select_played_track(list))
    [] Source(t, list) = "assumed" -> page.first[1]
    [] OTHER -> NoInfo
OneAlbum == page.kind \in {"album", "track"}
MayAsk == ~page.failed /\ (OneAlbum \/ page.count < AskLimit)
\* ... what the service answers: nothing, the stream, or the stream but not the
\* album that the row needs, ...
Answers(t, list) ==
  IF Found(t, list) = NoInfo /\ MayAsk THEN {"fails", "stream", "no album"} ELSE {"not asked"}
Answered(answer) == answer \in {"stream", "no album"}
\* A track that was asked for before raises in its own try block.
Repeated(t) == <<"asked", t>> \in page.marks
Stored(t, answer) == answer = "stream" /\ ~Repeated(t)

Marked(key, t) == IF key = "nowhere" THEN {} ELSE {<<key, t>>}
report_get_stream_exception(t, answer) == answer \in {"fails", "no album"} \/ (Answered(answer) /\ Repeated(t))
Entry(t, info, source) ==
  [track |-> t, depth |-> info.depth, rate |-> info.rate, mime |-> get_mime_type(info.quality), source |-> source]
\* ... and the context after it.
set_stream_information(t, list, answer) ==
  LET source == Source(t, list)
      info == IF Answered(answer) THEN streams[t] ELSE Found(t, list)
  IN [page EXCEPT
        !.todo = Tail(@),
        !.marks = @ \cup Marked(source, t) \cup (IF Answered(answer) THEN {<<"asked", t>>} ELSE {}),
        !.count = IF Answered(answer) THEN @ + 1 ELSE @,
        !.tries = IF answer = "not asked" THEN @ ELSE @ + 1,
        !.first = IF Answered(answer) /\ OneAlbum /\ ~Repeated(t) THEN <<info>> ELSE @,
        !.failed = @ \/ report_get_stream_exception(t, answer),
        !.shown = Append(@, Entry(t, Assumed(info), IF Answered(answer) THEN "asked" ELSE source))]

\* A track that the page has under this key already raises: the page of an album
\* ends there, the list of all tracks skips the entry, a mix is not shown.
Raises == page' = CASE page.kind = "all" -> [page EXCEPT !.todo = Tail(@)]
                    [] page.kind = "album" -> [page EXCEPT !.todo = <<>>]
                    [] OTHER -> [page EXCEPT !.todo = <<>>, !.shown = <<>>, !.raised = TRUE]

\* A track without a row gets one that counts as never played.
track_ghost_playback(t, answer) ==
  rows' = IF Stored(t, answer) /\ rows[t] = NoRow THEN [rows EXCEPT ![t] = streams[t]] ELSE rows
NextEntry ==
  /\ page.todo # <<>>
  /\ LET t == Head(page.todo)
         a == AlbumOf[t]
         list == get_or_load_played_album_tracks(a)
     IN /\ played' = [played EXCEPT ![a] = list]
        /\ \/ /\ <<Source(t, list), t>> \in page.marks
              /\ Raises
              /\ UNCHANGED <<rows, answered, again>>
           \/ /\ <<Source(t, list), t>> \notin page.marks
              /\ \E answer \in Answers(t, list) :
                   /\ page' = set_stream_information(t, list, answer)
                   /\ track_ghost_playback(t, answer)
                   /\ answered' = IF Stored(t, answer) THEN answered \cup {a} ELSE answered
                   /\ again' = (again \/ (Answered(answer) /\ a \in answered))
  /\ UNCHANGED <<streams, options>>

-----------------------------------------------------------------------------
(* Between pages. *)
Open ==
  /\ page.todo = <<>>
  /\ \E p \in Pages : page' = Context(p)
  /\ UNCHANGED <<streams, options, rows, played, answered, again>>
\* trackuri(): the first time a track is played its row is inserted.
Play(t) ==
  /\ page.todo = <<>> /\ rows[t] = NoRow
  /\ rows' = [rows EXCEPT ![t] = streams[t]]
  /\ UNCHANGED <<streams, options, played, page, answered, again>>
purge_album_from_played_tracks(a) ==
  /\ page.todo = <<>>
  /\ rows' = [t \in Tracks |-> IF AlbumOf[t] = a THEN NoRow ELSE rows[t]]
  /\ answered' = answered \ {a}
  /\ UNCHANGED <<streams, options, played, page, again>>
Restart ==
  /\ page.todo = <<>>
  /\ played' = [a \in Albums |-> <<>>] /\ page' = NoPage
  /\ UNCHANGED <<streams, options, rows, answered, again>>

Init ==
  /\ streams \in StreamSets
  /\ options \in [guess : BOOLEAN, assume : BOOLEAN, quality : {"hires", "low"}]
  /\ rows \in [Tracks -> {NoRow, OldRow}]
  /\ played = [a \in Albums |-> <<>>]
  /\ page = NoPage /\ answered = {} /\ again = FALSE
Next ==
  \/ NextEntry \/ Open \/ Restart
  \/ \E t \in Tracks : Play(t)
  \/ \E a \in Albums : purge_album_from_played_tracks(a)
Spec == Init /\ [][Next]_vars

-----------------------------------------------------------------------------
(* Properties. *)
Shown == {page.shown[i] : i \in DOMAIN page.shown}
True(e) ==
  LET s == streams[e.track]
  IN e.depth = s.depth /\ e.rate = s.rate /\ e.mime = get_mime_type(s.quality)
Alike(a) == \A t, u \in Tracks : AlbumOf[t] = a /\ AlbumOf[u] = a => streams[t] = streams[u]
\* What the row of a track or the service told is shown as it is; where the
\* tracks of an album stream alike, so is what another track told
\* (set_stream_information_for_album_entry, __select_played_track).
EntriesTrue ==
  \A e \in Shown :
    /\ e.source \in {"known", "asked"} => True(e)
    /\ Alike(AlbumOf[e.track]) =>
         /\ e.source = "assumed" => True(e)
         /\ e.source = "guessed" /\ (\E i \in DOMAIN played[AlbumOf[e.track]] : Complete(played[AlbumOf[e.track]][i].info))
              => True(e)
\* A page of one album asks the service for a stream once at most, another one up
\* to the limit, failures included (CANNOT_GET_STREAM_INFO, GET_STREAM_COUNT).
FewRequests == page.tries <= IF OneAlbum THEN 1 ELSE AskLimit
\* An album that the service told of is not asked for again, on any page, as
\* long as its rows are there and guessing from them is allowed
\* (track_ghost_playback, get_or_load_played_album_tracks).
AskedOnce == options.guess => ~again
=============================================================================
