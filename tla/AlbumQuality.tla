----------------------------- MODULE AlbumQuality -----------------------------
(***************************************************************************)
(* What the Subsonic plugin tells about the quality of a list of songs: a  *)
(* badge, a summary with counts, a status.  Computed from the suffix, the  *)
(* bit depth and the sampling rate of the songs, which may be missing.     *)
(* The songs come one after the other: every list is a state.              *)
(***************************************************************************)
EXTENDS Integers, Sequences, FiniteSets, FiniteSetsExt

CONSTANTS Songs,      \* [suffix, depth, rate]
          Lossless,   \* the suffixes of lossless codecs
          Whitelist,  \* the codecs that a badge does not name
          Missing,    \* a depth or a rate that the server does not tell
          MaxSongs

VARIABLE list
vars == <<list>>

is_lossless(suffix) == suffix \in Lossless
is_lossy(s) == s.depth \in {Missing, 0} \/ ~is_lossless(s.suffix)
calc_song_resolution(s) ==
  IF is_lossy(s) \/ (s.depth # 1 /\ s.depth < 16) THEN "low"
  ELSE IF s.depth = 16 /\ s.rate \in {44100, 48000} THEN "standard"
  ELSE IF (s.depth = 1 /\ s.rate # 0 /\ s.rate % 2822400 = 0) \/ (s.depth > 16 /\ s.rate >= 44100) THEN "hires"
  ELSE "low"

InList(l) == {l[i] : i \in DOMAIN l}
Depths(l) == {s.depth : s \in InList(l)} \ {Missing}
Rates(l) == {s.rate : s \in InList(l)} \ {Missing}
Suffixes(l) == {s.suffix : s \in InList(l)}

\* A badge: its form, and whether it is marked with "~".
NoSuffix == "no suffix"
Badge(form, suffix, depth, rate, about) == [form |-> form, suffix |-> suffix, depth |-> depth, rate |-> rate, about |-> about]
NoBadge == Badge("none", NoSuffix, 0, 0, FALSE)
UniqueSuffix(l) == IF Cardinality(Suffixes(l)) = 1 THEN CHOOSE x \in Suffixes(l) : TRUE ELSE NoSuffix
NamedSuffix(l) == IF UniqueSuffix(l) \in Whitelist THEN NoSuffix ELSE UniqueSuffix(l)
lossy_badge(l) ==
  Badge("lossy", UniqueSuffix(l), 0, IF UniqueSuffix(l) # NoSuffix /\ Cardinality(Rates(l)) = 1 THEN Max(Rates(l)) ELSE 0, FALSE)
various_badge(l) ==
  LET best == Max(Depths(l))   rate == Max(Rates(l))
  IN IF best >= 24 /\ rate >= 44100
     THEN Badge("HD", NoSuffix, 0, 0, ~(Min(Depths(l)) >= 24 /\ Min(Rates(l)) >= 44100))
     ELSE IF best = 16 /\ rate = 44100 THEN Badge("CD", NoSuffix, 0, 0, TRUE)
     ELSE Badge("exact", NoSuffix, best, rate, TRUE)
uniform_badge(l) == Badge("exact", NamedSuffix(l), Max(Depths(l)), Max(Rates(l)), Cardinality(Suffixes(l)) > 1)
calc_song_list_quality_badge(l) ==
  IF l = <<>> \/ Depths(l) = {} \/ Rates(l) = {} THEN NoBadge
  ELSE IF \A s \in InList(l) : is_lossy(s) THEN lossy_badge(l)
  ELSE IF Cardinality(Depths(l)) > 1 \/ Cardinality(Rates(l)) > 1 THEN various_badge(l)
  ELSE uniform_badge(l)

SongsLike(l, p(_)) == Cardinality({i \in DOMAIN l : p(l[i])})
\* The badges of the songs with their counts, or how many are lossless and lossy.
SongBadge(s) == calc_song_list_quality_badge(<<s>>)
Badged(s) == SongBadge(s) # NoBadge
Part(about, songs) == [about |-> about, songs |-> songs]
ByStatus(l) ==
  {Part("lossy", SongsLike(l, LAMBDA s : is_lossy(s))), Part("lossless", SongsLike(l, LAMBDA s : ~is_lossy(s)))}
ByBadge(l) ==
  {Part(SongBadge(s), SongsLike(l, LAMBDA t : SongBadge(t) = SongBadge(s))) : s \in {u \in InList(l) : Badged(u)}}
TooMany(l) ==
  LET kinds(p(_)) == Cardinality({SongBadge(s) : s \in {u \in InList(l) : Badged(u) /\ p(u)}})
  IN kinds(LAMBDA s : is_lossy(s)) > 3 \/ kinds(LAMBDA s : ~is_lossy(s)) > 3
Varied(l) == (\E s \in InList(l) : is_lossy(s)) /\ (\E s \in InList(l) : ~is_lossy(s))
\* A list whose songs have no badge at all has no summary: the code raises.
calc_song_quality_summary(l) == IF Varied(l) \/ TooMany(l) THEN ByStatus(l) ELSE ByBadge(l)

calc_lossless_status(l) ==
  IF Varied(l) THEN "mixed" ELSE IF \A s \in InList(l) : is_lossy(s) THEN "lossy" ELSE "lossless"
\* The status of the album browser: of every suffix; two of them are "mixed".
SuffixStatus(l) ==
  IF Cardinality(Suffixes(l)) = 2 THEN "mixed"
  ELSE IF Cardinality(Suffixes(l)) = 1 THEN (IF \A x \in Suffixes(l) : is_lossless(x) THEN "lossless" ELSE "lossy")
  ELSE "none"

-----------------------------------------------------------------------------
AddSong(s) == Len(list) < MaxSongs /\ list' = Append(list, s)
Init == list = <<>>
Next == \E s \in Songs : AddSong(s)
Spec == Init /\ [][Next]_vars

-----------------------------------------------------------------------------
(* Properties. *)

\* A badge without "~" tells the least of what the songs have, as far as the
\* server tells it, and lossless songs with the badge "HD" are all of high
\* resolution (calc_song_list_quality_badge, calc_song_resolution).
BadgeHonest ==
  LET b == calc_song_list_quality_badge(list)
  IN ~b.about =>
       \A s \in InList(list) :
         /\ b.form = "HD" => s.depth = Missing \/ s.depth >= 24
         /\ b.form = "HD" /\ ~is_lossy(s) => calc_song_resolution(s) = "hires"
         /\ b.form = "exact" => s.depth \in {Missing, b.depth} /\ s.rate \in {Missing, b.rate}
         /\ b.form = "lossy" => is_lossy(s)
\* The counts of a summary add up to the songs, unless one without bit depth or
\* sampling rate is left out; and an album of one suffix with known bit depths
\* has the same status in its metadata as in the album browser
\* (calc_song_quality_summary, calc_lossless_status).
SummaryAdds ==
  (\A s \in InList(list) : Badged(s)) =>
    /\ MapThenSumSet(LAMBDA p : p.songs, calc_song_quality_summary(list)) = Len(list)
    /\ Cardinality(Suffixes(list)) = 1 /\ 0 \notin Depths(list) => SuffixStatus(list) = calc_lossless_status(list)

=============================================================================
