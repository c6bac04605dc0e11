-------------------------- MODULE Playlist_proofs --------------------------
(***************************************************************************)
(* What holds of the Playlist service for any number of URIs, songs,       *)
(* actions and changes by other clients: who holds the mutexes, that no    *)
(* change of the set of songs that the metadata cache knows is kept from   *)
(* the disk, and that SeekId plays the song that its id stood for when it  *)
(* was given out.                                                          *)
(*                                                                         *)
(* For the last, MPD never uses an id twice, and mpd.names has the URI of  *)
(* each id.  The invariant is that MPD's queue and the saved one agree     *)
(* with mpd.names; idFromOldId() then goes from an id to its URI to        *)
(* another id of it.                                                       *)
(***************************************************************************)
EXTENDS Playlist, SequenceTheorems, WellFoundedInduction, TLAPS


\* MutexesHeld is inductive, but for the shape of the record that describes the
\* action that runs.
HeldInv == MutexesHeld /\ locked \in BOOLEAN /\ "pc" \in DOMAIN ctl

\* One lemma for each group of actions: they leave HeldInv true.

LEMMA BeginHeld == ASSUME HeldInv, Begin PROVE HeldInv'
<1> DEFINE First == {"cacheset", "map", "playid", "play", "playpos", "clear", "enter", "stat", "stopcur"}
<1>1. UNCHANGED <<holder, ntf, locked>> /\ ctl.pc = "idle"
  BY DEF Begin, CanBegin, mpdVars, state
<1>2. ASSUME NEW op, NEW id, NEW u, NEW pc \in First, Start(op, id, u, pc)
      PROVE  ctl'.pc \in First /\ "pc" \in DOMAIN ctl'
  BY ONLY <1>2 DEF Start, NoCall
<1>3. ctl'.pc \in First /\ "pc" \in DOMAIN ctl'
  <2>1. CASE StartInsert
    BY <1>2, <2>1 DEF StartInsert
  <2>2. CASE StartSeek
    BY <1>2, <2>2 DEF StartSeek
  <2>3. CASE StartPlay \/ StartIndex \/ StartSwitch
    BY <1>2, <2>3 DEF StartPlay, StartIndex, StartSwitch
  <2>4. CASE StartLeave \/ StartArray
    BY <1>2, <2>4 DEF StartLeave, StartArray
  <2>5. CASE StartRead \/ StartDelete
    BY <1>2, <2>5 DEF StartRead, StartDelete
  <2> QED
    BY <2>1, <2>2, <2>3, <2>4, <2>5 DEF Begin
<1> QED
  BY <1>1, <1>3 DEF HeldInv, MutexesHeld

LEMMA AtOnceHeld ==
  ASSUME HeldInv, DeleteAll \/ Halt \/ Skip \/ DeleteSaved \/ Others PROVE HeldInv'
<1> USE DEF HeldInv, MutexesHeld, CanBegin, Call, state
<1>1. CASE DeleteAll
  BY <1>1 DEF DeleteAll
<1>2. CASE Halt
  BY <1>2 DEF Halt
<1>3. CASE Skip
  BY <1>3 DEF Skip
<1>4. CASE DeleteSaved
  BY <1>4 DEF DeleteSaved, mpdVars
<1>5. CASE Others
  BY <1>5 DEF Others, Foreign, ForeignChange, plVars
<1> QED
  BY <1>1, <1>2, <1>3, <1>4, <1>5

LEMMA NtfHeld == ASSUME HeldInv, NtfStep PROVE HeldInv'
<1> USE DEF HeldInv, MutexesHeld, Threads, ntfOnly
<1>1. CASE Wake
  BY <1>1 DEF Wake
<1>2. CASE Update
  BY <1>2 DEF Update, CallStatus
<1>3. CASE Notify
  BY <1>3 DEF Notify, EnterState, mpdVars
<1>4. CASE Build
  BY <1>4 DEF Build, Leave, mpdVars
<1> QED
  BY <1>1, <1>2, <1>3, <1>4 DEF NtfStep

\* The control thread while it holds no mutex, or takes and releases m_mutex.
LEMMA CtlHeld ==
  ASSUME HeldInv, CtlStep PROVE HeldInv'
<1> USE DEF HeldInv, MutexesHeld, Threads, At, Goto, Reply, NoCall, Call, CallStatus, state
<1>1. CASE Clear \/ Restore \/ Tell \/ Activate
  BY <1>1 DEF Clear, Restore, RestoreState, Tell, Activate, mpdVars
<1>2. CASE Map
  BY <1>2 DEF Map, mpdVars
<1>3. CASE PlayId \/ Play \/ PlayPos
  BY <1>3 DEF PlayId, Play, PlayPos
<1>4. CASE CacheSet \/ Find
  BY <1>4 DEF CacheSet, Find, mpdVars
<1>5. CASE FindPlace \/ Add \/ AddRecord
  BY <1>5 DEF FindPlace, Locate, Add, AddAt, AddRecord, AddDone
<1>6. CASE Stat
  BY <1>6 DEF Stat, mpdVars
<1>7. CASE StopCurrent \/ Delete
  BY <1>7 DEF StopCurrent, Delete
<1>8. CASE Enter
  BY <1>8 DEF Enter, EnterState, mpdVars
<1>9. CASE Array \/ Freeze
  BY <1>9 DEF Array, Freeze, Leave, mpdVars
<1>10. CASE Save \/ Quit
  BY <1>10 DEF Save, Quit, Leave
<1> QED
  BY <1>1, <1>2, <1>3, <1>4, <1>5, <1>6, <1>7, <1>8, <1>9, <1>10 DEF CtlStep

\* m_statemutex and m_mutex are held exactly in the sections that take them in
\* ohplaylist.cxx and mpdcli.cxx, by one thread at a time.
THEOREM MutualExclusion == PlSpec => []MutexesHeld
<1>1. PlInit => HeldInv
  <2> SUFFICES ASSUME PlInit PROVE HeldInv
    OBVIOUS
  <2>1. locked = FALSE
    BY DEF PlInit, MpdInit
  <2>2. holder = "none" /\ ntf = "notify" /\ ctl = NoCall
    BY Zenon DEF PlInit
  <2> QED
    BY <2>1, <2>2 DEF HeldInv, MutexesHeld, NoCall, Threads
<1>2. HeldInv /\ [PlNext]_vars => HeldInv'
  <2> SUFFICES ASSUME HeldInv, PlNext \/ UNCHANGED vars PROVE HeldInv'
    OBVIOUS
  <2>1. CASE UNCHANGED vars
    BY <2>1 DEF HeldInv, MutexesHeld, vars, mpdVars, plVars
  <2> QED
    BY <2>1, BeginHeld, AtOnceHeld, NtfHeld, CtlHeld DEF PlNext
<1>3. HeldInv => MutexesHeld
  BY DEF HeldInv
<1> QED
  BY <1>1, <1>2, <1>3, PTL DEF PlSpec

-----------------------------------------------------------------------------
\* DiskFollows is inductive.

\* makeIdArray() changes the songs of the cache only along with the snapshot.
LEMMA ArrayFollows == ASSUME NEW s, DiskFollows, MakeIdArray(s) PROVE DiskFollows'
<1>1. CASE s.vers = qvers
  BY <1>1 DEF MakeIdArray, DiskFollows
<1>2. CASE s.vers # qvers /\ ~ active
  BY <1>2 DEF MakeIdArray, DiskFollows
<1>3. CASE s.vers # qvers /\ active
  <2>1. MaintainCache
    BY <1>3 DEF MakeIdArray
  <2>2. DOMAIN cache' = UrisOf(mpd.queue)
    BY <2>1 DEF MaintainCache, NewCache
  <2>3. CASE UrisOf(mpd.queue) = DOMAIN cache /\ ~ dirty
    BY <2>1, <2>2, <2>3 DEF MaintainCache, DiskFollows
  <2>4. CASE ~ (UrisOf(mpd.queue) = DOMAIN cache /\ ~ dirty)
    BY <2>1, <2>4 DEF MaintainCache, DiskFollows
  <2> QED
    BY <2>3, <2>4
<1> QED
  BY <1>1, <1>2, <1>3

\* The snapshot queued last for the disk has the songs that the cache knows,
\* whenever m_cachedirty is false: makeIdArray() and cacheSet() see to it.
THEOREM DiskFollowsCache == PlSpec => []DiskFollows
<1>1. PlInit => DiskFollows
  BY DEF PlInit, DiskFollows
<1>2. DiskFollows /\ [PlNext]_vars => DiskFollows'
  <2> SUFFICES ASSUME DiskFollows, PlNext \/ UNCHANGED vars PROVE DiskFollows'
    OBVIOUS
  <2>1. CASE UNCHANGED <<cache, sent, dirty>>
    BY <2>1 DEF DiskFollows
  <2>2. CASE CacheSet
    BY <2>2 DEF CacheSet, DiskFollows
  <2>3. CASE Build \/ Array \/ Freeze
    BY <2>3, ArrayFollows DEF Build, Array, Freeze
  <2>4. CASE Begin \/ DeleteAll \/ Halt \/ Skip \/ DeleteSaved
    BY <2>1, <2>4 DEF Begin, DeleteAll, Halt, Skip, DeleteSaved, state
  <2>5. CASE Wake \/ Update \/ Notify
    BY <2>1, <2>5 DEF Wake, Update, Notify
  <2>6. CASE Clear \/ Restore \/ Tell \/ Activate \/ Map \/ PlayId \/ Play \/ PlayPos
    BY <2>1, <2>6 DEF Clear, Restore, Tell, Activate, Map, PlayId, Play, PlayPos, state
  <2>7. CASE FindPlace \/ Add \/ AddRecord \/ Stat \/ Find \/ StopCurrent \/ Delete
    BY <2>1, <2>7 DEF FindPlace, Add, AddRecord, Stat, Find, StopCurrent, Delete, state
  <2>8. CASE Enter \/ Save \/ Quit
    BY <2>1, <2>8 DEF Enter, Save, Quit
  <2>9. CASE Others \/ UNCHANGED vars
    BY <2>1, <2>9 DEF Others, vars, plVars
  <2> QED
    BY <2>2, <2>3, <2>4, <2>5, <2>6, <2>7, <2>8, <2>9 DEF PlNext, CtlStep, NtfStep
<1> QED
  BY <1>1, <1>2, PTL DEF PlSpec

-----------------------------------------------------------------------------
\* The songs that have the ids and the URIs of names.
SongsOf(names) ==
  {s \in [id : Nat, uri : Uris] : s.id \in 1 .. Len(names) /\ s.uri = names[s.id]}

Whole(m) ==
  /\ {"queue", "names", "cur", "state", "title", "vers", "event"} \subseteq DOMAIN m
  /\ m.names \in Seq(Uris)
  /\ m.queue \in Seq(SongsOf(m.names))

\* Ids keep their URIs from m to n.
Extends(m, n) ==
  /\ Len(m.names) <= Len(n.names)
  /\ \A i \in 1 .. Len(m.names) : n.names[i] = m.names[i]

-----------------------------------------------------------------------------
\* Facts about the operators on sequences.

LEMMA LeastExists == ASSUME NEW S, S \subseteq Nat, S # {} PROVE Min(S) \in S
<1> DEFINE R == {ss \in Nat \X Nat : ss[1] < ss[2]}
<1>1. IsWellFoundedOn(R, Nat)
  BY Zenon, NatLessThanWellFounded DEF OpToRel
<1>2. PICK x \in S : \A y \in S : ~ (<<y, x>> \in R)
  BY <1>1, WFMin
<1>3. ASSUME NEW y \in S PROVE x <= y
  <2>1. x \in Nat /\ y \in Nat
    OBVIOUS
  <2>2. y < x => <<y, x>> \in R
    BY <2>1
  <2> QED
    BY <1>2, <2>1, <2>2
<1> QED
  BY <1>3 DEF Min

\* IndexOf() is 0 or the place of the song.
LEMMA IndexOfFinds ==
  ASSUME NEW q, Len(q) \in Nat, NEW id, IndexOf(q, id) # 0
  PROVE  IndexOf(q, id) \in 1 .. Len(q) /\ q[IndexOf(q, id)].id = id
<1> DEFINE I == {i \in 1 .. Len(q) : q[i].id = id}
<1>1. IndexOf(q, id) = IF I # {} THEN Min(I) ELSE 0
  BY DEF IndexOf, SelectInSeq
<1>2. I # {} /\ I \subseteq Nat
  BY <1>1
<1>3. Min(I) \in I
  BY <1>2, LeastExists
<1> QED
  BY <1>1, <1>2, <1>3

LEMMA InsertIsSeq ==
  ASSUME NEW S, NEW q \in Seq(S), NEW e \in S, NEW i \in 0 .. Len(q)
  PROVE  InsertAt(q, i + 1, e) \in Seq(S)
<1>1. SubSeq(q, 1, i) \in Seq(S)
  BY SubSeqProperties
<1>2. SubSeq(q, i + 1, Len(q)) \in Seq(S)
  BY SubSeqProperties
<1>3. <<e>> \in Seq(S)
  BY IsASeq
<1>4. (i + 1) - 1 = i
  OBVIOUS
<1> QED
  BY <1>1, <1>2, <1>3, <1>4, ConcatProperties DEF InsertAt

LEMMA RemoveIsSeq ==
  ASSUME NEW S, NEW q \in Seq(S), NEW i \in 1 .. Len(q)
  PROVE  RemoveAt(q, i) \in Seq(S)
<1>1. SubSeq(q, 1, i - 1) \in Seq(S)
  BY SubSeqProperties
<1>2. SubSeq(q, i + 1, Len(q)) \in Seq(S)
  BY SubSeqProperties
<1> QED
  BY <1>1, <1>2, ConcatProperties DEF RemoveAt

\* Songs that agree with names agree with what names becomes.
LEMMA SongsStay ==
  ASSUME NEW m, NEW n, m.names \in Seq(Uris), n.names \in Seq(Uris), Extends(m, n)
  PROVE  SongsOf(m.names) \subseteq SongsOf(n.names)
BY DEF SongsOf, Extends

LEMMA QueueStays ==
  ASSUME NEW m, NEW n, m.names \in Seq(Uris), n.names \in Seq(Uris), Extends(m, n),
         NEW q \in Seq(SongsOf(m.names))
  PROVE  q \in Seq(SongsOf(n.names))
BY SongsStay, SeqMonotonic

\* IndexOf() finds a song that is there.
LEMMA IndexOfMember ==
  ASSUME NEW q, Len(q) \in Nat, NEW i \in 1 .. Len(q) PROVE IndexOf(q, q[i].id) # 0
<1> DEFINE I == {j \in 1 .. Len(q) : q[j].id = q[i].id}
<1>1. IndexOf(q, q[i].id) = IF I # {} THEN Min(I) ELSE 0
  BY DEF IndexOf, SelectInSeq
<1>2. I # {} /\ I \subseteq 1 .. Len(q) /\ I \subseteq Nat
  OBVIOUS
<1>3. Min(I) \in I
  BY <1>2, LeastExists
<1> QED
  BY <1>1, <1>2, <1>3

-----------------------------------------------------------------------------
\* The commands of MPD keep it whole, and never change the URI of an id.

Better(m, n) == Whole(n) /\ Extends(m, n)

LEMMA BetterTransitive ==
  ASSUME NEW l, NEW m, NEW n, Whole(l), Better(l, m), Better(m, n) PROVE Better(l, n)
BY LenProperties DEF Better, Whole, Extends

\* A change that leaves the queue and the names alone.
LEMMA SameQueue ==
  ASSUME NEW m, Whole(m), NEW n, DOMAIN n = DOMAIN m, n.queue = m.queue, n.names = m.names
  PROVE  Better(m, n)
BY LenProperties DEF Better, Whole, Extends

LEMMA CurrentBetter ==
  ASSUME NEW m, Whole(m), NEW id PROVE Better(m, Current(m, id))
<1> DEFINE n == Current(m, id)
<1>1. DOMAIN n = DOMAIN m /\ n.queue = m.queue /\ n.names = m.names
  BY DEF Current, Whole
<1> QED
  BY <1>1, SameQueue

LEMMA AddedBetter ==
  ASSUME NEW m, Whole(m), NEW u \in Uris, NEW pos \in 0 .. Len(m.queue)
  PROVE  Better(m, Added(m, pos, u))
<1> DEFINE n == Added(m, pos, u)
           e == [id |-> Len(m.names) + 1, uri |-> u]
<1>1. /\ DOMAIN n = DOMAIN m
      /\ n.names = Append(m.names, u)
      /\ n.queue = InsertAt(m.queue, pos + 1, e)
  BY DEF Added, NextId, Whole
<1>2. n.names \in Seq(Uris) /\ Extends(m, n)
  BY <1>1, AppendProperties DEF Whole, Extends
<1>3. e \in SongsOf(n.names)
  BY <1>1, AppendProperties DEF Whole, SongsOf
<1>4. m.queue \in Seq(SongsOf(n.names))
  BY <1>2, QueueStays DEF Whole
<1>5. n.queue \in Seq(SongsOf(n.names))
  BY <1>1, <1>3, <1>4, InsertIsSeq
<1> QED
  BY <1>1, <1>2, <1>5 DEF Better, Whole
\* A change of the queue that takes songs out of it.
LEMMA FewerBetter ==
  ASSUME NEW m, Whole(m), NEW n, DOMAIN n = DOMAIN m, n.names = m.names,
         n.queue \in Seq(SongsOf(m.names))
  PROVE  Better(m, n)
BY LenProperties DEF Better, Whole, Extends

LEMMA DeletedBetter ==
  ASSUME NEW m, Whole(m), NEW id, IndexOf(m.queue, id) # 0
  PROVE  Better(m, Deleted(m, id))
<1> DEFINE i == IndexOf(m.queue, id)
           n == [m EXCEPT !.queue = RemoveAt(@, i), !.vers = @ + 1, !.event = TRUE]
           h == [n EXCEPT !.state = "stop"]
<1>1. i \in 1 .. Len(m.queue)
  BY IndexOfFinds, LenProperties DEF Whole
<1>2. RemoveAt(m.queue, i) \in Seq(SongsOf(m.names))
  BY <1>1, RemoveIsSeq DEF Whole
<1>3. DOMAIN n = DOMAIN m /\ n.names = m.names /\ n.queue = RemoveAt(m.queue, i)
  BY DEF Whole
<1>4. Better(m, n)
  BY <1>2, <1>3, FewerBetter
<1>5. DOMAIN h = DOMAIN n /\ h.names = n.names /\ h.queue = n.queue
  BY <1>3 DEF Whole
<1>6. Better(n, h)
  BY <1>4, <1>5, SameQueue DEF Better
<1>7. Better(n, Current(n, m.queue[i + 1].id)) /\ Better(h, Current(h, NoSong))
  BY <1>4, <1>6, CurrentBetter DEF Better
<1>8. Deleted(m, id) \in {n, Current(n, m.queue[i + 1].id), Current(h, NoSong)}
  BY DEF Deleted
<1> HIDE DEF n, h
<1> QED
  BY <1>4, <1>6, <1>7, <1>8, BetterTransitive

LEMMA ClearedBetter == ASSUME NEW m, Whole(m) PROVE Better(m, Cleared(m))
<1> DEFINE n == [m EXCEPT !.queue = <<>>, !.vers = @ + 1, !.state = "stop"]
<1>1. DOMAIN n = DOMAIN m /\ n.names = m.names /\ n.queue = <<>>
  BY DEF Whole
<1>2. Better(m, n)
  BY <1>1, EmptySeq, FewerBetter
<1>3. Better(n, Current(n, NoSong))
  BY <1>2, CurrentBetter DEF Better
<1>4. Cleared(m) = Current(n, NoSong)
  BY DEF Cleared
<1> HIDE DEF n
<1> QED
  BY <1>2, <1>3, <1>4, BetterTransitive

LEMMA PlayedBetter ==
  ASSUME NEW m, Whole(m), NEW id PROVE Better(m, Played(m, id)) /\ Played(m, id).cur = id
<1> DEFINE n == [m EXCEPT !.state = "play"]
<1>1. DOMAIN n = DOMAIN m /\ n.names = m.names /\ n.queue = m.queue
  BY DEF Whole
<1>2. Better(m, n)
  BY <1>1, SameQueue
<1>3. Better(n, Current(n, id)) /\ Current(n, id).cur = id
  BY <1>2, CurrentBetter DEF Better, Whole, Current
<1>4. Played(m, id) = Current(n, id)
  BY DEF Played
<1> HIDE DEF n
<1> QED
  BY <1>2, <1>3, <1>4, BetterTransitive

LEMMA HaltedBetter ==
  ASSUME NEW m, Whole(m) PROVE Better(m, Paused(m)) /\ Better(m, Stopped(m))
<1>1. ASSUME NEW n \in {Paused(m), Stopped(m)}
      PROVE  DOMAIN n = DOMAIN m /\ n.names = m.names /\ n.queue = m.queue
  BY <1>1 DEF Paused, Stopped, Whole
<1> QED
  BY <1>1, SameQueue

LEMMA PlayedAnyBetter == ASSUME NEW m, Whole(m) PROVE Better(m, PlayedAny(m))
BY PlayedBetter, SameQueue DEF PlayedAny

LEMMA SkippedBetter == ASSUME NEW m, Whole(m), NEW by PROVE Better(m, Skipped(m, by))
<1> DEFINE h == [m EXCEPT !.state = "stop"]
<1>1. DOMAIN h = DOMAIN m /\ h.names = m.names /\ h.queue = m.queue
  BY DEF Whole
<1>2. Better(m, h)
  BY <1>1, SameQueue
<1>3. Better(h, Current(h, NoSong))
  BY <1>2, CurrentBetter DEF Better
<1>4. Better(m, Current(h, NoSong))
  BY <1>2, <1>3, BetterTransitive
<1> QED
  BY <1>4, PlayedBetter DEF Skipped
\* Songs that get the ids after those of names, in order.
LEMMA CopiesAgree ==
  ASSUME NEW names \in Seq(Uris), NEW n \in Nat, NEW N \in [1 .. n -> Uris],
         NEW Q, Q = [i \in 1 .. n |-> [id |-> Len(names) + 1 + i - 1, uri |-> N[i]]]
  PROVE  /\ names \o N \in Seq(Uris)
         /\ Len(names) <= Len(names \o N)
         /\ \A i \in 1 .. Len(names) : (names \o N)[i] = names[i]
         /\ Q \in Seq(SongsOf(names \o N))
<1>1. N \in Seq(Uris) /\ Len(N) = n /\ Len(names) \in Nat
  <2>1. N \in Seq(Uris)
    BY SeqDef
  <2> QED
    BY <2>1, LenProperties
<1> DEFINE l == Len(names)
           c == names \o N
<1>2. c \in Seq(Uris) /\ Len(c) = l + n
  BY <1>1, ConcatProperties
<1>3. \A i \in 1 .. l + n : c[i] = IF i <= l THEN names[i] ELSE N[i - l]
  BY <1>1, ConcatProperties
<1> HIDE DEF c
<1>4. ASSUME NEW i \in 1 .. n PROVE Q[i] \in SongsOf(c)
  <2>1. Q[i] = [id |-> l + i, uri |-> N[i]]
    BY <1>1
  <2>2. l + i \in 1 .. l + n /\ ~ (l + i <= l) /\ (l + i) - l = i
    BY <1>1
  <2>3. l + i \in Nat /\ N[i] \in Uris
    BY <1>1
  <2> HIDE DEF l
  <2>4. c[l + i] = N[(l + i) - l]
    BY Zenon, <1>3, <2>2
  <2>5. l + i \in 1 .. Len(c) /\ c[l + i] = N[i]
    BY <1>2, <2>2, <2>4
  <2> QED
    BY <2>1, <2>3, <2>5 DEF SongsOf
<1>5. Q \in [1 .. n -> SongsOf(c)]
  BY <1>4
<1>6. Q \in Seq(SongsOf(c))
  BY <1>5, SeqDef
<1>7. l <= Len(c) /\ \A i \in 1 .. l : c[i] = names[i]
  BY <1>1, <1>2, <1>3
<1> QED
  BY <1>2, <1>6, <1>7 DEF c

LEMMA RestoredBetter ==
  ASSUME NEW st, Whole(mpd), st.queue \in Seq(SongsOf(mpd.names))
  PROVE  Better(mpd, Restored(st)) /\ Better(mpd, Paused(Restored(st)))
<1> DEFINE c == Cleared(mpd)
           n == Len(st.queue)
           N == [i \in 1 .. n |-> st.queue[i].uri]
           Q == [i \in 1 .. n |-> [id |-> NextId(c) + i - 1, uri |-> st.queue[i].uri]]
           full == [c EXCEPT !.queue = Q, !.names = @ \o N, !.vers = @ + n]
<1>1. Better(mpd, c)
  BY ClearedBetter
<1>2. n \in Nat /\ \A i \in 1 .. n : st.queue[i].uri \in Uris
  BY LenProperties, ElementOfSeq DEF SongsOf
<1>3. N \in [1 .. n -> Uris]
  BY <1>2
<1>4. Q = [i \in 1 .. n |-> [id |-> Len(c.names) + 1 + i - 1, uri |-> N[i]]]
  BY DEF NextId
<1>5. c.names \in Seq(Uris)
  BY <1>1 DEF Better, Whole
<1> HIDE DEF c, N, Q, n
<1>6. /\ c.names \o N \in Seq(Uris)
      /\ Len(c.names) <= Len(c.names \o N)
      /\ \A i \in 1 .. Len(c.names) : (c.names \o N)[i] = c.names[i]
      /\ Q \in Seq(SongsOf(c.names \o N))
  BY <1>2, <1>3, <1>4, <1>5, CopiesAgree
<1>7. DOMAIN full = DOMAIN c /\ full.names = c.names \o N /\ full.queue = Q
  BY <1>1 DEF Better, Whole
<1>8. Better(c, full)
  BY <1>1, <1>6, <1>7 DEF Better, Whole, Extends
<1>9. Better(full, Played(full, full.queue[st.pos].id))
  BY <1>8, PlayedBetter DEF Better
<1>10. Restored(st) \in {full, Played(full, full.queue[st.pos].id)}
  BY DEF Restored, full, c, N, Q, n
<1> HIDE DEF full
<1>11. Better(mpd, full)
  BY <1>1, <1>8, BetterTransitive
<1>12. Better(mpd, Restored(st))
  BY <1>9, <1>10, <1>11, BetterTransitive
<1>13. Better(Restored(st), Paused(Restored(st)))
  BY <1>12, HaltedBetter DEF Better
<1> QED
  BY <1>12, <1>13, BetterTransitive

-----------------------------------------------------------------------------
\* The invariant.

CallOK ==
  /\ {"pc", "op", "id", "to", "pos", "uri", "meta", "ok"} \subseteq DOMAIN ctl
  /\ ctl.pos \in Nat
  /\ ctl.op = "insert" => ctl.uri \in Uris
  /\ ctl.pc \in {"locate", "add"} => ctl.op = "insert"
  /\ ctl.pc = "stat" => ctl.op = "read"
  /\ ctl.pc = "playid" =>
       ctl.id \in KnownIds /\ ctl.to \in KnownIds /\ mpd.names[ctl.to] = mpd.names[ctl.id]

IdInv ==
  /\ Whole(mpd)
  /\ {"queue", "state", "pos"} \subseteq DOMAIN saved
  /\ saved.queue \in Seq(SongsOf(mpd.names))
  /\ {"id", "pos", "vers"} \subseteq DOMAIN last /\ last.pos \in Int
  /\ CallOK
-----------------------------------------------------------------------------
\* Facts that serve every step.

LEMMA Same == ASSUME Whole(mpd), UNCHANGED mpd PROVE Better(mpd, mpd')
BY SameQueue

LEMMA KnownStay ==
  ASSUME IdInv, Better(mpd, mpd')
  PROVE  /\ KnownIds \subseteq KnownIds'
         /\ \A i \in KnownIds : mpd'.names[i] = mpd.names[i]
BY LenProperties DEF IdInv, Better, Whole, Extends, KnownIds

\* What is left to show of a step that changes neither saved nor last.
LEMMA Carry ==
  ASSUME IdInv, Better(mpd, mpd'), UNCHANGED <<saved, last>>, CallOK' PROVE IdInv'
BY QueueStays DEF IdInv, Better, Whole

LEMMA CallStays ==
  ASSUME IdInv, Better(mpd, mpd'), UNCHANGED ctl PROVE CallOK'
BY KnownStay DEF CallOK, IdInv

LEMMA CallEnds == ASSUME NEW b, Reply(b) PROVE CallOK'
BY DEF CallOK, Reply, NoCall

LEMMA CallGoes ==
  ASSUME CallOK, NEW p, p \notin {"locate", "add", "stat", "playid"}, Goto(p)
  PROVE  CallOK'
BY DEF CallOK, Goto

-----------------------------------------------------------------------------
\* One lemma for each group of actions.

LEMMA Started ==
  ASSUME UNCHANGED mpd, NEW op, NEW id, NEW u, NEW pc, Start(op, id, u, pc),
         op = "insert" => u \in Uris, pc \notin {"locate", "add"},
         pc = "stat" => op = "read" /\ active, pc = "playid" => id \in KnownIds
  PROVE  CallOK'
<1> DEFINE p == IF active THEN pc ELSE "clear"
<1>1. ctl' = [NoCall EXCEPT !.pc = p, !.op = op, !.id = id, !.to = id, !.uri = u]
  BY DEF Start
<1>2. /\ {"pc", "op", "id", "to", "pos", "uri", "meta", "ok"} \subseteq DOMAIN ctl'
      /\ ctl'.pc = p /\ ctl'.op = op /\ ctl'.id = id /\ ctl'.to = id /\ ctl'.uri = u
      /\ ctl'.pos \in Nat
  BY <1>1 DEF NoCall
<1>3. p \notin {"locate", "add"} /\ (p = "stat" => op = "read") /\ (p = "playid" => id \in KnownIds)
  OBVIOUS
<1> HIDE DEF p
<1> QED
  BY <1>2, <1>3 DEF CallOK, KnownIds

LEMMA BeginIds == ASSUME IdInv, Begin PROVE IdInv'
<1>1. UNCHANGED <<mpd, saved, last>>
  BY DEF Begin, mpdVars, state
<1>2. Better(mpd, mpd')
  BY <1>1, Same DEF IdInv
<1>3. CallOK'
  <2>1. CASE StartInsert
    BY <1>1, <2>1, Started DEF StartInsert
  <2>2. CASE StartSeek
    BY <1>1, <2>2, Started DEF StartSeek
  <2>3. CASE StartPlay \/ StartIndex \/ StartSwitch \/ StartLeave
    BY <1>1, <2>3, Started DEF StartPlay, StartIndex, StartSwitch, StartLeave
  <2>4. CASE StartArray \/ StartRead \/ StartDelete
    BY <1>1, <2>4, Started DEF StartArray, StartRead, StartDelete
  <2> QED
    BY <2>1, <2>2, <2>3, <2>4 DEF Begin
<1> QED
  BY <1>1, <1>2, <1>3, Carry

LEMMA ForeignBetter == ASSUME Whole(mpd), Foreign PROVE Better(mpd, mpd') /\ UNCHANGED last
<1> USE DEF ForeignChange
<1>1. CASE \E u \in Uris, pos \in 0 .. Len(mpd.queue) : ForeignChange(Added(mpd, pos, u))
  BY <1>1, AddedBetter
<1>2. CASE \E i \in DOMAIN mpd.queue : ForeignChange(Deleted(mpd, mpd.queue[i].id))
  <2>1. PICK i \in DOMAIN mpd.queue : ForeignChange(Deleted(mpd, mpd.queue[i].id))
    BY <1>2
  <2>2. Len(mpd.queue) \in Nat /\ i \in 1 .. Len(mpd.queue)
    BY LenProperties DEF Whole
  <2>3. IndexOf(mpd.queue, mpd.queue[i].id) # 0
    BY <2>2, IndexOfMember
  <2> QED
    BY <2>1, <2>3, DeletedBetter
<1>3. CASE ForeignChange(PlayedAny(mpd)) \/ ForeignChange(Stopped(mpd))
  BY <1>3, PlayedAnyBetter, HaltedBetter
<1>4. CASE ForeignChange([mpd EXCEPT !.title = "changed", !.event = TRUE])
  <2> DEFINE n == [mpd EXCEPT !.title = "changed", !.event = TRUE]
  <2>1. DOMAIN n = DOMAIN mpd /\ n.queue = mpd.queue /\ n.names = mpd.names
    BY DEF Whole
  <2> QED
    BY <1>4, <2>1, SameQueue
<1> QED
  BY <1>1, <1>2, <1>3, <1>4 DEF Foreign

LEMMA AtOnceIds ==
  ASSUME IdInv, DeleteAll \/ Halt \/ Skip \/ Others PROVE IdInv'
<1>1. Whole(mpd)
  BY DEF IdInv
<1>2. UNCHANGED <<saved, last, ctl>> /\ Better(mpd, mpd')
  <2>1. CASE DeleteAll
    BY <1>1, <2>1, ClearedBetter DEF DeleteAll, Call, state
  <2>2. CASE Halt
    BY <1>1, <2>2, HaltedBetter DEF Halt, Call, state
  <2>3. CASE Skip
    BY <1>1, <2>3, SkippedBetter DEF Skip, Call, state
  <2>4. CASE Others
    BY <1>1, <2>4, ForeignBetter DEF Others, plVars
  <2> QED
    BY <2>1, <2>2, <2>3, <2>4
<1> QED
  BY <1>2, CallStays, Carry

LEMMA DeleteSavedIds == ASSUME IdInv, DeleteSaved PROVE IdInv'
<1>1. UNCHANGED <<mpd, last, ctl>>
  BY DEF DeleteSaved, mpdVars
<1>2. CallOK'
  BY <1>1, CallStays, Same DEF IdInv
<1>3. {"queue", "state", "pos"} \subseteq DOMAIN saved' /\ saved'.queue \in Seq(SongsOf(mpd.names))
  <2>1. PICK q \in {RemoveAt(saved.queue, i) : i \in DOMAIN saved.queue} \cup {<<>>} :
          saved' = [saved EXCEPT !.queue = q, !.state = IF q = <<>> THEN "stop" ELSE @]
    BY DEF DeleteSaved
  <2>2. q \in Seq(SongsOf(mpd.names))
    <3>1. DOMAIN saved.queue = 1 .. Len(saved.queue)
      BY LenProperties DEF IdInv
    <3>2. \A i \in DOMAIN saved.queue : RemoveAt(saved.queue, i) \in Seq(SongsOf(mpd.names))
      BY <3>1, RemoveIsSeq DEF IdInv
    <3> QED
      BY <2>1, <3>2, EmptySeq
  <2> QED
    BY <2>1, <2>2 DEF IdInv
<1> QED
  BY <1>1, <1>2, <1>3 DEF IdInv

LEMMA NtfIds == ASSUME IdInv, NtfStep PROVE IdInv'
<1>1. Whole(mpd)
  BY DEF IdInv
<1>2. UNCHANGED <<saved, last, ctl>> /\ Better(mpd, mpd')
  <2>1. CASE Wake
    <3> DEFINE n == [mpd EXCEPT !.event = FALSE]
    <3>1. DOMAIN n = DOMAIN mpd /\ n.queue = mpd.queue /\ n.names = mpd.names
      BY <1>1 DEF Whole
    <3>2. Better(mpd, n)
      BY <1>1, <3>1, SameQueue
    <3> QED
      BY <1>1, <2>1, <3>2, Same DEF Wake, ntfOnly
  <2>2. CASE Update
    BY <1>1, <2>2, Same DEF Update, CallStatus, ntfOnly
  <2>3. CASE Notify \/ Build
    BY <1>1, <2>3, Same DEF Notify, Build, ntfOnly, mpdVars
  <2> QED
    BY <2>1, <2>2, <2>3 DEF NtfStep
<1> QED
  BY <1>2, CallStays, Carry
-----------------------------------------------------------------------------
\* The steps of the control thread.

\* idFromOldId() gives a song of the same URI.
LEMMA MapFinds ==
  ASSUME IdInv, NEW id, FromOldId(id) # NoSong
  PROVE  /\ id \in KnownIds /\ FromOldId(id) \in KnownIds
         /\ mpd.names[FromOldId(id)] = mpd.names[id]
<1> DEFINE u == UriOf(saved.queue, id)
           I == {i \in 1 .. Len(mpd.queue) : mpd.queue[i].uri = u}
           k == SelectInSeq(mpd.queue, LAMBDA s : s.uri = u)
<1>1. Len(mpd.queue) \in Nat /\ Len(saved.queue) \in Nat /\ DOMAIN saved.queue = 1 .. Len(saved.queue)
  BY LenProperties DEF IdInv, Whole
<1>2. id \in SavedIds /\ k # 0 /\ FromOldId(id) = mpd.queue[k].id
  BY DEF FromOldId, NoSong
<1>3. IndexOf(saved.queue, id) \in 1 .. Len(saved.queue)
      /\ saved.queue[IndexOf(saved.queue, id)].id = id
  <2>1. PICK i \in 1 .. Len(saved.queue) : saved.queue[i].id = id
    BY <1>1, <1>2 DEF SavedIds
  <2> QED
    BY <1>1, <2>1, IndexOfMember, IndexOfFinds
<1>4. id \in 1 .. Len(mpd.names) /\ u = mpd.names[id]
  BY <1>3, ElementOfSeq DEF IdInv, UriOf, SongsOf
<1>5. k = IF I # {} THEN Min(I) ELSE 0
  BY DEF SelectInSeq
<1>6. k \in I
  <2>1. I # {} /\ I \subseteq Nat
    BY <1>2, <1>5
  <2>2. Min(I) \in I
    BY <2>1, LeastExists
  <2> HIDE DEF k, I
  <2> QED
    BY <1>5, <2>1, <2>2
<1> HIDE DEF k, u
<1>7. mpd.queue[k].id \in 1 .. Len(mpd.names) /\ u = mpd.names[mpd.queue[k].id]
  BY <1>6, ElementOfSeq DEF IdInv, Whole, SongsOf
<1> QED
  BY <1>2, <1>4, <1>7 DEF KnownIds

LEMMA RestoreIds == ASSUME IdInv, Restore PROVE IdInv'
<1>1. UNCHANGED saved /\ Goto("tell")
  BY DEF Restore, state
<1>2. Better(mpd, mpd')
  BY RestoredBetter DEF IdInv, Restore, RestoreState
<1>3. CallOK'
  BY <1>1, CallGoes DEF IdInv
<1>4. {"id", "pos", "vers"} \subseteq DOMAIN last' /\ last'.pos \in Int
  <2>1. Len(saved.queue) \in Nat
    BY LenProperties DEF IdInv
  <2> QED
    BY <2>1 DEF Restore, RestoreState, IdInv
<1> QED
  BY <1>1, <1>2, <1>3, <1>4, QueueStays DEF IdInv, Better, Whole

\* The position that insertAfterId() computes is one.
LEMMA PositionIsNat == ASSUME IdInv, NEW after PROVE Position(after) \in Nat
<1>1. Len(mpd.queue) \in Nat
  BY LenProperties DEF IdInv, Whole
<1>2. IndexOf(mpd.queue, after) # 0 => IndexOf(mpd.queue, after) \in Nat
  BY <1>1, IndexOfFinds
<1> QED
  BY <1>1, <1>2 DEF Position, IdInv

LEMMA InsertIds ==
  ASSUME IdInv, CacheSet \/ FindPlace \/ Add \/ AddRecord PROVE IdInv'
<1>1. Whole(mpd) /\ CallOK
  BY DEF IdInv
<1>2. CASE CacheSet
  <2>1. UNCHANGED <<mpd, saved, last>> /\ Better(mpd, mpd')
    BY <1>1, <1>2, Same DEF CacheSet, mpdVars
  <2>2. CallOK'
    <3>1. CASE ctl.op = "insert"
      BY <1>1, <1>2, <3>1 DEF CacheSet, Goto, CallOK
    <3>2. CASE ctl.op # "insert"
      BY <1>2, <3>2, CallEnds DEF CacheSet
    <3> QED
      BY <3>1, <3>2
  <2> QED
    BY <2>1, <2>2, Carry
<1>3. CASE FindPlace
  <2>1. UNCHANGED <<mpd, saved, last>> /\ Better(mpd, mpd')
    BY <1>1, <1>3, Same DEF FindPlace, Locate, state
  <2>2. CallOK'
    BY <1>1, <1>3, PositionIsNat DEF FindPlace, At, CallOK
  <2> QED
    BY <2>1, <2>2, Carry
<1>4. CASE Add
  <2>1. UNCHANGED saved
    BY <1>4 DEF Add, state
  <2>2. Better(mpd, mpd') /\ {"id", "pos", "vers"} \subseteq DOMAIN last' /\ last'.pos \in Int
    <3>1. ctl.pos \in Nat /\ ctl.uri \in Uris
      BY <1>1, <1>4 DEF Add, At, CallOK
    <3>2. Len(mpd.queue) \in Nat
      BY <1>1, LenProperties DEF Whole
    <3>3. {"id", "pos", "vers"} \subseteq DOMAIN last' /\ last'.pos = last.pos
      BY <1>4 DEF Add, AddAt, IdInv
    <3>4. CASE ctl.pos <= Len(mpd.queue)
      <4>1. ctl.pos \in 0 .. Len(mpd.queue) /\ mpd' = Added(mpd, ctl.pos, ctl.uri)
        BY <1>4, <3>1, <3>2, <3>4 DEF Add, AddAt
      <4> QED
        BY <1>1, <3>1, <3>3, <4>1, AddedBetter DEF IdInv
    <3>5. CASE ~ (ctl.pos <= Len(mpd.queue))
      BY <1>1, <1>4, <3>3, <3>5, Same DEF Add, AddAt, IdInv
    <3> QED
      BY <3>4, <3>5
  <2>3. CallOK'
    BY <1>1, <1>4, CallEnds, CallGoes DEF Add
  <2> QED
    BY <2>1, <2>2, <2>3, QueueStays DEF IdInv, Better, Whole
<1>5. CASE AddRecord
  <2>1. UNCHANGED <<mpd, saved>> /\ Better(mpd, mpd')
    BY <1>1, <1>5, Same DEF AddRecord, AddDone, state
  <2>2. {"id", "pos", "vers"} \subseteq DOMAIN last' /\ last'.pos \in Int
    BY <1>1, <1>5 DEF AddRecord, AddDone, IdInv, CallOK
  <2>3. CallOK'
    BY <1>5, CallEnds DEF AddRecord
  <2> QED
    BY <2>1, <2>2, <2>3 DEF IdInv
<1> QED
  BY <1>2, <1>3, <1>4, <1>5

\* The steps that tell MPD to play or to stop, or to forget songs, and reply.
LEMMA PlayIds ==
  ASSUME IdInv, PlayId \/ Play \/ PlayPos \/ StopCurrent \/ Delete \/ Quit
  PROVE  IdInv'
<1>1. Whole(mpd) /\ CallOK
  BY DEF IdInv
<1>2. UNCHANGED <<saved, last>> /\ Better(mpd, mpd') /\ CallOK'
  <2> USE DEF Call, CallStatus, state
  <2>1. CASE PlayId
    BY <1>1, <2>1, PlayedBetter, Same, CallEnds DEF PlayId
  <2>2. CASE Play
    BY <1>1, <2>2, PlayedAnyBetter, CallEnds DEF Play
  <2>3. CASE PlayPos
    BY <1>1, <2>3, PlayedBetter, Same, CallEnds DEF PlayPos
  <2>4. CASE StopCurrent
    BY <1>1, <2>4, HaltedBetter, Same, CallGoes DEF StopCurrent
  <2>5. CASE Delete
    BY <1>1, <2>5, DeletedBetter, Same, CallEnds DEF Delete
  <2>6. CASE Quit
    BY <1>1, <2>6, HaltedBetter, CallEnds DEF Quit
  <2> QED
    BY <2>1, <2>2, <2>3, <2>4, <2>5, <2>6
<1> QED
  BY <1>2, Carry

\* The steps of setActive() and idArray(), but for the copy of MPD's queue.
LEMMA SwitchIds ==
  ASSUME IdInv, Clear \/ Tell \/ Activate \/ Enter \/ Array \/ Freeze
  PROVE  IdInv'
<1>1. Whole(mpd) /\ CallOK
  BY DEF IdInv
<1>2. UNCHANGED <<saved, last>> /\ Better(mpd, mpd') /\ CallOK'
  <2> USE DEF Call, mpdVars, state
  <2>1. CASE Clear
    BY <1>1, <2>1, ClearedBetter, CallGoes DEF Clear
  <2>2. CASE Tell
    BY <1>1, <2>2, Same, CallGoes DEF Tell
  <2>3. CASE Activate
    BY <1>1, <2>3, Same, CallGoes, CallEnds DEF Activate
  <2>4. CASE Enter
    BY <1>1, <2>4, Same, CallGoes DEF Enter
  <2>5. CASE Array
    BY <1>1, <2>5, Same, CallEnds DEF Array
  <2>6. CASE Freeze
    BY <1>1, <2>6, Same, CallGoes DEF Freeze
  <2> QED
    BY <2>1, <2>2, <2>3, <2>4, <2>5, <2>6
<1> QED
  BY <1>2, Carry

\* idFromOldId() hands a song to seekId() or insert(); readList() reads one.
LEMMA LookIds == ASSUME IdInv, Map \/ Stat \/ Find PROVE IdInv'
<1>1. Whole(mpd) /\ CallOK
  BY DEF IdInv
<1>2. UNCHANGED <<mpd, saved, last>> /\ Better(mpd, mpd')
  BY <1>1, Same DEF Map, Stat, Find, mpdVars, state
<1>3. CallOK'
  <2>1. CASE Map
    <3>1. CASE FromOldId(ctl.id) = NoSong
      BY <2>1, <3>1, CallEnds DEF Map
    <3>2. CASE FromOldId(ctl.id) # NoSong
      <4>1. ctl' = [ctl EXCEPT !.to = FromOldId(ctl.id),
                               !.pc = IF ctl.op = "seek" THEN "playid" ELSE "cacheset"]
        BY <2>1, <3>2 DEF Map
      <4>2. /\ ctl.id \in KnownIds /\ FromOldId(ctl.id) \in KnownIds
            /\ mpd.names[FromOldId(ctl.id)] = mpd.names[ctl.id]
        BY <3>2, MapFinds
      <4> QED
        BY <1>1, <1>2, <4>1, <4>2 DEF CallOK, KnownIds
    <3> QED
      BY <3>1, <3>2
  <2>2. CASE Stat
    BY <1>1, <2>2, CallEnds DEF Stat, At, CallOK
  <2>3. CASE Find
    BY <1>1, <2>3, CallEnds, CallGoes DEF Find
  <2> QED
    BY <2>1, <2>2, <2>3
<1> QED
  BY <1>2, <1>3, Carry

\* saveState() copies a queue that agrees with the names.
LEMMA SaveIds == ASSUME IdInv, Save PROVE IdInv'
<1>1. UNCHANGED <<mpd, last>> /\ saved' = SavedState /\ Goto("quit")
  BY DEF Save, CallStatus
<1>2. CallOK'
  BY <1>1, CallGoes DEF IdInv
<1> QED
  BY <1>1, <1>2 DEF IdInv, Whole, SavedState

LEMMA InitIds == PlInit => IdInv
<1> SUFFICES ASSUME PlInit PROVE IdInv
  OBVIOUS
<1>1. PICK n \in 0 .. MaxInit : \E names \in [1 .. n -> Uris] :
        mpd = [queue |-> [i \in 1 .. n |-> [id |-> i, uri |-> names[i]]], names |-> names,
               vers |-> 1, state |-> "stop", cur |-> NoSong, title |-> "plain",
               event |-> FALSE]
  BY DEF PlInit, MpdInit
<1>2. PICK names \in [1 .. n -> Uris] :
        mpd = [queue |-> [i \in 1 .. n |-> [id |-> i, uri |-> names[i]]], names |-> names,
               vers |-> 1, state |-> "stop", cur |-> NoSong, title |-> "plain",
               event |-> FALSE]
  BY <1>1
<1>3. n \in Nat
  BY MpdAssumption
<1>4. names \in Seq(Uris)
  BY <1>3, SeqDef
<1>5. Len(names) = n
  BY <1>3, <1>4, LenProperties
<1>6. [i \in 1 .. n |-> [id |-> i, uri |-> names[i]]] \in [1 .. n -> SongsOf(names)]
  BY <1>3, <1>5 DEF SongsOf
<1>7. [i \in 1 .. n |-> [id |-> i, uri |-> names[i]]] \in Seq(SongsOf(names))
  BY <1>3, <1>6, SeqDef
<1>8. Whole(mpd)
  BY <1>2, <1>4, <1>7 DEF Whole
<1>9. CallOK /\ last.pos \in Int /\ {"id", "pos", "vers"} \subseteq DOMAIN last
  BY DEF PlInit, MpdInit, NoCall, CallOK
<1>10. saved.queue \in Seq(SongsOf(mpd.names)) /\ {"queue", "state", "pos"} \subseteq DOMAIN saved
  BY EmptySeq DEF PlInit
<1> QED
  BY <1>8, <1>9, <1>10 DEF IdInv

LEMMA NextIds == IdInv /\ [PlNext]_vars => IdInv'
<1> SUFFICES ASSUME IdInv, [PlNext]_vars PROVE IdInv'
  OBVIOUS
<1>1. CASE CtlStep
  BY <1>1, PlayIds, SwitchIds, LookIds, SaveIds, InsertIds, RestoreIds DEF CtlStep
<1>2. CASE UNCHANGED vars
  <2>1. UNCHANGED <<mpd, saved, last, ctl>>
    BY <1>2 DEF vars, mpdVars, plVars
  <2> QED
    BY <2>1, Same, CallStays, Carry DEF IdInv
<1> QED
  BY <1>1, <1>2, BeginIds, AtOnceIds, DeleteSavedIds, NtfIds DEF PlNext

-----------------------------------------------------------------------------
\* Only play by id ends a seek with success, and it plays the song it was told.
LEMMA PlayIdPlays ==
  ASSUME IdInv, PlayId, ctl'.ok PROVE mpd'.names[mpd'.cur] = mpd.names[ctl.id]
<1>1. mpd' = Played(mpd, ctl.to)
  BY DEF PlayId, CallStatus, Reply, NoCall
<1>2. mpd'.cur = ctl.to /\ mpd'.names = mpd.names
  BY <1>1 DEF Played, Current, IdInv, Whole
<1>3. mpd.names[ctl.to] = mpd.names[ctl.id]
  BY DEF PlayId, At, IdInv, CallOK
<1> QED
  BY <1>2, <1>3

\* The calls that do not end a seek leave ctl alone, or are at another point.
LEMMA OnlyPlayId ==
  ASSUME [PlNext]_vars, ctl.pc = "playid", ctl'.pc = "idle" PROVE PlayId
<1>1. CASE Begin \/ DeleteAll \/ Halt \/ Skip \/ DeleteSaved
  BY <1>1 DEF Begin, DeleteAll, Halt, Skip, DeleteSaved, CanBegin
<1>2. CASE CtlStep
  BY <1>2 DEF CtlStep, Clear, Restore, Tell, Activate, Map, Play, PlayPos, CacheSet,
              FindPlace, Add, AddRecord, Stat, Find, StopCurrent, Delete, Enter, Array,
              Freeze, Save, Quit, At
<1>3. CASE NtfStep \/ Others \/ UNCHANGED vars
  BY <1>3 DEF NtfStep, Wake, Update, Notify, Build, ntfOnly, Others, plVars, vars
<1> QED
  BY <1>1, <1>2, <1>3 DEF PlNext

\* A seek that succeeds plays the song that its id stood for when it was given
\* out, through any number of changes of source: src/src/ohplaylist.cxx,
\* seekId(), idFromOldId() and setActive().
THEOREM SeekIsRight == PlSpec => SeekPlaysIt
<1>1. IdInv /\ [PlNext]_vars =>
        [ctl.pc = "playid" /\ ctl'.pc = "idle" /\ ctl'.ok =>
           mpd'.names[mpd'.cur] = mpd.names[ctl.id]]_vars
  BY PlayIdPlays, OnlyPlayId
<1> QED
  BY <1>1, InitIds, NextIds, PTL DEF PlSpec, SeekPlaysIt
=============================================================================
