------------------------------ MODULE Playlist ------------------------------
(***************************************************************************)
(* The OpenHome Playlist service, src/src/ohplaylist.cxx: the queue of MPD *)
(* presented as a playlist with metadata, given to another source and      *)
(* taken back.                                                             *)
(*                                                                         *)
(* Two threads of upmpdcli act on it.  "ctl" runs the actions of a control *)
(* point, one at a time.  "ntf" stands for MPDCli's idle thread and for    *)
(* its poller, whose callbacks exclude each other: it reads MPD's status   *)
(* and then tells control points what changed.  Other clients of MPD and   *)
(* MPD itself act at any time.  A step of a thread is a call of MPDCli or  *)
(* a section that m_statemutex protects.                                   *)
(***************************************************************************)
EXTENDS MpdCli

CONSTANTS MaxOps   \* bound on the number of actions of the control point

ASSUME PlaylistAssumption == MaxOps \in Nat

VARIABLES
  active,   \* m_active
  saved,    \* m_mpdsavedstate
  frozen,   \* m_upnpstate: what is shown while inactive
  cache,    \* m_metacache: the metadata of some URIs
  dirty,    \* m_cachedirty
  sent,     \* the last snapshot of the cache that was queued for writing
  ids,      \* m_idArrayCached
  qvers,    \* m_mpdqvers
  shown,    \* m_state: what control points were told
  holder,   \* which thread holds m_statemutex
  snap,     \* the MPD status that thread works with
  ctl,      \* where the control thread is, and the action it runs
  ntf,      \* where the notifying thread is
  polling,  \* m_dopoll: the poller thread runs
  ops       \* how many actions were started

plVars == <<active, saved, frozen, cache, dirty, sent, ids, qvers, shown,
            holder, snap, ctl, ntf, polling, ops>>
vars == <<mpdVars, plVars>>

Threads == {"ctl", "ntf"}
NoSnap  == [vers |-> 0, state |-> "stop", songid |-> NoSong, title |-> "plain", uri |-> NoUri]

\* Metadata ("given" by a control point, else "plain" or "changed") is made from the tags that MPD
\* has for the song; the title of a stream is the only tag that may change.
Made(q, u) ==
  IF q[SelectInSeq(q, LAMBDA s : s.uri = u)].id = mpd.cur THEN mpd.title ELSE "plain"

TState(st) == CASE st = "play" -> "Playing" [] st = "pause" -> "Paused" [] OTHER -> "Stopped"

\* Mutant of Inactive: the transport state of the time when it was left.
InactiveFrozen == frozen

\* makestate() while inactive.
Inactive == [frozen EXCEPT !.tstate = "Stopped"]

NoCall == [pc |-> "idle", op |-> "none", id |-> NoSong, to |-> NoSong, pos |-> 0,
           uri |-> NoUri, meta |-> "given", ok |-> TRUE]

PlInit ==
  /\ MpdInit
  /\ active = TRUE
  /\ saved = [queue |-> <<>>, state |-> "unk", pos |-> 0]
  /\ frozen = [tstate |-> "Stopped", ids |-> <<>>]
  /\ shown = frozen
  /\ cache = [u \in {} |-> "given"] /\ sent = cache /\ dirty = FALSE
  /\ ids = <<>> /\ qvers = -1
  /\ holder = "none" /\ snap = NoSnap
  /\ ctl = NoCall
  /\ ntf = "notify" /\ polling = FALSE   \* the control point subscribes
  /\ ops = 0

-----------------------------------------------------------------------------
\* makestate() and makeIdArray(), with m_statemutex held by t from EnterState
\* to the end of the caller.

EnterState(t) ==
  /\ holder = "none" /\ ~ locked
  /\ holder' = t
  /\ snap' = stat

Leave == holder' = "none" /\ snap' = NoSnap

\* The title of the song that plays changed, and its metadata is ours.
TitleChanged(s) ==
  /\ s.songid # NoSong /\ s.uri \in DOMAIN cache
  /\ cache[s.uri] # "given" /\ cache[s.uri] # s.title

\* Entries of the queue keep their metadata, or get MPD's; the others go.
NewCache ==
  [u \in UrisOf(mpd.queue) |-> IF u \in DOMAIN cache THEN cache[u] ELSE Made(mpd.queue, u)]

\* Mutant of MaintainCache: entries that go are no reason to save.
MaintainCacheAdded ==
  /\ cache' = NewCache
  /\ IF UrisOf(mpd.queue) \subseteq DOMAIN cache /\ ~ dirty
     THEN UNCHANGED <<sent, dirty>>
     ELSE sent' = NewCache /\ dirty' = FALSE

MaintainCache ==
  LET added == UrisOf(mpd.queue) \ DOMAIN cache
      stale == DOMAIN cache \ UrisOf(mpd.queue)
  IN /\ cache' = NewCache
     /\ IF added # {} \/ stale # {} \/ dirty
        THEN sent' = NewCache /\ dirty' = FALSE
        ELSE UNCHANGED <<sent, dirty>>

\* makeIdArray(): the cached array while the queue version is the one it was
\* made for, but an empty one, once, to make control points read a new title.
ArrayOf(s) ==
  IF s.vers # qvers THEN IdsOf(mpd.queue) ELSE IF TitleChanged(s) THEN <<>> ELSE ids

\* Mutant of MakeIdArray: the new title is not recorded.
MakeIdArrayForgets(s) ==
  IF s.vers = qvers
  THEN UNCHANGED <<cache, sent, dirty, ids, qvers>>
  ELSE /\ ~ locked
       /\ ids' = IdsOf(mpd.queue) /\ qvers' = s.vers
       /\ IF active THEN MaintainCache ELSE UNCHANGED <<cache, sent, dirty>>

MakeIdArray(s) ==
  IF s.vers = qvers
  THEN /\ cache' = IF TitleChanged(s) THEN [cache EXCEPT ![s.uri] = s.title] ELSE cache
       /\ UNCHANGED <<sent, dirty, ids, qvers>>
  ELSE /\ ~ locked
       /\ ids' = IdsOf(mpd.queue) /\ qvers' = s.vers
       /\ IF active THEN MaintainCache ELSE UNCHANGED <<cache, sent, dirty>>

\* makestate() while active, for the status s that t took when it entered.
StateOf(s) == [tstate |-> TState(s.state), ids |-> ArrayOf(s)]

-----------------------------------------------------------------------------
\* The notifying thread.

ntfOnly == UNCHANGED <<active, saved, frozen, ctl, ops>>

\* mpd_run_idle_mask() returns, or the poller's second is over.
Wake ==
  /\ ntf = "sleep"
  /\ \/ /\ mpd.event
        /\ mpd' = [mpd EXCEPT !.event = FALSE]
        /\ ntf' = "idle"
     \/ /\ polling
        /\ ntf' = "tick"
        /\ UNCHANGED mpd
  /\ UNCHANGED <<stat, last, locked, foreign, raced, cache, dirty, sent, ids, qvers,
                 shown, holder, snap, polling>>
  /\ ntfOnly

\* updStatus(); the idle thread then starts or stops the poller.
Update ==
  /\ ntf \in {"idle", "tick"}
  /\ CallStatus(mpd)
  /\ polling' = IF ntf = "idle" THEN mpd.state = "play" ELSE polling
  /\ ntf' = "notify"
  /\ UNCHANGED <<cache, dirty, sent, ids, qvers, shown, holder, snap>>
  /\ ntfOnly

\* OHService::onEvent(): makestate(), and what changed goes to control points.
Notify ==
  /\ ntf = "notify"
  /\ IF active
     THEN EnterState("ntf") /\ ntf' = "build" /\ UNCHANGED shown
     ELSE holder = "none" /\ ntf' = "sleep" /\ shown' = Inactive /\ UNCHANGED <<holder, snap>>
  /\ UNCHANGED <<mpdVars, cache, dirty, sent, ids, qvers, polling>>
  /\ ntfOnly

Build ==
  /\ ntf = "build"
  /\ MakeIdArray(snap)
  /\ shown' = StateOf(snap)
  /\ Leave /\ ntf' = "sleep"
  /\ UNCHANGED <<mpdVars, polling>>
  /\ ntfOnly

NtfStep == Wake \/ Update \/ Notify \/ Build

-----------------------------------------------------------------------------
\* The control thread.

state == <<active, saved, frozen, cache, dirty, sent, ids, qvers, shown, holder, snap>>

Goto(p)  == ctl' = [ctl EXCEPT !.pc = p]
Reply(b) == ctl' = [NoCall EXCEPT !.ok = b]

KnownIds == 1 .. Len(mpd.names)
SavedIds == {saved.queue[i].id : i \in DOMAIN saved.queue}

\* An action starts.  While another source is active an action that needs the
\* queue first goes through iSetSourceIndexByName(), which comes to setActive().
Start(op, id, u, pc) ==
  ctl' = [NoCall EXCEPT !.pc = IF active THEN pc ELSE "clear", !.op = op, !.id = id,
                        !.to = id, !.uri = u]

StartInsert == \E u \in Uris, after \in KnownIds \cup {NoSong} :
  /\ Len(IF active THEN mpd.queue ELSE saved.queue) < MaxQueue
  /\ Start("insert", after, u, "cacheset")
\* seekId(): an id of the previous queue is accepted while active too.
StartSeek   == \E id \in KnownIds :
  Start("seek", id, NoUri, IF id \in SavedIds THEN "map" ELSE "playid")
StartPlay   == Start("play", NoSong, NoUri, "play")
StartIndex  == \E i \in 1 .. MaxQueue : Start("index", i, NoUri, "playpos")
StartSwitch == ~ active /\ Start("switch", NoSong, NoUri, "clear")
StartLeave  == active /\ Start("leave", NoSong, NoUri, "enter")
StartArray  == active /\ Start("array", NoSong, NoUri, "enter")
StartRead   == \E id \in KnownIds : active /\ Start("read", id, NoUri, "stat")
StartDelete == \E id \in KnownIds : active /\ Start("delete", id, NoUri, "stopcur")

CanBegin == ctl.pc = "idle" /\ ops < MaxOps /\ ops' = ops + 1 /\ UNCHANGED <<ntf, polling>>

Begin ==
  /\ CanBegin
  /\ \/ StartInsert \/ StartSeek \/ StartPlay \/ StartIndex \/ StartSwitch
     \/ StartLeave \/ StartArray \/ StartRead \/ StartDelete
  /\ UNCHANGED <<mpdVars, state>>

\* deleteAll() while active; the others, pause() and stop(), do not look at m_active.
DeleteAll == CanBegin /\ active /\ Call(Cleared(mpd)) /\ UNCHANGED <<state, ctl>>
Halt ==
  /\ CanBegin /\ mpd.state # "stop"
  /\ Call(Paused(mpd)) \/ Call(Stopped(mpd))
  /\ UNCHANGED <<state, ctl>>
Skip ==     \* next() and previous(); MPD ignores them when it is stopped
  /\ CanBegin /\ active /\ mpd.state # "stop"
  /\ \E by \in {-1, 1} : Call(Skipped(mpd, by))
  /\ UNCHANGED <<state, ctl>>

\* deleteId() and deleteAll() while inactive.
DeleteSaved ==
  /\ CanBegin /\ ~ active
  /\ \E q \in {RemoveAt(saved.queue, i) : i \in DOMAIN saved.queue} \cup {<<>>} :
       saved' = [saved EXCEPT !.queue = q, !.state = IF q = <<>> THEN "stop" ELSE @]
  /\ UNCHANGED <<mpdVars, active, frozen, cache, dirty, sent, ids, qvers, shown,
                 holder, snap, ctl>>

At(p)   == ctl.pc = p /\ UNCHANGED <<ntf, polling, ops>>

\* setActive(true)
Clear == At("clear") /\ Call(Cleared(mpd)) /\ Goto("restore") /\ UNCHANGED state

Restore == At("restore") /\ RestoreState(saved) /\ Goto("tell") /\ UNCHANGED state

\* onEvent() comes before m_active is set: it shows the frozen state.
Tell ==
  /\ At("tell") /\ holder = "none"
  /\ shown' = Inactive /\ Goto("activate")
  /\ UNCHANGED <<mpdVars, active, saved, frozen, cache, dirty, sent, ids, qvers, holder, snap>>

Activate ==
  /\ At("activate")
  /\ active' = TRUE
  /\ IF ctl.op = "switch" THEN Reply(TRUE)
     ELSE Goto(CASE ctl.op = "play" -> "play" [] ctl.op = "index" -> "playpos"
                 [] OTHER -> "map")
  /\ UNCHANGED <<mpdVars, saved, frozen, cache, dirty, sent, ids, qvers, shown, holder, snap>>

\* Mutant of FromOldId: the song that is where the saved one was.
FromOldIdPos(id) ==
  LET i == IndexOf(saved.queue, id)
  IN IF i \in DOMAIN mpd.queue THEN mpd.queue[i].id ELSE NoSong

\* idFromOldId(): the first song of the queue with the URI of the saved one.
FromOldId(id) ==
  IF id \notin SavedIds THEN NoSong
  ELSE LET u == UriOf(saved.queue, id)
           i == SelectInSeq(mpd.queue, LAMBDA s : s.uri = u)
       IN IF i = 0 THEN NoSong ELSE mpd.queue[i].id

Map ==
  /\ At("map") /\ ~ locked
  /\ IF FromOldId(ctl.id) = NoSong THEN Reply(FALSE)
     ELSE ctl' = [ctl EXCEPT !.to = FromOldId(ctl.id),
                             !.pc = IF ctl.op = "seek" THEN "playid" ELSE "cacheset"]
  /\ UNCHANGED <<mpdVars, state>>

PlayId ==
  /\ At("playid")
  /\ IF IndexOf(mpd.queue, ctl.to) # 0
     THEN CallStatus(Played(mpd, ctl.to)) /\ Reply(TRUE)
     ELSE Call(mpd) /\ Reply(FALSE)
  /\ UNCHANGED state

Play == At("play") /\ CallStatus(PlayedAny(mpd)) /\ Reply(TRUE) /\ UNCHANGED state

\* seekIndex(): play(pos) fails past the end of the queue.
PlayPos ==
  /\ At("playpos")
  /\ IF ctl.id <= Len(mpd.queue)
     THEN CallStatus(Played(mpd, mpd.queue[ctl.id].id)) /\ Reply(TRUE)
     ELSE Call(mpd) /\ Reply(FALSE)
  /\ UNCHANGED state

\* insertUri(): the metadata goes to the cache before MPD gets the song.
CacheSet ==
  /\ At("cacheset") /\ holder = "none"
  /\ cache' = [u \in DOMAIN cache \cup {ctl.uri} |-> IF u = ctl.uri THEN ctl.meta ELSE cache[u]]
  /\ dirty' = TRUE
  /\ IF ctl.op = "insert" THEN Goto("locate") ELSE Reply(TRUE)
  /\ UNCHANGED <<mpdVars, active, saved, frozen, sent, ids, qvers, shown, holder, snap>>

FindPlace ==
  /\ At("locate") /\ Locate(ctl.to)
  /\ ctl' = [ctl EXCEPT !.pc = "add", !.pos = Position(ctl.to)]
  /\ UNCHANGED state

Add ==
  /\ At("add") /\ AddAt(ctl.pos, ctl.uri)
  /\ IF locked' THEN Goto("added") ELSE Reply(FALSE)
  /\ UNCHANGED state

AddRecord == At("added") /\ AddDone(ctl.pos) /\ Reply(TRUE) /\ UNCHANGED state

\* ohread(), readList(): a song of MPD's queue, and its metadata if unknown.
Stat ==
  /\ At("stat") /\ ~ locked
  /\ IF IndexOf(mpd.queue, ctl.id) = 0 THEN Reply(FALSE)
     ELSE LET u == UriOf(mpd.queue, ctl.id) IN
          ctl' = [ctl EXCEPT !.pc = "find", !.uri = u, !.meta = Made(mpd.queue, u)]
  /\ UNCHANGED <<mpdVars, state>>

Find ==
  /\ At("find") /\ holder = "none"
  /\ IF ctl.uri \in DOMAIN cache THEN Reply(TRUE) ELSE Goto("cacheset")
  /\ UNCHANGED <<mpdVars, state>>

\* deleteId(): the song is stopped first if it is known to be the current one.
StopCurrent ==
  /\ At("stopcur")
  /\ Call(IF stat.songid = ctl.id THEN Stopped(mpd) ELSE mpd)
  /\ Goto("delete") /\ UNCHANGED state

Delete ==
  /\ At("delete")
  /\ IF IndexOf(mpd.queue, ctl.id) # 0
     THEN Call(Deleted(mpd, ctl.id)) /\ Reply(TRUE)
     ELSE Call(mpd) /\ Reply(FALSE)
  /\ UNCHANGED state

\* setActive(false) holds m_statemutex all along; idArray() as it computes.
Enter ==
  /\ At("enter") /\ EnterState("ctl")
  /\ Goto(IF ctl.op = "leave" THEN "freeze" ELSE "array")
  /\ UNCHANGED <<mpdVars, active, saved, frozen, cache, dirty, sent, ids, qvers, shown>>

Array ==
  /\ At("array") /\ MakeIdArray(snap)
  /\ Leave /\ Reply(TRUE)
  /\ UNCHANGED <<mpdVars, active, saved, frozen, shown>>

Freeze ==
  /\ At("freeze") /\ MakeIdArray(snap)
  /\ frozen' = StateOf(snap) /\ Goto("save")
  /\ UNCHANGED <<mpdVars, active, saved, shown, holder, snap>>

Save ==
  /\ At("save") /\ CallStatus(mpd)
  /\ saved' = SavedState /\ Goto("quit")
  /\ UNCHANGED <<active, frozen, cache, dirty, sent, ids, qvers, shown, holder, snap>>

Quit ==
  /\ At("quit") /\ Call(Stopped(mpd))
  /\ active' = FALSE /\ Leave /\ Reply(TRUE)
  /\ UNCHANGED <<saved, frozen, cache, dirty, sent, ids, qvers, shown>>

CtlStep ==
  \/ Clear \/ Restore \/ Tell \/ Activate \/ Map \/ PlayId \/ Play \/ PlayPos
  \/ CacheSet \/ FindPlace \/ Add \/ AddRecord \/ Stat \/ Find
  \/ StopCurrent \/ Delete \/ Enter \/ Array \/ Freeze \/ Save \/ Quit

-----------------------------------------------------------------------------
Others == Foreign /\ UNCHANGED plVars

PlNext ==
  \/ Begin \/ DeleteAll \/ Halt \/ Skip \/ DeleteSaved
  \/ CtlStep \/ NtfStep \/ Others

\* A call that began goes on, and MPD's events and the poller wake their threads.
PlSpec == PlInit /\ [][PlNext]_vars /\ WF_vars(CtlStep) /\ WF_vars(NtfStep)

-----------------------------------------------------------------------------
\* Properties.

\* Each mutex is held where the code holds it, by one thread.
MutexesHeld ==
  /\ holder \in Threads \cup {"none"}
  /\ holder = "ntf" <=> ntf = "build"
  /\ holder = "ctl" <=> ctl.pc \in {"freeze", "save", "quit", "array"}
  /\ locked <=> ctl.pc \in {"add", "added"}

\* Insert puts the song right after the one that the control point named, if it
\* is there: the place remembered from the last insertion is never a stale one,
\* unless another client of MPD slips in while insertAfterId() runs.
InsertPlace ==
  [][ ctl.pc = "add" /\ ctl'.pc = "added" /\ ~ raced =>
        LET i == IndexOf(mpd.queue, ctl.to) IN
          i # 0 => /\ IndexOf(mpd'.queue, ctl.to) = i
                   /\ mpd'.queue[i + 1].id = NextId(mpd) ]_vars

\* SeekId plays the song that had this id when the control point learnt it,
\* through any number of changes of source, or fails.
SeekPlaysIt ==
  [][ ctl.pc = "playid" /\ ctl'.pc = "idle" /\ ctl'.ok =>
        mpd'.names[mpd'.cur] = mpd.names[ctl.id] ]_vars

\* The songs that the cache knows are those of the snapshot that was queued
\* last, or m_cachedirty says that another one has to be queued.
DiskFollows == ~ dirty => DOMAIN sent = DOMAIN cache

\* A playlist that was left for good comes to be shown as stopped, although
\* setActive(false) sends no event: stopping MPD makes one.
StoppedWhenInactive == <>[](~ active /\ ctl.pc = "idle") => <>[](shown.tstate = "Stopped")

\* While MPD plays the poller repairs whatever an event got wrong: what is shown
\* comes to be what the queue holds.
ConvergesPlaying ==
  <>[](mpd.state = "play" /\ active) => <>[](shown.ids = IdsOf(mpd.queue))

\* "Set the AfterId argument to 0 to insert a track at the start": it works.
InsertAtStart ==
  [][ ctl.op = "insert" /\ ctl.id = NoSong /\ ctl'.pc = "idle" => ctl'.ok ]_vars
=============================================================================
