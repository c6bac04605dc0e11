# A verification project for upmpdcli

upmpdcli is a UPnP Media Renderer front-end to the MPD music player, with OpenHome
services and a media server whose plugins proxy streaming services or serve local files.
This directory holds TLA+ models of its core and of its larger plugins, TLC runs that
check them on small instances, and proofs that the TLA+ proof system checks for every
instance.

Run a model with `tlc -config <X>.cfg <module>` (section 3 names the pairs) and check the
proofs with `tlapm <module>_proofs.tla`.  `PROJECT.json` lists the runs, the lines of the
code behind each definition (`map`), a mutation of the code that each property detects
(`mutants`), the hazards of the code, and the disagreements found (`findings`).

## 1. The system and its components

Paths are relative to `src/src`; `cdplugins` is `src/src/mediaserver/cdplugins`, and the
names of Python files are those of the plugin that is spoken of.

| component | state | operations | talks to | hard behaviour |
|---|---|---|---|---|
| `WorkQueue` (`workqueue.h`) | task queue, worker threads, waiting counters, two condition variables | put, take, waitIdle, setTerminateAndWait, workerExit, closeShop, start | its clients and workers | lost wakeups, termination against waits, timed waits |
| metadata cache saving (`ohmetacache.cxx`) | cache file, temporary file, a queue of snapshots | dmcacheSave, save worker, dmcacheRestore | `WorkQueue`; called by OHPlaylist | crash between two system calls, disk errors, stale snapshots |
| `BufXChange` (`cdplugins/bufxchange.h`, `abuffer.h`) | buffer queue, recycling queue, waiting counters | put, take, untake, recycle, take_recycled, waitIdle, setTerminate, reset | its two sides | as WorkQueue, and ownership of buffers |
| `CurlFetch`, `NetFetch` (`cdplugins/curlfetch.cpp`, `netfetch.cpp`) | a curl handle, a thread, status flags under `curlmutex` | start, reset, fetchDone, waitForHeaders, callbacks of curl | remote server, `BufXChange` | abort and retry against the end of the transfer |
| streaming proxy (`cdplugins/streamproxy.cpp`) | one ContentReader per request | answerConn, contentRead, deletion | libmicrohttpd, `CurlFetch` | timeouts, retries in mid-stream, clients that leave |
| `MPDCli` (`mpdcli.cxx`) | connection, last status, last insertion, idle and poller threads, subscribers | commands, status, saved states, events | MPD; all services | another client changes MPD between two commands |
| `OHPlaylist`, `OHService` (`ohplaylist.cxx`, `ohservice.cxx`) | metadata cache, id array cache, saved MPD state, active flag, last event | insert, delete, seek, play, read, idArray, setActive, onEvent | `MPDCli`, `OHProduct`, the metadata cache | control thread against event thread, ids across changes of source |
| `OHProduct` (`ohproduct.cxx`) | sources and current index | iSetSourceIndex | the sources below | a failure half-way, selections inside selections |
| `OHRadio` (`ohradio.cxx`) | current channel, pending play, saved MPD state | setId, setChannel, play, pause, stop, setActive | `MPDCli`, scripts, `OHProduct` | its actions select it, and leaving it calls them |
| `OHReceiver` (`ohreceiver.cxx`) | the sc2mpd process, the sender's URI | setSender, play, stop, setActive | `MPDCli`, `OHPlaylist`, a process | a helper that fails or ends |
| `SenderReceiver` (`ohsndrcv.cxx`) | sender process, second MPD | start, stop | `MPDCli`, `OHReceiver` | failure of each of several steps |
| migrations of tidal and subsonic (`persistence.py`) | an SQLite file and its version | 20 and 73 migrations | SQLite | the process ends between two statements |
| tidal store (`tidal/persistence.py`) | playback statistics, listen queue, metadata, cached URIs and tiles | playback, removal, purge, trackuri, preloading | tidal-app, SQLite | rows written in any order and by two threads, a lock that a failed statement keeps |
| tidal menus (`tidal-app.py`) | favourites, bookmarks, cached metadata | about ninety handlers, buttons, paged lists | Tidal, store | a page needs what another page put into an identifier |
| subsonic menus (`subsonic-app.py`, `entry_creator.py`) | metadata of artists and albums | tag and element handlers, search | server, database | same, and things the server has no more |
| subsonic database and caching thread (`persistence.py`, `subsonic_init.py`) | tables of albums, songs, artists, roles | preload_albums, preload_songs, preload_artists, prune, pages that save and forget | server, SQLite | two writers, a server that changes under a walk by offsets |
| subsonic pages (`persistence.py`, `art_retriever.py`, `album_util.py`, `subsonic_util.py`) | what the database and the server hold | album browser, covers, versions and discs, qualities | database, server | counts from one query and pages from another |
| tidal stream information (`tidal-app.py`, `context.py`) | rows of played tracks, context of a page | set_stream_information_*, ghost playback | Tidal, store | lists kept across pages, requests that fail |
| subsonic search (`subsonic-app.py`, `search_result_rank.py`) | rows of artists and albums, cached genres | search by kind and field | server, database | server and database know different things |
| subsonic identifiers and caches (`codec.py`, `request_cache.py`) | table of identifiers, cached answers, image files | encode, decode, get, serve | pages | what outlives a restart or its time |
| uprcl library (`uprclfolders*.py`, `uprclplaylists.py`, `uprcltags*.py`) | directories, playlists, an SQLite table of tags | creation from the index, browse | Recoll index | the order of the index |
| uprcl updates (`uprclinit.py`, `uprclindex.py`, `rwlock.py`) | trees, flags, indexer process, lock | start_index_update, _update_index, browse, search | indexer, HTTP threads | overlapping updates, readers during an update |
| `AVTransport`, `RenderingControl`, ConnectionManager | current and next URI and metadata; volume | setAVTransportURI, play control, modes | `MPDCli`, `OHPlaylist` | which URI MPD plays, with equal URIs |
| `OHVolume`, `OHInfo`, `OHTime`, `OHCredentials` | what was shown last; credentials | get, set, events | `MPDCli`, plugins | mute with a saved volume |
| `CmdTalk`, `PlgWithSlave` (`cdplugins`) | plugin process, caches with expiry | startCmd, talk, browse, get_media_url | Python plugins | failed and late answers, stale caches |
| content directory, other plugins, start-up, utilities, GUI, tools | list of plugins; web sessions | browse, search | web services | - |

What makes each modelled component correct:

* WorkQueue and BufXChange: limits hold, every item is handled once and has one owner,
  no wakeup is lost, waits end, joins do not block.
* Metadata cache: the file is a complete snapshot at any crash, never goes back to an
  older one, and gets to the last one.
* Streaming: bytes arrive in order, each once; an end of stream means all of it;
  every request ends, and one whose headers have come releases its reader and its thread.
* Playlist: a song goes where the control point asked, an id means the same song across
  changes of source, metadata is not lost, and control points end up with the truth.
* Sources: the selected source, the active service, the sender, the receiver and what the
  MPD in use plays agree, whatever failed on the way; the playlist comes back; a selection
  ends.
* Databases: the stored version describes the schema wherever the process was stopped, up
  to columns that an old SQLite could not drop, and a plugin that serves has every column
  that its queries name; statistics hold plays only;
  rows are lost only to a purge, a prune of what is gone, or a page that misses the thing.
* Menus: every entry opens, buttons tell what is stored, a Next entry goes on where its
  page ended.
* Pages: counts are those of the pages that entries open; every song, album and artist is
  shown, once, under the right entry; covers and badges fit; an identifier opens what it
  was made for; nothing shown is older than its timeout; a search lists each thing once,
  the best match first; what is told of a stream is true, at the price of few requests.
* uprcl updates: an answer shows one state of the files; an update publishes trees as
  recent as its request unless another overlaps it or its indexer failed; every update ends.

## 2. Modules

```
WorkQueue    <- MetaCache (implements SnapshotFile)      WorkQueue_proofs, MetaCache_proofs
BufXChange   <- BufXUsers                                BufXUsers_proofs
BufXChange   <- StreamProxy                              StreamProxy_proofs
MpdCli       <- Playlist                                 Playlist_proofs
SqlMigration <- PluginSchemas (its two lists)            SqlMigration_proofs
SubsonicStore                                            SubsonicStore_proofs
Sources, EventLoop, TidalStore, TidalMenu, Paging, SubsonicMenu, SubsonicArtists, AlbumBrowser,
SubsonicCovers, AlbumPages, AlbumQuality, IdentifierCodec, ResponseCache,
CoverFiles, SubsonicSearch, StreamInfo, UprclFolders, UprclTags
UprclUpdate                                              UprclUpdate_proofs
```

An arrow is EXTENDS.  The `MC*` modules give the constants their values and put several
parts into one run: a variable `part` says which of them a behaviour is one of, and the
others stay as they are.  Parts do not interact there; where components do interact, a
module composes them (MetaCache, BufXUsers, StreamProxy, Playlist, Sources, SubsonicStore).
Operators whose comment begins "Mutant of" are plausible bugs used to test the properties;
no specification uses them.

**WorkQueue.**  One mutex protects everything, so the code between two waits is one
action: an operation is one action plus one for each time a wait returns (`PutWake`,
`IdleCheck`, `TermCheck`, `TakeTask`...).  A blocked thread is in `ccond` or `wcond`; a
notified one has left the set but has not yet run.  Spurious wakeups are an action.  The
waiting counters are unsigned and wrap (`Inc`, `Dec` modulo `UIntMax + 1`).  Workers
follow the loop of the class comment.

**MetaCache** runs the save worker on WorkQueue with one client and one worker, and adds the
two files.  A step is one system call that changes the disk.  A file is the number of its
snapshot and how many lines it has.  `Stop` ends the process anywhere, by a kill or
`exit()`.  **SnapshotFile** is what saving promises: the file only moves forward to a
requested snapshot and catches up unless the process stops.

**BufXChange** is written as relations between the shared state and the result of the
call (`Yes`, `No`, `Waits`), for its users to compose: **BufXUsers** adds ownership
(`held`, `deleted`) as the code of NetFetch and ContentReader uses the queue; a recycled
buffer that is too small is deleted and replaced.

**StreamProxy** composes BufXChange with the transfer thread (curl callbacks, end of
transfer) and the connection thread (answerConn, contentRead, deletion).  Data is known
by its offset: a buffer is the interval of the resource that it holds, so order and gaps
are visible.  Buffers are split as network reads and MHD's buffers require.

**MpdCli** has MPD's queue, ids, version, state and idle event, the commands that
upmpdcli sends, and the calls of MPDCli.  A call holds `m_mutex` throughout, so it is one
action, except insertion, whose position is computed from an earlier reading (`Position`,
`Locate`, `AddAt`, `AddDone`, with `locked`).  `Foreign` is what other MPD clients, MPD
itself, or another source do.

**Playlist** adds OHPlaylist: a thread `ctl` that runs a control point's action step by
step, where a step is a call of MPDCli or a section under `m_statemutex`, and a thread
`ntf` for the idle thread and the poller (`Wake`, `Update`, `Notify`, `Build`).
`m_statemutex` is `holder`.  Metadata is "given" by a control point or made from MPD's tags
("plain", or "changed" when a stream changed its title).  `setActive(true)` is `Clear`,
`Restore`, `Tell`, `Activate`; `setActive(false)` is `Enter`, `Freeze`, `Save`, `Quit`.

**Sources** is OHProduct with its Playlist, Radio, Receiver, Songcast and analog sources.
The record `r` is the renderer: index, the flags and saved states of the services, the two
MPDs, the sender and the sc2mpd process.  The calls of one action are operators on `r`;
iSetSourceIndex, which the services call again from inside it, is recursive and cut at
`StackSize` nested selections.  A selection fails at any one helper (sender, second MPD,
receiver) or at none.  `latest` remembers the playlist as it was last changed.

**EventLoop** has the threads of MPDCli that tell MPD's events, for the MPD in use and
Songcast's second one: the idle thread of each (`th`), its poller, and the control thread that
stops one loop, joins it and starts the other (`takeEvents`).  Mutexes that are held across a
join are seen from where the threads are.  `excused` remembers the joins of section 4 that
may not end.

**SqlMigration** is the loop over a list of migrations.  Each statement is committed by
itself and the version is stored after the last one; `StopPlugin` comes between any two.  A
schema is the set of its tables, columns and indexes.  Tidal's DROP COLUMN is in a `try`: an
SQLite before 3.35 refuses it, and `Execute` goes on without it (`Caught`, `Outcomes`).  **PluginSchemas** has the 20 migrations
of tidal and the 73 of subsonic, in its words, and the columns that the queries of today name.

**TidalStore** has the tables of the tidal plugin with one action per call, stale
entries, purges and stops.  Time stamps are orders.  Two threads write: the pages, one request
after the other, and the preloading thread; `job` is the row that each of them stores and how
far it is.  A write that meets the other's transaction waits or raises, and the preloading
thread ends when something raises.  **TidalMenu** and **SubsonicMenu** walk
through the menus: an identifier is a handler, the kind of its value and its keys; a
handler is the set of identifiers that its page offers, what it needs of its own, and what
it changes.  Things may be withdrawn, and requests fail.  **Paging** walks each kind of
paged list from its first page to the last.

**SubsonicStore** sets the caching thread (walk, commits, rollbacks, prunes, page of the
server by page) against the pages and a server that changes.  SQLite's single writer is
`txn`: a page that writes meanwhile waits and raises.  The server lists its albums and songs in
any order (`Listing`), which it keeps as long as it does not change.  **SubsonicArtists** does the same for
artists and roles, and reads the index of a role.

**AlbumBrowser** has the two queries of the album browser over every small table of
properties, whose albums have their row in the table of metadata that one query joins, **AlbumPages** the pages of an album by versions and discs, **AlbumQuality** the
badge and summary of a list of songs, **SubsonicCovers** where a cover comes from,
**CoverFiles** the image files, **IdentifierCodec** the identifiers in full or as numbers of a
table, **ResponseCache** the answers kept for a time.  **SubsonicSearch** is the search for one
value: a name is what the value has in common with it (all, beginning, end, inside; as it is
or without accents and cases), the server finds what it likes, the database has any rows.

**StreamInfo** computes a page of the tidal plugin entry by entry: where the bit depth, the
sample rate and the type of a track come from, what the context of the page remembers, and
the row that an answer of the service leaves.  Tracks are played and purged between pages.

**UprclFolders** and **UprclTags** take the documents of the index one by one, in any order,
build the trees or the tables, and browse them.  **UprclUpdate** has the threads that ask for
an update, the updates with their indexer processes, the main thread that browses, and the
lock between them; `overlapped` remembers that two updates were under way at once.  A version
is that of the files which an index or a tree was made from, 0 that of an empty index.  An
indexer ends or fails (`IndexerFails`, with the index as it was or erased), and the update goes
on in the same way.

## 3. Runs

| run | module, config | bounds | what it shows | states |
|---|---|---|---|---|
| `queues` | `MCQueues`, `Queues` | WorkQueue: 2 clients, 2 workers, limit 1, 3 tasks, 2 starts, timed takes, failing tasks; BufXChange: the same threads, 4 buffers | limits, counters, no lost wakeup, each task once, one owner per buffer, waitIdle true, joins never block | 1.2 M |
| `live` | `MCLive`, `Live` | WorkQueue: 2 clients, 2 workers, 2 tasks, 1 start; uprcl: 1 asker, 2 updates, 2 versions of the files, 1 request; event loops: 2 MPDs, any number of changes | calls return, tasks are taken; updates end, answers are whole, trees recent unless updates overlap or the indexer failed; changes of MPD return and events follow the MPD in use | 82 k |
| `disk` | `MCDisk`, `Disk` | all migrations, any number of stops and of refused drops; cache file: 4 snapshots of 2 lines, 2 stops | version and schema agree, a plugin that serves has its columns; the file is whole, MetaCache implements SnapshotFile, liveness included | 12 k |
| `stream` | `MCStream`, `Stream` | 5 units, offsets 0 and 1, 2 errors, timeouts, aborts, with and without length | no gap or duplicate but after a retry that threw data away; the end of a stream is announced only after all of it; a calm request ends, and releases reader and transfer when its headers have come | 3.0 M |
| `device` | `MCDevice`, `Device` | Playlist: 2 URIs, up to 2 songs, 2 actions, 1 foreign change; Sources: 2 edits, 1 restart, both play methods, depth 4 | places, ids, dirty flag, what control points come to see; sources agree, the playlist comes back | 1.0 M |
| `stores` | `MCStores`, `Stores` | tidal: 2 tracks of one of 2 albums, 2 writing threads; subsonic: 2 albums, 3 songs, pages of 2, 1 change, 2 starts | statistics, rows kept, the store follows the server, walks end | 2.4 M |
| `menus` | `MCMenus`, `Menus` | 1 artist, album, track, 1 withdrawn; libraries with all, none, one or all but one feature; lists up to 5 items, pages of 2 | entries open but the one after the last full page of played albums, buttons tell, Next continues | 1.0 M |
| `pages` | `MCPages`, `Pages` | see below | pages show what there is | 1.4 M |
| `sp_abort` | `StreamProxy`, `StreamAbort` | 3 units, client leaves | **violated**: a deleted reader may poll for ever | - |
| `pl_zero` | `Playlist`, `PlaylistFirst` | as in `device` | **violated**: Insert at the start fails when another source is active | - |
| `src_leave` | `Sources`, `Sources` | as in `device` | **violated**: leaving RD-to-Songcast selects without end | - |
| `uprcl_overlap` | `UprclUpdate`, `UprclOverlap` | as in `live`, 2 requests | **violated**: entries are shown while an update runs | - |

The parts of `pages`: 4 albums with two properties, every table of them; 3 artists, two
with one initial; an artist with 2 albums; 3 songs in 4 directories with the names of
discs; lists of up to 4 of 9 songs; 3 identifiers, paths of 2; cached lists of up to 2
items over 4 time steps; 2 images; 7 documents in any order; up to 4 of 7 songs, two with number 0, in any order;
3 tracks of 2 albums on 4 pages, one request for a stream a page; 3 artists, 2 albums, 2
songs and 2 playlists with 2 sets of names, up to 2 things found by the server, lists of 2.

*Why the bounds are enough to be interesting.*  Two threads on each side are what the
wakeup logic needs to go wrong (one notified, one blocked; one waiting for room, one for
idleness); limit 1 makes "full" and "empty" adjacent.  Three tasks let a refused, a queued
and an executed one exist at once.  Four snapshots and two stops give a crash during a save
and one after it.  Two errors give a retry of a retry; five units with a head of two and
reads of up to three give buffers that are cut, put back and kept.  Two actions with the
event thread and one foreign change include "leave then seek an old id", "insert, delete,
insert after it", "insert while the queue is read"; longer ones, such as two returns to the
playlist, are explored in Sources only, without the event thread.  A selection that nests
four deep there is the one of finding 3, which has no end.  Pages of two and three songs give a walk with a full page,
a last page and a shift by one; two starts let one walk prune what another saved.  In the
menus one thing of each kind is enough for every link between handlers.  Two updates
are the least that overlap; as any number of refused requests could keep the lock busy,
the requests are bounded.

*Deadlock* is checked in `queues` and `disk`.  Elsewhere a bounded run ends: the request,
the actions, the walk or the updates are over, and the check is off.  `CalmRequestEnds`,
`CallsReturn`, `ChangesEnd` and `CachingEnds` say that these end where they should.

*Symmetry* is used in `queues` (threads) and `pages` (albums of the browser), which have no
liveness property.

*Fairness.*  `live`: weak fairness of each thread inside an operation or a worker loop, as
the system's scheduler gives it; clients need not call anything.  Of uprcl, weak fairness
of the main thread once it answers, of an asker that holds the lock, of a running update and
its indexer, and strong fairness of taking the lock, as readers come and go.  Of the event
loops, weak fairness of the idle, poller and control threads; MPD need not tell anything.  `disk`: weak fairness of the save worker, which sleeps for a bounded
time.  `stream`: weak fairness of both threads; that the network makes progress is
justified by CURLOPT_LOW_SPEED_TIME (60 s), after which curl fails the transfer, which is a
step.  `device`: weak fairness of an action that has begun and of the event threads;
nothing is assumed of MPD or of control points.  `stores`: weak fairness of the caching
thread.

## 4. Where the code differs from what is said of it

Each has a run and an entry in `findings`:

1. `curlfetch.cpp:458`: a worker that sees `aborting` never sets `curldone`, and the
   destructor polls for it.
2. `ohplaylist.cxx:752`: AfterId 0 is looked up among the saved ids, and is not there.
3. `ohradio.cxx:528`: setActive(false) calls iStop(), which selects Radio, which is not the
   source RD-to-Songcast that is being left: that one is left again, and again.
4. `uprclinit.py:160`: the first of two overlapping updates to end clears the flag of both.

Others were met while modelling and have no run of their own; changing a constant,
dropping an exception that a property makes, or reading the named line shows them.

Core:

* `ohmetacache.cxx:120`: after a failed write or flush the worker still renames
  (`DiskFails = TRUE`).
* `workqueue.h:227` clears the waiting counter while a client is counted in it, and
  `:277` wakes one client of two kinds (with a limit of 2; nothing in the repository does that).
* `bufxchange.h:297`: reset() while a worker waits loses its wakeup (`ResetAnytime = TRUE`);
  timeouts leave the counters too high (`:97`, `:170`, `:206`, `:256`), bounded here by
  `MaxLeak`, which costs a needless notification.
* `streamproxy.cpp:103`: a retry after something was copied in the same call loses it, as
  contentRead() then returns 0 but restarts after the copied part; the offset is one in the
  response, not the resource, when the request had a range (`spoiled`).  A transfer
  that fails before its headers may be answered 200; a take timeout leads to a test of an
  unset status (`:97`), so only a calm request is sure of it.
* `ohplaylist.cxx:787`: cacheSet() and insertAfterId() are not one section; the event
  thread drops the metadata of Insert in between.  `:189-196`: an empty array stays shown if
  MPD pauses right after a title change: the "next event" of the comment need not come, only
  the poller's does while MPD plays (hence the hypothesis of `ConvergesPlaying`).
  `:339` sends the event before `m_active` is set.  `:807-838`: deletions while inactive do
  not reach the array shown.  `:852-869`: the token may be newer than the array.
* `mpdcli.cxx:1002-1034`: the place may be wrong when another MPD client acts between two
  commands (`raced`); an unknown id means the end of the queue, not fault 800; the 801 limit
  is not enforced; a failed queue reading returns 0, which counts as an id.

Event loops (behaviours after one of these are `excused`):

* `mpdcli.cxx:238`: a noidle sent between the test of `m_idleneedstop` and idle is ignored by
  MPD, as the comment there suspects, and stopEventLoop() waits for MPD's next event.
* `:144`: a second startEventLoop() before the thread of the first has connected joins it while
  holding `m_idlemutex`, which that thread needs; restoreState() calls openconn() twice
  (`:579`, `:610`).  takeEvents() takes nothing from an MPDCli that has not connected.
* `:69`: the destructor joins under `m_mutex` a thread that needs it for updStatus(), and does
  not join one that has not connected, which ends the process.
* `:171`: `m_subs` is replaced without `m_callbackmutex`, while restoreState() has started the
  loop that reads it.  Its callbacks may also hold the pointer to the second MPDCli that
  SenderReceiver::stop() deletes.

Sources:

* Stop of Receiver or Radio selects Playlist or Radio from any source.  Entering Radio
  without a saved state leaves the playlist's songs in MPD's queue, and leaving it saves
  them as the radio's.  `m_playpending` is never reset once a script channel has started.
* `ohradio.cxx:606` accepts an id that is the number of radios, and `:616` reads there.
* `ohreceiver.cxx:103`: when sc2mpd exits a new, empty command is put in `m_cmd`, so
  "Playing" is still shown although the comment says "we are playing as long as we have a
  subprocess".  In "mpd" mode urlMap() reads the saved playlist of a service that is
  inactive, so the Songcast URI is inserted again at each Play and never removed by iStop.
* A setSender during a Songcast source ends the local receiver.  Edits made in
  PL-to-Songcast are lost if the process ends; a restart while another source is selected
  makes Playlist save the queue of that source.

Tidal:

* `persistence.py:432`: a DROP COLUMN that SQLite refuses is logged, the column stays, and
  the version is stored as if it were gone; the plugin serves with it.
* `persistence.py:1143`: the failed INSERT keeps the database locked (`TrackUriLocked`), so
  the UPDATE raises and a play count does not pass 1.
* `tidal-app.py:4600`, `:4611`: an id that is a string removes nothing ("Favorites (-)"
  keeps the artist); `:3647`, `:3706`: pages skip items; `:5306`, `:5348`: Played albums
  raises when its last page is full, for the cover of a Next entry that has no album
  (`PlayedAlbums`, which `EntriesOpen` excepts); `:5405`, `:5490`: a page of bookmarks is too long; `:3186-3207`,
  `:3119`, `:4748`: AttributeError or TypeError when metadata is not cached or the artist or
  album is gone; `:3196`: the favourite button of an album follows stale metadata; `:4024`:
  a missing track of a playlist; `:6797`: the preloading worker ends at
  any exception: a failed request, a locked database, a row that a page has inserted since it
  looked; the
  MISSING_* elements have no handler.
* Streams: the default `dict()` of PLAYED_ALBUM_TRACKS_DICT is one object for all contexts
  (`context_key.py`, `tidal-app.py:1349`), so the played tracks of an album, once there are
  some, are not read again before a restart; a track that is twice in a mix raises
  "Duplicate key" (`context.py`), so the mix is not shown, the list of all tracks skips the
  entry, and an album ends there.

Subsonic:

* Menus: the Next entry of the albums of an artist drops the release type (`:2485`);
  genre_artist_to_entry overwrites its handler (`entry_creator.py:66-90`); `res.isOk`
  without a call is always true (`:3940`, `:4061`); the group of artists raises when no album
  has a cover (`:4006`, `:4017`); duplicate titles are compared cleaned and raw (`:3058`,
  `:3077`); a failed request deletes the cached metadata like a missing thing does;
  `station` is unbound when a radio station is not found.
* Database: what a page saves of an artist and of its roles are separate transactions
  (`:2764`); an initial "_" or "%" is a wildcard (`persistence.py:725`); a failing row ends
  the walk; a walk through songs keeps the write lock across requests;
  get_album_list_by_artist_genre may not end.
* Pages: the value [None] shifts the later pages of a key; the first source of a cover is
  taken even when it is "" (`art_retriever.py`), and favourites overwrite stored covers
  (`:93-141`); songs without a disc number are not among the discs; `startswith` (`:3778`)
  finds directories whose name begins alike, equality (`:469`) does not; a missing disc
  number among mixed versions raises (`:3822`); songs without a bit depth are left out
  when a badge is chosen, two lossless suffixes make "mixed", and an empty summary raises
  (`subsonic_util.py:2211`); the best of several songs is chosen without asking whether they are
  lossless, as both branches of `:2281` give 0 (`Format` in AlbumPages is the order that is
  left).
* Identifiers: base64 may contain "/", which splits the objid; after a purge an objid kept
  by a control point opens another page; encode() looks a value up before it locks.  A
  cover with a dot in its id is never found again; a failed removal leaves two files.  The
  cache keeps failed answers, and pages of favourites may span two answers.

* Search: `subsonic-app.py:4458` asks twice for PRELOAD_ALBUMS, and without PRELOAD_ARTISTS
  looks into rows that no walk stores; artists found in the database are cut at the limit of
  albums (`:4475`); simplify() lowers, so every third rank repeats the one before it; an
  album that is listed gets a row but its artists none, so its display name finds nobody.

uprcl:

* Folders: top directories with a common textual prefix get each other's files
  (`uprclfolderscreate.py:118`); a playlist directory loses tracks of one file name (`:252`);
  tracks of a group are not found by their path (`uprclfolders.py:162`);
  `uprclplaylists.py:166` calls rootentries() with one argument too many.
* Tags: a statement's count is cached by its text without its values
  (`uprcltags.py:141-154`); LIMIT without an order (`:174-180`); the tag view of a group
  directory is empty; an album whose tracks have composers becomes "Various Artists" although
  they share the artist (comment at `uprcltagscreate.py:416-417`); the partition into
  albums depends on the order of the index (`:346-355`); a title whose "[disc N]" was cut
  keeps a blank and does not merge; two tracks numbered 0 both show 0, as `:281` takes a
  number 0 before for none.
* Updates: the slower of two updates publishes older trees; indexerdone() reads `_idxproc`
  twice (`uprclindex.py:108-125`); the exit status of the indexer is
  ignored (`:132`), so that trees of the index as the failed one left it are published as new;
  ids shift with
  an update under a control point that holds them.

## 5. Proofs

The `_proofs` modules are checked for all values of the constants, under the named
assumptions of the modules (disjoint finite sets of threads, naturals for the bounds,
`UIntMax` at least the number of threads; the two assumptions on migration lists below) and,
where a theorem names them, under how the code uses a component: `OneSaver` and `Streaming`.
TLC evaluates all of them in the runs.

* `TypeCorrect`: every WorkQueue variable keeps its type.
* `NeverLostWakeup`, `QueueIsBounded`, `WorkersAreCounted` follow from the inductive
  invariant `IInv`.  `NoLostWakeup` alone is not inductive: put() notifies only when
  `m_workers_waiting > 0`, so one needs `WorkersCounted` (the counter is the number of
  workers in take(), which needs `UIntMax` to be large enough), `BlockedInTake` (who is
  blocked is in take()), and for setTerminateAndWait() and start(), `ExitsCounted` and
  `NoneLeft`.  The proof has one lemma per operation; a frame lemma covers steps
  that leave the workers alone.
* `JoinIsSafe`, `WaitIdleIsTrue` are action properties derived from `IInv`: the counters
  are compared to the number of threads, and a counting lemma (a subset as large as the
  finite set is the set) turns that into a statement about every worker.
* `TasksRunOnce`: a task is on the queue once or with one worker, never both, and a refused,
  flushed or finished one is in neither place.  The invariant adds that each client that
  waits in put() has a task of its own, not queued yet.
* `FileIsWhole`, `SavesImplement` assume `OneSaver`: the queue as `ohmetacache.cxx` starts it
  (one worker, no limit), and a disk without errors (with them the first is false, see
  section 4).  The invariant orders the snapshots in the file, in the worker's hands, on the
  queue and in memory, and ties the worker's place in a save to the lines of its temporary file.
  `SavesImplement` is the safety part of the refinement of SnapshotFile: each step leaves
  the file or moves it to a later snapshot that was asked for.
* `BuffersHaveOneOwner` assumes `Streaming`: how StreamProxy and NetFetch use the exchange (no
  reset while a thread waits, fewer timeouts than wrap a counter).  A buffer is
  on one queue or with one thread, a deleted one nowhere, the queues keep their limits and
  no wakeup is lost: that is `BuffersKept`, which `queues` checks through an instance.
* `ClientGetsTheStream`, from `StreamInvariant`: for a stream of any size, any sizes of
  network and client reads, any range and any number of failures, the client gets the units in
  order, and END_OF_STREAM only after the last one, unless a retry threw data away
  (`spoiled`).  `StreamInv` says that what was delivered, what the current read has copied, the
  buffer in hand, the queue (`Chain`) and what the transfer has still to send are one run of
  consecutive units.
* `AnswersShowOneIndex`, `TreesMoveForward`, from `UpdatesInvariant`: as long as no two updates
  overlapped, an answer of uprcl is made from one build of the trees, of an index that nobody
  was writing, and an update publishes trees as recent as its request and no older than those
  before.  If its indexer failed, it publishes trees no older than those before, or empty ones.  `UpdInv` has three parts:
  the only update owns the indexer that is polled (`OwnIndexer`), versions grow along request,
  scan, index and trees (`Versions`), and the main thread reads the trees only while nothing
  changes them (`Browsing`), which rests on the count of readers of the lock.
* `DiskFollowsCache`: `DiskFollows` is inductive once makeIdArray()'s replacement
  of the cache is related to the test that decides whether to save (`ArrayFollows`).
* `MutualExclusion`: `MutexesHeld` with the shape of `ctl` (`HeldInv`) is inductive, by groups
  of actions.
* `SeekIsRight`: `SeekPlaysIt` for any number of songs, URIs, actions and changes by other
  clients.  `mpd.names` keeps the URI of each id that MPD ever gave.  `IdInv` says that
  MPD's queue and `saved.queue` agree with it, and that a seek about to play has
  replaced its id by one of the same URI.  Each command of MPD is shown to extend `names`
  and to keep the agreement (`Better`); restoreState() is the hard one, as it appends a copy
  of the saved songs under new ids.  It rests on MPD never using an id twice while it runs.
* `VersionIsTrue`, `ServesTheLastSchema`, `OnlyTornFails` are about any lists of migrations
  with two properties: `ListAssumption` (migration v goes from version v - 1 to v) and
  `ShapeAssumption` (each statement runs on whatever the ones before it may leave, gives one of
  the next schemas, and run again later in its migration leaves one as late or raises).  The
  schemas of a place (`Shaped`) are the entry of `Shape` with any of the columns whose drop may
  have been refused before it (`Kept`).  The two theorems are thus about every SQLite, and allow
  on any of them the columns that one may refuse to drop.  TLC
  evaluates both for the two real lists in `disk`.  The invariant says that the schema is at the loop's
  position (`OnTrack`), or, after a restart in the middle of a migration, ahead of the
  version that is stored (`Ahead`): only then may a statement raise.
* `StoreFollows`, from `StoreInvariant`: for any finite library, any size of pages, any number
  of changes of the server and starts of the plugin, a walk of the caching thread that
  nothing disturbed (`excuse`: no change of the server, no page that forgets an album) leaves
  exactly what the server has, although pages of the menus write between any two of its steps
  and its own transaction stays open across requests.  `CompleteAfterPreload` says something
  about the end of the walk only; `StoreInv` adds what holds on the way:
  - each of the thread's places has its types, and a transaction is open only at those where
    the code may hold one (`TypeOK`, `PlaceFits`, `TxnFits`);
  - what refers to an album goes with its row, in the committed tables and in the
    transaction (`Closed`), so that a prune takes nothing but what it looks for;
  - a page under way holds what the server answered (`PageTells`), so that what it writes
    late is still true;
  - rows that are marked as updated since the start are on the server (`FreshIsThere`), and
    the walk has marked every album (`AlbumWalk`), then every song (`SongWalk`), that comes
    before its offset in the list of the server, or is still to be asked for.  With an empty
    or short page nothing comes after the offset, and the prune may take the rest;
  - the walk of the songs has counted those before the offset, so that the number promised for
    an album is reached with its last song, and its quality is stored (`WholeWalk`).

  A page writes only when no transaction is open; each of its writes is shown to grow the
  tables towards the server (`Grows`), and the parts above to be kept by whatever grows.
* `RowsStay`: the action properties `PrunedWasGone` and `RatedStays`, from the same invariant.
  Of `RowsKept`, which the run `stores` checks, this is the part of the subsonic plugin.

Only model-checked:

* all liveness and ENABLED, SnapshotFile's fairness included, as fairness is out of the
  prover's reach;
* of Playlist, `InsertPlace`, `StoppedWhenInactive` and `ConvergesPlaying`, for which no inductive
  invariant has been written;
* Sources, whose iSetSourceIndex is a RECURSIVE operator and thus beyond the prover, and
  EventLoop, which has no constant to generalise: its run is exhaustive;
* of TidalStore, `ListsAgree`, about lists that are filtered one row after the other, which
  takes an induction over data that the prover cannot do, and `StatsOnlyFromPlays` with it;
* the contents of the migration lists (`ServesItsQueries`): they are two concrete lists, which
  the run goes through entirely;
* the menus and pages of the plugins, whose properties are about computed pages and are
  checked over all small libraries.

## 6. What the models leave out

* WorkQueue, BufXChange: `waitminsz`, which nothing calls.
* MetaCache: the encoding of lines; that the disk keeps what rename() did (no fsync);
  a save refused by the queue.
* StreamProxy: redirections and immediate answers, the syntax of ranges (the external
  server honours them), the callbacks that nothing sets, the status code race at `streamproxy.cpp:447`.
* MpdCli: what a lost connection does to commands under way, commands that MPD refuses for other reasons
  than a bad position or id, MPD restarts (which reuse ids and versions), volume, scripts.
* Playlist: Repeat, Shuffle, seeking in a song, `Id`, protocol info, formats that are
  refused.  One control point's action runs at a time, as libupnpp serialises them;
  the callbacks of the idle thread and the poller exclude each other
  (`m_callbackmutex`), so they are one thread.  While inactive, what another source does
  to MPD is `Foreign`.  makestate() reads the status twice, which is one reading here.
* EventLoop: a refused password, the services behind the callbacks.
* Sources: the event threads, what control points are shown, Standby,
  the list of radios.  A pause is a stop, and the queue is told by who filled it.
* uprcl updates: `uprclnoindexing`, which publishes trees of the index as it is.
* Migrations: column types, foreign keys, the rows that a migration moves.
* Plugins: titles, formats, images, badges other than quality, sort orders; web sessions;
  the songs' secondary tables; reading stream metadata from a file (off by default);
  wildcards in a searched value; searches of uprcl, its radios, sorting and the translation of
  documents, and its playlists that cannot be opened; the HTTP servers of the plugins.  The
  pages of a plugin come one at a time, as the plugin process answers one request after the
  other.  The threads beside it are the caching thread of subsonic (SubsonicStore,
  SubsonicArtists) and the preloading thread of tidal: in TidalStore it writes between any two
  steps of a page, in TidalMenu (`Preload`) between two pages, which read the row of an album
  once.  Its `tag_images` dictionary and the images of categories, which pages alone store, are
  left out.
* Exceptions that properties make, each a deviation of section 4: `StreamInOrder` a restart in
  the middle of a call (`spoiled`), `InsertPlace` another client between the two commands of one
  insert (`raced`), `LinksOpen` a purge and a "/" in base64, `EntriesOpen` played albums.

## 7. Not modelled, and why

* `AVTransport`, `RenderingControl`: their state is two URIs with metadata compared to what
  MPD plays (`avtransport.cxx:253`); a model would need MPD's queue from MpdCli with events
  in both services, and the hazard is listed.
* `OHVolume`, `OHInfo`, `OHTime`: they translate MPD's status and keep nothing of their own.
* `OHCredentials`: encryption and a shared memory segment.
* `CmdTalk`, `PlgWithSlave`: the pipe to a plugin process.  Its hazards are a URL cached for
  10 s that connections share without a lock (`plgwithslave.cxx:350`) and a process that is
  replaced after a failed request.  The models of the plugins start where a request arrives.
* Content directory, start-up, utilities, configuration: dispatch, options and libraries
  without state that a model could tell apart.
* The other Python plugins (qobuz, hra, radios, attic): translation between a web service and
  listings, one request at a time, with a login as their only state.
* The GUI, scripts, vendored code and packaging are separate programs.
