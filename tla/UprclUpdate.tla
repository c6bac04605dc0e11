------------------------------ MODULE UprclUpdate ------------------------------
(***************************************************************************)
(* The index updates of the local media server (uprcl).  The main thread   *)
(* answers browse requests from the current trees; threads of its HTTP     *)
(* server ask for an update, which a thread of its own performs: it runs   *)
(* the indexer, builds new trees and publishes them.  A read-write lock    *)
(* and a flag keep browsing and updating apart.                            *)
(*                                                                         *)
(* The files and the index have versions: every document of the index is   *)
(* of its version or a later one.  An indexer that fails leaves the index  *)
(* as it was, some documents replaced or not, or with nothing in it.       *)
(***************************************************************************)
EXTENDS Integers, FiniteSets

CONSTANTS Askers,      \* threads of the HTTP server
          Updates,     \* the threads that updates start: a bound
          MaxFiles,    \* bound: versions of the media files
          MaxAsks,     \* bound: requests for an update
          Nobody

ASSUME UpdatesAssumption ==
  /\ Updates # {} /\ Nobody \notin Updates /\ IsFiniteSet(Askers)
  /\ MaxFiles \in Nat /\ MaxAsks \in Nat

VARIABLES readers,        \* of the lock; a writer holds it for one step only
          g_initrunning, g_initstatus,
          _g_trees,       \* the state of the files that the trees show
          _idxproc,       \* the update whose indexer is polled, or Nobody
          processes,      \* update -> "none", "scan", "write", "ended", "failed"
          scanned,        \* what an indexer read
          files, index,   \* versions of the media files and of the index, 0 for an empty one
          upc, apc, asks, \* where updates and askers are; requests so far
          built, asked,   \* update -> the version its trees show; the one at its start
          mpc, read,      \* the main thread, and the trees it has read
          answer,         \* what it answers: a set of versions, or {} for a message
          overlapped      \* history: two updates were under way together

vars == <<readers, g_initrunning, g_initstatus, _g_trees, _idxproc, processes, scanned, files, index,
          upc, apc, asks, built, asked, mpc, read, answer, overlapped>>

Torn == -1
NoTrees == -2

Unused == {u \in Updates : upc[u] = "none"}
AThread == CHOOSE u \in Unused : TRUE
UnderWay == {u \in Updates : upc[u] \notin {"none", "done"}}
Indexing == \E u \in Updates : processes[u] \in {"scan", "write"}
MoveTo(u, there) == upc' = [upc EXCEPT ![u] = there]

-----------------------------------------------------------------------------
(* The main thread. *)

\* initdone takes the lock; the answer is a message during an update and after
\* a failure.
browse ==
  /\ mpc = "idle"
  /\ readers' = readers + 1
  /\ mpc' = IF g_initrunning \/ ~g_initstatus THEN "release" ELSE "first"
  /\ UNCHANGED <<g_initrunning, g_initstatus, _g_trees, _idxproc, processes, scanned, files, index, upc, apc, asks, built, asked, read, answer, overlapped>>
\* The dispatcher finds the tree, which gets the documents from the folders.
getTree ==
  /\ mpc \in {"first", "second"}
  /\ read' = read \cup {_g_trees}
  /\ IF mpc = "first" THEN mpc' = "second" /\ UNCHANGED answer ELSE mpc' = "release" /\ answer' = read'
  /\ UNCHANGED <<readers, g_initrunning, g_initstatus, _g_trees, _idxproc, processes, scanned, files, index, upc, apc, asks, built, asked, overlapped>>
Answer ==
  /\ mpc = "release"
  /\ readers' = readers - 1 /\ mpc' = "idle" /\ read' = {} /\ answer' = {}
  /\ UNCHANGED <<g_initrunning, g_initstatus, _g_trees, _idxproc, processes, scanned, files, index, upc, apc, asks, built, asked, overlapped>>

-----------------------------------------------------------------------------
(* Asking for an update. *)

initdone(a) ==
  /\ apc[a] = "idle" /\ asks < MaxAsks
  /\ readers' = readers + 1 /\ asks' = asks + 1
  /\ apc' = [apc EXCEPT ![a] = IF g_initrunning THEN "refused" ELSE "accepted"]
  /\ UNCHANGED <<g_initrunning, g_initstatus, _g_trees, _idxproc, processes, scanned, files, index, upc, built, asked, mpc, read, answer, overlapped>>
\* Mutant of ReleaseRead: a refused request keeps the read lock.
KeepsLock(a) ==
  /\ apc[a] \in {"refused", "accepted"}
  /\ readers' = IF apc[a] = "accepted" THEN readers - 1 ELSE readers
  /\ apc' = [apc EXCEPT ![a] = IF @ = "accepted" THEN "starting" ELSE "idle"]
  /\ UNCHANGED <<g_initrunning, g_initstatus, _g_trees, _idxproc, processes, scanned, files, index, upc, asks, built, asked, mpc, read, answer, overlapped>>
ReleaseRead(a) ==
  /\ apc[a] \in {"refused", "accepted"}
  /\ readers' = readers - 1
  /\ apc' = [apc EXCEPT ![a] = IF @ = "accepted" THEN "starting" ELSE "idle"]
  /\ UNCHANGED <<g_initrunning, g_initstatus, _g_trees, _idxproc, processes, scanned, files, index, upc, asks, built, asked, mpc, read, answer, overlapped>>
\* The lock is free by now: another update may be about to start.
StartThread(a) ==
  /\ apc[a] = "starting" /\ Unused # {}
  /\ apc' = [apc EXCEPT ![a] = "idle"]
  /\ MoveTo(AThread, "start")
  /\ overlapped' = (overlapped \/ UnderWay # {})
  /\ UNCHANGED <<readers, g_initrunning, g_initstatus, _g_trees, _idxproc, processes, scanned, files, index, asks, built, asked, mpc, read, answer>>

-----------------------------------------------------------------------------
(* An update. *)

\* Mutant of SetFlag: the flag is set without the write lock.
FlagAtOnce(u) ==
  /\ upc[u] = "start"
  /\ g_initrunning' = TRUE /\ asked' = [asked EXCEPT ![u] = files]
  /\ MoveTo(u, "check")
  /\ UNCHANGED <<readers, g_initstatus, _g_trees, _idxproc, processes, scanned, files, index, apc, asks, built, mpc, read, answer, overlapped>>
SetFlag(u) ==
  /\ upc[u] = "start" /\ readers = 0
  /\ g_initrunning' = TRUE /\ asked' = [asked EXCEPT ![u] = files]
  /\ MoveTo(u, "check")
  /\ UNCHANGED <<readers, g_initstatus, _g_trees, _idxproc, processes, scanned, files, index, apc, asks, built, mpc, read, answer, overlapped>>
\* runindexer raises when an indexer is polled; it writes the configuration
\* before it starts one.
CheckIndexer(u) ==
  /\ upc[u] = "check"
  /\ MoveTo(u, IF _idxproc # Nobody THEN "failed" ELSE "configured")
  /\ UNCHANGED <<readers, g_initrunning, g_initstatus, _g_trees, _idxproc, processes, scanned, files, index, apc, asks, built, asked, mpc, read, answer, overlapped>>
\* An indexer ends at once, with an error, while another one is running.
runindexer(u) ==
  /\ upc[u] = "configured"
  /\ _idxproc' = u
  /\ processes' = [processes EXCEPT ![u] = IF Indexing THEN "failed" ELSE "scan"]
  /\ MoveTo(u, "wait")
  /\ UNCHANGED <<readers, g_initrunning, g_initstatus, _g_trees, scanned, files, index, apc, asks, built, asked, mpc, read, answer, overlapped>>
IndexerScans(u) ==
  /\ processes[u] = "scan"
  /\ processes' = [processes EXCEPT ![u] = "write"] /\ scanned' = [scanned EXCEPT ![u] = files]
  /\ UNCHANGED <<readers, g_initrunning, g_initstatus, _g_trees, _idxproc, files, index, upc, apc, asks, built, asked, mpc, read, answer, overlapped>>
IndexerEnds(u) ==
  /\ processes[u] = "write"
  /\ processes' = [processes EXCEPT ![u] = "ended"] /\ index' = scanned[u] /\ scanned' = [scanned EXCEPT ![u] = 0]
  /\ UNCHANGED <<readers, g_initrunning, g_initstatus, _g_trees, _idxproc, files, upc, apc, asks, built, asked, mpc, read, answer, overlapped>>
\* A rebuild (-z) has erased the index before it fails.
IndexerFails(u) ==
  /\ processes[u] \in {"scan", "write"}
  /\ processes' = [processes EXCEPT ![u] = "failed"] /\ index' \in {index, 0} /\ scanned' = [scanned EXCEPT ![u] = 0]
  /\ UNCHANGED <<readers, g_initrunning, g_initstatus, _g_trees, _idxproc, files, upc, apc, asks, built, asked, mpc, read, answer, overlapped>>
\* indexerdone tests the process, polls it, and forgets it: each reads it again.
\* Nothing asks whether the indexer failed.
indexerdone(u) ==
  /\ upc[u] = "wait"
  /\ MoveTo(u, IF _idxproc = Nobody THEN "build" ELSE "poll")
  /\ UNCHANGED <<readers, g_initrunning, g_initstatus, _g_trees, _idxproc, processes, scanned, files, index, apc, asks, built, asked, mpc, read, answer, overlapped>>
\* Mutant of Poll: the end of the indexer is not waited for.
PollOnce(u) ==
  /\ upc[u] = "poll"
  /\ MoveTo(u, IF _idxproc = Nobody THEN "failed" ELSE "forget")
  /\ UNCHANGED <<readers, g_initrunning, g_initstatus, _g_trees, _idxproc, processes, scanned, files, index, apc, asks, built, asked, mpc, read, answer, overlapped>>
Poll(u) ==
  /\ upc[u] = "poll"
  /\ MoveTo(u, IF _idxproc = Nobody THEN "failed" ELSE IF processes[_idxproc] \in {"ended", "failed"} THEN "forget" ELSE "wait")
  /\ UNCHANGED <<readers, g_initrunning, g_initstatus, _g_trees, _idxproc, processes, scanned, files, index, apc, asks, built, asked, mpc, read, answer, overlapped>>
Forget(u) ==
  /\ upc[u] = "forget"
  /\ _idxproc' = Nobody
  /\ MoveTo(u, "build")
  /\ UNCHANGED <<readers, g_initrunning, g_initstatus, _g_trees, processes, scanned, files, index, apc, asks, built, asked, mpc, read, answer, overlapped>>
\* The trees are built from what the index holds now; that may raise.
BuildTrees(u) ==
  /\ upc[u] = "build"
  /\ \/ built' = [built EXCEPT ![u] = IF Indexing THEN Torn ELSE index] /\ MoveTo(u, "publish")
     \/ MoveTo(u, "failed") /\ UNCHANGED built
  /\ UNCHANGED <<readers, g_initrunning, g_initstatus, _g_trees, _idxproc, processes, scanned, files, index, apc, asks, asked, mpc, read, answer, overlapped>>
Publish(u) ==
  /\ upc[u] = "publish"
  /\ _g_trees' = built[u] /\ g_initstatus' = TRUE
  /\ MoveTo(u, "finally") /\ built' = [built EXCEPT ![u] = NoTrees]
  /\ UNCHANGED <<readers, g_initrunning, _idxproc, processes, scanned, files, index, apc, asks, asked, mpc, read, answer, overlapped>>
Fail(u) ==
  /\ upc[u] = "failed"
  /\ g_initstatus' = FALSE
  /\ MoveTo(u, "finally")
  /\ UNCHANGED <<readers, g_initrunning, _g_trees, _idxproc, processes, scanned, files, index, apc, asks, built, asked, mpc, read, answer, overlapped>>
Finally(u) ==
  /\ upc[u] = "finally" /\ readers = 0
  /\ g_initrunning' = FALSE
  /\ MoveTo(u, "done") /\ asked' = [asked EXCEPT ![u] = 0]
  /\ UNCHANGED <<readers, g_initstatus, _g_trees, _idxproc, processes, scanned, files, index, apc, asks, built, mpc, read, answer, overlapped>>

\* The user changes the media files.
ChangeFiles ==
  /\ files < MaxFiles /\ files' = files + 1
  /\ UNCHANGED <<readers, g_initrunning, g_initstatus, _g_trees, _idxproc, processes, scanned, index, upc, apc, asks, built, asked, mpc, read, answer, overlapped>>

\* uprcl_init has started the first update when the main loop begins.
Init ==
  /\ readers = 0 /\ g_initrunning = FALSE /\ g_initstatus = FALSE
  /\ _g_trees = NoTrees /\ _idxproc = Nobody
  /\ processes = [u \in Updates |-> "none"] /\ scanned = [u \in Updates |-> 0]
  /\ files = 1 /\ index = 0
  /\ upc = [u \in Updates |-> IF u = (CHOOSE first \in Updates : TRUE) THEN "start" ELSE "none"]
  /\ apc = [a \in Askers |-> "idle"] /\ asks = 0
  /\ built = [u \in Updates |-> NoTrees] /\ asked = [u \in Updates |-> 0]
  /\ mpc = "idle" /\ read = {} /\ answer = {} /\ overlapped = FALSE
Locks(u) == SetFlag(u) \/ Finally(u)
Proceeds(u) ==
  \/ CheckIndexer(u) \/ runindexer(u) \/ indexerdone(u) \/ Poll(u) \/ Forget(u) \/ BuildTrees(u) \/ Publish(u) \/ Fail(u)
Indexer(u) == IndexerScans(u) \/ IndexerEnds(u) \/ IndexerFails(u)
Next ==
  \/ browse \/ getTree \/ Answer \/ ChangeFiles
  \/ \E a \in Askers : initdone(a) \/ ReleaseRead(a) \/ StartThread(a)
  \/ \E u \in Updates : Locks(u) \/ Proceeds(u) \/ Indexer(u)
Spec == Init /\ [][Next]_vars
\* Threads run and the indexer ends. The main thread waits for requests between
\* answers and users ask now and then, so a writer finds the lock free again and
\* again, and gets it at last.
Fairness ==
  /\ WF_vars(getTree \/ Answer)
  /\ \A a \in Askers : WF_vars(ReleaseRead(a))
  /\ \A u \in Updates : SF_vars(Locks(u)) /\ WF_vars(Proceeds(u)) /\ WF_vars(Indexer(u))
FairSpec == Spec /\ Fairness

-----------------------------------------------------------------------------
(* Properties. *)

\* As long as no two updates overlapped, an answer shows one build of the trees,
\* of an index that no indexer was writing (initdone, _update_index).
AnswersAreWhole == ~overlapped => Cardinality(answer) <= 1 /\ Torn \notin answer /\ NoTrees \notin answer
\* As long as no two updates overlapped, trees that are published show the files
\* at the start of their update or later ones, and never older ones than those
\* shown before.  An indexer that failed gives no recent trees, and they are
\* published all the same: older ones only when it left nothing in the index
\* (runindexer, indexerdone).
TreesAreRecent ==
  [][~overlapped => \A u \in Updates : upc[u] = "publish" /\ upc'[u] = "finally" =>
       IF processes[u] = "failed" THEN _g_trees' >= _g_trees \/ _g_trees' = 0
       ELSE _g_trees' >= asked[u] /\ _g_trees' >= _g_trees]_vars
\* Every update ends, those that overlap as well: no reader, and no request that
\* is refused, keeps it from the lock, and no lost indexer keeps it waiting
\* (rwlock, start_index_update, indexerdone).
UpdatesEnd == \A u \in Updates : upc[u] = "start" ~> upc[u] = "done"
\* "While this is running, or after a failure any access to the root container
\* ... will display either an Initializing or error message"
\* (uprclinit.py:115): false once two updates overlap.
MessageDuringUpdate ==
  [][\A u \in Updates : upc[u] \notin {"none", "start", "done"} /\ mpc = "second" /\ mpc' = "release" =>
       answer' = {}]_vars

\* The invariant behind AnswersAreWhole and TreesAreRecent.  The lock counts the
\* threads that hold it, whatever happens.
TypeOK ==
  /\ readers \in Nat /\ g_initrunning \in BOOLEAN /\ g_initstatus \in BOOLEAN /\ overlapped \in BOOLEAN
  /\ _g_trees \in Int /\ _idxproc \in Updates \cup {Nobody} /\ files \in Nat /\ index \in Nat
  /\ processes \in [Updates -> {"none", "scan", "write", "ended", "failed"}] /\ scanned \in [Updates -> Nat]
  /\ upc \in [Updates -> {"none", "start", "check", "configured", "wait", "poll", "forget", "build",
                          "publish", "failed", "finally", "done"}]
  /\ apc \in [Askers -> {"idle", "refused", "accepted", "starting"}]
  /\ built \in [Updates -> Int] /\ asked \in [Updates -> Nat]
  /\ mpc \in {"idle", "first", "second", "release"} /\ read \subseteq Int /\ answer \subseteq Int
Reading == {a \in Askers : apc[a] \in {"refused", "accepted"}}
ReadersCounted == readers = IF mpc = "idle" THEN Cardinality(Reading) ELSE Cardinality(Reading) + 1

\* As long as no two updates overlapped: the indexer that is polled is that of the
\* only update, and no other one runs; ...
Changing == {u \in Updates : upc[u] \notin {"none", "start", "done"}}
Polled   == {u \in Updates : upc[u] \in {"wait", "poll", "forget"}}
OwnIndexer ==
  /\ \A u, v \in UnderWay : u = v
  /\ _idxproc # Nobody => _idxproc \in Polled
  /\ \A u \in Polled : _idxproc = u /\ processes[u] # "none" /\ (upc[u] = "forget" => processes[u] \in {"ended", "failed"})
  /\ \A u \in Updates : processes[u] \in {"scan", "write"} => u \in Polled
\* ... what it read and left in the index is not older than the request and the
\* trees shown, if it did not fail, and the new trees are those of the index; ...
Versions ==
  /\ index <= files /\ (_g_trees = NoTrees \/ _g_trees \in 0 .. files)
  /\ index = 0 \/ _g_trees <= index
  /\ \A u \in Updates :
       /\ asked[u] <= files
       /\ processes[u] = "write" => scanned[u] \in index .. files /\ asked[u] <= scanned[u] /\ _g_trees <= scanned[u]
       /\ upc[u] \in {"wait", "poll", "forget", "build", "publish"} /\ processes[u] = "ended" =>
            asked[u] <= index /\ _g_trees <= index
       /\ upc[u] \in {"build", "publish"} => processes[u] \in {"ended", "failed"}
       /\ upc[u] = "publish" => built[u] = index
\* ... and the main thread reads the trees only while nothing changes them.
Browsing ==
  /\ Changing # {} => g_initrunning
  /\ g_initstatus => _g_trees # NoTrees
  /\ mpc \in {"first", "second"} => Changing = {} /\ g_initstatus
  /\ read = IF mpc = "second" THEN {_g_trees} ELSE IF mpc = "release" THEN answer ELSE {}
  /\ mpc # "release" => answer = {}
  /\ answer = {} \/ \E v \in 0 .. files : answer = {v}

UpdInv == /\ TypeOK /\ ReadersCounted
          /\ ~overlapped => OwnIndexer /\ Versions /\ Browsing
=============================================================================
