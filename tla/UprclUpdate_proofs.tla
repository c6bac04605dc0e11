-------------------------- MODULE UprclUpdate_proofs --------------------------
(***************************************************************************)
(* Proofs about the index updates of uprcl, for any number of updates, of  *)
(* threads that ask for one and of changes of the media files.             *)
(***************************************************************************)
EXTENDS UprclUpdate, FiniteSetTheorems, TLAPS

\* The steps of the updates and of their indexers.
UpdateStep(u) == Locks(u) \/ Proceeds(u) \/ Indexer(u)

LEMMA VersionNumbers == Torn = -1 /\ NoTrees = -2 /\ Torn \notin Nat /\ NoTrees \notin Nat
BY DEF Torn, NoTrees

LEMMA ThreadIsUnused == Unused # {} => AThread \in Unused
BY DEF AThread

-----------------------------------------------------------------------------
\* Types.

LEMMA InitType == Init => TypeOK
  <1> SUFFICES ASSUME Init PROVE TypeOK
    OBVIOUS
  <1>1. NoTrees \in Int
    BY DEF NoTrees
  <1>2. built \in [Updates -> Int] /\ _g_trees \in Int
    BY <1>1 DEF Init
  <1>3. /\ upc \in [Updates -> {"none", "start"}] /\ apc \in [Askers -> {"idle"}]
        /\ processes \in [Updates -> {"none"}]
        /\ scanned \in [Updates -> {0}] /\ asked \in [Updates -> {0}]
    BY DEF Init
  <1>4. QED
    BY <1>2, <1>3 DEF Init, TypeOK

LEMMA ReadingCounted ==
  /\ IsFiniteSet(Reading) /\ Cardinality(Reading) \in Nat
  /\ \A a \in Reading : Cardinality(Reading \ {a}) = Cardinality(Reading) - 1 /\ Cardinality(Reading) > 0
  /\ \A a \in Askers \ Reading : Cardinality(Reading \cup {a}) = Cardinality(Reading) + 1
  <1>1. IsFiniteSet(Reading)
    BY UpdatesAssumption, FS_Subset DEF Reading
  <1>2. \A a \in Reading : /\ Cardinality(Reading \ {a}) = Cardinality(Reading) - 1
                           /\ Cardinality(Reading \ {a}) \in Nat
    BY <1>1, FS_RemoveElement, FS_CardinalityType
  <1>3. QED
    BY <1>1, <1>2, FS_AddElement, FS_CardinalityType

LEMMA MainType ==
  ASSUME TypeOK, ReadersCounted, browse \/ getTree \/ Answer
  PROVE  TypeOK'
  <1>1. CASE browse
    BY <1>1 DEF TypeOK, browse
  <1>2. CASE getTree
    BY <1>2 DEF TypeOK, getTree
  <1>3. CASE Answer
    <2>1. readers > 0
      BY <1>3, ReadingCounted DEF Answer, ReadersCounted
    <2>2. QED
      BY <1>3, <2>1 DEF TypeOK, Answer
  <1>4. QED
    BY <1>1, <1>2, <1>3

LEMMA AskType ==
  ASSUME TypeOK, ReadersCounted, NEW a \in Askers, initdone(a) \/ ReleaseRead(a) \/ StartThread(a)
  PROVE  TypeOK'
  <1>1. CASE initdone(a)
    BY <1>1 DEF TypeOK, initdone
  <1>2. CASE ReleaseRead(a)
    <2>1. a \in Reading
      BY <1>2 DEF ReleaseRead, Reading
    <2>2. Cardinality(Reading) \in Nat /\ Cardinality(Reading) > 0
      BY <2>1, ReadingCounted
    <2>3. readers > 0
      BY <2>2 DEF ReadersCounted
    <2>4. QED
      BY <1>2, <2>3 DEF TypeOK, ReleaseRead
  <1>3. CASE StartThread(a)
    BY <1>3, ThreadIsUnused DEF TypeOK, StartThread, MoveTo, Unused
  <1>4. QED
    BY <1>1, <1>2, <1>3

LEMMA UpdateType ==
  ASSUME TypeOK, NEW u \in Updates, UpdateStep(u)
  PROVE  TypeOK'
  <1>1. CASE SetFlag(u) \/ Finally(u)
    <2>1. CASE SetFlag(u)
      BY <2>1 DEF TypeOK, SetFlag, MoveTo
    <2>2. CASE Finally(u)
      BY <2>2 DEF TypeOK, Finally, MoveTo
    <2>3. QED
      BY <1>1, <2>1, <2>2
  <1>2. CASE CheckIndexer(u) \/ indexerdone(u) \/ Poll(u)
    BY <1>2 DEF TypeOK, CheckIndexer, indexerdone, Poll, MoveTo
  <1>3. CASE runindexer(u)
    BY <1>3 DEF TypeOK, runindexer, MoveTo
  <1>4. CASE Forget(u) \/ Fail(u)
    BY <1>4 DEF TypeOK, Forget, Fail, MoveTo
  <1>5. CASE BuildTrees(u)
    BY <1>5 DEF TypeOK, BuildTrees, MoveTo, Torn
  <1>6. CASE Publish(u)
    BY <1>6 DEF TypeOK, Publish, MoveTo, NoTrees
  <1>7. CASE IndexerScans(u) \/ IndexerEnds(u) \/ IndexerFails(u)
    <2>1. CASE IndexerScans(u)
      BY <2>1 DEF TypeOK, IndexerScans
    <2>2. CASE IndexerEnds(u)
      BY <2>2 DEF TypeOK, IndexerEnds
    <2>3. CASE IndexerFails(u)
      BY <2>3 DEF TypeOK, IndexerFails
    <2>4. QED
      BY <1>7, <2>1, <2>2, <2>3
  <1>8. QED
    BY <1>1, <1>2, <1>3, <1>4, <1>5, <1>6, <1>7 DEF UpdateStep, Locks, Proceeds, Indexer

LEMMA NextType ==
  ASSUME TypeOK, ReadersCounted, [Next]_vars
  PROVE  TypeOK'
  <1>1. CASE ChangeFiles
    BY <1>1 DEF TypeOK, ChangeFiles
  <1>2. CASE UNCHANGED vars
    BY <1>2 DEF TypeOK, vars
  <1>3. QED
    BY <1>1, <1>2, MainType, AskType, UpdateType DEF Next, UpdateStep

-----------------------------------------------------------------------------
\* The lock.

LEMMA NextReaders ==
  ASSUME TypeOK, ReadersCounted, [Next]_vars
  PROVE  ReadersCounted'
  <1>1. CASE UNCHANGED apc
    <2>1. Reading' = Reading
      BY <1>1 DEF Reading
    <2>2. CASE browse \/ Answer
      BY <2>1, <2>2, ReadingCounted DEF ReadersCounted, browse, Answer, TypeOK
    <2>3. CASE UNCHANGED <<readers, mpc>> \/ getTree
      BY <2>1, <2>3 DEF ReadersCounted, getTree
    <2>4. ASSUME NEW u \in Updates, UpdateStep(u) PROVE UNCHANGED <<readers, mpc>>
      BY <2>4 DEF UpdateStep, Locks, Proceeds, Indexer, SetFlag, Finally, CheckIndexer, indexerdone,
                  Poll, runindexer, Forget, Fail, BuildTrees, Publish, IndexerScans, IndexerEnds, IndexerFails
    <2>5. ASSUME NEW a \in Askers, initdone(a) \/ ReleaseRead(a) \/ StartThread(a) PROVE FALSE
      BY <1>1, <2>5 DEF TypeOK, initdone, ReleaseRead, StartThread
    <2>6. CASE ChangeFiles \/ UNCHANGED vars
      BY <2>3, <2>6 DEF ChangeFiles, vars
    <2>7. QED
      BY <2>2, <2>3, <2>4, <2>5, <2>6 DEF Next, UpdateStep
  <1>2. ASSUME NEW a \in Askers, initdone(a) PROVE ReadersCounted'
    <2>1. a \notin Reading /\ Reading' = Reading \cup {a}
      BY <1>2 DEF initdone, Reading, TypeOK
    <2>2. QED
      BY <1>2, <2>1, ReadingCounted DEF initdone, ReadersCounted
  <1>3. ASSUME NEW a \in Askers, ReleaseRead(a) PROVE ReadersCounted'
    <2>1. a \in Reading /\ Reading' = Reading \ {a}
      BY <1>3 DEF ReleaseRead, Reading, TypeOK
    <2>2. QED
      BY <1>3, <2>1, ReadingCounted DEF ReleaseRead, ReadersCounted
  <1>4. ASSUME NEW a \in Askers, StartThread(a) PROVE ReadersCounted'
    <2>1. Reading' = Reading
      BY <1>4 DEF StartThread, Reading, TypeOK
    <2>2. QED
      BY <1>4, <2>1 DEF StartThread, ReadersCounted
  <1>5. ASSUME NEW u \in Updates, UpdateStep(u) PROVE UNCHANGED apc
    BY <1>5 DEF UpdateStep, Locks, Proceeds, Indexer, SetFlag, Finally, CheckIndexer, indexerdone,
                Poll, runindexer, Forget, Fail, BuildTrees, Publish, IndexerScans, IndexerEnds, IndexerFails
  <1>6. CASE browse \/ getTree \/ Answer \/ ChangeFiles \/ UNCHANGED vars
    BY <1>1, <1>6 DEF browse, getTree, Answer, ChangeFiles, vars
  <1>7. QED
    BY <1>1, <1>2, <1>3, <1>4, <1>5, <1>6 DEF Next, UpdateStep

\* A thread that holds the lock is counted.
LEMMA ReaderHolds ==
  ASSUME ReadersCounted, mpc # "idle"
  PROVE  readers > 0
BY ReadingCounted DEF ReadersCounted

-----------------------------------------------------------------------------
\* While no two updates overlap.

Quiet == OwnIndexer /\ Versions /\ Browsing

LEMMA OverlapStays ==
  ASSUME TypeOK, [Next]_vars, ~overlapped'
  PROVE  ~overlapped
  <1>1. ASSUME NEW u \in Updates, UpdateStep(u) PROVE UNCHANGED overlapped
    BY <1>1 DEF UpdateStep, Locks, Proceeds, Indexer, SetFlag, Finally, CheckIndexer, indexerdone,
                Poll, runindexer, Forget, Fail, BuildTrees, Publish, IndexerScans, IndexerEnds, IndexerFails
  <1>2. ASSUME NEW a \in Askers, initdone(a) \/ ReleaseRead(a) PROVE UNCHANGED overlapped
    BY <1>2 DEF initdone, ReleaseRead
  <1>3. ASSUME NEW a \in Askers, StartThread(a) PROVE ~overlapped
    BY <1>3 DEF StartThread
  <1>4. CASE browse \/ getTree \/ Answer \/ ChangeFiles \/ UNCHANGED vars
    BY <1>4 DEF browse, getTree, Answer, ChangeFiles, vars
  <1>5. QED
    BY <1>1, <1>2, <1>3, <1>4 DEF Next, UpdateStep

LEMMA InitQuiet == Init => Quiet
  <1> SUFFICES ASSUME Init PROVE Quiet
    OBVIOUS
  <1> DEFINE first == CHOOSE u \in Updates : TRUE
  <1>1. first \in Updates
    BY UpdatesAssumption
  <1>2. \A u \in Updates : /\ upc[u] = IF u = first THEN "start" ELSE "none"
                           /\ processes[u] = "none" /\ asked[u] = 0
    BY DEF Init
  <1> HIDE DEF first
  <1>3. UnderWay = {first} /\ Polled = {} /\ Changing = {}
    BY <1>1, <1>2 DEF UnderWay, Polled, Changing
  <1>4. OwnIndexer
    BY <1>2, <1>3 DEF OwnIndexer, Init
  <1>5. Versions
    BY <1>2, <1>3 DEF Versions, Init
  <1>6. Browsing
    BY <1>3 DEF Browsing, Init
  <1>7. QED
    BY <1>4, <1>5, <1>6 DEF Quiet

\* What the trees and the answers show does not depend on the threads that ask.
LEMMA MainQuiet ==
  ASSUME TypeOK, Quiet, browse \/ getTree \/ Answer
  PROVE  Quiet'
  <1>1. UNCHANGED <<_g_trees, g_initrunning, g_initstatus, _idxproc, processes, scanned, files, index, upc, built, asked>>
    BY DEF browse, getTree, Answer
  <1>2. OwnIndexer' /\ Versions'
    BY <1>1 DEF Quiet, OwnIndexer, Versions, UnderWay, Polled
  <1>3. Changing' = Changing
    BY <1>1 DEF Changing
  <1>4. Browsing'
    <2>1. CASE browse
      BY <1>1, <1>3, <2>1 DEF Quiet, Browsing, browse, TypeOK
    <2>2. CASE getTree /\ mpc = "first"
      <3>1. read = {} /\ answer = {} /\ Changing = {} /\ g_initstatus
        BY <2>2 DEF Quiet, Browsing
      <3>2. read' = {_g_trees} /\ answer' = {} /\ mpc' = "second"
        BY <2>2, <3>1 DEF getTree
      <3>3. QED
        BY <1>1, <1>3, <3>1, <3>2 DEF Quiet, Browsing
    <2>3. CASE getTree /\ mpc = "second"
      <3>1. read' = {_g_trees} /\ answer' = {_g_trees} /\ mpc' = "release"
        BY <2>3 DEF Quiet, Browsing, getTree
      <3>2. _g_trees \in 0 .. files
        BY <2>3 DEF Quiet, Browsing, Versions
      <3>3. QED
        BY <1>1, <1>3, <3>1, <3>2 DEF Quiet, Browsing
    <2>4. CASE Answer
      BY <1>1, <1>3, <2>4 DEF Quiet, Browsing, Answer, TypeOK
    <2>5. QED
      BY <2>1, <2>2, <2>3, <2>4 DEF getTree
  <1>5. QED
    BY <1>2, <1>4 DEF Quiet

LEMMA AskQuiet ==
  ASSUME TypeOK, Quiet, ~overlapped', NEW a \in Askers, initdone(a) \/ ReleaseRead(a) \/ StartThread(a)
  PROVE  Quiet'
  <1>1. UNCHANGED <<_g_trees, g_initrunning, g_initstatus, _idxproc, processes, scanned, files, index, built, asked, mpc, read, answer>>
    BY DEF initdone, ReleaseRead, StartThread
  <1>2. CASE UNCHANGED upc
    <2>1. UnderWay' = UnderWay /\ Polled' = Polled /\ Changing' = Changing
      BY <1>2 DEF UnderWay, Polled, Changing
    <2>2. QED
      BY <1>1, <1>2, <2>1 DEF Quiet, OwnIndexer, Versions, Browsing
  <1>3. CASE StartThread(a)
    <2>1. UnderWay = {} /\ AThread \in Unused
      BY <1>3, ThreadIsUnused DEF StartThread, TypeOK
    <2>2. upc' = [upc EXCEPT ![AThread] = "start"]
      BY <1>3 DEF StartThread, MoveTo
    <2> HIDE DEF AThread
    <2>3. Polled = {} /\ Changing = {}
      BY <2>1 DEF UnderWay, Polled, Changing
    <2>4. UnderWay' = {AThread} /\ Polled' = {} /\ Changing' = {}
      BY <2>1, <2>2, <2>3 DEF UnderWay, Polled, Changing, Unused, TypeOK
    <2>5. \A u \in Updates : upc'[u] \notin {"wait", "poll", "forget", "build", "publish"}
      BY <2>1, <2>2 DEF TypeOK, UnderWay, Unused
    <2>6. OwnIndexer'
      BY <1>1, <2>3, <2>4 DEF Quiet, OwnIndexer
    <2>7. Versions'
      BY <1>1, <2>3, <2>4, <2>5 DEF Quiet, Versions
    <2>8. Browsing'
      BY <1>1, <2>3, <2>4 DEF Quiet, Browsing
    <2>9. QED
      BY <2>6, <2>7, <2>8 DEF Quiet
  <1>4. QED
    BY <1>2, <1>3 DEF initdone, ReleaseRead

LEMMA FilesQuiet ==
  ASSUME TypeOK, Quiet, ChangeFiles
  PROVE  Quiet'
  <1>1. UnderWay' = UnderWay /\ Polled' = Polled /\ Changing' = Changing
    BY DEF UnderWay, Polled, Changing, ChangeFiles
  <1>2. OwnIndexer'
    BY <1>1 DEF Quiet, OwnIndexer, ChangeFiles
  <1>3. Versions'
    BY <1>1 DEF Quiet, Versions, ChangeFiles, TypeOK
  <1>4. Browsing'
    <2>1. 0 .. files \subseteq 0 .. files' /\ UNCHANGED <<g_initrunning, g_initstatus, _g_trees, mpc, read, answer>>
      BY DEF ChangeFiles, TypeOK
    <2>2. QED
      BY <1>1, <2>1 DEF Quiet, Browsing
  <1>5. QED
    BY <1>2, <1>3, <1>4 DEF Quiet
\* The only update moves, and all others have not begun or have ended.
LEMMA OthersRest ==
  ASSUME TypeOK, Quiet, NEW u \in UnderWay, NEW there, MoveTo(u, there)
  PROVE  /\ u \in Updates /\ upc'[u] = there
         /\ \A v \in Updates \ {u} : upc[v] \in {"none", "done"} /\ upc'[v] = upc[v]
BY DEF TypeOK, Quiet, OwnIndexer, UnderWay, MoveTo

\* An update that is told of nothing but its own progress.
LEMMA MovesQuietly ==
  ASSUME TypeOK, Quiet, NEW u \in UnderWay, NEW there, MoveTo(u, there),
         upc[u] # "start", there \notin {"none", "start", "done"},
         UNCHANGED <<readers, g_initrunning, index, files, asked, mpc, read, answer>>
  PROVE  /\ \A v, w \in UnderWay' : v = w
         /\ Changing # {} /\ Changing' # {} /\ g_initrunning'
         /\ mpc \notin {"first", "second"}
  <1>1. u \in Changing
    BY DEF UnderWay, Changing
  <1>2. u \in Changing' /\ UnderWay' = {u}
    BY OthersRest DEF Changing, UnderWay
  <1>3. QED
    BY <1>1, <1>2 DEF Quiet, Browsing

LEMMA SetFlagQuiet ==
  ASSUME TypeOK, ReadersCounted, Quiet, NEW u \in Updates, SetFlag(u)
  PROVE  Quiet'
  <1>1. mpc = "idle"
    BY ReaderHolds DEF SetFlag
  <1>2. u \in UnderWay
    BY DEF SetFlag, UnderWay
  <1>3. /\ upc[u] = "start" /\ upc'[u] = "check"
        /\ \A v \in Updates \ {u} : upc[v] \in {"none", "done"} /\ upc'[v] = upc[v]
    BY <1>2, OthersRest DEF SetFlag
  <1>4. UnderWay' = {u} /\ Polled = {} /\ Polled' = {}
    BY <1>3 DEF UnderWay, Polled
  <1>5. OwnIndexer'
    BY <1>4 DEF Quiet, OwnIndexer, SetFlag
  <1>6. Versions'
    <2>1. \A v \in Updates : asked'[v] <= files
      BY DEF Quiet, Versions, SetFlag, TypeOK
    <2>2. \A v \in Updates : processes[v] \notin {"write", "scan"}
      BY <1>4 DEF Quiet, OwnIndexer
    <2>3. QED
      BY <1>3, <1>4, <2>1, <2>2 DEF Quiet, Versions, SetFlag
  <1>7. Browsing'
    BY <1>1 DEF Quiet, Browsing, SetFlag
  <1>8. QED
    BY <1>5, <1>6, <1>7 DEF Quiet

LEMMA FinallyQuiet ==
  ASSUME TypeOK, ReadersCounted, Quiet, NEW u \in Updates, Finally(u)
  PROVE  Quiet'
  <1>1. mpc = "idle"
    BY ReaderHolds DEF Finally
  <1>2. u \in UnderWay
    BY DEF Finally, UnderWay
  <1>3. /\ upc[u] = "finally" /\ upc'[u] = "done"
        /\ \A v \in Updates \ {u} : upc[v] \in {"none", "done"} /\ upc'[v] = upc[v]
    BY <1>2, OthersRest DEF Finally
  <1>4. UnderWay' = {} /\ Polled = {} /\ Polled' = {} /\ Changing' = {}
    BY <1>3 DEF UnderWay, Polled, Changing
  <1>5. OwnIndexer'
    BY <1>4 DEF Quiet, OwnIndexer, Finally
  <1>6. Versions'
    <2>1. \A v \in Updates : asked'[v] <= files
      BY DEF Quiet, Versions, Finally, TypeOK
    <2>2. \A v \in Updates : processes[v] \notin {"write", "scan"}
      BY <1>4 DEF Quiet, OwnIndexer
    <2>3. QED
      BY <1>3, <1>4, <2>1, <2>2 DEF Quiet, Versions, Finally
  <1>7. Browsing'
    BY <1>1, <1>4 DEF Quiet, Browsing, Finally
  <1>8. QED
    BY <1>5, <1>6, <1>7 DEF Quiet

LEMMA CheckIndexerQuiet ==
  ASSUME TypeOK, Quiet, NEW u \in Updates, CheckIndexer(u)
  PROVE  Quiet'
  <1> DEFINE there == IF _idxproc # Nobody THEN "failed" ELSE "configured"
  <1>1. u \in UnderWay /\ upc[u] = "check" /\ MoveTo(u, there)
    BY DEF CheckIndexer, UnderWay
  <1>2. there \in {"failed", "configured"}
    OBVIOUS
  <1> HIDE DEF there
  <1>3. /\ upc'[u] = there
        /\ \A v \in Updates \ {u} : upc[v] \in {"none", "done"} /\ upc'[v] = upc[v]
    BY <1>1, OthersRest
  <1>4. Polled = {} /\ Polled' = {}
    BY <1>1, <1>2, <1>3 DEF Polled
  <1>5. /\ \A v, w \in UnderWay' : v = w
        /\ Changing # {} /\ Changing' # {} /\ g_initrunning'
        /\ mpc \notin {"first", "second"}
    BY <1>1, <1>2, MovesQuietly DEF CheckIndexer
  <1>6. OwnIndexer'
    BY <1>4, <1>5 DEF Quiet, OwnIndexer, CheckIndexer
  <1>7. Versions'
    BY <1>2, <1>3, <1>4 DEF Quiet, Versions, CheckIndexer
  <1>8. Browsing'
    BY <1>5 DEF Quiet, Browsing, CheckIndexer
  <1>9. QED
    BY <1>6, <1>7, <1>8 DEF Quiet
LEMMA runindexerQuiet ==
  ASSUME TypeOK, Quiet, NEW u \in Updates, runindexer(u)
  PROVE  Quiet'
  <1>1. u \in UnderWay /\ upc[u] = "configured" /\ MoveTo(u, "wait")
    BY DEF runindexer, UnderWay
  <1>2. /\ upc'[u] = "wait"
        /\ \A v \in Updates \ {u} : upc[v] \in {"none", "done"} /\ upc'[v] = upc[v]
    BY <1>1, OthersRest
  <1>3. Polled = {} /\ Polled' = {u}
    BY <1>1, <1>2 DEF Polled
  <1>4. ~Indexing
    BY <1>3 DEF Quiet, OwnIndexer, Indexing
  <1>5. processes' = [processes EXCEPT ![u] = "scan"]
    BY <1>4 DEF runindexer
  <1>6. /\ \A v, w \in UnderWay' : v = w
        /\ Changing # {} /\ Changing' # {} /\ g_initrunning'
        /\ mpc \notin {"first", "second"}
    BY <1>1, MovesQuietly DEF runindexer
  <1>7. OwnIndexer'
    BY <1>2, <1>3, <1>5, <1>6 DEF Quiet, OwnIndexer, runindexer, TypeOK
  <1>8. Versions'
    BY <1>2, <1>3, <1>5 DEF Quiet, Versions, runindexer, TypeOK
  <1>9. Browsing'
    BY <1>6 DEF Quiet, Browsing, runindexer
  <1>10. QED
    BY <1>7, <1>8, <1>9 DEF Quiet

\* The indexer that runs is that of the update which waits for it.
LEMMA IndexerQuiet ==
  ASSUME TypeOK, Quiet, NEW u \in Updates, Indexer(u)
  PROVE  Quiet'
  <1>1. u \in Polled /\ u \in UnderWay /\ upc[u] \in {"wait", "poll"}
    BY DEF Quiet, OwnIndexer, Indexer, IndexerScans, IndexerEnds, IndexerFails, Polled, UnderWay
  <1>2. \A v \in Updates \ {u} : upc[v] \in {"none", "done"} /\ v \notin Polled
    BY <1>1 DEF Quiet, OwnIndexer, UnderWay, Polled, TypeOK
  <1>3. UnderWay' = UnderWay /\ Polled' = Polled /\ Changing' = Changing
    BY DEF Indexer, IndexerScans, IndexerEnds, IndexerFails, UnderWay, Polled, Changing
  <1>4. \A v \in Updates \ {u} : processes[v] \notin {"scan", "write"} /\ processes'[v] = processes[v]
    BY <1>2 DEF Quiet, OwnIndexer, Indexer, IndexerScans, IndexerEnds, IndexerFails, TypeOK
  <1>5. OwnIndexer'
    BY <1>1, <1>3, <1>4 DEF Quiet, OwnIndexer, Indexer, IndexerScans, IndexerEnds, IndexerFails, TypeOK
  <1>6. Versions'
    <2>1. CASE IndexerScans(u)
      <3>1. _g_trees <= files
        BY VersionNumbers DEF Quiet, Versions, TypeOK
      <3>2. QED
        BY <1>1, <1>2, <1>3, <1>4, <2>1, <3>1 DEF Quiet, Versions, IndexerScans, TypeOK
    <2>2. CASE IndexerEnds(u)
      <3>1. index' = scanned[u] /\ scanned[u] \in index .. files /\ asked[u] <= scanned[u] /\ _g_trees <= scanned[u]
        BY <2>2 DEF Quiet, Versions, IndexerEnds
      <3>2. _g_trees' = _g_trees /\ asked' = asked /\ files' = files /\ upc' = upc
        BY <2>2 DEF IndexerEnds
      <3>3. /\ index' <= files' /\ (_g_trees' = NoTrees \/ _g_trees' \in 0 .. files')
            /\ _g_trees' <= index'
        BY <3>1, <3>2 DEF Quiet, Versions, TypeOK
      <3>4. processes'[u] = "ended"
        BY <2>2 DEF IndexerEnds, TypeOK
      <3>5. QED
        BY <1>1, <1>2, <1>3, <1>4, <3>1, <3>2, <3>3, <3>4 DEF Quiet, Versions
    <2>3. CASE IndexerFails(u)
      <3>1. UNCHANGED <<_g_trees, asked, files, upc, built>> /\ index' \in {index, 0}
        BY <2>3 DEF IndexerFails
      <3>2. processes'[u] = "failed"
        BY <2>3 DEF IndexerFails, TypeOK
      <3>3. /\ index' <= files' /\ (_g_trees' = NoTrees \/ _g_trees' \in 0 .. files')
            /\ index' = 0 \/ _g_trees' <= index'
        BY <3>1 DEF Quiet, Versions, TypeOK
      <3>4. QED
        BY <1>1, <1>2, <1>3, <1>4, <3>1, <3>2, <3>3 DEF Quiet, Versions
    <2>4. QED
      BY <2>1, <2>2, <2>3 DEF Indexer
  <1>7. Browsing'
    <2>1. UNCHANGED <<g_initrunning, g_initstatus, _g_trees, files, mpc, read, answer>>
      BY DEF Indexer, IndexerScans, IndexerEnds, IndexerFails
    <2>2. QED
      BY <1>3, <2>1 DEF Quiet, Browsing
  <1>8. QED
    BY <1>5, <1>6, <1>7 DEF Quiet

LEMMA PollQuiet ==
  ASSUME TypeOK, Quiet, NEW u \in Updates, indexerdone(u) \/ Poll(u)
  PROVE  Quiet'
  <1>1. u \in UnderWay /\ u \in Polled /\ upc[u] \in {"wait", "poll"}
    BY DEF indexerdone, Poll, UnderWay, Polled
  <1>2. _idxproc = u /\ u # Nobody
    BY <1>1, UpdatesAssumption DEF Quiet, OwnIndexer
  <1>3. PICK there \in {"wait", "poll", "forget"} :
          MoveTo(u, there) /\ (there = "forget" => processes[u] \in {"ended", "failed"})
    BY <1>2 DEF indexerdone, Poll
  <1>4. /\ upc'[u] = there
        /\ \A v \in Updates \ {u} : upc[v] \in {"none", "done"} /\ upc'[v] = upc[v]
    BY <1>1, <1>3, OthersRest
  <1>5. Polled = {u} /\ Polled' = {u}
    BY <1>1, <1>3, <1>4 DEF Polled
  <1>6. UNCHANGED <<readers, g_initrunning, g_initstatus, _g_trees, _idxproc, processes, scanned, files, index,
                    built, asked, mpc, read, answer>>
    BY DEF indexerdone, Poll
  <1>7. /\ \A v, w \in UnderWay' : v = w
        /\ Changing # {} /\ Changing' # {} /\ g_initrunning'
        /\ mpc \notin {"first", "second"}
    BY <1>1, <1>3, <1>6, MovesQuietly
  <1>8. OwnIndexer'
    BY <1>3, <1>4, <1>5, <1>6, <1>7 DEF Quiet, OwnIndexer
  <1>9. Versions'
    BY <1>1, <1>3, <1>4, <1>6 DEF Quiet, Versions
  <1>10. Browsing'
    BY <1>6, <1>7 DEF Quiet, Browsing
  <1>11. QED
    BY <1>8, <1>9, <1>10 DEF Quiet

\* The end of an indexer that did not fail leaves an index that is not older than
\* the request.
LEMMA ForgetQuiet ==
  ASSUME TypeOK, Quiet, NEW u \in Updates, Forget(u)
  PROVE  Quiet'
  <1>1. u \in UnderWay /\ u \in Polled /\ upc[u] = "forget" /\ MoveTo(u, "build")
    BY DEF Forget, UnderWay, Polled
  <1>2. processes[u] \in {"ended", "failed"}
    BY <1>1 DEF Quiet, OwnIndexer
  <1>3. /\ upc'[u] = "build"
        /\ \A v \in Updates \ {u} : upc[v] \in {"none", "done"} /\ upc'[v] = upc[v]
    BY <1>1, OthersRest
  <1>4. Polled = {u} /\ Polled' = {}
    BY <1>1, <1>3 DEF Polled
  <1>5. /\ \A v, w \in UnderWay' : v = w
        /\ Changing # {} /\ Changing' # {} /\ g_initrunning'
        /\ mpc \notin {"first", "second"}
    BY <1>1, MovesQuietly DEF Forget
  <1>6. OwnIndexer'
    BY <1>2, <1>4, <1>5 DEF Quiet, OwnIndexer, Forget
  <1>7. Versions'
    BY <1>2, <1>3, <1>4 DEF Quiet, Versions, Forget
  <1>8. Browsing'
    BY <1>5 DEF Quiet, Browsing, Forget
  <1>9. QED
    BY <1>6, <1>7, <1>8 DEF Quiet
\* No indexer runs while trees are built.
LEMMA BuildTreesQuiet ==
  ASSUME TypeOK, Quiet, NEW u \in Updates, BuildTrees(u)
  PROVE  Quiet'
  <1>1. PICK there \in {"publish", "failed"} :
          MoveTo(u, there) /\ (there = "publish" => built' = [built EXCEPT ![u] = IF Indexing THEN Torn ELSE index])
    BY DEF BuildTrees
  <1>2. u \in UnderWay /\ upc[u] = "build"
    BY DEF BuildTrees, UnderWay
  <1>3. /\ upc'[u] = there
        /\ \A v \in Updates \ {u} : upc[v] \in {"none", "done"} /\ upc'[v] = upc[v]
    BY <1>1, <1>2, OthersRest
  <1>4. Polled = {} /\ Polled' = {}
    BY <1>1, <1>2, <1>3 DEF Polled
  <1>5. ~Indexing
    BY <1>4 DEF Quiet, OwnIndexer, Indexing
  <1>6. there = "publish" => built'[u] = index
    BY <1>1, <1>5 DEF TypeOK
  <1>7. UNCHANGED <<readers, g_initrunning, g_initstatus, _g_trees, _idxproc, processes, scanned, files, index,
                    asked, mpc, read, answer>>
    BY DEF BuildTrees
  <1>8. /\ \A v, w \in UnderWay' : v = w
        /\ Changing # {} /\ Changing' # {} /\ g_initrunning'
        /\ mpc \notin {"first", "second"}
    BY <1>1, <1>2, <1>7, MovesQuietly
  <1>9. OwnIndexer'
    BY <1>4, <1>7, <1>8 DEF Quiet, OwnIndexer
  <1>10. Versions'
    BY <1>1, <1>2, <1>3, <1>4, <1>6, <1>7 DEF Quiet, Versions
  <1>11. Browsing'
    BY <1>7, <1>8 DEF Quiet, Browsing
  <1>12. QED
    BY <1>9, <1>10, <1>11 DEF Quiet

\* The trees that are published show the whole index, as it is.
LEMMA PublishQuiet ==
  ASSUME TypeOK, Quiet, NEW u \in Updates, Publish(u)
  PROVE  /\ Quiet'
         /\ IF processes[u] = "failed" THEN _g_trees' >= _g_trees \/ _g_trees' = 0
            ELSE _g_trees' >= asked[u] /\ _g_trees' >= _g_trees
  <1>1. u \in UnderWay /\ upc[u] = "publish" /\ MoveTo(u, "finally")
    BY DEF Publish, UnderWay
  <1>2. _g_trees' = index /\ processes[u] \in {"ended", "failed"}
    BY <1>1 DEF Quiet, Versions, Publish
  <1>3. /\ index \in 0 .. files /\ index # NoTrees
        /\ index = 0 \/ index >= _g_trees
        /\ processes[u] = "ended" => index >= _g_trees /\ index >= asked[u]
    BY <1>1, VersionNumbers DEF TypeOK, Quiet, Versions
  <1>4. /\ upc'[u] = "finally"
        /\ \A v \in Updates \ {u} : upc[v] \in {"none", "done"} /\ upc'[v] = upc[v]
    BY <1>1, OthersRest
  <1>5. Polled = {} /\ Polled' = {}
    BY <1>1, <1>4 DEF Polled
  <1>6. /\ \A v, w \in UnderWay' : v = w
        /\ Changing # {} /\ Changing' # {} /\ g_initrunning'
        /\ mpc \notin {"first", "second"}
    BY <1>1, MovesQuietly DEF Publish
  <1>7. OwnIndexer'
    BY <1>5, <1>6 DEF Quiet, OwnIndexer, Publish
  <1>8. Versions'
    BY <1>2, <1>3, <1>4, <1>5 DEF Quiet, Versions, Publish
  <1>9. Browsing'
    BY <1>2, <1>3, <1>6 DEF Quiet, Browsing, Publish
  <1>10. QED
    BY <1>2, <1>3, <1>7, <1>8, <1>9 DEF Quiet

LEMMA FailQuiet ==
  ASSUME TypeOK, Quiet, NEW u \in Updates, Fail(u)
  PROVE  Quiet'
  <1>1. u \in UnderWay /\ upc[u] = "failed" /\ MoveTo(u, "finally")
    BY DEF Fail, UnderWay
  <1>2. /\ upc'[u] = "finally"
        /\ \A v \in Updates \ {u} : upc[v] \in {"none", "done"} /\ upc'[v] = upc[v]
    BY <1>1, OthersRest
  <1>3. Polled = {} /\ Polled' = {}
    BY <1>1, <1>2 DEF Polled
  <1>4. /\ \A v, w \in UnderWay' : v = w
        /\ Changing # {} /\ Changing' # {} /\ g_initrunning'
        /\ mpc \notin {"first", "second"}
    BY <1>1, MovesQuietly DEF Fail
  <1>5. OwnIndexer'
    BY <1>3, <1>4 DEF Quiet, OwnIndexer, Fail
  <1>6. Versions'
    BY <1>2, <1>3 DEF Quiet, Versions, Fail
  <1>7. Browsing'
    BY <1>4 DEF Quiet, Browsing, Fail
  <1>8. QED
    BY <1>5, <1>6, <1>7 DEF Quiet

LEMMA NextQuiet ==
  ASSUME TypeOK, ReadersCounted, Quiet, ~overlapped', [Next]_vars
  PROVE  Quiet'
  <1>1. ASSUME NEW u \in Updates, UpdateStep(u) PROVE Quiet'
    <2>1. CASE Locks(u)
      BY <2>1, SetFlagQuiet, FinallyQuiet DEF Locks
    <2>2. CASE Indexer(u)
      BY <2>2, IndexerQuiet
    <2>3. CASE Proceeds(u)
      BY <2>3, CheckIndexerQuiet, runindexerQuiet, PollQuiet, ForgetQuiet, BuildTreesQuiet, PublishQuiet,
         FailQuiet DEF Proceeds
    <2>4. QED
      BY <1>1, <2>1, <2>2, <2>3 DEF UpdateStep
  <1>2. CASE UNCHANGED vars
    BY <1>2 DEF vars, Quiet, OwnIndexer, Versions, Browsing, UnderWay, Polled, Changing
  <1>3. QED
    BY <1>1, <1>2, MainQuiet, AskQuiet, FilesQuiet DEF Next, UpdateStep

-----------------------------------------------------------------------------
\* The theorems.

\* The invariant behind the two theorems below: the lock counts the threads that
\* hold it, and while no two updates overlap, the one update owns the indexer, and
\* nothing is read of the trees before it has ended (rwlock, _update_index).
THEOREM UpdatesInvariant == Spec => []UpdInv
  <1>1. Init => UpdInv
    <2>1. ASSUME Init PROVE ReadersCounted
      <3>1. Reading = {}
        BY <2>1 DEF Init, Reading
      <3>2. QED
        BY <2>1, <3>1, FS_EmptySet DEF Init, ReadersCounted
    <2>2. QED
      BY <2>1, InitType, InitQuiet DEF UpdInv, Quiet
  <1>2. UpdInv /\ [Next]_vars => UpdInv'
    <2> SUFFICES ASSUME UpdInv, [Next]_vars PROVE UpdInv'
      OBVIOUS
    <2>1. TypeOK' /\ ReadersCounted'
      BY NextType, NextReaders DEF UpdInv
    <2>2. ASSUME ~overlapped' PROVE Quiet'
      <3>1. ~overlapped /\ Quiet
        BY <2>2, OverlapStays DEF UpdInv, Quiet
      <3>2. QED
        BY <2>2, <3>1, NextQuiet DEF UpdInv
    <2>3. QED
      BY <2>1, <2>2 DEF UpdInv, Quiet
  <1>3. QED
    BY <1>1, <1>2, PTL DEF Spec

\* As long as no two updates overlapped, an answer shows one build of the trees,
\* of an index that no indexer was writing, for any number of updates and of
\* requests (initdone, _update_index).
THEOREM AnswersShowOneIndex == Spec => []AnswersAreWhole
  <1>1. UpdInv => AnswersAreWhole
    <2> SUFFICES ASSUME UpdInv, ~overlapped
                 PROVE  Cardinality(answer) <= 1 /\ Torn \notin answer /\ NoTrees \notin answer
      BY DEF AnswersAreWhole
    <2>1. answer = {} \/ \E v \in 0 .. files : answer = {v}
      BY DEF UpdInv, Browsing
    <2>2. Cardinality(answer) <= 1
      <3>1. CASE answer = {}
        BY <3>1, FS_EmptySet
      <3>2. ASSUME NEW v, answer = {v} PROVE Cardinality(answer) <= 1
        BY <3>2, FS_Singleton
      <3>3. QED
        BY <2>1, <3>1, <3>2
    <2>3. Torn \notin answer /\ NoTrees \notin answer
      BY <2>1, VersionNumbers DEF UpdInv, TypeOK
    <2>4. QED
      BY <2>2, <2>3
  <1>2. QED
    BY <1>1, UpdatesInvariant, PTL

\* As long as no two updates overlapped, the trees that an update publishes show
\* the files at its start or later ones, and never older ones than those shown
\* before, unless its indexer failed: then older ones only when it left nothing
\* in the index (runindexer, indexerdone).
THEOREM TreesMoveForward == Spec => TreesAreRecent
  <1>1. UpdInv /\ [Next]_vars =>
          [~overlapped => \A u \in Updates : upc[u] = "publish" /\ upc'[u] = "finally" =>
             IF processes[u] = "failed" THEN _g_trees' >= _g_trees \/ _g_trees' = 0
             ELSE _g_trees' >= asked[u] /\ _g_trees' >= _g_trees]_vars
    <2> SUFFICES ASSUME UpdInv, Next, ~overlapped,
                        NEW u \in Updates, upc[u] = "publish", upc'[u] = "finally"
                 PROVE  IF processes[u] = "failed" THEN _g_trees' >= _g_trees \/ _g_trees' = 0
                        ELSE _g_trees' >= asked[u] /\ _g_trees' >= _g_trees
      OBVIOUS
    <2>1. TypeOK /\ Quiet
      BY DEF UpdInv, Quiet
    <2>2. ASSUME NEW a \in Askers, initdone(a) \/ ReleaseRead(a) \/ StartThread(a) PROVE FALSE
      BY <2>1, <2>2, ThreadIsUnused DEF TypeOK, initdone, ReleaseRead, StartThread, MoveTo
    <2>3. ASSUME NEW v \in Updates, UpdateStep(v) PROVE v = u
      BY <2>1, <2>3 DEF UpdateStep, Locks, Proceeds, Indexer, SetFlag, Finally, CheckIndexer, indexerdone,
                Poll, runindexer, Forget, Fail, BuildTrees, Publish, IndexerScans, IndexerEnds, IndexerFails, MoveTo, TypeOK
    <2>4. UpdateStep(u)
      BY <2>2, <2>3 DEF Next, UpdateStep, browse, getTree, Answer, ChangeFiles
    <2>5. Publish(u)
      BY <2>1, <2>4 DEF UpdateStep, Locks, Proceeds, Indexer, SetFlag, Finally, CheckIndexer, indexerdone,
                Poll, runindexer, Forget, Fail, BuildTrees, IndexerScans, IndexerEnds, IndexerFails, MoveTo, TypeOK
    <2>6. QED
      BY <2>1, <2>5, PublishQuiet
  <1>2. QED
    BY <1>1, UpdatesInvariant, PTL DEF Spec, TreesAreRecent
=============================================================================
