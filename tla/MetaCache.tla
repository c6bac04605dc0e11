------------------------------ MODULE MetaCache ------------------------------
(***************************************************************************)
(* Saving and restoring the metadata cache, src/src/ohmetacache.cxx, on    *)
(* top of the task queue it uses: OHPlaylist queues a snapshot of its      *)
(* cache after each change of the MPD queue, one worker writes the latest  *)
(* one to a temporary file and renames it over the real one.  The process  *)
(* may be stopped at any point and started again.                          *)
(*                                                                         *)
(* A snapshot is known by its number, the number of the put call that      *)
(* queued it.  A file is the number of the snapshot it was written from    *)
(* and how many of its lines reached the disk.                             *)
(***************************************************************************)
EXTENDS WorkQueue

\* One worker that never gives up, a queue without a bound, no timeouts.
CONSTANTS
  Lines,     \* entries in each snapshot
  MaxStops,  \* bound on the number of times the process stops
  DiskFails  \* TRUE if opening, writing or renaming a file may fail

VARIABLES
  file,      \* the cache file
  tmp,       \* the temporary file, whose name is that of the file and "-"
  step,      \* where each worker is in the body of its loop
  restored,  \* what the last start of the process read
  stops      \* how many times the process stopped

disk  == <<file, tmp, restored>>
mvars == <<vars, disk, step, stops>>

NoFile == [snap |-> 0, lines |-> 0]

MInit ==
  /\ Init
  /\ file = NoFile /\ tmp = NoFile /\ restored = NoFile
  /\ step = [w \in Workers |-> "take"]
  /\ stops = 0

-----------------------------------------------------------------------------
\* The process starts: dmcacheRestore() creates the worker and reads the file.
Restore(c) ==
  /\ Start(c)
  /\ restored' = file
  /\ UNCHANGED <<file, tmp, step, stops>>

\* dmcacheSave(): the snapshots still on the queue are flushed.
Save(c) ==
  /\ threads # {}
  /\ Put(c, TRUE)
  /\ UNCHANGED <<disk, step, stops>>

-----------------------------------------------------------------------------
\* dmcacheSaveWorker(), one step for each system call that changes the disk.

Fetch(w) ==
  /\ Take(w)
  /\ step' = [step EXCEPT ![w] = IF pc'[w] = "work" THEN "open" ELSE "take"]
  /\ UNCHANGED <<disk, stops>>

\* Opening truncates the temporary file; when it fails the task is dropped.
OpenTmp(w) ==
  /\ step[w] = "open"
  /\ \/ /\ tmp' = [snap |-> doing[w], lines |-> 0]
        /\ step' = [step EXCEPT ![w] = "write"]
        /\ UNCHANGED vars
     \/ /\ DiskFails
        /\ Work(w)
        /\ step' = [step EXCEPT ![w] = "take"]
        /\ UNCHANGED tmp
  /\ UNCHANGED <<file, restored, stops>>

\* Mutant of WriteTmp: the file is renamed before it is flushed.
WriteTmpLate(w) ==
  /\ step[w] = "write"
  /\ \E n \in 0 .. Lines : tmp' = [tmp EXCEPT !.lines = @ + n]
  /\ step' = [step EXCEPT ![w] = "rename"]
  /\ UNCHANGED <<vars, file, restored, stops>>

\* The entries are written and flushed; an error leaves some of them out, is
\* logged, and the worker goes on to the rename.
WriteTmp(w) ==
  /\ step[w] = "write"
  /\ \E n \in 0 .. Lines : /\ n = Lines \/ DiskFails
                           /\ tmp' = [tmp EXCEPT !.lines = @ + n]
  /\ step' = [step EXCEPT ![w] = "rename"]
  /\ UNCHANGED <<vars, file, restored, stops>>

\* Mutant of Rename: nothing is renamed.
RenameForgotten(w) ==
  /\ step[w] = "rename"
  /\ step' = [step EXCEPT ![w] = "rest"]
  /\ UNCHANGED <<vars, disk, stops>>

\* rename() over the cache file, whatever happened before; errors are logged.
Rename(w) ==
  /\ step[w] = "rename"
  /\ \/ file' = tmp /\ tmp' = NoFile
     \/ DiskFails /\ UNCHANGED <<file, tmp>>
  /\ step' = [step EXCEPT ![w] = "rest"]
  /\ UNCHANGED <<vars, restored, stops>>

\* The task is deleted; the worker sleeps if ohmetasleep says so.
Rest(w) ==
  /\ step[w] = "rest"
  /\ Work(w)
  /\ step' = [step EXCEPT ![w] = "take"]
  /\ UNCHANGED <<disk, stops>>

-----------------------------------------------------------------------------
\* The process ends, killed or through exit(): only the disk is left.
Stop ==
  /\ threads # {} /\ stops < MaxStops
  /\ stops' = stops + 1
  /\ queue' = <<>> /\ ok' = TRUE /\ open' = TRUE /\ threads' = {} /\ exited' = 0
  /\ clientsWaiting' = 0 /\ workersWaiting' = 0
  /\ ccond' = {} /\ wcond' = {}
  /\ pc' = [t \in Clients \cup Workers |-> IF t \in Clients THEN "idle" ELSE "none"]
  /\ doing' = [w \in Workers |-> NoTask]
  /\ fate' = [i \in Tasks |->
                IF fate[i] \in {"queued", "taken"} THEN "failed" ELSE fate[i]]
  /\ step' = [w \in Workers |-> "take"]
  /\ UNCHANGED <<disk, arg, puts, starts>>

WriterStep(w) == Fetch(w) \/ OpenTmp(w) \/ WriteTmp(w) \/ Rename(w) \/ Rest(w)

MNext ==
  \/ \E c \in Clients : Restore(c) \/ Save(c)
  \/ \E w \in Workers : WriterStep(w)
  \/ Stop
  \/ SpuriousWakeup /\ UNCHANGED <<disk, step, stops>>

MSpec == MInit /\ [][MNext]_mvars /\ \A w \in Workers : WF_mvars(WriterStep(w))

-----------------------------------------------------------------------------
\* Properties.

Files == [snap : 0 .. MaxTasks, lines : 0 .. Lines]

\* The queue's variables, the files and the worker's position have their types.
MTypeOK ==
  /\ TypeOK
  /\ file \in Files /\ tmp \in Files /\ restored \in Files
  /\ step \in [Workers -> {"take", "open", "write", "rename", "rest"}]
  /\ stops \in 0 .. MaxStops

\* Wherever the process is stopped, the cache file is a complete snapshot:
\* that is what writing to another file and renaming it is for.
FileWhole == file.snap # 0 => file.lines = Lines

\* The flush option of dmcacheSave() leaves one snapshot on the queue at most.
OneQueued == Len(queue) <= 1

\* All that a control point or a crash can rely on.
FileAndQueue == MTypeOK /\ FileWhole /\ OneQueued

\* The queue as ohmetacache.cxx makes it: no limit, one worker; and a disk without
\* errors, as finding out about them is not followed by anything.
OneSaver ==
  /\ \E w : Workers = {w}
  /\ High = 0 /\ Low = 1 /\ ~MayFail
  /\ Lines \in Nat /\ MaxStops \in Nat /\ ~DiskFails

\* The invariant behind FileAndQueue and the refinement: the queue is in service as
\* long as the process runs, only the last request is on it, and the worker writes
\* a snapshot that is older than that one and newer than the file.
InService ==
  /\ ok /\ open /\ exited = 0
  /\ \A c \in Clients : pc[c] = "idle"
  /\ \A w \in Workers : pc[w] \in {"none", "run", "take", "work"}
  /\ threads = {} => queue = <<>>
NewestOnly == queue \in {<<>>, <<puts>>}
Saving ==
  \A w \in Workers :
    /\ step[w] = "take" <=> pc[w] # "work"
    /\ doing[w] <= puts /\ \A k \in 1 .. Len(queue) : doing[w] < queue[k]
    /\ step[w] \in {"open", "write", "rename"} => file.snap < doing[w]
    /\ step[w] = "write" => tmp = [snap |-> doing[w], lines |-> 0]
    /\ step[w] = "rename" => tmp = [snap |-> doing[w], lines |-> Lines]
    /\ step[w] = "rest" => file.snap = doing[w]
FileOld == file.snap <= puts /\ \A k \in 1 .. Len(queue) : file.snap < queue[k]
MInv == /\ IInv /\ TaskInv /\ MTypeOK
        /\ InService /\ NewestOnly /\ Saving /\ FileOld /\ FileWhole

\* The newest snapshot that is queued or being written, or else the one on disk.
Pending == {i \in Tasks : fate[i] \in {"queued", "taken"}}
Wanted  == IF Pending = {} THEN file.snap
           ELSE CHOOSE i \in Pending : \A j \in Pending : j <= i

\* The queue, the worker and the temporary file implement SnapshotFile.
Abstract == INSTANCE SnapshotFile WITH
  MaxSnapshots <- MaxTasks, requested <- puts, wanted <- Wanted, stored <- file.snap, stopped <- stops
Implements == Abstract!ASpec

\* Of that, what needs no fairness: the initial state and each step.
MovesForward == Abstract!AInit /\ [][Abstract!ANext]_(Abstract!avars)
=============================================================================
