---------------------------- MODULE SnapshotFile ----------------------------
(***************************************************************************)
(* What saving the metadata cache promises, whatever the queue, the worker *)
(* and the temporary file do: snapshots are numbered in the order in which *)
(* they are requested, the file on disk only ever moves forward to a       *)
(* requested snapshot, possibly skipping some, and it catches up with the  *)
(* last request unless the process stops first.                            *)
(***************************************************************************)
EXTENDS Naturals

CONSTANT MaxSnapshots   \* bound on the number of requests

VARIABLES
  requested,  \* number of snapshots requested so far
  wanted,     \* the newest snapshot that this process still has to store
  stored,     \* the snapshot in the file, 0 if there is none
  stopped     \* number of times the process stopped

avars == <<requested, wanted, stored, stopped>>

AInit == requested = 0 /\ wanted = 0 /\ stored = 0 /\ stopped = 0

Request == /\ requested < MaxSnapshots
           /\ requested' = requested + 1
           /\ wanted' = requested + 1
           /\ UNCHANGED <<stored, stopped>>

Store == /\ stored < wanted
         /\ stored' \in stored + 1 .. wanted
         /\ UNCHANGED <<requested, wanted, stopped>>

\* The process stops: what it had not stored is gone.
Forget == /\ stopped' = stopped + 1
          /\ wanted' = stored
          /\ UNCHANGED <<requested, stored>>

ANext == Request \/ Store \/ Forget

ASpec == AInit /\ [][ANext]_avars /\ WF_avars(Store)
=============================================================================
