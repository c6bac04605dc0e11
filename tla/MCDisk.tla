------------------------------- MODULE MCDisk -------------------------------
(***************************************************************************)
(* What has to survive a stop of the process: the databases of the plugins *)
(* while they are migrated, and the file of the metadata cache.  Each      *)
(* behaviour is one of one of them, the other stays as it is.              *)
(***************************************************************************)
EXTENDS PluginSchemas, MetaCache

VARIABLE part

\* Disk.cfg: one playlist thread, one save worker, at most four snapshots of two
\* entries, two stops; any number of stops while a database is migrated.

\* The migration lists, and the shapes computed from them.
MCPlugins == {"tidal", "subsonic"}
MCMigrations == [p \in MCPlugins |-> IF p = "tidal" THEN TidalMigrations ELSE SubsonicMigrations]
LOCAL S == INSTANCE SequencesExt
LOCAL Grow(shapes, s) == Append(shapes, Effect(s, shapes[Len(shapes)]))
LOCAL GrowAll(all, m) ==
  LET shapes == all[Len(all)] IN Append(all, S!FoldLeft(Grow, <<shapes[Len(shapes)]>>, m.ddl))
LOCAL Shapes(list) ==
  Tail(S!FoldLeft(GrowAll, <<<<{}>>>>, Append(list, Migration(Len(list), <<>>))))
MCShape == [p \in MCPlugins |-> Shapes(MCMigrations[p])]

allVars == <<part, migrationVars, mvars>>

InitAll ==
  /\ MInit
  /\ \/ part = "migration" /\ MigrationInit
     \/ part = "cache" /\ db = "tidal" /\ schema = {} /\ version = 0 /\ phase = "down" /\ index = 1 /\ pos = 1
NextAll ==
  /\ \/ part = "migration" /\ MigrationNext /\ UNCHANGED mvars
     \/ part = "cache" /\ MNext /\ UNCHANGED migrationVars
  /\ UNCHANGED part
\* The worker goes on as long as the process runs (MetaCache!MSpec).
Writer(w) == part = "cache" /\ WriterStep(w) /\ UNCHANGED <<part, migrationVars>>
SpecAll == InitAll /\ [][NextAll]_allVars /\ \A w \in Workers : WF_allVars(Writer(w))

-----------------------------------------------------------------------------
(* Properties. *)

\* A plugin that serves finds every table and column that its queries name
\* (insert_playback, the metadata models).
ServesItsQueries ==
  phase = "ready" => (IF db = "tidal" THEN TidalUses ELSE SubsonicUses) \subseteq schema
=============================================================================
