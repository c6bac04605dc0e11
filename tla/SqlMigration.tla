---------------------------- MODULE SqlMigration ----------------------------
(***************************************************************************)
(* How a plugin brings its SQLite database up to date when it starts: the  *)
(* loop over the migration list at the end of tidal/persistence.py and     *)
(* __init() of subsonic/persistence.py.  A migration runs its statements,  *)
(* each committed by itself (Python's sqlite3 opens no transaction for     *)
(* DDL), and then stores the new version in a transaction of its own.  The *)
(* process may be stopped between any two of these.                        *)
(*                                                                         *)
(* A statement needs some objects, adds some and drops some; an object is  *)
(* a pair <<table, name>>, where the name is a column, an index or "" for  *)
(* the table itself.  A "quiet" one changes nothing when it cannot run     *)
(* (CREATE ... IF NOT EXISTS, a DROP whose exception is caught); any other *)
(* raises, and the plugin process ends while it imports persistence.       *)
(* A caught DROP COLUMN is one that SQLite before 3.35 refuses: the column *)
(* stays, and the migration goes on and stores its version all the same.   *)
(***************************************************************************)
EXTENDS Naturals, Sequences

CONSTANTS Plugins,     \* the plugins that keep a database
          Migrations,  \* [Plugins -> Seq([on, to : Nat, ddl : Seq(Statement)])]
          Shape        \* Shape[p][v][j]: the schema that p means to have after version
                       \* v - 1 and the first j - 1 statements of migration v

VARIABLES db,       \* the plugin whose database this is
          schema,   \* the objects of the database file
          version,  \* db_version.version in the file, 0 when the table is empty
          phase,    \* of the plugin process
          index,    \* the migration the loop is at
          pos       \* the statement of that migration it is at

migrationVars == <<db, schema, version, phase, index, pos>>

-----------------------------------------------------------------------------
(* The statements and the migrations of the lists.                         *)
Objects(t, names) == {t} \X (names \cup {""})

\* CREATE TABLE t(names)
Create(t, names) == [needs |-> {}, adds |-> Objects(t, names), drops |-> {}, quiet |-> FALSE]
\* CREATE TABLE IF NOT EXISTS t(names)
CreateIfNew(t, names) == [Create(t, names) EXCEPT !.quiet = TRUE]
\* ALTER TABLE t ADD COLUMN c
Add(t, c) == [needs |-> {<<t, "">>}, adds |-> {<<t, c>>}, drops |-> {}, quiet |-> FALSE]
\* CREATE INDEX i ON t(names)
Index(i, t, names) == [needs |-> Objects(t, names), adds |-> {<<t, i>>}, drops |-> {}, quiet |-> FALSE]
\* ALTER TABLE t DROP COLUMN c, in a try block
DropColumn(t, c) == [needs |-> {<<t, c>>}, adds |-> {}, drops |-> {<<t, c>>}, quiet |-> TRUE]
\* DROP TABLE t
Drop(t, names) == [needs |-> {<<t, "">>}, adds |-> {}, drops |-> Objects(t, names), quiet |-> FALSE]
\* UPDATE t over names
Update(t, names) == [needs |-> Objects(t, names), adds |-> {}, drops |-> {}, quiet |-> FALSE]

AddAll(t, cs) == [k \in DOMAIN cs |-> Add(t, cs[k])]

\* A migration: the version it applies on, the one it stores, its statements.
Migration(on, ddl) == [on |-> on, to |-> on + 1, ddl |-> ddl]
\* Migrations from version v that add one column each.
OneColumnEach(v, t, cs) == [k \in DOMAIN cs |-> Migration(v + k - 1, <<Add(t, cs[k])>>)]

-----------------------------------------------------------------------------
(* The loop. *)

List == Migrations[db]
Last == Len(List)

CanRun(s, objs) == s.needs \subseteq objs /\ s.adds \cap objs = {}
Effect(s, objs) == IF CanRun(s, objs) THEN (objs \cup s.adds) \ s.drops ELSE objs
Raises(s, objs) == ~s.quiet /\ ~CanRun(s, objs)
\* A DROP COLUMN in a try block, and what a statement that does not raise leaves.
Caught(s) == s.quiet /\ s.drops # {}
Outcomes(s, objs) == {Effect(s, objs)} \cup (IF Caught(s) THEN {objs} ELSE {})

\* The columns that a refused DROP COLUMN may have left before statement j of
\* migration v of p, and the schemas that p may thus have there.
Kept(p, v, j) ==
  LET Before(w) == {k \in DOMAIN Migrations[p][w].ddl : w < v \/ k < j} IN
    UNION {UNION {Migrations[p][w].ddl[k].drops : k \in {k \in Before(w) : Caught(Migrations[p][w].ddl[k])}}
           : w \in {w \in DOMAIN Migrations[p] : w <= v}}
Shaped(p, v, j) == {Shape[p][v][j] \cup left : left \in SUBSET Kept(p, v, j)}

\* What the lists of the code have to satisfy, evaluated for them by TLC: the
\* numbers are consecutive; each statement runs on any schema that the ones
\* before it may leave, which gives one of the next schemas; run again on a
\* later schema of the same migration it leaves one as late, or raises.
ASSUME ListAssumption ==
  \A p \in Plugins :
    /\ Migrations[p] \in Seq([on : Nat, to : Nat, ddl : Seq([needs : SUBSET (STRING \X STRING),
         adds : SUBSET (STRING \X STRING), drops : SUBSET (STRING \X STRING), quiet : BOOLEAN])])
    /\ Len(Migrations[p]) > 0
    /\ \A v \in 1..Len(Migrations[p]) :
         /\ Migrations[p][v].on = v - 1
         /\ Migrations[p][v].to = v
ASSUME ShapeAssumption ==
  \A p \in Plugins :
    /\ Shaped(p, 1, 1) = {{}}
    /\ \A v \in 1..Len(Migrations[p]) :
         LET ddl == Migrations[p][v].ddl IN
           /\ Shaped(p, v + 1, 1) = Shaped(p, v, Len(ddl) + 1)
           /\ \A k \in 1..Len(ddl) :
                /\ \A objs \in Shaped(p, v, k) :
                     ~Raises(ddl[k], objs) /\ Outcomes(ddl[k], objs) \subseteq Shaped(p, v, k + 1)
                /\ \A j \in k + 1..Len(ddl) + 1 : \A objs \in Shaped(p, v, j) \ Shaped(p, v, 1) :
                     \/ Raises(ddl[k], objs)
                     \/ Outcomes(ddl[k], objs) \subseteq Shaped(p, v, j) \ Shaped(p, v, 1)

MigrationInit ==
  /\ db \in Plugins
  /\ schema = {} /\ version = 0
  /\ phase = "down" /\ index = 1 /\ pos = 1

\* The plugin process starts and imports the module.
StartPlugin ==
  /\ phase = "down"
  /\ phase' = "loop" /\ index' = 1 /\ pos' = 1
  /\ UNCHANGED <<db, schema, version>>

\* Mutant of Applies: migrations of earlier versions run again.
AppliesToNewer == version >= List[index].on
Applies == version = 0 \/ version = List[index].on

Skip ==
  /\ phase = "loop" /\ index <= Last /\ ~Applies
  /\ index' = index + 1
  /\ UNCHANGED <<db, schema, version, phase, pos>>

\* Mutant of Enter: the version is stored before the statements.
EnterStoring ==
  /\ phase = "loop" /\ index <= Last /\ Applies
  /\ phase' = "apply" /\ pos' = 1 /\ version' = List[index].to
  /\ UNCHANGED <<db, schema, index>>
Enter ==
  /\ phase = "loop" /\ index <= Last /\ Applies
  /\ phase' = "apply" /\ pos' = 1
  /\ UNCHANGED <<db, schema, version, index>>

Execute ==
  /\ phase = "apply" /\ pos <= Len(List[index].ddl)
  /\ LET s == List[index].ddl[pos] IN
       \/ Raises(s, schema) /\ phase' = "failed" /\ UNCHANGED <<schema, pos>>
       \/ ~Raises(s, schema) /\ schema' \in Outcomes(s, schema) /\ pos' = pos + 1 /\ UNCHANGED phase
  /\ UNCHANGED <<db, version, index>>

\* Mutant of StoreVersion: the next migration is passed over.
StoreVersionSkipping ==
  /\ phase = "apply" /\ pos = Len(List[index].ddl) + 1
  /\ version' = List[index].to
  /\ phase' = "loop" /\ index' = index + 2 /\ pos' = 1
  /\ UNCHANGED <<db, schema>>
StoreVersion ==
  /\ phase = "apply" /\ pos = Len(List[index].ddl) + 1
  /\ version' = List[index].to
  /\ phase' = "loop" /\ index' = index + 1 /\ pos' = 1
  /\ UNCHANGED <<db, schema>>

Serve ==
  /\ phase = "loop" /\ index = Last + 1
  /\ phase' = "ready"
  /\ UNCHANGED <<db, schema, version, index, pos>>

\* The process ends: it is killed, or its import failed.
StopPlugin ==
  /\ phase # "down"
  /\ phase' = "down" /\ index' = 1 /\ pos' = 1
  /\ UNCHANGED <<db, schema, version>>

MigrationNext == StartPlugin \/ Skip \/ Enter \/ Execute \/ StoreVersion \/ Serve \/ StopPlugin
MigrationSpec == MigrationInit /\ [][MigrationNext]_migrationVars

-----------------------------------------------------------------------------
\* The statements of migration version + 1 that ran are a prefix of it: the
\* stored version describes the schema up to one migration that a crash cut,
\* and up to the columns that an old SQLite could not drop.
VersionDescribesSchema ==
  \/ version < Last /\ \E j \in 1..Len(List[version + 1].ddl) + 1 : schema \in Shaped(db, version + 1, j)
  \/ version = Last /\ schema \in Shaped(db, Last + 1, 1)

\* A plugin that serves requests has the last version and its whole schema, and
\* nothing else but columns that an old SQLite could not drop.
ReadyIsComplete == phase = "ready" => version = Last /\ schema \in Shaped(db, Last + 1, 1)

\* A start fails only on a database that is ahead of its version.
FailsOnlyWhenTorn == phase = "failed" => schema \notin Shaped(db, version + 1, 1)
=============================================================================
