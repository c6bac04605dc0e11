------------------------ MODULE SqlMigration_proofs ------------------------
(***************************************************************************)
(* What SqlMigration promises for any lists of migrations that satisfy     *)
(* ListAssumption and ShapeAssumption: the stored version describes the    *)
(* schema wherever the process was stopped, a plugin that serves has the   *)
(* last schema, and a start fails only on a database that is ahead of its  *)
(* version; all up to columns that an SQLite before 3.35 could not drop.    *)
(* The argument: a start that applies a migration either finds the schema  *)
(* where its position says, and then no statement raises, or finds it      *)
(* ahead, and then each statement leaves it as far ahead or raises, until  *)
(* the position has caught up.                                             *)
(***************************************************************************)
EXTENDS SqlMigration, TLAPS

\* The statements of migration v of the database, and how many there are.
Ddl(v) == List[v].ddl
Count(v) == Len(Ddl(v))

\* Where the schema is while migration index runs: at the position of the loop,
\* or ahead of it and then different from where the migration began.
OnTrack == schema \in Shaped(db, index, pos)
Ahead == /\ schema \notin Shaped(db, index, 1)
         /\ \E j \in pos + 1..Count(index) + 1 : schema \in Shaped(db, index, j)

Applying ==
  /\ index = version + 1 /\ index <= Last
  /\ pos \in 1..Count(index) + 1
  /\ OnTrack \/ Ahead

IInv ==
  /\ db \in Plugins
  /\ version \in 0..Last
  /\ index \in 1..version + 1
  /\ phase \in {"down", "loop", "apply", "failed", "ready"}
  /\ phase = "ready" => version = Last
  /\ VersionDescribesSchema
  /\ phase = "apply" => Applying
  /\ FailsOnlyWhenTorn

-----------------------------------------------------------------------------
(* What the assumptions say of one migration. *)

LEMMA ListFacts ==
  ASSUME NEW p \in Plugins
  PROVE  /\ Len(Migrations[p]) \in Nat \ {0}
         /\ \A v \in 1..Len(Migrations[p]) :
              /\ Migrations[p][v].on = v - 1 /\ Migrations[p][v].to = v
              /\ Len(Migrations[p][v].ddl) \in Nat
<1> DEFINE Statement == [needs : SUBSET (STRING \X STRING), adds : SUBSET (STRING \X STRING),
                         drops : SUBSET (STRING \X STRING), quiet : BOOLEAN]
           M == [on : Nat, to : Nat, ddl : Seq(Statement)]
<1>1. /\ Migrations[p] \in Seq(M) /\ Len(Migrations[p]) > 0
      /\ \A v \in 1..Len(Migrations[p]) : Migrations[p][v].on = v - 1 /\ Migrations[p][v].to = v
  BY ListAssumption
<1> HIDE DEF Statement
<1>2. \A m \in M : Len(m.ddl) \in Nat
  OBVIOUS
<1> HIDE DEF M
<1>3. Len(Migrations[p]) \in Nat /\ \A v \in 1..Len(Migrations[p]) : Migrations[p][v] \in M
  BY <1>1
<1> QED BY <1>1, <1>2, <1>3

LEMMA FirstShape == ASSUME NEW p \in Plugins PROVE Shaped(p, 1, 1) = {{}}
BY ShapeAssumption

LEMMA NextShape ==
  ASSUME NEW p \in Plugins, NEW v \in 1..Len(Migrations[p])
  PROVE  Shaped(p, v + 1, 1) = Shaped(p, v, Len(Migrations[p][v].ddl) + 1)
BY ShapeAssumption

LEMMA StatementOnTrack ==
  ASSUME NEW p \in Plugins, NEW v \in 1..Len(Migrations[p]), NEW k \in 1..Len(Migrations[p][v].ddl),
         NEW objs \in Shaped(p, v, k)
  PROVE  /\ ~Raises(Migrations[p][v].ddl[k], objs)
         /\ Outcomes(Migrations[p][v].ddl[k], objs) \subseteq Shaped(p, v, k + 1)
BY ShapeAssumption

LEMMA StatementAhead ==
  ASSUME NEW p \in Plugins, NEW v \in 1..Len(Migrations[p]), NEW k \in 1..Len(Migrations[p][v].ddl),
         NEW j \in k + 1..Len(Migrations[p][v].ddl) + 1, NEW objs \in Shaped(p, v, j) \ Shaped(p, v, 1)
  PROVE  \/ Raises(Migrations[p][v].ddl[k], objs)
         \/ Outcomes(Migrations[p][v].ddl[k], objs) \subseteq Shaped(p, v, j) \ Shaped(p, v, 1)
BY ShapeAssumption

-----------------------------------------------------------------------------
(* The inductive invariant. *)

LEMMA InitIInv == MigrationInit => IInv
<1> SUFFICES ASSUME MigrationInit PROVE IInv
  OBVIOUS
<1>1. db \in Plugins /\ schema \in Shaped(db, 1, 1) /\ version = 0 /\ phase = "down" /\ index = 1
  BY FirstShape DEF MigrationInit
<1>2. Last \in Nat \ {0} /\ Count(1) \in Nat
  BY <1>1, ListFacts DEF Last, List, Count, Ddl
<1>3. VersionDescribesSchema
  <2>1. version < Last /\ 1 \in 1..Count(version + 1) + 1
    BY <1>1, <1>2
  <2>2. schema \in Shaped(db, version + 1, 1)
    BY <1>1
  <2> QED BY <2>1, <2>2 DEF VersionDescribesSchema, Count, Ddl
<1> QED BY <1>1, <1>2, <1>3 DEF IInv, FailsOnlyWhenTorn

\* A statement keeps the loop on its way: the schema stays within the
\* migration, and a statement that raises finds it ahead.
LEMMA ExecuteKeeps == IInv /\ Execute => IInv'
<1> SUFFICES ASSUME IInv, Execute PROVE IInv'
  OBVIOUS
<1> DEFINE s == Ddl(index)[pos]
<1>1. /\ db' = db /\ version' = version /\ index' = index /\ List' = List /\ Last' = Last
      /\ Count(index)' = Count(index) /\ Count(version + 1)' = Count(version + 1)
  BY DEF Execute, List, Last, Count, Ddl
<1>2. /\ db \in Plugins /\ version \in 0..Last /\ index \in 1..version + 1
      /\ index = version + 1 /\ index <= Last /\ pos \in 1..Count(index)
      /\ OnTrack \/ Ahead
  BY ListFacts DEF IInv, Execute, Applying, Count, Ddl, List, Last
<1>3. Last \in Nat \ {0} /\ index \in 1..Last /\ Count(index) \in Nat /\ Count(index)' = Count(index)
  BY <1>1, <1>2, ListFacts DEF Last, List, Count, Ddl
<1>4. CASE Raises(s, schema)
  <2>1. schema' = schema /\ phase' = "failed" /\ pos' = pos
    BY <1>4 DEF Execute, Ddl
  <2>2. schema \notin Shaped(db, version + 1, 1)
    <3>1. ~OnTrack
      BY <1>2, <1>3, <1>4, StatementOnTrack DEF OnTrack, List, Last, Count, Ddl
    <3> QED BY <3>1, <1>2 DEF Ahead
  <2>3. VersionDescribesSchema'
    BY <2>1, <1>1 DEF IInv, VersionDescribesSchema, Last, List
  <2> QED BY <2>1, <2>2, <2>3, <1>1, <1>2 DEF IInv, FailsOnlyWhenTorn, Last
<1>5. CASE ~Raises(s, schema)
  <2>1. schema' \in Outcomes(s, schema) /\ phase' = "apply" /\ pos' = pos + 1
    BY <1>5 DEF Execute, Ddl
  <2>2. CASE OnTrack
    <3>1. schema' \in Shaped(db, index, pos + 1)
      BY <2>1, <2>2, <1>2, <1>3, StatementOnTrack DEF OnTrack, List, Last, Count, Ddl
    <3>2. OnTrack'
      BY <3>1, <2>1, <1>1 DEF OnTrack
    <3>3. VersionDescribesSchema'
      BY <3>1, <1>1, <1>2, <1>3 DEF VersionDescribesSchema, Last, List, Count, Ddl
    <3> QED BY <3>2, <3>3, <2>1, <1>1, <1>2, <1>3 DEF IInv, Applying, FailsOnlyWhenTorn
  <2>3. CASE Ahead
    <3>1. PICK j \in pos + 1..Count(index) + 1 : schema \in Shaped(db, index, j)
      BY <2>3 DEF Ahead
    <3>2. schema' \in Shaped(db, index, j) \ Shaped(db, index, 1)
      <4>1. schema \in Shaped(db, index, j) \ Shaped(db, index, 1)
        BY <3>1, <2>3 DEF Ahead
      <4> QED BY <4>1, <3>1, <2>1, <1>2, <1>3, <1>5, StatementAhead DEF List, Last, Count, Ddl
    <3>3. VersionDescribesSchema'
      BY <3>1, <3>2, <1>1, <1>2, <1>3 DEF VersionDescribesSchema, Last, List, Count, Ddl
    <3>4. OnTrack' \/ Ahead'
      <4>1. CASE j = pos + 1
        BY <4>1, <3>1, <3>2, <2>1, <1>1 DEF OnTrack
      <4>2. CASE j # pos + 1
        <5>1. j \in pos' + 1..Count(index)' + 1
          BY <4>2, <3>1, <2>1, <1>2, <1>3
        <5>2. schema' \notin Shaped(db, index, 1)' /\ schema' \in Shaped(db, index, j)'
          BY <3>2, <1>1
        <5> QED BY <5>1, <5>2 DEF Ahead
      <4> QED BY <4>1, <4>2
    <3> QED BY <3>3, <3>4, <2>1, <1>1, <1>2, <1>3 DEF IInv, Applying, FailsOnlyWhenTorn
  <2> QED BY <2>2, <2>3, <1>2
<1> QED BY <1>4, <1>5

\* A migration that starts finds the schema at its beginning, or ahead of it.
LEMMA EnterKeeps == IInv /\ Enter => IInv'
<1> SUFFICES ASSUME IInv, Enter PROVE IInv'
  OBVIOUS
<1>1. /\ db' = db /\ version' = version /\ index' = index /\ schema' = schema /\ List' = List /\ Last' = Last
      /\ Count(index)' = Count(index) /\ phase' = "apply" /\ pos' = 1
  BY DEF Enter, List, Last, Count, Ddl
<1>2. Last \in Nat \ {0} /\ index \in 1..Last /\ Count(index) \in Nat
  BY ListFacts DEF IInv, Enter, Last, List, Count, Ddl
<1>3. index = version + 1
  <2>1. List[index].on = index - 1 /\ version \in 0..Last /\ index \in 1..version + 1
    BY <1>2, ListFacts DEF IInv, Last, List
  <2>2. version = 0 \/ version = List[index].on
    BY DEF Enter, Applies
  <2> QED BY <2>1, <2>2, <1>2
<1>4. PICK j \in 1..Count(index) + 1 : schema \in Shaped(db, index, j)
  BY <1>2, <1>3 DEF IInv, VersionDescribesSchema, Count, Ddl
<1>5. OnTrack' \/ Ahead'
  <2>1. CASE schema \in Shaped(db, index, 1)
    BY <2>1, <1>1 DEF OnTrack
  <2>2. CASE schema \notin Shaped(db, index, 1)
    BY <2>2, <1>1, <1>2, <1>4 DEF Ahead
  <2> QED BY <2>1, <2>2
<1>6. VersionDescribesSchema'
  BY <1>1 DEF IInv, VersionDescribesSchema, Last, List
<1> QED BY <1>1, <1>2, <1>3, <1>5, <1>6 DEF IInv, Applying, FailsOnlyWhenTorn

\* A migration that ends leaves the schema that the next one starts from.
LEMMA StoreVersionKeeps == IInv /\ StoreVersion => IInv'
<1> SUFFICES ASSUME IInv, StoreVersion PROVE IInv'
  OBVIOUS
<1>1. db' = db /\ schema' = schema /\ List' = List /\ Last' = Last /\ phase' = "loop" /\ index' = index + 1
  BY DEF StoreVersion, List, Last
<1>2. /\ db \in Plugins /\ version \in 0..Last /\ index = version + 1 /\ index <= Last
      /\ pos = Count(index) + 1
      /\ OnTrack \/ Ahead
  BY DEF IInv, StoreVersion, Applying, Count, Ddl
<1>3. Last \in Nat \ {0} /\ index \in 1..Last /\ Count(index) \in Nat
  BY <1>2, ListFacts DEF Last, List, Count, Ddl
<1>4. version' = index
  BY <1>2, <1>3, ListFacts DEF StoreVersion, List, Last
<1>5. schema \in Shaped(db, index + 1, 1)
  <2>1. OnTrack
    <3>1. pos + 1..Count(index) + 1 = {}
      BY <1>2, <1>3
    <3> QED BY <3>1, <1>2 DEF Ahead
  <2>2. Shaped(db, index + 1, 1) = Shaped(db, index, Count(index) + 1)
    BY <1>2, <1>3, NextShape DEF List, Last, Count, Ddl
  <2> QED BY <2>1, <2>2, <1>2 DEF OnTrack
<1>6. VersionDescribesSchema'
  <2>1. CASE index = Last
    BY <2>1, <1>1, <1>4, <1>5 DEF VersionDescribesSchema
  <2>2. CASE index < Last
    <3>1. index + 1 \in 1..Last /\ Count(index + 1) \in Nat
      BY <2>2, <1>2, <1>3, ListFacts DEF Last, List, Count, Ddl
    <3>2. 1 \in 1..Count(index + 1) + 1
      BY <3>1
    <3> QED BY <3>2, <2>2, <1>1, <1>4, <1>5 DEF VersionDescribesSchema, Count, Ddl, List
  <2> QED BY <2>1, <2>2, <1>2, <1>3
<1> QED BY <1>1, <1>2, <1>3, <1>4, <1>6 DEF IInv, FailsOnlyWhenTorn

LEMMA StepKeepsIInv == IInv /\ [MigrationNext]_migrationVars => IInv'
<1> SUFFICES ASSUME IInv, [MigrationNext]_migrationVars PROVE IInv'
  OBVIOUS
<1>1. Last \in Nat \ {0}
  BY ListFacts DEF IInv, Last, List
<1>2. CASE StartPlugin \/ StopPlugin
  <2>1. /\ db' = db /\ schema' = schema /\ version' = version /\ List' = List /\ Last' = Last
        /\ index' = 1 /\ phase' \in {"down", "loop"}
    BY <1>2 DEF StartPlugin, StopPlugin, List, Last
  <2>2. VersionDescribesSchema'
    BY <2>1 DEF IInv, VersionDescribesSchema, List
  <2> QED BY <2>1, <2>2, <1>1 DEF IInv, FailsOnlyWhenTorn
<1>3. CASE Skip \/ Serve
  <2>1. /\ db' = db /\ schema' = schema /\ version' = version /\ List' = List /\ Last' = Last
        /\ phase = "loop"
    BY <1>3 DEF Skip, Serve, List, Last
  <2>2. VersionDescribesSchema'
    BY <2>1 DEF IInv, VersionDescribesSchema, List
  <2>3. CASE Skip
    <3>1. index' = index + 1 /\ phase' = "loop" /\ index \in 1..Last /\ version # index - 1
      BY <2>3, <1>1, ListFacts DEF IInv, Skip, Applies, Last, List
    <3> QED BY <3>1, <2>1, <2>2, <1>1 DEF IInv, FailsOnlyWhenTorn
  <2>4. CASE Serve
    BY <2>4, <2>1, <2>2, <1>1 DEF IInv, Serve, FailsOnlyWhenTorn
  <2> QED BY <2>3, <2>4, <1>3
<1>4. CASE Enter
  BY <1>4, EnterKeeps
<1>5. CASE Execute
  BY <1>5, ExecuteKeeps
<1>6. CASE StoreVersion
  BY <1>6, StoreVersionKeeps
<1>7. CASE UNCHANGED migrationVars
  BY <1>7 DEF IInv, migrationVars, VersionDescribesSchema, FailsOnlyWhenTorn, Applying, OnTrack, Ahead,
     Count, Ddl, List, Last
<1> QED BY <1>2, <1>3, <1>4, <1>5, <1>6, <1>7 DEF MigrationNext

LEMMA Inductive == MigrationSpec => []IInv
BY InitIInv, StepKeepsIInv, PTL DEF MigrationSpec

-----------------------------------------------------------------------------
(* The theorems. *)

\* The statements of the migration after the stored version that ran are a
\* prefix of it, wherever the loop of persistence.py was stopped, and whichever
\* columns __alter_table_drop_column could not drop.
THEOREM VersionIsTrue == MigrationSpec => []VersionDescribesSchema
<1>1. IInv => VersionDescribesSchema
  BY DEF IInv
<1> QED BY <1>1, Inductive, PTL

\* A plugin process that gets past the loop serves the schema after the last
\* migration, whatever stops came before; of what that schema has no more, only
\* columns that __alter_table_drop_column could not drop may remain.
THEOREM ServesTheLastSchema == MigrationSpec => []ReadyIsComplete
<1>1. IInv => ReadyIsComplete
  <2> SUFFICES ASSUME IInv, phase = "ready" PROVE version = Last /\ schema \in Shaped(db, Last + 1, 1)
    BY DEF ReadyIsComplete
  <2>1. Last \in Nat /\ version = Last
    BY ListFacts DEF IInv, Last, List
  <2> QED BY <2>1 DEF IInv, VersionDescribesSchema
<1> QED BY <1>1, Inductive, PTL

\* A statement raises only where an earlier start was stopped inside the same
\* migration: a database that was migrated without a stop never fails to start.
THEOREM OnlyTornFails == MigrationSpec => []FailsOnlyWhenTorn
<1>1. IInv => FailsOnlyWhenTorn
  BY DEF IInv
<1> QED BY <1>1, Inductive, PTL
=============================================================================
