-------------------------------- MODULE Migrations --------------------------------
(***************************************************************************)
(* The migrators of vector-store-pgvector and persistence-postgres: commands of    *)
(* separate processes that select, then open a transaction that runs the SQL of a    *)
(* migration and records (or removes) its row.  The profiles of the vector index are   *)
(* migrations of one table; of the tables of persistence-postgres it is the one that    *)
(* has an index.  The database locks a table that a transaction has made or dropped       *)
(* against all others, and one that it indexes against those that drop it, until the        *)
(* transaction ends; a statement that names a table it cannot see takes no lock.              *)
(***************************************************************************)
EXTENDS Naturals, FiniteSets

CONSTANTS
  Migrators,             \* processes
  Profiles,              \* migrations of the same table, one file each
  MaxCommands, MaxMigrationFaults   \* bounds: commands, and statements that fail or answers lost

NoTable == "none"

ASSUME MigrationsAssumption ==
  NoTable \notin Profiles /\ MaxCommands \in Nat /\ MaxMigrationFaults \in Nat

VARIABLES
  table,       \* what is committed: the profile whose SQL created the table
  applied,     \* the rows of the migrations table, committed
  migratorCommand,  \* per process: its command, and what its transaction did to table and row
  everApplied, \* history: the profiles that have been recorded
  missed,      \* history: a rollback that had found no table was committed
  commands, migrationFaults

migrationVars == <<table, applied, migratorCommand, everApplied, missed, commands, migrationFaults>>

Idle == [step |-> "idle", kind |-> "none", profile |-> NoTable, saw |-> NoTable,
         table |-> "untouched", row |-> "untouched"]

MigrationsInit ==
  /\ table = NoTable /\ applied = {} /\ everApplied = {} /\ missed = FALSE
  /\ migratorCommand = [m \in Migrators |-> Idle] /\ commands = 0 /\ migrationFaults = 0

----------------------------------------------------------------------------
(* Selection *)

Pending(profile) == profile \notin applied

Begins(m, kind, profile) ==
  /\ migratorCommand[m].step = "idle" /\ commands < MaxCommands /\ commands' = commands + 1
  /\ migratorCommand' = [migratorCommand EXCEPT ![m] =
       [Idle EXCEPT !.step = "selected", !.kind = kind, !.profile = profile]]
  /\ UNCHANGED <<table, applied, everApplied, missed, migrationFaults>>

\* a file whose row exists is skipped
apply(m) == \E p \in Profiles : Pending(p) /\ Begins(m, "apply", p)

\* the last row of the profile; without one there is nothing to do
rollbackLast(m) == \E p \in Profiles : ~Pending(p) /\ Begins(m, "rollback", p)

----------------------------------------------------------------------------
(* BEGIN and the SQL *)

OtherCommands(m) == {migratorCommand[n] : n \in Migrators \ {m}}
NoneChanges(m) == \A other \in OtherCommands(m) : other.table \notin {"created", "dropped"}
NoneHolds(m) == \A other \in OtherCommands(m) : other.table = "untouched"

Ran(m, effect) ==
  migratorCommand' = [migratorCommand EXCEPT ![m].step = "ran", ![m].table = effect]
Ended(m) == migratorCommand' = [migratorCommand EXCEPT ![m] = Idle]

\* CREATE TABLE IF NOT EXISTS looks for the table
LooksForTable(m) ==
  /\ migratorCommand[m].step = "selected" /\ migratorCommand[m].kind = "apply"
  /\ migratorCommand' = [migratorCommand EXCEPT ![m].step = "looked", ![m].saw = table]
  /\ UNCHANGED <<table, applied, everApplied, missed, commands, migrationFaults>>

\* and creates one it did not see, which fails when another has been committed since
CreatesTable(m) ==
  /\ migratorCommand[m].step = "looked" /\ migratorCommand[m].saw = NoTable /\ NoneChanges(m)
  /\ IF table = NoTable THEN Ran(m, "created") ELSE Ended(m)

\* CREATE INDEX on the table that it saw, which fails when that has been dropped since
IndexesTable(m) ==
  /\ migratorCommand[m].step = "looked" /\ migratorCommand[m].saw # NoTable /\ NoneChanges(m)
  /\ IF table = NoTable THEN Ended(m) ELSE Ran(m, "indexed")

\* DROP TABLE IF EXISTS: one that an open transaction has created is passed by
DropsTable(m) ==
  /\ migratorCommand[m].step = "selected" /\ migratorCommand[m].kind = "rollback"
  /\ \/ table = NoTable /\ Ran(m, "untouched")
     \/ table # NoTable /\ NoneHolds(m) /\ Ran(m, "dropped")

RunsSql(m) ==
  /\ CreatesTable(m) \/ IndexesTable(m) \/ DropsTable(m)
  /\ UNCHANGED <<table, applied, everApplied, missed, commands, migrationFaults>>

----------------------------------------------------------------------------
(* The row, and the end of the transaction *)

\* another transaction has inserted or deleted the row
RowHeld(m) ==
  \E other \in OtherCommands(m) : other.profile = migratorCommand[m].profile /\ other.row # "untouched"

\* INSERT of a row that is there ends the transaction
InsertsRow(m) ==
  /\ migratorCommand[m].kind = "apply" /\ ~RowHeld(m)
  /\ IF Pending(migratorCommand[m].profile)
     THEN migratorCommand' = [migratorCommand EXCEPT ![m].step = "recorded", ![m].row = "inserted"]
     ELSE Ended(m)

\* DELETE of one that it does not see is no error, and waits for nobody
DeletesRow(m) ==
  LET p == migratorCommand[m].profile IN
  /\ migratorCommand[m].kind = "rollback" /\ (Pending(p) \/ ~RowHeld(m))
  /\ migratorCommand' = [migratorCommand EXCEPT ![m].step = "recorded",
       ![m].row = IF Pending(p) THEN "untouched" ELSE "deleted"]

Records(m) ==
  /\ migratorCommand[m].step = "ran" /\ (InsertsRow(m) \/ DeletesRow(m))
  /\ UNCHANGED <<table, applied, everApplied, missed, commands, migrationFaults>>

TableAfter(m) ==
  CASE migratorCommand[m].table = "created" -> migratorCommand[m].profile
    [] migratorCommand[m].table = "dropped" -> NoTable
    [] OTHER -> table
RowsAfter(m) ==
  CASE migratorCommand[m].row = "inserted" -> applied \cup {migratorCommand[m].profile}
    [] migratorCommand[m].row = "deleted" -> applied \ {migratorCommand[m].profile}
    [] OTHER -> applied

Committed(m) ==
  /\ table' = TableAfter(m) /\ applied' = RowsAfter(m)
  /\ everApplied' = everApplied \cup RowsAfter(m)
  /\ missed' = (missed \/ migratorCommand[m].table = "untouched")
  /\ Ended(m)

Commits(m) ==
  /\ migratorCommand[m].step = "recorded" /\ Committed(m) /\ UNCHANGED <<commands, migrationFaults>>

\* what a failure, or the end of the process, leaves of its transaction
\* Seeded bug: the SQL is run outside the transaction of the row.
Undone_KeepsTable(m) == table' = TableAfter(m)
Undone(m) == UNCHANGED table

MigrationFails(m) ==
  /\ migratorCommand[m].step # "idle" /\ migrationFaults < MaxMigrationFaults
  /\ migrationFaults' = migrationFaults + 1 /\ Ended(m) /\ Undone(m)
  /\ UNCHANGED <<applied, everApplied, missed, commands>>

\* the connection is lost around COMMIT: reported as failed, though the rows are there
CommitLost(m) ==
  /\ migratorCommand[m].step = "recorded" /\ migrationFaults < MaxMigrationFaults
  /\ migrationFaults' = migrationFaults + 1 /\ Committed(m) /\ UNCHANGED commands

MigrationsNext ==
  \E m \in Migrators :
    apply(m) \/ rollbackLast(m) \/ LooksForTable(m) \/ RunsSql(m) \/ Records(m) \/ Commits(m)
    \/ MigrationFails(m) \/ CommitLost(m)

MigrationsSpec == MigrationsInit /\ [][MigrationsNext]_migrationVars

----------------------------------------------------------------------------
(* Properties *)

\* what a transaction did is not there before its SQL, nor after its end
MigrationsTypeOK ==
  /\ table \in Profiles \cup {NoTable} /\ applied \subseteq everApplied /\ everApplied \subseteq Profiles
  /\ \A m \in Migrators :
       /\ migratorCommand[m].table # "untouched" => migratorCommand[m].step \in {"ran", "recorded"}
       /\ migratorCommand[m].row # "untouched" => migratorCommand[m].step = "recorded"

OneProfile == Cardinality(everApplied) <= 1

(* A database that never held two profiles has the table of the migration it records,      *)
(* whichever migrators raced or stopped half-way (migrator.ts 127-151, 184-205): an apply     *)
(* holds the table it made or found until its row is committed.                                *)
RecordHasItsTable == OneProfile => \A p \in applied : table = p

(* And it has no table without a record, unless a rollback was committed that had found no     *)
(* table to drop (migrator.ts 175-190).                                                          *)
OnlyMissLeavesTable == OneProfile /\ ~missed => applied = IF table = NoTable THEN {} ELSE {table}

(* Without that exception: refuted.  A rollback that selected a migration which is rolled back    *)
(* and applied again meanwhile passes by the table of the open apply, and then deletes the row      *)
(* that this apply has committed (001_init.down.sql 5, migrator.ts 188).                              *)
SchemaMatchesRecord == OneProfile => applied = IF table = NoTable THEN {} ELSE {table}

(* And of any history: fails once a second profile is applied over the first. *)
RecordedHasTable == \A p \in applied : table = p

(* What migrators leave of the schema (vector-store-pgvector/src/migrator.ts). *)
MigrationsInv == MigrationsTypeOK /\ RecordHasItsTable /\ OnlyMissLeavesTable

=============================================================================
