------------------------------ MODULE Migrations ------------------------------
(***************************************************************************)
(* The schema migrations: processes that run RunMigrations (servers at     *)
(* their start, cmd/migrate up) or RollbackMigrations (cmd/migrate down)   *)
(* against one database.  A version is the number of its file in sorted    *)
(* order; the SQL of a version is the set of tables it creates, named by   *)
(* the version.  Each version runs in one transaction, its SQL and then    *)
(* the INSERT or DELETE of its row; whether it has to run is decided       *)
(* outside that transaction and without a lock.                            *)
(***************************************************************************)
EXTENDS Integers, FiniteSets

CONSTANTS
  Ups,                  \* processes that run RunMigrations
  Downs,                \* processes that run RollbackMigrations
  LastVersion,          \* number of migration files
  Requires,             \* versions whose tables the SQL of a version refers to
  Indexed,              \* versions that create an index on each of their tables
  MaxMigrationFaults    \* how many calls may fail (bound)

Migrators == Ups \cup Downs
Versions == 1..LastVersion

ASSUME MigrationAssumption ==
  /\ Ups \cap Downs = {} /\ LastVersion \in Nat /\ MaxMigrationFaults \in Nat
  /\ Requires \in [Versions -> SUBSET Versions]
  /\ \A v \in Versions : Requires[v] \subseteq 1..(v - 1)
  /\ Indexed \subseteq Versions

VARIABLES
  hasTable,         \* schema_migrations exists
  applied,          \* its rows
  objects,          \* versions whose tables exist
  mpc,              \* where each process is
  todo,             \* versions it has still to look at
  work,             \* what its open transaction has changed: the tables, the row
  migrationFaults,  \* failed calls so far
  overlapped,       \* observed: an upgrade and a rollback have run at the same time
  swallowed         \* observed: a rollback has taken an error for a missing table

schema == <<hasTable, applied, objects>>
observed == <<overlapped, swallowed>>
migrationVars == <<schema, mpc, todo, work, migrationFaults, observed>>

\* Before the look at schema_migrations, the CREATE or DROP TABLE, the CREATE INDEX, the
\* INSERT or DELETE of the row, and the COMMIT.
Running == {"check", "exec", "index", "record", "tx"}
-----------------------------------------------------------------------------
MigrationInit ==
  /\ hasTable = FALSE /\ applied = {} /\ objects = {}
  /\ mpc = [m \in Migrators |-> "idle"]
  /\ todo = [m \in Migrators |-> {}] /\ work = [m \in Migrators |-> {}]
  /\ migrationFaults = 0 /\ overlapped = FALSE /\ swallowed = FALSE

MigrationFault == migrationFaults < MaxMigrationFaults /\ migrationFaults' = migrationFaults + 1

\* Another process of the other kind runs while m begins.
Overlaps(m) ==
  \E n \in Migrators : mpc[n] \in Running /\ (n \in Ups <=> m \in Downs)

\* Outside a transaction.
Enter(m, pc, versions) ==
  /\ mpc' = [mpc EXCEPT ![m] = pc]
  /\ work' = [work EXCEPT ![m] = {}]
  /\ todo' = [todo EXCEPT ![m] = versions]

\* RunMigrations creates schema_migrations if it is missing and lists the files.
RunMigrations(m) ==
  /\ m \in Ups /\ mpc[m] = "idle"
  /\ hasTable' = TRUE
  /\ Enter(m, "check", Versions)
  /\ overlapped' = (overlapped \/ Overlaps(m))
  /\ UNCHANGED <<applied, objects, migrationFaults, swallowed>>

\* The rows are limited to the latest version.
RollbackLatest(m) ==
  /\ m \in Downs /\ mpc[m] = "idle"
  /\ Enter(m, IF hasTable THEN "exec" ELSE "done",
           {v \in applied : \A w \in applied : v >= w})
  /\ overlapped' = (overlapped \/ Overlaps(m))
  /\ UNCHANGED <<schema, migrationFaults, swallowed>>

\* RollbackMigrations reads the rows that are there now; without the table it is done.
RollbackMigrations(m) ==
  /\ m \in Downs /\ mpc[m] = "idle"
  /\ Enter(m, IF hasTable THEN "exec" ELSE "done", applied)
  /\ overlapped' = (overlapped \/ Overlaps(m))
  /\ UNCHANGED <<schema, migrationFaults, swallowed>>

\* The query for the table fails, or the rows break off before the first, whose
\* error is not looked at: reported as success.
RollbackSwallows(m) ==
  /\ m \in Downs /\ mpc[m] = "idle"
  /\ MigrationFault
  /\ Enter(m, "done", {})
  /\ swallowed' = TRUE
  /\ UNCHANGED <<schema, overlapped>>

\* The rows are read without DESC.
AscendingOrder(m) == CHOOSE v \in todo[m] : \A w \in todo[m] : v <= w

\* sort.Strings(files), respectively ORDER BY version DESC.
Current(m) ==
  CHOOSE v \in todo[m] : \A w \in todo[m] : IF m \in Ups THEN v <= w ELSE v >= w

\* No file counts as applied.
NeverApplied(m) == FALSE

AlreadyApplied(m) == Current(m) \in applied

SkipVersion(m) ==
  /\ mpc[m] = "check" /\ todo[m] # {}
  /\ AlreadyApplied(m)
  /\ todo' = [todo EXCEPT ![m] = @ \ {Current(m)}]
  /\ UNCHANGED <<schema, mpc, work, migrationFaults, observed>>

FindMissing(m) ==
  /\ mpc[m] = "check" /\ todo[m] # {}
  /\ ~AlreadyApplied(m)
  /\ mpc' = [mpc EXCEPT ![m] = "exec"]
  /\ UNCHANGED <<schema, todo, work, migrationFaults, observed>>

\* The transaction of n has created or dropped the tables of v, or refers to them from
\* a table it has created.
Changes(n, v) ==
  /\ "tables" \in work[n]
  /\ v = Current(n) \/ (n \in Ups /\ v \in Requires[Current(n)])

\* CREATE INDEX of n has locked the tables of v against a DROP.
Shares(n, v) ==
  n \in Ups /\ mpc[n] \in {"record", "tx"} /\ v \in Indexed /\ Current(n) = v

Changed(m, v) == \E n \in Migrators \ {m} : Changes(n, v)
Shared(m, v) == \E n \in Migrators \ {m} : Shares(n, v)

\* The next statement, after one that has left the transaction with changes w.
Proceed(m, pc, w) ==
  /\ mpc' = [mpc EXCEPT ![m] = pc]
  /\ work' = [work EXCEPT ![m] = w]
  /\ UNCHANGED <<todo, migrationFaults, observed>>

AfterCreate(m) == IF Current(m) \in Indexed THEN "index" ELSE "record"

\* CREATE TABLE IF NOT EXISTS looks at tables that are there, or are still there while
\* another transaction drops them, without a lock.
TablesFound(m) ==
  /\ m \in Ups /\ mpc[m] = "exec" /\ todo[m] # {}
  /\ Current(m) \in objects
  /\ Proceed(m, AfterCreate(m), {})
  /\ UNCHANGED schema

\* The tables are created outside the transaction that records them.
CreateAtOnce(m) ==
  LET v == Current(m) IN
  /\ m \in Ups /\ mpc[m] = "exec" /\ todo[m] # {}
  /\ v \notin objects /\ Requires[v] \subseteq objects
  /\ \A w \in Requires[v] \cup {v} : ~Changed(m, w) /\ ~Shared(m, w)
  /\ objects' = objects \cup {v}
  /\ Proceed(m, AfterCreate(m), {"tables"})
  /\ UNCHANGED <<hasTable, applied>>

\* CREATE TABLE waits for another that creates the same table, and for the lock of the
\* tables it refers to.
CreateTables(m) ==
  LET v == Current(m) IN
  /\ m \in Ups /\ mpc[m] = "exec" /\ todo[m] # {}
  /\ v \notin objects /\ Requires[v] \subseteq objects
  /\ \A w \in Requires[v] \cup {v} : ~Changed(m, w) /\ ~Shared(m, w)
  /\ Proceed(m, AfterCreate(m), {"tables"})
  /\ UNCHANGED schema

\* CREATE INDEX IF NOT EXISTS locks the table, also when the index is there.
CreateIndexes(m) ==
  /\ mpc[m] = "index"
  /\ "tables" \in work[m] \/ (Current(m) \in objects /\ ~Changed(m, Current(m)))
  /\ Proceed(m, "record", work[m])
  /\ UNCHANGED schema

\* DROP TABLE IF EXISTS waits for the lock of a table it finds.
DropTables(m) ==
  LET v == Current(m) IN
  /\ m \in Downs /\ mpc[m] = "exec" /\ todo[m] # {}
  /\ v \in objects => ~Changed(m, v) /\ ~Shared(m, v)
  /\ Proceed(m, "record", IF v \in objects THEN {"tables"} ELSE {})
  /\ UNCHANGED schema

\* Another transaction has inserted or deleted the row.
RowLocked(m) == \E n \in Migrators \ {m} : "row" \in work[n] /\ Current(n) = Current(m)

\* INSERT INTO schema_migrations.
InsertRow(m) ==
  /\ m \in Ups /\ mpc[m] = "record"
  /\ Current(m) \notin applied /\ ~RowLocked(m)
  /\ Proceed(m, "tx", work[m] \cup {"row"})
  /\ UNCHANGED schema

\* DELETE FROM schema_migrations, which waits for the row only if it finds one.
DeleteRow(m) ==
  LET found == Current(m) \in applied IN
  /\ m \in Downs /\ mpc[m] = "record"
  /\ found => ~RowLocked(m)
  /\ Proceed(m, "tx", work[m] \cup (IF found THEN {"row"} ELSE {}))
  /\ UNCHANGED schema

\* A statement of an upgrade is refused: it refers to a table that is not there, the
\* table it indexes has been dropped, or the row has been inserted.
StatementFails(m) ==
  LET v == Current(m) IN
  /\ m \in Ups /\ todo[m] # {}
  /\ \/ mpc[m] = "exec" /\ v \notin objects /\ ~Changed(m, v) /\ ~(Requires[v] \subseteq objects)
     \/ mpc[m] = "index" /\ "tables" \notin work[m] /\ v \notin objects
     \/ mpc[m] = "record" /\ v \in applied /\ ~RowLocked(m)
  /\ Enter(m, "failed", {})
  /\ UNCHANGED <<schema, migrationFaults, observed>>

\* The committed state of what the transaction of m may have changed.
After(m, what, versions) ==
  IF what \notin work[m] THEN versions
  ELSE IF m \in Ups THEN versions \cup {Current(m)} ELSE versions \ {Current(m)}

CommitVersion(m) ==
  /\ mpc[m] = "tx"
  /\ applied' = After(m, "row", applied)
  /\ objects' = After(m, "tables", objects)
  /\ Enter(m, IF m \in Ups THEN "check" ELSE "exec", todo[m] \ {Current(m)})
  /\ UNCHANGED <<hasTable, migrationFaults, observed>>

MigrationsDone(m) ==
  /\ mpc[m] \in {"check", "exec"} /\ todo[m] = {}
  /\ mpc' = [mpc EXCEPT ![m] = "done"]
  /\ UNCHANGED <<schema, todo, work, migrationFaults, observed>>

\* No connection, any call fails, the connection is lost, the 30 seconds of cmd/migrate are over or the
\* process dies: an open transaction is rolled back.
MigrationFails(m) ==
  /\ mpc[m] \in Running \cup {"idle"}
  /\ MigrationFault
  /\ Enter(m, "failed", {})
  /\ UNCHANGED <<schema, observed>>

Migrate(m) ==
  \/ SkipVersion(m) \/ FindMissing(m)
  \/ TablesFound(m) \/ CreateTables(m) \/ CreateIndexes(m) \/ DropTables(m)
  \/ InsertRow(m) \/ DeleteRow(m) \/ StatementFails(m)
  \/ CommitVersion(m) \/ MigrationsDone(m)

MigrationStep(m) ==
  \/ RunMigrations(m) \/ RollbackMigrations(m) \/ RollbackSwallows(m)
  \/ Migrate(m) \/ MigrationFails(m)

\* The process is over and may be started again.
Leave(m) ==
  /\ mpc[m] \in {"done", "failed"}
  /\ Enter(m, "idle", {})
  /\ UNCHANGED <<schema, migrationFaults, observed>>

-----------------------------------------------------------------------------
\* The schema, the processes and the counters have values of their types.
MigrationTypeOK ==
  /\ hasTable \in BOOLEAN /\ applied \subseteq Versions /\ objects \subseteq Versions
  /\ mpc \in [Migrators -> {"idle", "done", "failed"} \cup Running]
  /\ todo \in [Migrators -> SUBSET Versions]
  /\ work \in [Migrators -> SUBSET {"tables", "row"}]
  /\ migrationFaults \in 0..MaxMigrationFaults
  /\ overlapped \in BOOLEAN /\ swallowed \in BOOLEAN

\* What schema_migrations says of the tables, wherever the processes fail.  Whichever of
\* them run at the same time, a version is never recorded without its tables if its SQL
\* creates an index on each (001 and 003: CREATE INDEX holds them until the INSERT of the
\* row is committed; nothing holds projector_checkpoints of 004, or market_summaries of 002
\* before the index on price_history).  As long as no upgrade runs together with a rollback, every version is
\* recorded exactly when its tables exist.
RecordMatchesSchema ==
  /\ applied \cap Indexed \subseteq objects
  /\ overlapped \/ applied = objects

\* Upgrades may run together, be interrupted and be repeated in any way: as long
\* as none runs together with a rollback, the applied versions have no gap, so no
\* version is ever applied before one that it builds on.
AppliedWithoutGap == overlapped \/ \E n \in 0..LastVersion : applied = 1..n
================================================================================
