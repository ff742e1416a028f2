----------------------------- MODULE ServerProofs -----------------------------
(***************************************************************************)
(* Proofs about the server process and the schema migrations, for any      *)
(* number of instances, migrate commands, versions, daemons, calls and     *)
(* failures.                                                               *)
(*                                                                         *)
(* AppliedWithoutGap is not inductive.  MigrationInv adds where a process  *)
(* that migrates stands: an upgrade has before it a suffix of the files,   *)
(* and what it has passed is applied; a rollback has before it a prefix    *)
(* that still covers what is applied.  Both break once an upgrade and a    *)
(* rollback run together, which is what overlapped records.                *)
(*                                                                         *)
(* RecordMatchesSchema needs what a transaction knows between two of its   *)
(* statements.  TableLocks says which of its tables nobody else can touch, *)
(* whatever runs at the same time; StatementsSeen says that what a         *)
(* statement has found is still so, as long as nothing has overlapped.     *)
(*                                                                         *)
(* DaemonsKeepTheirPools and CallsKeepTheirPool follow from ProcessInv,    *)
(* which ties the resources, the daemons and the calls of an instance to   *)
(* the place run() has reached.                                            *)
(***************************************************************************)
EXTENDS Server, FiniteSetTheorems, TLAPS

\* m runs its migrations.
Migrating(m) == mpc[m] \in Running

\* An upgrade has a suffix of the files before it; what it has passed is applied.
UpgradePosition ==
  \A m \in Ups : Migrating(m) =>
    \E k \in 1..(LastVersion + 1) :
      /\ todo[m] = k..LastVersion
      /\ mpc[m] # "check" => k <= LastVersion
      /\ overlapped \/ 1..(k - 1) \subseteq applied

\* A rollback has a prefix of the files before it that covers what is applied.
RollbackPosition ==
  \A m \in Downs :
    /\ mpc[m] \notin {"check", "index"} /\ (mpc[m] \in {"record", "tx"} => todo[m] # {})
    /\ Migrating(m) => overlapped \/ \E k \in 0..LastVersion : todo[m] = 1..k /\ applied \subseteq 1..k

\* An upgrade and a rollback that run together have been noticed.
OverlapIsSeen == \A u \in Ups, d \in Downs : Migrating(u) /\ Migrating(d) => overlapped

\* The places with an open transaction that has executed a statement.
Inside == {"index", "record", "tx"}

\* The transaction of m has created or dropped the tables of its version.
Alters(m) == "tables" \in work[m]

\* CREATE INDEX of u holds the tables of its version.
Held(u) == mpc[u] \in {"record", "tx"} /\ Current(u) \in Indexed

\* Changes that are not committed belong to an open transaction; that of an upgrade is
\* committed with the row.
WorkInside ==
  /\ \A m \in Migrators : mpc[m] \notin Inside => work[m] = {}
  /\ \A u \in Ups : mpc[u] = "tx" => "row" \in work[u]

\* One transaction at most creates or drops the tables of a version, those it creates are
\* not there and those it drops are; tables that CREATE INDEX holds are not dropped; who
\* drops tables that CREATE INDEX would hold drops their row, if there is one.
TableLocks ==
  /\ \A u \in Ups : Alters(u) => Current(u) \notin objects
  /\ \A d \in Downs : Alters(d) => Current(d) \in objects
  /\ \A m, n \in Migrators : Alters(m) /\ Alters(n) /\ Current(m) = Current(n) => m = n
  /\ \A u \in Ups, d \in Downs : Held(u) /\ Alters(d) => Current(u) # Current(d)
  /\ \A u \in Ups : Held(u) => Alters(u) \/ Current(u) \in objects
  /\ \A d \in Downs : Alters(d) /\ mpc[d] = "tx" /\ Current(d) \in Indexed =>
       "row" \in work[d] \/ Current(d) \notin applied

\* Tables that CREATE TABLE has found are there, tables that DROP TABLE and a row that
\* DELETE have not found are not.
StatementsSeen ==
  \/ overlapped
  \/ /\ \A u \in Ups : mpc[u] \in Inside => Alters(u) \/ Current(u) \in objects
     /\ \A d \in Downs : mpc[d] \in Inside => Alters(d) \/ Current(d) \notin objects
     /\ \A d \in Downs : mpc[d] = "tx" => "row" \in work[d] \/ Current(d) \notin applied

TransactionInv == WorkInside /\ TableLocks /\ StatementsSeen

\* Versions are recorded in a table, and an upgrade has created it.
TableIsThere ==
  /\ applied # {} => hasTable
  /\ \A m \in Ups : Migrating(m) => hasTable

MigrationInv ==
  /\ MigrationTypeOK /\ RecordMatchesSchema /\ AppliedWithoutGap
  /\ UpgradePosition /\ RollbackPosition /\ OverlapIsSeen /\ TableIsThere
  /\ TransactionInv
-----------------------------------------------------------------------------
\* The next file of an upgrade is the smallest it has before it.
LEMMA UpgradeCurrent ==
  ASSUME NEW m \in Ups, NEW k \in 1..LastVersion, todo[m] = k..LastVersion
  PROVE  Current(m) = k /\ todo[m] \ {Current(m)} = (k + 1)..LastVersion
<1> USE MigrationAssumption
<1>1. k \in todo[m] /\ \A w \in todo[m] : k <= w
  OBVIOUS
<1>2. \A v \in todo[m] : (\A w \in todo[m] : v <= w) => v = k
  BY <1>1
<1>3. Current(m) = k
  BY <1>1, <1>2, Zenon DEF Current
<1>4. QED
  BY <1>3

\* The next version of a rollback is the largest it has before it.
LEMMA RollbackCurrent ==
  ASSUME NEW m \in Downs, NEW k \in 1..LastVersion, todo[m] = 1..k
  PROVE  Current(m) = k /\ todo[m] \ {Current(m)} = 1..(k - 1)
<1> USE MigrationAssumption
<1>1. m \notin Ups
  BY Zenon
<1>2. k \in todo[m] /\ \A w \in todo[m] : k >= w
  OBVIOUS
<1>3. ASSUME NEW v \in todo[m], \A w \in todo[m] : v >= w PROVE v = k
  <2>1. v >= k /\ k >= v /\ v \in Int
    BY <1>2, <1>3
  <2>2. QED
    BY <2>1
<1>4. Current(m) = k
  BY <1>1, <1>2, <1>3, Zenon DEF Current
<1>5. QED
  BY <1>4
-----------------------------------------------------------------------------
\* The other processes stay where they are.
OthersStay(m) ==
  \A n \in Migrators \ {m} : mpc'[n] = mpc[n] /\ todo'[n] = todo[n] /\ work'[n] = work[n]

\* What every step of a process leaves well typed.
TypesStay ==
  /\ mpc' \in [Migrators -> {"idle", "done", "failed"} \cup Running]
  /\ todo' \in [Migrators -> SUBSET Versions]
  /\ work' \in [Migrators -> SUBSET {"tables", "row"}]
  /\ migrationFaults' \in 0..MaxMigrationFaults
  /\ swallowed' \in BOOLEAN

\* Entering a place changes m alone.
LEMMA EnterStays ==
  ASSUME MigrationTypeOK, NEW m \in Migrators, NEW pc, NEW versions,
         Enter(m, pc, versions), pc \in {"idle", "done", "failed"} \cup Running,
         versions \subseteq Versions
  PROVE  /\ OthersStay(m) /\ mpc'[m] = pc /\ todo'[m] = versions /\ work'[m] = {}
         /\ mpc' \in [Migrators -> {"idle", "done", "failed"} \cup Running]
         /\ todo' \in [Migrators -> SUBSET Versions]
         /\ work' \in [Migrators -> SUBSET {"tables", "row"}]
<1>1. /\ mpc' = [mpc EXCEPT ![m] = pc] /\ todo' = [todo EXCEPT ![m] = versions]
      /\ work' = [work EXCEPT ![m] = {}]
      /\ mpc \in [Migrators -> {"idle", "done", "failed"} \cup Running]
      /\ todo \in [Migrators -> SUBSET Versions]
      /\ work \in [Migrators -> SUBSET {"tables", "row"}]
  BY Zenon DEF Enter, MigrationTypeOK
<1>2. mpc'[m] = pc /\ todo'[m] = versions /\ work'[m] = {} /\ OthersStay(m)
  BY <1>1, Zenon DEF OthersStay
<1>3. mpc' \in [Migrators -> {"idle", "done", "failed"} \cup Running]
  BY <1>1, Zenon
<1>4. todo' \in [Migrators -> SUBSET Versions]
  BY <1>1, Zenon
<1>5. work' \in [Migrators -> SUBSET {"tables", "row"}]
  BY <1>1, Zenon
<1>6. QED
  BY <1>2, <1>3, <1>4, <1>5, Zenon

\* A process whose list stays is at the same version.
LEMMA CurrentStays ==
  ASSUME NEW n, todo'[n] = todo[n]
  PROVE  Current(n)' = Current(n)
BY Zenon DEF Current

\* The other processes stand in their transactions as before.
LEMMA OthersKeepWork ==
  ASSUME NEW m, OthersStay(m), NEW n \in Migrators, n # m
  PROVE  /\ mpc'[n] = mpc[n] /\ work'[n] = work[n] /\ Current(n)' = Current(n)
         /\ Alters(n)' <=> Alters(n)
         /\ Held(n)' <=> Held(n)
<1>1. mpc'[n] = mpc[n] /\ work'[n] = work[n] /\ Current(n)' = Current(n)
  BY CurrentStays, Zenon DEF OthersStay
<1>2. QED
  BY <1>1, Zenon DEF Alters, Held

\* A step of m to a place without a transaction that changes no table leaves the
\* transactions of the others as they are.
LEMMA OutsideKeepsTransactions ==
  ASSUME TransactionInv, NEW m \in Migrators, OthersStay(m),
         mpc'[m] \notin Inside, work'[m] = {},
         applied' = applied, objects' = objects, overlapped => overlapped'
  PROVE  TransactionInv'
<1>1. \A n \in Migrators : n # m =>
        /\ mpc'[n] = mpc[n] /\ work'[n] = work[n] /\ Current(n)' = Current(n)
        /\ Alters(n)' <=> Alters(n)
        /\ Held(n)' <=> Held(n)
  BY OthersKeepWork, Zenon
<1>2. ~Alters(m)' /\ ~Held(m)' /\ mpc'[m] # "tx"
  BY Zenon DEF Alters, Held, Inside
<1>3. WorkInside'
  BY <1>1, <1>2, Zenon DEF TransactionInv, WorkInside, Migrators
<1>4. TableLocks'
  <2>1. /\ \A u \in Ups : Alters(u)' => Current(u)' \notin objects'
        /\ \A d \in Downs : Alters(d)' => Current(d)' \in objects'
    BY <1>1, <1>2, Zenon DEF TransactionInv, TableLocks, Migrators
  <2>2. \A l, n \in Migrators : Alters(l)' /\ Alters(n)' /\ Current(l)' = Current(n)' => l = n
    BY <1>1, <1>2, Zenon DEF TransactionInv, TableLocks
  <2>3. ASSUME NEW u \in Ups, NEW d \in Downs, Held(u)', Alters(d)' PROVE Current(u)' # Current(d)'
    <3>1. u \in Migrators /\ d \in Migrators /\ u # m /\ d # m
      BY <1>2, <2>3, Zenon DEF Migrators
    <3>2. QED
      BY <1>1, <2>3, <3>1, Zenon DEF TransactionInv, TableLocks
  <2>4. /\ \A u \in Ups : Held(u)' => Alters(u)' \/ Current(u)' \in objects'
        /\ \A d \in Downs : Alters(d)' /\ mpc'[d] = "tx" /\ Current(d)' \in Indexed =>
             "row" \in work'[d] \/ Current(d)' \notin applied'
    BY <1>1, <1>2, Zenon DEF TransactionInv, TableLocks, Migrators
  <2>5. QED
    BY <2>1, <2>2, <2>3, <2>4, Zenon DEF TableLocks
<1>5. StatementsSeen'
  BY <1>1, <1>2, Zenon DEF TransactionInv, StatementsSeen, Migrators
<1>6. QED
  BY <1>3, <1>4, <1>5, Zenon DEF TransactionInv

\* A process that stops, for whatever reason, keeps the invariant.
LEMMA StopKeepsInv ==
  ASSUME MigrationInv, NEW m \in Migrators, OthersStay(m), TypesStay,
         mpc'[m] \notin Running, work'[m] = {}, UNCHANGED <<schema, overlapped>>
  PROVE  MigrationInv'
<1> USE DEF schema
<1>1. MigrationTypeOK' /\ RecordMatchesSchema' /\ AppliedWithoutGap'
  BY Zenon DEF MigrationInv, MigrationTypeOK, TypesStay, RecordMatchesSchema, AppliedWithoutGap
<1>2. \A n \in Migrators : Migrating(n)' => n # m /\ mpc'[n] = mpc[n] /\ todo'[n] = todo[n] /\ Migrating(n)
  BY Zenon DEF Migrating, OthersStay
<1>3. UpgradePosition'
  BY <1>2, Zenon DEF MigrationInv, UpgradePosition, Migrators
<1>4. RollbackPosition'
  <2>1. ASSUME NEW n \in Downs PROVE mpc'[n] \notin {"check", "index"} /\ (mpc'[n] \in {"record", "tx"} => todo'[n] # {})
    BY <1>2, <2>1, Zenon DEF MigrationInv, RollbackPosition, Migrators, Migrating, Running
  <2>2. QED
    BY <1>2, <2>1, Zenon DEF MigrationInv, RollbackPosition, Migrators
<1>5. OverlapIsSeen'
  BY <1>2, Zenon DEF MigrationInv, OverlapIsSeen, Migrators
<1>6. TableIsThere'
  BY <1>2, Zenon DEF MigrationInv, TableIsThere, Migrators
<1>7. TransactionInv'
  BY OutsideKeepsTransactions, Zenon DEF MigrationInv, Running, Inside
<1>8. QED
  BY <1>1, <1>3, <1>4, <1>5, <1>6, <1>7, Zenon DEF MigrationInv

\* RunMigrations: every file is before the upgrade.
LEMMA RunMigrationsKeepsInv ==
  ASSUME MigrationInv, NEW m \in Migrators, RunMigrations(m)
  PROVE  MigrationInv'
<1> USE MigrationAssumption
<1>1. /\ m \in Ups /\ mpc[m] = "idle" /\ hasTable' = TRUE /\ Enter(m, "check", Versions)
      /\ overlapped' = (overlapped \/ Overlaps(m))
      /\ applied' = applied /\ objects' = objects
      /\ migrationFaults' = migrationFaults /\ swallowed' = swallowed
  BY Zenon DEF RunMigrations
<1>2. /\ OthersStay(m) /\ mpc'[m] = "check" /\ todo'[m] = Versions /\ work'[m] = {}
      /\ mpc' \in [Migrators -> {"idle", "done", "failed"} \cup Running]
      /\ todo' \in [Migrators -> SUBSET Versions]
      /\ work' \in [Migrators -> SUBSET {"tables", "row"}]
  <2>1. "check" \in {"idle", "done", "failed"} \cup Running /\ Versions \subseteq Versions
    BY Zenon DEF Running
  <2>2. MigrationTypeOK
    BY Zenon DEF MigrationInv
  <2>3. QED
    BY <1>1, <2>1, <2>2, EnterStays, Zenon
<1>3. overlapped' \in BOOLEAN /\ (overlapped => overlapped')
  BY <1>1, Zenon DEF MigrationInv, MigrationTypeOK
<1>4. MigrationTypeOK'
  BY <1>1, <1>2, <1>3, Zenon DEF MigrationInv, MigrationTypeOK
<1>5. RecordMatchesSchema' /\ AppliedWithoutGap'
  BY <1>1, <1>3, Zenon DEF MigrationInv, RecordMatchesSchema, AppliedWithoutGap
<1>6. \A n \in Migrators : n # m => mpc'[n] = mpc[n] /\ todo'[n] = todo[n] /\ (Migrating(n)' <=> Migrating(n))
  BY <1>2, Zenon DEF OthersStay, Migrating
<1>7. UpgradePosition'
  <2>1. ASSUME NEW n \in Ups, n # m, Migrating(n)'
        PROVE \E k \in 1..(LastVersion + 1) :
                /\ todo'[n] = k..LastVersion
                /\ mpc'[n] # "check" => k <= LastVersion
                /\ overlapped' \/ 1..(k - 1) \subseteq applied'
    <3>1. n \in Migrators /\ Migrating(n)
      BY <1>6, <2>1, Zenon DEF Migrators
    <3>2. PICK k \in 1..(LastVersion + 1) :
                /\ todo[n] = k..LastVersion
                /\ mpc[n] # "check" => k <= LastVersion
                /\ overlapped \/ 1..(k - 1) \subseteq applied
      BY <3>1, Zenon DEF MigrationInv, UpgradePosition
    <3>3. QED
      BY <1>1, <1>3, <1>6, <2>1, <3>1, <3>2, Zenon
  <2>2. todo'[m] = 1..LastVersion /\ mpc'[m] = "check" /\ 1..(1 - 1) \subseteq applied'
    BY <1>2 DEF Versions
  <2>3. 1 \in 1..(LastVersion + 1)
    OBVIOUS
  <2>4. QED
    BY <2>1, <2>2, <2>3, Zenon DEF UpgradePosition
<1>8. RollbackPosition'
  <2>1. ASSUME NEW n \in Downs
        PROVE  n \in Migrators /\ n # m
    BY <1>1, Zenon DEF Migrators
  <2>2. QED
    BY <1>1, <1>3, <1>6, <2>1, Zenon DEF MigrationInv, RollbackPosition
<1>9. OverlapIsSeen'
  <2>1. ASSUME NEW u \in Ups, NEW d \in Downs, Migrating(u)', Migrating(d)' PROVE overlapped'
    <3>1. d \in Migrators /\ d # m /\ u \in Migrators /\ d \notin Ups /\ m \notin Downs
      BY <1>1, Zenon DEF Migrators
    <3>2. Migrating(d)
      BY <1>6, <2>1, <3>1, Zenon
    <3>3. CASE u = m
      BY <1>1, <3>1, <3>2, Zenon DEF Overlaps, Migrating
    <3>4. CASE u # m
      BY <1>3, <1>6, <2>1, <3>1, <3>2, <3>4, Zenon DEF MigrationInv, OverlapIsSeen
    <3>5. QED
      BY <3>3, <3>4, Zenon
  <2>2. QED
    BY <2>1, Zenon DEF OverlapIsSeen
<1>10. TableIsThere'
  BY <1>1, Zenon DEF TableIsThere
<1>11. TransactionInv'
  BY <1>1, <1>2, <1>3, OutsideKeepsTransactions, Zenon DEF MigrationInv, Inside
<1>12. QED
  BY <1>4, <1>5, <1>7, <1>8, <1>9, <1>10, <1>11, Zenon DEF MigrationInv

\* RollbackMigrations: all that is applied is before the rollback.
LEMMA RollbackMigrationsKeepsInv ==
  ASSUME MigrationInv, NEW m \in Migrators, RollbackMigrations(m)
  PROVE  MigrationInv'
<1> USE MigrationAssumption
<1>1. /\ m \in Downs /\ m \notin Ups /\ mpc[m] = "idle"
      /\ Enter(m, IF hasTable THEN "exec" ELSE "done", applied)
      /\ overlapped' = (overlapped \/ Overlaps(m))
      /\ hasTable' = hasTable /\ applied' = applied /\ objects' = objects
      /\ migrationFaults' = migrationFaults /\ swallowed' = swallowed
  BY Zenon DEF RollbackMigrations, schema
<1>2. /\ OthersStay(m) /\ mpc'[m] \in {"exec", "done"} /\ todo'[m] = applied /\ work'[m] = {}
      /\ mpc' \in [Migrators -> {"idle", "done", "failed"} \cup Running]
      /\ todo' \in [Migrators -> SUBSET Versions]
      /\ work' \in [Migrators -> SUBSET {"tables", "row"}]
  <2>1. (IF hasTable THEN "exec" ELSE "done") \in {"idle", "done", "failed"} \cup Running
    BY Zenon DEF Running
  <2>2. MigrationTypeOK /\ applied \subseteq Versions
    BY Zenon DEF MigrationInv, MigrationTypeOK
  <2>3. QED
    BY <1>1, <2>1, <2>2, EnterStays, Zenon
<1>3. overlapped' \in BOOLEAN /\ (overlapped => overlapped')
  BY <1>1, Zenon DEF MigrationInv, MigrationTypeOK
<1>4. MigrationTypeOK'
  BY <1>1, <1>2, <1>3, Zenon DEF MigrationInv, MigrationTypeOK
<1>5. RecordMatchesSchema' /\ AppliedWithoutGap'
  BY <1>1, <1>3, Zenon DEF MigrationInv, RecordMatchesSchema, AppliedWithoutGap
<1>6. \A n \in Migrators : n # m => mpc'[n] = mpc[n] /\ todo'[n] = todo[n] /\ (Migrating(n)' <=> Migrating(n))
  BY <1>2, Zenon DEF OthersStay, Migrating
<1>7. UpgradePosition'
  <2>1. ASSUME NEW n \in Ups PROVE n \in Migrators /\ n # m
    BY <1>1, Zenon DEF Migrators
  <2>2. QED
    BY <1>1, <1>3, <1>6, <2>1, Zenon DEF MigrationInv, UpgradePosition
<1>8. RollbackPosition'
  <2>1. ASSUME NEW n \in Downs, n # m
        PROVE  /\ mpc'[n] \notin {"check", "index"} /\ (mpc'[n] \in {"record", "tx"} => todo'[n] # {})
               /\ Migrating(n)' => overlapped' \/ \E k \in 0..LastVersion : todo'[n] = 1..k /\ applied' \subseteq 1..k
    <3>1. n \in Migrators
      BY Zenon DEF Migrators
    <3>2. QED
      BY <1>1, <1>3, <1>6, <2>1, <3>1, Zenon DEF MigrationInv, RollbackPosition
  <2>2. overlapped \/ \E k \in 0..LastVersion : todo'[m] = 1..k /\ applied' \subseteq 1..k
    BY <1>1, <1>2, Zenon DEF MigrationInv, AppliedWithoutGap
  <2>3. QED
    BY <1>2, <1>3, <2>1, <2>2, Zenon DEF RollbackPosition
<1>9. OverlapIsSeen'
  <2>1. ASSUME NEW u \in Ups, NEW d \in Downs, Migrating(u)', Migrating(d)' PROVE overlapped'
    <3>1. u \in Migrators /\ u # m /\ d \in Migrators
      BY <1>1, Zenon DEF Migrators
    <3>2. Migrating(u)
      BY <1>6, <2>1, <3>1, Zenon
    <3>3. CASE d = m
      BY <1>1, <3>1, <3>2, Zenon DEF Overlaps, Migrating
    <3>4. CASE d # m
      BY <1>3, <1>6, <2>1, <3>1, <3>2, <3>4, Zenon DEF MigrationInv, OverlapIsSeen
    <3>5. QED
      BY <3>3, <3>4, Zenon
  <2>2. QED
    BY <2>1, Zenon DEF OverlapIsSeen
<1>10. TableIsThere'
  <2>1. ASSUME NEW n \in Ups PROVE n \in Migrators /\ n # m
    BY <1>1, Zenon DEF Migrators
  <2>2. QED
    BY <1>1, <1>6, <2>1, Zenon DEF MigrationInv, TableIsThere
<1>11. TransactionInv'
  BY <1>1, <1>2, <1>3, OutsideKeepsTransactions, Zenon DEF MigrationInv, Inside
<1>12. QED
  BY <1>4, <1>5, <1>7, <1>8, <1>9, <1>10, <1>11, Zenon DEF MigrationInv

\* The statements of a transaction before its COMMIT.
Statement(m) ==
  \/ TablesFound(m) \/ CreateTables(m) \/ CreateIndexes(m) \/ DropTables(m)
  \/ InsertRow(m) \/ DeleteRow(m)

\* A statement that succeeds changes m alone, and nothing that is committed.
LEMMA ProceedStays ==
  ASSUME MigrationTypeOK, NEW m \in Migrators, NEW pc \in Inside, NEW w \in SUBSET {"tables", "row"},
         Proceed(m, pc, w)
  PROVE  /\ OthersStay(m) /\ mpc'[m] = pc /\ work'[m] = w
         /\ todo' = todo /\ Current(m)' = Current(m)
         /\ mpc' \in [Migrators -> {"idle", "done", "failed"} \cup Running]
         /\ work' \in [Migrators -> SUBSET {"tables", "row"}]
         /\ migrationFaults' = migrationFaults /\ overlapped' = overlapped /\ swallowed' = swallowed
<1>1. /\ mpc' = [mpc EXCEPT ![m] = pc] /\ work' = [work EXCEPT ![m] = w] /\ todo' = todo
      /\ migrationFaults' = migrationFaults /\ overlapped' = overlapped /\ swallowed' = swallowed
  BY Zenon DEF Proceed, observed
<1>2. /\ mpc \in [Migrators -> {"idle", "done", "failed"} \cup Running]
      /\ work \in [Migrators -> SUBSET {"tables", "row"}]
  BY Zenon DEF MigrationTypeOK
<1>3. mpc'[m] = pc /\ work'[m] = w /\ OthersStay(m)
  BY <1>1, <1>2, Zenon DEF OthersStay
<1>4. mpc' \in [Migrators -> {"idle", "done", "failed"} \cup Running]
  <2>1. pc \in {"idle", "done", "failed"} \cup Running
    BY Zenon DEF Inside, Running
  <2>2. QED
    BY <1>1, <1>2, <2>1, Zenon
<1>5. work' \in [Migrators -> SUBSET {"tables", "row"}]
  BY <1>1, <1>2, Zenon
<1>6. Current(m)' = Current(m)
  BY <1>1, CurrentStays, Zenon
<1>7. QED
  BY <1>1, <1>3, <1>4, <1>5, <1>6, Zenon

\* A process that is about to execute or to record a version has one.
LEMMA VersionAtHand ==
  ASSUME MigrationInv, NEW m \in Migrators, mpc[m] \in Inside
  PROVE  todo[m] # {}
<1> USE MigrationAssumption
<1>1. Migrating(m) /\ mpc[m] # "check"
  BY Zenon DEF Migrating, Running, Inside
<1>2. CASE m \in Ups
  <2>1. PICK k \in 1..(LastVersion + 1) : todo[m] = k..LastVersion /\ k <= LastVersion
    BY <1>1, <1>2, Zenon DEF MigrationInv, UpgradePosition
  <2>2. QED
    BY <2>1
<1>3. CASE m \in Downs
  BY <1>3, Zenon DEF MigrationInv, RollbackPosition, Inside
<1>4. QED
  BY <1>2, <1>3, Zenon DEF Migrators

\* What each statement does, in terms of the place and the changes it leaves.
LEMMA StatementShape ==
  ASSUME MigrationInv, NEW m \in Migrators, Statement(m)
  PROVE  /\ OthersStay(m) /\ todo' = todo /\ todo[m] # {} /\ Current(m)' = Current(m)
         /\ Migrating(m) /\ mpc[m] # "check"
         /\ mpc'[m] \in Inside /\ (m \in Downs => mpc'[m] # "index")
         /\ mpc' \in [Migrators -> {"idle", "done", "failed"} \cup Running]
         /\ work' \in [Migrators -> SUBSET {"tables", "row"}]
         /\ hasTable' = hasTable /\ applied' = applied /\ objects' = objects
         /\ migrationFaults' = migrationFaults /\ overlapped' = overlapped /\ swallowed' = swallowed
<1>1. MigrationTypeOK /\ work[m] \in SUBSET {"tables", "row"}
  BY Zenon DEF MigrationInv, MigrationTypeOK
<1>2. m \in Downs => m \notin Ups /\ mpc[m] # "index"
  BY MigrationAssumption, Zenon DEF MigrationInv, RollbackPosition
<1>3. hasTable' = hasTable /\ applied' = applied /\ objects' = objects
  BY Zenon DEF Statement, TablesFound, CreateTables, CreateIndexes, DropTables, InsertRow, DeleteRow, schema
<1>4. mpc[m] \in {"exec", "index", "record"} /\ todo[m] # {}
  BY VersionAtHand, Zenon DEF Statement, TablesFound, CreateTables, CreateIndexes, DropTables, InsertRow, DeleteRow, Inside
<1>5. \E pc \in Inside, w \in SUBSET {"tables", "row"} :
        Proceed(m, pc, w) /\ (m \in Downs => pc # "index")
  <2>1. AfterCreate(m) \in Inside
    BY Zenon DEF AfterCreate, Inside
  <2>2. CASE TablesFound(m) \/ CreateTables(m)
    BY <1>2, <2>1, <2>2, Zenon DEF TablesFound, CreateTables
  <2>3. CASE CreateIndexes(m)
    BY <1>1, <2>3, Zenon DEF CreateIndexes, Inside
  <2>4. CASE DropTables(m)
    BY <2>4, Zenon DEF DropTables, Inside
  <2>5. CASE InsertRow(m)
    BY <1>1, <2>5, Zenon DEF InsertRow, Inside
  <2>6. CASE DeleteRow(m)
    BY <1>1, <2>6, Zenon DEF DeleteRow, Inside
  <2>7. QED
    BY <2>2, <2>3, <2>4, <2>5, <2>6, Zenon DEF Statement
<1>6. PICK pc \in Inside, w \in SUBSET {"tables", "row"} :
        Proceed(m, pc, w) /\ (m \in Downs => pc # "index")
  BY <1>5, Zenon
<1>7. QED
  BY <1>1, <1>3, <1>4, <1>6, ProceedStays, Zenon DEF Migrating, Running

\* A statement of m leaves the transactions as they must be if it does so for m.
LEMMA StatementFrame ==
  ASSUME TransactionInv, NEW m \in Migrators, OthersStay(m),
         Current(m)' = Current(m), mpc'[m] \in Inside,
         applied' = applied, objects' = objects, overlapped' = overlapped,
         Alters(m)' => \A n \in Migrators : n # m /\ Alters(n) => Current(n) # Current(m),
         m \in Ups =>
           /\ mpc'[m] = "tx" => "row" \in work'[m]
           /\ Alters(m)' => Current(m) \notin objects
           /\ Held(m)' => /\ Alters(m)' \/ Current(m) \in objects
                          /\ \A d \in Downs : Alters(d) => Current(m) # Current(d)
           /\ overlapped \/ Alters(m)' \/ Current(m) \in objects,
         m \in Downs =>
           /\ Alters(m)' => /\ Current(m) \in objects
                            /\ \A u \in Ups : Held(u) => Current(u) # Current(m)
           /\ mpc'[m] = "tx" => \/ "row" \in work'[m]
                                 \/ Current(m) \notin applied
           /\ overlapped \/ Alters(m)' \/ Current(m) \notin objects
  PROVE  TransactionInv'
<1>1. \A n \in Migrators : n # m =>
        /\ mpc'[n] = mpc[n] /\ work'[n] = work[n] /\ Current(n)' = Current(n)
        /\ Alters(n)' <=> Alters(n)
        /\ Held(n)' <=> Held(n)
  BY OthersKeepWork, Zenon
<1>2. \A u \in Ups, d \in Downs : u \in Migrators /\ d \in Migrators /\ u # d
  BY MigrationAssumption, Zenon DEF Migrators
<1>3. WorkInside'
  BY <1>1, Zenon DEF TransactionInv, WorkInside, Migrators
<1>4. TableLocks'
  <2>1. \A u \in Ups : Alters(u)' => Current(u)' \notin objects'
    BY <1>1, Zenon DEF TransactionInv, TableLocks, Migrators
  <2>2. \A d \in Downs : Alters(d)' => Current(d)' \in objects'
    BY <1>1, Zenon DEF TransactionInv, TableLocks, Migrators
  <2>3. \A l, n \in Migrators : Alters(l)' /\ Alters(n)' /\ Current(l)' = Current(n)' => l = n
    BY <1>1, Zenon DEF TransactionInv, TableLocks
  <2>4. ASSUME NEW u \in Ups, NEW d \in Downs, Held(u)', Alters(d)' PROVE Current(u)' # Current(d)'
    <3>1. u \in Migrators /\ d \in Migrators /\ u # d
      BY <1>2, Zenon
    <3>2. CASE u = m
      BY <1>1, <2>4, <3>1, <3>2, Zenon
    <3>3. CASE d = m
      BY <1>1, <2>4, <3>1, <3>3, Zenon
    <3>4. CASE u # m /\ d # m
      BY <1>1, <2>4, <3>1, <3>4, Zenon DEF TransactionInv, TableLocks
    <3>5. QED
      BY <3>2, <3>3, <3>4, Zenon
  <2>5. \A u \in Ups : Held(u)' => Alters(u)' \/ Current(u)' \in objects'
    BY <1>1, Zenon DEF TransactionInv, TableLocks, Migrators
  <2>6. \A d \in Downs : Alters(d)' /\ mpc'[d] = "tx" /\ Current(d)' \in Indexed =>
          "row" \in work'[d] \/ Current(d)' \notin applied'
    BY <1>1, Zenon DEF TransactionInv, TableLocks, Migrators
  <2>7. QED
    BY <2>1, <2>2, <2>3, <2>4, <2>5, <2>6, Zenon DEF TableLocks
<1>5. StatementsSeen'
  BY <1>1, Zenon DEF TransactionInv, StatementsSeen, Migrators
<1>6. QED
  BY <1>3, <1>4, <1>5, Zenon DEF TransactionInv

\* Every statement leaves the transactions as they must be.
LEMMA StatementKeepsTransactions ==
  ASSUME MigrationInv, NEW m \in Migrators, Statement(m)
  PROVE  TransactionInv'
<1>1. /\ OthersStay(m) /\ Current(m)' = Current(m) /\ mpc'[m] \in Inside
      /\ applied' = applied /\ objects' = objects /\ overlapped' = overlapped
      /\ TransactionInv /\ MigrationTypeOK
  BY StatementShape, Zenon DEF MigrationInv
<1>2. /\ mpc \in [Migrators -> {"idle", "done", "failed"} \cup Running]
      /\ work \in [Migrators -> SUBSET {"tables", "row"}]
      /\ m \in Downs => m \notin Ups /\ mpc[m] # "index"
      /\ m \in Ups => m \notin Downs
  BY <1>1, MigrationAssumption, Zenon DEF MigrationTypeOK, MigrationInv, RollbackPosition
<1>3. ASSUME NEW pc, NEW w, Proceed(m, pc, w)
      PROVE  mpc'[m] = pc /\ work'[m] = w
  BY <1>2, <1>3, Zenon DEF Proceed
<1>4. CASE TablesFound(m)
  <2>1. m \in Ups /\ Current(m) \in objects /\ mpc'[m] = AfterCreate(m) /\ work'[m] = {}
    BY <1>3, <1>4, Zenon DEF TablesFound
  <2>2. ~Alters(m)' /\ ~Held(m)' /\ mpc'[m] # "tx"
    BY <1>1, <2>1, Zenon DEF Alters, Held, AfterCreate
  <2>3. QED
    BY <1>1, <1>2, <2>1, <2>2, StatementFrame, Zenon
<1>5. CASE CreateTables(m)
  <2>1. /\ m \in Ups /\ Current(m) \notin objects /\ mpc'[m] = AfterCreate(m) /\ work'[m] = {"tables"}
        /\ ~Changed(m, Current(m))
    BY <1>3, <1>5, Zenon DEF CreateTables
  <2>2. Alters(m)' /\ ~Held(m)' /\ mpc'[m] # "tx"
    BY <1>1, <2>1, Zenon DEF Alters, Held, AfterCreate
  <2>3. \A n \in Migrators : n # m /\ Alters(n) => Current(n) # Current(m)
    BY <2>1, Zenon DEF Changed, Changes, Alters
  <2>4. QED
    BY <1>1, <1>2, <2>1, <2>2, <2>3, StatementFrame, Zenon
<1>6. CASE CreateIndexes(m)
  <2>1. /\ m \in Ups /\ mpc[m] = "index" /\ mpc'[m] = "record" /\ work'[m] = work[m]
        /\ Alters(m) \/ (Current(m) \in objects /\ ~Changed(m, Current(m)))
    BY <1>2, <1>3, <1>6, Zenon DEF CreateIndexes, Alters, Migrators
  <2>2. (Alters(m)' <=> Alters(m)) /\ mpc'[m] # "tx"
    BY <2>1, Zenon DEF Alters
  <2>3. \A d \in Downs : Alters(d) => Current(m) # Current(d)
    <3>1. CASE Alters(m)
      BY <1>1, <2>1, <3>1, Zenon DEF TransactionInv, TableLocks
    <3>2. CASE ~Changed(m, Current(m))
      BY <1>2, <2>1, <3>2, Zenon DEF Changed, Changes, Alters, Migrators
    <3>3. QED
      BY <2>1, <3>1, <3>2, Zenon
  <2>4. Alters(m) => /\ Current(m) \notin objects
                     /\ \A n \in Migrators : n # m /\ Alters(n) => Current(n) # Current(m)
    BY <1>1, <2>1, Zenon DEF TransactionInv, TableLocks
  <2>5. QED
    BY <1>1, <1>2, <2>1, <2>2, <2>3, <2>4, StatementFrame, Zenon
<1>7. CASE DropTables(m)
  <2>1. /\ m \in Downs /\ mpc'[m] = "record"
        /\ Current(m) \in objects => ~Changed(m, Current(m)) /\ ~Shared(m, Current(m))
        /\ work'[m] = IF Current(m) \in objects THEN {"tables"} ELSE {}
    BY <1>3, <1>7, Zenon DEF DropTables
  <2>2. (Alters(m)' <=> Current(m) \in objects) /\ mpc'[m] # "tx"
    BY <2>1, Zenon DEF Alters
  <2>3. Alters(m)' => \A n \in Migrators : n # m /\ Alters(n) => Current(n) # Current(m)
    BY <2>1, <2>2, Zenon DEF Changed, Changes, Alters
  <2>4. Alters(m)' => \A u \in Ups : Held(u) => Current(u) # Current(m)
    BY <1>2, <2>1, <2>2, Zenon DEF Shared, Shares, Held, Migrators
  <2>5. QED
    BY <1>1, <1>2, <2>1, <2>2, <2>3, <2>4, StatementFrame, Zenon
<1>8. CASE InsertRow(m)
  <2>1. m \in Ups /\ mpc[m] = "record" /\ mpc'[m] = "tx" /\ work'[m] = work[m] \cup {"row"}
    BY <1>3, <1>8, Zenon DEF InsertRow
  <2>2. (Alters(m)' <=> Alters(m)) /\ (Held(m)' <=> Held(m)) /\ "row" \in work'[m]
    BY <1>1, <2>1, Zenon DEF Alters, Held
  <2>3. /\ Alters(m) => /\ Current(m) \notin objects
                        /\ \A n \in Migrators : n # m /\ Alters(n) => Current(n) # Current(m)
        /\ Held(m) => /\ Alters(m) \/ Current(m) \in objects
                      /\ \A d \in Downs : Alters(d) => Current(m) # Current(d)
        /\ overlapped \/ Alters(m) \/ Current(m) \in objects
    BY <1>1, <2>1, Zenon DEF TransactionInv, TableLocks, StatementsSeen, Inside
  <2>4. QED
    BY <1>1, <1>2, <2>1, <2>2, <2>3, StatementFrame, Zenon
<1>9. CASE DeleteRow(m)
  <2>1. /\ m \in Downs /\ mpc[m] = "record" /\ mpc'[m] = "tx"
        /\ work'[m] = work[m] \cup (IF Current(m) \in applied THEN {"row"} ELSE {})
    BY <1>3, <1>9, Zenon DEF DeleteRow
  <2>2. (Alters(m)' <=> Alters(m)) /\ ("row" \in work'[m] \/ Current(m) \notin applied)
    BY <1>1, <2>1, Zenon DEF Alters
  <2>3. /\ Alters(m) => /\ Current(m) \in objects
                        /\ \A n \in Migrators : n # m /\ Alters(n) => Current(n) # Current(m)
                        /\ \A u \in Ups : Held(u) => Current(u) # Current(m)
        /\ overlapped \/ Alters(m) \/ Current(m) \notin objects
    BY <1>1, <2>1, Zenon DEF TransactionInv, TableLocks, StatementsSeen, Inside
  <2>4. QED
    BY <1>1, <1>2, <2>1, <2>2, <2>3, StatementFrame, Zenon
<1>10. QED
  BY <1>4, <1>5, <1>6, <1>7, <1>8, <1>9, Zenon DEF Statement

\* A step inside the run of m, between its begin and its end, that changes no table:
\* a version that is applied is passed over, a missing one found, a statement executed.
LEMMA InnerStepKeepsInv ==
  ASSUME MigrationInv, NEW m \in Migrators, SkipVersion(m) \/ FindMissing(m) \/ Statement(m)
  PROVE  MigrationInv'
<1> USE MigrationAssumption
<1>1. /\ hasTable' = hasTable /\ applied' = applied /\ objects' = objects
      /\ migrationFaults' = migrationFaults /\ overlapped' = overlapped /\ swallowed' = swallowed
  BY StatementShape, Zenon DEF SkipVersion, FindMissing, schema, observed
<1>2. Migrating(m) /\ todo[m] # {}
  BY StatementShape, Zenon DEF SkipVersion, FindMissing, Migrating, Running
<1>3. \/ /\ mpc[m] = "check" /\ mpc' = mpc /\ Current(m) \in applied /\ work' = work
         /\ todo' = [todo EXCEPT ![m] = @ \ {Current(m)}]
      \/ mpc[m] = "check" /\ mpc' = [mpc EXCEPT ![m] = "exec"] /\ todo' = todo /\ work' = work
      \/ mpc[m] # "check" /\ todo' = todo /\ Statement(m)
  BY StatementShape, Zenon DEF SkipVersion, FindMissing, AlreadyApplied
<1>4. /\ mpc \in [Migrators -> {"idle", "done", "failed"} \cup Running]
      /\ todo \in [Migrators -> SUBSET Versions]
      /\ work \in [Migrators -> SUBSET {"tables", "row"}]
  BY Zenon DEF MigrationInv, MigrationTypeOK
<1>5. mpc' \in [Migrators -> {"idle", "done", "failed"} \cup Running] /\ mpc'[m] \in Running
  BY <1>2, <1>3, <1>4, StatementShape, Zenon DEF Running, Migrating, Inside
<1>6. /\ todo' \in [Migrators -> SUBSET Versions]
      /\ work' \in [Migrators -> SUBSET {"tables", "row"}]
  BY <1>3, <1>4, StatementShape, Zenon
<1>7. OthersStay(m)
  <2>1. CASE Statement(m)
    BY <2>1, StatementShape, Zenon
  <2>2. CASE ~Statement(m)
    BY <1>3, <1>4, <2>2, Zenon DEF OthersStay
  <2>3. QED
    BY <2>1, <2>2, Zenon
<1>8. MigrationTypeOK' /\ RecordMatchesSchema' /\ AppliedWithoutGap'
  BY <1>1, <1>5, <1>6, Zenon DEF MigrationInv, MigrationTypeOK, RecordMatchesSchema, AppliedWithoutGap
<1>9. \A n \in Migrators : Migrating(n)' <=> Migrating(n)
  BY <1>2, <1>5, <1>7, Zenon DEF Migrating, OthersStay
<1>10. OverlapIsSeen' /\ TableIsThere'
  BY <1>1, <1>9, Zenon DEF MigrationInv, OverlapIsSeen, TableIsThere, Migrators
<1>11. UpgradePosition'
  <2>1. ASSUME NEW n \in Ups, Migrating(n)'
        PROVE \E k \in 1..(LastVersion + 1) :
                /\ todo'[n] = k..LastVersion
                /\ mpc'[n] # "check" => k <= LastVersion
                /\ overlapped' \/ 1..(k - 1) \subseteq applied'
    <3>1. n \in Migrators /\ Migrating(n)
      BY <1>9, <2>1, Zenon DEF Migrators
    <3>2. PICK k \in 1..(LastVersion + 1) :
                /\ todo[n] = k..LastVersion
                /\ mpc[n] # "check" => k <= LastVersion
                /\ overlapped \/ 1..(k - 1) \subseteq applied
      BY <3>1, Zenon DEF MigrationInv, UpgradePosition
    <3>3. CASE n # m
      BY <1>1, <1>7, <3>1, <3>2, <3>3, Zenon DEF OthersStay
    <3>4. CASE n = m
      <4>1. k \in 1..LastVersion
        BY <1>2, <3>2, <3>4
      <4>2. Current(m) = k /\ todo[m] \ {Current(m)} = (k + 1)..LastVersion
        BY <2>1, <3>2, <3>4, <4>1, UpgradeCurrent, Zenon
      <4>3. CASE mpc' = mpc /\ mpc[m] = "check" /\ k \in applied /\ todo'[m] = (k + 1)..LastVersion
        <5>1. k + 1 \in 1..(LastVersion + 1) /\ (overlapped' \/ 1..((k + 1) - 1) \subseteq applied')
          BY <1>1, <3>2, <4>1, <4>3
        <5>2. QED
          BY <3>4, <4>3, <5>1, Zenon
      <4>4. CASE todo' = todo
        BY <1>1, <3>2, <3>4, <4>1, <4>4
      <4>5. QED
        BY <1>3, <1>4, <4>2, <4>3, <4>4, Zenon
    <3>5. QED
      BY <3>3, <3>4, Zenon
  <2>2. QED
    BY <2>1, Zenon DEF UpgradePosition
<1>12. RollbackPosition'
  <2>1. ASSUME NEW n \in Downs
        PROVE  /\ mpc'[n] \notin {"check", "index"} /\ (mpc'[n] \in {"record", "tx"} => todo'[n] # {})
               /\ Migrating(n)' => overlapped' \/ \E k \in 0..LastVersion : todo'[n] = 1..k /\ applied' \subseteq 1..k
    <3>1. /\ n \in Migrators /\ mpc[n] \notin {"check", "index"} /\ (mpc[n] \in {"record", "tx"} => todo[n] # {})
          /\ Migrating(n) => overlapped \/ \E k \in 0..LastVersion : todo[n] = 1..k /\ applied \subseteq 1..k
      BY Zenon DEF MigrationInv, RollbackPosition, Migrators
    <3>2. CASE n # m
      BY <1>1, <1>7, <1>9, <3>1, <3>2, Zenon DEF OthersStay
    <3>3. CASE n = m
      <4>1. Statement(m) /\ todo' = todo
        BY <1>3, <3>1, <3>3, Zenon
      <4>2. mpc'[m] \notin {"check", "index"} /\ todo'[m] = todo[m] /\ Migrating(m)
        BY <1>2, <3>3, <4>1, StatementShape, Zenon DEF Inside
      <4>3. QED
        BY <1>1, <1>2, <3>1, <3>3, <4>2, Zenon
    <3>4. QED
      BY <3>2, <3>3, Zenon
  <2>2. QED
    BY <2>1, Zenon DEF RollbackPosition
<1>13. TransactionInv'
  <2>1. CASE Statement(m)
    BY <2>1, StatementKeepsTransactions, Zenon
  <2>2. CASE ~Statement(m)
    <3>1. mpc[m] = "check" /\ work' = work /\ mpc'[m] \in {"check", "exec"}
      BY <1>3, <1>4, <2>2, Zenon
    <3>2. work'[m] = {} /\ mpc'[m] \notin Inside /\ TransactionInv
      BY <3>1, Zenon DEF MigrationInv, TransactionInv, WorkInside, Inside
    <3>3. QED
      BY <1>1, <1>7, <3>2, OutsideKeepsTransactions, Zenon
  <2>3. QED
    BY <2>1, <2>2, Zenon
<1>14. QED
  BY <1>8, <1>10, <1>11, <1>12, <1>13, Zenon DEF MigrationInv

\* The commit of an upgrade: no other transaction has relied on the tables or the row
\* not being there.
LEMMA UpgradeCommitKeepsTransactions ==
  ASSUME MigrationInv, NEW m \in Ups, mpc[m] = "tx", OthersStay(m),
         mpc'[m] \notin Inside, work'[m] = {}, overlapped' = overlapped,
         applied' = applied \cup {Current(m)},
         objects' = IF Alters(m) THEN objects \cup {Current(m)} ELSE objects
  PROVE  TransactionInv'
<1>1. m \in Migrators /\ TransactionInv
  BY Zenon DEF Migrators, MigrationInv
<1>2. \A n \in Migrators : n # m =>
        /\ mpc'[n] = mpc[n] /\ work'[n] = work[n] /\ Current(n)' = Current(n)
        /\ Alters(n)' <=> Alters(n)
        /\ Held(n)' <=> Held(n)
  BY <1>1, OthersKeepWork, Zenon
<1>3. ~Alters(m)' /\ ~Held(m)' /\ mpc'[m] # "tx"
  BY Zenon DEF Alters, Held, Inside
<1>4. Held(m) <=> Current(m) \in Indexed
  BY Zenon DEF Held
<1>5. \A d \in Downs : d \in Migrators /\ d # m
  BY MigrationAssumption, Zenon DEF Migrators
<1>6. WorkInside'
  BY <1>1, <1>2, <1>3, Zenon DEF TransactionInv, WorkInside, Migrators
<1>7. TableLocks'
  <2>1. \A u \in Ups : Alters(u)' => Current(u)' \notin objects'
    BY <1>1, <1>2, <1>3, Zenon DEF TransactionInv, TableLocks, Migrators
  <2>2. \A d \in Downs : Alters(d)' => Current(d)' \in objects'
    BY <1>1, <1>2, <1>5, Zenon DEF TransactionInv, TableLocks
  <2>3. \A l, n \in Migrators : Alters(l)' /\ Alters(n)' /\ Current(l)' = Current(n)' => l = n
    BY <1>1, <1>2, <1>3, Zenon DEF TransactionInv, TableLocks
  <2>4. ASSUME NEW u \in Ups, NEW d \in Downs, Held(u)', Alters(d)' PROVE Current(u)' # Current(d)'
    <3>1. u \in Migrators /\ d \in Migrators /\ u # m /\ d # m
      BY <1>3, <2>4, Zenon DEF Migrators
    <3>2. QED
      BY <1>1, <1>2, <2>4, <3>1, Zenon DEF TransactionInv, TableLocks
  <2>5. \A u \in Ups : Held(u)' => Alters(u)' \/ Current(u)' \in objects'
    BY <1>1, <1>2, <1>3, Zenon DEF TransactionInv, TableLocks, Migrators
  <2>6. \A d \in Downs : Alters(d)' /\ mpc'[d] = "tx" /\ Current(d)' \in Indexed =>
          "row" \in work'[d] \/ Current(d)' \notin applied'
    <3>1. SUFFICES ASSUME NEW d \in Downs, Alters(d), mpc[d] = "tx", Current(d) \in Indexed
                   PROVE  "row" \in work[d] \/ Current(d) \notin applied \cup {Current(m)}
      BY <1>2, <1>5, Zenon
    <3>2. "row" \in work[d] \/ Current(d) \notin applied
      BY <1>1, <3>1, Zenon DEF TransactionInv, TableLocks
    <3>3. Current(d) # Current(m)
      BY <1>1, <1>4, <3>1, Zenon DEF TransactionInv, TableLocks
    <3>4. QED
      BY <3>2, <3>3, Zenon
  <2>7. QED
    BY <2>1, <2>2, <2>3, <2>4, <2>5, <2>6, Zenon DEF TableLocks
<1>8. StatementsSeen'
  <2>1. CASE overlapped
    BY <2>1, Zenon DEF StatementsSeen
  <2>2. CASE ~overlapped
    <3>1. \A d \in Downs : mpc'[d] \notin Inside /\ mpc'[d] # "tx"
      BY <1>2, <1>5, <2>2, Zenon DEF MigrationInv, OverlapIsSeen, Migrating, Running, Inside
    <3>2. \A u \in Ups : mpc'[u] \in Inside => Alters(u)' \/ Current(u)' \in objects'
      BY <1>1, <1>2, <2>2, Zenon DEF TransactionInv, StatementsSeen, Migrators
    <3>3. QED
      BY <3>1, <3>2, Zenon DEF StatementsSeen
  <2>3. QED
    BY <2>1, <2>2, Zenon
<1>9. QED
  BY <1>6, <1>7, <1>8, Zenon DEF TransactionInv

\* The commit of a rollback: no other transaction has relied on the tables being there.
LEMMA RollbackCommitKeepsTransactions ==
  ASSUME MigrationInv, NEW m \in Downs, mpc[m] = "tx", OthersStay(m),
         mpc'[m] \notin Inside, work'[m] = {}, overlapped' = overlapped,
         applied' \subseteq applied,
         objects' = IF Alters(m) THEN objects \ {Current(m)} ELSE objects
  PROVE  TransactionInv'
<1>1. m \in Migrators /\ TransactionInv
  BY Zenon DEF Migrators, MigrationInv
<1>2. \A n \in Migrators : n # m =>
        /\ mpc'[n] = mpc[n] /\ work'[n] = work[n] /\ Current(n)' = Current(n)
        /\ Alters(n)' <=> Alters(n)
        /\ Held(n)' <=> Held(n)
  BY <1>1, OthersKeepWork, Zenon
<1>3. ~Alters(m)' /\ ~Held(m)' /\ mpc'[m] # "tx"
  BY Zenon DEF Alters, Held, Inside
<1>4. \A u \in Ups : u \in Migrators /\ u # m
  BY MigrationAssumption, Zenon DEF Migrators
<1>5. WorkInside'
  BY <1>1, <1>2, <1>3, <1>4, Zenon DEF TransactionInv, WorkInside
<1>6. TableLocks'
  <2>1. \A u \in Ups : Alters(u)' => Current(u)' \notin objects'
    BY <1>1, <1>2, <1>4, Zenon DEF TransactionInv, TableLocks
  <2>2. \A d \in Downs : Alters(d)' => Current(d)' \in objects'
    BY <1>1, <1>2, <1>3, Zenon DEF TransactionInv, TableLocks, Migrators
  <2>3. \A l, n \in Migrators : Alters(l)' /\ Alters(n)' /\ Current(l)' = Current(n)' => l = n
    BY <1>1, <1>2, <1>3, Zenon DEF TransactionInv, TableLocks
  <2>4. ASSUME NEW u \in Ups, NEW d \in Downs, Held(u)', Alters(d)' PROVE Current(u)' # Current(d)'
    <3>1. u \in Migrators /\ d \in Migrators /\ u # m /\ d # m
      BY <1>3, <2>4, Zenon DEF Migrators
    <3>2. QED
      BY <1>1, <1>2, <2>4, <3>1, Zenon DEF TransactionInv, TableLocks
  <2>5. \A u \in Ups : Held(u)' => Alters(u)' \/ Current(u)' \in objects'
    BY <1>1, <1>2, <1>4, Zenon DEF TransactionInv, TableLocks
  <2>6. \A d \in Downs : Alters(d)' /\ mpc'[d] = "tx" /\ Current(d)' \in Indexed =>
          "row" \in work'[d] \/ Current(d)' \notin applied'
    BY <1>1, <1>2, <1>3, Zenon DEF TransactionInv, TableLocks, Migrators
  <2>7. QED
    BY <2>1, <2>2, <2>3, <2>4, <2>5, <2>6, Zenon DEF TableLocks
<1>7. StatementsSeen'
  <2>1. CASE overlapped
    BY <2>1, Zenon DEF StatementsSeen
  <2>2. CASE ~overlapped
    <3>1. \A u \in Ups : mpc'[u] \notin Inside
      BY <1>2, <1>4, <2>2, Zenon DEF MigrationInv, OverlapIsSeen, Migrating, Running, Inside
    <3>2. \A d \in Downs : mpc'[d] \in Inside => Alters(d)' \/ Current(d)' \notin objects'
      BY <1>1, <1>2, <2>2, Zenon DEF TransactionInv, StatementsSeen, Migrators
    <3>3. \A d \in Downs : mpc'[d] = "tx" => "row" \in work'[d] \/ Current(d)' \notin applied'
      BY <1>1, <1>2, <1>3, <2>2, Zenon DEF TransactionInv, StatementsSeen, Migrators
    <3>4. QED
      BY <3>1, <3>2, <3>3, Zenon DEF StatementsSeen
  <2>3. QED
    BY <2>1, <2>2, Zenon
<1>8. QED
  BY <1>5, <1>6, <1>7, Zenon DEF TransactionInv

\* The commit of an upgrade: the version after those it has passed is added.
LEMMA UpgradeCommitKeepsInv ==
  ASSUME MigrationInv, NEW m \in Ups, CommitVersion(m)
  PROVE  MigrationInv'
<1> USE MigrationAssumption
<1>1. m \in Migrators /\ mpc[m] = "tx" /\ Migrating(m)
  BY Zenon DEF CommitVersion, Migrators, Migrating, Running
<1>2. PICK k \in 1..LastVersion :
        todo[m] = k..LastVersion /\ (overlapped \/ 1..(k - 1) \subseteq applied)
  BY <1>1 DEF MigrationInv, UpgradePosition
<1>3. Current(m) = k /\ todo[m] \ {Current(m)} = (k + 1)..LastVersion
  BY <1>2, UpgradeCurrent, Zenon
<1>4. /\ applied' = applied \cup {k} /\ objects' = IF Alters(m) THEN objects \cup {k} ELSE objects
      /\ Enter(m, "check", (k + 1)..LastVersion)
      /\ hasTable' = hasTable /\ migrationFaults' = migrationFaults
      /\ overlapped' = overlapped /\ swallowed' = swallowed
  <2>1. "row" \in work[m]
    BY <1>1, Zenon DEF MigrationInv, TransactionInv, WorkInside
  <2>2. QED
    BY <1>3, <2>1, Zenon DEF CommitVersion, After, Alters, observed
<1>5. /\ OthersStay(m) /\ mpc'[m] = "check" /\ todo'[m] = (k + 1)..LastVersion /\ work'[m] = {}
      /\ mpc' \in [Migrators -> {"idle", "done", "failed"} \cup Running]
      /\ todo' \in [Migrators -> SUBSET Versions]
      /\ work' \in [Migrators -> SUBSET {"tables", "row"}]
  <2>1. "check" \in {"idle", "done", "failed"} \cup Running
    BY Zenon DEF Running
  <2>2. (k + 1)..LastVersion \subseteq Versions
    BY DEF Versions
  <2>3. MigrationTypeOK
    BY Zenon DEF MigrationInv
  <2>4. QED
    BY <1>1, <1>4, <2>1, <2>2, <2>3, EnterStays, Zenon
<1>6. MigrationTypeOK'
  <2>1. applied' \subseteq Versions /\ objects' \subseteq Versions
    BY <1>4, Zenon DEF MigrationInv, MigrationTypeOK, Versions
  <2>2. QED
    BY <1>4, <1>5, <2>1, Zenon DEF MigrationInv, MigrationTypeOK
<1>7. RecordMatchesSchema'
  <2>1. k \in Indexed => Alters(m) \/ k \in objects
    BY <1>1, <1>3, Zenon DEF MigrationInv, TransactionInv, TableLocks, Held
  <2>2. overlapped \/ Alters(m) \/ k \in objects
    BY <1>1, <1>3, Zenon DEF MigrationInv, TransactionInv, StatementsSeen, Inside
  <2>3. applied' \cap Indexed \subseteq objects'
    BY <1>4, <2>1, Zenon DEF MigrationInv, RecordMatchesSchema
  <2>4. overlapped' \/ applied' = objects'
    BY <1>4, <2>2, Zenon DEF MigrationInv, RecordMatchesSchema
  <2>5. QED
    BY <2>3, <2>4, Zenon DEF RecordMatchesSchema
<1>8. AppliedWithoutGap'
  <2>1. CASE overlapped
    BY <1>4, <2>1, Zenon DEF AppliedWithoutGap
  <2>2. CASE ~overlapped
    <3>1. PICK n \in 0..LastVersion : applied = 1..n
      BY <2>2, Zenon DEF MigrationInv, AppliedWithoutGap
    <3>2. k - 1 <= n
      <4>1. 1..(k - 1) \subseteq 1..n
        BY <1>2, <2>2, <3>1, Zenon
      <4>2. k = 1 \/ k - 1 \in 1..(k - 1)
        OBVIOUS
      <4>3. QED
        BY <4>1, <4>2
    <3>3. CASE k <= n
      BY <1>4, <3>1, <3>3 DEF AppliedWithoutGap
    <3>4. CASE k = n + 1
      BY <1>4, <3>1, <3>4 DEF AppliedWithoutGap
    <3>5. QED
      BY <3>2, <3>3, <3>4
  <2>3. QED
    BY <2>1, <2>2, Zenon
<1>9. \A n \in Migrators : Migrating(n)' <=> Migrating(n)
  BY <1>1, <1>5, Zenon DEF Migrating, OthersStay, Running
<1>10. OverlapIsSeen' /\ TableIsThere'
  BY <1>1, <1>4, <1>9, Zenon DEF MigrationInv, OverlapIsSeen, TableIsThere, Migrators
<1>11. UpgradePosition'
  <2>1. ASSUME NEW n \in Ups, Migrating(n)', n # m
        PROVE \E j \in 1..(LastVersion + 1) :
                /\ todo'[n] = j..LastVersion
                /\ mpc'[n] # "check" => j <= LastVersion
                /\ overlapped' \/ 1..(j - 1) \subseteq applied'
    <3>1. n \in Migrators /\ Migrating(n)
      BY <1>9, <2>1, Zenon DEF Migrators
    <3>2. QED
      BY <1>4, <1>5, <2>1, <3>1, Zenon DEF MigrationInv, UpgradePosition, OthersStay
  <2>2. /\ k + 1 \in 1..(LastVersion + 1) /\ mpc'[m] = "check"
        /\ overlapped' \/ 1..((k + 1) - 1) \subseteq applied'
    BY <1>2, <1>4, <1>5
  <2>3. QED
    BY <1>5, <2>1, <2>2, Zenon DEF UpgradePosition
<1>12. RollbackPosition'
  <2>1. ASSUME NEW n \in Downs
        PROVE  /\ mpc'[n] \notin {"check", "index"} /\ (mpc'[n] \in {"record", "tx"} => todo'[n] # {})
               /\ Migrating(n)' => overlapped'
    <3>1. n \in Migrators /\ n # m
      BY Zenon DEF Migrators
    <3>2. mpc'[n] \notin {"check", "index"} /\ (mpc'[n] \in {"record", "tx"} => todo'[n] # {})
      BY <1>5, <3>1, Zenon DEF MigrationInv, RollbackPosition, OthersStay
    <3>3. Migrating(n)' => overlapped'
      BY <1>1, <1>4, <1>9, <3>1, Zenon DEF MigrationInv, OverlapIsSeen
    <3>4. QED
      BY <3>2, <3>3, Zenon
  <2>2. QED
    BY <2>1, Zenon DEF RollbackPosition
<1>13. TransactionInv'
  <2>1. mpc'[m] \notin Inside
    BY <1>5, Zenon DEF Inside
  <2>2. QED
    BY <1>1, <1>3, <1>4, <1>5, <2>1, UpgradeCommitKeepsTransactions, Zenon
<1>14. QED
  BY <1>6, <1>7, <1>8, <1>10, <1>11, <1>12, <1>13, Zenon DEF MigrationInv

\* The commit of a rollback: the last version is removed, unless another rollback did.
LEMMA RollbackCommitKeepsInv ==
  ASSUME MigrationInv, NEW m \in Downs, CommitVersion(m)
  PROVE  MigrationInv'
<1> USE MigrationAssumption
<1>1. /\ m \in Migrators /\ m \notin Ups /\ mpc[m] = "tx" /\ Migrating(m) /\ todo[m] # {}
      /\ todo[m] \subseteq Versions
  BY Zenon DEF CommitVersion, Migrators, Migrating, Running, MigrationInv, RollbackPosition, MigrationTypeOK
<1>2. /\ applied' = IF "row" \in work[m] THEN applied \ {Current(m)} ELSE applied
      /\ objects' = IF Alters(m) THEN objects \ {Current(m)} ELSE objects
      /\ Enter(m, "exec", todo[m] \ {Current(m)})
      /\ hasTable' = hasTable /\ migrationFaults' = migrationFaults
      /\ overlapped' = overlapped /\ swallowed' = swallowed
  BY <1>1, Zenon DEF CommitVersion, After, Alters, observed
<1>2a. /\ applied' \subseteq applied /\ objects' \subseteq objects
       /\ ~overlapped => applied' = applied \ {Current(m)} /\ objects' = objects \ {Current(m)}
  <2>1. overlapped \/ "row" \in work[m] \/ Current(m) \notin applied
    BY <1>1, Zenon DEF MigrationInv, TransactionInv, StatementsSeen
  <2>2. overlapped \/ Alters(m) \/ Current(m) \notin objects
    BY <1>1, Zenon DEF MigrationInv, TransactionInv, StatementsSeen, Inside
  <2>3. QED
    BY <1>2, <2>1, <2>2, Zenon
<1>3. /\ OthersStay(m) /\ mpc'[m] = "exec" /\ todo'[m] = todo[m] \ {Current(m)} /\ work'[m] = {}
      /\ mpc' \in [Migrators -> {"idle", "done", "failed"} \cup Running]
      /\ todo' \in [Migrators -> SUBSET Versions]
      /\ work' \in [Migrators -> SUBSET {"tables", "row"}]
  <2>1. "exec" \in {"idle", "done", "failed"} \cup Running
    BY Zenon DEF Running
  <2>2. todo[m] \ {Current(m)} \subseteq Versions
    BY <1>1, Zenon
  <2>3. MigrationTypeOK
    BY Zenon DEF MigrationInv
  <2>4. QED
    BY <1>1, <1>2, <2>1, <2>2, <2>3, EnterStays, Zenon
<1>4. MigrationTypeOK'
  BY <1>2, <1>2a, <1>3, Zenon DEF MigrationInv, MigrationTypeOK
<1>5. RecordMatchesSchema'
  <2>1. Alters(m) /\ Current(m) \in Indexed => Current(m) \notin applied'
    BY <1>1, <1>2, Zenon DEF MigrationInv, TransactionInv, TableLocks
  <2>2. applied' \cap Indexed \subseteq objects'
    BY <1>2, <1>2a, <2>1, Zenon DEF MigrationInv, RecordMatchesSchema
  <2>3. overlapped' \/ applied' = objects'
    BY <1>2, <1>2a, Zenon DEF MigrationInv, RecordMatchesSchema
  <2>4. QED
    BY <2>2, <2>3, Zenon DEF RecordMatchesSchema
<1>6. \A n \in Migrators : Migrating(n)' <=> Migrating(n)
  BY <1>1, <1>3, Zenon DEF Migrating, OthersStay, Running
<1>7. OverlapIsSeen' /\ TableIsThere'
  BY <1>1, <1>2, <1>2a, <1>6, Zenon DEF MigrationInv, OverlapIsSeen, TableIsThere, Migrators
<1>8. ~overlapped =>
        \E k \in 1..LastVersion : /\ applied \subseteq 1..k /\ Current(m) = k
                                  /\ todo'[m] = 1..(k - 1)
  <2>1. SUFFICES ASSUME ~overlapped
                 PROVE  \E k \in 1..LastVersion : /\ applied \subseteq 1..k /\ Current(m) = k
                                                  /\ todo'[m] = 1..(k - 1)
    BY Zenon
  <2>2. PICK k \in 0..LastVersion : todo[m] = 1..k /\ applied \subseteq 1..k
    BY <1>1, <2>1, Zenon DEF MigrationInv, RollbackPosition
  <2>3. k \in 1..LastVersion
    BY <1>1, <2>2
  <2>4. QED
    BY <1>3, <2>2, <2>3, RollbackCurrent, Zenon
<1>9. AppliedWithoutGap'
  <2>1. CASE overlapped
    BY <1>2, <2>1, Zenon DEF AppliedWithoutGap
  <2>2. CASE ~overlapped
    <3>1. PICK n \in 0..LastVersion : applied = 1..n
      BY <2>2, Zenon DEF MigrationInv, AppliedWithoutGap
    <3>2. PICK k \in 1..LastVersion : applied \subseteq 1..k /\ Current(m) = k
      BY <1>8, <2>2, Zenon
    <3>3. CASE n = k
      <4>1. applied' = (1..k) \ {k}
        BY <1>2a, <2>2, <3>1, <3>2, <3>3, Zenon
      <4>2. (1..k) \ {k} = 1..(k - 1) /\ k - 1 \in 0..LastVersion
        OBVIOUS
      <4>3. QED
        BY <4>1, <4>2, Zenon DEF AppliedWithoutGap
    <3>4. CASE n < k
      <4>1. applied' = (1..n) \ {k}
        BY <1>2a, <2>2, <3>1, <3>2, Zenon
      <4>2. (1..n) \ {k} = 1..n
        BY <3>4
      <4>3. QED
        BY <4>1, <4>2, Zenon DEF AppliedWithoutGap
    <3>5. n <= k
      <4>1. n = 0 \/ n \in 1..n
        OBVIOUS
      <4>2. QED
        BY <3>1, <3>2, <4>1
    <3>6. QED
      BY <3>3, <3>4, <3>5
  <2>3. QED
    BY <2>1, <2>2, Zenon
<1>10. UpgradePosition'
  <2>1. ASSUME NEW n \in Ups, Migrating(n)'
        PROVE \E j \in 1..(LastVersion + 1) :
                /\ todo'[n] = j..LastVersion
                /\ mpc'[n] # "check" => j <= LastVersion
                /\ overlapped' \/ 1..(j - 1) \subseteq applied'
    <3>1. n \in Migrators /\ n # m /\ Migrating(n)
      BY <1>1, <1>6, <2>1, Zenon DEF Migrators
    <3>2. overlapped'
      BY <1>1, <1>2, <3>1, Zenon DEF MigrationInv, OverlapIsSeen
    <3>3. mpc'[n] = mpc[n] /\ todo'[n] = todo[n]
      BY <1>3, <3>1, Zenon DEF OthersStay
    <3>4. QED
      BY <3>1, <3>2, <3>3, Zenon DEF MigrationInv, UpgradePosition
  <2>2. QED
    BY <2>1, Zenon DEF UpgradePosition
<1>11. RollbackPosition'
  <2>1. ASSUME NEW n \in Downs, n # m
        PROVE  /\ mpc'[n] \notin {"check", "index"} /\ (mpc'[n] \in {"record", "tx"} => todo'[n] # {})
               /\ Migrating(n)' => overlapped' \/ \E k \in 0..LastVersion : todo'[n] = 1..k /\ applied' \subseteq 1..k
    <3>1. n \in Migrators /\ mpc'[n] = mpc[n] /\ todo'[n] = todo[n] /\ (Migrating(n)' => Migrating(n))
      BY <1>3, <1>6, <2>1, Zenon DEF OthersStay, Migrators
    <3>2. applied' \subseteq applied /\ overlapped' = overlapped
      BY <1>2, <1>2a, Zenon
    <3>3. QED
      BY <2>1, <3>1, <3>2, Zenon DEF MigrationInv, RollbackPosition
  <2>2. overlapped' \/ \E k \in 0..LastVersion : todo'[m] = 1..k /\ applied' \subseteq 1..k
    <3>1. SUFFICES ASSUME ~overlapped
                   PROVE  \E k \in 0..LastVersion : todo'[m] = 1..k /\ applied' \subseteq 1..k
      BY <1>2, Zenon
    <3>2. PICK k \in 1..LastVersion :
            applied \subseteq 1..k /\ Current(m) = k /\ todo'[m] = 1..(k - 1)
      BY <1>8, <3>1, Zenon
    <3>3. applied' \subseteq (1..k) \ {k}
      BY <1>2a, <3>1, <3>2, Zenon
    <3>4. (1..k) \ {k} = 1..(k - 1) /\ k - 1 \in 0..LastVersion
      OBVIOUS
    <3>5. QED
      BY <3>2, <3>3, <3>4, Zenon
  <2>3. QED
    BY <1>3, <2>1, <2>2, Zenon DEF RollbackPosition
<1>12. TransactionInv'
  <2>1. mpc'[m] \notin Inside
    BY <1>3, Zenon DEF Inside
  <2>2. QED
    BY <1>1, <1>2, <1>2a, <1>3, <2>1, RollbackCommitKeepsTransactions, Zenon
<1>13. QED
  BY <1>4, <1>5, <1>7, <1>9, <1>10, <1>11, <1>12, Zenon DEF MigrationInv

\* Every step of a process that migrates keeps the invariant.
LEMMA MigrationStepKeepsInv ==
  ASSUME MigrationInv, NEW m \in Migrators, MigrationStep(m) \/ Leave(m)
  PROVE  MigrationInv'
<1> USE MigrationAssumption
<1>1. /\ MigrationTypeOK /\ mpc[m] \in {"idle", "done", "failed"} \cup Running
      /\ migrationFaults \in 0..MaxMigrationFaults /\ swallowed \in BOOLEAN
      /\ {} \subseteq Versions
  BY Zenon DEF MigrationInv, MigrationTypeOK
<1>2. MigrationFault => migrationFaults' \in 0..MaxMigrationFaults
  BY <1>1 DEF MigrationFault
<1>3. ASSUME NEW pc \in {"idle", "done", "failed"}, Enter(m, pc, {}),
             UNCHANGED <<schema, overlapped>>, swallowed' \in BOOLEAN,
             migrationFaults' \in 0..MaxMigrationFaults
      PROVE  MigrationInv'
  <2>1. pc \in {"idle", "done", "failed"} \cup Running /\ pc \notin Running
    BY Zenon DEF Running
  <2>2. OthersStay(m) /\ mpc'[m] = pc /\ work'[m] = {} /\ TypesStay
    BY <1>1, <1>3, <2>1, EnterStays, Zenon DEF TypesStay
  <2>3. QED
    BY <1>3, <2>1, <2>2, StopKeepsInv, Zenon
<1>4. CASE RunMigrations(m)
  BY <1>4, RunMigrationsKeepsInv, Zenon
<1>5. CASE RollbackMigrations(m)
  BY <1>5, RollbackMigrationsKeepsInv, Zenon
<1>6. CASE RollbackSwallows(m)
  BY <1>2, <1>3, <1>6, Zenon DEF RollbackSwallows
<1>7. CASE SkipVersion(m) \/ FindMissing(m) \/ Statement(m)
  BY <1>7, InnerStepKeepsInv, Zenon
<1>8. CASE StatementFails(m)
  BY <1>1, <1>3, <1>8, Zenon DEF StatementFails, observed
<1>9. CASE CommitVersion(m)
  BY <1>9, UpgradeCommitKeepsInv, RollbackCommitKeepsInv, Zenon DEF Migrators
<1>10. CASE MigrationsDone(m)
  <2>1. /\ mpc' = [mpc EXCEPT ![m] = "done"] /\ todo' = todo /\ work' = work
        /\ work[m] = {}
    BY <1>10, Zenon DEF MigrationsDone, MigrationInv, TransactionInv, WorkInside, Inside
  <2>2. UNCHANGED <<schema, migrationFaults, observed>>
    BY <1>10, Zenon DEF MigrationsDone
  <2>3. mpc' \in [Migrators -> {"idle", "done", "failed"} \cup Running] /\ mpc'[m] \notin Running
    BY <1>1, <2>1, Zenon DEF MigrationTypeOK, Running
  <2>4. OthersStay(m)
    BY <1>1, <2>1, Zenon DEF MigrationTypeOK, OthersStay
  <2>5. TypesStay
    BY <1>1, <2>1, <2>2, <2>3, Zenon DEF MigrationTypeOK, TypesStay, observed
  <2>6. QED
    BY <2>1, <2>2, <2>3, <2>4, <2>5, StopKeepsInv, Zenon DEF observed
<1>11. CASE MigrationFails(m)
  BY <1>1, <1>2, <1>3, <1>11, Zenon DEF MigrationFails, observed
<1>12. CASE Leave(m)
  BY <1>1, <1>3, <1>12, Zenon DEF Leave, observed
<1>13. QED
  BY <1>4, <1>5, <1>6, <1>7, <1>8, <1>9, <1>10, <1>11, <1>12, Zenon DEF MigrationStep, Migrate, Statement
-----------------------------------------------------------------------------
\* The resources that can be open together: those initDatabases has reached.
Stages == {{}, {"write"}, {"write", "read"}, AllResources}

\* What holds of instance i wherever run() is: a process that has not come to its
\* resources has none, one that is up has all of them; daemons run between their start
\* and the wait for them, or are left behind by a failed start; a call that goes on
\* after the shutdown of its server has outlived a timeout.
InstanceOK(i) ==
  /\ open[i] \in Stages
  /\ spc[i] \in {"exited", "migrating"} => open[i] = {}
  /\ At(i, "opening") => open[i] # AllResources
  /\ spc[i] \in {"starting", "listening", "serving", "waiting", "draining", "stopping"} =>
       open[i] = AllResources
  /\ spc[i] \notin {"waiting", "draining", "stopping", "returning"} => ~cancelled[i]
  /\ running[i] # {} =>
       spc[i] \in {"listening", "serving", "waiting"} \/ (At(i, "returning") /\ ~cancelled[i])
  /\ \A c \in Calls : calls[i][c] # "none" =>
       spc[i] \in {"serving", "waiting", "draining"} \/ timedOut[i] \/ (c \in Rpcs /\ At(i, "stopping"))

Places == {"exited", "migrating", "opening", "starting", "listening",
           "serving", "waiting", "draining", "stopping", "returning"}
CallStates == {"none", "active", "querying"}

ProcessTypes ==
  /\ spc \in [Instances -> Places]
  /\ open \in [Instances -> SUBSET AllResources]
  /\ running \in [Instances -> SUBSET Daemons]
  /\ cancelled \in [Instances -> BOOLEAN] /\ listening \in [Instances -> BOOLEAN]
  /\ calls \in [Instances -> [Calls -> CallStates]]
  /\ timedOut \in [Instances -> BOOLEAN] /\ serverFaults \in 0..MaxServerFaults

ProcessInv == ProcessTypes /\ \A i \in Instances : InstanceOK(i)

\* The variables of instance j that InstanceOK speaks of.
Same(j) ==
  /\ spc'[j] = spc[j] /\ open'[j] = open[j] /\ running'[j] = running[j]
  /\ cancelled'[j] = cancelled[j] /\ calls'[j] = calls[j] /\ timedOut'[j] = timedOut[j]

\* A step of i that leaves the other instances alone keeps the invariant if it keeps i's.
LEMMA OneInstanceSteps ==
  ASSUME ProcessInv, NEW i \in Instances, ProcessTypes', InstanceOK(i)',
         \A j \in Instances \ {i} : Same(j)
  PROVE  ProcessInv'
<1>1. ASSUME NEW j \in Instances, j # i PROVE InstanceOK(j)'
  BY <1>1 DEF ProcessInv, InstanceOK, Same, At
<1>2. QED
  BY <1>1, Zenon DEF ProcessInv

\* How many resources are open tells which comes next.
LEMMA OpenedInOrder ==
  ASSUME NEW i \in Instances, open[i] \in Stages
  PROVE  /\ open[i] # AllResources => open[i] \cup {NextResource(i)} \in Stages \ {{}}
         /\ open[i] # {} => open[i] \ {Resources[Cardinality(open[i])]} \in Stages \ {AllResources}
<1>1. IsFiniteSet({}) /\ Cardinality({}) = 0
  BY FS_EmptySet, Zenon
<1>2. IsFiniteSet({"write"}) /\ Cardinality({"write"}) = 1
  BY FS_Singleton, Zenon
<1>3. IsFiniteSet({"write", "read"}) /\ Cardinality({"write", "read"}) = 2
  <2>1. {"write", "read"} = {"write"} \cup {"read"} /\ "read" \notin {"write"}
    BY Zenon
  <2>2. /\ IsFiniteSet({"write"} \cup {"read"})
        /\ Cardinality({"write"} \cup {"read"}) = Cardinality({"write"}) + 1
    BY <1>2, <2>1, FS_AddElement, Zenon
  <2>3. QED
    BY <1>2, <2>1, <2>2
<1>4. Cardinality(AllResources) = 3
  <2>1. AllResources = {"write", "read"} \cup {"redis"} /\ "redis" \notin {"write", "read"}
    BY Zenon DEF AllResources
  <2>2. Cardinality({"write", "read"} \cup {"redis"}) = Cardinality({"write", "read"}) + 1
    BY <1>3, <2>1, FS_AddElement, Zenon
  <2>3. QED
    BY <1>3, <2>1, <2>2
<1>5. CASE open[i] = {}
  BY <1>1, <1>5 DEF NextResource, Resources, Stages, AllResources
<1>6. CASE open[i] = {"write"}
  <2>1. NextResource(i) = "read" /\ Resources[Cardinality(open[i])] = "write"
    BY <1>2, <1>6 DEF NextResource, Resources
  <2>2. QED
    BY <1>6, <2>1, Zenon DEF Stages, AllResources
<1>7. CASE open[i] = {"write", "read"}
  <2>1. NextResource(i) = "redis" /\ Resources[Cardinality(open[i])] = "read"
    BY <1>3, <1>7 DEF NextResource, Resources
  <2>2. open[i] \cup {"redis"} = AllResources /\ open[i] \ {"read"} = {"write"}
    BY <1>7, Zenon DEF AllResources
  <2>3. {"write"} # AllResources /\ AllResources # {}
    BY DEF AllResources
  <2>4. QED
    BY <2>1, <2>2, <2>3, Zenon DEF Stages
<1>8. CASE open[i] = AllResources
  <2>1. Resources[Cardinality(open[i])] = "redis"
    BY <1>4, <1>8 DEF Resources
  <2>2. open[i] \ {"redis"} = {"write", "read"} /\ {"write", "read"} # AllResources
    BY <1>8 DEF AllResources
  <2>3. QED
    BY <1>8, <2>1, <2>2, Zenon DEF Stages
<1>9. QED
  BY <1>5, <1>6, <1>7, <1>8, Zenon DEF Stages

\* Assigning to the element of one instance.
LEMMA UpdateOne ==
  ASSUME NEW S, NEW f \in [Instances -> S], NEW i \in Instances, NEW v \in S,
         NEW g, g = [f EXCEPT ![i] = v]
  PROVE  g \in [Instances -> S] /\ g[i] = v /\ \A j \in Instances \ {i} : g[j] = f[j]
  BY Zenon

\* Steps that move run() on, as long as its resources stay as they are.
LEMMA MoveKeepsInv ==
  ASSUME ProcessInv, NEW i \in Instances, NEW pc \in Places, Goto(i, pc),
         UNCHANGED <<open, running, cancelled, calls>>,
         listening' \in [Instances -> BOOLEAN],
         timedOut' \in [Instances -> BOOLEAN], \A j \in Instances \ {i} : timedOut'[j] = timedOut[j],
         serverFaults' \in 0..MaxServerFaults,
         /\ pc \in {"exited", "migrating"} => open[i] = {}
         /\ pc = "opening" => open[i] # AllResources
         /\ pc \in {"starting", "listening", "serving", "waiting", "draining", "stopping"} =>
              open[i] = AllResources
         /\ pc \notin {"waiting", "draining", "stopping", "returning"} => ~cancelled[i]
         /\ running[i] # {} =>
              pc \in {"listening", "serving", "waiting"} \/ (pc = "returning" /\ ~cancelled[i])
         /\ \A c \in Calls : calls[i][c] # "none" =>
              pc \in {"serving", "waiting", "draining"} \/ timedOut'[i] \/ (c \in Rpcs /\ pc = "stopping")
  PROVE  ProcessInv'
<1>1. /\ spc \in [Instances -> Places] /\ spc' = [spc EXCEPT ![i] = pc]
      /\ open[i] \in Stages
  BY Zenon DEF ProcessInv, ProcessTypes, InstanceOK, Goto
<1>2. spc' \in [Instances -> Places] /\ spc'[i] = pc /\ \A j \in Instances \ {i} : spc'[j] = spc[j]
  BY <1>1, UpdateOne, SMTT(40)
<1>3. ProcessTypes'
  BY <1>2, Zenon DEF ProcessInv, ProcessTypes
<1>4. InstanceOK(i)'
  BY <1>1, <1>2, Zenon DEF InstanceOK, At
<1>5. \A j \in Instances \ {i} : Same(j)
  BY <1>2, Zenon DEF Same
<1>6. QED
  BY <1>3, <1>4, <1>5, OneInstanceSteps, Zenon

\* The steps of run() up to the start of the servers.
LEMMA StartKeepsInv ==
  ASSUME ProcessInv, NEW i \in Instances,
         \/ StartProcess(i) \/ ReturnFromMigrations(i) \/ StartServers(i) \/ StartServersFails(i)
  PROVE  ProcessInv'
<1> USE ServerAssumption
<1>1. InstanceOK(i) /\ ProcessTypes
  BY Zenon DEF ProcessInv
<1>2. UNCHANGED <<open, running, cancelled, calls, timedOut>>
  BY Zenon DEF StartProcess, ReturnFromMigrations, StartServers, StartServersFails
<1>3. serverFaults' \in 0..MaxServerFaults
  BY <1>1 DEF StartProcess, ReturnFromMigrations, StartServers, StartServersFails, ServerFault, ProcessTypes
<1>4. listening' \in [Instances -> BOOLEAN]
  <2>1. listening' = listening \/ listening' = [listening EXCEPT ![i] = TRUE]
    BY Zenon DEF StartProcess, ReturnFromMigrations, StartServers, StartServersFails
  <2>2. QED
    BY <1>1, <2>1, Zenon DEF ProcessTypes
<1>5. timedOut' \in [Instances -> BOOLEAN] /\ timedOut' = timedOut
  BY <1>1, <1>2, Zenon DEF ProcessTypes
<1>6. PICK pc \in Places :
        /\ Goto(i, pc)
        /\ \/ spc[i] \in {"exited", "migrating"} /\ pc \in {"exited", "migrating", "opening"}
           \/ At(i, "listening") /\ pc \in {"serving", "returning"}
  BY Zenon DEF StartProcess, ReturnFromMigrations, StartServers, StartServersFails, At, Places
<1>7. /\ pc \in {"exited", "migrating"} => open[i] = {}
      /\ pc = "opening" => open[i] # AllResources
      /\ pc \in {"starting", "listening", "serving", "waiting", "draining", "stopping"} =>
           open[i] = AllResources
      /\ pc \notin {"waiting", "draining", "stopping", "returning"} => ~cancelled[i]
  BY <1>1, <1>6, Zenon DEF InstanceOK, At, AllResources
<1>8. running[i] # {} =>
        pc \in {"listening", "serving", "waiting"} \/ (pc = "returning" /\ ~cancelled[i])
  BY <1>1, <1>6, Zenon DEF InstanceOK, At
<1>9. \A c \in Calls : calls[i][c] # "none" => timedOut'[i]
  BY <1>1, <1>5, <1>6, Zenon DEF InstanceOK, At
<1>10. QED
  BY <1>2, <1>3, <1>4, <1>5, <1>6, <1>7, <1>8, <1>9, MoveKeepsInv, Zenon

\* The steps of the shutdown, from wg.Wait() to the end of GracefulStop or Stop.
LEMMA ShutdownKeepsInv ==
  ASSUME ProcessInv, NEW i \in Instances,
         \/ WaitForDaemons(i) \/ ShutdownHTTP(i) \/ ShutdownTimesOut(i)
         \/ GracefulStop(i) \/ ForceStop(i)
  PROVE  ProcessInv'
<1>1. InstanceOK(i) /\ ProcessTypes
  BY Zenon DEF ProcessInv
<1>2. UNCHANGED <<open, running, cancelled, calls, serverFaults>>
  BY Zenon DEF WaitForDaemons, ShutdownHTTP, ShutdownTimesOut, GracefulStop, ForceStop
<1>3. serverFaults' \in 0..MaxServerFaults
  BY <1>1, <1>2, Zenon DEF ProcessTypes
<1>4. listening' \in [Instances -> BOOLEAN]
  <2>1. listening' = listening \/ listening' = [listening EXCEPT ![i] = FALSE]
    BY Zenon DEF WaitForDaemons, ShutdownHTTP, ShutdownTimesOut, GracefulStop, ForceStop
  <2>2. QED
    BY <1>1, <2>1, Zenon DEF ProcessTypes
<1>5. /\ timedOut' \in [Instances -> BOOLEAN] /\ \A j \in Instances \ {i} : timedOut'[j] = timedOut[j]
      /\ timedOut[i] => timedOut'[i]
      /\ ShutdownTimesOut(i) \/ ForceStop(i) => timedOut'[i]
  <2>1. CASE timedOut' = timedOut /\ ~(ShutdownTimesOut(i) \/ ForceStop(i))
    BY <1>1, <2>1, Zenon DEF ProcessTypes
  <2>2. CASE timedOut' = [timedOut EXCEPT ![i] = TRUE]
    BY <1>1, <2>2, Zenon DEF ProcessTypes
  <2>3. QED
    BY <2>1, <2>2, Zenon DEF WaitForDaemons, ShutdownHTTP, ShutdownTimesOut, GracefulStop, ForceStop
<1>6. PICK pc \in {"draining", "stopping", "returning"} :
        /\ Goto(i, pc)
        /\ pc = "draining" => At(i, "waiting") /\ running[i] = {}
        /\ pc = "stopping" => At(i, "draining") /\ (Idle(i, Requests) \/ timedOut'[i])
        /\ pc = "returning" => At(i, "stopping") /\ (Idle(i, Rpcs) \/ timedOut'[i])
  BY <1>5, Zenon DEF WaitForDaemons, ShutdownHTTP, ShutdownTimesOut, GracefulStop, ForceStop
<1>7. pc \in Places
  BY Zenon DEF Places
<1>8. pc \in {"draining", "stopping"} => open[i] = AllResources
  BY <1>1, <1>6, Zenon DEF InstanceOK, At
<1>9. running[i] = {}
  BY <1>1, <1>6, Zenon DEF InstanceOK, At
<1>10. \A c \in Calls : calls[i][c] # "none" =>
         pc = "draining" \/ timedOut'[i] \/ (c \in Rpcs /\ pc = "stopping")
  <2>1. ASSUME NEW c \in Calls, calls[i][c] # "none", pc = "stopping"
        PROVE  timedOut'[i] \/ c \in Rpcs
    BY <1>6, <2>1, Zenon DEF Idle, Calls
  <2>2. ASSUME NEW c \in Calls, calls[i][c] # "none", pc = "returning"
        PROVE  timedOut'[i]
    BY <1>1, <1>5, <1>6, <2>2, Zenon DEF Idle, InstanceOK, At
  <2>3. QED
    BY <2>1, <2>2, Zenon
<1>11. QED
  BY <1>2, <1>3, <1>4, <1>5, <1>6, <1>7, <1>8, <1>9, <1>10, MoveKeepsInv, Zenon

\* The steps that open or close a resource.
LEMMA ResourceKeepsInv ==
  ASSUME ProcessInv, NEW i \in Instances, Open(i) \/ OpenFails(i) \/ CloseNext(i)
  PROVE  ProcessInv'
<1> USE ServerAssumption
<1>1. InstanceOK(i) /\ ProcessTypes /\ open[i] \in Stages
  BY Zenon DEF ProcessInv, InstanceOK
<1>2. UNCHANGED <<running, cancelled, listening, calls, timedOut>>
  BY Zenon DEF Open, OpenFails, CloseNext
<1>3. serverFaults' \in 0..MaxServerFaults
  BY <1>1 DEF Open, OpenFails, CloseNext, ServerFault, ProcessTypes
<1>4. PICK O \in Stages :
        /\ open' = [open EXCEPT ![i] = O]
        /\ \/ At(i, "opening") /\ O # {} /\ Goto(i, IF O = AllResources THEN "starting" ELSE "opening")
           \/ At(i, "opening") /\ O = {} /\ Goto(i, "exited")
           \/ At(i, "returning") /\ spc' = spc
  <2>1. CASE Open(i)
    <3>1. At(i, "opening") /\ open[i] # AllResources
      BY <1>1, <2>1, Zenon DEF Open, InstanceOK
    <3>2. open[i] \cup {NextResource(i)} \in Stages \ {{}}
      BY <1>1, <3>1, OpenedInOrder, Zenon
    <3>3. /\ open' = [open EXCEPT ![i] = open[i] \cup {NextResource(i)}]
          /\ Goto(i, IF open'[i] = AllResources THEN "starting" ELSE "opening")
      BY <2>1, Zenon DEF Open
    <3>4. open'[i] = open[i] \cup {NextResource(i)}
      BY <1>1, <3>3, Zenon DEF ProcessTypes
    <3>5. QED
      BY <3>1, <3>2, <3>3, <3>4, Zenon
  <2>2. CASE OpenFails(i)
    BY <2>2, Zenon DEF OpenFails, Stages
  <2>3. CASE CloseNext(i)
    <3>1. open[i] \ {Resources[Cardinality(open[i])]} \in Stages
      BY <1>1, <2>3, OpenedInOrder, Zenon DEF CloseNext
    <3>2. QED
      BY <2>3, <3>1, Zenon DEF CloseNext
  <2>4. QED
    BY <2>1, <2>2, <2>3, Zenon
<1>5. O \in SUBSET AllResources
  BY Zenon DEF Stages, AllResources
<1>6. /\ open' \in [Instances -> SUBSET AllResources] /\ open'[i] = O
      /\ \A j \in Instances \ {i} : open'[j] = open[j]
  BY <1>1, <1>4, <1>5, UpdateOne DEF ProcessTypes
<1>7. PICK pc \in Places :
        /\ spc' = [spc EXCEPT ![i] = pc]
        /\ \/ At(i, "opening") /\ O = AllResources /\ pc = "starting"
           \/ At(i, "opening") /\ O # AllResources /\ pc = "opening"
           \/ At(i, "opening") /\ O = {} /\ pc = "exited"
           \/ At(i, "returning") /\ pc = "returning"
  <2>1. spc = [spc EXCEPT ![i] = spc[i]]
    BY <1>1, Zenon DEF ProcessTypes
  <2>2. QED
    BY <1>4, <2>1, Zenon DEF Goto, Places, At
<1>8. spc' \in [Instances -> Places] /\ spc'[i] = pc /\ \A j \in Instances \ {i} : spc'[j] = spc[j]
  BY <1>1, <1>7, UpdateOne DEF ProcessTypes
<1>9. ProcessTypes'
  BY <1>1, <1>2, <1>3, <1>6, <1>8, Zenon DEF ProcessTypes
<1>10. InstanceOK(i)'
  <2>1. /\ pc \in {"exited", "migrating"} => O = {}
        /\ pc = "opening" => O # AllResources
        /\ pc \in {"starting", "listening", "serving", "waiting", "draining", "stopping"} =>
             O = AllResources
    BY <1>7, Zenon
  <2>2. /\ pc \notin {"waiting", "draining", "stopping", "returning"} => ~cancelled[i]
        /\ running[i] # {} => pc = "returning" /\ ~cancelled[i]
    BY <1>1, <1>7, Zenon DEF InstanceOK, At
  <2>3. \A c \in Calls : calls[i][c] # "none" => timedOut[i]
    BY <1>1, <1>7, Zenon DEF InstanceOK, At
  <2>4. QED
    BY <1>2, <1>6, <1>8, <2>1, <2>2, <2>3, Zenon DEF InstanceOK, At
<1>11. \A j \in Instances \ {i} : Same(j)
  BY <1>2, <1>6, <1>8, Zenon DEF Same
<1>12. QED
  BY <1>9, <1>10, <1>11, OneInstanceSteps, Zenon

\* The daemons are started, and stop one by one.
LEMMA DaemonsKeepInv ==
  ASSUME ProcessInv, NEW i \in Instances,
         \/ StartBackgroundDaemons(i) \/ ProjectorReturns(i)
         \/ \E d \in Daemons : DaemonStops(i, d)
  PROVE  ProcessInv'
<1> USE ServerAssumption
<1>1. InstanceOK(i) /\ ProcessTypes
  BY Zenon DEF ProcessInv
<1>2. UNCHANGED <<open, cancelled, listening, calls, timedOut>>
  BY Zenon DEF StartBackgroundDaemons, ProjectorReturns, DaemonStops
<1>3. serverFaults' \in 0..MaxServerFaults
  BY <1>1 DEF StartBackgroundDaemons, ProjectorReturns, DaemonStops, ServerFault, ProcessTypes
<1>4. PICK D \in SUBSET Daemons :
        /\ running' = [running EXCEPT ![i] = D]
        /\ \/ At(i, "starting") /\ Goto(i, "listening")
           \/ running[i] # {} /\ spc' = spc
  <2>1. running[i] \subseteq Daemons
    BY <1>1, Zenon DEF ProcessTypes
  <2>2. CASE StartBackgroundDaemons(i)
    BY <2>2, Zenon DEF StartBackgroundDaemons
  <2>3. CASE ProjectorReturns(i)
    <3>1. running[i] \ {Projector} \in SUBSET Daemons
      BY <2>1, Zenon
    <3>2. QED
      BY <2>3, <3>1, Zenon DEF ProjectorReturns
  <2>4. ASSUME NEW d \in Daemons, DaemonStops(i, d)
        PROVE  \E D \in SUBSET Daemons :
                 running' = [running EXCEPT ![i] = D] /\ running[i] # {} /\ spc' = spc
    <3>1. running[i] \ {d} \in SUBSET Daemons
      BY <2>1, Zenon
    <3>2. QED
      BY <2>4, <3>1, Zenon DEF DaemonStops
  <2>5. QED
    BY <2>2, <2>3, <2>4, Zenon
<1>5. /\ running' \in [Instances -> SUBSET Daemons]
      /\ \A j \in Instances \ {i} : running'[j] = running[j]
  BY <1>1, <1>4, UpdateOne, Zenon DEF ProcessTypes
<1>6. /\ spc' \in [Instances -> Places] /\ \A j \in Instances \ {i} : spc'[j] = spc[j]
      /\ \/ spc'[i] = "listening" /\ At(i, "starting")
         \/ spc'[i] = spc[i] /\ running[i] # {}
  <2>1. spc \in [Instances -> Places] /\ "listening" \in Places
    BY <1>1, Zenon DEF ProcessTypes, Places
  <2>2. CASE Goto(i, "listening") /\ At(i, "starting")
    BY <2>1, <2>2, UpdateOne DEF Goto
  <2>3. CASE running[i] # {} /\ spc' = spc
    BY <2>1, <2>3, Zenon
  <2>4. QED
    BY <1>4, <2>2, <2>3, Zenon
<1>7. ProcessTypes'
  BY <1>1, <1>2, <1>3, <1>5, <1>6, Zenon DEF ProcessTypes
<1>8. InstanceOK(i)'
  BY <1>1, <1>2, <1>6, Zenon DEF InstanceOK, At
<1>9. \A j \in Instances \ {i} : Same(j)
  BY <1>2, <1>5, <1>6, Zenon DEF Same
<1>10. QED
  BY <1>7, <1>8, <1>9, OneInstanceSteps, Zenon

\* A signal, or the end of ListenAndServe.
LEMMA SignalKeepsInv ==
  ASSUME ProcessInv, NEW i \in Instances, Signal(i) \/ ListenAndServeFails(i)
  PROVE  ProcessInv'
<1> USE ServerAssumption
<1>1. InstanceOK(i) /\ ProcessTypes /\ At(i, "serving")
  BY Zenon DEF ProcessInv, Signal, ListenAndServeFails
<1>2. UNCHANGED <<open, running, calls, timedOut>>
  BY Zenon DEF Signal, ListenAndServeFails
<1>3. serverFaults' \in 0..MaxServerFaults
  BY <1>1 DEF Signal, ListenAndServeFails, ServerFault, ProcessTypes
<1>4. listening' \in [Instances -> BOOLEAN]
  <2>1. listening' = listening \/ listening' = [listening EXCEPT ![i] = FALSE]
    BY Zenon DEF Signal, ListenAndServeFails
  <2>2. QED
    BY <1>1, <2>1, Zenon DEF ProcessTypes
<1>5. /\ cancelled' \in [Instances -> BOOLEAN]
      /\ \A j \in Instances \ {i} : cancelled'[j] = cancelled[j]
      /\ spc' \in [Instances -> Places] /\ \A j \in Instances \ {i} : spc'[j] = spc[j]
      /\ \/ spc'[i] = "waiting"
         \/ spc'[i] = "serving" /\ cancelled'[i] = cancelled[i]
  <2>1. "waiting" \in Places /\ TRUE \in BOOLEAN
    BY Zenon DEF Places
  <2>2. CASE Signal(i)
    <3>1. cancelled' = [cancelled EXCEPT ![i] = TRUE] /\ spc' = [spc EXCEPT ![i] = "waiting"]
      BY <2>2, Zenon DEF Signal, Goto
    <3>2. cancelled \in [Instances -> BOOLEAN] /\ spc \in [Instances -> Places]
      BY <1>1, Zenon DEF ProcessTypes
    <3>3. spc' \in [Instances -> Places] /\ spc'[i] = "waiting" /\ \A j \in Instances \ {i} : spc'[j] = spc[j]
      BY <2>1, <3>1, <3>2, UpdateOne, Zenon
    <3>4. cancelled' \in [Instances -> BOOLEAN] /\ \A j \in Instances \ {i} : cancelled'[j] = cancelled[j]
      BY <2>1, <3>1, <3>2, UpdateOne
    <3>5. QED
      BY <3>3, <3>4, Zenon
  <2>3. CASE ListenAndServeFails(i)
    BY <1>1, <2>3, Zenon DEF ListenAndServeFails, ProcessTypes, At
  <2>4. QED
    BY <2>2, <2>3, Zenon
<1>6. ProcessTypes'
  BY <1>1, <1>2, <1>3, <1>4, <1>5, Zenon DEF ProcessTypes
<1>7. InstanceOK(i)'
  BY <1>1, <1>2, <1>5, Zenon DEF InstanceOK, At
<1>8. \A j \in Instances \ {i} : Same(j)
  BY <1>2, <1>5, Zenon DEF Same
<1>9. QED
  BY <1>6, <1>7, <1>8, OneInstanceSteps, Zenon

\* Calls come, query the read pool and end.
LEMMA ServeKeepsInv ==
  ASSUME ProcessInv, NEW i \in Instances, Serve(i)
  PROVE  ProcessInv'
<1>1. InstanceOK(i) /\ ProcessTypes
  BY Zenon DEF ProcessInv
<1>2. PICK c \in Calls, s \in CallStates :
        /\ SetCall(i, c, s)
        /\ calls[i][c] # "none" \/ s = "none" \/ Accepts(i, c)
  BY Zenon DEF Serve, Accept, Query, QueryEnds, CallEnds, CallStates
<1>3. UNCHANGED <<spc, open, running, cancelled, listening, timedOut, serverFaults>>
  BY <1>2, Zenon DEF SetCall
<1>4. calls' = [calls EXCEPT ![i] = [calls[i] EXCEPT ![c] = s]]
  BY <1>2, Zenon DEF SetCall
<1>5. [calls[i] EXCEPT ![c] = s] \in [Calls -> CallStates] /\ calls \in [Instances -> [Calls -> CallStates]]
  BY <1>1, Zenon DEF ProcessTypes
<1>6. /\ calls' \in [Instances -> [Calls -> CallStates]] /\ calls'[i] = [calls[i] EXCEPT ![c] = s]
      /\ \A j \in Instances \ {i} : calls'[j] = calls[j]
  BY <1>4, <1>5, UpdateOne, Zenon
<1>7. ProcessTypes'
  BY <1>1, <1>3, <1>6, Zenon DEF ProcessTypes
<1>8. \A b \in Calls : calls'[i][b] # "none" => calls[i][b] # "none" \/ Accepts(i, b)
  BY <1>2, <1>5, <1>6, Zenon
<1>9. \A b \in Calls : Accepts(i, b) => spc[i] \in {"serving", "waiting", "draining"}
  BY Zenon DEF Accepts
<1>10. InstanceOK(i)'
  BY <1>1, <1>3, <1>8, <1>9, Zenon DEF InstanceOK, At
<1>11. \A j \in Instances \ {i} : Same(j)
  BY <1>3, <1>6, Zenon DEF Same
<1>12. QED
  BY <1>7, <1>10, <1>11, OneInstanceSteps, Zenon

\* The process ends, by itself or killed.
LEMMA EndKeepsInv ==
  ASSUME ProcessInv, NEW i \in Instances, Exit(i) \/ Kill(i)
  PROVE  ProcessInv'
<1> USE ServerAssumption
<1>1. ProcessTypes /\ Gone(i)
  BY Zenon DEF ProcessInv, Exit, Kill
<1>2. serverFaults' \in 0..MaxServerFaults
  BY <1>1 DEF Exit, Kill, ServerFault, ProcessTypes
<1>3. /\ open' \in [Instances -> SUBSET AllResources] /\ open'[i] = {}
      /\ \A j \in Instances \ {i} : open'[j] = open[j]
  BY <1>1, Zenon DEF Exit, Kill, ProcessTypes
<1>4. /\ spc' \in [Instances -> Places] /\ spc'[i] = "exited"
      /\ \A j \in Instances \ {i} : spc'[j] = spc[j]
  <2>1. "exited" \in Places
    BY Zenon DEF Places
  <2>2. QED
    BY <1>1, <2>1, UpdateOne, Zenon DEF Gone, Goto, ProcessTypes
<1>5. /\ running' \in [Instances -> SUBSET Daemons] /\ running'[i] = {}
      /\ \A j \in Instances \ {i} : running'[j] = running[j]
  BY <1>1, Zenon DEF Gone, ProcessTypes
<1>6. /\ cancelled' \in [Instances -> BOOLEAN] /\ cancelled'[i] = FALSE
      /\ \A j \in Instances \ {i} : cancelled'[j] = cancelled[j]
  BY <1>1, Zenon DEF Gone, ProcessTypes
<1>7. listening' \in [Instances -> BOOLEAN]
  BY <1>1, Zenon DEF Gone, ProcessTypes
<1>8. /\ timedOut' \in [Instances -> BOOLEAN]
      /\ \A j \in Instances \ {i} : timedOut'[j] = timedOut[j]
  BY <1>1, Zenon DEF Gone, ProcessTypes
<1>9. /\ calls' \in [Instances -> [Calls -> CallStates]] /\ calls'[i] = NoCalls
      /\ \A j \in Instances \ {i} : calls'[j] = calls[j]
  <2>1. NoCalls \in [Calls -> CallStates]
    BY Zenon DEF NoCalls, CallStates
  <2>2. QED
    BY <1>1, <2>1, UpdateOne DEF Gone, ProcessTypes
<1>10. ProcessTypes'
  BY <1>2, <1>3, <1>4, <1>5, <1>6, <1>7, <1>8, <1>9, Zenon DEF ProcessTypes
<1>11. InstanceOK(i)'
  <2>1. \A c \in Calls : calls'[i][c] = "none"
    BY <1>9, Zenon DEF NoCalls
  <2>2. open'[i] \in Stages
    BY <1>3, Zenon DEF Stages
  <2>3. QED
    BY <1>3, <1>4, <1>5, <1>6, <2>1, <2>2, Zenon DEF InstanceOK, At
<1>12. \A j \in Instances \ {i} : Same(j)
  BY <1>3, <1>4, <1>5, <1>6, <1>8, <1>9, Zenon DEF Same
<1>13. QED
  BY <1>10, <1>11, <1>12, OneInstanceSteps, Zenon
-----------------------------------------------------------------------------
\* The processes start with nothing, on an empty database.
LEMMA ServerInitOK == ServerInit => MigrationInv /\ ProcessInv
<1> USE MigrationAssumption, ServerAssumption
<1>1. SUFFICES ASSUME ServerInit PROVE MigrationInv /\ ProcessInv
  BY Zenon
<1>2. MigrationTypeOK /\ RecordMatchesSchema
  <2>1. 0 \in 0..MaxMigrationFaults /\ {} \in SUBSET Versions
    OBVIOUS
  <2>2. QED
    BY <1>1, <2>1, Zenon DEF ServerInit, MigrationInit, MigrationTypeOK, RecordMatchesSchema
<1>3. AppliedWithoutGap
  <2>1. applied = 1..0 /\ 0 \in 0..LastVersion
    BY <1>1 DEF ServerInit, MigrationInit
  <2>2. QED
    BY <2>1, Zenon DEF AppliedWithoutGap
<1>4. \A m \in Migrators : mpc[m] = "idle" /\ ~Migrating(m)
  BY <1>1, Zenon DEF ServerInit, MigrationInit, Migrating, Running
<1>5. UpgradePosition /\ RollbackPosition /\ OverlapIsSeen
  BY <1>4, Zenon DEF UpgradePosition, RollbackPosition, OverlapIsSeen, Migrators
<1>6. TableIsThere
  BY <1>1, <1>4, Zenon DEF ServerInit, MigrationInit, TableIsThere, Migrators
<1>6a. TransactionInv
  <2>1. \A m \in Migrators : work[m] = {} /\ mpc[m] \notin Inside /\ ~Alters(m) /\ ~Held(m)
    BY <1>1, <1>4, Zenon DEF ServerInit, MigrationInit, Inside, Alters, Held
  <2>2. QED
    BY <1>4, <2>1, Zenon DEF TransactionInv, WorkInside, TableLocks, StatementsSeen, Migrators
<1>7. ProcessTypes
  <2>1. NoCalls \in [Calls -> CallStates]
    BY Zenon DEF NoCalls, CallStates
  <2>2. QED
    BY <1>1, <2>1 DEF ServerInit, ProcessTypes, Places
<1>8. ASSUME NEW i \in Instances PROVE InstanceOK(i)
  <2>1. \A c \in Calls : calls[i][c] = "none"
    BY <1>1, Zenon DEF ServerInit, NoCalls
  <2>2. QED
    BY <1>1, <2>1, Zenon DEF ServerInit, InstanceOK, Stages, At
<1>9. QED
  BY <1>2, <1>3, <1>5, <1>6, <1>6a, <1>7, <1>8, Zenon DEF MigrationInv, ProcessInv

\* The steps that leave the migrations, and those that leave the processes, alone.
LEMMA StepsSplit ==
  ASSUME ServerNext
  PROVE  /\ \/ \E m \in Migrators : MigrationStep(m) \/ Leave(m)
            \/ UNCHANGED migrationVars
         /\ \/ UNCHANGED serverVars
            \/ \E i \in Instances :
                 \/ StartProcess(i) \/ ReturnFromMigrations(i) \/ StartServers(i) \/ StartServersFails(i)
                 \/ WaitForDaemons(i) \/ ShutdownHTTP(i) \/ ShutdownTimesOut(i)
                 \/ GracefulStop(i) \/ ForceStop(i)
                 \/ Open(i) \/ OpenFails(i) \/ CloseNext(i)
                 \/ StartBackgroundDaemons(i) \/ ProjectorReturns(i)
                 \/ \E d \in Daemons : DaemonStops(i, d)
                 \/ Signal(i) \/ ListenAndServeFails(i) \/ Serve(i) \/ Exit(i) \/ Kill(i)
<1>1. CASE \E m \in Migrators \ Instances : MigrateCommand(m)
  BY <1>1, Zenon DEF MigrateCommand
<1>2. ASSUME NEW i \in Instances, RunMigrationStep(i) \/ ReturnFromMigrations(i)
      PROVE  \E m \in Migrators : MigrationStep(m) \/ Leave(m)
  BY <1>2, ServerAssumption, Zenon DEF RunMigrationStep, ReturnFromMigrations, Migrators
<1>3. ASSUME NEW i \in Instances, RunMigrationStep(i)
      PROVE  UNCHANGED serverVars
  BY <1>3, Zenon DEF RunMigrationStep
<1>4. ASSUME NEW i \in Instances,
             \/ StartProcess(i) \/ StartServers(i) \/ StartServersFails(i)
             \/ WaitForDaemons(i) \/ ShutdownHTTP(i) \/ ShutdownTimesOut(i)
             \/ GracefulStop(i) \/ ForceStop(i)
      PROVE  UNCHANGED migrationVars
  BY <1>4, Zenon DEF StartProcess, StartServers, StartServersFails, WaitForDaemons, ShutdownHTTP,
              ShutdownTimesOut, GracefulStop, ForceStop
<1>5. ASSUME NEW i \in Instances,
             \/ Open(i) \/ OpenFails(i) \/ CloseNext(i) \/ StartBackgroundDaemons(i)
             \/ ProjectorReturns(i) \/ Signal(i) \/ ListenAndServeFails(i) \/ Exit(i) \/ Kill(i)
      PROVE  UNCHANGED migrationVars
  BY <1>5, Zenon DEF Open, OpenFails, CloseNext, StartBackgroundDaemons, ProjectorReturns, Signal,
              ListenAndServeFails, Exit, Kill
<1>6. ASSUME NEW i \in Instances, Serve(i) \/ \E d \in Daemons : DaemonStops(i, d)
      PROVE  UNCHANGED migrationVars
  BY <1>6, Zenon DEF Serve, Accept, Query, QueryEnds, CallEnds, SetCall, DaemonStops
<1>7. QED
  BY <1>1, <1>2, <1>3, <1>4, <1>5, <1>6, Zenon DEF ServerNext, Run, Breaks

\* Steps that change nothing of the migrations, or of the processes, keep their invariant.
LEMMA StutterKeepsInv ==
  /\ MigrationInv /\ UNCHANGED migrationVars => MigrationInv'
  /\ ProcessInv /\ UNCHANGED serverVars => ProcessInv'
<1>1. ASSUME MigrationInv, UNCHANGED migrationVars PROVE MigrationInv'
  <2>1. UNCHANGED <<hasTable, applied, objects, mpc, todo, work, migrationFaults, overlapped, swallowed>>
    BY <1>1, Zenon DEF migrationVars, schema, observed
  <2>2. MigrationTypeOK' /\ RecordMatchesSchema' /\ AppliedWithoutGap' /\ TableIsThere' /\ OverlapIsSeen'
    BY <1>1, <2>1, Zenon DEF MigrationInv, MigrationTypeOK, RecordMatchesSchema, AppliedWithoutGap,
                      TableIsThere, OverlapIsSeen, Migrating
  <2>3. UpgradePosition' /\ RollbackPosition'
    BY <1>1, <2>1, Zenon DEF MigrationInv, UpgradePosition, RollbackPosition, Migrating
  <2>4. \A m \in Migrators : Current(m)' = Current(m) /\ (Alters(m)' <=> Alters(m)) /\ (Held(m)' <=> Held(m))
    BY <2>1, CurrentStays, Zenon DEF Alters, Held
  <2>5. TransactionInv'
    <3>1. WorkInside'
      BY <1>1, <2>1, Zenon DEF MigrationInv, TransactionInv, WorkInside
    <3>2. /\ \A u \in Ups : Alters(u)' => Current(u)' \notin objects'
          /\ \A d \in Downs : Alters(d)' => Current(d)' \in objects'
          /\ \A u \in Ups : Held(u)' => Alters(u)' \/ Current(u)' \in objects'
      BY <1>1, <2>1, <2>4, Zenon DEF MigrationInv, TransactionInv, TableLocks, Migrators
    <3>3. \A l, n \in Migrators : Alters(l)' /\ Alters(n)' /\ Current(l)' = Current(n)' => l = n
      BY <1>1, <2>4, Zenon DEF MigrationInv, TransactionInv, TableLocks
    <3>4. \A u \in Ups, d \in Downs : Held(u)' /\ Alters(d)' => Current(u)' # Current(d)'
      BY <1>1, <2>4, Zenon DEF MigrationInv, TransactionInv, TableLocks, Migrators
    <3>5. \A d \in Downs : Alters(d)' /\ mpc'[d] = "tx" /\ Current(d)' \in Indexed =>
            "row" \in work'[d] \/ Current(d)' \notin applied'
      BY <1>1, <2>1, <2>4, Zenon DEF MigrationInv, TransactionInv, TableLocks, Migrators
    <3>6. StatementsSeen'
      BY <1>1, <2>1, <2>4, Zenon DEF MigrationInv, TransactionInv, StatementsSeen, Migrators
    <3>7. QED
      BY <3>1, <3>2, <3>3, <3>4, <3>5, <3>6, Zenon DEF TransactionInv, TableLocks
  <2>6. QED
    BY <2>2, <2>3, <2>5, Zenon DEF MigrationInv
<1>2. ASSUME ProcessInv, UNCHANGED serverVars PROVE ProcessInv'
  BY <1>2, Zenon DEF ProcessInv, ProcessTypes, InstanceOK, At, serverVars
<1>3. QED
  BY <1>1, <1>2, Zenon

\* Both invariants hold throughout.
THEOREM ServerInvariant == ServerSpec => [](MigrationInv /\ ProcessInv)
<1>1. ASSUME MigrationInv, [ServerNext]_systemVars PROVE MigrationInv'
  <2>1. CASE UNCHANGED systemVars
    BY <1>1, <2>1, StutterKeepsInv, Zenon DEF systemVars
  <2>2. CASE ServerNext
    BY <1>1, <2>2, StepsSplit, MigrationStepKeepsInv, StutterKeepsInv, Zenon
  <2>3. QED
    BY <1>1, <2>1, <2>2, Zenon
<1>2. ASSUME ProcessInv, [ServerNext]_systemVars PROVE ProcessInv'
  <2>1. CASE UNCHANGED systemVars
    BY <1>2, <2>1, StutterKeepsInv, Zenon DEF systemVars
  <2>2. CASE ServerNext
    <3>1. CASE UNCHANGED serverVars
      BY <1>2, <3>1, StutterKeepsInv, Zenon
    <3>2. ASSUME NEW i \in Instances,
                 \/ StartProcess(i) \/ ReturnFromMigrations(i) \/ StartServers(i) \/ StartServersFails(i)
                 \/ WaitForDaemons(i) \/ ShutdownHTTP(i) \/ ShutdownTimesOut(i)
                 \/ GracefulStop(i) \/ ForceStop(i)
                 \/ Open(i) \/ OpenFails(i) \/ CloseNext(i)
                 \/ StartBackgroundDaemons(i) \/ ProjectorReturns(i)
                 \/ \E d \in Daemons : DaemonStops(i, d)
                 \/ Signal(i) \/ ListenAndServeFails(i) \/ Serve(i) \/ Exit(i) \/ Kill(i)
          PROVE  ProcessInv'
      <4>1. CASE \/ StartProcess(i) \/ ReturnFromMigrations(i) \/ StartServers(i) \/ StartServersFails(i)
        BY <1>2, <4>1, StartKeepsInv, Zenon
      <4>2. CASE \/ WaitForDaemons(i) \/ ShutdownHTTP(i) \/ ShutdownTimesOut(i)
                 \/ GracefulStop(i) \/ ForceStop(i)
        BY <1>2, <4>2, ShutdownKeepsInv, Zenon
      <4>3. CASE Open(i) \/ OpenFails(i) \/ CloseNext(i)
        BY <1>2, <4>3, ResourceKeepsInv, Zenon
      <4>4. CASE \/ StartBackgroundDaemons(i) \/ ProjectorReturns(i)
                 \/ \E d \in Daemons : DaemonStops(i, d)
        BY <1>2, <4>4, DaemonsKeepInv, Zenon
      <4>5. CASE Signal(i) \/ ListenAndServeFails(i)
        BY <1>2, <4>5, SignalKeepsInv, Zenon
      <4>6. CASE Serve(i)
        BY <1>2, <4>6, ServeKeepsInv, Zenon
      <4>7. CASE Exit(i) \/ Kill(i)
        BY <1>2, <4>7, EndKeepsInv, Zenon
      <4>8. QED
        BY <3>2, <4>1, <4>2, <4>3, <4>4, <4>5, <4>6, <4>7, Zenon
    <3>3. QED
      BY <2>2, <3>1, <3>2, StepsSplit, Zenon
  <2>3. QED
    BY <1>2, <2>1, <2>2, Zenon
<1>3. QED
  BY <1>1, <1>2, ServerInitOK, PTL DEF ServerSpec

\* A process that has exited has closed everything, whichever step of its start failed,
\* and everything has a value of its type (initDatabases and the defers of run()).
THEOREM ServerTypeCorrect == ServerSpec => []ServerTypeOK
<1>1. MigrationInv /\ ProcessInv => ServerTypeOK
  BY Zenon DEF MigrationInv, ProcessInv, ProcessTypes, Places, CallStates, InstanceOK, At, ServerTypeOK
<1>2. QED
  BY <1>1, ServerInvariant, PTL

\* Wherever the processes that migrate fail: a version whose SQL creates an index on each
\* of its tables is never in schema_migrations without them, whatever runs at the same time;
\* every version is there exactly when its tables exist, unless an upgrade has run together
\* with a rollback.
THEOREM SchemaIsRecorded == ServerSpec => []RecordMatchesSchema
<1>1. MigrationInv => RecordMatchesSchema
  BY Zenon DEF MigrationInv
<1>2. QED
  BY <1>1, ServerInvariant, PTL

\* Any number of servers and migrate commands may upgrade together, fail and be repeated:
\* unless one ran together with a rollback, the applied versions are 1..n.
THEOREM NoVersionIsSkipped == ServerSpec => []AppliedWithoutGap
<1>1. MigrationInv => AppliedWithoutGap
  BY Zenon DEF MigrationInv
<1>2. QED
  BY <1>1, ServerInvariant, PTL

\* The pools of an instance are open as long as a daemon runs, except after a start that
\* failed behind startBackgroundDaemons.
THEOREM DaemonsHavePools == ServerSpec => []DaemonsKeepTheirPools
<1>1. ProcessInv => DaemonsKeepTheirPools
  BY Zenon DEF ProcessInv, InstanceOK, At, DaemonsKeepTheirPools
<1>2. QED
  BY <1>1, ServerInvariant, PTL

\* The read pool is open as long as a call goes on, until a shutdown timeout expires.
THEOREM CallsHavePool == ServerSpec => []CallsKeepTheirPool
<1>1. ProcessInv => CallsKeepTheirPool
  <2>1. "read" \in AllResources
    BY Zenon DEF AllResources
  <2>2. QED
    BY <2>1, Zenon DEF ProcessInv, InstanceOK, At, CallsKeepTheirPool
<1>2. QED
  BY <1>1, ServerInvariant, PTL

\* A rollback that reports success leaves no version behind, unless it overlapped with an
\* upgrade or took an error for a missing table.
THEOREM RollbackIsComplete == ServerSpec => RollbackLeavesNothing
<1>1. ASSUME MigrationInv, ServerNext, NEW m \in Downs, mpc[m] # "done", mpc'[m] = "done"
      PROVE  applied' = {} \/ overlapped' \/ swallowed'
  <2>1. mpc \in [Migrators -> {"idle", "done", "failed"} \cup Running] /\ m \in Migrators /\ m \notin Ups
    BY <1>1, MigrationAssumption, Zenon DEF MigrationInv, MigrationTypeOK, Migrators
  <2>2. PICK n \in Migrators : MigrationStep(n) \/ Leave(n)
    BY <1>1, StepsSplit, Zenon DEF migrationVars
  <2>3. CASE RollbackMigrations(n)
    <3>1. mpc' = [mpc EXCEPT ![n] = IF hasTable THEN "exec" ELSE "done"] /\ applied' = applied
      BY <2>3, Zenon DEF RollbackMigrations, Enter, schema
    <3>2. ~hasTable
      BY <1>1, <2>1, <3>1, Zenon
    <3>3. QED
      BY <1>1, <3>1, <3>2, Zenon DEF MigrationInv, TableIsThere
  <2>4. CASE RollbackSwallows(n)
    BY <2>4, Zenon DEF RollbackSwallows
  <2>5. CASE MigrationsDone(n)
    <3>1. /\ mpc' = [mpc EXCEPT ![n] = "done"] /\ mpc[n] \in {"check", "exec"} /\ todo[n] = {}
          /\ applied' = applied /\ overlapped' = overlapped
      BY <2>5, Zenon DEF MigrationsDone, schema, observed
    <3>2. n = m /\ Migrating(m)
      BY <1>1, <2>1, <3>1, Zenon DEF Migrating, Running
    <3>3. ASSUME ~overlapped PROVE applied = {}
      <4>1. PICK k \in 0..LastVersion : todo[m] = 1..k /\ applied \subseteq 1..k
        BY <1>1, <3>2, <3>3, Zenon DEF MigrationInv, RollbackPosition
      <4>2. QED
        BY <3>1, <3>2, <4>1, Zenon
    <3>4. QED
      BY <3>1, <3>3, Zenon
  <2>6. CASE \/ RunMigrations(n) \/ SkipVersion(n) \/ FindMissing(n) \/ StatementFails(n)
             \/ CommitVersion(n) \/ MigrationFails(n) \/ Leave(n)
    <3>1. mpc' = mpc \/ \E pc \in {"check", "exec", "failed", "idle"} : mpc' = [mpc EXCEPT ![n] = pc]
      BY <2>6, Zenon DEF RunMigrations, SkipVersion, FindMissing, StatementFails, CommitVersion,
                  MigrationFails, Leave, Enter
    <3>2. QED
      BY <1>1, <2>1, <3>1, Zenon
  <2>7. CASE Statement(n)
    <3>1. OthersStay(n) /\ mpc'[n] \in Inside
      BY <1>1, <2>7, StatementShape, Zenon
    <3>2. QED
      BY <1>1, <2>1, <3>1, Zenon DEF OthersStay, Inside
  <2>8. QED
    BY <2>2, <2>3, <2>4, <2>5, <2>6, <2>7, Zenon DEF MigrationStep, Migrate, Statement
<1>2. MigrationInv /\ [ServerNext]_systemVars =>
        [\A m \in Downs : mpc[m] # "done" /\ mpc'[m] = "done" =>
           applied' = {} \/ overlapped' \/ swallowed']_systemVars
  BY <1>1, Zenon
<1>3. QED
  BY <1>2, ServerInvariant, PTL DEF ServerSpec, RollbackLeavesNothing
================================================================================
