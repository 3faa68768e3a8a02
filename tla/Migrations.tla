------------------------------ MODULE Migrations ------------------------------
(***************************************************************************)
(* runMigrations: every service that starts copies the database and brings *)
(* its schema up to date in one immediate transaction.  Several may start  *)
(* at once, and each may end between two statements; SQLite, which is      *)
(* external, then rolls the transaction back.  It commits by writing into  *)
(* the file of the database and dropping its journal afterwards, and it    *)
(* locks out readers meanwhile.  The copy is made of the file and asks for *)
(* no lock: beside a commit, or after one that was cut short, it is torn.  *)
(*                                                                         *)
(* A schema is the set of names it defines, tables and, as "runs.x", the   *)
(* columns added to runs.  Statements of one kind that follow each other   *)
(* are one batch: where in it a service ends makes no difference.          *)
(***************************************************************************)
EXTENDS Naturals, Sequences, FiniteSetsExt

CONSTANT Migrators       \* services that may start

ASSUME MigratorsAssumption == "none" \notin Migrators

VARIABLES
    schema,      \* what is committed: the names it defines, and the versions it records
    txn,         \* the write transaction that is open: whose, what it sees, how far it is
    hot,         \* the file holds part of a commit, which its journal can undo
    migrator,    \* per service: how far its start is
    copies       \* the pre-migration backups: what was committed, and whether the copy is torn

migrating == <<schema, txn, hot, migrator, copies>>

\* A statement IF NOT EXISTS may be run again; ADD COLUMN may not.
Create(names, needs) == [makes |-> names, needs |-> needs, again |-> TRUE]
AddColumns(names, needs) == [makes |-> names, needs |-> needs, again |-> FALSE]

InitialSchema == <<Create({"schema_migrations", "runs", "audit_events"}, {})>>

RunColumns ==
    {"runs.project_id", "runs.task", "runs.pipeline_type", "runs.state", "runs.base_commit",
     "runs.target_branch", "runs.branch_name", "runs.worktree_path", "runs.retention_class",
     "runs.keep", "runs.accepted_at", "runs.merge_verified_at", "runs.target_commit",
     "runs.completed_at", "runs.revision"}

CompletedGuards == {"runs_completed_insert_guard", "runs_completed_update_guard"}

WorkTables == {"steps", "agents", "capability_manifests", "attempts"}

RecordTables ==
    {"approval_requests", "approval_decisions", "context_sources", "artifacts", "checkpoints",
     "events", "audit_entries", "secret_grants", "preflight_results", "dependency_approvals",
     "backup_records", "update_records", "obsidian_writebacks"}

DomainModel ==
    <<Create({"projects"}, {}), AddColumns(RunColumns, {"runs"}), Create(CompletedGuards, {"runs"}),
      Create(WorkTables, {}), Create({"one_active_attempt_per_step"}, {"attempts"}),
      Create(RecordTables, {})>>

CURRENT_SCHEMA_VERSION == 2
MIGRATIONS == <<InitialSchema, DomainModel>>
SchemaVersions == 1..CURRENT_SCHEMA_VERSION

Makes(v) == UNION {MIGRATIONS[v][i].makes : i \in DOMAIN MIGRATIONS[v]}
Names == UNION {Makes(v) : v \in SchemaVersions}

SchemaOf(versions) == [names |-> UNION {Makes(v) : v \in versions}, recorded |-> versions]
NoTxn == [by |-> "none", names |-> {}, recorded |-> {}, at |-> 1]

Schemas == [names : SUBSET Names, recorded : SUBSET SchemaVersions]

MigrationsTypeOK ==
    /\ schema \in Schemas /\ hot \in BOOLEAN
    /\ copies \subseteq [of : Schemas, torn : BOOLEAN]
    /\ txn \in [by : Migrators \cup {"none"}, names : SUBSET Names, recorded : SUBSET SchemaVersions,
                at : Nat \ {0}]
    /\ migrator \in [Migrators -> {"idle", "copying", "tearing", "copied", "open", "writing",
                                   "done", "failed"}]

\* A database that is missing, or of any version.
MigrationsInit ==
    /\ \E v \in 0..CURRENT_SCHEMA_VERSION : schema = SchemaOf(1..v)
    /\ txn = NoTxn /\ hot = FALSE
    /\ migrator = [p \in Migrators |-> "idle"]
    /\ copies = {}

\* getSchemaVersion
SchemaVersion == IF schema.recorded = {} THEN 0 ELSE Max(schema.recorded)

Pending == SchemaVersions \ txn.recorded

\* There is no copy of a file that does not exist.  What a commit has begun to write is copied as it
\* stands: the database is opened, and its journal read, only afterwards.
CreateMigrationBackup(p) ==
    /\ migrator[p] = "idle"
    /\ \/ schema.names = {} /\ ~hot /\ migrator' = [migrator EXCEPT ![p] = "copied"]
       \/ migrator' = [migrator EXCEPT ![p] = IF hot THEN "tearing" ELSE "copying"]
    /\ UNCHANGED <<schema, txn, hot, copies>>

\* The copy is complete, or cut short: the service does not start.
FinishMigrationBackup(p) ==
    /\ migrator[p] \in {"copying", "tearing"}
    /\ \/ /\ migrator' = [migrator EXCEPT ![p] = "copied"]
          /\ copies' = copies \cup {[of |-> schema, torn |-> migrator[p] = "tearing"]}
       \/ /\ migrator' = [migrator EXCEPT ![p] = "failed"]
          /\ copies' = copies \cup {[of |-> schema, torn |-> TRUE]}
    /\ UNCHANGED <<schema, txn, hot>>

\* BEGIN IMMEDIATE, which first undoes a commit that was cut short, the table of versions, and what
\* it records.
BeginMigration(p) ==
    /\ migrator[p] = "copied" /\ txn = NoTxn
    /\ txn' = [by |-> p, names |-> schema.names \cup {"schema_migrations"},
               recorded |-> schema.recorded, at |-> 1]
    /\ hot' = FALSE
    /\ migrator' = [migrator EXCEPT ![p] = "open"]
    /\ UNCHANGED <<schema, copies>>

\* The database is locked: the service does not wait, it fails.
MigrationRefused(p) ==
    /\ migrator[p] = "copied" /\ txn # NoTxn
    /\ migrator' = [migrator EXCEPT ![p] = "failed"]
    /\ UNCHANGED <<schema, txn, hot, copies>>

Runs(batch, names) ==
    batch.needs \subseteq names /\ (batch.again \/ batch.makes \cap names = {})

\* A bug: the statements are committed one by one, and rolled back by nobody.
ExecuteInAutocommit(p) ==
    /\ migrator[p] = "open" /\ Pending # {}
    /\ LET batches == MIGRATIONS[Min(Pending)] IN
        /\ txn.at \in DOMAIN batches /\ Runs(batches[txn.at], txn.names)
        /\ txn' = [txn EXCEPT !.names = @ \cup batches[txn.at].makes, !.at = @ + 1]
        /\ schema' = [schema EXCEPT !.names = txn'.names]
    /\ UNCHANGED <<hot, migrator, copies>>

Execute(p) ==
    /\ migrator[p] = "open" /\ Pending # {}
    /\ LET batches == MIGRATIONS[Min(Pending)] IN
        /\ txn.at \in DOMAIN batches /\ Runs(batches[txn.at], txn.names)
        /\ txn' = [txn EXCEPT !.names = @ \cup batches[txn.at].makes, !.at = @ + 1]
    /\ UNCHANGED <<schema, hot, migrator, copies>>

RecordVersion(p) ==
    /\ migrator[p] = "open" /\ Pending # {}
    /\ txn.at = Len(MIGRATIONS[Min(Pending)]) + 1
    /\ txn' = [txn EXCEPT !.recorded = @ \cup {Min(Pending)}, !.at = 1]
    /\ UNCHANGED <<schema, hot, migrator, copies>>

\* COMMIT writes the pages into the file, under the feet of the copies that are being made ...
WritePages(p) ==
    /\ migrator[p] = "open" /\ Pending = {}
    /\ hot' = TRUE
    /\ migrator' = [q \in Migrators |-> IF q = p THEN "writing"
                                       ELSE IF migrator[q] = "copying" THEN "tearing"
                                       ELSE migrator[q]]
    /\ UNCHANGED <<schema, txn, copies>>

\* ... and is done when the journal is gone.
CommitMigration(p) ==
    /\ migrator[p] = "writing"
    /\ schema' = [names |-> txn.names, recorded |-> txn.recorded]
    /\ txn' = NoTxn /\ hot' = FALSE
    /\ migrator' = [migrator EXCEPT ![p] = "done"]
    /\ UNCHANGED copies

\* A statement throws (the disk is full), or the service ends: SQLite undoes what is open, at once
\* or, in a commit that the end of the service cut short, when the database is opened again.
RollBack(p) ==
    /\ migrator[p] \in {"open", "writing"}
    /\ txn' = NoTxn /\ hot' \in {FALSE, hot}
    /\ migrator' = [migrator EXCEPT ![p] = "failed"]
    /\ UNCHANGED <<schema, copies>>

\* The service is started again, after an end or at the next boot.
StartAgain(p) ==
    /\ migrator[p] \in {"copied", "done", "failed"}
    /\ migrator' = [migrator EXCEPT ![p] = "idle"]
    /\ UNCHANGED <<schema, txn, hot, copies>>

Migrate(p) ==
    \/ CreateMigrationBackup(p) \/ FinishMigrationBackup(p)
    \/ BeginMigration(p) \/ MigrationRefused(p)
    \/ Execute(p) \/ RecordVersion(p) \/ WritePages(p) \/ CommitMigration(p)
    \/ RollBack(p) \/ StartAgain(p)

-----------------------------------------------------------------------------

\* However many services start at once and wherever one ends, the database is of one version as a
\* whole: it defines what the versions it records make, and nothing of one it does not record.  So
\* is every copy made of it before a migration that is complete and met no commit; of a torn copy
\* nothing is known.
MigratedWhole ==
    /\ schema = SchemaOf(schema.recorded)
    /\ \A c \in copies : c.torn \/ c.of = SchemaOf(c.of.recorded)
=============================================================================
