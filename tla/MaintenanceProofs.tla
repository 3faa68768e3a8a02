--------------------------- MODULE MaintenanceProofs ---------------------------
(* Theorems about Maintenance and Migrations, for all files, versions,        *)
(* schedules, services that migrate, and bounds.                              *)
EXTENDS Maintenance, SequenceTheorems, TLAPS

-----------------------------------------------------------------------------
(* Migrations: the schema is that of a whole version                       *)

LEMMA VersionsAre == SchemaVersions = {1, 2}
BY DEF SchemaVersions, CURRENT_SCHEMA_VERSION

\* What is pending has a first version.
LEMMA MinOfVersions ==
    ASSUME NEW S, S \subseteq SchemaVersions, S # {} PROVE Min(S) \in S
<1>1. \E x \in S : \A y \in S : x <= y
    <2>1. CASE 1 \in S
        BY <2>1, VersionsAre
    <2>2. CASE 1 \notin S
        <3>1. S = {2}
            BY <2>2, VersionsAre
        <3>2. QED
            BY <3>1
    <2>3. QED
        BY <2>1, <2>2
<1>2. QED
    BY <1>1 DEF Min

\* A migration is a list of batches, and what it makes is what they make.
LEMMA BatchesAre ==
    ASSUME NEW v \in SchemaVersions
    PROVE  /\ Len(MIGRATIONS[v]) \in Nat
           /\ DOMAIN MIGRATIONS[v] = 1..Len(MIGRATIONS[v])
<1>1. CASE v = 1
    BY <1>1 DEF MIGRATIONS, InitialSchema
<1>2. CASE v = 2
    BY <1>2 DEF MIGRATIONS, DomainModel
<1>3. QED
    BY <1>1, <1>2, VersionsAre

LEMMA FirstMakesVersions == "schema_migrations" \in Makes(1) /\ 1 \in SchemaVersions
<1>1. MIGRATIONS[1] = InitialSchema /\ DOMAIN InitialSchema = {1}
    BY DEF MIGRATIONS, InitialSchema
<1>2. "schema_migrations" \in InitialSchema[1].makes
    BY DEF InitialSchema, Create
<1>3. QED
    BY <1>1, <1>2, VersionsAre DEF Makes

LEMMA MakesNames ==
    /\ \A v \in SchemaVersions : Makes(v) \subseteq Names
    /\ \A v \in SchemaVersions : \A i \in DOMAIN MIGRATIONS[v] :
        MIGRATIONS[v][i].makes \subseteq Makes(v)
    /\ "schema_migrations" \in Names
BY FirstMakesVersions DEF Names, Makes

\* What the open transaction has made so far.
MadeBy(versions) == UNION {Makes(v) : v \in versions}
MadeIn(v, n) == UNION {MIGRATIONS[v][i].makes : i \in 1..n}

TransactionOf ==
    /\ Pending = {} => txn.names = {"schema_migrations"} \cup MadeBy(txn.recorded)
    /\ Pending # {} =>
        /\ txn.at <= Len(MIGRATIONS[Min(Pending)]) + 1
        /\ txn.names = {"schema_migrations"} \cup MadeBy(txn.recorded) \cup MadeIn(Min(Pending), txn.at - 1)

Stages == {"idle", "copying", "tearing", "copied", "open", "writing", "done", "failed"}
StageType == migrator \in [Migrators -> Stages]
JournalType == hot \in BOOLEAN
FileSideType == schema \in Schemas /\ copies \subseteq [of : Schemas, torn : BOOLEAN]
TxnType ==
    txn \in [by : Migrators \cup {"none"}, names : SUBSET Names, recorded : SUBSET SchemaVersions,
            at : Nat \ {0}]

LEMMA MigrationsTypes ==
    /\ MigrationsTypeOK <=> JournalType /\ FileSideType /\ TxnType /\ StageType
    /\ MigrationsTypeOK' <=> JournalType' /\ FileSideType' /\ TxnType' /\ StageType'
BY DEF MigrationsTypeOK, JournalType, FileSideType, TxnType, StageType, Stages

MigInv ==
    /\ MigrationsTypeOK
    /\ MigratedWhole
    /\ \A p \in Migrators :
        /\ migrator[p] \in {"open", "writing"} => txn.by = p /\ TransactionOf
        /\ migrator[p] = "writing" => Pending = {}

LEMMA MigrationsInitInv == MigrationsInit => MigInv
<1> SUFFICES ASSUME MigrationsInit PROVE MigInv
    OBVIOUS
<1>1. PICK v \in 0..CURRENT_SCHEMA_VERSION : schema = SchemaOf(1..v)
    BY DEF MigrationsInit
<1>2. schema.recorded = 1..v /\ 1..v \subseteq SchemaVersions
    BY <1>1 DEF SchemaOf, SchemaVersions, CURRENT_SCHEMA_VERSION
<1>3. schema \in Schemas
    BY <1>1, <1>2, MakesNames DEF SchemaOf, Schemas
<1>4. MigrationsTypeOK
    <2>1. FileSideType /\ TxnType
        BY <1>3 DEF MigrationsInit, FileSideType, TxnType, NoTxn
    <2>2. StageType
        BY DEF MigrationsInit, StageType, Stages
    <2>3. JournalType
        BY DEF MigrationsInit, JournalType
    <2>4. QED
        BY <2>1, <2>2, <2>3, MigrationsTypes
<1>5. QED
    BY <1>1, <1>2, <1>4 DEF MigrationsInit, MigInv, MigratedWhole

LEMMA EmptyMade ==
    /\ \A v : MadeIn(v, 0) = {}
    /\ MadeBy({}) = {}
BY DEF MadeIn, MadeBy

LEMMA PendingAre == MigrationsTypeOK => (Pending # {} => Min(Pending) \in Pending /\ Min(Pending) \in SchemaVersions)
BY MinOfVersions DEF Pending

LEMMA BeginKeeps ==
    ASSUME MigInv, NEW p \in Migrators, BeginMigration(p) PROVE MigInv'
<1>1. /\ txn' = [by |-> p, names |-> schema.names \cup {"schema_migrations"},
                 recorded |-> schema.recorded, at |-> 1]
      /\ migrator' = [migrator EXCEPT ![p] = "open"]
      /\ schema' = schema /\ copies' = copies /\ txn.by = "none" /\ hot' = FALSE
    BY DEF BeginMigration, NoTxn
<1>2. \A q \in Migrators : migrator[q] \notin {"open", "writing"}
    BY <1>1, MigratorsAssumption DEF MigInv
<1>3. schema.names = MadeBy(schema.recorded)
    BY DEF MigInv, MigratedWhole, SchemaOf, MadeBy
<1>4. MigrationsTypeOK'
    <2>1. FileSideType' /\ TxnType'
        BY <1>1, MakesNames, MigrationsTypes DEF MigInv, FileSideType, TxnType, Schemas
    <2>2. StageType'
        BY <1>1, MigrationsTypes DEF MigInv, StageType, Stages
    <2>3. JournalType'
        BY <1>1 DEF JournalType
    <2>4. QED
        BY <2>1, <2>2, <2>3, MigrationsTypes
<1>5. Pending' # {} => Min(Pending') \in SchemaVersions
    BY MinOfVersions DEF Pending
<1>6. TransactionOf'
    BY <1>1, <1>3, <1>5, EmptyMade, BatchesAre DEF TransactionOf, MigInv
<1>7. QED
    BY <1>1, <1>2, <1>4, <1>6 DEF MigInv, MigratedWhole, MigrationsTypeOK

LEMMA ExecuteKeeps ==
    ASSUME MigInv, NEW p \in Migrators, Execute(p) PROVE MigInv'
<1> DEFINE v == Min(Pending)
           batches == MIGRATIONS[v]
<1>1. /\ txn.at \in DOMAIN batches /\ Pending # {} /\ migrator[p] = "open"
      /\ txn' = [txn EXCEPT !.names = @ \cup batches[txn.at].makes, !.at = @ + 1]
      /\ schema' = schema /\ hot' = hot /\ migrator' = migrator /\ copies' = copies
    BY DEF Execute
<1>2. txn.by = p /\ TransactionOf /\ MigrationsTypeOK
    BY <1>1 DEF MigInv
<1>3. v \in SchemaVersions
    BY <1>1, <1>2, PendingAre
<1>4. /\ txn'.by = txn.by /\ txn'.recorded = txn.recorded
      /\ txn'.names = txn.names \cup batches[txn.at].makes /\ txn'.at = txn.at + 1
    BY <1>1, <1>2 DEF MigrationsTypeOK
<1>5. MigrationsTypeOK'
    <2>1. batches[txn.at].makes \subseteq Names
        BY <1>1, <1>3, MakesNames
    <2>2. txn.names \cup batches[txn.at].makes \in SUBSET Names /\ txn.at + 1 \in Nat \ {0}
        BY <1>2, <2>1 DEF MigrationsTypeOK
    <2>3. txn' \in [by : Migrators \cup {"none"}, names : SUBSET Names,
                    recorded : SUBSET SchemaVersions, at : Nat \ {0}]
        BY <1>1, <1>2, <2>2 DEF MigrationsTypeOK
    <2>4. QED
        BY <1>1, <1>2, <2>3 DEF MigrationsTypeOK
<1>6. Pending' = Pending
    BY <1>4 DEF Pending
<1>7. txn.at \in 1..Len(batches) /\ Len(batches) \in Nat
    BY <1>1, <1>3, BatchesAre
<1>8. MadeIn(v, txn'.at - 1) = MadeIn(v, txn.at - 1) \cup batches[txn.at].makes
    <2>1. txn'.at - 1 = txn.at /\ 1..txn.at = 1..(txn.at - 1) \cup {txn.at}
        BY <1>4, <1>7
    <2>2. QED
        BY <2>1 DEF MadeIn
<1>9. TransactionOf'
    <2>1. txn'.at <= Len(batches) + 1
        BY <1>4, <1>7
    <2>2. QED
        BY <1>1, <1>2, <1>4, <1>6, <1>8, <2>1 DEF TransactionOf
<1>10. QED
    BY <1>1, <1>2, <1>4, <1>5, <1>9 DEF MigInv, MigratedWhole

LEMMA RecordKeeps ==
    ASSUME MigInv, NEW p \in Migrators, RecordVersion(p) PROVE MigInv'
<1> DEFINE v == Min(Pending)
<1>1. /\ Pending # {} /\ migrator[p] = "open"
      /\ txn.at = Len(MIGRATIONS[v]) + 1
      /\ txn' = [txn EXCEPT !.recorded = @ \cup {v}, !.at = 1]
      /\ schema' = schema /\ hot' = hot /\ migrator' = migrator /\ copies' = copies
    BY DEF RecordVersion
<1>2. txn.by = p /\ TransactionOf /\ MigrationsTypeOK
    BY <1>1 DEF MigInv
<1>3. v \in SchemaVersions
    BY <1>1, <1>2, PendingAre
<1>4. /\ txn'.by = txn.by /\ txn'.recorded = txn.recorded \cup {v}
      /\ txn'.names = txn.names /\ txn'.at = 1
    BY <1>1, <1>2 DEF MigrationsTypeOK
<1>5. MigrationsTypeOK'
    <2>1. txn.recorded \cup {v} \in SUBSET SchemaVersions
        BY <1>2, <1>3 DEF MigrationsTypeOK
    <2>2. txn' = [by |-> txn.by, names |-> txn.names, recorded |-> txn.recorded \cup {v}, at |-> 1]
        BY <1>1, <1>2 DEF MigrationsTypeOK
    <2>3. txn.by \in Migrators \cup {"none"} /\ txn.names \in SUBSET Names
        BY <1>2 DEF MigrationsTypeOK
    <2>4. txn' \in [by : Migrators \cup {"none"}, names : SUBSET Names,
                    recorded : SUBSET SchemaVersions, at : Nat \ {0}]
        BY <2>1, <2>2, <2>3
    <2>5. QED
        BY <1>1, <1>2, <2>4 DEF MigrationsTypeOK
<1>6. MadeIn(v, txn.at - 1) = Makes(v)
    <2>1. txn.at - 1 = Len(MIGRATIONS[v]) /\ DOMAIN MIGRATIONS[v] = 1..(txn.at - 1)
        BY <1>1, <1>3, BatchesAre
    <2>2. QED
        BY <2>1 DEF MadeIn, Makes
<1>7. MadeBy(txn'.recorded) = MadeBy(txn.recorded) \cup Makes(v)
    BY <1>4 DEF MadeBy
<1>8. txn'.names = {"schema_migrations"} \cup MadeBy(txn'.recorded)
    <2>1. txn.names = {"schema_migrations"} \cup MadeBy(txn.recorded) \cup MadeIn(v, txn.at - 1)
        BY <1>1, <1>2 DEF TransactionOf
    <2>2. QED
        BY <1>4, <1>6, <1>7, <2>1
<1>9. TransactionOf'
    <2>1. Pending' # {} => Min(Pending') \in SchemaVersions
        BY MinOfVersions DEF Pending
    <2>2. QED
        BY <1>4, <1>8, <2>1, EmptyMade, BatchesAre DEF TransactionOf
<1>10. QED
    BY <1>1, <1>2, <1>4, <1>5, <1>9 DEF MigInv, MigratedWhole

LEMMA CommitKeeps ==
    ASSUME MigInv, NEW p \in Migrators, CommitMigration(p) PROVE MigInv'
<1>1. /\ migrator[p] = "writing"
      /\ schema' = [names |-> txn.names, recorded |-> txn.recorded]
      /\ txn' = NoTxn /\ hot' = FALSE
      /\ migrator' = [migrator EXCEPT ![p] = "done"] /\ copies' = copies
    BY DEF CommitMigration
<1>2. txn.by = p /\ TransactionOf /\ MigrationsTypeOK /\ Pending = {}
    BY <1>1 DEF MigInv
<1>3. txn.recorded = SchemaVersions
    BY <1>2 DEF Pending, MigrationsTypeOK
<1>4. "schema_migrations" \in MadeBy(txn.recorded)
    BY <1>3, FirstMakesVersions DEF MadeBy
<1>5. schema' = SchemaOf(schema'.recorded)
    BY <1>1, <1>2, <1>4 DEF TransactionOf, SchemaOf, MadeBy
<1>6. MigrationsTypeOK'
    <2>1. FileSideType' /\ TxnType'
        BY <1>1, <1>2, MigrationsTypes DEF FileSideType, TxnType, Schemas, NoTxn
    <2>2. StageType'
        BY <1>1, <1>2, MigrationsTypes DEF StageType, Stages
    <2>3. JournalType'
        BY <1>1 DEF JournalType
    <2>4. QED
        BY <2>1, <2>2, <2>3, MigrationsTypes
<1>7. \A q \in Migrators : migrator'[q] \notin {"open", "writing"}
    BY <1>1, <1>2, MigrationsTypes DEF MigInv, StageType
<1>8. QED
    BY <1>1, <1>5, <1>6, <1>7 DEF MigInv, MigratedWhole

\* The copies that are being made are torn from now on, and nothing else is.
LEMMA WriteKeeps ==
    ASSUME MigInv, NEW p \in Migrators, WritePages(p) PROVE MigInv'
<1>1. /\ migrator[p] = "open" /\ Pending = {} /\ hot' = TRUE
      /\ migrator' = [q \in Migrators |-> IF q = p THEN "writing"
                                         ELSE IF migrator[q] = "copying" THEN "tearing"
                                         ELSE migrator[q]]
      /\ schema' = schema /\ txn' = txn /\ copies' = copies
    BY DEF WritePages
<1>2. MigrationsTypeOK'
    BY <1>1 DEF MigInv, MigrationsTypeOK
<1>3. Pending' = Pending /\ (TransactionOf => TransactionOf')
    BY <1>1 DEF Pending, TransactionOf
<1>4. \A q \in Migrators : migrator'[q] \in {"open", "writing"} => txn'.by = q /\ TransactionOf'
    BY <1>1, <1>3 DEF MigInv
<1>5. QED
    BY <1>1, <1>2, <1>3, <1>4 DEF MigInv, MigratedWhole

\* A copy that met no commit is of what is committed when it is complete.
LEMMA CopyKeeps ==
    ASSUME MigInv, NEW p \in Migrators, FinishMigrationBackup(p) PROVE MigInv'
<1>1. /\ \E torn \in BOOLEAN : copies' = copies \cup {[of |-> schema, torn |-> torn]}
      /\ \E at \in {"copied", "failed"} : migrator' = [migrator EXCEPT ![p] = at]
      /\ schema' = schema /\ txn' = txn /\ hot' = hot
    BY DEF FinishMigrationBackup
<1>2. MigrationsTypeOK'
    BY <1>1 DEF MigInv, MigrationsTypeOK
<1>3. MigratedWhole'
    BY <1>1 DEF MigInv, MigratedWhole
<1>4. QED
    BY <1>1, <1>2, <1>3 DEF MigInv, MigrationsTypeOK, TransactionOf, Pending

\* A service without a transaction goes on, and nothing else happens.
LEMMA GoingOnKeeps ==
    ASSUME MigInv, NEW p \in Migrators, NEW at \in Stages \ {"open", "writing"},
           migrator' = [migrator EXCEPT ![p] = at], UNCHANGED <<schema, txn, hot, copies>>
    PROVE  MigInv'
<1>1. StageType'
    BY MigrationsTypes DEF MigInv, StageType
<1>2. JournalType' /\ FileSideType' /\ TxnType'
    BY MigrationsTypes DEF MigInv, JournalType, FileSideType, TxnType
<1>3. Pending' = Pending /\ (TransactionOf => TransactionOf')
    BY DEF Pending, TransactionOf
<1>4. \A q \in Migrators : migrator'[q] \in {"open", "writing"} => migrator'[q] = migrator[q]
    BY MigrationsTypes DEF MigInv, StageType
<1>5. QED
    BY <1>1, <1>2, <1>3, <1>4, MigrationsTypes DEF MigInv, MigratedWhole

LEMMA MigrateKeeps ==
    ASSUME MigInv, NEW p \in Migrators, Migrate(p) PROVE MigInv'
<1>1. CASE CreateMigrationBackup(p)
    BY <1>1, GoingOnKeeps DEF CreateMigrationBackup, Stages
<1>2. CASE FinishMigrationBackup(p)
    BY <1>2, CopyKeeps
<1>3. CASE BeginMigration(p)
    BY <1>3, BeginKeeps
<1>4. CASE MigrationRefused(p)
    BY <1>4, GoingOnKeeps DEF MigrationRefused, Stages
<1>5. CASE Execute(p)
    BY <1>5, ExecuteKeeps
<1>6. CASE RecordVersion(p)
    BY <1>6, RecordKeeps
<1>7. CASE WritePages(p)
    BY <1>7, WriteKeeps
<1>8. CASE CommitMigration(p)
    BY <1>8, CommitKeeps
<1>9. CASE RollBack(p)
    <2>1. /\ migrator[p] \in {"open", "writing"} /\ migrator' = [migrator EXCEPT ![p] = "failed"]
          /\ txn' = NoTxn /\ hot' \in {FALSE, hot} /\ schema' = schema /\ copies' = copies
        BY <1>9 DEF RollBack
    <2>2. FileSideType' /\ TxnType' /\ StageType'
        BY <2>1, MigrationsTypes DEF MigInv, FileSideType, TxnType, StageType, Stages, NoTxn
    <2>3. JournalType'
        BY <2>1, MigrationsTypes DEF MigInv, JournalType
    <2>4. \A q \in Migrators : migrator'[q] \notin {"open", "writing"}
        BY <2>1, MigrationsTypes DEF MigInv, StageType
    <2>5. QED
        BY <2>1, <2>2, <2>3, <2>4, MigrationsTypes DEF MigInv, MigratedWhole
<1>10. CASE StartAgain(p)
    BY <1>10, GoingOnKeeps DEF StartAgain, Stages
<1>11. QED
    BY <1>1, <1>2, <1>3, <1>4, <1>5, <1>6, <1>7, <1>8, <1>9, <1>10 DEF Migrate

-----------------------------------------------------------------------------
(* Types                                                                   *)

LEMMA SeqExcept ==
    ASSUME NEW S, NEW q \in Seq(S), NEW i \in DOMAIN q, NEW x \in S
    PROVE  /\ [q EXCEPT ![i] = x] \in Seq(S)
           /\ Len([q EXCEPT ![i] = x]) = Len(q) /\ DOMAIN [q EXCEPT ![i] = x] = DOMAIN q
BY ExceptSeq, LenProperties

LEMMA SeqOfFunction ==
    ASSUME NEW S, NEW n \in Nat, NEW q \in [1..n -> S]
    PROVE  q \in Seq(S) /\ Len(q) = n
OBVIOUS

Tasks == [op : {"none", "hash", "copy", "restore", "install", "remove", "write"}, on : Nat, todo : SUBSET Files]
Restores == [plan : {"none", "Planned", "Blocked"}, of : Nat, snapshot : BOOLEAN,
             end : {"none", "Restored", "Verified", "Blocked"}]
Updates == [plan : {"none", "Planned", "Blocked"}, from : 0..LastVersion, to : 0..LastVersion,
            snapshot : BOOLEAN, installed : BOOLEAN, smoke : BOOLEAN]
Drafts == [state : {"none", "Draft", "Approved", "Conflict"}, expects : Note, read : Note]

LEMMA Initials ==
    /\ Idle \in Tasks /\ NoUpdate \in Updates /\ Nowhere \in Contents
    /\ \A n \in Nat : NoRestore \in [plan : {"none", "Planned", "Blocked"}, of : 0..n, snapshot : BOOLEAN,
                                    end : {"none", "Restored", "Verified", "Blocked"}]
    /\ \A op \in {"hash", "copy", "restore", "install", "remove"}, on \in Nat :
        [op |-> op, on |-> on, todo |-> Files] \in Tasks
BY MaintenanceAssumption DEF Idle, Tasks, NoUpdate, Updates, Nowhere, Contents, NoRestore

\* A job takes a file off its list, or it begins with all of them.
LEMMA TaskSteps ==
    ASSUME TypeOK
    PROVE  /\ \A f : Done(f) => /\ task' \in Tasks /\ task'.op = task.op /\ task'.on = task.on
                                /\ task'.todo = task.todo \ {f}
           /\ \A op \in {"hash", "copy", "restore", "install", "remove"}, on \in Nat :
                Begin(op, on) => /\ task' \in Tasks /\ task'.op = op /\ task'.on = on /\ task'.todo = Files
BY Initials DEF TypeOK, Tasks, Done, Begin

\* One backup is changed: the list keeps its length.
LEMMA BackupChanged ==
    ASSUME TypeOK, NEW b \in DOMAIN backups, NEW x \in Backups, backups' = [backups EXCEPT ![b] = x]
    PROVE  /\ backups' \in Seq(Backups) /\ Len(backups') = Len(backups) /\ DOMAIN backups' = DOMAIN backups
           /\ backups'[b] = x /\ \A c \in DOMAIN backups \ {b} : backups'[c] = backups[c]
BY SeqExcept DEF TypeOK

LEMMA InitTypes == Init => TypeOK
<1> SUFFICES ASSUME Init PROVE TypeOK
    OBVIOUS
<1>1. MigrationsTypeOK
    BY MigrationsInitInv DEF Init, MigInv
<1>2. live \in Contents /\ seen \subseteq Contents
    BY DEF Init, Contents
<1>3. backups \in Seq(Backups) /\ Len(backups) = 0
    BY DEF Init
<1>4. restore \in [plan : {"none", "Planned", "Blocked"}, of : 0..Len(backups), snapshot : BOOLEAN,
                   end : {"none", "Restored", "Verified", "Blocked"}]
    BY <1>3, Initials DEF Init
<1>5. update \in Updates /\ task \in Tasks
    BY Initials DEF Init
<1>6. note \in Note /\ draft \in Drafts
    BY DEF Init, Note, Drafts, NoDraft
<1>7. releases \in [Versions -> SUBSET Files] /\ marker \in 0..LastVersion
    BY MaintenanceAssumption DEF Init, Versions
<1>8. QED
    BY <1>1, <1>2, <1>3, <1>4, <1>5, <1>6, <1>7 DEF Init, TypeOK, Updates, Tasks, Drafts

\* The parts of the type invariant, by the jobs that touch them.
LiveType == live \in Contents /\ live \in seen /\ seen \subseteq Contents
BackupType == backups \in Seq(Backups) /\ active \in BOOLEAN
RestoreType ==
    restore \in [plan : {"none", "Planned", "Blocked"}, of : 0..Len(backups), snapshot : BOOLEAN,
                 end : {"none", "Restored", "Verified", "Blocked"}]
UpdateType ==
    update \in Updates /\ releases \in [Versions -> SUBSET Files] /\ marker \in 0..LastVersion
WriteType == note \in Note /\ draft \in Drafts
CountType == jobs \in Schedules /\ edits \in Nat /\ crashes \in Nat
FileType ==
    LiveType /\ BackupType /\ RestoreType /\ task \in Tasks /\ UpdateType /\ WriteType /\ CountType

LEMMA TypeParts ==
    (TypeOK <=> FileType /\ MigrationsTypeOK) /\ (TypeOK' <=> FileType' /\ MigrationsTypeOK')
BY DEF TypeOK, FileType, LiveType, BackupType, RestoreType, UpdateType, WriteType, CountType,
       Tasks, Updates, Drafts

\* A job of backup or restore is about a backup that exists.
OnBackup ==
    /\ task.op \in {"hash", "copy", "restore"} => task.on \in DOMAIN backups
    /\ restore.of = 0 => restore.plan = "none"

LEMMA Untouched ==
    /\ LiveType /\ UNCHANGED <<live, seen>> => LiveType'
    /\ BackupType /\ UNCHANGED <<backups, active>> => BackupType'
    /\ RestoreType /\ UNCHANGED restore /\ Len(backups') = Len(backups) => RestoreType'
    /\ UpdateType /\ UNCHANGED updating => UpdateType'
    /\ WriteType /\ UNCHANGED writing => WriteType'
    /\ CountType /\ UNCHANGED <<jobs, edits, crashes>> => CountType'
BY DEF LiveType, BackupType, RestoreType, UpdateType, WriteType, CountType, updating, writing

LEMMA OtherFile ==
    ASSUME NEW b \in Backups, NEW m \in Contents PROVE [b EXCEPT !.file = m] \in Backups
<1>1. b = [mode |-> b.mode, hash |-> b.hash, file |-> b.file, complete |-> b.complete]
    BY DEF Backups
<1>2. [b EXCEPT !.file = m] = [mode |-> b.mode, hash |-> b.hash, file |-> m, complete |-> b.complete]
    BY <1>1
<1>3. QED
    BY <1>2 DEF Backups

\* A backup that is changed in one of its parts.
LEMMA BackupParts ==
    ASSUME NEW b \in Backups, NEW f \in Files, NEW n \in Nat
    PROVE  /\ [b EXCEPT !.hash[f] = n] \in Backups
           /\ [b EXCEPT !.file[f] = n] \in Backups
           /\ [b EXCEPT !.complete = TRUE] \in Backups
           /\ [b EXCEPT !.complete = FALSE, !.file = Nowhere] \in Backups
<1>1. b = [mode |-> b.mode, hash |-> b.hash, file |-> b.file, complete |-> b.complete]
    BY DEF Backups
<1>2. b.mode \in Modes /\ b.hash \in Contents /\ b.file \in Contents /\ b.complete \in BOOLEAN
    BY DEF Backups
<1>3. [b.hash EXCEPT ![f] = n] \in Contents /\ [b.file EXCEPT ![f] = n] \in Contents
    BY <1>2 DEF Contents
<1>4. [b EXCEPT !.hash[f] = n]
        = [mode |-> b.mode, hash |-> [b.hash EXCEPT ![f] = n], file |-> b.file, complete |-> b.complete]
    BY <1>1
<1>5. [b EXCEPT !.file[f] = n]
        = [mode |-> b.mode, hash |-> b.hash, file |-> [b.file EXCEPT ![f] = n], complete |-> b.complete]
    BY <1>1
<1>6. \A c \in BOOLEAN : [b EXCEPT !.complete = c]
                            = [mode |-> b.mode, hash |-> b.hash, file |-> b.file, complete |-> c]
    BY <1>1
<1>7. \A c \in BOOLEAN : [b EXCEPT !.complete = c] \in Backups
    BY <1>2, <1>6 DEF Backups
<1>8. [b EXCEPT !.complete = TRUE] \in Backups /\ [b EXCEPT !.complete = FALSE] \in Backups
    BY <1>7, Zenon
<1>9. [b EXCEPT !.complete = FALSE, !.file = Nowhere] = [[b EXCEPT !.complete = FALSE] EXCEPT !.file = Nowhere]
    OBVIOUS
<1>10. QED
    BY <1>2, <1>3, <1>4, <1>5, <1>8, <1>9, OtherFile, Initials DEF Backups

LEMMA LiveNumbers ==
    FileType => /\ \A f \in Files : live[f] \in Nat
                /\ \A b \in DOMAIN backups : backups[b] \in Backups
                /\ \E f \in Files : f \in Files
BY MaintenanceAssumption DEF FileType, LiveType, BackupType, Contents

LEMMA OutsideTypes ==
    ASSUME TypeOK,
           \/ \E f \in Files : Edit(f)
           \/ EditNote
           \/ \E b \in DOMAIN backups : \E f \in Files : Damage(b, f)
           \/ RunStartsOrEnds
           \/ Crash
    PROVE  FileType'
<1>1. FileType
    BY TypeParts
<1>2. ASSUME NEW f \in Files, Edit(f) PROVE FileType'
    <2>1. LiveType' /\ CountType'
        BY <1>1, <1>2 DEF Edit, Disturb, Live, FileType, LiveType, CountType, Contents
    <2>2. QED
        BY <1>1, <1>2, <2>1, Untouched DEF Edit, FileType, restoring
<1>3. ASSUME EditNote PROVE FileType'
    <2>1. WriteType' /\ CountType'
        BY <1>1, <1>3 DEF EditNote, Disturb, FileType, WriteType, CountType, Note, Drafts
    <2>2. QED
        BY <1>1, <1>3, <2>1, Untouched DEF EditNote, FileType, restoring
<1>4. ASSUME NEW b \in DOMAIN backups, NEW f \in Files, Damage(b, f) PROVE FileType'
    <2>1. backups[b] \in Backups
        BY <1>1 DEF FileType, BackupType
    <2>2. [backups[b] EXCEPT !.file[f] = 0] \in Backups
        BY <2>1, BackupParts
    <2>3. backups' = [backups EXCEPT ![b] = [backups[b] EXCEPT !.file[f] = 0]]
        BY <1>4 DEF Damage
    <2>4. backups' \in Seq(Backups) /\ Len(backups') = Len(backups)
        BY <2>2, <2>3, BackupChanged
    <2>5. CountType' /\ BackupType'
        BY <1>1, <1>4, <2>4 DEF Damage, Disturb, FileType, CountType, BackupType
    <2>6. QED
        BY <1>1, <1>4, <2>4, <2>5, Untouched DEF Damage, FileType
<1>5. ASSUME RunStartsOrEnds PROVE FileType'
    <2>1. BackupType'
        BY <1>1, <1>5 DEF RunStartsOrEnds, FileType, BackupType
    <2>2. QED
        BY <1>1, <1>5, <2>1, Untouched DEF RunStartsOrEnds, FileType
<1>6. ASSUME Crash PROVE FileType'
    <2>1. Len(backups) \in Nat
        BY <1>1, LenProperties DEF FileType, BackupType
    <2>2. RestoreType' /\ task' \in Tasks
        BY <1>6, <2>1, Initials DEF Crash, RestoreType
    <2>3. UpdateType' /\ CountType'
        BY <1>1, <1>6, Initials DEF Crash, FileType, UpdateType, CountType
    <2>4. QED
        BY <1>1, <1>6, <2>2, <2>3, Untouched DEF Crash, FileType
<1>7. QED
    BY <1>2, <1>3, <1>4, <1>5, <1>6

LEMMA BackupTypes ==
    ASSUME TypeOK, OnBackup,
           \/ \E mode \in Modes : BeginBackup(mode)
           \/ \E f \in Files : HashFile(f) \/ CopyFile(f)
           \/ BackupFails
           \/ FinishBackup
           \/ Prune
    PROVE  FileType'
<1>1. FileType /\ Len(backups) \in Nat /\ DOMAIN backups = 1..Len(backups)
    BY TypeParts, LenProperties DEF FileType, BackupType
<1>2. ASSUME NEW mode \in Modes, BeginBackup(mode) PROVE FileType'
    <2>1. [mode |-> mode, hash |-> Nowhere, file |-> Nowhere, complete |-> FALSE] \in Backups
        BY Initials DEF Backups
    <2>2. backups' \in Seq(Backups) /\ Len(backups') = Len(backups) + 1
        BY <1>1, <1>2, <2>1, AppendProperties DEF BeginBackup, FileType, BackupType
    <2>3. task' \in Tasks
        BY <1>1, <1>2, <2>2, TaskSteps DEF BeginBackup
    <2>4. RestoreType' /\ BackupType'
        BY <1>1, <1>2, <2>2 DEF BeginBackup, FileType, RestoreType, BackupType
    <2>5. QED
        BY <1>1, <1>2, <2>3, <2>4, Untouched DEF BeginBackup, FileType
<1>3. ASSUME task.on \in DOMAIN backups, NEW x \in Backups, backups' = [backups EXCEPT ![task.on] = x],
             task' \in Tasks, UNCHANGED <<jobs, live, seen, restore, active, updating, writing, edits, crashes>>
      PROVE  FileType'
    <2>1. backups' \in Seq(Backups) /\ Len(backups') = Len(backups)
        BY <1>3, BackupChanged
    <2>2. QED
        BY <1>1, <1>3, <2>1, Untouched DEF FileType, BackupType
<1>4. ASSUME NEW f \in Files, HashFile(f) PROVE FileType'
    <2>1. task' \in Tasks
        BY <1>1, <1>4, TaskSteps DEF HashFile, FileType, Tasks
    <2>2. backups' = [backups EXCEPT ![task.on] = [backups[task.on] EXCEPT !.hash[f] = live[f]]]
        BY <1>4 DEF HashFile
    <2>3. [backups[task.on] EXCEPT !.hash[f] = live[f]] \in Backups
        BY <1>1, <1>4, BackupParts, LiveNumbers DEF HashFile, OnBackup
    <2>4. QED
        BY <1>3, <1>4, <2>1, <2>2, <2>3 DEF HashFile, OnBackup
<1>5. ASSUME NEW f \in Files, CopyFile(f) PROVE FileType'
    <2>1. task' \in Tasks
        BY <1>5, TaskSteps DEF CopyFile
    <2>2. backups' = [backups EXCEPT ![task.on] = [backups[task.on] EXCEPT !.file[f] = live[f]]]
        BY <1>5 DEF CopyFile
    <2>3. [backups[task.on] EXCEPT !.file[f] = live[f]] \in Backups
        BY <1>1, <1>5, BackupParts, LiveNumbers DEF CopyFile, OnBackup
    <2>4. QED
        BY <1>3, <1>5, <2>1, <2>2, <2>3 DEF CopyFile, OnBackup
<1>6. ASSUME BackupFails PROVE FileType'
    BY <1>1, <1>6, Initials, Untouched DEF BackupFails, FileType, restoring
<1>7. ASSUME FinishBackup PROVE FileType'
    <2>1. backups' = [backups EXCEPT ![task.on] = [backups[task.on] EXCEPT !.complete = TRUE]]
        BY <1>7 DEF FinishBackup
    <2>2. [backups[task.on] EXCEPT !.complete = TRUE] \in Backups
        BY <1>1, <1>7, BackupParts, LiveNumbers DEF FinishBackup, OnBackup
    <2>3. QED
        BY <1>3, <1>7, <2>1, <2>2, Initials DEF FinishBackup, OnBackup
<1>8. ASSUME Prune PROVE FileType'
    <2>1. \A b \in DOMAIN backups : /\ backups[b] \in Backups
                                  /\ [backups[b] EXCEPT !.complete = FALSE, !.file = Nowhere] \in Backups
        BY <1>1, BackupParts, LiveNumbers
    <2>2. backups' \in [1..Len(backups) -> Backups]
        BY <1>1, <1>8, <2>1 DEF Prune
    <2>3. backups' \in Seq(Backups) /\ Len(backups') = Len(backups)
        BY <1>1, <2>2, SeqOfFunction
    <2>4. QED
        BY <1>1, <1>8, <2>3, Untouched DEF Prune, FileType, BackupType
<1>9. QED
    BY <1>2, <1>4, <1>5, <1>6, <1>7, <1>8

LEMMA RestoreTypes ==
    ASSUME TypeOK, OnBackup,
           \/ \E b \in DOMAIN backups : \E preflight \in BOOLEAN : PlanRestore(b, preflight)
           \/ PreRestoreSnapshot
           \/ ExecuteRestore
           \/ \E f \in Files : RestoreFile(f)
           \/ RestoreFails
           \/ FinishRestore
           \/ \E preflight \in BOOLEAN : VerifyRestore(preflight)
           \/ RollbackRestore
    PROVE  FileType'
<1>1. FileType /\ Len(backups) \in Nat /\ DOMAIN backups = 1..Len(backups)
    BY TypeParts, LenProperties DEF FileType, BackupType
<1>2. ASSUME NEW b \in DOMAIN backups, NEW preflight \in BOOLEAN, PlanRestore(b, preflight)
      PROVE  FileType'
    <2>1. restore' = [plan |-> IF active \/ ~Integrity(b) \/ ~preflight THEN "Blocked" ELSE "Planned",
                      of |-> b, snapshot |-> FALSE, end |-> "none"]
        BY <1>2 DEF PlanRestore, NoRestore
    <2>2. restore'.plan \in {"Planned", "Blocked"} /\ restore'.of = b /\ Len(backups') = Len(backups)
        BY <1>2, <2>1 DEF PlanRestore
    <2>3. RestoreType'
        BY <1>1, <2>1, <2>2 DEF RestoreType
    <2>4. QED
        BY <1>1, <1>2, <2>3, Untouched DEF PlanRestore, FileType
<1>3. ASSUME PreRestoreSnapshot PROVE FileType'
    <2>1. RestoreType'
        BY <1>1, <1>3 DEF PreRestoreSnapshot, FileType, RestoreType
    <2>2. QED
        BY <1>1, <1>3, <2>1, Untouched DEF PreRestoreSnapshot, FileType
<1>4. ASSUME ExecuteRestore PROVE FileType'
    <2>1. restore.of \in Nat
        BY <1>1 DEF FileType, RestoreType
    <2>2. task' \in Tasks
        BY <1>4, <2>1, TaskSteps DEF ExecuteRestore
    <2>3. QED
        BY <1>1, <1>4, <2>2, Untouched DEF ExecuteRestore, FileType, restoring
<1>5. ASSUME NEW f \in Files, RestoreFile(f) PROVE FileType'
    <2>1. task' \in Tasks
        BY <1>5, TaskSteps DEF RestoreFile
    <2>2. backups[task.on].file[f] \in Nat
        BY <1>1, <1>5, LiveNumbers DEF RestoreFile, OnBackup, Backups, Contents
    <2>3. LiveType'
        BY <1>1, <1>5, <2>2 DEF RestoreFile, Live, FileType, LiveType, Contents
    <2>4. QED
        BY <1>1, <1>5, <2>1, <2>3, Untouched DEF RestoreFile, FileType, restoring
<1>6. ASSUME RestoreFails PROVE FileType'
    BY <1>1, <1>6, Initials, Untouched DEF RestoreFails, FileType, restoring
<1>7. ASSUME FinishRestore PROVE FileType'
    <2>1. RestoreType'
        BY <1>1, <1>7 DEF FinishRestore, FileType, RestoreType
    <2>2. QED
        BY <1>1, <1>7, <2>1, Initials, Untouched DEF FinishRestore, FileType
<1>8. ASSUME NEW preflight \in BOOLEAN, VerifyRestore(preflight) PROVE FileType'
    <2>1. RestoreType'
        BY <1>1, <1>8 DEF VerifyRestore, FileType, RestoreType
    <2>2. QED
        BY <1>1, <1>8, <2>1, Untouched DEF VerifyRestore, FileType
<1>9. ASSUME RollbackRestore PROVE FileType'
    <2>1. RestoreType'
        BY <1>1, <1>9 DEF RollbackRestore, FileType, RestoreType
    <2>2. LiveType'
        BY <1>1, <1>9, Initials DEF RollbackRestore, Live, FileType, LiveType
    <2>3. QED
        BY <1>1, <1>9, <2>1, <2>2, Untouched DEF RollbackRestore, FileType
<1>10. QED
    BY <1>2, <1>3, <1>4, <1>5, <1>6, <1>7, <1>8, <1>9

LEMMA UpdateTypes ==
    ASSUME TypeOK,
           \/ PlanUpdate
           \/ PreUpdateSnapshot
           \/ BeginInstall
           \/ \E f \in Files : InstallFile(f) \/ RemoveFile(f)
           \/ FinishInstall
           \/ \E passed \in BOOLEAN : SmokeTest(passed)
           \/ Switch
           \/ RollbackUpdate
           \/ RewriteMarker
    PROVE  FileType'
<1>1. FileType
    BY TypeParts
<1>2. /\ update \in Updates /\ releases \in [Versions -> SUBSET Files] /\ marker \in 0..LastVersion
      /\ LastVersion \in Nat \ {0} /\ update.to \in Nat
    BY <1>1, MaintenanceAssumption DEF FileType, UpdateType, Updates
<1>3. ASSUME PlanUpdate PROVE FileType'
    <2>1. update' = [plan |-> IF active \/ marker = LastVersion THEN "Blocked" ELSE "Planned",
                     from |-> marker, to |-> LastVersion, snapshot |-> FALSE, installed |-> FALSE,
                     smoke |-> FALSE]
        BY <1>3 DEF PlanUpdate, NoUpdate
    <2>2. update' \in Updates
        BY <1>2, <2>1 DEF Updates
    <2>3. QED
        BY <1>1, <1>2, <1>3, <2>2, Untouched DEF PlanUpdate, FileType, UpdateType, restoring
<1>4. ASSUME PreUpdateSnapshot PROVE FileType'
    <2>1. update' \in Updates
        BY <1>2, <1>4 DEF PreUpdateSnapshot, Updates
    <2>2. QED
        BY <1>1, <1>2, <1>4, <2>1, Untouched DEF PreUpdateSnapshot, FileType, UpdateType, restoring
<1>5. ASSUME BeginInstall PROVE FileType'
    <2>1. task' \in Tasks
        BY <1>2, <1>5, TaskSteps DEF BeginInstall
    <2>2. QED
        BY <1>1, <1>5, <2>1, Untouched DEF BeginInstall, FileType, restoring
<1>6. ASSUME NEW f \in Files, InstallFile(f) PROVE FileType'
    <2>1. task' \in Tasks
        BY <1>1, <1>6, TaskSteps DEF InstallFile, FileType
    <2>2. releases' \in [Versions -> SUBSET Files]
        BY <1>2, <1>6 DEF InstallFile
    <2>3. QED
        BY <1>1, <1>2, <1>6, <2>1, <2>2, Untouched DEF InstallFile, FileType, UpdateType, restoring
<1>7. ASSUME FinishInstall PROVE FileType'
    <2>1. update' \in Updates
        BY <1>2, <1>7 DEF FinishInstall, Updates
    <2>2. QED
        BY <1>1, <1>2, <1>7, <2>1, Initials, Untouched DEF FinishInstall, FileType, UpdateType, restoring
<1>8. ASSUME NEW passed \in BOOLEAN, SmokeTest(passed) PROVE FileType'
    <2>1. update' \in Updates
        BY <1>2, <1>8 DEF SmokeTest, Updates
    <2>2. QED
        BY <1>1, <1>2, <1>8, <2>1, Untouched DEF SmokeTest, FileType, UpdateType, restoring
<1>9. ASSUME Switch PROVE FileType'
    <2>1. update.to \in 0..LastVersion
        BY <1>2 DEF Updates
    <2>2. QED
        BY <1>1, <1>2, <1>9, <2>1, Untouched DEF Switch, FileType, UpdateType, restoring
<1>10. ASSUME RollbackUpdate PROVE FileType'
    <2>1. task' \in Tasks
        BY <1>2, <1>10, TaskSteps DEF RollbackUpdate
    <2>2. QED
        BY <1>1, <1>2, <1>10, <2>1, Untouched DEF RollbackUpdate, FileType, UpdateType, restoring
<1>11. ASSUME RewriteMarker PROVE FileType'
    <2>1. update.from \in 0..LastVersion
        BY <1>2 DEF Updates
    <2>2. QED
        BY <1>1, <1>2, <1>11, <2>1, Untouched DEF RewriteMarker, FileType, UpdateType, restoring
<1>12. ASSUME NEW f \in Files, RemoveFile(f) PROVE FileType'
    <2>1. task' \in Tasks /\ update' \in Updates
        BY <1>2, <1>12, Initials, TaskSteps DEF RemoveFile
    <2>2. releases' \in [Versions -> SUBSET Files]
        BY <1>2, <1>12 DEF RemoveFile
    <2>3. QED
        BY <1>1, <1>2, <1>12, <2>1, <2>2, Untouched DEF RemoveFile, FileType, UpdateType, restoring
<1>13. QED
    BY <1>3, <1>4, <1>5, <1>6, <1>7, <1>8, <1>9, <1>10, <1>11, <1>12

LEMMA WritingTypes ==
    ASSUME TypeOK, CreateDraft \/ EditDraft \/ ApproveDraft \/ ReadNote \/ WriteNote
    PROVE  FileType'
<1>1. FileType /\ note \in Note /\ draft \in Drafts /\ draft.read \in Note /\ draft.expects \in Note
    BY TypeParts DEF FileType, WriteType, Drafts
<1>2. CASE CreateDraft
    <2>1. draft' = [state |-> "Draft", expects |-> note, read |-> [edit |-> 0, drafts |-> 0]]
        BY <1>2 DEF CreateDraft, NoDraft
    <2>2. draft' \in Drafts
        BY <1>1, <2>1 DEF Drafts, Note
    <2>3. QED
        BY <1>1, <1>2, <2>2, Untouched DEF CreateDraft, FileType, WriteType, restoring
<1>3. CASE EditDraft
    <2>1. draft' \in Drafts
        BY <1>1, <1>3 DEF EditDraft, Drafts
    <2>2. QED
        BY <1>1, <1>3, <2>1, Untouched DEF EditDraft, FileType, WriteType, restoring
<1>4. CASE ApproveDraft
    <2>1. draft' \in Drafts
        BY <1>1, <1>4 DEF ApproveDraft, Drafts
    <2>2. QED
        BY <1>1, <1>4, <2>1, Untouched DEF ApproveDraft, FileType, WriteType, restoring
<1>5. CASE ReadNote
    <2>1. draft' \in Drafts
        BY <1>1, <1>5 DEF ReadNote, Drafts
    <2>2. task' \in Tasks
        BY <1>1, <1>5 DEF ReadNote, FileType, Tasks
    <2>3. QED
        BY <1>1, <1>5, <2>1, <2>2, Untouched DEF ReadNote, FileType, WriteType, restoring
<1>6. CASE WriteNote
    <2>1. note' \in Note
        BY <1>1, <1>6 DEF WriteNote, Note
    <2>2. QED
        BY <1>1, <1>6, <2>1, Initials, Untouched DEF WriteNote, FileType, WriteType, restoring
<1>7. QED
    BY <1>2, <1>3, <1>4, <1>5, <1>6

LEMMA FileTypes == TypeOK /\ OnBackup /\ FileJob => FileType'
BY OutsideTypes, BackupTypes, RestoreTypes, UpdateTypes, WritingTypes DEF FileJob

LEMMA OnBackupKeeps ==
    ASSUME TypeOK, OnBackup, FileJob PROVE OnBackup'
<1> USE DEF OnBackup
<1>1. /\ Len(backups) \in Nat /\ DOMAIN backups = 1..Len(backups)
      /\ restore.of \in Nat /\ task \in Tasks /\ backups \in Seq(Backups)
    BY LenProperties DEF TypeOK, Tasks
<1>2. ASSUME UNCHANGED restore, DOMAIN backups \subseteq DOMAIN backups',
             \/ task' = task
             \/ task'.op = task.op /\ task'.on = task.on
             \/ task'.op \notin {"hash", "copy", "restore"}
             \/ task'.on \in DOMAIN backups'
      PROVE  OnBackup'
    BY <1>2
<1>3. CASE \/ \E f \in Files : Edit(f)
           \/ EditNote \/ RunStartsOrEnds \/ PlanUpdate \/ PreUpdateSnapshot
           \/ (\E passed \in BOOLEAN : SmokeTest(passed)) \/ Switch \/ RewriteMarker
           \/ CreateDraft \/ EditDraft \/ ApproveDraft
    <2>1. UNCHANGED <<restore, backups, task>>
        BY <1>3 DEF Edit, EditNote, RunStartsOrEnds, PlanUpdate, PreUpdateSnapshot, SmokeTest, Switch,
           RewriteMarker, CreateDraft, EditDraft, ApproveDraft, restoring
    <2>2. QED
        BY <1>2, <2>1
<1>14. CASE FinishInstall \/ WriteNote \/ \E f \in Files : InstallFile(f) \/ RemoveFile(f)
    <2>1. UNCHANGED <<restore, backups>>
        BY <1>14 DEF InstallFile, RemoveFile, FinishInstall, WriteNote, restoring
    <2>2. task' = task \/ task'.op \in {"none", "install", "remove"}
        BY <1>14, TaskSteps DEF InstallFile, RemoveFile, FinishInstall, WriteNote, Idle
    <2>3. QED
        BY <1>2, <2>1, <2>2
<1>4. CASE BeginInstall \/ RollbackUpdate \/ ReadNote
    <2>1. update.to \in Nat
        BY MaintenanceAssumption DEF TypeOK
    <2>2. UNCHANGED <<restore, backups>>
        BY <1>4 DEF BeginInstall, RollbackUpdate, ReadNote, restoring
    <2>3. task' = task \/ task'.op \in {"install", "remove", "write"}
        BY <1>4, <2>1, TaskSteps DEF BeginInstall, RollbackUpdate, ReadNote
    <2>4. QED
        BY <1>2, <2>2, <2>3
<1>5. CASE Crash
    BY <1>5 DEF Crash, Idle, NoRestore
<1>6. ASSUME NEW b \in DOMAIN backups, NEW f \in Files, Damage(b, f) PROVE OnBackup'
    BY <1>1, <1>6 DEF Damage
<1>7. ASSUME NEW mode \in Modes, BeginBackup(mode) PROVE OnBackup'
    <2>1. [mode |-> mode, hash |-> Nowhere, file |-> Nowhere, complete |-> FALSE] \in Backups
        BY Initials DEF Backups
    <2>2. backups' \in Seq(Backups) /\ Len(backups') = Len(backups) + 1
        BY <1>1, <1>7, <2>1, AppendProperties DEF BeginBackup
    <2>3. DOMAIN backups' = 1..(Len(backups) + 1) /\ task'.on = Len(backups) + 1
        BY <1>1, <1>7, <2>2, LenProperties, TaskSteps DEF BeginBackup
    <2>4. QED
        BY <1>1, <1>2, <1>7, <2>3 DEF BeginBackup
<1>8. ASSUME NEW f \in Files, HashFile(f) \/ CopyFile(f) \/ RestoreFile(f) PROVE OnBackup'
    <2>1. DOMAIN backups' = DOMAIN backups /\ restore' = restore
        BY <1>8 DEF HashFile, CopyFile, RestoreFile, restoring
    <2>2. task'.on = task.on
        BY <1>1, <1>8, TaskSteps DEF HashFile, CopyFile, RestoreFile, Tasks
    <2>3. task.op \in {"hash", "copy", "restore"}
        BY <1>8 DEF HashFile, CopyFile, RestoreFile
    <2>4. QED
        BY <2>1, <2>2, <2>3
<1>9. CASE BackupFails \/ FinishBackup \/ Prune \/ RestoreFails
    <2>1. DOMAIN backups' = DOMAIN backups
        BY <1>9 DEF BackupFails, FinishBackup, Prune, RestoreFails, restoring
    <2>2. restore' = restore /\ (task' = task \/ task'.op = "none")
        <3>1. CASE Prune
            BY <3>1 DEF Prune
        <3>2. CASE BackupFails \/ FinishBackup \/ RestoreFails
            BY <3>2 DEF BackupFails, FinishBackup, RestoreFails, Idle, restoring
        <3>3. QED
            BY <1>9, <3>1, <3>2
    <2>3. QED
        BY <1>2, <2>1, <2>2
<1>10. ASSUME NEW b \in DOMAIN backups, NEW preflight \in BOOLEAN, PlanRestore(b, preflight) PROVE OnBackup'
    <2>1. restore'.of = b /\ b # 0
        BY <1>1, <1>10 DEF PlanRestore, NoRestore
    <2>2. QED
        BY <1>10, <2>1 DEF PlanRestore
<1>11. CASE PreRestoreSnapshot \/ FinishRestore \/ RollbackRestore \/ \E preflight \in BOOLEAN : VerifyRestore(preflight)
    <2>1. restore'.of = restore.of /\ restore'.plan = restore.plan /\ backups' = backups
        BY <1>11 DEF PreRestoreSnapshot, FinishRestore, RollbackRestore, VerifyRestore, TypeOK
    <2>2. task' = task \/ task'.op = "none"
        BY <1>11 DEF PreRestoreSnapshot, FinishRestore, RollbackRestore, VerifyRestore, Idle
    <2>3. QED
        BY <2>1, <2>2
<1>12. CASE ExecuteRestore
    <2>1. restore.of \in DOMAIN backups
        BY <1>1, <1>12 DEF ExecuteRestore, TypeOK
    <2>2. task'.on = restore.of /\ task'.op = "restore"
        BY <1>1, <1>12, TaskSteps DEF ExecuteRestore
    <2>3. QED
        BY <1>12, <2>1, <2>2 DEF ExecuteRestore, restoring
<1>15. QED
    BY <1>3, <1>14, <1>4, <1>5, <1>6, <1>7, <1>8, <1>9, <1>10, <1>11, <1>12 DEF FileJob

TInv == TypeOK /\ OnBackup /\ MigInv

LEMMA InitTInv == Init => TInv
BY InitTypes, MigrationsInitInv DEF Init, TInv, OnBackup, Idle, NoRestore

LEMMA SchemaUntouched == MigInv /\ UNCHANGED migrating => MigInv'
BY DEF migrating, MigInv, MigrationsTypeOK, MigratedWhole, TransactionOf, Pending

LEMMA NextTInv == TInv /\ [Next]_vars => TInv'
<1> SUFFICES ASSUME TInv, [Next]_vars PROVE TInv'
    OBVIOUS
<1>1. CASE FileJob /\ UNCHANGED migrating
    BY <1>1, FileTypes, OnBackupKeeps, SchemaUntouched, TypeParts DEF TInv, MigInv
<1>2. CASE UNCHANGED filing
    <2>1. MigInv'
        <3>1. CASE UNCHANGED migrating
            BY <3>1, SchemaUntouched DEF TInv
        <3>2. CASE \E p \in Migrators : Migrate(p)
            BY <3>2, MigrateKeeps DEF TInv
        <3>3. CASE FileJob /\ UNCHANGED migrating
            BY <3>3, SchemaUntouched DEF TInv
        <3>4. QED
            BY <3>1, <3>2, <3>3 DEF Next, vars
    <2>2. FileType'
        BY <1>2, TypeParts, Untouched DEF filing, FileType, TInv, restoring
    <2>3. OnBackup'
        BY <1>2 DEF filing, TInv, OnBackup, restoring
    <2>4. QED
        BY <2>1, <2>2, <2>3, TypeParts DEF TInv, MigInv
<1>3. QED
    BY <1>1, <1>2 DEF Next, vars

\* Every variable keeps its type.
THEOREM TypeCorrect == Spec => []TypeOK
<1>1. TInv => TypeOK
    BY DEF TInv
<1>2. QED
    BY <1>1, InitTInv, NextTInv, PTL DEF Spec

\* The database is of one version as a whole, however many services start at once and wherever they
\* end, and so is every complete copy made of it before a migration that met no commit.
THEOREM SchemaIsWhole == Spec => []MigratedWhole
<1>1. TInv => MigratedWhole
    BY DEF TInv, MigInv
<1>2. QED
    BY <1>1, InitTInv, NextTInv, PTL DEF Spec

-----------------------------------------------------------------------------
(* Stable update: the marker names a whole release                         *)

\* Where an update stands.  The release it comes from stays whole; the one it goes to is whole from
\* the end of an installation until it is installed again or removed, and then the marker is not on
\* it.
UpdInv ==
    /\ MarkerIsInstalled
    /\ update.plan # "Planned" => ~update.snapshot /\ ~update.installed
    /\ update.plan = "Planned" =>
        /\ update.from \in Versions /\ update.to \in Versions /\ update.from # update.to
        /\ releases[update.from] = Files
    /\ task.op \in {"install", "remove"} => update.plan = "Planned" /\ task.on = update.to
    /\ task.op = "install" => marker # update.to /\ Files \ task.todo \subseteq releases[update.to]
    /\ task.op = "remove" => marker \in {0, update.from}
    /\ update.installed /\ task.op \notin {"install", "remove"} => releases[update.to] = Files

LEMMA UpdInvInit == Init => UpdInv
<1> SUFFICES ASSUME Init PROVE UpdInv
    OBVIOUS
<1>1. 1 \in Versions
    BY MaintenanceAssumption DEF Versions
<1>2. releases[1] = Files
    BY <1>1 DEF Init
<1>3. QED
    BY <1>2 DEF Init, UpdInv, MarkerIsInstalled, NoUpdate, Idle

\* The other jobs leave the update where it is.
LEMMA OtherJobs ==
    ASSUME TypeOK, FileJob,
           ~(PlanUpdate \/ PreUpdateSnapshot \/ BeginInstall \/ FinishInstall \/ Switch
             \/ RollbackUpdate \/ RewriteMarker \/ Crash
             \/ (\E passed \in BOOLEAN : SmokeTest(passed))
             \/ \E f \in Files : InstallFile(f) \/ RemoveFile(f))
    PROVE  /\ UNCHANGED updating
           /\ \/ task' = task
              \/ task.op \notin {"install", "remove"} /\ task'.op \notin {"install", "remove"}
<1>0. task \in Tasks /\ restore.of \in Nat /\ Len(backups) \in Nat /\ backups \in Seq(Backups)
    BY LenProperties DEF TypeOK, Tasks
<1>1. CASE \/ \E f \in Files : Edit(f)
           \/ EditNote \/ RunStartsOrEnds
           \/ \E b \in DOMAIN backups : \E f \in Files : Damage(b, f)
    BY <1>1 DEF Edit, EditNote, RunStartsOrEnds, Damage
<1>2. ASSUME NEW mode \in Modes, BeginBackup(mode)
      PROVE  UNCHANGED updating /\ task.op = "none" /\ task'.op = "hash"
    BY <1>2 DEF BeginBackup, Free, Begin
<1>3. ASSUME NEW f \in Files, HashFile(f)
      PROVE  UNCHANGED updating /\ task.op = "hash" /\ task'.op \in {"hash", "copy"}
    BY <1>0, <1>3, TaskSteps DEF HashFile, Tasks
<1>4. ASSUME NEW f \in Files, CopyFile(f) \/ RestoreFile(f)
      PROVE  UNCHANGED updating /\ task.op \in {"copy", "restore"} /\ task'.op = task.op
    BY <1>0, <1>4, TaskSteps DEF CopyFile, RestoreFile
<1>5. CASE BackupFails \/ FinishBackup \/ RestoreFails \/ FinishRestore \/ WriteNote
    BY <1>5 DEF BackupFails, FinishBackup, RestoreFails, FinishRestore, WriteNote, Idle
<1>6. CASE Prune
    BY <1>6 DEF Prune
<1>7. CASE \/ \E b \in DOMAIN backups : \E preflight \in BOOLEAN : PlanRestore(b, preflight)
           \/ \E preflight \in BOOLEAN : VerifyRestore(preflight)
           \/ PreRestoreSnapshot \/ RollbackRestore \/ CreateDraft \/ EditDraft \/ ApproveDraft
    BY <1>7 DEF PlanRestore, VerifyRestore, PreRestoreSnapshot, RollbackRestore, CreateDraft,
                EditDraft, ApproveDraft
<1>8. CASE ExecuteRestore \/ ReadNote
    BY <1>8 DEF ExecuteRestore, ReadNote, Free, Begin
<1>9. QED
    BY <1>1, <1>2, <1>3, <1>4, <1>5, <1>6, <1>7, <1>8 DEF FileJob

LEMMA UpdInvJob ==
    ASSUME TypeOK, UpdInv, FileJob PROVE UpdInv'
<1> USE DEF UpdInv, MarkerIsInstalled
<1>0. /\ task \in Tasks /\ update \in Updates /\ LastVersion \in Nat \ {0}
      /\ marker \in 0..LastVersion /\ releases \in [Versions -> SUBSET Files]
      /\ update.to \in Nat /\ Versions = 1..LastVersion
    BY MaintenanceAssumption DEF TypeOK, Tasks, Updates, Versions
<1>1. CASE PlanUpdate
    <2>1. /\ update'.from = marker /\ update'.to = LastVersion
          /\ update'.plan = IF active \/ marker = LastVersion THEN "Blocked" ELSE "Planned"
          /\ ~update'.snapshot /\ ~update'.installed
        BY <1>1 DEF PlanUpdate, NoUpdate
    <2>2. UNCHANGED <<marker, releases, task>> /\ marker # 0 /\ task.op = "none"
        BY <1>1 DEF PlanUpdate, Free
    <2>3. update'.plan = "Planned" => marker # LastVersion
        BY <2>1
    <2>4. QED
        BY <1>0, <2>1, <2>2, <2>3
<1>2. CASE PreUpdateSnapshot \/ \E passed \in BOOLEAN : SmokeTest(passed)
    <2>1. /\ update'.from = update.from /\ update'.to = update.to /\ update'.plan = update.plan
          /\ update'.installed = update.installed /\ (update'.snapshot # update.snapshot => update.plan = "Planned")
        BY <1>0, <1>2 DEF PreUpdateSnapshot, SmokeTest, Updates
    <2>2. UNCHANGED <<marker, releases, task>>
        BY <1>2 DEF PreUpdateSnapshot, SmokeTest
    <2>3. QED
        BY <2>1, <2>2
<1>3. CASE BeginInstall
    <2>1. task'.op = "install" /\ task'.on = update.to /\ task'.todo = Files
        BY <1>0, <1>3, TaskSteps DEF BeginInstall
    <2>2. UNCHANGED <<marker, releases, update>> /\ marker # update.to /\ update.plan = "Planned"
        BY <1>3 DEF BeginInstall, updating
    <2>3. QED
        BY <2>1, <2>2
<1>4. ASSUME NEW f \in Files, InstallFile(f) PROVE UpdInv'
    <2>1. /\ task.op = "install" /\ UNCHANGED <<marker, update>> /\ task.on = update.to
          /\ update.from # update.to /\ update.to \in Versions /\ update.from \in Versions
          /\ f \in task.todo
        BY <1>4 DEF InstallFile
    <2>2. \A v \in Versions \ {update.to} : releases'[v] = releases[v]
        BY <1>0, <1>4, <2>1 DEF InstallFile
    <2>3. /\ task'.op = "install" /\ task'.on = update.to
          /\ Files \ task'.todo \subseteq releases'[update.to]
        BY <1>0, <1>4, <2>1, TaskSteps DEF InstallFile
    <2>4. marker = 0 \/ releases'[marker] = Files
        BY <1>0, <2>1, <2>2
    <2>5. QED
        BY <2>1, <2>2, <2>3, <2>4
<1>5. CASE FinishInstall
    <2>1. /\ update'.from = update.from /\ update'.to = update.to /\ update'.plan = update.plan
          /\ update'.snapshot = update.snapshot
        BY <1>0, <1>5 DEF FinishInstall, Updates
    <2>2. UNCHANGED <<marker, releases>> /\ task'.op = "none" /\ task.op = "install" /\ task.todo = {}
        BY <1>5 DEF FinishInstall, Idle
    <2>3. releases[update.to] = Files
        BY <1>0, <2>2
    <2>4. QED
        BY <2>1, <2>2, <2>3
<1>6. CASE Switch
    <2>1. /\ marker' = update.to /\ UNCHANGED <<releases, task, update>> /\ task.op = "none"
          /\ update.installed
        BY <1>6 DEF Switch, Free
    <2>2. QED
        BY <2>1
<1>7. CASE RollbackUpdate
    <2>1. marker' = 0 /\ UNCHANGED <<releases, update>> /\ update.snapshot
        BY <1>7 DEF RollbackUpdate
    <2>2. task'.op = "remove" /\ task'.on = update.to
        BY <1>0, <1>7, TaskSteps DEF RollbackUpdate
    <2>3. QED
        BY <2>1, <2>2
<1>8. CASE RewriteMarker
    <2>1. marker' = update.from /\ UNCHANGED <<releases, update, task>> /\ task.op = "remove"
        BY <1>8 DEF RewriteMarker
    <2>2. QED
        BY <2>1
<1>9. ASSUME NEW f \in Files, RemoveFile(f) PROVE UpdInv'
    <2>1. /\ task.op = "remove" /\ marker' = marker /\ marker = update.from /\ task.on = update.to
          /\ update.from # update.to /\ update.to \in Versions /\ update.from \in Versions
          /\ releases[update.from] = Files
        BY <1>9 DEF RemoveFile
    <2>2. releases'[update.from] = Files
        BY <1>0, <1>9, <2>1 DEF RemoveFile
    <2>3. CASE task' = Idle /\ update' = NoUpdate
        BY <2>1, <2>2, <2>3 DEF Idle, NoUpdate
    <2>4. CASE Done(f) /\ UNCHANGED update
        BY <2>1, <2>2, <2>4, TaskSteps
    <2>5. QED
        BY <1>9, <2>3, <2>4 DEF RemoveFile
<1>10. CASE Crash
    BY <1>10 DEF Crash, Idle, NoUpdate
<1>11. CASE ~(PlanUpdate \/ PreUpdateSnapshot \/ BeginInstall \/ FinishInstall \/ Switch
              \/ RollbackUpdate \/ RewriteMarker \/ Crash
              \/ (\E passed \in BOOLEAN : SmokeTest(passed))
              \/ \E f \in Files : InstallFile(f) \/ RemoveFile(f))
    BY <1>11, OtherJobs DEF updating
<1>12. QED
    BY <1>1, <1>2, <1>3, <1>4, <1>5, <1>6, <1>7, <1>8, <1>9, <1>10, <1>11

\* Wherever the process ends, the marker names a release that is completely installed, or was torn
\* by a rollback that went no further.
THEOREM MarkerNamesARelease == Spec => []MarkerIsInstalled
<1>1. TInv /\ UpdInv /\ [Next]_vars => UpdInv'
    <2> SUFFICES ASSUME TInv, UpdInv, [Next]_vars PROVE UpdInv'
        OBVIOUS
    <2>1. CASE FileJob
        BY <2>1, UpdInvJob DEF TInv
    <2>2. CASE UNCHANGED filing
        BY <2>2 DEF filing, updating, UpdInv, MarkerIsInstalled
    <2>3. QED
        BY <2>1, <2>2 DEF Next, vars
<1>2. UpdInv => MarkerIsInstalled
    BY DEF UpdInv
<1>3. QED
    BY <1>1, <1>2, UpdInvInit, InitTInv, NextTInv, PTL DEF Spec

-----------------------------------------------------------------------------
(* Backup: a complete one is a state all files had at one moment            *)

\* A state the files were in, which what is hashed agrees with but for files that are still to be
\* copied and will be refused.
Moment(b, todo) ==
    \E s \in seen : \A f \in Files : s[f] = backups[b].hash[f] \/ (f \in todo /\ live[f] # backups[b].hash[f])

\* An edit is newer than everything hashed, so no file comes back to a content it had.
Older ==
    /\ \A f \in Files : live[f] <= edits
    /\ \A b \in DOMAIN backups : \A f \in Files : backups[b].hash[f] <= edits

BackInv ==
    /\ BackupIsConsistent
    /\ Older
    /\ task.op \in {"hash", "copy"} => ~backups[task.on].complete
    /\ task.op = "copy" => Moment(task.on, task.todo)

LEMMA BackInvInit == Init => BackInv
BY DEF Init, BackInv, BackupIsConsistent, Older, Idle

LEMMA Numbers ==
    ASSUME TypeOK
    PROVE  /\ edits \in Nat /\ \A f \in Files : live[f] \in Nat
           /\ live \in Contents /\ live \in seen /\ seen \subseteq Contents
           /\ \A b \in DOMAIN backups :
                backups[b] \in Backups /\ backups[b].hash \in Contents /\ backups[b].file \in Contents
           /\ \A b \in DOMAIN backups : \A f \in Files :
                backups[b].hash[f] \in Nat /\ backups[b].file[f] \in Nat
           /\ backups \in Seq(Backups) /\ Len(backups) \in Nat /\ DOMAIN backups = 1..Len(backups)
<1>1. \A b \in Backups : b.hash \in Contents /\ b.file \in Contents
    BY DEF Backups
<1>2. /\ edits \in Nat /\ live \in Contents /\ live \in seen /\ seen \subseteq Contents
      /\ backups \in Seq(Backups)
    BY DEF TypeOK
<1>3. Len(backups) \in Nat /\ DOMAIN backups = 1..Len(backups)
    BY <1>2, LenProperties
<1>4. \A b \in DOMAIN backups : backups[b] \in Backups
    BY LiveNumbers, TypeParts
<1>5. QED
    BY <1>1, <1>2, <1>3, <1>4 DEF Contents

\* Where no file and no hash changes, and no copying begins, nothing is to be shown.
LEMMA BackInvSame ==
    ASSUME TypeOK, BackInv, live' = live, seen' = seen, backups' = backups, edits' \in Nat, edits' >= edits,
           task' = task \/ task'.op \notin {"hash", "copy"}
    PROVE  BackInv'
<1>1. Older'
    BY Numbers DEF Older, BackInv
<1>2. QED
    BY <1>1 DEF BackInv, BackupIsConsistent, Moment

LEMMA BackInvJob ==
    ASSUME TypeOK, OnBackup, BackInv, FileJob PROVE BackInv'
<1>0. /\ edits \in Nat /\ \A f \in Files : live[f] \in Nat
      /\ live \in Contents /\ live \in seen /\ seen \subseteq Contents
      /\ \A b \in DOMAIN backups : backups[b] \in Backups /\ backups[b].hash \in Contents /\ backups[b].file \in Contents
      /\ \A b \in DOMAIN backups : \A f \in Files : backups[b].hash[f] \in Nat /\ backups[b].file[f] \in Nat
      /\ backups \in Seq(Backups) /\ Len(backups) \in Nat /\ DOMAIN backups = 1..Len(backups)
    BY Numbers
<1>1. ASSUME NEW f \in Files, Edit(f) PROVE BackInv'
    <2>1. /\ live' = [live EXCEPT ![f] = edits + 1] /\ seen' = seen \cup {live'} /\ edits' = edits + 1
          /\ backups' = backups /\ task' = task
        BY <1>1 DEF Edit, Live, Disturb, restoring
    <2>2. Older'
        BY <1>0, <2>1 DEF Older, BackInv, Contents
    <2>3. task.op = "copy" => Moment(task.on, task.todo)'
        <3> SUFFICES ASSUME task.op = "copy" PROVE Moment(task.on, task.todo)'
            OBVIOUS
        <3>1. task.on \in DOMAIN backups
            BY DEF OnBackup
        <3>2. PICK s \in seen : \A g \in Files :
                s[g] = backups[task.on].hash[g] \/ (g \in task.todo /\ live[g] # backups[task.on].hash[g])
            BY DEF BackInv, Moment
        <3>3. backups[task.on].hash[f] <= edits /\ backups[task.on].hash[f] \in Nat
            BY <1>0, <3>1 DEF BackInv, Older
        <3>4. live'[f] = edits + 1 /\ \A g \in Files \ {f} : live'[g] = live[g]
            BY <1>0, <2>1 DEF Contents
        <3>5. live'[f] # backups[task.on].hash[f]
            BY <1>0, <3>3, <3>4
        <3>6. QED
            BY <2>1, <3>2, <3>4, <3>5 DEF Moment
    <2>4. QED
        BY <2>1, <2>2, <2>3 DEF BackInv, BackupIsConsistent
<1>2. CASE EditNote
    BY <1>0, <1>2, BackInvSame DEF EditNote, Disturb, restoring
<1>3. ASSUME NEW b \in DOMAIN backups, NEW f \in Files, Damage(b, f) PROVE BackInv'
    <2>1. /\ UNCHANGED <<live, seen, task>> /\ edits' = edits + 1
          /\ backups' = [backups EXCEPT ![b] = [backups[b] EXCEPT !.file[f] = 0]]
        BY <1>3 DEF Damage, Disturb
    <2>2. [backups[b] EXCEPT !.file[f] = 0].hash = backups[b].hash
          /\ [backups[b] EXCEPT !.file[f] = 0].complete = backups[b].complete
        BY <1>0 DEF Backups
    <2>3. /\ DOMAIN backups' = DOMAIN backups
          /\ \A c \in DOMAIN backups :
                backups'[c].hash = backups[c].hash /\ backups'[c].complete = backups[c].complete
        BY <2>1, <2>2
    <2>4. Older'
        BY <1>0, <2>1, <2>3 DEF Older, BackInv
    <2>5. QED
        BY <2>1, <2>3, <2>4 DEF BackInv, BackupIsConsistent, Moment, OnBackup
<1>4. ASSUME NEW mode \in Modes, BeginBackup(mode) PROVE BackInv'
    <2> DEFINE new == [mode |-> mode, hash |-> Nowhere, file |-> Nowhere, complete |-> FALSE]
    <2>1. /\ UNCHANGED <<live, seen, edits>> /\ backups' = Append(backups, new)
          /\ task'.op = "hash" /\ task'.on = Len(backups')
        BY <1>4 DEF BeginBackup, Begin
    <2>2. new \in Backups
        BY Initials DEF Backups
    <2>3. /\ Len(backups') = Len(backups) + 1 /\ DOMAIN backups' = 1..(Len(backups) + 1)
          /\ backups'[Len(backups) + 1] = new /\ \A c \in DOMAIN backups : backups'[c] = backups[c]
        BY <1>0, <2>1, <2>2, AppendProperties
    <2>4. \A f \in Files : new.hash[f] = 0
        BY DEF Nowhere
    <2>5. \A c \in DOMAIN backups' : c \in DOMAIN backups \/ backups'[c] = new
        BY <1>0, <2>3
    <2>6. Older'
        BY <1>0, <2>1, <2>3, <2>4, <2>5 DEF Older, BackInv
    <2>7. BackupIsConsistent'
        BY <2>1, <2>3, <2>5 DEF BackInv, BackupIsConsistent
    <2>8. QED
        BY <2>1, <2>3, <2>6, <2>7 DEF BackInv
<1>5. ASSUME NEW f \in Files, HashFile(f) PROVE BackInv'
    <2> DEFINE new == [backups[task.on] EXCEPT !.hash[f] = live[f]]
    <2>1. /\ UNCHANGED <<live, seen, edits>> /\ backups' = [backups EXCEPT ![task.on] = new]
          /\ task.op = "hash"
        BY <1>5 DEF HashFile
    <2>2. task.on \in DOMAIN backups /\ ~backups[task.on].complete
        BY <2>1 DEF OnBackup, BackInv
    <2>3. ~new.complete /\ new.hash = [backups[task.on].hash EXCEPT ![f] = live[f]]
        BY <1>0, <2>2 DEF Backups
    <2>4. /\ DOMAIN backups' = DOMAIN backups /\ backups'[task.on] = new
          /\ \A c \in DOMAIN backups \ {task.on} : backups'[c] = backups[c]
        BY <2>1, <2>2
    <2>5. Older'
        <3>1. \A g \in Files : new.hash[g] <= edits
            BY <1>0, <2>2, <2>3 DEF Older, BackInv, Contents
        <3>2. QED
            BY <2>1, <2>4, <3>1 DEF Older, BackInv
    <2>6. BackupIsConsistent'
        BY <2>1, <2>3, <2>4 DEF BackInv, BackupIsConsistent
    <2>7. task'.on = task.on
        BY <1>5, TaskSteps DEF HashFile, Begin
    <2>8. task'.op = "copy" => task'.todo = Files
        BY <1>5, <2>1, TaskSteps DEF HashFile, Begin
    <2>9. task'.op = "copy" => Moment(task.on, task.todo)'
        BY <1>0, <2>1, <2>8 DEF Moment
    <2>10. QED
        BY <2>3, <2>4, <2>5, <2>6, <2>7, <2>9 DEF BackInv
<1>6. ASSUME NEW f \in Files, CopyFile(f) PROVE BackInv'
    <2> DEFINE new == [backups[task.on] EXCEPT !.file[f] = live[f]]
    <2>1. /\ UNCHANGED <<live, seen, edits>> /\ backups' = [backups EXCEPT ![task.on] = new]
          /\ task.op = "copy" /\ live[f] = backups[task.on].hash[f]
          /\ task'.op = "copy" /\ task'.on = task.on /\ task'.todo = task.todo \ {f}
        BY <1>6, TaskSteps DEF CopyFile, SameAsHashed
    <2>2. task.on \in DOMAIN backups
        BY <2>1 DEF OnBackup
    <2>3. new.complete = backups[task.on].complete /\ new.hash = backups[task.on].hash
        BY <1>0, <2>2 DEF Backups
    <2>4. /\ DOMAIN backups' = DOMAIN backups
          /\ \A c \in DOMAIN backups :
                backups'[c].hash = backups[c].hash /\ backups'[c].complete = backups[c].complete
        BY <2>1, <2>2, <2>3
    <2>5. PICK s \in seen : \A g \in Files :
            s[g] = backups[task.on].hash[g] \/ (g \in task.todo /\ live[g] # backups[task.on].hash[g])
        BY <2>1 DEF BackInv, Moment
    <2>6. /\ live' = live /\ seen' = seen /\ edits' = edits /\ task'.op = "copy" /\ task'.on = task.on
          /\ task'.todo = task.todo \ {f} /\ live[f] = backups[task.on].hash[f]
          /\ backups'[task.on].hash = backups[task.on].hash
          /\ ~backups[task.on].complete /\ ~backups'[task.on].complete
        BY <2>1, <2>2, <2>4 DEF BackInv
    <2>7. \A g \in Files : \/ s[g] = backups'[task'.on].hash[g]
                           \/ g \in task'.todo /\ live'[g] # backups'[task'.on].hash[g]
        BY <2>5, <2>6
    <2>8. Moment(task.on, task.todo)'
        BY <2>6, <2>7 DEF Moment
    <2>9. Older' /\ BackupIsConsistent'
        BY <2>4, <2>6 DEF BackInv, BackupIsConsistent, Older
    <2>10. QED
        BY <2>6, <2>8, <2>9 DEF BackInv
<1>7. CASE FinishBackup
    <2> DEFINE new == [backups[task.on] EXCEPT !.complete = TRUE]
    <2>1. /\ UNCHANGED <<live, seen, edits>> /\ backups' = [backups EXCEPT ![task.on] = new]
          /\ task.op = "copy" /\ task.todo = {} /\ task'.op = "none"
        BY <1>7 DEF FinishBackup, Idle
    <2>2. task.on \in DOMAIN backups
        BY <2>1 DEF OnBackup
    <2>3. new.hash = backups[task.on].hash
        BY <1>0, <2>2 DEF Backups
    <2>4. /\ DOMAIN backups' = DOMAIN backups
          /\ \A c \in DOMAIN backups : backups'[c].hash = backups[c].hash
          /\ \A c \in DOMAIN backups \ {task.on} : backups'[c] = backups[c]
        BY <2>1, <2>2, <2>3
    <2>5. backups[task.on].hash \in seen
        <3>1. PICK s \in seen : \A g \in Files : s[g] = backups[task.on].hash[g]
            BY <2>1 DEF BackInv, Moment
        <3>2. s = backups[task.on].hash
            BY <1>0, <2>2, <3>1 DEF Contents
        <3>3. QED
            BY <3>2
    <2>6. BackupIsConsistent'
        BY <2>1, <2>4, <2>5 DEF BackInv, BackupIsConsistent
    <2>7. QED
        BY <2>1, <2>4, <2>6 DEF BackInv, Older
<1>8. CASE Prune
    <2>1. UNCHANGED <<live, seen, edits, task>> /\ task.op = "none"
        BY <1>8 DEF Prune, Free
    <2>2. /\ DOMAIN backups' = DOMAIN backups
          /\ \A c \in DOMAIN backups : backups'[c].hash = backups[c].hash /\ (backups'[c].complete => backups[c].complete)
        <3>1. ASSUME NEW b \in Backups PROVE LET x == [b EXCEPT !.complete = FALSE, !.file = Nowhere]
                                             IN  x.hash = b.hash /\ ~x.complete
            BY DEF Backups
        <3>2. QED
            BY <1>0, <1>8, <3>1 DEF Prune
    <2>3. QED
        BY <2>1, <2>2 DEF BackInv, BackupIsConsistent, Older
<1>9. ASSUME NEW f \in Files, RestoreFile(f) PROVE BackInv'
    <2>1. /\ live' = [live EXCEPT ![f] = backups[task.on].hash[f]] /\ seen' = seen \cup {live'}
          /\ UNCHANGED <<edits, backups>> /\ task.op = "restore" /\ task'.op = "restore"
        BY <1>9, TaskSteps DEF RestoreFile, Live, restoring
    <2>2. task.on \in DOMAIN backups
        BY <2>1 DEF OnBackup
    <2>3. \A g \in Files : live'[g] <= edits
        BY <1>0, <2>1, <2>2 DEF BackInv, Older, Contents
    <2>4. QED
        BY <2>1, <2>3 DEF BackInv, BackupIsConsistent, Older
<1>10. CASE RollbackRestore
    <2>1. /\ live' = Nowhere /\ seen' = seen \cup {live'} /\ UNCHANGED <<edits, backups, task>> /\ task.op = "none"
        BY <1>10 DEF RollbackRestore, Live, Free
    <2>2. \A g \in Files : live'[g] <= edits
        BY <1>0, <2>1 DEF Nowhere
    <2>3. QED
        BY <2>1, <2>2 DEF BackInv, BackupIsConsistent, Older
<1>11. CASE \/ BackupFails \/ Crash \/ RestoreFails \/ FinishRestore \/ FinishInstall \/ WriteNote
    BY <1>0, <1>11, BackInvSame
       DEF BackupFails, Crash, RestoreFails, FinishRestore, FinishInstall, WriteNote, Idle, restoring
<1>12. CASE \/ RunStartsOrEnds \/ PreRestoreSnapshot \/ PlanUpdate \/ PreUpdateSnapshot \/ Switch
            \/ RewriteMarker \/ CreateDraft \/ EditDraft \/ ApproveDraft
            \/ (\E b \in DOMAIN backups : \E preflight \in BOOLEAN : PlanRestore(b, preflight))
            \/ (\E preflight \in BOOLEAN : VerifyRestore(preflight))
            \/ (\E passed \in BOOLEAN : SmokeTest(passed))
    <2>1. UNCHANGED <<live, seen, backups, edits, task>>
        BY <1>12 DEF RunStartsOrEnds, PreRestoreSnapshot, PlanUpdate, PreUpdateSnapshot, Switch,
            RewriteMarker, CreateDraft, EditDraft, ApproveDraft, PlanRestore, VerifyRestore, SmokeTest, restoring
    <2>2. QED
        BY <1>0, <2>1, BackInvSame
<1>13. CASE ExecuteRestore \/ BeginInstall \/ RollbackUpdate \/ ReadNote
    <2>1. UNCHANGED <<live, seen, backups, edits>>
        BY <1>13 DEF ExecuteRestore, BeginInstall, RollbackUpdate, ReadNote, restoring
    <2>2. task' = task \/ task'.op \in {"restore", "install", "remove", "write"}
        BY <1>13 DEF ExecuteRestore, BeginInstall, RollbackUpdate, ReadNote, Begin
    <2>3. QED
        BY <1>0, <2>1, <2>2, BackInvSame
<1>14. ASSUME NEW f \in Files, InstallFile(f) \/ RemoveFile(f) PROVE BackInv'
    <2>1. UNCHANGED <<live, seen, backups, edits>>
        BY <1>14 DEF InstallFile, RemoveFile, restoring
    <2>2. task' = task \/ task'.op \in {"none", "install", "remove"}
        BY <1>14, TaskSteps DEF InstallFile, RemoveFile, Idle
    <2>3. QED
        BY <1>0, <2>1, <2>2, BackInvSame
<1>15. QED
    BY <1>1, <1>2, <1>3, <1>4, <1>5, <1>6, <1>7, <1>8, <1>9, <1>10, <1>11, <1>12, <1>13, <1>14 DEF FileJob

\* A complete backup holds a state that all files had at one moment, whatever their owners wrote
\* between the hashing of the first and the copying of the last.
THEOREM BackupsAreConsistent == Spec => []BackupIsConsistent
<1>1. TInv /\ BackInv /\ [Next]_vars => BackInv'
    <2> SUFFICES ASSUME TInv, BackInv, [Next]_vars PROVE BackInv'
        OBVIOUS
    <2>1. CASE FileJob
        BY <2>1, BackInvJob DEF TInv
    <2>2. CASE UNCHANGED filing
        BY <2>2 DEF filing, restoring, BackInv, BackupIsConsistent, Older, Moment
    <2>3. QED
        BY <2>1, <2>2 DEF Next, vars
<1>2. BackInv => BackupIsConsistent
    BY DEF BackInv
<1>3. QED
    BY <1>1, <1>2, BackInvInit, InitTInv, NextTInv, PTL DEF Spec

-----------------------------------------------------------------------------
(* Write-back: the draft goes into the note once                           *)

\* Until it has been written nobody expects or reads a note that holds it.
WriteInv ==
    /\ draft.expects.drafts = 0 /\ draft.read.drafts = 0 /\ note.drafts <= 1
    /\ draft.state = "none" => note.drafts = 0
    /\ task.op = "write" => draft.state # "none"

LEMMA WriteInvInit == Init => WriteInv
BY DEF Init, WriteInv, NoDraft, Idle

LEMMA WriteInvSame ==
    ASSUME WriteInv, UNCHANGED writing, task' = task \/ task'.op # "write" PROVE WriteInv'
BY DEF WriteInv, writing

LEMMA WriteInvJob ==
    ASSUME TypeOK, WriteInv, FileJob PROVE WriteInv'
<1> USE DEF WriteInv
<1>0. /\ note \in Note /\ draft \in Drafts /\ note.drafts \in Nat
      /\ draft.read \in Note /\ draft.expects \in Note
    BY TypeParts DEF FileType, WriteType, Drafts, Note
<1>1. CASE EditNote
    <2>1. note'.drafts = note.drafts /\ UNCHANGED <<draft, task>>
        BY <1>0, <1>1 DEF EditNote, Note
    <2>2. QED
        BY <2>1
<1>2. CASE CreateDraft
    <2>1. /\ draft'.state = "Draft" /\ draft'.expects = note /\ draft'.read.drafts = 0
          /\ UNCHANGED <<note, task>> /\ draft.state = "none"
        BY <1>2 DEF CreateDraft, NoDraft
    <2>2. QED
        BY <1>0, <2>1
<1>3. CASE EditDraft
    <2>1. /\ draft'.state = "Draft" /\ draft'.expects = note /\ draft'.read = draft.read
          /\ UNCHANGED <<note, task>> /\ note.drafts = 0
        BY <1>0, <1>3 DEF EditDraft, Drafts
    <2>2. QED
        BY <1>0, <2>1
<1>4. CASE ApproveDraft
    <2>1. /\ draft'.state = "Approved" /\ draft'.expects = draft.expects /\ draft'.read = draft.read
          /\ UNCHANGED <<note, task>>
        BY <1>0, <1>4 DEF ApproveDraft, Drafts
    <2>2. QED
        BY <1>0, <2>1
<1>5. CASE ReadNote
    <2>1. /\ draft.state # "none" /\ draft'.state # "none" /\ draft'.expects = draft.expects /\ note' = note
          /\ draft'.read = draft.read \/ (draft'.read = note /\ note = draft.expects)
        BY <1>0, <1>5 DEF ReadNote, Expected, Drafts
    <2>2. QED
        BY <1>0, <2>1
<1>6. CASE WriteNote
    <2>1. note'.drafts = 1 /\ draft' = draft /\ draft.state # "none" /\ task'.op = "none"
        BY <1>0, <1>6 DEF WriteNote, Note, Idle
    <2>2. QED
        BY <2>1
<1>7. CASE \/ Crash \/ BackupFails \/ FinishBackup \/ RestoreFails \/ FinishRestore \/ FinishInstall
    BY <1>7, WriteInvSame
       DEF Crash, BackupFails, FinishBackup, RestoreFails, FinishRestore, FinishInstall, Idle
<1>8. CASE \/ RunStartsOrEnds \/ PreRestoreSnapshot \/ RollbackRestore \/ PlanUpdate
           \/ PreUpdateSnapshot \/ Switch \/ RewriteMarker
           \/ (\E f \in Files : Edit(f))
           \/ (\E b \in DOMAIN backups : \E f \in Files : Damage(b, f))
           \/ (\E b \in DOMAIN backups : \E preflight \in BOOLEAN : PlanRestore(b, preflight))
           \/ (\E preflight \in BOOLEAN : VerifyRestore(preflight))
           \/ (\E passed \in BOOLEAN : SmokeTest(passed))
    <2>1. UNCHANGED <<writing, task>>
        BY <1>8 DEF RunStartsOrEnds, PreRestoreSnapshot, RollbackRestore, PlanUpdate, PreUpdateSnapshot,
            Switch, RewriteMarker, Edit, Damage, PlanRestore, VerifyRestore, SmokeTest
    <2>2. QED
        BY <2>1, WriteInvSame
<1>9. CASE Prune
    BY <1>9, WriteInvSame DEF Prune
<1>10. CASE ExecuteRestore \/ BeginInstall \/ RollbackUpdate \/ \E mode \in Modes : BeginBackup(mode)
    <2>1. UNCHANGED writing
        BY <1>10 DEF ExecuteRestore, BeginInstall, RollbackUpdate, BeginBackup
    <2>2. task'.op \in {"restore", "install", "remove", "hash"}
        <3>1. CASE \E mode \in Modes : BeginBackup(mode)
            BY <3>1 DEF BeginBackup, Begin
        <3>2. CASE ExecuteRestore \/ BeginInstall \/ RollbackUpdate
            BY <3>2 DEF ExecuteRestore, BeginInstall, RollbackUpdate, Begin
        <3>3. QED
            BY <1>10, <3>1, <3>2
    <2>3. QED
        BY <2>1, <2>2, WriteInvSame
<1>11. ASSUME NEW f \in Files, HashFile(f) \/ CopyFile(f) \/ RestoreFile(f) \/ InstallFile(f) \/ RemoveFile(f)
       PROVE  WriteInv'
    <2>1. UNCHANGED writing
        BY <1>11 DEF HashFile, CopyFile, RestoreFile, InstallFile, RemoveFile
    <2>2. task' = task \/ task'.op # "write"
        BY <1>11, TaskSteps DEF HashFile, CopyFile, RestoreFile, InstallFile, RemoveFile, Begin, Idle
    <2>3. QED
        BY <2>1, <2>2, WriteInvSame
<1>12. QED
    BY <1>1, <1>2, <1>3, <1>4, <1>5, <1>6, <1>7, <1>8, <1>9, <1>10, <1>11 DEF FileJob

\* However often the write of an approved draft is tried again after its answer was lost, the note
\* holds the draft at most once.
THEOREM DraftsWrittenOnce == Spec => []WrittenOnce
<1>1. TInv /\ WriteInv /\ [Next]_vars => WriteInv'
    <2> SUFFICES ASSUME TInv, WriteInv, [Next]_vars PROVE WriteInv'
        OBVIOUS
    <2>1. CASE FileJob
        BY <2>1, WriteInvJob DEF TInv
    <2>2. CASE UNCHANGED filing
        BY <2>2, WriteInvSame DEF filing
    <2>3. QED
        BY <2>1, <2>2 DEF Next, vars
<1>2. WriteInv => WrittenOnce
    BY DEF WriteInv, WrittenOnce
<1>3. QED
    BY <1>1, <1>2, WriteInvInit, InitTInv, NextTInv, PTL DEF Spec
================================================================================
