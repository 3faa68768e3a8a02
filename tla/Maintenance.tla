----------------------------- MODULE Maintenance -----------------------------
(***************************************************************************)
(* The jobs that change files and nothing else: backup, restore, stable    *)
(* update and the write-back of an approved draft into an Obsidian note.   *)
(* Each is a synchronous function of one process: one of them runs at a    *)
(* time, file by file, and the process may end between two files.  Other   *)
(* processes go on meanwhile: the user edits a file or a note, a backup    *)
(* file is damaged, a run starts.  What a job returns (a plan, an          *)
(* installation, a smoke result) lives in memory.                          *)
(*                                                                         *)
(* A file is its content, numbered by the edit that made it; 0 is no file. *)
(***************************************************************************)
EXTENDS Migrations

CONSTANTS
    Files,         \* the live files a backup holds; also the files of a release
    LastVersion,   \* the newest stable version; the installation starts at 1
    Keep,          \* BACKUP_DAILY_RETENTION
    Schedules,     \* bound: the jobs one behaviour may use
    MaxBackups,    \* bound: backups ever begun, per schedule
    MaxEdits,      \* bound: edits and damages from outside
    MaxCrashes     \* bound: ends of the process

ASSUME MaintenanceAssumption ==
    /\ IsFiniteSet(Files) /\ Files # {}
    /\ LastVersion \in Nat \ {0} /\ Keep \in Nat \ {0}
    /\ \A s \in Schedules : s \subseteq {"backup", "restore", "update", "writeback", "migrate"}
    /\ MaxBackups \in [Schedules -> Nat] /\ MaxEdits \in Nat /\ MaxCrashes \in Nat

VARIABLES
    jobs,       \* the schedule of this behaviour
    live,       \* the live files
    seen,       \* every state the live files have had
    backups,    \* the backup directories, in the order they were begun
    active,     \* whether a run is active
    task,       \* the job under way, the backup or version it is about, and the files it has left
    restore,    \* restore: its plan, whether it has its snapshot, and how it ended
    update,     \* stable update: its plan and how far it is
    releases,   \* per version, the files of the release that are installed
    marker,     \* the version the current marker names; 0 while it is torn
    note,       \* the destination note: its last edit, and how often it holds the draft
    draft,      \* write-back: the draft's state, what the approval expects of the note, what was read
    edits, crashes

restoring == <<backups, restore, active>>
updating == <<update, releases, marker>>
writing == <<note, draft>>
filing == <<jobs, live, seen, task, restoring, updating, writing, edits, crashes>>
vars == <<filing, migrating>>

Versions == 1..LastVersion
Contents == [Files -> Nat]
Nowhere == [f \in Files |-> 0]
Modes == {"daily", "pre_maintenance"}
Backups == [mode : Modes, hash : Contents, file : Contents, complete : BOOLEAN]
Idle == [op |-> "none", on |-> 0, todo |-> {}]
NoRestore == [plan |-> "none", of |-> 0, snapshot |-> FALSE, end |-> "none"]
NoUpdate == [plan |-> "none", from |-> 0, to |-> 0, snapshot |-> FALSE, installed |-> FALSE, smoke |-> FALSE]
Note == [edit : Nat, drafts : Nat]
NoDraft == [state |-> "none", expects |-> [edit |-> 0, drafts |-> 0], read |-> [edit |-> 0, drafts |-> 0]]

TypeOK ==
    /\ jobs \in Schedules
    /\ live \in Contents /\ live \in seen /\ seen \subseteq Contents
    /\ backups \in Seq(Backups) /\ active \in BOOLEAN
    /\ task \in [op : {"none", "hash", "copy", "restore", "install", "remove", "write"},
                 on : Nat, todo : SUBSET Files]
    /\ restore \in [plan : {"none", "Planned", "Blocked"}, of : 0..Len(backups), snapshot : BOOLEAN,
                    end : {"none", "Restored", "Verified", "Blocked"}]
    /\ update \in [plan : {"none", "Planned", "Blocked"}, from : 0..LastVersion, to : 0..LastVersion,
                   snapshot : BOOLEAN, installed : BOOLEAN, smoke : BOOLEAN]
    /\ releases \in [Versions -> SUBSET Files]
    /\ marker \in 0..LastVersion
    /\ note \in Note
    /\ draft \in [state : {"none", "Draft", "Approved", "Conflict"}, expects : Note, read : Note]
    /\ edits \in Nat /\ crashes \in Nat
    /\ MigrationsTypeOK

Init ==
    /\ jobs \in Schedules
    /\ live = [f \in Files |-> 1] /\ seen = {live}
    /\ backups = <<>> /\ active = FALSE
    /\ task = Idle
    /\ restore = NoRestore /\ update = NoUpdate
    /\ releases = [v \in Versions |-> IF v = 1 THEN Files ELSE {}] /\ marker = 1
    /\ note = [edit |-> 1, drafts |-> 0] /\ draft = NoDraft
    /\ edits = 1 /\ crashes = 0
    /\ MigrationsInit

Free(job) == task.op = "none" /\ job \in jobs
Begin(op, on) == task' = [op |-> op, on |-> on, todo |-> Files]
Done(f) == task' = [task EXCEPT !.todo = @ \ {f}]

Live(contents) == live' = contents /\ seen' = seen \cup {contents}

-----------------------------------------------------------------------------
(* Outside                                                                 *)

Disturb == edits < MaxEdits /\ edits' = edits + 1

Edit(f) ==
    /\ Disturb
    /\ jobs \cap {"backup", "restore"} # {}
    /\ Live([live EXCEPT ![f] = edits'])
    /\ UNCHANGED <<jobs, task, restoring, updating, writing, crashes>>

EditNote ==
    /\ Disturb
    /\ "writeback" \in jobs
    /\ note' = [note EXCEPT !.edit = edits']
    /\ UNCHANGED <<jobs, live, seen, task, restoring, updating, draft, crashes>>

Damage(b, f) ==
    /\ Disturb
    /\ backups[b].complete
    /\ backups' = [backups EXCEPT ![b].file[f] = 0]
    /\ UNCHANGED <<jobs, live, seen, task, restore, active, updating, writing, crashes>>

RunStartsOrEnds ==
    /\ jobs \cap {"restore", "update"} # {}
    /\ active' = ~active
    /\ UNCHANGED <<jobs, live, seen, task, backups, restore, updating, writing, edits, crashes>>

\* What the jobs returned is gone; what they wrote stays.
Crash ==
    /\ crashes < MaxCrashes
    /\ crashes' = crashes + 1
    /\ task' = Idle /\ restore' = NoRestore /\ update' = NoUpdate
    /\ UNCHANGED <<jobs, live, seen, backups, active, releases, marker, writing, edits>>

-----------------------------------------------------------------------------
(* Backup                                                                  *)

\* createBackupManifest: every file is read and hashed, one after the other.
BeginBackup(mode) ==
    /\ Free("backup")
    /\ Len(backups) < MaxBackups[jobs]
    /\ backups' = Append(backups, [mode |-> mode, hash |-> Nowhere, file |-> Nowhere, complete |-> FALSE])
    /\ Begin("hash", Len(backups'))
    /\ UNCHANGED <<jobs, live, seen, restore, active, updating, writing, edits, crashes>>

HashFile(f) ==
    /\ task.op = "hash" /\ f \in task.todo
    /\ live[f] # 0
    /\ backups' = [backups EXCEPT ![task.on].hash[f] = live[f]]
    /\ IF task.todo = {f} THEN Begin("copy", task.on) ELSE Done(f)
    /\ UNCHANGED <<jobs, live, seen, restore, active, updating, writing, edits, crashes>>

\* A bug: the file is copied whatever it has become.
Undrifted(f) == TRUE

\* writeBackup reads the file again and compares it with the manifest.
SameAsHashed(f) == live[f] = backups[task.on].hash[f]

CopyFile(f) ==
    /\ task.op = "copy" /\ f \in task.todo
    /\ SameAsHashed(f)
    /\ backups' = [backups EXCEPT ![task.on].file[f] = live[f]]
    /\ Done(f)
    /\ UNCHANGED <<jobs, live, seen, restore, active, updating, writing, edits, crashes>>

\* A missing source or a drifted one throws: the directory stays, without a manifest.
BackupFails ==
    /\ \/ task.op = "hash" /\ \E f \in task.todo : live[f] = 0
       \/ task.op = "copy" /\ \E f \in task.todo : ~SameAsHashed(f)
    /\ task' = Idle
    /\ UNCHANGED <<jobs, live, seen, restoring, updating, writing, edits, crashes>>

\* The manifest is written last.
FinishBackup ==
    /\ task.op = "copy" /\ task.todo = {}
    /\ backups' = [backups EXCEPT ![task.on].complete = TRUE]
    /\ task' = Idle
    /\ UNCHANGED <<jobs, live, seen, restore, active, updating, writing, edits, crashes>>

Newer(b) == {c \in DOMAIN backups : c > b /\ backups[c].mode = backups[b].mode /\ backups[c].complete}

\* The retention plan of the complete backups, carried out.
Prune ==
    /\ Free("backup")
    /\ backups' = [b \in DOMAIN backups |->
            IF backups[b].complete /\ Cardinality(Newer(b)) >= Keep
            THEN [backups[b] EXCEPT !.complete = FALSE, !.file = Nowhere] ELSE backups[b]]
    /\ backups' # backups
    /\ UNCHANGED <<jobs, live, seen, task, restore, active, updating, writing, edits, crashes>>

\* verifyBackupIntegrity
Integrity(b) == backups[b].complete /\ backups[b].file = backups[b].hash

-----------------------------------------------------------------------------
(* Restore                                                                 *)

\* The gates are asked once; maintenance is written into the plan, and nobody reads it.
PlanRestore(b, preflight) ==
    /\ Free("restore")
    /\ backups[b].complete
    /\ restore' = [NoRestore EXCEPT !.of = b,
            !.plan = IF active \/ ~Integrity(b) \/ ~preflight THEN "Blocked" ELSE "Planned"]
    /\ UNCHANGED <<jobs, live, seen, task, backups, active, updating, writing, edits, crashes>>

\* createPreRestoreSnapshot writes a manifest with an empty list of files.
PreRestoreSnapshot ==
    /\ Free("restore") /\ restore.of # 0
    /\ restore' = [restore EXCEPT !.snapshot = TRUE]
    /\ UNCHANGED <<jobs, live, seen, task, backups, active, updating, writing, edits, crashes>>

ExecuteRestore ==
    /\ Free("restore")
    /\ restore.plan = "Planned" /\ restore.snapshot
    /\ backups[restore.of].complete
    /\ Begin("restore", restore.of)
    /\ UNCHANGED <<jobs, live, seen, restoring, updating, writing, edits, crashes>>

\* Each file is written beside its target and renamed over it.
RestoreFile(f) ==
    /\ task.op = "restore" /\ f \in task.todo
    /\ backups[task.on].file[f] = backups[task.on].hash[f]
    /\ Live([live EXCEPT ![f] = backups[task.on].file[f]])
    /\ Done(f)
    /\ UNCHANGED <<jobs, restoring, updating, writing, edits, crashes>>

\* A backup file that is missing or damaged throws: the files before it are restored, the rest not.
RestoreFails ==
    /\ task.op = "restore" /\ \E f \in task.todo : backups[task.on].file[f] # backups[task.on].hash[f]
    /\ task' = Idle
    /\ UNCHANGED <<jobs, live, seen, restoring, updating, writing, edits, crashes>>

FinishRestore ==
    /\ task.op = "restore" /\ task.todo = {}
    /\ task' = Idle
    /\ restore' = [restore EXCEPT !.end = "Restored"]
    /\ UNCHANGED <<jobs, live, seen, backups, active, updating, writing, edits, crashes>>

\* verifyRestoredHealth compares the live files with the hashes that were restored.
VerifyRestore(preflight) ==
    /\ Free("restore") /\ restore.end = "Restored"
    /\ restore' = [restore EXCEPT !.end =
            IF live = backups[restore.of].hash /\ preflight THEN "Verified" ELSE "Blocked"]
    /\ UNCHANGED <<jobs, live, seen, task, backups, active, updating, writing, edits, crashes>>

\* rollbackRestore clears the target; the snapshot has nothing to put back.
RollbackRestore ==
    /\ Free("restore") /\ restore.snapshot
    /\ Live(Nowhere)
    /\ restore' = [restore EXCEPT !.end = "none"]
    /\ UNCHANGED <<jobs, task, backups, active, updating, writing, edits, crashes>>

-----------------------------------------------------------------------------
(* Stable update                                                           *)

\* A bug: the version after the current one is taken for the newest.
PlanUpdateNext ==
    /\ Free("update")
    /\ marker # 0
    /\ update' = [NoUpdate EXCEPT !.from = marker, !.to = marker + 1,
            !.plan = IF active \/ marker = LastVersion THEN "Blocked" ELSE "Planned"]
    /\ UNCHANGED <<jobs, live, seen, task, restoring, releases, marker, writing, edits, crashes>>

\* The weekly check compares the version the marker names with the newest one.
PlanUpdate ==
    /\ Free("update")
    /\ marker # 0
    /\ update' = [NoUpdate EXCEPT !.from = marker, !.to = LastVersion,
            !.plan = IF active \/ marker = LastVersion THEN "Blocked" ELSE "Planned"]
    /\ UNCHANGED <<jobs, live, seen, task, restoring, releases, marker, writing, edits, crashes>>

\* createPreUpdateSnapshot: the pre-maintenance backup that was just written, if it verifies.
PreUpdateSnapshot ==
    /\ Free("update") /\ update.plan = "Planned"
    /\ \E b \in DOMAIN backups : backups[b].mode = "pre_maintenance" /\ Integrity(b)
    /\ update' = [update EXCEPT !.snapshot = TRUE]
    /\ UNCHANGED <<jobs, live, seen, task, restoring, releases, marker, writing, edits, crashes>>

\* Nothing in the function keeps a caller from installing the release it already switched to over
\* itself; a caller that does is not modelled.
BeginInstall ==
    /\ Free("update") /\ update.plan = "Planned"
    /\ marker # update.to
    /\ Begin("install", update.to)
    /\ UNCHANGED <<jobs, live, seen, restoring, updating, writing, edits, crashes>>

\* A release file is written in place: truncated first, whole at the end.
InstallFile(f) ==
    /\ task.op = "install" /\ f \in task.todo
    /\ \/ f \in releases[task.on] /\ releases' = [releases EXCEPT ![task.on] = @ \ {f}] /\ UNCHANGED task
       \/ f \notin releases[task.on] /\ releases' = [releases EXCEPT ![task.on] = @ \cup {f}] /\ Done(f)
    /\ UNCHANGED <<jobs, live, seen, restoring, update, marker, writing, edits, crashes>>

FinishInstall ==
    /\ task.op = "install" /\ task.todo = {}
    /\ task' = Idle
    /\ update' = [update EXCEPT !.installed = TRUE]
    /\ UNCHANGED <<jobs, live, seen, restoring, releases, marker, writing, edits, crashes>>

SmokeTest(passed) ==
    /\ Free("update") /\ update.installed
    /\ update' = [update EXCEPT !.smoke = passed]
    /\ UNCHANGED <<jobs, live, seen, task, restoring, releases, marker, writing, edits, crashes>>

\* atomicSwitchUpdate writes the marker beside the old one and renames it; it asks for no snapshot.
Switch ==
    /\ Free("update")
    /\ update.installed /\ update.smoke
    /\ marker' = update.to
    /\ UNCHANGED <<jobs, live, seen, task, restoring, update, releases, writing, edits, crashes>>

\* A bug: the release is removed before the marker leaves it.
RollbackRemovesFirst ==
    /\ Free("update")
    /\ update.plan # "none" /\ update.snapshot
    /\ Begin("remove", update.to)
    /\ UNCHANGED <<jobs, live, seen, restoring, updating, writing, edits, crashes>>

\* rollbackStableUpdate writes the marker in place: truncated, whole, and then the release goes.
RollbackUpdate ==
    /\ Free("update")
    /\ update.plan # "none" /\ update.snapshot
    /\ marker' = 0
    /\ Begin("remove", update.to)
    /\ UNCHANGED <<jobs, live, seen, restoring, update, releases, writing, edits, crashes>>

RewriteMarker ==
    /\ task.op = "remove" /\ marker = 0
    /\ marker' = update.from
    /\ UNCHANGED <<jobs, live, seen, task, restoring, update, releases, writing, edits, crashes>>

RemoveFile(f) ==
    /\ task.op = "remove" /\ marker # 0
    /\ f \in task.todo
    /\ releases' = [releases EXCEPT ![task.on] = @ \ {f}]
    /\ IF task.todo = {f} THEN task' = Idle /\ update' = NoUpdate ELSE Done(f) /\ UNCHANGED update
    /\ UNCHANGED <<jobs, live, seen, restoring, marker, writing, edits, crashes>>

-----------------------------------------------------------------------------
(* Obsidian write-back                                                     *)

\* The draft is shown with the note it is meant for, whose hash the caller keeps.
CreateDraft ==
    /\ Free("writeback") /\ draft.state = "none"
    /\ draft' = [NoDraft EXCEPT !.state = "Draft", !.expects = note]
    /\ UNCHANGED <<jobs, live, seen, task, restoring, updating, note, edits, crashes>>

\* An edit makes another draft of it, approved or not.
EditDraft ==
    /\ Free("writeback") /\ draft.state = "Approved" /\ note.drafts = 0
    /\ draft' = [draft EXCEPT !.state = "Draft", !.expects = note]
    /\ UNCHANGED <<jobs, live, seen, task, restoring, updating, note, edits, crashes>>

ApproveDraft ==
    /\ Free("writeback") /\ draft.state = "Draft"
    /\ draft' = [draft EXCEPT !.state = "Approved"]
    /\ UNCHANGED <<jobs, live, seen, task, restoring, updating, note, edits, crashes>>

\* A bug: only the user's part of the note is compared.
ExpectedEdit == note.edit = draft.expects.edit

Expected == note = draft.expects

\* writeObsidianApprovedDraft reads the note; one that is not as expected gets a conflict draft
\* beside it.  A caller that got no answer calls again.
ReadNote ==
    /\ Free("writeback") /\ draft.state \in {"Approved", "Conflict"}
    /\ IF Expected
       THEN /\ task' = [op |-> "write", on |-> 0, todo |-> {}]
            /\ draft' = [draft EXCEPT !.read = note]
       ELSE /\ draft' = [draft EXCEPT !.state = "Conflict"]
            /\ UNCHANGED task
    /\ UNCHANGED <<jobs, live, seen, restoring, updating, note, edits, crashes>>

\* The merged content replaces the note, with whatever was written to it since it was read.
WriteNote ==
    /\ task.op = "write"
    /\ note' = [draft.read EXCEPT !.drafts = @ + 1]
    /\ task' = Idle
    /\ UNCHANGED <<jobs, live, seen, restoring, updating, draft, edits, crashes>>

FileJob ==
    \/ \E f \in Files : Edit(f)
    \/ EditNote \/ RunStartsOrEnds \/ Crash
    \/ \E b \in DOMAIN backups : \E f \in Files : Damage(b, f)
    \/ \E mode \in Modes : BeginBackup(mode)
    \/ \E f \in Files : HashFile(f) \/ CopyFile(f) \/ RestoreFile(f) \/ InstallFile(f) \/ RemoveFile(f)
    \/ BackupFails \/ FinishBackup \/ Prune
    \/ \E b \in DOMAIN backups : \E preflight \in BOOLEAN : PlanRestore(b, preflight)
    \/ PreRestoreSnapshot \/ ExecuteRestore \/ RestoreFails \/ FinishRestore \/ RollbackRestore
    \/ \E preflight \in BOOLEAN : VerifyRestore(preflight)
    \/ PlanUpdate \/ PreUpdateSnapshot \/ BeginInstall \/ FinishInstall
    \/ \E passed \in BOOLEAN : SmokeTest(passed)
    \/ Switch \/ RollbackUpdate \/ RewriteMarker
    \/ CreateDraft \/ EditDraft \/ ApproveDraft \/ ReadNote \/ WriteNote

Next ==
    \/ FileJob /\ UNCHANGED migrating
    \/ \E p \in Migrators : "migrate" \in jobs /\ Migrate(p) /\ UNCHANGED filing

Spec == Init /\ [][Next]_vars

-----------------------------------------------------------------------------
(* Properties                                                              *)

\* A complete backup is a state all files had at one moment, though they are hashed and copied one
\* after the other while their owners write to them.
BackupIsConsistent ==
    \A b \in DOMAIN backups : backups[b].complete => backups[b].hash \in seen

\* The marker names a release that is completely installed, or is torn by a rollback that did not
\* get further, wherever the process ends.
MarkerIsInstalled == marker = 0 \/ releases[marker] = Files

\* An approved draft is in the note at most once, however often the write is tried again after its
\* answer was lost.
WrittenOnce == note.drafts <= 1
=============================================================================
