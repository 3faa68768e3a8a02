# Londi Agent OS: a verification project

Londi Agent OS is a local service that runs coding agents (Codex, Claude Code) on
registered Git repositories. A run gets a branch and a worktree of its own, an agent
process works in it, and gates, reviews and merges decide what becomes of the work.
This directory holds TLA+ models of the service, TLC configurations that check them,
and proofs that TLAPS checks.

Run from this directory:

    tlc -workers 2 -config MCManualRunsRetries.cfg MCManualRuns.tla
    tlapm ManualRunsProofs.tla

`PROJECT.json` lists components, runs, mutants (for each property a bug it catches: an
operator beside the definition it stands in for, its comment beginning "A bug:"), the map
from definitions to source lines, findings, hazards and theorems.

## 1. Inventory

Paths are short for `src/apps/local-api/src` (A), `src/packages/orchestrator/src` (O),
`src/packages/adapters/src` (D), `src/packages/migrations/src` (M) and `src/apps/ui/src`
(U). The whole system is JavaScript on Node: one process, one event loop, no threads.
Concurrency comes from `await`, timers, child processes that outlive the service, the
browser, and SQLite.

| Component | State | Operations | Hard behaviour | Correct when |
|---|---|---|---|---|
| Manual run service (A/host-connector, service-lifecycle, index) | `runStore` Map, `runs.json`, listening socket | POST /runs, GET /runs (refresh), start, stop | two writers of one record around an `await`; retried POSTs; file truncated in place; restart | verdicts are earned and stay; failures have no agent at work; running runs settle |
| Direct executor (O/direct-manual-run-executor) | none of its own; settle timer | execute, refresh, verify changes | exit event against timer against refresh | success = exit code 0 and uncommitted changes |
| Workspace manager (O/workspace-manager) | in-memory lock store; branches, worktrees and their manifests in Git | validate + lock, create, snapshot, clean, release | lock is lost on restart and never released; branch names keep 12 characters of an id; partial creation | no two agents share a branch, worktree or locked target |
| Attempt process manager (O/process-manager 1-151) | Map of attempts and child handles | start, cancel (SIGTERM, SIGKILL), list | cancellation suspends; second caller; exit against timers; pid reuse | ended means gone; signals go to own children |
| Attempt supervisor (O/process-manager 153-288) | heartbeats per attempt | track, heartbeat, classify | late heartbeat after failure; thresholds equal | a verdict does not go back |
| Adapters (D) | none; call the process manager | discover, health, start, deliver, heartbeat, cancel, resume | results normalised; errors become terminal failures | the outcome says what happened |
| Checkpoints and safe shutdown (O/checkpoint-scheduler) | sequence, checkpoint list, artifact files | four checkpoint reasons, runSafeShutdown | loop of awaited cancellations with a budget | children closed before "Recovery Required" |
| Run and step state machines (O/state-machine) | none: pure tables | assert / list transitions | guards supplied by others | no path round a gate |
| Command pipeline, idempotency (O/command-pipeline, idempotency) | SQLite rows, idempotency records, artifact files | validate, guard, transaction, artifact, publish; replay | state read before the transaction; crash between commit, rename, publish and record | effects at most once; audit = state |
| Event store, SSE, UI client (O/event-store, A/sse-stream, U/sse-client, U/client-state) | event and audit lists, retention floor, client cursor | append, replay page, resync | filter after limit; lost cursor; retention overtakes client | client eventually sees every event once, in order |
| Approval gates (O/approvals) | frozen requests and decisions | create, decide, assert usable | expiry, changed payload, replayed decisions | a decision holds for one payload of one revision |
| Handoff, review, correction (O/handoff, review, correction-cycle) | packages, review records, cycle counts | validate, advance, request correction | correction limit; separation of author and reviewer | limit never passed, reviews are of the final diff |
| Acceptance, merge, completion (O/acceptance-gate, manual-merge, completion-retention) | gate requests, merge proof | accept, prepare merge, complete | HEAD moves between proof and use | completed means merged |
| Retention and clean-up (O/retention-scheduler) | retention records, audit | plan, sweep | one failure ends the sweep | nothing young, dirty or foreign is removed |
| Restart recovery, technical retry (O/restart-recovery, technical-retry) | reports, retry counts | report, guard, retry, replace, reconnect | guards computed once; unknown external effects | no automatic resume; one automatic retry |
| Secret and network grants (O/secret-broker, network-grants) | grant Maps | request, approve, use, revoke, end of run | expiry and scope at use | no use without a live grant |
| Backup, restore, stable update (O/backup-manager, restore-workflow, stable-update) | backup files, manifests, version pointer | back up, restore, update, roll back | failure half way | old or new, never a mixture |
| Migrations (M) | SQLite schema, triggers | apply, verify | interrupted migration | history is append-only |
| Preflight (O/preflight-engine), pipeline templates, capability registry and recommendation (D) | none: pure functions | checks, summary, ranking | precedence of checks, ties, overrides | blocked stays blocked; the recommended are eligible |
| Obsidian context and write-back (O/obsidian-*) | notes in the vault, drafts | select, approve, snapshot; draft, approve, write | the user edits a note while it is written; retry after a lost answer | a draft is written once |
| Dashboard (U/phase2-dashboard and what it binds) | one page, controller state, requests under way | load, refresh, send, summarise | answers out of order; page out of step with the controller | what the page was told of stays; controls come back |
| Tool catalog, redaction, auth, REST contracts, logging, static screens, validation suites | mostly none | checks, formatting, reports | little order-dependent state | see PROJECT.json |

The live path is: browser `POST /runs` → service → host connector → executor →
workspace manager (lock, branch, worktree) → adapter → process manager → agent process;
results come back through the exit event, the executor's settle timer, and the refresh
that `GET /runs` performs. The gates, the command pipeline, supervision, recovery and the
maintenance jobs are a library beside it: exported and tested, composed by scripts, not
yet called by the service. Their modules compose them as the repository's documents say
they are composed, and take from their callers only what the functions leave to them.

Section `hazards` of PROJECT.json lists what in this code is hard to test, each at its
line. They are what the properties are for.

## 2. Modules

| Module | What it is |
|---|---|
| `RunRecords` | what the live path promises of a run: its record, its one agent, its verdict |
| `ManualRuns` (`MCManualRuns`, 3 cfg; `ManualRunsProofs`) | the live path with crashes and restarts; implements `RunRecords` |
| `ProcessControl` (`MCProcessControl`, 1 cfg; `ProcessControlProofs`) | cancellation and safe shutdown at the grain of callbacks |
| `StateMachine` | the transition tables of runs and steps as constants, and how an event is looked up in them |
| `RunLifecycle` | what a run may go through: the abstract specification of everything that moves runs |
| `Commands` (`MCCommands`, 1 cfg; `CommandsProofs`) | idempotency wrapper, command pipeline, SQLite transaction, artifacts, publication |
| `Approvals`, `Reviews`, `PipelineTemplates`, `PreflightEngine`, `WorkspaceIsolation` | the pure functions behind the gates |
| `Delivery` (`MCDelivery`, 2 cfg; `DeliveryProofs`) | one run from its context to the clean-up of its workspace, composed of these five and `StateMachine` |
| `Recommendation` | which adapter may run an agent |
| `Recovery` (`MCRecovery`, 1 cfg; `RecoveryProofs`) | supervision, technical retry, restart recovery, checkpoints, external effects |
| `EventStream` (`MCEventStream`, 1 cfg; `EventStreamProofs`) | event store, SSE replay, one client, the retention sweep and its audit |
| `Migrations` | services that migrate one database |
| `Maintenance` (`MCMaintenance`, 1 cfg; `MaintenanceProofs`) | backup, restore, stable update, write-back, composed with `Migrations` |
| `Dashboard` (`MCDashboard`, 2 cfg; `DashboardProofs`) | the browser page with several requests in flight |

### ManualRuns

State and code: `store` is the host connector's `runStore`; `disk` and `torn` are
`runs.json`; `locks` is the in-memory lock store, keyed by target branch (one
repository is modelled); `branches` and `worktree` are what Git holds, a worktree with
the target its manifest names; `attempts` is the process manager's Map; `process` and
`tree` are the agent process and what `git status` shows of its worktree; `pc` and `run`
are the progress of each POST handler; `turn` names the callback that is running.

Callbacks run to completion, so `turn` keeps them apart. Their steps are still separate
actions, for two reasons: a crash may fall between any two of them, and agents move
beside them. The only point where a POST lets others run is the executor's settle timer
(`"settling"`). All `await`s of a handler before it resolve without leaving the callback
(`async` functions over synchronous Git and file calls), which is why nothing else
interleaves there.

| Action | Code |
|---|---|
| `Receive`, `MarkRunning` | createManualRun up to the executor; each persists |
| `RefuseInput`, `AcquireLock` | assertManualRunInput, validateGitProject |
| `RefuseWorkspace`, `CreateBranch`, `AddWorktree`, `DropBranch` | createRunWorkspace and its roll-back |
| `RefuseAdapter`, `Spawn` | adapter discovery, health and start; startAttempt |
| `Settle` | heartbeat after the timer, verification, final persist |
| `Fail` | the catch of createManualRun |
| `RefreshBegin`, `RefreshRun` | refreshRuns, one iteration at a time |
| `AgentWorks`, `AgentExits`, `ExitEvent` | the agent, and the child's exit event |
| `Stop`, `Exit`, `Crash`, `CrashWriting`, `Start` | service lifecycle |

What all of it comes to is `RunRecords`: a record goes from absent to queued, running and one
verdict, an agent starts once and only while the record says running, and a verdict of success
wants an agent that exited with zero, any verdict one that is not alive. `ManualRuns` implements
it (`RecordsAreHonest`) with `status` read from `runs.json` and `agent` from the processes, not
from what the service believes of either. Where two requests share an id the second starts the
record anew, so the implementation holds for distinct ids.

Data left out: titles, prompts, file contents, timestamps, hashes. Kept of ids: which
may coincide (`IdsOf`: the body's id, or title and clock second) and which branch name
they shorten to (`BranchOf`, deliberately not injective).

### ProcessControl

`status` and `child` are an attempt as the manager and as the operating system see it;
`phase` is the timer `waitForExit` has armed; `waiter` is the call it will wake.
`Terminate` is cancelAttempt up to its await; `ExitEvent`, `KillTimer` and `GiveUp` are
the three callbacks that follow. The exit event and the continuation of the cancelling
call run in one turn of the event loop, so `ExitEvent` does both (`Resume`). The loop of
runSafeShutdown passes over attempts that are not running without leaving its callback;
while it is `"looping"` no other callback runs. Output capture, pids and clock values
are left out; the shutdown's budget may run out after any cancellation (`Overrun`).

### StateMachine and RunLifecycle

A guard of the table reads a context that its caller builds from facts of other
components. Here a context is the set of facts that hold in it, and a transition names
the facts it `needs` and those that bar it, so that `=== true`, `!== true` and
`=== false` stay three different things. Names are the source's, with `_` for a blank.
`RunLifecycle` takes any transition whose context may hold; `gates` is a history
variable: the approvals the run has passed for the work it holds now. `Maintenance_Hold`
has no transition that leads to it, as in the source.

### Commands

The wrapper (`withIdempotency`), the pipeline (`executeCommandPipeline`), the transaction
and the revision check are library functions that the repository's documents compose:
every mutating command brings a key, a fingerprint and the revision it saw. The module
models that composition. A command is one synchronous callback, so `turn` serves one
request at a time, but a crash may fall between any two of its steps.

| Variable | Code |
|---|---|
| `row`, `merged` | the run's row: state and revision, and its three merge columns |
| `events`, `audits` | the tables the transaction appends to |
| `records` | `idempotency_records`, reduced to the request a key was recorded for |
| `artifacts`, `published` | files at their final paths; events handed to subscribers |
| `command`, `seen` | a request's fingerprint, and the state and revision its client had read |

`Commit` is the whole transaction: it is one action because SQLite makes it one, and
`RollBack` is every way it fails, the completed-run trigger included. What follows the
commit is apart: `WriteArtifact`, `Mismatch`, `Publish`, `FailLate`, `Record`, and
`Crash` between any two. A fingerprint is the event and the context of its guard. The
merge columns are written by nobody in the pipeline; `RecordMerge` stands for Gate F.
`Commands` implements `RunLifecycle` through `Lifecycle == INSTANCE RunLifecycle WITH
state <- row.state`; the property is `RunSteps`, its next-state relation, because a run
may be anywhere in its life when the first command arrives (`Starts`). `Delivery` and `Recovery`
implement the same life cycle under mappings of their own.

### Delivery and the pure modules behind it

Approvals, handoffs, reviews and acceptance are functions of frozen objects; what makes
them hard is who holds which object when. The module keeps per run the revision of each
gate's document (`doc`), the open `request`, the `answer` under way, the last `decision`,
and what each gate was `passed` with. The user answers the request on the screen
(`Reply`), and the answer is taken (`Decide`, `DecideAcceptance`) at any later time, also
twice, while documents are revised and the clock passes the request's end.

| Part | Definitions | Code |
|---|---|---|
| requests, decisions | `Approvals` | O/approvals, and the assert functions of every consumer (`Binds`) |
| context gate, Gate A | `SelectContext` .. `PrepareWorkspace` | O/obsidian-context, pipeline-approval, preflight-engine, `StateMachine` |
| Gate B, build, review | `ReviseHandoff` .. `Rework`, `Reviews` | O/handoff, review, correction-cycle |
| Gate E | `Deliver` .. `DecideAcceptance` | O/acceptance-runs, acceptance-gate, createWorkspaceAcceptanceSnapshot |
| Gate F | `VerifyHead`, `VerifyMerge`, `FailMerge`, `Complete` | O/manual-merge, completion-retention |
| clean-up | `Eligible`, `Removable`, `CleanUp` | O/workspace-manager, completion-retention |
| outside | `Push`, `CommitLate`, `Tick` | the user's Git, time |

Work is counted by builds: `work.built` is in the worktree, `work.head` committed, and
`snapshot` and `accepted` say how much of it a document and the user's acceptance are
about; `target.holds` is what the target branch contains. `VerifyHead` and `VerifyMerge`
are two actions because they are two Git calls with a push possible between them.
`WorkspaceIsolation` resolves links on a small disk; `MCDelivery` checks as an assumption
that every write the policy allows ends in an allowed tree and in no denied one, over all
disks with up to two links and all targets of up to three names.

### Recovery

One run with its step, the supervisor's record of its current attempt (`watched`), the
processes that are `alive` and those whose end nobody has seen (`unclosed`), what is
recorded of each external effect and what really happened to it. `Lifecycle` is `RunLifecycle`
for a run past Gate A and before acceptance; `Restart` sets the state without asking the table,
which is why its steps are worth comparing. Silence and age are
counted in ticks up to the largest threshold. Evaluation, and acting on it, are two
actions: a heartbeat may come between. A `report` is frozen, as in the code; files,
processes and effects may change before it is used. The caller is taken to report every
attempt whose end it has not seen, and to ask for a new report after each start. A `Shutdown`
ends the attempts of this lifetime (`Tracked`): one of an earlier lifetime is unknown to the
process manager, and a shutdown that names it throws.

### EventStream

`log` and `audit` are the store's two lists. A sweep is one callback in several steps: it plans
the runs that are `eligible` (`BeginSweep`), removes their workspaces one after the other
(`Execute`), and appends its event and then its audit entry; a clean-up that throws
(`ExecuteFails`) ends it without either, and what was removed stays removed. `eligible` is a set
that runs enter and leave as they like, whether or not their worktree is still there (`Settle`):
a run may be kept, or retried. `wire` is the rest of one page on its way, a set of ids that is
delivered in their order; `Page` is the code's page, filtered after it was cut. There are two
cursors, as in the code: the transport's `Last-Event-ID` (`header`) and the client's own
(`client.cursor`), which goes into the query, where the server does not look.

### Maintenance and Migrations

Backup, restore, update and write-back are synchronous and run one at a time (`task`),
file by file; the user, other processes and a crash come between files. File contents are
numbered by edits. A `Schedule` names the jobs one behaviour may use: it only keeps
unrelated jobs from multiplying each other's states. `Migrations` has its own actors:
several services copy the database, take SQLite's write lock or are refused, and execute
batches of statements inside one transaction. A schema is the set of names it defines. The copy
takes time and no lock, and a commit is two steps (`WritePages`, `CommitMigration`) with the file
torn (`hot`) in between; a service that ends there leaves the file to be repaired by whoever opens
the database next, and that is after the next copy. A copy is remembered as what was committed
and whether it is `torn`: it met a commit, or was cut short.

### Dashboard

`page` is what was rendered and bound, `state` and `view` the controller's, `ops` the
requests under way. The page is rendered when a click has come back and not when it
starts, so it offers controls the screen will turn down: `Gate` is asked anew at every
click, and the page's bindings are not trusted. Answers of the Local API (`AnswerRuns`,
`AnswerObsidian`, `AcceptRun`, ...) and their arrival (`Settle`) are separate, so a load may
carry a list older than a run created meanwhile, if two requests could be under way.

## 3. Runs

| Run | Instance | Question |
|---|---|---|
| `manual_distinct` | 2 posts with ids of their own, 2 targets, 2 restarts, fair | do `runs.json` and the agents implement `RunRecords` through restarts, and does every run whose agent has exited settle while the service is up? |
| `manual_retries` | 3 posts for 1 target, 2 of which may share an id, 2 of the 3 ids with one branch name, 1 restart | do lock, branch check and verification hold when requests are sent again, and is every run under way in somebody's hands? |
| `manual_lost_lock` | 2 runs on 1 target, 1 restart | is there one agent per target? **No** |
| `process_cancel` | 2 attempts, 2 callers, the shutdown, fair | does "ended" mean gone in every order of exits and timers, does every cancellation end, does a shutdown close what nobody else names? |
| `commands_retries` | 2 requests under 1 key, one with an unknown effect, every state a run can be in | is a request applied once and a replay true through crashes and retries, and does the run keep to its table? |
| `delivery` | 2 templates, 3 machines, 3 reviews, 5 revisions, 3 builds, 1 push | are gates passed in time and for the current document, are corrections counted, can accepted work always be had, and is it a life of `RunLifecycle`? |
| `delivery_unmerged` | an agent that does not commit | is a completed run merged? **No** |
| `recovery` | 3 attempts, 1 effect, thresholds 1 < 2 < 3 < 4, 1 disturbance, fair | one agent per run, every effect once, no start under a stale report, only steps of `RunLifecycle`, and is silence noticed? |
| `stream` | 2 runs, pages of 2, floors 0 and 2, the client alone (3 events), sweeps alone (1) and both (1), 2 troubles, fair | is no event skipped, does a client catch up, is a removal audited though its sweep failed? |
| `maintenance` | 2 files, 2 backups, 2 versions, 2 migrating services, 3 edits, 1 crash | are backups consistent, markers whole, drafts written once, schemas and untorn copies of one version? |
| `dashboard` | 2 runs, with and without a bridge, 2 request slots, fair | does what was created stay shown, do controls come back? |
| `dashboard_queued` | 1 run without a bridge | can what is stored be shown? **No** |

**Bounds.** `MaxRestarts` bounds the starts of the service. Two restarts let a lock be
lost twice, and let a run of a first lifetime meet one of a second and a third. Three posts
are the smallest number at which a retry and a stranger compete for one target. Two
attempts let a shutdown find one cancelled by another while it awaits the first. Two
requests under one key are a stranger with the same key, or the same client that has read
the run anew. `Anywhere` is the set of all reachable pairs of state and gates, so two
commands see every transition of the table with every other one in its way.

In `delivery`, five revisions are one of each gate's document, or a document revised under its
open request and asked for again; three builds are a build, a correction and a rework, or a
late commit; two ticks pass the life of a request (`Ttl` = 1) and the retention of a completed
run (1), which is shorter than that of others (2), as in the code; one push is enough to merge,
or to move the head under Gate F. In `recovery` the thresholds keep their order and distance of
one tick; three attempts are the first, the automatic retry and one resumed or replaced after
it; the first works with one adapter, and a replacement with the other; one disturbance is a
crash, a damaged file or a shutdown that times out. In `stream` a client alone meets three
events: more than one page, a floor of two inside them, and two events of another run fill a
page of a client that follows one. Client and sweeps share only the log, so a `Scene` has the
client, the sweeps or both; beside sweeps one event is enough, because theirs come on top.
A sweep all of whose runs the audit names already is left out; other sweeps, their failures and the
coming and going of `eligible` are not bounded. In
`maintenance` a job may stop between two files; two backups of a mode with `Keep` = 1 let one
be pruned; three edits change a file, change it again and damage a backup. The dashboard has
two request slots although the code can only ever use one: the second is where a second request
would go if the gate let it through, as the mutant `GateOpen` does. The theorems of section 5
remove these bounds for the safety properties they prove.

`CHECK_DEADLOCK FALSE` is in every cfg, because the modelled systems do stop: a torn
`runs.json` keeps the service down, runs end and are cleaned up, attempts, edits and troubles
are bounded, requests and calls are made once.

**Fairness.** `ManualRuns!FairSpec`: the running callback goes on (WF); timers, exit events and
refreshes are strong, because a busy event loop interrupts them (they are disabled whenever
another callback has the turn) but reaches each of them again; a service that is down is
started; the operator keeps loading `GET /runs`. No agent is made to exit.
`ProcessControl!FairSpec`: exit events, timers and the shutdown's loop are reached (WF), and a
process that was sent SIGKILL ends; one that was only sent SIGTERM may ignore it. `Recovery`:
time passes, the supervisor evaluates, its caller acts on what it found, a service that ended
starts again (all WF). The repository has no loop that calls the supervisor; `SilenceIsNoticed`
says what holds when one does. `EventStream`: the transport connects again and delivers, as
browsers do, and the sweep keeps running (all WF). Its clean-ups may fail for ever, which
nothing in the code ends: `RemovalIsAudited` excepts that case, and a run that stops being
eligible, by name. `Dashboard`: every `fetch` settles (WF). It has no timeout, so this is an
assumption about the network and not about the code: a request that is never answered disables
all controls for ever.

## 4. What the checks found

Three runs end in a disagreement of code and text, described in `findings`:

* `manual_lost_lock`: the lock per repository and target lives in memory, agents are
  detached; after a restart a second agent is started beside the first.
* `delivery_unmerged`: Gate F asks whether the target branch contains the run branch. Where
  the agent did not commit, the run branch is still the base commit: the run is completed
  with nothing merged, and the accepted work goes with its worktree after retention.
* `dashboard_queued`: a run stored without a bridge is `queued`, a status the dashboard's
  contract refuses, and then every load fails.

The other properties hold. What else the code was seen to do while it was modelled, for the
next reader (none of it is a property of a run):

* *Live path.* A POST sent again under one id replaces the record of the first, verdict
  included (`host-connector.js:178`; `docs/idempotency-concurrency.md:13`). After a restart an
  attempt of the previous lifetime is unknown: its run stays running for ever
  (`direct-manual-run-executor.js:41`). Locks are never released.
* *Processes.* A cancellation of an attempt another call is cancelling returns at once, so a
  shutdown may declare its children closed while one is alive (`process-manager.js:65`).
* *Commands.* An error after the commit leaves no record; the same key acts again
  (`idempotency.js:63`). The table leads from "Preflight Running" through a shutdown and
  "Recovery Required" to "Running" without Gate A (`state-machine.js:99`).
* *Gates.* A request that is Pending can be decided twice, the other way. A correction by
  exception has no transition of the run table (`state-machine.js:68`). A Critical finding that
  is not sensitive is corrected by the cycle but barred by the table. "Blocked" has no way out
  but a stop. Preflight takes the workspace lock (`workspace-manager.js:408`) and nobody
  releases it when another check blocks; its result is not asked for again at Gate A. New
  files nobody has added appear in the acceptance snapshot's status but in no diff
  (`workspace-manager.js:202`). `completion-retention.js:17` does not compare the accepted
  snapshot. Gate F's other proof, the hash of `git diff target...run` (`manual-merge.js:80`),
  starts at the merge base: it equals the accepted patch before anything is merged. The
  worktree of a run that needs attention is cleaned up after 30 days though the run may be
  retried: preflight asks for the repository and the target branch (`preflight-engine.js:78`),
  and the run is "Running" without a worktree to build in.
* *Recovery.* The step table has no way back from "Unresponsive" when a session reconnects. A
  run found silent with its retry unused, and Resume barred, has no way on. Checkpoint numbers
  start at 1 after a restart. A blocked network attempt leaves its effect unknown for ever. The
  first grant for a destination hides a renewed one. The report names Recovery Required
  whatever the run was (`restart-recovery.js:39`); the model asks for one of active runs only.
  The default process snapshot `{}` reads as "no child is alive". A shutdown that is given an
  attempt of an earlier lifetime throws when its checkpoint is written (`process-manager.js:64`);
  one that is not given it calls its children closed while that one is alive.
* *Event stream.* The client's cursor in the query is ignored (`api-client.js:27`,
  `sse-stream.js:45`): a connection the client opens starts from the first event. A heartbeat's
  id 0 resets `Last-Event-ID`. A reset keeps the client's old cursor (`??` of a null). A client
  that follows one run stalls when a whole page is about others (`sse-stream.js:60`):
  `StallsOnlyBehindOthers` says that nothing else stalls one, and `FollowerCatchesUp` speaks of
  clients of all runs. An in-memory store numbers anew after a restart.
* *Retention.* `docs/retention-scheduler.md:17` says "Every scheduler run emits an Audit entry";
  one whose clean-up throws emits none (`retention-scheduler.js:34`). The next sweep makes up for
  it, since a run is planned again although its worktree is gone. But if the run is kept or taken
  up again before a sweep goes through, or one path fails every day, what was removed is never in
  the audit: `RemovalIsAudited` says that nothing else hides it.
* *Maintenance.* The pre-restore snapshot lists no files, so a roll-back only clears the target.
  Restore's gates are asked when it is planned, not when it runs. Switch and install do not ask
  for the pre-update snapshot. A roll-back writes the marker in place. An edit between the read
  and the write of a note is lost (`obsidian-writeback.js:110`), and without
  `expectedExistingHash` a retry appends twice. A second migrating service fails at once. The
  pre-migration backup is copied from the file without a lock and before the database is opened
  (`migrations/src/index.js:271`): beside the commit of another service, or after a service that
  ended in its commit, the copy is torn, in the very case it is made for. After a roll-back the
  old release runs on the newer schema. Only tests call `runMigrations`.
* *Dashboard.* Text typed while a request is under way is wiped when it ends; so is a message
  whose Send was turned down, with no error shown. `docs/dashboard.md:27` says creating a run
  reloads the list; the code inserts the answer. Messages with the same first eight words share
  an idempotency key. The Run Summary's run is not stored, and the next load drops it.

## 5. Proofs

Eight modules hold proofs that TLAPS checks to the last leaf, for every value of the constants
that satisfies the assumptions declared beside them (types, distinct marker values, order of
the thresholds, bounds in Nat). None of the safety properties is inductive by itself; each
module states the strengthening it uses as named parts.

| Module | Theorem | Property |
|---|---|---|
| `ManualRunsProofs` | `TypeCorrect` | `TypeOK` |
| | `SuccessIsEarned` | `SucceededHasWork` |
| | `BranchesStayApart` | `BranchesNotShared` |
| | `LockKeepsAttemptsApart` | `OneAttemptPerTarget` |
| | `NoSecondStart` | `AgentStartsOnce` (not in a run) |
| | `VerdictsStay` (if `DistinctIds`) | `VerdictIsFinal` (not in a run) |
| | `FailureMeansNoAgent` (if `DistinctIds`) | `FailedHasNoAgent` (not in a run) |
| | `RunsFollowTheirRecords` (if `DistinctIds`) | `RecordsAreHonest` |
| | `NothingIsForgotten` | `NoneForgotten` |
| `ProcessControlProofs` | `TypeCorrect` | `TypeOK` |
| | `EndedAreGone`, `KillsItsOwn` | `EndedIsGone`, `KillsOwnChild` |
| | `EndsStay` | `EndIsFinal` (not in a run) |
| | `UnsharedCloses` | `UnsharedShutdownCloses` |
| | `WaitsHaveTimers` | `NobodyWaitsInVain` (not in a run) |
| `CommandsProofs` | `TypeCorrect` | `TypeOK` |
| | `EventsAreHistory`, `EventsAreAudited` | `EventsTellRow`, `EveryEventAudited` (neither in a run) |
| | `RequestsApplyOnce` | `AppliedOnce` |
| | `CompletedAreMerged`, `CompletedAreGated` | `CompletedIsMerged`, `CompletedThroughGates` (neither in a run) |
| | `PipelineImplementsLifecycle` | `RunSteps` |
| | `PublishedHaveHappened` | `PublishedHappened` (not in a run) |
| | `ReplaysTellTruth` | `ReplayTellsTruth` |
| `DeliveryProofs` | `TypeCorrect` | `TypeOK` |
| | `ApprovalsAreInTime` | `ApprovedInTime` |
| | `CorrectionsAreCounted` | `CorrectionsCounted` |
| | `AcceptedWorkIsKept` (if `Committing`) | `AcceptedWorkSurvives` |
| | `DeliveryFollowsLifecycle` | `RunSteps` |
| | `CompletedIsAccepted` | `Lifecycle!CompletedThroughGates` (not in a run) |
| `RecoveryProofs` | `TypeCorrect` | `TypeOK` |
| | `NeverTwoAgents`, `EffectsHappenOnce` | `OneAgent`, `EffectOnce` |
| | `StartsStaySafe` | `StartsAreSafe` |
| | `RunningStaysWatched` | `RunningIsWatched` (not in a run) |
| | `RecoveryFollowsLifecycle` | `RunSteps` |
| `EventStreamProofs` | `TypeCorrect` | `TypeOK` |
| | `NothingIsSkipped` | `NothingSkipped` |
| | `OnlyOthersStall` | `StallsOnlyBehindOthers` (not in a run) |
| | `AuditIsTrue` | `AuditTellsTruth` (not in a run) |
| `MaintenanceProofs` | `TypeCorrect` | `TypeOK` |
| | `SchemaIsWhole` | `MigratedWhole` |
| | `MarkerNamesARelease` | `MarkerIsInstalled` |
| | `BackupsAreConsistent` | `BackupIsConsistent` |
| | `DraftsWrittenOnce` | `WrittenOnce` |
| `DashboardProofs` | `TypeCorrect` | `TypeOK` |
| | `CreatedStaysShown` | `CreatedIsShown` |
| | `BusyHasItsRequest` | `BusyWithOne` (not in a run) |

**ManualRuns.** `DistinctIds` says no two requests may get the same id; without it a
retry rewrites a verdict. `BranchesNotShared` says nothing of a handler that has created a
branch and not yet started its agent; `OneAttemptPerTarget` nothing of a handler that
holds the lock. `IInv` adds where each fact lives between the steps of a handler: only the
callback that has the turn is inside a handler (`OneTurn`), it holds the lock of its target
(`HandlerHoldsLock`), owns a branch no agent runs on (`HandlerOwnsBranch`) and a worktree
(`HandlerOwnsWorktree`); every attempt of this lifetime holds the lock of its worktree's
target (`AttemptHoldsLock`), every agent ever started has its branch and worktree
(`AgentHasWorkspace`). A crash drops locks and attempts together, which saves
`OneAttemptPerTarget` and not `OneAgentPerTarget`, the property of `manual_lost_lock`. `DInv`,
for distinct ids: memory and disk agree while the service is up (`DiskIsStore`), the refresh
loop only holds running records (`TodoIsRunning`), an attempt seen to exit has exited
(`ExitedHasEnded`), and until a request is answered no other can touch its record
(`OwnsItsRun`).

**ProcessControl.** `MInv`: tracked attempts have a process, ended ones have had their exit
event, timers are armed only while cancelling. `SInv`: whatever is being cancelled is what the
shutdown awaits or was named by another call, it awaits one attempt at a time, and all it has
passed are gone but those of others. `VInv`: a timer that is armed has a waiter
(`TimersHaveWaiters`), beside the other direction, `NobodyWaitsInVain` itself.

**Commands.** What a client saw is the past of the run or its present (`SeenIsPast`), and who
has moved the run is stale for good (`MoversAreStale`): a request that passes the revision
check guards against the present and has not moved the run before. `Gated` strengthens
`CompletedThroughGates` to the state before it. `WInv` adds that one request is served at a
time, that one at its commit has left nothing behind yet, and that nobody writes over a record.

**Delivery.** `ApprovalInv` adds that no decision is late (a request that has run out is not
decided), and that a decidable acceptance request is for the current snapshot (`Current`): the
other gates compare the revision when they pass, acceptance is marked with whatever revision is
current when it is decided. For corrections the lemma `CycleCounts` says that the cycle counts
by one, past its limit only with an exception. `AcceptedWorkIsKept` assumes `Committing`: every
step commits its work, and Gate F is not given the hash of the accepted patch. The first is
what `delivery_unmerged` shows to be needed; the second because an equivalent patch is found
whether or not the target holds it (section 4). `WorkInv` then says that everything built is on
the run branch (`OnBranch`, which needs that the snapshot counts what the head holds,
`SnapshotCounts`), that a verified or completed run has it on the target (`Merged`), and that
the run branch exists from the first piece of work until then (`BranchKept`), with a worktree or
without. Of the table the proofs use who enters and leaves a few states (`TableFacts`,
`EditFrom`), by cases on its five parts.

**Recovery.** `GoesOnQuietly`: a report that allows a start, and a step about to be started
again, speak of a run without open attempts and without effects of unknown outcome. Since no
attempt is open, nobody is left who could begin an effect before the start. `EffectsAccounted`: an
effect under way has not happened, one never begun neither, and the current attempt begins
only effects whose outcome is not unknown. `Watched`: a running run, and any verdict, has an attempt
the supervisor holds; `SilentIsClassified` does the rest, for all thresholds in their order.

**Maintenance.** `MigInv` says what the open transaction has made: whole versions, and the
batches of the current one up to where it is (`TransactionOf`), and that nothing is pending when
it is written; a copy is only of interest while it is not torn. `UpdInv` says where an update
stands: the release it comes from stays whole, the one it goes to is whole from the end of
its installation, and the marker is not on it while it is installed or removed. `BackInv`:
edits are newer than anything hashed (`Older`), and what is hashed agrees with one moment but
for files that are still to be copied and will be refused (`Moment`). `WriteInv`: until it has
been written nobody expects or reads a note that holds the draft.

**Dashboard.** `OneRequest`: the controller is busy exactly with the one request under way.
`Known`: the store and every list under way hold the runs the page was told of. The gate is
what keeps a second request from starting. `Busy` is the other direction: a busy controller has
its request among those under way, since an answer leaves what it answers and every end sets
the controller free.

**EventStream.** `SInv` says where the cursors stand: the log ascends (`Ascending`), no cursor
is ahead of it (`CursorsPast`), a snapshot is not older than the floor it was taken for
(`SnapshotIsFloor`), and what is on the wire goes on where the header stopped
(`WireContinues`). With these, `NothingSkipped` survives a page because a page is the first ids
after its start (the lemma on least elements, by `WFMin`), and a reset because its snapshot
covers what the floor took away. `AInv` puts beside `AuditTellsTruth` what a sweep under way has
behind it (`SweepAhead`): what it calls done is removed, and its event is in the log when it comes
to the audit.

**Implementations.** Three modules implement `RunLifecycle`: every step that changes a run, or
a gate of it, is a transition of the table with what the life cycle says of its gates.
`Commands` keeps the gates as a history; `Recovery` has one gate passed and needs no invariant;
`Delivery` reads them off its state: the pipeline from the approval it was passed with, the
acceptance from Gate F, the merge from completion. That takes `GateInv`: a run whose pipeline is
still to be approved holds no approval of it, and Gate F is open only for a run that was
accepted. So what a failed merge or a request for changes leaves behind is the whole question,
and the bug `FailMergeKept` answers it wrongly. Both tables are one by `SameTable`: an instance
repeats its definitions under names of its own. `ManualRuns` implements `RunRecords` by
`RecordMoves` and `NothingMoves`: what each action does to the record on disk and to the agent
is one step of it or none, from `IInv` and `DInv`.

**Safety under the liveness.** Liveness under fairness is out of the prover's reach, but each
such property rests on a safety property that says that what must go on can: a run under way is
in the hands of its handler or names an attempt the process manager knows (`NoneForgotten`, for
`SettlesWithoutRestart`), whoever waits has an armed timer (`NobodyWaitsInVain`, for
`CancellingEnds` and `ShutdownReturns`), a running run is watched and its silence classified as
such (`RunningIsWatched`, for `SilenceIsNoticed`), a client is stalled by nothing but a page
about others (`StallsOnlyBehindOthers`, for `FollowerCatchesUp`), a sweep that
has come to its audit entry finds its event in the log and is not refused (`SweepAhead`, for
`RemovalIsAudited`), and a busy controller has
its request (`BusyWithOne`, for `ControlsComeBack`). These are proved; all but the first are
left to their proofs and not repeated in a run, like the other rows marked so in the table.

**Only model-checked.** The liveness properties themselves (`SettlesWithoutRestart`,
`CancellingEnds`, `ShutdownReturns`, `SilenceIsNoticed`, `FollowerCatchesUp`,
`RemovalIsAudited`, `ControlsComeBack`). The three violations. And what `MCDelivery` assumes of
`WorkspaceIsolation`.

## 6. Not modelled

Pure checks and formatting: redaction, REST contracts, local authentication, logging,
parsing of CLI output, static screens, and the scripted validation suites. In the modelled
components: more than one repository; commands on aggregates other than runs; writers that
bypass the pipeline; the spawn of an agent that fails with an `error` event (it ends the
service: `Crash`); projects and skills of the host connector; the secret broker, which hands
out values by name; the broker that reads and ranks notes; what the SQL of a migration does
beyond the names it defines; reinstalling a release over the one in use; the loads of agents,
skills and projects in the dashboard. Attempts of several runs share nothing but the process
manager, so `Recovery` has one run.

What a next step would add: two clients of the event stream with a store that is persisted;
theorems about the pure functions (`WorkspaceIsolation`, `Recommendation`) for every input.
