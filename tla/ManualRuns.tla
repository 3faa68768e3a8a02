----------------------------- MODULE ManualRuns -----------------------------
(***************************************************************************)
(* The live path of the Local API: POST /runs and GET /runs, the host      *)
(* connector's run store and its runs.json, the Direct executor, the       *)
(* workspace lock, run branches and worktrees, the attempt process manager *)
(* and the agent processes, across stops, crashes and restarts.            *)
(*                                                                         *)
(* The service is one Node process: a callback runs to completion, with    *)
(* the promise jobs it queues, before another starts.  turn names the      *)
(* callback that is running; its steps are split only so that a crash may  *)
(* fall between them and agent processes may move beside it.  The one real *)
(* await of a POST is the settle timer of the executor: other requests,    *)
(* refreshes and exit events run while a request is "settling".            *)
(*                                                                         *)
(* One registered repository is modelled; a target is one of its branches. *)
(***************************************************************************)
EXTENDS FiniteSets, Naturals

CONSTANTS
    Posts,        \* POST /runs requests, each sent once; a retry is another one
    Runs,         \* run ids
    Targets,      \* target branches of the repository, one lock key each
    Branches,     \* names deriveRunBranchName can produce
    IdsOf,        \* the ids a request may get: the body's, or title + clock second
    TargetOf,     \* the target branch a request asks for
    BranchOf,     \* deriveRunBranchName: 12 characters of the id, so not injective
    MaxRestarts   \* bound on the starts of the service after the first

Idle == "idle"
Refresher == "refresh"
Free == "free"
Absent == "absent"
NoId == "no id"

ASSUME ConstantsAssumption ==
    /\ IdsOf \in [Posts -> SUBSET Runs]
    /\ TargetOf \in [Posts -> Targets]
    /\ BranchOf \in [Runs -> Branches]
    /\ MaxRestarts \in Nat
    /\ {Idle, Refresher} \cap Posts = {}
    /\ {Free, NoId} \cap Runs = {}
    /\ Absent \notin Targets

VARIABLES
    service,      \* "up", "stopping" (server.close was called) or "down"
    restarts,     \* starts of the service after the first
    turn,         \* the callback that is running: Idle, Refresher or a post
    pc,           \* progress of each POST handler
    run,          \* the run id a POST handler works on
    todo,         \* runs the refreshRuns loop still has to visit
    store,        \* runStore: the records in memory
    disk,         \* runs.json: the records of its last complete write
    torn,         \* runs.json was cut short by a crash and does not parse
    locks,        \* the lock store: holder of each target, or Free
    attempts,     \* the process manager's map: status of each run's attempt
    branches,     \* run branches that exist in the repository
    worktree,     \* the target a run's worktree was made for (its manifest), or Absent
    process,      \* the agent process of a run, as the operating system sees it
    tree          \* what `git status` would show of a run's worktree

volatile == <<turn, pc, run, todo, store, locks, attempts>>
repository == <<branches, worktree>>
agents == <<process, tree>>
file == <<disk, torn>>
vars == <<service, restarts, volatile, file, repository, agents>>

Statuses == {"absent", "queued", "running", "succeeded", "failed"}
\* status, and whether execution.attempts.execute names an attempt.
Record == [status : Statuses, tracked : BOOLEAN]
NoRecord == [status |-> "absent", tracked |-> FALSE]
Rec(s, t) == [status |-> s, tracked |-> t]

\* Inside the callback a handler owns the turn; "settling" waits for the timer.
InTurn == {"queued", "running", "locked", "branched", "workspace", "failing"}
InFlight == InTurn \cup {"settling"}
Ended == {"exit zero", "exit error"}

TypeOK ==
    /\ service \in {"up", "stopping", "down"}
    /\ restarts \in 0..MaxRestarts
    /\ turn \in Posts \cup {Idle, Refresher}
    /\ pc \in [Posts -> InFlight \cup {"new", "answered", "lost"}]
    /\ run \in [Posts -> Runs \cup {NoId}]
    /\ todo \subseteq Runs
    /\ store \in [Runs -> Record]
    /\ disk \in [Runs -> Record]
    /\ torn \in BOOLEAN
    /\ locks \in [Targets -> Runs \cup {Free}]
    /\ attempts \in [Runs -> {"none", "Running", "Exited"}]
    /\ branches \subseteq Branches
    /\ worktree \in [Runs -> Targets \cup {Absent}]
    /\ process \in [Runs -> {"none", "alive"} \cup Ended]
    /\ tree \in [Runs -> {"clean", "changed", "committed"}]

Init ==
    /\ service = "up"
    /\ restarts = 0
    /\ turn = Idle
    /\ pc = [p \in Posts |-> "new"]
    /\ run = [p \in Posts |-> NoId]
    /\ todo = {}
    /\ store = [r \in Runs |-> NoRecord]
    /\ disk = [r \in Runs |-> NoRecord]
    /\ torn = FALSE
    /\ locks = [t \in Targets |-> Free]
    /\ attempts = [r \in Runs |-> "none"]
    /\ branches = {}
    /\ worktree = [r \in Runs |-> Absent]
    /\ process = [r \in Runs |-> "none"]
    /\ tree = [r \in Runs |-> "clean"]

-----------------------------------------------------------------------------
(* Storage and outcome                                                     *)

\* persistManualRun: replace the record in the map, then rewrite runs.json.
Persist(r, rec) ==
    /\ store' = [store EXCEPT ![r] = rec]
    /\ disk' = store'
    /\ UNCHANGED torn

\* verifyWorkspaceChanges: work the agent committed does not show.
HasChanges(r) == tree[r] = "changed"

\* A bug: the attempt's own status becomes the status of the run.
OutcomesRaw(r) == {process[r]}

\* A bug: exit code zero is enough.
OutcomesUnverified(r) == IF process[r] = "exit zero" THEN {"succeeded"} ELSE {"failed"}

\* The status an exited attempt earns; `git status` itself may fail.
OutcomesOf(r) ==
    IF process[r] = "exit zero" /\ HasChanges(r) THEN {"succeeded", "failed"} ELSE {"failed"}

Goto(p, label) == pc' = [pc EXCEPT ![p] = label]

-----------------------------------------------------------------------------
(* POST /runs                                                              *)

\* createManualRun: name the run and persist it as queued, over any record of that id.
Receive(p) ==
    /\ service = "up"
    /\ turn = Idle
    /\ pc[p] = "new"
    /\ \E r \in IdsOf[p] :
        /\ run' = [run EXCEPT ![p] = r]
        /\ Persist(r, Rec("queued", FALSE))
    /\ turn' = p
    /\ Goto(p, "queued")
    /\ UNCHANGED <<service, restarts, todo, locks, attempts, repository, agents>>

\* A bug: the file is not written again.
MarkRunningUnsaved(p) ==
    /\ turn = p
    /\ pc[p] = "queued"
    /\ store' = [store EXCEPT ![run[p]] = Rec("running", FALSE)]
    /\ Goto(p, "running")
    /\ UNCHANGED <<service, restarts, turn, run, todo, file, locks, attempts, repository, agents>>

MarkRunning(p) ==
    /\ turn = p
    /\ pc[p] = "queued"
    /\ Persist(run[p], Rec("running", FALSE))
    /\ Goto(p, "running")
    /\ UNCHANGED <<service, restarts, turn, run, todo, locks, attempts, repository, agents>>

\* The executor throws: bad agent, unknown project, lock conflict, an existing
\* branch or worktree, a Git error, an unhealthy adapter, a tracked attempt.
Refuse(p, label) ==
    /\ turn = p
    /\ pc[p] = label
    /\ Goto(p, "failing")
    /\ UNCHANGED <<service, restarts, turn, run, todo, store, file, locks, attempts, agents>>

\* A bug: no lock store.
LockIgnored(p) == FALSE

LockHeld(p) == locks[TargetOf[p]] \notin {Free, run[p]}

RefuseInput(p) == Refuse(p, "running") /\ UNCHANGED repository

\* validateGitProject: the lock is re-entrant for the run that holds it.
AcquireLock(p) ==
    /\ turn = p
    /\ pc[p] = "running"
    /\ ~LockHeld(p)
    /\ locks' = [locks EXCEPT ![TargetOf[p]] = run[p]]
    /\ Goto(p, "locked")
    /\ UNCHANGED <<service, restarts, turn, run, todo, store, file, attempts, repository, agents>>

\* A bug: the branch is not looked up.
WorktreeTaken(p) == worktree[run[p]] # Absent

\* ensureNoExistingRefOrPath
WorkspaceTaken(p) == BranchOf[run[p]] \in branches \/ worktree[run[p]] # Absent

RefuseWorkspace(p) == Refuse(p, "locked") /\ UNCHANGED repository

CreateBranch(p) ==
    /\ turn = p
    /\ pc[p] = "locked"
    /\ ~WorkspaceTaken(p)
    /\ branches' = branches \cup {BranchOf[run[p]]}
    /\ Goto(p, "branched")
    /\ UNCHANGED <<service, restarts, turn, run, todo, store, file, locks, attempts, worktree, agents>>

AddWorktree(p) ==
    /\ turn = p
    /\ pc[p] = "branched"
    /\ worktree' = [worktree EXCEPT ![run[p]] = TargetOf[p]]
    /\ tree' = [tree EXCEPT ![run[p]] = "clean"]
    /\ Goto(p, "workspace")
    /\ UNCHANGED <<service, restarts, turn, run, todo, store, file, locks, attempts, branches, process>>

\* `git worktree add` failed: the new branch is deleted again, the lock is kept.
DropBranch(p) ==
    /\ Refuse(p, "branched")
    /\ branches' = branches \ {BranchOf[run[p]]}
    /\ UNCHANGED worktree

RefuseAdapter(p) == Refuse(p, "workspace") /\ UNCHANGED repository

\* deliverTask and startAttempt; the heartbeat that follows always finds the
\* attempt Running, so the executor arms its settle timer and yields.
Spawn(p) ==
    /\ turn = p
    /\ pc[p] = "workspace"
    /\ attempts[run[p]] = "none"
    /\ attempts' = [attempts EXCEPT ![run[p]] = "Running"]
    /\ process' = [process EXCEPT ![run[p]] = "alive"]
    /\ turn' = Idle
    /\ Goto(p, "settling")
    /\ UNCHANGED <<service, restarts, run, todo, store, file, locks, repository, tree>>

\* The catch of createManualRun: no attempt is recorded and nothing is released.
Fail(p) ==
    /\ turn = p
    /\ pc[p] = "failing"
    /\ Persist(run[p], Rec("failed", FALSE))
    /\ turn' = Idle
    /\ Goto(p, "answered")
    /\ UNCHANGED <<service, restarts, run, todo, locks, attempts, repository, agents>>

\* A bug: the attempt is not stored with a run that is still running.
SettleForgetful(p) ==
    /\ service # "down"
    /\ turn = Idle
    /\ pc[p] = "settling"
    /\ \E s \in IF attempts[run[p]] = "Running" THEN {"running"} ELSE OutcomesOf(run[p]) :
        Persist(run[p], Rec(s, s # "running"))
    /\ Goto(p, "answered")
    /\ UNCHANGED <<service, restarts, turn, run, todo, locks, attempts, repository, agents>>

\* The settle timer: second heartbeat, verification, and the final record,
\* written over whatever the store holds by now.
Settle(p) ==
    /\ service # "down"
    /\ turn = Idle
    /\ pc[p] = "settling"
    /\ \/ /\ attempts[run[p]] = "Running"
          /\ Persist(run[p], Rec("running", TRUE))
       \/ /\ attempts[run[p]] = "Exited"
          /\ \E s \in OutcomesOf(run[p]) : Persist(run[p], Rec(s, TRUE))
    /\ Goto(p, "answered")
    /\ UNCHANGED <<service, restarts, turn, run, todo, locks, attempts, repository, agents>>

-----------------------------------------------------------------------------
(* GET /runs                                                               *)

RefreshBegin ==
    /\ service = "up"
    /\ turn = Idle
    /\ todo' = {r \in Runs : store[r].status = "running"}
    /\ todo' # {}
    /\ turn' = Refresher
    /\ UNCHANGED <<service, restarts, pc, run, store, file, locks, attempts, repository, agents>>

\* One iteration of refreshRuns.  Without a known attempt (none recorded, or one
\* of an earlier lifetime of the service) the record keeps its status.
RefreshRun(r) ==
    /\ turn = Refresher
    /\ r \in todo
    /\ \/ /\ ~store[r].tracked \/ attempts[r] # "Exited"
          /\ UNCHANGED <<store, file>>
       \/ /\ store[r].tracked
          /\ attempts[r] = "Exited"
          /\ \E s \in OutcomesOf(r) : Persist(r, Rec(s, TRUE))
    /\ todo' = todo \ {r}
    /\ turn' = IF todo' = {} THEN Idle ELSE Refresher
    /\ UNCHANGED <<service, restarts, pc, run, locks, attempts, repository, agents>>

-----------------------------------------------------------------------------
(* Agent processes, and the exit event that reaches the service            *)

AgentWorks(r) ==
    /\ process[r] = "alive"
    /\ tree' \in {[tree EXCEPT ![r] = s] : s \in {"changed", "committed"}}
    /\ UNCHANGED <<service, restarts, volatile, file, repository, process>>

AgentExits(r) ==
    /\ process[r] = "alive"
    /\ process' \in {[process EXCEPT ![r] = s] : s \in Ended}
    /\ UNCHANGED <<service, restarts, volatile, file, repository, tree>>

ExitEvent(r) ==
    /\ service # "down"
    /\ turn = Idle
    /\ attempts[r] = "Running"
    /\ process[r] \in Ended
    /\ attempts' = [attempts EXCEPT ![r] = "Exited"]
    /\ UNCHANGED <<service, restarts, turn, pc, run, todo, store, file, locks, repository, agents>>

-----------------------------------------------------------------------------
(* Service lifecycle                                                       *)

\* SIGTERM: no new request is accepted, those in flight are answered.
Stop ==
    /\ service = "up"
    /\ turn = Idle
    /\ service' = "stopping"
    /\ UNCHANGED <<restarts, volatile, file, repository, agents>>

\* The process ends: memory is gone, the agents (detached) keep running.
GoDown ==
    /\ service' = "down"
    /\ turn' = Idle
    /\ pc' = [p \in Posts |-> IF pc[p] \in InFlight THEN "lost" ELSE pc[p]]
    /\ todo' = {}
    /\ store' = [r \in Runs |-> NoRecord]
    /\ locks' = [t \in Targets |-> Free]
    /\ attempts' = [r \in Runs |-> "none"]
    /\ UNCHANGED <<restarts, run, repository, agents>>

Exit ==
    /\ service = "stopping"
    /\ turn = Idle
    /\ \A p \in Posts : pc[p] \notin InFlight
    /\ GoDown
    /\ UNCHANGED file

Crash ==
    /\ service # "down"
    /\ GoDown
    /\ UNCHANGED file

\* writeFile truncates runs.json and fills it again: a crash in between tears it.
Writing ==
    \/ turn = Refresher
    \/ turn = Idle /\ \E p \in Posts : pc[p] \in {"new", "settling"}
    \/ \E p \in Posts : turn = p /\ pc[p] \in {"queued", "failing"}

CrashWriting ==
    /\ service # "down"
    /\ Writing
    /\ GoDown
    /\ torn' = TRUE
    /\ UNCHANGED disk

\* hydrateRunsFromDisk throws on a file it cannot parse: the service stays down.
Start ==
    /\ service = "down"
    /\ restarts < MaxRestarts
    /\ ~torn
    /\ service' = "up"
    /\ restarts' = restarts + 1
    /\ store' = disk
    /\ UNCHANGED <<turn, pc, run, todo, locks, attempts, file, repository, agents>>

-----------------------------------------------------------------------------
Post(p) ==
    \/ Receive(p) \/ MarkRunning(p) \/ RefuseInput(p) \/ AcquireLock(p)
    \/ RefuseWorkspace(p) \/ CreateBranch(p) \/ AddWorktree(p) \/ DropBranch(p)
    \/ RefuseAdapter(p) \/ Spawn(p) \/ Fail(p) \/ Settle(p)

Agent(r) == AgentWorks(r) \/ AgentExits(r) \/ ExitEvent(r)

Lifecycle == Stop \/ Exit \/ Crash \/ CrashWriting \/ Start

Next ==
    \/ \E p \in Posts : Post(p)
    \/ RefreshBegin
    \/ \E r \in Runs : RefreshRun(r)
    \/ \E r \in Runs : Agent(r)
    \/ Lifecycle

Spec == Init /\ [][Next]_vars

-----------------------------------------------------------------------------
(* Properties                                                              *)

Verdicts == {"succeeded", "failed"}

\* A record says "succeeded" only of a run whose agent exited with code zero and
\* left uncommitted changes in the worktree: a stored record alone, a retry or a
\* refresh never makes a success (docs/rest-contracts.md, decisions/log.md).
SucceededHasWork ==
    \A r \in Runs :
        \/ store[r].status = "succeeded"
        \/ disk[r].status = "succeeded"
        => process[r] = "exit zero" /\ tree[r] = "changed"

\* Two runs whose agents this lifetime of the service started never share a
\* target: the lock keyed by repository and target branch keeps them apart.
OneAttemptPerTarget ==
    \A r, s \in Runs :
        attempts[r] # "none" /\ attempts[s] # "none" /\ r # s => worktree[r] # worktree[s]

\* Two runs that ever started an agent have different run branches, although
\* deriveRunBranchName maps many ids to one name and the lock is lost at a restart.
BranchesNotShared ==
    \A r, s \in Runs :
        process[r] # "none" /\ process[s] # "none" /\ r # s => BranchOf[r] # BranchOf[s]

\* The agent of a run id is started at most once, across retries and restarts.
AgentStartsOnce ==
    [][\A r \in Runs : process[r] \in Ended => process'[r] = process[r]]_vars

\* The verdict of a run in runs.json is never replaced by another record.
VerdictIsFinal ==
    [][\A r \in Runs : disk[r].status \in Verdicts => disk'[r] = disk[r]]_vars

\* While the service has not gone down, a run recorded as under way is in the hands of a POST
\* handler, or its record names an attempt the process manager knows: some callback will end it.
NoneForgotten ==
    service # "down" /\ restarts = 0 =>
        \A r \in Runs :
            store[r].status \in {"queued", "running"} =>
                \/ \E p \in Posts : pc[p] \in InFlight /\ run[p] = r
                \/ store[r].tracked /\ attempts[r] # "none"

\* What runs.json says, and the agents that work, follow the life of a run in RunRecords: one
\* verdict each, after the end of the one agent.
Records == INSTANCE RunRecords WITH status <- [r \in Runs |-> disk[r].status], agent <- process
RecordsAreHonest == Records!Spec

\* A run recorded as failed has no agent that is still at work.
FailedHasNoAgent ==
    \A r \in Runs : store[r].status = "failed" => process[r] # "alive"

\* No two agents work for the same target of the repository at the same time,
\* whichever lifetime of the service started them.
OneAgentPerTarget ==
    \A r, s \in Runs :
        process[r] = "alive" /\ process[s] = "alive" /\ r # s => worktree[r] # worktree[s]

-----------------------------------------------------------------------------
(* Fairness: the event loop reaches every callback that stays pending (a    *)
(* timer, an exit event, the next step of the callback that is running), a  *)
(* service that is down is started again, and the operator keeps loading    *)
(* GET /runs.  Nothing makes an agent exit.                                 *)

Fairness ==
    /\ WF_vars(\E p \in Posts : turn = p /\ Post(p))
    /\ \A p \in Posts : SF_vars(Settle(p))
    /\ \A r \in Runs : SF_vars(ExitEvent(r)) /\ WF_vars(RefreshRun(r))
    /\ SF_vars(RefreshBegin)
    /\ WF_vars(Start)

FairSpec == Spec /\ Fairness

Settles(r) ==
    (store[r].status = "running" /\ process[r] \in Ended) ~> store[r].status \in Verdicts

\* As long as no restart happens, a run whose agent has exited gets its verdict.
SettlesWithoutRestart ==
    [](service = "up") => \A r \in Runs : Settles(r)
=============================================================================
