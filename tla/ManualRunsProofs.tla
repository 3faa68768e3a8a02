-------------------------- MODULE ManualRunsProofs --------------------------
(* Theorems about ManualRuns, for every set of posts, runs, targets and       *)
(* branch names and every bound on restarts.                                 *)
EXTENDS ManualRuns, TLAPS

-----------------------------------------------------------------------------
(* Type correctness                                                        *)

\* A handler that has not answered yet knows the id of its run.
RunKnown == \A p \in Posts : pc[p] \in InFlight => run[p] \in Runs

Typed == TypeOK /\ RunKnown

LEMMA RecIsRecord ==
    ASSUME NEW s \in Statuses, NEW t \in BOOLEAN PROVE Rec(s, t) \in Record
BY DEF Rec, Record

\* The verdict of an attempt is a status of a run record.
LEMMA OutcomesAreVerdicts ==
    ASSUME NEW r \in Runs PROVE OutcomesOf(r) \subseteq Verdicts
BY DEF OutcomesOf, Verdicts

LEMMA PersistType ==
    ASSUME TypeOK, NEW r \in Runs, NEW s \in Statuses, NEW t \in BOOLEAN, Persist(r, Rec(s, t))
    PROVE  store' \in [Runs -> Record] /\ disk' \in [Runs -> Record] /\ torn' \in BOOLEAN
BY RecIsRecord DEF TypeOK, Persist

LEMMA StartCounts ==
    ASSUME NEW n \in 0..MaxRestarts, n < MaxRestarts PROVE n + 1 \in 0..MaxRestarts
BY ConstantsAssumption

LEMMA InitTyped == Init => Typed
<1> SUFFICES ASSUME Init PROVE Typed
    OBVIOUS
<1>1. NoRecord \in Record
    BY DEF NoRecord, Record, Statuses
<1>2. 0 \in 0..MaxRestarts
    BY ConstantsAssumption
<1>3. TypeOK
    BY <1>1, <1>2 DEF Init, TypeOK
<1>4. RunKnown
    BY DEF Init, RunKnown, InFlight, InTurn
<1>5. QED
    BY <1>3, <1>4 DEF Typed

LEMMA NextTyped == Typed /\ [Next]_vars => Typed'
<1> SUFFICES ASSUME Typed, [Next]_vars PROVE Typed'
    OBVIOUS
<1> USE ConstantsAssumption DEF Typed, TypeOK, RunKnown, InFlight, InTurn, Ended,
        repository, agents, file, volatile
<1> /\ "queued" \in Statuses /\ "running" \in Statuses /\ "failed" \in Statuses
    /\ Verdicts \subseteq Statuses
    BY DEF Statuses, Verdicts
<1>1. ASSUME NEW p \in Posts, Receive(p) PROVE Typed'
    <2>1. PICK r \in IdsOf[p] :
            run' = [run EXCEPT ![p] = r] /\ Persist(r, Rec("queued", FALSE))
        BY <1>1 DEF Receive
    <2>2. r \in Runs
        OBVIOUS
    <2>3. store' \in [Runs -> Record] /\ disk' \in [Runs -> Record] /\ torn' \in BOOLEAN
        BY <2>1, <2>2, PersistType
    <2>4. QED
        BY <1>1, <2>1, <2>2, <2>3 DEF Receive, Goto
<1>2. ASSUME NEW p \in Posts, MarkRunning(p) PROVE Typed'
    <2>1. run[p] \in Runs /\ Persist(run[p], Rec("running", FALSE))
        BY <1>2 DEF MarkRunning
    <2>2. store' \in [Runs -> Record] /\ disk' \in [Runs -> Record] /\ torn' \in BOOLEAN
        BY <2>1, PersistType
    <2>3. QED
        BY <1>2, <2>2 DEF MarkRunning, Goto
<1>3. ASSUME NEW p \in Posts, RefuseInput(p) \/ RefuseWorkspace(p) \/ RefuseAdapter(p)
      PROVE  Typed'
    BY <1>3 DEF RefuseInput, RefuseWorkspace, RefuseAdapter, Refuse, Goto
<1>4. ASSUME NEW p \in Posts, AcquireLock(p) PROVE Typed'
    BY <1>4 DEF AcquireLock, Goto
<1>5. ASSUME NEW p \in Posts, CreateBranch(p) PROVE Typed'
    <2>1. run[p] \in Runs /\ BranchOf[run[p]] \in Branches
        BY <1>5 DEF CreateBranch
    <2>2. QED
        BY <1>5, <2>1 DEF CreateBranch, Goto
<1>6. ASSUME NEW p \in Posts, AddWorktree(p) PROVE Typed'
    BY <1>6 DEF AddWorktree, Goto
<1>7. ASSUME NEW p \in Posts, DropBranch(p) PROVE Typed'
    BY <1>7 DEF DropBranch, Refuse, Goto
<1>8. ASSUME NEW p \in Posts, Spawn(p) PROVE Typed'
    BY <1>8 DEF Spawn, Goto
<1>9. ASSUME NEW p \in Posts, Fail(p) PROVE Typed'
    <2>1. run[p] \in Runs /\ Persist(run[p], Rec("failed", FALSE))
        BY <1>9 DEF Fail
    <2>2. store' \in [Runs -> Record] /\ disk' \in [Runs -> Record] /\ torn' \in BOOLEAN
        BY <2>1, PersistType
    <2>3. QED
        BY <1>9, <2>2 DEF Fail, Goto
<1>10. ASSUME NEW p \in Posts, Settle(p) PROVE Typed'
    <2>1. run[p] \in Runs
        BY <1>10 DEF Settle
    <2>2. \E s \in Statuses : Persist(run[p], Rec(s, TRUE))
        BY <1>10, <2>1, OutcomesAreVerdicts DEF Settle
    <2>3. store' \in [Runs -> Record] /\ disk' \in [Runs -> Record] /\ torn' \in BOOLEAN
        BY <2>1, <2>2, PersistType
    <2>4. QED
        BY <1>10, <2>3 DEF Settle, Goto
<1>11. ASSUME RefreshBegin PROVE Typed'
    BY <1>11 DEF RefreshBegin
<1>12. ASSUME NEW r \in Runs, RefreshRun(r) PROVE Typed'
    <2>1. store' \in [Runs -> Record] /\ disk' \in [Runs -> Record] /\ torn' \in BOOLEAN
        <3>1. CASE UNCHANGED <<store, file>>
            BY <3>1
        <3>2. CASE \E s \in OutcomesOf(r) : Persist(r, Rec(s, TRUE))
            BY <3>2, OutcomesAreVerdicts, PersistType
        <3>3. QED
            BY <1>12, <3>1, <3>2 DEF RefreshRun
    <2>2. QED
        BY <1>12, <2>1 DEF RefreshRun
<1>13. ASSUME NEW r \in Runs, Agent(r) PROVE Typed'
    <2>1. CASE AgentWorks(r)
        <3>1. PICK s \in {"changed", "committed"} : tree' = [tree EXCEPT ![r] = s]
            BY <2>1 DEF AgentWorks
        <3>2. QED
            BY <2>1, <3>1 DEF AgentWorks
    <2>2. CASE AgentExits(r)
        <3>1. PICK s \in Ended : process' = [process EXCEPT ![r] = s]
            BY <2>2 DEF AgentExits
        <3>2. QED
            BY <2>2, <3>1 DEF AgentExits
    <2>3. CASE ExitEvent(r)
        BY <2>3 DEF ExitEvent
    <2>4. QED
        BY <1>13, <2>1, <2>2, <2>3 DEF Agent
<1>14. ASSUME Stop PROVE Typed'
    BY <1>14 DEF Stop
<1>15. ASSUME Exit \/ Crash \/ CrashWriting PROVE Typed'
    <2>1. NoRecord \in Record
        BY DEF NoRecord, Record, Statuses
    <2>2. GoDown /\ torn' \in BOOLEAN /\ UNCHANGED disk
        BY <1>15 DEF Exit, Crash, CrashWriting
    <2>3. TypeOK'
        BY <2>1, <2>2 DEF GoDown
    <2>4. RunKnown'
        BY <2>2 DEF GoDown
    <2>5. QED
        BY <2>3, <2>4
<1>16. ASSUME Start PROVE Typed'
    <2>1. restarts' \in 0..MaxRestarts
        BY <1>16, StartCounts DEF Start
    <2>2. QED
        BY <1>16, <2>1 DEF Start
<1>17. ASSUME UNCHANGED vars PROVE Typed'
    BY <1>17 DEF vars
<1>18. QED
    BY <1>1, <1>2, <1>3, <1>4, <1>5, <1>6, <1>7, <1>8, <1>9, <1>10, <1>11, <1>12, <1>13,
       <1>14, <1>15, <1>16, <1>17 DEF Next, Post, Lifecycle

LEMMA AlwaysTyped == Spec => []Typed
BY InitTyped, NextTyped, PTL DEF Spec

\* Every variable stays within its type, whatever crashes, retries and ids occur.
THEOREM TypeCorrect == Spec => []TypeOK
BY AlwaysTyped, PTL DEF Typed

-----------------------------------------------------------------------------
(* The inductive invariant.  No property about locks, branches or worktrees  *)
(* is inductive by itself: each rests on what the handler that is running    *)
(* has already checked and nobody can have undone since.                     *)

\* A handler is inside its callback exactly when the turn is its own.
OneTurn == \A p \in Posts : pc[p] \in InTurn <=> turn = p

\* From validateGitProject on, the lock of the target stays with the run.
HandlerHoldsLock ==
    \A p \in Posts :
        pc[p] \in {"locked", "branched", "workspace"} => locks[TargetOf[p]] = run[p]

\* The branch the handler made is there, and no agent was ever started on it.
HandlerOwnsBranch ==
    \A p \in Posts :
        pc[p] \in {"branched", "workspace"} =>
            /\ BranchOf[run[p]] \in branches
            /\ \A r \in Runs : process[r] # "none" => BranchOf[r] # BranchOf[run[p]]

HandlerOwnsWorktree ==
    \A p \in Posts :
        /\ pc[p] = "branched" => worktree[run[p]] = Absent
        /\ pc[p] = "workspace" => worktree[run[p]] = TargetOf[p]

\* An attempt of this lifetime of the service holds the lock of its target.
AttemptHoldsLock ==
    \A r \in Runs :
        attempts[r] # "none" => worktree[r] \in Targets /\ locks[worktree[r]] = r

\* Every agent ever started has its branch and its worktree still.
AgentHasWorkspace ==
    \A r \in Runs :
        process[r] # "none" => BranchOf[r] \in branches /\ worktree[r] # Absent

IInv ==
    /\ Typed
    /\ OneTurn
    /\ HandlerHoldsLock
    /\ HandlerOwnsBranch
    /\ HandlerOwnsWorktree
    /\ AttemptHoldsLock
    /\ AgentHasWorkspace
    /\ BranchesNotShared
    /\ SucceededHasWork

-----------------------------------------------------------------------------
(* The invariant is inductive.  "Workspaces" is what it says of locks,        *)
(* branches, worktrees and agents.                                           *)

Workspaces ==
    /\ HandlerHoldsLock
    /\ HandlerOwnsBranch
    /\ HandlerOwnsWorktree
    /\ AttemptHoldsLock
    /\ AgentHasWorkspace
    /\ BranchesNotShared

LEMMA InitIInv == Init => IInv
<1> SUFFICES ASSUME Init PROVE IInv
    OBVIOUS
<1>1. Typed
    BY InitTyped
<1>2. OneTurn
    BY ConstantsAssumption DEF Init, OneTurn, InTurn
<1>3. Workspaces
    BY DEF Init, Workspaces, HandlerHoldsLock, HandlerOwnsBranch, HandlerOwnsWorktree,
           AttemptHoldsLock, AgentHasWorkspace, BranchesNotShared
<1>4. SucceededHasWork
    BY DEF Init, SucceededHasWork, NoRecord
<1>5. QED
    BY <1>1, <1>2, <1>3, <1>4 DEF IInv, Workspaces

\* A step of a handler that moves no lock, branch, worktree or agent, and does not
\* bring the handler to a label that claims one.
LEMMA QuietStep ==
    ASSUME IInv, NEW p \in Posts, NEW label, Goto(p, label),
           label \notin {"locked", "branched", "workspace"},
           \A q \in Posts \ {p} : run'[q] = run[q],
           UNCHANGED <<locks, attempts, repository, process>>
    PROVE  Workspaces'
BY DEF IInv, Workspaces, HandlerHoldsLock, HandlerOwnsBranch, HandlerOwnsWorktree,
       AttemptHoldsLock, AgentHasWorkspace, BranchesNotShared, Goto, repository,
       Typed, TypeOK

LEMMA SameWorkspaces ==
    ASSUME IInv, UNCHANGED <<pc, run, locks, attempts, repository, process>>
    PROVE  Workspaces'
BY DEF IInv, Workspaces, HandlerHoldsLock, HandlerOwnsBranch, HandlerOwnsWorktree,
       AttemptHoldsLock, AgentHasWorkspace, BranchesNotShared, repository

\* A success that is persisted is the verdict of an attempt that earned it.
LEMMA PersistHasWork ==
    ASSUME IInv, NEW r \in Runs, NEW s \in Statuses, NEW t \in BOOLEAN,
           Persist(r, Rec(s, t)), UNCHANGED agents,
           s = "succeeded" => process[r] = "exit zero" /\ tree[r] = "changed"
    PROVE  SucceededHasWork'
BY DEF IInv, SucceededHasWork, Persist, Rec, agents, Typed, TypeOK, Record

LEMMA OutcomeHasWork ==
    ASSUME NEW r \in Runs, "succeeded" \in OutcomesOf(r)
    PROVE  process[r] = "exit zero" /\ tree[r] = "changed"
BY DEF OutcomesOf, HasChanges

LEMMA SameRecordsHaveWork ==
    ASSUME IInv, UNCHANGED <<store, file, agents>> PROVE SucceededHasWork'
BY DEF IInv, SucceededHasWork, agents, file

LEMMA NextIInv == IInv /\ [Next]_vars => IInv'
<1> SUFFICES ASSUME IInv, [Next]_vars PROVE IInv'
    OBVIOUS
<1> USE ConstantsAssumption
<1> Typed /\ Typed'
    BY NextTyped DEF IInv
<1>a. ASSUME OneTurn', Workspaces', SucceededHasWork' PROVE IInv'
    BY <1>a DEF IInv, Workspaces
<1>1. ASSUME NEW p \in Posts, Receive(p) PROVE IInv'
    <2>1. PICK r \in IdsOf[p] :
            run' = [run EXCEPT ![p] = r] /\ Persist(r, Rec("queued", FALSE))
        BY <1>1 DEF Receive
    <2>2. OneTurn'
        BY <1>1 DEF Receive, Goto, IInv, OneTurn, Typed, TypeOK, InTurn
    <2>3. Workspaces'
        BY <1>1, <2>1, QuietStep DEF Receive, Typed, TypeOK, agents
    <2>4. SucceededHasWork'
        BY <1>1, <2>1, PersistHasWork DEF Receive, Statuses
    <2>5. QED
        BY <1>a, <2>2, <2>3, <2>4
<1>2. ASSUME NEW p \in Posts, MarkRunning(p) \/ Fail(p) PROVE IInv'
    <2>1. run[p] \in Runs
        BY <1>2 DEF MarkRunning, Fail, Typed, RunKnown, InFlight, InTurn
    <2>2. OneTurn'
        <3>1. CASE MarkRunning(p)
            BY <3>1 DEF MarkRunning, Goto, IInv, OneTurn, Typed, TypeOK, InTurn
        <3>2. CASE Fail(p)
            BY <3>2 DEF Fail, Goto, IInv, OneTurn, Typed, TypeOK, InTurn
        <3>3. QED
            BY <1>2, <3>1, <3>2
    <2>3. Workspaces'
        BY <1>2, QuietStep DEF MarkRunning, Fail, agents
    <2>4. SucceededHasWork'
        BY <1>2, <2>1, PersistHasWork DEF MarkRunning, Fail, Statuses
    <2>5. QED
        BY <1>a, <2>2, <2>3, <2>4
<1>3. ASSUME NEW p \in Posts, RefuseInput(p) \/ RefuseWorkspace(p) \/ RefuseAdapter(p)
      PROVE  IInv'
    <2>1. OneTurn'
        BY <1>3 DEF RefuseInput, RefuseWorkspace, RefuseAdapter, Refuse, Goto,
                    IInv, OneTurn, Typed, TypeOK, InTurn
    <2>2. Workspaces'
        BY <1>3, QuietStep DEF RefuseInput, RefuseWorkspace, RefuseAdapter, Refuse, agents
    <2>3. SucceededHasWork'
        BY <1>3, SameRecordsHaveWork DEF RefuseInput, RefuseWorkspace, RefuseAdapter, Refuse
    <2>4. QED
        BY <1>a, <2>1, <2>2, <2>3
<1>4. ASSUME NEW p \in Posts, Settle(p) PROVE IInv'
    <2>1. run[p] \in Runs
        BY <1>4 DEF Settle, Typed, RunKnown, InFlight
    <2>2. OneTurn'
        BY <1>4 DEF Settle, Goto, IInv, OneTurn, Typed, TypeOK, InTurn
    <2>3. Workspaces'
        BY <1>4, QuietStep DEF Settle, agents
    <2>4. SucceededHasWork'
        <3>1. CASE Persist(run[p], Rec("running", TRUE))
            BY <1>4, <2>1, <3>1, PersistHasWork DEF Settle, Statuses
        <3>2. CASE \E s \in OutcomesOf(run[p]) : Persist(run[p], Rec(s, TRUE))
            BY <1>4, <2>1, <3>2, PersistHasWork, OutcomeHasWork, OutcomesAreVerdicts
               DEF Settle, Statuses, Verdicts
        <3>3. QED
            BY <1>4, <3>1, <3>2 DEF Settle
    <2>5. QED
        BY <1>a, <2>2, <2>3, <2>4
<1>5. ASSUME NEW p \in Posts, AcquireLock(p) PROVE IInv'
    <2>1. OneTurn'
        BY <1>5 DEF AcquireLock, Goto, IInv, OneTurn, Typed, TypeOK, InTurn
    <2>2. HandlerHoldsLock'
        BY <1>5 DEF AcquireLock, Goto, IInv, OneTurn, HandlerHoldsLock, Typed, TypeOK, InTurn
    <2>3. AttemptHoldsLock'
        BY <1>5 DEF AcquireLock, LockHeld, IInv, AttemptHoldsLock, Typed, TypeOK, repository
    <2>4. HandlerOwnsBranch' /\ HandlerOwnsWorktree' /\ AgentHasWorkspace' /\ BranchesNotShared'
        BY <1>5 DEF AcquireLock, Goto, IInv, HandlerOwnsBranch, HandlerOwnsWorktree,
                    AgentHasWorkspace, BranchesNotShared, Typed, TypeOK, repository, agents
    <2>5. SucceededHasWork'
        BY <1>5, SameRecordsHaveWork DEF AcquireLock
    <2>6. QED
        BY <1>a, <2>1, <2>2, <2>3, <2>4, <2>5 DEF Workspaces
<1>6. ASSUME NEW p \in Posts, CreateBranch(p) PROVE IInv'
    <2>1. OneTurn'
        BY <1>6 DEF CreateBranch, Goto, IInv, OneTurn, Typed, TypeOK, InTurn
    <2>2. HandlerOwnsBranch'
        BY <1>6 DEF CreateBranch, WorkspaceTaken, Goto, IInv, OneTurn, HandlerOwnsBranch,
                    AgentHasWorkspace, Typed, TypeOK, InTurn, agents
    <2>3. HandlerHoldsLock' /\ HandlerOwnsWorktree'
        BY <1>6 DEF CreateBranch, WorkspaceTaken, Goto, IInv, HandlerHoldsLock,
                    HandlerOwnsWorktree, Typed, TypeOK
    <2>4. AttemptHoldsLock' /\ AgentHasWorkspace' /\ BranchesNotShared'
        BY <1>6 DEF CreateBranch, IInv, AttemptHoldsLock, AgentHasWorkspace,
                    BranchesNotShared, agents
    <2>5. SucceededHasWork'
        BY <1>6, SameRecordsHaveWork DEF CreateBranch
    <2>6. QED
        BY <1>a, <2>1, <2>2, <2>3, <2>4, <2>5 DEF Workspaces
<1>7. ASSUME NEW p \in Posts, AddWorktree(p) PROVE IInv'
    <2>1. run[p] \in Runs /\ process[run[p]] = "none" /\ attempts[run[p]] = "none"
        BY <1>7 DEF AddWorktree, Typed, TypeOK, RunKnown, InFlight, InTurn, IInv,
                    HandlerOwnsWorktree, AgentHasWorkspace, AttemptHoldsLock
    <2>2. OneTurn'
        BY <1>7 DEF AddWorktree, Goto, IInv, OneTurn, Typed, TypeOK, InTurn
    <2>3. HandlerOwnsWorktree'
        BY <1>7, <2>1 DEF AddWorktree, Goto, IInv, OneTurn, HandlerOwnsWorktree,
                          Typed, TypeOK, InTurn
    <2>4. HandlerHoldsLock' /\ HandlerOwnsBranch'
        BY <1>7 DEF AddWorktree, Goto, IInv, HandlerHoldsLock, HandlerOwnsBranch, Typed, TypeOK
    <2>5. AttemptHoldsLock' /\ AgentHasWorkspace' /\ BranchesNotShared'
        BY <1>7, <2>1 DEF AddWorktree, IInv, AttemptHoldsLock, AgentHasWorkspace,
                          BranchesNotShared, Typed, TypeOK
    <2>6. SucceededHasWork'
        <3>1. /\ UNCHANGED <<store, disk, process>>
              /\ \A r \in Runs \ {run[p]} : tree'[r] = tree[r]
            BY <1>7 DEF AddWorktree, Typed, TypeOK, file
        <3>2. store[run[p]].status # "succeeded" /\ disk[run[p]].status # "succeeded"
            BY <2>1 DEF IInv, SucceededHasWork
        <3>3. QED
            BY <3>1, <3>2 DEF IInv, SucceededHasWork
    <2>7. QED
        BY <1>a, <2>2, <2>3, <2>4, <2>5, <2>6 DEF Workspaces
<1>8. ASSUME NEW p \in Posts, DropBranch(p) PROVE IInv'
    <2>1. run[p] \in Runs
        BY <1>8 DEF DropBranch, Refuse, Typed, RunKnown, InFlight, InTurn
    <2>2. OneTurn'
        BY <1>8 DEF DropBranch, Refuse, Goto, IInv, OneTurn, Typed, TypeOK, InTurn
    <2>3. HandlerHoldsLock' /\ HandlerOwnsBranch' /\ HandlerOwnsWorktree'
        BY <1>8 DEF DropBranch, Refuse, Goto, IInv, OneTurn, HandlerHoldsLock,
                    HandlerOwnsBranch, HandlerOwnsWorktree, Typed, TypeOK, InTurn
    <2>4. AgentHasWorkspace'
        BY <1>8, <2>1 DEF DropBranch, Refuse, IInv, HandlerOwnsBranch, AgentHasWorkspace, agents
    <2>5. AttemptHoldsLock' /\ BranchesNotShared'
        BY <1>8 DEF DropBranch, Refuse, IInv, AttemptHoldsLock, BranchesNotShared, agents
    <2>6. SucceededHasWork'
        BY <1>8, SameRecordsHaveWork DEF DropBranch, Refuse
    <2>7. QED
        BY <1>a, <2>2, <2>3, <2>4, <2>5, <2>6 DEF Workspaces
<1>9. ASSUME NEW p \in Posts, Spawn(p) PROVE IInv'
    <2>1. run[p] \in Runs /\ TargetOf[p] \in Targets
        BY <1>9 DEF Spawn, Typed, RunKnown, InFlight, InTurn
    <2>2. process[run[p]] = "none"
        BY <1>9, <2>1 DEF Spawn, IInv, HandlerOwnsBranch
    <2>3. OneTurn'
        BY <1>9 DEF Spawn, Goto, IInv, OneTurn, Typed, TypeOK, InTurn
    <2>4. \A q \in Posts : pc'[q] \notin {"locked", "branched", "workspace"}
        BY <1>9 DEF Spawn, Goto, IInv, OneTurn, Typed, TypeOK, InTurn
    <2>5. HandlerHoldsLock' /\ HandlerOwnsBranch' /\ HandlerOwnsWorktree'
        BY <2>4 DEF HandlerHoldsLock, HandlerOwnsBranch, HandlerOwnsWorktree
    <2>6. AttemptHoldsLock'
        BY <1>9, <2>1 DEF Spawn, IInv, HandlerHoldsLock, HandlerOwnsWorktree,
                          AttemptHoldsLock, Typed, TypeOK, repository
    <2>7. AgentHasWorkspace'
        BY <1>9, <2>1 DEF Spawn, IInv, HandlerOwnsBranch, HandlerOwnsWorktree,
                          AgentHasWorkspace, Typed, TypeOK, repository
    <2>8. BranchesNotShared'
        BY <1>9, <2>1 DEF Spawn, IInv, HandlerOwnsBranch, BranchesNotShared, Typed, TypeOK
    <2>9. SucceededHasWork'
        <3>1. /\ UNCHANGED <<store, disk, tree>>
              /\ \A r \in Runs \ {run[p]} : process'[r] = process[r]
            BY <1>9 DEF Spawn, Typed, TypeOK, file
        <3>2. store[run[p]].status # "succeeded" /\ disk[run[p]].status # "succeeded"
            BY <2>1, <2>2 DEF IInv, SucceededHasWork
        <3>3. QED
            BY <3>1, <3>2 DEF IInv, SucceededHasWork
    <2>10. QED
        BY <1>a, <2>3, <2>5, <2>6, <2>7, <2>8, <2>9 DEF Workspaces
<1>10. ASSUME RefreshBegin PROVE IInv'
    <2>1. OneTurn'
        BY <1>10 DEF RefreshBegin, IInv, OneTurn
    <2>2. Workspaces'
        BY <1>10, SameWorkspaces DEF RefreshBegin, agents
    <2>3. SucceededHasWork'
        BY <1>10, SameRecordsHaveWork DEF RefreshBegin
    <2>4. QED
        BY <1>a, <2>1, <2>2, <2>3
<1>11. ASSUME NEW r \in Runs, RefreshRun(r) PROVE IInv'
    <2>1. OneTurn'
        BY <1>11 DEF RefreshRun, IInv, OneTurn
    <2>2. Workspaces'
        BY <1>11, SameWorkspaces DEF RefreshRun, agents
    <2>3. SucceededHasWork'
        <3>1. CASE UNCHANGED <<store, file>>
            BY <1>11, <3>1, SameRecordsHaveWork DEF RefreshRun
        <3>2. CASE \E s \in OutcomesOf(r) : Persist(r, Rec(s, TRUE))
            BY <1>11, <3>2, PersistHasWork, OutcomeHasWork, OutcomesAreVerdicts
               DEF RefreshRun, Statuses, Verdicts
        <3>3. QED
            BY <1>11, <3>1, <3>2 DEF RefreshRun
    <2>4. QED
        BY <1>a, <2>1, <2>2, <2>3
<1>12. ASSUME NEW r \in Runs, Agent(r) PROVE IInv'
    <2>1. UNCHANGED <<turn, pc, run, locks, repository, store, file>>
        BY <1>12 DEF Agent, AgentWorks, AgentExits, ExitEvent, volatile
    <2>2. \A s \in Runs : /\ process[s] = "none" <=> process'[s] = "none"
                          /\ attempts[s] = "none" <=> attempts'[s] = "none"
        <3>1. CASE AgentWorks(r)
            BY <3>1 DEF AgentWorks, volatile
        <3>2. CASE AgentExits(r)
            <4>1. PICK s \in Ended : process' = [process EXCEPT ![r] = s]
                BY <3>2 DEF AgentExits
            <4>2. process[r] = "alive" /\ s # "none" /\ attempts' = attempts
                BY <3>2, <4>1 DEF AgentExits, volatile, Ended
            <4>3. \A q \in Runs : process'[q] = IF q = r THEN s ELSE process[q]
                BY <4>1 DEF Typed, TypeOK
            <4>4. QED
                BY <4>2, <4>3
        <3>3. CASE ExitEvent(r)
            BY <3>3 DEF ExitEvent, agents, Typed, TypeOK
        <3>4. QED
            BY <1>12, <3>1, <3>2, <3>3 DEF Agent
    <2>3. OneTurn'
        BY <2>1 DEF IInv, OneTurn
    <2>4. HandlerHoldsLock' /\ HandlerOwnsBranch' /\ HandlerOwnsWorktree'
        BY <2>1, <2>2 DEF IInv, HandlerHoldsLock, HandlerOwnsBranch, HandlerOwnsWorktree, repository
    <2>5. AttemptHoldsLock' /\ AgentHasWorkspace' /\ BranchesNotShared'
        BY <2>1, <2>2 DEF IInv, AttemptHoldsLock, AgentHasWorkspace, BranchesNotShared, repository
    <2>6. \A s \in Runs : process[s] = "exit zero" =>
            process'[s] = process[s] /\ tree'[s] = tree[s]
        <3>1. CASE AgentWorks(r)
            <4>1. PICK s \in {"changed", "committed"} : tree' = [tree EXCEPT ![r] = s]
                BY <3>1 DEF AgentWorks
            <4>2. QED
                BY <3>1, <4>1 DEF AgentWorks, Typed, TypeOK
        <3>2. CASE AgentExits(r)
            <4>1. PICK s \in Ended : process' = [process EXCEPT ![r] = s]
                BY <3>2 DEF AgentExits
            <4>2. QED
                BY <3>2, <4>1 DEF AgentExits, Typed, TypeOK
        <3>3. CASE ExitEvent(r)
            BY <3>3 DEF ExitEvent, agents
        <3>4. QED
            BY <1>12, <3>1, <3>2, <3>3 DEF Agent
    <2>7. SucceededHasWork'
        BY <2>1, <2>6 DEF IInv, SucceededHasWork, file
    <2>8. QED
        BY <1>a, <2>3, <2>4, <2>5, <2>7 DEF Workspaces
<1>13. ASSUME Stop PROVE IInv'
    BY <1>13, <1>a, SameWorkspaces, SameRecordsHaveWork DEF Stop, IInv, OneTurn, volatile, agents
<1>14. ASSUME Exit \/ Crash \/ CrashWriting PROVE IInv'
    <2>1. GoDown /\ UNCHANGED disk
        BY <1>14 DEF Exit, Crash, CrashWriting, file
    <2>2. \A p \in Posts : pc'[p] \notin InFlight
        BY <2>1 DEF GoDown, InFlight, InTurn
    <2>3. OneTurn'
        BY <2>1, <2>2 DEF GoDown, OneTurn, InFlight
    <2>4. HandlerHoldsLock' /\ HandlerOwnsBranch' /\ HandlerOwnsWorktree'
        BY <2>2 DEF HandlerHoldsLock, HandlerOwnsBranch, HandlerOwnsWorktree, InFlight, InTurn
    <2>5. AttemptHoldsLock' /\ AgentHasWorkspace' /\ BranchesNotShared'
        BY <2>1 DEF GoDown, IInv, AttemptHoldsLock, AgentHasWorkspace, BranchesNotShared,
                    repository, agents
    <2>6. SucceededHasWork'
        BY <2>1 DEF GoDown, IInv, SucceededHasWork, NoRecord, agents
    <2>7. QED
        BY <1>a, <2>3, <2>4, <2>5, <2>6 DEF Workspaces
<1>15. ASSUME Start PROVE IInv'
    <2>1. OneTurn' /\ Workspaces'
        BY <1>15, SameWorkspaces DEF Start, IInv, OneTurn, agents
    <2>2. SucceededHasWork'
        BY <1>15 DEF Start, IInv, SucceededHasWork, file, agents
    <2>3. QED
        BY <1>a, <2>1, <2>2
<1>16. ASSUME UNCHANGED vars PROVE IInv'
    BY <1>16, <1>a, SameWorkspaces, SameRecordsHaveWork
       DEF vars, volatile, agents, IInv, OneTurn
<1>17. QED
    BY <1>1, <1>2, <1>3, <1>4, <1>5, <1>6, <1>7, <1>8, <1>9, <1>10, <1>11, <1>12,
       <1>13, <1>14, <1>15, <1>16 DEF Next, Post, Lifecycle

LEMMA AlwaysIInv == Spec => []IInv
BY InitIInv, NextIInv, PTL DEF Spec

\* No stored record and no line of runs.json ever says "succeeded" of a run whose
\* agent did not exit with code zero and leave uncommitted work behind.
THEOREM SuccessIsEarned == Spec => []SucceededHasWork
BY AlwaysIInv, PTL DEF IInv

\* Ids may collide in their branch name and locks are lost at every restart: two runs
\* that started an agent still have different branches.
THEOREM BranchesStayApart == Spec => []BranchesNotShared
BY AlwaysIInv, PTL DEF IInv

\* The lock keeps the attempts of one lifetime of the service on different targets.
THEOREM LockKeepsAttemptsApart == Spec => []OneAttemptPerTarget
<1>1. IInv => OneAttemptPerTarget
    BY DEF IInv, AttemptHoldsLock, OneAttemptPerTarget
<1>2. QED
    BY <1>1, AlwaysIInv, PTL

\* No agent is started a second time for one run id.
THEOREM NoSecondStart == Spec => AgentStartsOnce
<1>1. IInv /\ [Next]_vars => \A r \in Runs : process[r] \in Ended => process'[r] = process[r]
    <2> SUFFICES ASSUME IInv, [Next]_vars, NEW r \in Runs, process[r] \in Ended
                 PROVE  process'[r] = process[r]
        OBVIOUS
    <2>1. ASSUME NEW p \in Posts, Spawn(p) PROVE process'[r] = process[r]
        <3>1. run[p] # r
            BY <2>1 DEF Spawn, IInv, HandlerOwnsBranch, Ended
        <3>2. QED
            BY <2>1, <3>1 DEF Spawn, IInv, Typed, TypeOK
    <2>2. ASSUME NEW s \in Runs, AgentExits(s) PROVE process'[r] = process[r]
        <3>1. PICK e \in Ended : process' = [process EXCEPT ![s] = e]
            BY <2>2 DEF AgentExits
        <3>2. QED
            BY <2>2, <3>1 DEF AgentExits, IInv, Typed, TypeOK, Ended
    <2>3. ASSUME NEW p \in Posts, Post(p), ~Spawn(p) PROVE UNCHANGED process
        BY <2>3 DEF Post, Receive, MarkRunning, RefuseInput, AcquireLock, RefuseWorkspace,
                    CreateBranch, AddWorktree, DropBranch, RefuseAdapter, Refuse, Fail, Settle,
                    agents
    <2>4. ASSUME RefreshBegin \/ (\E s \in Runs : RefreshRun(s)) \/ Lifecycle
          PROVE  UNCHANGED process
        BY <2>4 DEF RefreshBegin, RefreshRun, Lifecycle, Stop, Exit, Crash, CrashWriting,
                    GoDown, Start, agents
    <2>5. ASSUME NEW s \in Runs, AgentWorks(s) \/ ExitEvent(s) PROVE UNCHANGED process
        BY <2>5 DEF AgentWorks, ExitEvent, agents
    <2>6. CASE UNCHANGED vars
        BY <2>6 DEF vars, agents
    <2>7. QED
        BY <2>1, <2>2, <2>3, <2>4, <2>5, <2>6 DEF Next, Agent
<1>2. QED
    BY <1>1, AlwaysIInv, PTL DEF Spec, AgentStartsOnce

-----------------------------------------------------------------------------
(* Requests that never share an id.  Verdicts are final under this            *)
(* assumption only: the Replay run shows what a retried id does to them.     *)

DistinctIds == \A p, q \in Posts : p # q => IdsOf[p] \cap IdsOf[q] = {}

\* While the service runs, runs.json holds what the store holds.
DiskIsStore ==
    IF service = "down" THEN \A r \in Runs : store[r] = NoRecord ELSE disk = store

OnlyUpWorks == service = "down" => turn = Idle

TodoIsRunning == turn = Refresher => \A r \in todo : disk[r].status = "running"

ExitedHasEnded == \A r \in Runs : attempts[r] = "Exited" => process[r] \in Ended

Bookkeeping == DiskIsStore /\ OnlyUpWorks /\ TodoIsRunning /\ ExitedHasEnded

\* Nothing is known of the ids of a request that has not arrived; a handler that
\* has not spawned works on a run without agent; while it settles, no refresh can
\* know its attempt.
OwnsItsRun(p) ==
    /\ pc[p] # "new" => run[p] \in IdsOf[p]
    /\ pc[p] = "new" => \A r \in IdsOf[p] : disk[r] = NoRecord /\ process[r] = "none"
    /\ pc[p] \in InTurn => process[run[p]] = "none"
    /\ pc[p] = "queued" => disk[run[p]] = Rec("queued", FALSE)
    /\ pc[p] \in InFlight \ {"queued"} => disk[run[p]] = Rec("running", FALSE)

FailedHasEnded == \A r \in Runs : disk[r].status = "failed" => process[r] # "alive"

DInv == IInv /\ Bookkeeping /\ (\A p \in Posts : OwnsItsRun(p)) /\ FailedHasEnded

LEMMA InitDInv == Init => DInv
<1> SUFFICES ASSUME Init PROVE DInv
    OBVIOUS
<1>1. IInv
    BY InitIInv
<1>2. Bookkeeping
    BY DEF Init, Bookkeeping, DiskIsStore, OnlyUpWorks, TodoIsRunning, ExitedHasEnded,
           Idle, Refresher
<1>3. ASSUME NEW p \in Posts PROVE OwnsItsRun(p)
    BY ConstantsAssumption DEF Init, OwnsItsRun, InFlight, InTurn
<1>4. FailedHasEnded
    BY DEF Init, FailedHasEnded, NoRecord
<1>5. QED
    BY <1>1, <1>2, <1>3, <1>4 DEF DInv

\* A request disturbs nothing of another one: their ids are different.
LEMMA OthersKeepTheirRun ==
    ASSUME DistinctIds, DInv, NEW p \in Posts, NEW q \in Posts \ {p}, NEW r \in IdsOf[p],
           pc'[q] = pc[q], run'[q] = run[q],
           \A s \in Runs \ {r} : disk'[s] = disk[s] /\ process'[s] = process[s]
    PROVE  OwnsItsRun(q)'
<1>1. OwnsItsRun(q) /\ IdsOf[q] \subseteq Runs \ {r}
    BY ConstantsAssumption DEF DInv, DistinctIds
<1>2. QED
    BY <1>1 DEF OwnsItsRun, InFlight, InTurn

LEMMA PersistWrites ==
    ASSUME DInv, NEW r \in Runs, NEW rec, Persist(r, rec), service # "down"
    PROVE  /\ disk' = store'
           /\ disk'[r] = rec
           /\ \A s \in Runs \ {r} : disk'[s] = disk[s]
BY DEF DInv, Bookkeeping, DiskIsStore, Persist, IInv, Typed, TypeOK

\* A verdict on disk stays (the action of VerdictIsFinal).
KeepsVerdicts == \A r \in Runs : disk[r].status \in Verdicts => disk'[r] = disk[r]

LEMMA NextDInv == DistinctIds /\ DInv /\ [Next]_vars => DInv' /\ KeepsVerdicts
<1> SUFFICES ASSUME DistinctIds, DInv, [Next]_vars PROVE DInv' /\ KeepsVerdicts
    OBVIOUS
<1> DEFINE Goal == Bookkeeping' /\ (\A q \in Posts : OwnsItsRun(q)') /\ FailedHasEnded'
                   /\ KeepsVerdicts
<1> HIDE DEF Goal
<1> USE ConstantsAssumption
<1> Typed /\ IInv /\ Typed' /\ IInv'
    BY NextTyped, NextIInv DEF DInv, IInv
<1>a. ASSUME Goal PROVE DInv' /\ KeepsVerdicts
    BY <1>a DEF Goal, DInv
<1>1. ASSUME NEW p \in Posts, Receive(p) PROVE Goal
    <2>1. PICK r \in IdsOf[p] :
            run' = [run EXCEPT ![p] = r] /\ Persist(r, Rec("queued", FALSE))
        BY <1>1 DEF Receive
    <2>2. r \in Runs /\ service = "up" /\ process' = process
        BY <1>1 DEF Receive, agents
    <2>3. /\ disk' = store'
          /\ disk'[r] = Rec("queued", FALSE)
          /\ \A s \in Runs \ {r} : disk'[s] = disk[s]
        BY <2>1, <2>2, PersistWrites
    <2>4. disk[r] = NoRecord /\ process[r] = "none"
        BY <1>1 DEF Receive, DInv, OwnsItsRun
    <2>5. Bookkeeping'
        BY <1>1, <2>2, <2>3 DEF Receive, DInv, Bookkeeping, DiskIsStore, OnlyUpWorks,
                                TodoIsRunning, ExitedHasEnded
    <2>6. ASSUME NEW q \in Posts \ {p} PROVE OwnsItsRun(q)'
        BY <1>1, <2>1, <2>2, <2>3, OthersKeepTheirRun DEF Receive, Goto, Typed, TypeOK
    <2>7. OwnsItsRun(p)'
        BY <1>1, <2>1, <2>2, <2>3, <2>4
           DEF Receive, Goto, Typed, TypeOK, OwnsItsRun, InFlight, InTurn
    <2>8. FailedHasEnded' /\ KeepsVerdicts
        BY <2>2, <2>3, <2>4 DEF DInv, FailedHasEnded, KeepsVerdicts, Rec, NoRecord, Verdicts
    <2>9. QED
        BY <2>5, <2>6, <2>7, <2>8 DEF Goal
<1>2. ASSUME NEW p \in Posts, NEW s \in {"running", "failed"}, NEW label \in {"running", "answered"},
             turn = p, Persist(run[p], Rec(s, FALSE)), Goto(p, label),
             label = "running" => s = "running", turn' \in {p, Idle},
             UNCHANGED <<service, run, todo, attempts, process>>
      PROVE  Goal
    <2>1. pc[p] \in InTurn /\ run[p] \in Runs /\ run[p] \in IdsOf[p] /\ service # "down"
        BY <1>2 DEF DInv, IInv, OneTurn, Bookkeeping, OnlyUpWorks, OwnsItsRun, Typed, RunKnown,
                    InFlight, InTurn
    <2>2. /\ disk' = store'
          /\ disk'[run[p]] = Rec(s, FALSE)
          /\ \A r \in Runs \ {run[p]} : disk'[r] = disk[r]
        BY <1>2, <2>1, PersistWrites
    <2>3. process[run[p]] = "none" /\ disk[run[p]].status \in {"queued", "running"}
        BY <2>1 DEF DInv, OwnsItsRun, Rec, InFlight
    <2>4. Bookkeeping'
        <3>1. turn' # Refresher
            BY <1>2 DEF Idle, Refresher
        <3>2. QED
            BY <1>2, <2>1, <2>2, <3>1 DEF DInv, Bookkeeping, DiskIsStore, OnlyUpWorks,
                                          TodoIsRunning, ExitedHasEnded
    <2>5. ASSUME NEW q \in Posts \ {p} PROVE OwnsItsRun(q)'
        BY <1>2, <2>1, <2>2, OthersKeepTheirRun DEF Goto, Typed, TypeOK
    <2>6. OwnsItsRun(p)'
        BY <1>2, <2>1, <2>2, <2>3 DEF Goto, Typed, TypeOK, OwnsItsRun, InFlight, InTurn
    <2>7. FailedHasEnded' /\ KeepsVerdicts
        BY <1>2, <2>2, <2>3 DEF DInv, FailedHasEnded, KeepsVerdicts, Rec, Verdicts
    <2>8. QED
        BY <2>4, <2>5, <2>6, <2>7 DEF Goal
<1>3. ASSUME NEW p \in Posts, MarkRunning(p) \/ Fail(p) PROVE Goal
    BY <1>2, <1>3 DEF MarkRunning, Fail, agents
\* The steps between the two records only move the handler's label.
<1>4. ASSUME NEW p \in Posts, NEW label \in InTurn \ {"queued"}, turn = p, pc[p] # "queued",
             Goto(p, label), UNCHANGED <<service, turn, run, todo, store, file, attempts, process>>
      PROVE  Goal
    <2>1. pc[p] \in InTurn /\ run[p] \in IdsOf[p] /\ IdsOf[p] \subseteq Runs
        BY <1>4 DEF DInv, IInv, OneTurn, OwnsItsRun, InTurn
    <2>2. Bookkeeping' /\ FailedHasEnded' /\ KeepsVerdicts
        BY <1>4 DEF DInv, Bookkeeping, DiskIsStore, OnlyUpWorks, TodoIsRunning, ExitedHasEnded,
                    FailedHasEnded, KeepsVerdicts, file
    <2>3. ASSUME NEW q \in Posts \ {p} PROVE OwnsItsRun(q)'
        BY <1>4, <2>1, OthersKeepTheirRun DEF Goto, Typed, TypeOK, file
    <2>4. OwnsItsRun(p)'
        BY <1>4, <2>1 DEF Goto, Typed, TypeOK, DInv, OwnsItsRun, InFlight, InTurn, file
    <2>5. QED
        BY <2>2, <2>3, <2>4 DEF Goal
<1>5. ASSUME NEW p \in Posts,
             RefuseInput(p) \/ AcquireLock(p) \/ RefuseWorkspace(p) \/ CreateBranch(p)
                \/ AddWorktree(p) \/ DropBranch(p) \/ RefuseAdapter(p)
      PROVE  Goal
    BY <1>4, <1>5 DEF RefuseInput, AcquireLock, RefuseWorkspace, CreateBranch, AddWorktree,
                      DropBranch, RefuseAdapter, Refuse, InTurn, agents
<1>6. ASSUME NEW p \in Posts, Spawn(p) PROVE Goal
    <2>1. run[p] \in IdsOf[p] /\ run[p] \in Runs
        BY <1>6 DEF Spawn, DInv, OwnsItsRun
    <2>2. disk[run[p]] = Rec("running", FALSE) /\ disk' = disk
        BY <1>6 DEF Spawn, DInv, OwnsItsRun, InFlight, InTurn, file
    <2>3. \A s \in Runs \ {run[p]} : process'[s] = process[s] /\ attempts'[s] = attempts[s]
        BY <1>6 DEF Spawn, Typed, TypeOK
    <2>4. Bookkeeping'
        BY <1>6, <2>1, <2>2, <2>3 DEF Spawn, DInv, Bookkeeping, DiskIsStore, OnlyUpWorks,
                                      TodoIsRunning, ExitedHasEnded, Typed, TypeOK, Idle, Refresher
    <2>5. ASSUME NEW q \in Posts \ {p} PROVE OwnsItsRun(q)'
        BY <1>6, <2>1, <2>2, <2>3, OthersKeepTheirRun DEF Spawn, Goto, Typed, TypeOK
    <2>6. OwnsItsRun(p)'
        BY <1>6, <2>1, <2>2 DEF Spawn, Goto, Typed, TypeOK, OwnsItsRun, InFlight, InTurn
    <2>7. FailedHasEnded' /\ KeepsVerdicts
        BY <2>2, <2>3 DEF DInv, FailedHasEnded, KeepsVerdicts, Rec
    <2>8. QED
        BY <2>4, <2>5, <2>6, <2>7 DEF Goal
<1>7. ASSUME NEW p \in Posts, Settle(p) PROVE Goal
    <2>1. run[p] \in IdsOf[p] /\ run[p] \in Runs /\ process' = process /\ service # "down"
        BY <1>7 DEF Settle, DInv, OwnsItsRun, agents
    <2>2. disk[run[p]] = Rec("running", FALSE)
        BY <1>7 DEF Settle, DInv, OwnsItsRun, InFlight, InTurn
    <2>3. PICK s \in Statuses :
            /\ Persist(run[p], Rec(s, TRUE))
            /\ s = "running" \/ attempts[run[p]] = "Exited"
        BY <1>7, <2>1, OutcomesAreVerdicts DEF Settle, Statuses, Verdicts
    <2>4. /\ disk' = store'
          /\ disk'[run[p]] = Rec(s, TRUE)
          /\ \A r \in Runs \ {run[p]} : disk'[r] = disk[r]
        BY <2>1, <2>3, PersistWrites
    <2>5. Bookkeeping'
        BY <1>7, <2>1, <2>4 DEF Settle, DInv, Bookkeeping, DiskIsStore, OnlyUpWorks,
                                TodoIsRunning, ExitedHasEnded, Idle, Refresher
    <2>6. ASSUME NEW q \in Posts \ {p} PROVE OwnsItsRun(q)'
        BY <1>7, <2>1, <2>4, OthersKeepTheirRun DEF Settle, Goto, Typed, TypeOK
    <2>7. OwnsItsRun(p)'
        BY <1>7, <2>1 DEF Settle, Goto, Typed, TypeOK, OwnsItsRun, InFlight, InTurn
    <2>8. FailedHasEnded'
        <3>1. disk'[run[p]].status = s
            BY <2>4 DEF Rec
        <3>2. s = "failed" => process[run[p]] # "alive"
            BY <2>1, <2>3 DEF DInv, Bookkeeping, ExitedHasEnded, Ended
        <3>3. QED
            BY <2>1, <2>4, <3>1, <3>2 DEF DInv, FailedHasEnded
    <2>9. KeepsVerdicts
        BY <2>2, <2>4 DEF KeepsVerdicts, Rec, Verdicts
    <2>10. QED
        BY <2>5, <2>6, <2>7, <2>8, <2>9 DEF Goal
<1>8. ASSUME RefreshBegin PROVE Goal
    <2>1. Bookkeeping'
        BY <1>8 DEF RefreshBegin, DInv, Bookkeeping, DiskIsStore, OnlyUpWorks, TodoIsRunning,
                    ExitedHasEnded, file, agents
    <2>2. (\A q \in Posts : OwnsItsRun(q)') /\ FailedHasEnded' /\ KeepsVerdicts
        BY <1>8 DEF RefreshBegin, DInv, OwnsItsRun, FailedHasEnded, KeepsVerdicts, file, agents
    <2>3. QED
        BY <2>1, <2>2 DEF Goal
<1>9. ASSUME NEW r \in Runs, RefreshRun(r) PROVE Goal
    <2>1. turn = Refresher /\ service # "down" /\ disk = store
        BY <1>9 DEF RefreshRun, DInv, Bookkeeping, OnlyUpWorks, DiskIsStore, Idle, Refresher
    <2>2. disk[r].status = "running" /\ process' = process
        BY <1>9, <2>1 DEF RefreshRun, DInv, Bookkeeping, TodoIsRunning, agents
    <2>3. CASE UNCHANGED <<store, file>>
        <3>1. Bookkeeping'
            BY <1>9, <2>1, <2>2, <2>3
               DEF RefreshRun, DInv, Bookkeeping, DiskIsStore, OnlyUpWorks, TodoIsRunning,
                   ExitedHasEnded, file
        <3>2. (\A q \in Posts : OwnsItsRun(q)') /\ FailedHasEnded' /\ KeepsVerdicts
            BY <1>9, <2>2, <2>3 DEF RefreshRun, DInv, OwnsItsRun, FailedHasEnded, KeepsVerdicts, file
        <3>3. QED
            BY <3>1, <3>2 DEF Goal
    <2>4. CASE /\ store[r].tracked
               /\ attempts[r] = "Exited"
               /\ \E s \in OutcomesOf(r) : Persist(r, Rec(s, TRUE))
        <3>1. PICK s \in OutcomesOf(r) : Persist(r, Rec(s, TRUE))
            BY <2>4
        <3>2. /\ disk' = store'
              /\ disk'[r] = Rec(s, TRUE)
              /\ \A q \in Runs \ {r} : disk'[q] = disk[q]
            BY <2>1, <3>1, PersistWrites
        <3>3. process[r] # "alive"
            BY <2>4 DEF DInv, Bookkeeping, ExitedHasEnded, Ended
        <3>4. Bookkeeping'
            <4>1. DiskIsStore' /\ OnlyUpWorks' /\ ExitedHasEnded'
                BY <1>9, <2>1, <2>2, <3>2
                   DEF RefreshRun, DInv, Bookkeeping, DiskIsStore, OnlyUpWorks, ExitedHasEnded
            <4>2. todo' = todo \ {r} /\ todo \subseteq Runs
                BY <1>9 DEF RefreshRun, Typed, TypeOK
            <4>3. TodoIsRunning'
                BY <2>1, <3>2, <4>2 DEF DInv, Bookkeeping, TodoIsRunning
            <4>4. QED
                BY <4>1, <4>3 DEF Bookkeeping
        <3>5. ASSUME NEW q \in Posts PROVE OwnsItsRun(q)'
            <4>1. OwnsItsRun(q) /\ IdsOf[q] \subseteq Runs /\ pc'[q] = pc[q] /\ run'[q] = run[q]
                BY <1>9 DEF DInv, RefreshRun
            <4>2. pc[q] = "new" => r \notin IdsOf[q]
                BY <2>2, <4>1 DEF OwnsItsRun, NoRecord
            <4>3. pc[q] \in InFlight => run[q] # r
                BY <2>1, <2>4, <4>1 DEF OwnsItsRun, Rec, InFlight
            <4>4. QED
                BY <2>2, <3>2, <4>1, <4>2, <4>3 DEF OwnsItsRun, InFlight, InTurn
        <3>6. FailedHasEnded'
            BY <2>2, <3>2, <3>3 DEF DInv, FailedHasEnded
        <3>7. KeepsVerdicts
            BY <2>2, <3>2 DEF KeepsVerdicts, Verdicts
        <3>8. QED
            BY <3>4, <3>5, <3>6, <3>7 DEF Goal
    <2>5. QED
        BY <1>9, <2>3, <2>4 DEF RefreshRun
<1>10. ASSUME NEW r \in Runs, Agent(r) PROVE Goal
    <2>1. UNCHANGED <<service, turn, pc, run, todo, store, file>>
        BY <1>10 DEF Agent, AgentWorks, AgentExits, ExitEvent, volatile
    <2>2. /\ \A s \in Runs : process[s] = "none" <=> process'[s] = "none"
          /\ \A s \in Runs : process[s] # "alive" => process'[s] = process[s]
          /\ \A s \in Runs : attempts'[s] = "Exited" => attempts[s] = "Exited" \/ process[s] \in Ended
        <3>1. CASE AgentWorks(r)
            BY <3>1 DEF AgentWorks, volatile
        <3>2. CASE AgentExits(r)
            <4>1. PICK s \in Ended : process' = [process EXCEPT ![r] = s]
                BY <3>2 DEF AgentExits
            <4>2. process[r] = "alive" /\ s # "none" /\ attempts' = attempts
                BY <3>2, <4>1 DEF AgentExits, volatile, Ended
            <4>3. \A q \in Runs : process'[q] = IF q = r THEN s ELSE process[q]
                BY <4>1 DEF Typed, TypeOK
            <4>4. QED
                BY <4>2, <4>3
        <3>3. CASE ExitEvent(r)
            BY <3>3 DEF ExitEvent, agents, Typed, TypeOK
        <3>4. QED
            BY <1>10, <3>1, <3>2, <3>3 DEF Agent
    <2>3. Bookkeeping'
        BY <2>1, <2>2 DEF DInv, Bookkeeping, DiskIsStore, OnlyUpWorks, TodoIsRunning,
                          ExitedHasEnded, Ended, file
    <2>4. ASSUME NEW q \in Posts PROVE OwnsItsRun(q)'
        <3>1. OwnsItsRun(q) /\ IdsOf[q] \subseteq Runs
            BY DEF DInv
        <3>2. QED
            BY <2>1, <2>2, <3>1 DEF OwnsItsRun, InFlight, InTurn, file
    <2>5. FailedHasEnded' /\ KeepsVerdicts
        BY <2>1, <2>2 DEF DInv, FailedHasEnded, KeepsVerdicts, file
    <2>6. QED
        BY <2>3, <2>4, <2>5 DEF Goal
<1>11. ASSUME Stop \/ UNCHANGED vars PROVE Goal
    <2>1. /\ UNCHANGED <<turn, pc, run, todo, store, disk, attempts, process>>
          /\ service' = "down" <=> service = "down"
        BY <1>11 DEF Stop, vars, volatile, file, agents
    <2>2. QED
        BY <2>1 DEF Goal, DInv, Bookkeeping, DiskIsStore, OnlyUpWorks, TodoIsRunning,
                    ExitedHasEnded, OwnsItsRun, FailedHasEnded, KeepsVerdicts
<1>12. ASSUME Exit \/ Crash \/ CrashWriting PROVE Goal
    <2>1. GoDown /\ UNCHANGED disk /\ UNCHANGED process
        BY <1>12 DEF Exit, Crash, CrashWriting, GoDown, file, agents
    <2>2. Bookkeeping'
        BY <2>1 DEF GoDown, Bookkeeping, DiskIsStore, OnlyUpWorks, TodoIsRunning,
                    ExitedHasEnded, Idle, Refresher
    <2>3. ASSUME NEW q \in Posts PROVE OwnsItsRun(q)'
        <3>1. pc'[q] \notin InFlight /\ (pc'[q] = "new" <=> pc[q] = "new")
            BY <2>1 DEF GoDown, InFlight, InTurn
        <3>2. QED
            BY <2>1, <3>1 DEF GoDown, DInv, OwnsItsRun, InFlight
    <2>4. FailedHasEnded' /\ KeepsVerdicts
        BY <2>1 DEF DInv, FailedHasEnded, KeepsVerdicts
    <2>5. QED
        BY <2>2, <2>3, <2>4 DEF Goal
<1>13. ASSUME Start PROVE Goal
    <2>1. UNCHANGED <<turn, pc, run, todo, disk, attempts, process>> /\ store' = disk
        BY <1>13 DEF Start, file, agents
    <2>2. Bookkeeping'
        BY <1>13, <2>1 DEF Start, DInv, Bookkeeping, DiskIsStore, OnlyUpWorks, TodoIsRunning,
                           ExitedHasEnded
    <2>3. (\A q \in Posts : OwnsItsRun(q)') /\ FailedHasEnded' /\ KeepsVerdicts
        BY <2>1 DEF DInv, OwnsItsRun, FailedHasEnded, KeepsVerdicts
    <2>4. QED
        BY <2>2, <2>3 DEF Goal
<1>14. QED
    BY <1>a, <1>1, <1>3, <1>5, <1>6, <1>7, <1>8, <1>9, <1>10, <1>11, <1>12, <1>13
       DEF Next, Post, Lifecycle

\* When no two requests share an id, a verdict in runs.json is never written over.
THEOREM VerdictsStay ==
    ASSUME DistinctIds PROVE Spec => VerdictIsFinal
BY InitDInv, NextDInv, PTL DEF Spec, VerdictIsFinal, KeepsVerdicts

\* When no two requests share an id, a run is recorded as failed only when its
\* agent has ended or was never started.
THEOREM FailureMeansNoAgent ==
    ASSUME DistinctIds PROVE Spec => []FailedHasNoAgent
<1>1. DInv => FailedHasNoAgent
    BY DEF DInv, FailedHasEnded, Bookkeeping, DiskIsStore, FailedHasNoAgent, NoRecord
<1>2. QED
    BY <1>1, InitDInv, NextDInv, PTL DEF Spec

-----------------------------------------------------------------------------
(* The implementation of RunRecords                                        *)

\* A record that changes in one of the ways the abstract module knows.
LEMMA RecordMoves ==
    ASSUME TypeOK, TypeOK', NEW r \in Runs, UNCHANGED process,
           \A s \in Runs \ {r} : disk'[s] = disk[s],
           \/ disk[r].status = "absent" /\ disk'[r].status = "queued"
           \/ disk[r].status = "queued" /\ disk'[r].status = "running"
           \/ disk[r].status = "running" /\ disk'[r].status = "succeeded" /\ process[r] = "exit zero"
           \/ disk[r].status = "running" /\ disk'[r].status = "failed" /\ process[r] # "alive"
    PROVE  Records!Next
<1>1. ASSUME NEW to, disk'[r].status = to PROVE Records!Record(r, disk[r].status, to)
    <2> DEFINE before == [q \in Runs |-> disk[q].status]
               after == [q \in Runs |-> disk'[q].status]
    <2>1. before[r] = disk[r].status
        OBVIOUS
    <2>2. after = [before EXCEPT ![r] = to]
        BY <1>1
    <2>3. QED
        BY <2>1, <2>2 DEF Records!Record
<1>2. CASE disk[r].status = "absent" /\ disk'[r].status = "queued"
    <2>1. Records!Record(r, "absent", "queued")
        BY <1>1, <1>2
    <2>2. QED
        BY <2>1 DEF Records!Ask, Records!Next
<1>3. CASE disk[r].status = "queued" /\ disk'[r].status = "running"
    <2>1. Records!Record(r, "queued", "running")
        BY <1>1, <1>3
    <2>2. QED
        BY <2>1 DEF Records!Take, Records!Next
<1>4. CASE disk[r].status = "running" /\ disk'[r].status = "succeeded" /\ process[r] = "exit zero"
    <2>1. Records!Record(r, "running", "succeeded")
        BY <1>1, <1>4
    <2>2. QED
        BY <1>4, <2>1 DEF Records!Succeed, Records!Next
<1>5. CASE disk[r].status = "running" /\ disk'[r].status = "failed" /\ process[r] # "alive"
    <2>1. Records!Record(r, "running", "failed")
        BY <1>1, <1>5
    <2>2. QED
        BY <1>5, <2>1 DEF Records!Fail, Records!Next
<1>6. QED
    BY <1>2, <1>3, <1>4, <1>5

LEMMA NothingMoves ==
    ASSUME UNCHANGED <<disk, process>> PROVE UNCHANGED Records!vars
BY DEF Records!vars

LEMMA NextSimulates ==
    DistinctIds /\ DInv /\ [Next]_vars => [Records!Next]_(Records!vars)
<1> SUFFICES ASSUME DistinctIds, DInv, [Next]_vars PROVE Records!Next \/ UNCHANGED Records!vars
    OBVIOUS
<1> TypeOK /\ TypeOK' /\ IInv
    BY NextTyped DEF DInv, IInv, Typed
<1> USE ConstantsAssumption
<1>1. ASSUME NEW p \in Posts, Receive(p) PROVE Records!Next
    <2>1. PICK r \in IdsOf[p] : Persist(r, Rec("queued", FALSE))
        BY <1>1 DEF Receive
    <2>2. r \in Runs /\ service # "down" /\ process' = process /\ disk[r] = NoRecord
        BY <1>1 DEF Receive, agents, DInv, OwnsItsRun
    <2>3. disk'[r] = Rec("queued", FALSE) /\ \A s \in Runs \ {r} : disk'[s] = disk[s]
        BY <2>1, <2>2, PersistWrites
    <2>4. disk[r].status = "absent" /\ disk'[r].status = "queued"
        BY <2>2, <2>3 DEF Rec, NoRecord
    <2>5. QED
        BY <2>2, <2>3, <2>4, RecordMoves
<1>2. ASSUME NEW p \in Posts, MarkRunning(p) \/ Fail(p) PROVE Records!Next
    <2>1. /\ pc[p] \in InTurn /\ run[p] \in Runs /\ service # "down"
          /\ process' = process /\ process[run[p]] = "none"
        BY <1>2 DEF MarkRunning, Fail, DInv, IInv, Bookkeeping, OnlyUpWorks, OwnsItsRun, Typed,
                    RunKnown, InFlight, InTurn, agents
    <2>2. CASE MarkRunning(p)
        <3>1. disk[run[p]] = Rec("queued", FALSE) /\ Persist(run[p], Rec("running", FALSE))
            BY <2>2 DEF MarkRunning, DInv, OwnsItsRun
        <3>2. disk'[run[p]] = Rec("running", FALSE) /\ \A s \in Runs \ {run[p]} : disk'[s] = disk[s]
            BY <2>1, <3>1, PersistWrites
        <3>3. disk[run[p]].status = "queued" /\ disk'[run[p]].status = "running"
            BY <3>1, <3>2 DEF Rec
        <3>4. QED
            BY <2>1, <3>2, <3>3, RecordMoves
    <2>3. CASE Fail(p)
        <3>1. disk[run[p]] = Rec("running", FALSE) /\ Persist(run[p], Rec("failed", FALSE))
            BY <2>3 DEF Fail, DInv, OwnsItsRun, InFlight, InTurn
        <3>2. disk'[run[p]] = Rec("failed", FALSE) /\ \A s \in Runs \ {run[p]} : disk'[s] = disk[s]
            BY <2>1, <3>1, PersistWrites
        <3>3. disk[run[p]].status = "running" /\ disk'[run[p]].status = "failed"
            BY <3>1, <3>2 DEF Rec
        <3>4. QED
            BY <2>1, <3>2, <3>3, RecordMoves
    <2>4. QED
        BY <1>2, <2>2, <2>3
<1>3. ASSUME NEW p \in Posts, Spawn(p) PROVE Records!Next
    <2>1. run[p] \in Runs /\ process[run[p]] = "none" /\ disk[run[p]] = Rec("running", FALSE)
        BY <1>3 DEF Spawn, DInv, OwnsItsRun, IInv, Typed, RunKnown, InFlight, InTurn
    <2>2. disk' = disk /\ process' = [process EXCEPT ![run[p]] = "alive"]
        BY <1>3 DEF Spawn, file
    <2>3. disk[run[p]].status = "running"
        BY <2>1 DEF Rec
    <2>4. QED
        BY <2>1, <2>2, <2>3 DEF Records!Start, Records!Next
\* A verdict is written for a run that was recorded as running and whose agent has ended.
<1>4. ASSUME NEW r \in Runs, service # "down", disk[r].status = "running", process' = process,
             attempts[r] = "Exited", NEW s \in OutcomesOf(r), Persist(r, Rec(s, TRUE))
      PROVE  Records!Next
    <2>1. disk'[r] = Rec(s, TRUE) /\ \A q \in Runs \ {r} : disk'[q] = disk[q]
        BY <1>4, PersistWrites
    <2>2. disk'[r].status = s
        BY <2>1 DEF Rec
    <2>3. process[r] # "alive"
        BY <1>4 DEF DInv, Bookkeeping, ExitedHasEnded, Ended
    <2>4. s = "succeeded" => process[r] = "exit zero"
        BY <1>4, OutcomeHasWork
    <2>5. s = "succeeded" \/ s = "failed"
        BY <1>4, OutcomesAreVerdicts DEF Verdicts
    <2>6. QED
        BY <1>4, <2>1, <2>2, <2>3, <2>4, <2>5, RecordMoves
<1>5. ASSUME NEW p \in Posts, Settle(p) PROVE Records!Next \/ UNCHANGED Records!vars
    <2>1. run[p] \in Runs /\ process' = process /\ service # "down"
        BY <1>5 DEF Settle, IInv, Typed, RunKnown, InFlight, agents
    <2>2. disk[run[p]] = Rec("running", FALSE) /\ disk[run[p]].status = "running"
        BY <1>5 DEF Settle, DInv, OwnsItsRun, InFlight, InTurn, Rec
    <2>3. CASE attempts[run[p]] = "Exited" /\ \E s \in OutcomesOf(run[p]) : Persist(run[p], Rec(s, TRUE))
        BY <1>4, <2>1, <2>2, <2>3
    <2>4. CASE Persist(run[p], Rec("running", TRUE))
        <3>1. disk'[run[p]] = Rec("running", TRUE) /\ \A q \in Runs \ {run[p]} : disk'[q] = disk[q]
            BY <2>1, <2>4, PersistWrites
        <3>2. [r \in Runs |-> disk'[r].status] = [r \in Runs |-> disk[r].status]
            BY <2>2, <3>1 DEF Rec
        <3>3. QED
            BY <2>1, <3>2 DEF Records!vars
    <2>5. QED
        BY <1>5, <2>3, <2>4 DEF Settle
<1>6. ASSUME NEW r \in Runs, RefreshRun(r) PROVE Records!Next \/ UNCHANGED Records!vars
    <2>1. service # "down" /\ process' = process /\ disk[r].status = "running"
        BY <1>6 DEF RefreshRun, DInv, Bookkeeping, OnlyUpWorks, TodoIsRunning, Idle, Refresher, agents
    <2>2. CASE UNCHANGED <<store, file>>
        BY <2>1, <2>2, NothingMoves DEF file
    <2>3. CASE attempts[r] = "Exited" /\ \E s \in OutcomesOf(r) : Persist(r, Rec(s, TRUE))
        BY <1>4, <2>1, <2>3
    <2>4. QED
        BY <1>6, <2>2, <2>3 DEF RefreshRun
<1>7. ASSUME NEW r \in Runs, AgentExits(r) PROVE Records!Next
    BY <1>7 DEF AgentExits, Ended, file, Records!End, Records!Next
<1>8. ASSUME \/ \E p \in Posts : \/ RefuseInput(p) \/ AcquireLock(p) \/ RefuseWorkspace(p)
                                 \/ CreateBranch(p) \/ AddWorktree(p) \/ DropBranch(p)
                                 \/ RefuseAdapter(p)
             \/ \E r \in Runs : AgentWorks(r) \/ ExitEvent(r)
             \/ RefreshBegin \/ Lifecycle \/ UNCHANGED vars
      PROVE  UNCHANGED <<disk, process>>
    BY <1>8 DEF RefuseInput, AcquireLock, RefuseWorkspace, CreateBranch, AddWorktree, DropBranch,
                RefuseAdapter, Refuse, AgentWorks, ExitEvent, RefreshBegin, Lifecycle, Stop, Exit,
                Crash, CrashWriting, GoDown, Start, vars, file, agents
<1>9. QED
    BY <1>1, <1>2, <1>3, <1>5, <1>6, <1>7, <1>8, NothingMoves DEF Next, Post, Agent

LEMMA InitSimulates == Init => Records!Init
BY DEF Init, Records!Init, NoRecord

\* When no two requests share an id, runs.json and the agents go through the life of a run: one
\* verdict each, given after the end of the one agent, across refreshes, crashes and restarts.
THEOREM RunsFollowTheirRecords ==
    ASSUME DistinctIds PROVE Spec => RecordsAreHonest
BY InitDInv, NextDInv, InitSimulates, NextSimulates, PTL DEF Spec, RecordsAreHonest, Records!Spec

-----------------------------------------------------------------------------
(* Nothing is forgotten                                                    *)

LEMMA InitNoneForgotten == Init => NoneForgotten
BY DEF Init, NoneForgotten, NoRecord

\* A step that leaves the records alone, and no run without its handler or its attempt.
LEMMA StillKnown ==
    ASSUME NoneForgotten, UNCHANGED <<service, restarts, store>>,
           \A p \in Posts : run'[p] = run[p] /\ (pc[p] \in InFlight => pc'[p] \in InFlight),
           \A r \in Runs : attempts[r] # "none" => attempts'[r] # "none"
    PROVE  NoneForgotten'
BY DEF NoneForgotten

LEMMA NextNoneForgotten == Typed /\ NoneForgotten /\ [Next]_vars => NoneForgotten'
<1> SUFFICES ASSUME Typed, NoneForgotten, [Next]_vars PROVE NoneForgotten'
    OBVIOUS
<1> USE ConstantsAssumption DEF InFlight, InTurn
<1> TypeOK /\ RunKnown
    BY DEF Typed
<1>1. ASSUME NEW p \in Posts, NEW r \in Runs, NEW s \in Statuses, NEW label \in InFlight,
             Persist(r, Rec(s, FALSE)), Goto(p, label), run' = [run EXCEPT ![p] = r],
             pc[p] = "new" \/ run[p] = r, UNCHANGED <<service, restarts, attempts>>
      PROVE  NoneForgotten'
    <2>1. pc'[p] \in InFlight /\ run'[p] = r /\ \A q \in Runs \ {r} : store'[q] = store[q]
        BY <1>1 DEF Goto, Persist, TypeOK
    <2>2. \A q \in Posts \ {p} : pc'[q] = pc[q] /\ run'[q] = run[q]
        BY <1>1 DEF Goto, TypeOK
    <2>3. QED
        BY <1>1, <2>1, <2>2 DEF NoneForgotten
<1>2. ASSUME NEW p \in Posts, Receive(p) PROVE NoneForgotten'
    BY <1>1, <1>2 DEF Receive, Statuses
<1>3. ASSUME NEW p \in Posts, MarkRunning(p) PROVE NoneForgotten'
    <2>1. run[p] \in Runs /\ run' = [run EXCEPT ![p] = run[p]]
        BY <1>3 DEF MarkRunning, RunKnown, TypeOK
    <2>2. QED
        BY <1>1, <1>3, <2>1 DEF MarkRunning, Statuses
\* A handler that answers leaves a verdict, or a record that names its attempt.
<1>4. ASSUME NEW p \in Posts, NEW rec, Persist(run[p], rec), Goto(p, "answered"), run[p] \in Runs,
             rec.status \in Verdicts \/ (rec.tracked /\ attempts[run[p]] # "none"),
             UNCHANGED <<service, restarts, run, attempts>>
      PROVE  NoneForgotten'
    <2>1. store'[run[p]] = rec /\ \A r \in Runs \ {run[p]} : store'[r] = store[r]
        BY <1>4 DEF Persist, TypeOK
    <2>2. \A q \in Posts \ {p} : pc'[q] = pc[q]
        BY <1>4 DEF Goto, TypeOK
    <2>3. QED
        BY <1>4, <2>1, <2>2 DEF NoneForgotten, Verdicts
<1>5. ASSUME NEW p \in Posts, Fail(p) PROVE NoneForgotten'
    BY <1>4, <1>5 DEF Fail, RunKnown, Rec, Verdicts
<1>6. ASSUME NEW p \in Posts, Settle(p) PROVE NoneForgotten'
    <2>1. PICK s : /\ Persist(run[p], Rec(s, TRUE))
                   /\ attempts[run[p]] # "none"
        BY <1>6 DEF Settle
    <2>2. QED
        BY <1>4, <1>6, <2>1 DEF Settle, RunKnown, Rec
<1>7. ASSUME NEW r \in Runs, RefreshRun(r) PROVE NoneForgotten'
    <2>1. CASE UNCHANGED store
        BY <1>7, <2>1, StillKnown DEF RefreshRun
    <2>2. CASE \E s \in OutcomesOf(r) : Persist(r, Rec(s, TRUE))
        <3>1. PICK s \in Verdicts : Persist(r, Rec(s, TRUE))
            BY <2>2, OutcomesAreVerdicts
        <3>2. store'[r].status \in Verdicts /\ \A q \in Runs \ {r} : store'[q] = store[q]
            BY <3>1 DEF Persist, Rec, TypeOK
        <3>3. QED
            BY <1>7, <3>2 DEF RefreshRun, NoneForgotten, Verdicts
    <2>3. QED
        BY <1>7, <2>1, <2>2 DEF RefreshRun
<1>8. ASSUME NEW p \in Posts,
             RefuseInput(p) \/ AcquireLock(p) \/ RefuseWorkspace(p) \/ CreateBranch(p)
                \/ AddWorktree(p) \/ DropBranch(p) \/ RefuseAdapter(p)
      PROVE  NoneForgotten'
    BY <1>8, StillKnown DEF RefuseInput, AcquireLock, RefuseWorkspace, CreateBranch, AddWorktree,
                            DropBranch, RefuseAdapter, Refuse, Goto, TypeOK
<1>9. ASSUME NEW p \in Posts, Spawn(p) PROVE NoneForgotten'
    BY <1>9, StillKnown DEF Spawn, Goto, TypeOK
<1>10. ASSUME NEW r \in Runs, Agent(r) PROVE NoneForgotten'
    BY <1>10, StillKnown DEF Agent, AgentWorks, AgentExits, ExitEvent, volatile, TypeOK
<1>11. CASE RefreshBegin \/ UNCHANGED vars
    BY <1>11, StillKnown DEF RefreshBegin, vars, volatile
<1>12. CASE Stop
    BY <1>12 DEF Stop, NoneForgotten, volatile
<1>13. CASE Exit \/ Crash \/ CrashWriting
    BY <1>13 DEF Exit, Crash, CrashWriting, GoDown, NoneForgotten
<1>14. CASE Start
    BY <1>14 DEF Start, NoneForgotten, TypeOK
<1>15. QED
    BY <1>2, <1>3, <1>5, <1>6, <1>7, <1>8, <1>9, <1>10, <1>11, <1>12, <1>13, <1>14
       DEF Next, Post, Lifecycle

\* Until the service first goes down, every run recorded as under way has a handler or an attempt that
\* will end it: the part of SettlesWithoutRestart that no fairness can give.
THEOREM NothingIsForgotten == Spec => []NoneForgotten
BY AlwaysTyped, InitNoneForgotten, NextNoneForgotten, PTL DEF Spec
=============================================================================
