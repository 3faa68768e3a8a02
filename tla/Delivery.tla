------------------------------- MODULE Delivery -------------------------------
(***************************************************************************)
(* One run from its context selection to the clean-up of its workspace:    *)
(* the gates (Obsidian context, A pipeline, B handoff, Critical Review,    *)
(* E acceptance, F manual merge), the correction cycle and retention.      *)
(*                                                                         *)
(* The functions are pure and their callers keep the results; this module  *)
(* keeps, per run, the current document of each gate, the request that is  *)
(* open, the last decision, and the decision each gate was passed with.    *)
(* The user reads a request and answers it in one step; the answer then    *)
(* travels, may arrive late, twice or never, while documents, requests and *)
(* the clock move on.  Outside the program the user commits to the run     *)
(* branch and pushes to the target branch, whose history only grows.       *)
(***************************************************************************)
EXTENDS Approvals, Reviews, StateMachine, PreflightEngine, PipelineTemplates

CONSTANTS
    Templates,        \* pipeline templates a run may be given
    Machines,         \* what a preflight may be given
    ReviewInputs,     \* sets of findings a review may report
    CommitChoices,    \* whether a step leaves its work committed on the run branch
    PatchChoices,     \* whether Gate F is given the hash of the accepted patch
    CompletedDays,    \* COMPLETED_RETENTION_DAYS in ticks
    TerminalDays,     \* TERMINAL_RETENTION_DAYS in ticks
    MaxRevisions,     \* bound: revisions of all documents together
    MaxBuilds,        \* bound: builds of the run
    MaxPushes,        \* bound: pushes to the target branch
    MaxTime           \* bound: the clock

ASSUME DeliveryAssumption ==
    /\ Templates \subseteq PIPELINE_TEMPLATE_IDS
    /\ \A findings \in ReviewInputs : \A f \in findings :
            f \in [severity : {"Info", "Low", "Medium", "High", "Critical"}, sensitive : BOOLEAN]
    /\ CommitChoices \subseteq BOOLEAN /\ PatchChoices \subseteq BOOLEAN
    /\ CompletedDays \in Nat /\ TerminalDays \in Nat
    /\ MaxRevisions \in Nat /\ MaxBuilds \in Nat /\ MaxPushes \in Nat /\ MaxTime \in Nat

VARIABLES
    template,   \* the template of the run
    run,        \* its state, the step it is at, and since when it is settled
    cycle,      \* the correction cycle: its counter, and the exceptions the user has approved
    doc,        \* the revision of each gate's document; 0 before there is one
    request,    \* the request that is open
    answer,     \* the answer under way
    decision,   \* the last decision
    passed,     \* the decision each gate was passed with
    work,       \* what was built, what of it is committed, snapshotted and accepted
    target,     \* the target branch: its pushes, and how much of the work it contains
    gateF,      \* Gate F: what it has read and found
    kept,       \* what clean-up has left of worktree and run branch
    clock

gates == <<doc, request, answer, decision, passed>>
vars == <<template, run, cycle, gates, work, target, gateF, kept, clock>>

Steps == {"execute", "plan", "build", "review", "deliver"}
\* What a gate was passed with: the document that goes on, and the decision it was marked with.
Passes == [revision : Nat, by : Decisions]
NoPass == [revision |-> 0, by |-> NoDecision]

NoMerge == [status |-> "none", commit |-> 0, contained |-> FALSE, patch |-> FALSE, at |-> 0]

FirstStep == First(template)
NextStep(step) ==
    LET following == Following(template, step) IN
    IF following = {} THEN "deliver" ELSE CHOOSE s \in following : TRUE
HandoffRequired(step) == PIPELINE_TEMPLATES[template].steps[step].handoffRequired

TypeOK ==
    /\ template \in Templates
    /\ run \in [state : RunStates, step : Steps, since : Nat]
    /\ cycle \in [counter : Nat, exceptions : Nat]
    /\ doc \in [Gates -> Nat]
    /\ request \in Requests \cup {NoRequest}
    /\ answer \in Answers \cup {NoAnswer}
    /\ decision \in Decisions \cup {NoDecision}
    /\ passed \in [Gates -> Passes \cup {NoPass}]
    /\ work \in [built : Nat, head : Nat, snapshot : Nat, accepted : Nat]
    /\ target \in [pushes : Nat, holds : Nat]
    /\ gateF \in [status : {"none", "Pending", "read", "Verified"}, commit : Nat,
                  contained : BOOLEAN, patch : BOOLEAN, at : Nat]
    /\ kept \subseteq {"worktree", "branch"}
    /\ clock \in Nat

Init ==
    /\ template \in Templates
    /\ run = [state |-> "Ready", step |-> FirstStep, since |-> 0]
    /\ cycle = [counter |-> 0, exceptions |-> 0]
    /\ doc = [g \in Gates |-> 0]
    /\ request = NoRequest
    /\ answer = NoAnswer
    /\ decision = NoDecision
    /\ passed = [g \in Gates |-> NoPass]
    /\ work = [built |-> 0, head |-> 0, snapshot |-> 0, accepted |-> 0]
    /\ target = [pushes |-> 0, holds |-> 0]
    /\ gateF = NoMerge
    /\ kept = {}
    /\ clock = 0

-----------------------------------------------------------------------------
(* What the gates share                                                    *)

\* The states clean-up may find a run in; the time it got there is its terminalAt.
Settled == {"Completed", "Failed", "Cancelled", "Needs_Attention"}

\* The run takes the transition of its table and goes on at a step.
Move(event, context, step) ==
    \E t \in ApplyRun(run.state, event, context) :
        run' = [state |-> t.to, step |-> step, since |-> IF t.to \in Settled THEN clock ELSE 0]

Revisions == doc["context"] + doc["pipeline"] + doc["handoff"] + doc["critical"] + doc["acceptance"]

Revise(gate) == Revisions < MaxRevisions /\ doc' = [doc EXCEPT ![gate] = @ + 1]

\* A request takes the place of the one before; an answer or a decision for another gate is of no
\* more use, since every decide function checks the kind of its request.
Ask(gate, revision) ==
    /\ request' = Request(gate, revision, clock)
    /\ answer' = IF answer.gate = gate THEN answer ELSE NoAnswer
    /\ decision' = IF decision.gate = gate THEN decision ELSE NoDecision

\* A run that has ended asks for nothing more.
Close == request' = NoRequest /\ answer' = NoAnswer /\ decision' = NoDecision

Mark(gate, by) == passed' = [passed EXCEPT ![gate] = [revision |-> doc[gate], by |-> by]]

Pass(gate) == Binds(decision, gate, doc[gate]) /\ Mark(gate, decision)

\* The user answers the request on the screen, whatever has become of it since.
Reply(verdict) ==
    /\ request # NoRequest
    /\ answer' = Answer(request.gate, request.revision, verdict, clock)
    /\ UNCHANGED <<template, run, cycle, doc, request, decision, passed, work, target, gateF, kept, clock>>

\* decideApproval for the gates whose consumer is a later call.
Decide ==
    /\ answer.gate = request.gate
    /\ request.gate # "acceptance"
    /\ Usable(request, answer)
    /\ decision' = Decision(request, answer)
    /\ UNCHANGED <<template, run, cycle, doc, request, answer, passed, work, target, gateF, kept, clock>>

-----------------------------------------------------------------------------
(* Obsidian context and Gate A                                             *)

\* A selection, or a refreshed one; an open request for another selection is invalidated.
SelectContext ==
    /\ run.state = "Ready"
    /\ Revise("context")
    /\ request' = IF request.gate = "context" THEN Invalidated(request, doc'["context"]) ELSE request
    /\ UNCHANGED <<template, run, cycle, answer, decision, passed, work, target, gateF, kept, clock>>

AskContext ==
    /\ run.state = "Ready"
    /\ doc["context"] > 0
    /\ Ask("context", doc["context"])
    /\ UNCHANGED <<template, run, cycle, doc, passed, work, target, gateF, kept, clock>>

SnapshotContext ==
    /\ run.state = "Ready"
    /\ Pass("context")
    /\ UNCHANGED <<template, run, cycle, doc, request, answer, decision, work, target, gateF, kept, clock>>

\* Gate A shows template, assignments and the context snapshot; no agent has started yet.
PresentPipeline ==
    /\ passed["context"] # NoPass
    /\ Move("Present_pipeline", {"recommendationComplete", "contextComplete", "manifestComplete"}, FirstStep)
    /\ Revise("pipeline")
    /\ Ask("pipeline", doc'["pipeline"])
    /\ UNCHANGED <<template, cycle, passed, work, target, gateF, kept, clock>>

\* The configuration changes under an open Gate A: its request is invalidated, the run a draft again.
EditPipeline ==
    /\ Move("Edit", {}, FirstStep)
    /\ Revise("pipeline")
    /\ request' = Invalidated(request, doc'["pipeline"])
    /\ UNCHANGED <<template, cycle, answer, decision, passed, work, target, gateF, kept, clock>>

StartPreflight ==
    /\ Move("Start_Preflight", {"requiredFieldsComplete", "projectPathExists"}, FirstStep)
    /\ UNCHANGED <<template, cycle, gates, work, target, gateF, kept, clock>>

PreflightStatus(machine) == SummarizePreflightStatus(FullPreflight(machine))

\* Warnings pass here and are approved with the pipeline.
Preflight(machine) ==
    /\ run.state = "Preflight_Running"
    /\ \/ /\ PreflightStatus(machine) # "Blocked"
          /\ Move("Checks_passed", {"preflightReady"}, FirstStep)
       \/ /\ PreflightStatus(machine) = "Blocked"
          /\ Move("Critical_check_failed", {"blockedChecks"}, FirstStep)
    /\ UNCHANGED <<template, cycle, gates, work, target, gateF, kept, clock>>

ApprovePipeline ==
    /\ Pass("pipeline")
    /\ Move("Approve", {"approvalMatchesRevision", "warningsApproved"}, FirstStep)
    /\ run.state = "Awaiting_Pipeline_Approval"
    /\ UNCHANGED <<template, cycle, doc, request, answer, decision, work, target, gateF, kept, clock>>

PrepareWorkspace ==
    /\ \/ /\ Move("Worktree_ready", {"gitReady", "aclReady", "lockAcquired", "baseCommitValid"}, FirstStep)
          /\ kept' = {"worktree", "branch"}
       \/ /\ Move("Failure", {"not_safeWorkspace"}, FirstStep)
          /\ UNCHANGED kept
    /\ UNCHANGED <<template, cycle, gates, work, target, gateF, clock>>

-----------------------------------------------------------------------------
(* Gate B, build, review and correction                                    *)

\* The planner's handoff, or another revision of it; the request of an earlier one stays open.
ReviseHandoff ==
    /\ run.state = "Running" /\ run.step = "plan"
    /\ Revise("handoff")
    /\ UNCHANGED <<template, run, cycle, request, answer, decision, passed, work, target, gateF, kept, clock>>

AskHandoff ==
    /\ run.state = "Running" /\ run.step = "plan"
    /\ doc["handoff"] > 0
    /\ Ask("handoff", doc["handoff"])
    /\ UNCHANGED <<template, run, cycle, doc, passed, work, target, gateF, kept, clock>>

ApproveHandoff ==
    /\ run.state = "Running" /\ run.step = "plan"
    /\ Pass("handoff")
    /\ run' = [run EXCEPT !.step = NextStep("plan")]
    /\ UNCHANGED <<template, cycle, doc, request, answer, decision, work, target, gateF, kept, clock>>

\* A build that needs a handoff starts only from an approved one, and no agent starts where there is
\* no worktree; it may leave its work uncommitted.
Build ==
    /\ run.state = "Running" /\ run.step \in {"execute", "build"}
    /\ "worktree" \in kept
    /\ work.built < MaxBuilds
    /\ HandoffRequired(run.step) => passed["handoff"] # NoPass
    /\ \E commits \in CommitChoices :
        work' = [work EXCEPT !.built = @ + 1, !.head = IF commits THEN work.built + 1 ELSE @]
    /\ run' = [run EXCEPT !.step = NextStep(run.step)]
    /\ UNCHANGED <<template, cycle, gates, target, gateF, kept, clock>>

\* A review that asks for approval at once: its artifact is the document of the Critical gate.
CriticalReview(findings) ==
    /\ run.step = "review"
    /\ Evaluate(cycle.counter, ReviewArtifact(findings), FALSE).action = "Critical_Approval"
    /\ Move("Critical_finding", {"criticalFinding"}, "build")
    /\ Revise("critical")
    /\ Ask("critical", doc'["critical"])
    /\ UNCHANGED <<template, cycle, passed, work, target, gateF, kept, clock>>

\* A review the cycle answers by itself: go on, correct once more, or stop for the user.  The run
\* table has a transition for a correction only while there were fewer than two; one by exception
\* goes on in Running without it.
Correct(findings, exceptionApproved) ==
    /\ run.state = "Running" /\ run.step = "review"
    /\ LET review == ReviewArtifact(findings)
           v == Evaluate(cycle.counter, review, exceptionApproved)
           facts == IF cycle.counter >= 2 THEN {"two_corrections"} ELSE {} IN
        /\ cycle' = [counter |-> v.next,
                     exceptions |-> cycle.exceptions + (IF exceptionApproved THEN 1 ELSE 0)]
        /\ \/ /\ v.action = "Continue" /\ ~review.blocking
              /\ run' = [run EXCEPT !.step = NextStep("review")]
           \/ /\ v.action = "Continue" /\ review.blocking
              /\ \/ Move("Review_failed_correction", facts, "build")
                 \/ v.exceptionUsed /\ run' = [run EXCEPT !.step = "build"]
           \/ /\ v.action = "Needs_Attention"
              /\ Move("Review_failed_exhausted", facts, "build")
    /\ UNCHANGED <<template, gates, work, target, gateF, kept, clock>>

ApproveCritical ==
    /\ run.state = "Awaiting_Approval"
    /\ Pass("critical")
    /\ Move("Approve", {"approvalValid"}, "build")
    /\ UNCHANGED <<template, cycle, doc, request, answer, decision, work, target, gateF, kept, clock>>

RejectCritical ==
    /\ decision.gate = "critical" /\ decision.revision = doc["critical"]
    /\ decision.state = "Rejected"
    /\ Move("Reject_essential", {"actionEssential"}, "build")
    /\ UNCHANGED <<template, cycle, gates, work, target, gateF, kept, clock>>

\* The user takes up a run that needs attention; warnings of preflight want an override.  Preflight
\* looks at the repository and not at the worktree, which a clean-up may have removed.
Rework(machine, override) ==
    /\ run.state = "Needs_Attention"
    /\ CanStart(PreflightStatus(machine), override)
    /\ \/ Move("Retry", {"approvalValid", "preflightValid"}, FirstStep)
       \/ Move("Replace_Agent", {"replacementAdapterQualified"}, FirstStep)
    /\ UNCHANGED <<template, cycle, gates, work, target, gateF, kept, clock>>

-----------------------------------------------------------------------------
(* Gate E                                                                  *)

\* createWorkspaceAcceptanceSnapshot: the diff of the head against the base commit, and that of the
\* working tree against the head.  Builds follow each other: their number stands for both diffs.
CommittedDiff == 1..work.head
WorkingTreeDiff == (work.head + 1)..work.built
Snapshot == Cardinality(CommittedDiff \cup WorkingTreeDiff)

\* The snapshot is of the worktree: committed and uncommitted work alike.
Deliver ==
    /\ run.step = "deliver"
    /\ Move("Pipeline_success", {"pipelineSuccessCriteriaMet"}, "deliver")
    /\ Revise("acceptance")
    /\ work' = [work EXCEPT !.snapshot = Snapshot]
    /\ Ask("acceptance", doc'["acceptance"])
    /\ UNCHANGED <<template, cycle, passed, target, gateF, kept, clock>>

\* Tests, risks or diff change before the user has answered.
RefreshSnapshot ==
    /\ run.state = "Awaiting_Acceptance"
    /\ Revise("acceptance")
    /\ work' = [work EXCEPT !.snapshot = Snapshot]
    /\ request' = Invalidated(request, doc'["acceptance"])
    /\ UNCHANGED <<template, run, cycle, answer, decision, passed, target, gateF, kept, clock>>

AskAcceptance ==
    /\ run.state = "Awaiting_Acceptance"
    /\ Ask("acceptance", doc["acceptance"])
    /\ UNCHANGED <<template, run, cycle, doc, passed, work, target, gateF, kept, clock>>

\* createManualMergeGate: nothing is merged by the program; what was read before is forgotten.
PendingManualMerge == [NoMerge EXCEPT !.status = "Pending"]

\* decideAcceptanceGate names the state the run goes to, so decision and move are one step.
DecideAcceptance ==
    /\ answer.gate = "acceptance" /\ request.gate = "acceptance"
    /\ Usable(request, answer)
    /\ decision' = Decision(request, answer)
    /\ \/ /\ answer.verdict = "approve"
          /\ Move("Accept", {"diffPresented", "testsPresented", "reviewPresented"}, "deliver")
          /\ Mark("acceptance", decision')
          /\ work' = [work EXCEPT !.accepted = work.snapshot]
          /\ gateF' = PendingManualMerge
       \/ /\ answer.verdict = "reject"
          /\ Move("Request_changes", {"reasonSaved"}, FirstStep)
          /\ UNCHANGED <<passed, work, gateF>>
    /\ UNCHANGED <<template, cycle, doc, request, answer, target, kept, clock>>

-----------------------------------------------------------------------------
(* Gate F, outside and inside the program                                  *)

\* The user merges the run branch, or pushes something else, to the target branch.
Push(merge) ==
    /\ run.state = "Accepted"
    /\ target.pushes < MaxPushes
    /\ target' = [pushes |-> target.pushes + 1, holds |-> IF merge THEN work.head ELSE target.holds]
    /\ UNCHANGED <<template, run, cycle, gates, work, gateF, kept, clock>>

\* The run branch grows after acceptance: somebody commits in the worktree that is still there.
CommitLate ==
    /\ run.state = "Accepted"
    /\ "worktree" \in kept
    /\ work.built < MaxBuilds
    /\ work' = [work EXCEPT !.built = @ + 1, !.head = work.built + 1]
    /\ UNCHANGED <<template, run, cycle, gates, target, gateF, kept, clock>>

\* verifyManualMerge runs git several times, and the user may push between two of them.
VerifyHead ==
    /\ run.state = "Accepted"
    /\ gateF.status # "none"
    /\ gateF' = [NoMerge EXCEPT !.status = "read", !.commit = target.pushes]
    /\ UNCHANGED <<template, run, cycle, gates, work, target, kept, clock>>

\* git diff target...run starts at their merge base: it is the accepted patch as long as the run
\* branch has not grown and nothing of it was merged.
PatchEquivalent == work.head = work.accepted /\ target.holds = 0

VerifyMerge(patchGiven) ==
    /\ run.state = "Accepted"
    /\ gateF.status = "read"
    /\ LET contained == work.head <= target.holds
           patch == patchGiven /\ PatchEquivalent IN
        /\ contained \/ patch
        /\ gateF' = [gateF EXCEPT !.status = "Verified", !.contained = contained, !.patch = patch,
                                  !.at = clock]
    /\ UNCHANGED <<template, run, cycle, gates, work, target, kept, clock>>

\* A bug: what Gate F has read of the failed merge stays.
FailMergeKept ==
    /\ run.state = "Accepted"
    /\ gateF.status = "read"
    /\ Move("Merge_verification_failed", {"mergeFailed"}, FirstStep)
    /\ UNCHANGED <<template, cycle, gates, work, target, gateF, kept, clock>>

\* Drift, conflict, failed tests or containment: every reason leads to the same state.
FailMerge ==
    /\ run.state = "Accepted"
    /\ gateF.status = "read"
    /\ gateF' = NoMerge
    /\ Move("Merge_verification_failed", {"mergeFailed"}, FirstStep)
    /\ UNCHANGED <<template, cycle, gates, work, target, kept, clock>>

GateFVerified == gateF.status = "Verified"

\* The run was completed when its merge was verified: retention starts then.
Complete ==
    /\ GateFVerified
    /\ LET found == IF gateF.contained \/ gateF.patch THEN {"targetContainsChange"} ELSE {}
           facts == found \cup {"noConflict", "acceptedAt", "mergeVerifiedAt", "targetCommit"} IN
        \E t \in ApplyRun(run.state, "Verify_merge_success", facts) :
            run' = [run EXCEPT !.state = t.to, !.since = gateF.at]
    /\ Close
    /\ UNCHANGED <<template, cycle, doc, passed, work, target, gateF, kept, clock>>

-----------------------------------------------------------------------------
(* Stops, time and retention                                               *)

Stop ==
    /\ \/ Move("Controlled_Stop", {}, run.step)
       \/ Move("Stop", {"userConfirmed"}, run.step)
    /\ Close
    /\ UNCHANGED <<template, cycle, doc, passed, work, target, gateF, kept, clock>>

Tick ==
    /\ clock < MaxTime
    /\ clock' = clock + 1
    /\ UNCHANGED <<template, run, cycle, gates, work, target, gateF, kept>>

OpenRunStatesForCleanup ==
    {"Draft", "Preflight_Running", "Blocked", "Ready", "Awaiting_Pipeline_Approval",
     "Preparing_Workspace", "Running", "Awaiting_Approval", "Unresponsive", "Recovery_Required",
     "Awaiting_Acceptance", "Maintenance_Hold"}

RetentionDays == IF run.state = "Completed" THEN CompletedDays ELSE TerminalDays

\* completedAt of a completed run, terminalAt of one that ended otherwise.
RetentionStart == run.since

\* A clean-up plan has no actions for a run that is open, Accepted or inside its window.
Eligible ==
    /\ run.state \notin OpenRunStatesForCleanup \cup {"Accepted"}
    /\ run.state \in Settled
    /\ clock - RetentionStart >= RetentionDays
    /\ run.state = "Completed" => GateFVerified

\* A bug: the branch goes with the worktree, merged or not.
RemovableAlways == {"worktree", "branch"}

Removable ==
    {"worktree"} \cup (IF run.state = "Completed" THEN {"branch"} ELSE {})

\* One clean-up: the worktree first; git may refuse, which ends it before the next removal.
CleanUp ==
    /\ Eligible
    /\ kept \cap Removable # {}
    /\ \E gone \in {{"worktree"}, Removable} : kept' = kept \ gone
    /\ UNCHANGED <<template, run, cycle, gates, work, target, gateF, clock>>

Next ==
    \/ \E verdict \in {"approve", "reject"} : Reply(verdict)
    \/ Decide
    \/ SelectContext \/ AskContext \/ SnapshotContext
    \/ PresentPipeline \/ EditPipeline \/ StartPreflight \/ ApprovePipeline \/ PrepareWorkspace
    \/ ReviseHandoff \/ AskHandoff \/ ApproveHandoff
    \/ Build
    \/ \E findings \in ReviewInputs :
        \/ CriticalReview(findings)
        \/ \E exceptionApproved \in BOOLEAN : Correct(findings, exceptionApproved)
    \/ ApproveCritical \/ RejectCritical
    \/ \E machine \in Machines :
        \/ Preflight(machine)
        \/ \E override \in BOOLEAN : Rework(machine, override)
    \/ Deliver \/ RefreshSnapshot \/ AskAcceptance \/ DecideAcceptance
    \/ \E merge \in BOOLEAN : Push(merge)
    \/ CommitLate \/ VerifyHead
    \/ \E patchGiven \in PatchChoices : VerifyMerge(patchGiven)
    \/ FailMerge \/ Complete
    \/ Stop \/ Tick \/ CleanUp

Spec == Init /\ [][Next]_vars

-----------------------------------------------------------------------------
(* Properties                                                              *)

\* Nothing goes on under an approval the user did not give: the document every gate passed is the
\* revision the user had on the screen when approving, and the approval came before the request ran
\* out, however late or often the answer arrived and whatever was revised in between.
ApprovedInTime ==
    \A g \in Gates :
        passed[g] # NoPass =>
            /\ passed[g].by.state = "Approved"
            /\ passed[g].by.revision = passed[g].revision
            /\ ~passed[g].by.late

\* However often a run needs attention, is taken up again and reviewed, at most two corrections
\* are automatic; for every further one the user approved an exception.
CorrectionsCounted == cycle.counter <= CorrectionLimit + cycle.exceptions

\* What the user accepted can always be had again: from the target branch, from the run branch, or
\* from the worktree, whatever is pushed, committed or cleaned up after the acceptance.
AcceptedWorkSurvives ==
    \/ work.accepted <= target.holds
    \/ "branch" \in kept /\ work.accepted <= work.head
    \/ "worktree" \in kept

\* A run is completed only after its accepted work was merged into the target branch.
CompletedIsMerged == run.state = "Completed" => work.accepted <= target.holds

\* The gates a run is through: its pipeline was approved, what Gate F waits for or found is the
\* merge of an accepted snapshot, and a completed run was merged.
GatesPassed ==
    {g \in {"pipeline", "accepted", "merged"} :
        \/ g = "pipeline" /\ passed["pipeline"] # NoPass
        \/ g = "accepted" /\ gateF.status # "none"
        \/ g = "merged" /\ run.state = "Completed"}

Lifecycle == INSTANCE RunLifecycle WITH state <- run.state, gates <- GatesPassed

\* Through all gates, reviews, corrections and verifications a run only takes legal steps of its
\* life cycle, and the gates keep what the life cycle asks: work that is taken up again holds no
\* acceptance, so that a merge is never verified for a snapshot the user took back.
RunSteps == [][Lifecycle!Next]_<<run.state, GatesPassed>>
=============================================================================
