----------------------------- MODULE StateMachine -----------------------------
(***************************************************************************)
(* The transition table of runs.  A guard reads a context its caller built *)
(* from facts of other components; here a context is the set of facts that *)
(* hold in it.  A guard "x === true" needs x, "x !== true" bars x, and     *)
(* "x === false" needs the fact "not x": an absent value is neither.       *)
(* Names are the source's with "_" for a blank.                            *)
(***************************************************************************)

T(from, event, to, needs, bars) ==
    [from |-> from, event |-> event, to |-> to, needs |-> needs, bars |-> bars]

RunStates ==
    {"Draft", "Preflight_Running", "Blocked", "Ready", "Awaiting_Pipeline_Approval",
     "Preparing_Workspace", "Running", "Awaiting_Approval", "Unresponsive", "Recovery_Required",
     "Awaiting_Acceptance", "Accepted", "Needs_Attention", "Failed", "Cancelled", "Completed",
     "Maintenance_Hold"}

FinalRunStates == {"Failed", "Cancelled", "Completed"}

OpenRunStates == RunStates \ FinalRunStates

ActiveRunStates ==
    {"Preflight_Running", "Preparing_Workspace", "Running", "Awaiting_Approval", "Unresponsive",
     "Recovery_Required", "Needs_Attention", "Maintenance_Hold"}

Preparation == {
    T("Draft", "Start_Preflight", "Preflight_Running",
        {"requiredFieldsComplete", "projectPathExists"}, {}),
    T("Preflight_Running", "Critical_check_failed", "Blocked", {"blockedChecks"}, {}),
    T("Preflight_Running", "Checks_passed", "Ready", {"preflightReady"}, {}),
    T("Ready", "Present_pipeline", "Awaiting_Pipeline_Approval",
        {"recommendationComplete", "contextComplete", "manifestComplete"}, {}),
    T("Awaiting_Pipeline_Approval", "Approve", "Preparing_Workspace",
        {"approvalMatchesRevision", "warningsApproved"}, {}),
    T("Awaiting_Pipeline_Approval", "Edit", "Draft", {}, {}),
    T("Preparing_Workspace", "Worktree_ready", "Running",
        {"gitReady", "aclReady", "lockAcquired", "baseCommitValid"}, {}),
    T("Preparing_Workspace", "Failure", "Needs_Attention", {"not_safeWorkspace"}, {}) }

Execution == {
    T("Running", "Sensitive_action_requested", "Awaiting_Approval", {}, {"validGrant"}),
    T("Awaiting_Approval", "Approve", "Running", {"approvalValid"}, {"not_preflightValid"}),
    T("Awaiting_Approval", "Reject_essential", "Needs_Attention", {"actionEssential"}, {}),
    T("Awaiting_Approval", "Reject_optional", "Running", {"not_actionEssential"}, {}),
    T("Running", "Heartbeat_missing_120s", "Unresponsive", {"activeAttempt"}, {}),
    T("Unresponsive", "Reconnected_before_300s", "Running", {"sessionVerified"}, {}),
    T("Unresponsive", "No_recovery_at_300s", "Needs_Attention", {"automaticRetryUsed"}, {}),
    T("Unresponsive", "Crash/restart", "Recovery_Required", {"attemptUncertain"}, {}),
    T("Running", "Pipeline_success", "Awaiting_Acceptance", {"pipelineSuccessCriteriaMet"}, {}),
    T("Running", "Unrecoverable_failure", "Failed", {"not_retryAllowed"}, {}),
    T("Running", "Review_failed_correction", "Running", {}, {"two_corrections", "criticalFinding"}),
    T("Running", "Review_failed_exhausted", "Needs_Attention", {"two_corrections"}, {}),
    T("Running", "Critical_finding", "Awaiting_Approval", {"criticalFinding"}, {}) }

Repair == {
    T("Recovery_Required", "Resume_approved", "Running",
        {"checkpointValid", "externalEffectsVerified"}, {}),
    T("Recovery_Required", "Replace_approved", "Running",
        {"replacementAdapterPreflightPassed"}, {}),
    T("Recovery_Required", "Stop", "Cancelled", {"checkpointSaved"}, {}),
    T("Needs_Attention", "Retry", "Running", {"approvalValid", "preflightValid"}, {}),
    T("Needs_Attention", "Replace_Agent", "Running", {"replacementAdapterQualified"}, {}),
    T("Needs_Attention", "Stop", "Cancelled", {"userConfirmed"}, {}) }

Delivery == {
    T("Awaiting_Acceptance", "Accept", "Accepted",
        {"diffPresented", "testsPresented", "reviewPresented"}, {}),
    T("Awaiting_Acceptance", "Request_changes", "Needs_Attention", {"reasonSaved"}, {}),
    T("Accepted", "Verify_merge_success", "Completed",
        {"targetContainsChange", "noConflict", "acceptedAt", "mergeVerifiedAt", "targetCommit"}, {}),
    T("Accepted", "Merge_verification_failed", "Needs_Attention", {"mergeFailed"}, {}) }

\* applyRunTransition answers these two events before it looks at the table.
Stops ==
    {T(s, "Controlled_Stop", "Cancelled", {}, {"transactionOpen"}) : s \in OpenRunStates}
    \cup {T(s, "Service_shutdown", "Recovery_Required", {"checkpointSaved", "childProcessesClosed"}, {})
            : s \in ActiveRunStates}

RunTransitions == Preparation \cup Execution \cup Repair \cup Delivery \cup Stops

RunEvents == {t.event : t \in RunTransitions}

Permits(t, context) == t.needs \subseteq context /\ t.bars \cap context = {}

\* The transitions an event may take from a state; none means StateTransitionError.
ApplyRun(state, event, context) ==
    {t \in RunTransitions : t.from = state /\ t.event = event /\ Permits(t, context)}

StepStates ==
    {"Pending", "Ready", "Running", "Awaiting_Approval", "Unresponsive", "Retrying", "Succeeded",
     "Failed", "Cancelled", "Skipped"}

StepTransitions == {
    T("Pending", "Prepare", "Ready", {"dependenciesReady"}, {}),
    T("Ready", "Start", "Running", {"assignedAdapterReady"}, {}),
    T("Running", "Sensitive_action_requested", "Awaiting_Approval", {}, {"validGrant"}),
    T("Awaiting_Approval", "Approve", "Running", {"approvalValid"}, {}),
    T("Awaiting_Approval", "Reject_essential", "Failed", {"actionEssential"}, {}),
    T("Awaiting_Approval", "Reject_optional", "Running", {"not_actionEssential"}, {}),
    T("Running", "Heartbeat_missing_120s", "Unresponsive", {"activeAttempt"}, {}),
    T("Unresponsive", "Retry", "Retrying", {"retryAllowed"}, {}),
    T("Retrying", "Restarted", "Running", {"activeAttempt"}, {}),
    T("Unresponsive", "Fail", "Failed", {"not_retryAllowed"}, {}),
    T("Running", "Succeeded", "Succeeded", {"exitOk", "acceptanceChecksPassed"}, {}),
    T("Running", "Failed", "Failed", {"unrecoverable"}, {}),
    T("Running", "Cancel", "Cancelled", {"checkpointSaved"}, {}),
    T("Ready", "Skip", "Skipped", {"skipApproved"}, {}) }

ApplyStep(state, event, context) ==
    {t \in StepTransitions : t.from = state /\ t.event = event /\ Permits(t, context)}
=============================================================================
