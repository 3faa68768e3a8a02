---------------------------- MODULE DeliveryProofs ----------------------------
(* Theorems about Delivery, for all templates, machines, reviews, retention  *)
(* times and bounds.                                                         *)
EXTENDS Delivery, FiniteSetTheorems, TLAPS

-----------------------------------------------------------------------------
(* The table, the templates and the cycle                                  *)

\* What the proofs use of the transition table.
LEMMA TableFacts ==
    ASSUME NEW t \in RunTransitions
    PROVE  /\ t.from \in RunStates /\ t.to \in RunStates
           /\ t.to = "Completed" => t.event = "Verify_merge_success"
           /\ t.from # "Completed"
           /\ t.event = "Accept" => t.from = "Awaiting_Acceptance"
           /\ t.to = "Awaiting_Acceptance" => t.event = "Pipeline_success"
           /\ t.to = "Awaiting_Pipeline_Approval" => t.event = "Present_pipeline"
<1>1. CASE t \in Preparation
    BY <1>1 DEF Preparation, T, RunStates
<1>2. CASE t \in Execution
    BY <1>2 DEF Execution, T, RunStates
<1>3. CASE t \in Repair
    BY <1>3 DEF Repair, T, RunStates
<1>4. CASE t \in Delivery
    BY <1>4 DEF Delivery, T, RunStates
<1>5. CASE t \in Stops
    BY <1>5 DEF Stops, T, RunStates, OpenRunStates, FinalRunStates, ActiveRunStates
<1>6. QED
    BY <1>1, <1>2, <1>3, <1>4, <1>5 DEF RunTransitions

LEMMA EditFrom ==
    ASSUME NEW t \in RunTransitions, t.event = "Edit" PROVE t.from = "Awaiting_Pipeline_Approval"
<1>1. CASE t \in Preparation
    BY <1>1 DEF Preparation, T
<1>2. CASE t \notin Preparation
    BY <1>2 DEF RunTransitions, Execution, Repair, Delivery, Stops, T
<1>3. QED
    BY <1>1, <1>2

\* A move is a transition of the table from where the run is.
LEMMA MoveIs ==
    ASSUME NEW event, NEW context, NEW step \in Steps, clock \in Nat, Move(event, context, step)
    PROVE  \E t \in RunTransitions :
            /\ t.from = run.state /\ t.event = event
            /\ run'.state = t.to /\ run'.step = step
            /\ run' \in [state : RunStates, step : Steps, since : Nat]
<1>1. PICK t \in RunTransitions : /\ t.from = run.state /\ t.event = event
                                  /\ run' = [state |-> t.to, step |-> step,
                                             since |-> IF t.to \in Settled THEN clock ELSE 0]
    BY DEF Move, ApplyRun
<1>2. t.to \in RunStates
    BY TableFacts
<1>3. QED
    BY <1>1, <1>2

LEMMA TemplateFacts ==
    ASSUME NEW id \in PIPELINE_TEMPLATE_IDS
    PROVE  /\ First(id) \in Steps
           /\ \A s : Following(id, s) \subseteq Steps
<1> USE DEF Step, Edge, Policies, Steps
<1>1. CASE id = "direct"
    <2>1. PIPELINE_TEMPLATES[id].steps = [execute |-> Step("executor", {}, FALSE)]
          /\ PIPELINE_TEMPLATES[id].edges = {}
        BY <1>1 DEF PIPELINE_TEMPLATES
    <2>2. QED
        BY <2>1 DEF First, Following
<1>2. CASE id = "plan_build"
    <2>1. PIPELINE_TEMPLATES[id].steps
            = [plan |-> Step("planner", {}, FALSE), build |-> Step("builder", {"plan"}, TRUE)]
          /\ PIPELINE_TEMPLATES[id].edges = {Edge("plan", "build")}
        BY <1>2 DEF PIPELINE_TEMPLATES
    <2>2. QED
        BY <2>1 DEF First, Following
<1>3. CASE id = "plan_build_review"
    <2>1. PIPELINE_TEMPLATES[id].steps
            = [plan |-> Step("planner", {}, FALSE), build |-> Step("builder", {"plan"}, TRUE),
               review |-> Step("reviewer", {"build"}, TRUE)]
          /\ PIPELINE_TEMPLATES[id].edges = {Edge("plan", "build"), Edge("build", "review")}
        BY <1>3 DEF PIPELINE_TEMPLATES
    <2>2. QED
        BY <2>1 DEF First, Following
<1>4. QED
    BY <1>1, <1>2, <1>3 DEF PIPELINE_TEMPLATE_IDS

LEMMA NextSteps ==
    ASSUME template \in Templates
    PROVE  FirstStep \in Steps /\ \A s : NextStep(s) \in Steps
<1>1. template \in PIPELINE_TEMPLATE_IDS
    BY DeliveryAssumption
<1>2. "deliver" \in Steps
    BY DEF Steps
<1>3. ASSUME NEW s PROVE NextStep(s) \in Steps
    <2>1. CASE Following(template, s) = {}
        BY <2>1, <1>2 DEF NextStep
    <2>2. CASE Following(template, s) # {}
        BY <2>2, <1>1, TemplateFacts DEF NextStep
    <2>3. QED
        BY <2>1, <2>2
<1>4. QED
    BY <1>1, <1>3, TemplateFacts DEF FirstStep

\* The cycle counts by one, and past the limit only with an exception.
LEMMA CycleCounts ==
    ASSUME NEW n \in Nat, NEW findings, NEW exceptionApproved \in BOOLEAN
    PROVE  LET v == Evaluate(n, ReviewArtifact(findings), exceptionApproved) IN
           v.next = n \/ (v.next = n + 1 /\ (n < CorrectionLimit \/ exceptionApproved))
<1> DEFINE review == ReviewArtifact(findings)
<1>1. review.blocking \in BOOLEAN /\ review.criticalSensitive \in BOOLEAN
    BY DEF ReviewArtifact, Blocking, CriticalSensitive
<1>2. CASE review.criticalSensitive
    BY <1>2 DEF Evaluate, Verdict
<1>3. CASE ~review.criticalSensitive /\ ~review.blocking
    BY <1>3 DEF Evaluate, Verdict
<1>4. CASE ~review.criticalSensitive /\ review.blocking /\ n < CorrectionLimit
    BY <1>4 DEF Evaluate, Verdict
<1>5. CASE ~review.criticalSensitive /\ review.blocking /\ ~(n < CorrectionLimit)
    BY <1>5 DEF Evaluate, Verdict
<1>6. QED
    BY <1>1, <1>2, <1>3, <1>4, <1>5

-----------------------------------------------------------------------------
(* Types                                                                   *)

RunType == template \in Templates /\ run \in [state : RunStates, step : Steps, since : Nat]
CycleType == cycle \in [counter : Nat, exceptions : Nat]
RequestType ==
    /\ request \in Requests \cup {NoRequest}
    /\ answer \in Answers \cup {NoAnswer}
    /\ decision \in Decisions \cup {NoDecision}
PassedType == passed \in [Gates -> Passes \cup {NoPass}]
WorkType == work \in [built : Nat, head : Nat, snapshot : Nat, accepted : Nat]
TargetType == target \in [pushes : Nat, holds : Nat]
Merges == [status : {"none", "Pending", "read", "Verified"}, commit : Nat,
           contained : BOOLEAN, patch : BOOLEAN, at : Nat]
GateFType == gateF \in Merges

LEMMA TypeParts ==
    LET Parts == /\ RunType /\ CycleType /\ doc \in [Gates -> Nat] /\ RequestType /\ PassedType
                 /\ WorkType /\ TargetType /\ GateFType
                 /\ kept \subseteq {"worktree", "branch"} /\ clock \in Nat
    IN  (TypeOK <=> Parts) /\ (TypeOK' <=> Parts')
BY DEF TypeOK, RunType, CycleType, RequestType, PassedType, WorkType, TargetType, GateFType, Merges

\* A run that waits for an answer has asked.
Asked == request = NoRequest => run.state \notin {"Awaiting_Pipeline_Approval", "Awaiting_Acceptance"}

\* What Gate F may hold.
LEMMA MergeTypes ==
    /\ NoMerge \in Merges
    /\ \A status \in {"Pending", "read"}, commit \in Nat :
        [NoMerge EXCEPT !.status = status, !.commit = commit] \in Merges
    /\ [NoMerge EXCEPT !.status = "Pending"] \in Merges
    /\ \A g \in Merges, c \in BOOLEAN, p \in BOOLEAN, n \in Nat :
        [g EXCEPT !.status = "Verified", !.contained = c, !.patch = p, !.at = n] \in Merges
<1>1. NoMerge \in Merges
    BY DEF NoMerge, Merges
<1>2. \A g \in Merges, status \in {"Pending", "read"} : [g EXCEPT !.status = status] \in Merges
    BY DEF Merges
<1>3. \A g \in Merges, commit \in Nat : [g EXCEPT !.commit = commit] \in Merges
    BY DEF Merges
<1>4. ASSUME NEW status \in {"Pending", "read"}, NEW commit \in Nat
      PROVE  [NoMerge EXCEPT !.status = status, !.commit = commit] \in Merges
    <2>1. [NoMerge EXCEPT !.status = status, !.commit = commit]
            = [[NoMerge EXCEPT !.status = status] EXCEPT !.commit = commit]
        OBVIOUS
    <2>2. QED
        BY <1>1, <1>2, <1>3, <2>1
<1>5. ASSUME NEW g \in Merges, NEW c \in BOOLEAN, NEW p \in BOOLEAN, NEW n \in Nat
      PROVE  [g EXCEPT !.status = "Verified", !.contained = c, !.patch = p, !.at = n] \in Merges
    BY DEF Merges
<1>6. QED
    BY <1>1, <1>2, <1>4, <1>5

LEMMA InitTypes == Init => TypeOK /\ Asked
<1> SUFFICES ASSUME Init PROVE TypeOK /\ Asked
    OBVIOUS
<1>1. RunType
    <2>1. FirstStep \in Steps
        BY NextSteps DEF Init
    <2>2. QED
        BY <2>1 DEF Init, RunType, RunStates
<1>2. CycleType /\ doc \in [Gates -> Nat] /\ RequestType /\ PassedType /\ WorkType /\ TargetType
    BY DEF Init, CycleType, RequestType, PassedType, WorkType, TargetType
<1>3. GateFType /\ kept \subseteq {"worktree", "branch"} /\ clock \in Nat
    BY MergeTypes DEF Init, GateFType
<1>4. Asked
    BY DEF Init, Asked
<1>5. QED
    BY <1>1, <1>2, <1>3, <1>4, TypeParts

\* What the functions of an approval return.
LEMMA ApprovalTypes ==
    /\ \A g \in Gates, revision \in Nat, now \in Nat : Request(g, revision, now) \in Requests
    /\ \A r \in Requests, a \in Answers : Decision(r, a) \in Decisions
    /\ \A r \in Requests, revision \in Nat : Invalidated(r, revision) \in Requests
    /\ NoRequest \notin Requests /\ NoAnswer \notin Answers /\ NoDecision \notin Decisions
<1>1. ASSUME NEW g \in Gates, NEW revision \in Nat, NEW now \in Nat
      PROVE  Request(g, revision, now) \in Requests
    BY TtlAssumption DEF Request, Requests
<1>2. ASSUME NEW r \in Requests, NEW a \in Answers PROVE Decision(r, a) \in Decisions
    BY DEF Decision, Decisions, Requests, Answers
<1>3. ASSUME NEW r \in Requests, NEW revision \in Nat PROVE Invalidated(r, revision) \in Requests
    BY DEF Invalidated, Requests
<1>4. NoRequest \notin Requests /\ NoAnswer \notin Answers /\ NoDecision \notin Decisions
    <2>1. NoRequest.gate \notin Gates /\ NoAnswer.gate \notin Gates /\ NoDecision.gate \notin Gates
        BY DEF NoRequest, NoAnswer, Answer, NoDecision, Gates
    <2>2. \A r \in Requests : r.gate \in Gates
        BY DEF Requests
    <2>3. \A a \in Answers : a.gate \in Gates
        BY DEF Answers
    <2>4. \A d \in Decisions : d.gate \in Gates
        BY DEF Decisions
    <2>5. QED
        BY <2>1, <2>2, <2>3, <2>4
<1>5. QED
    BY <1>1, <1>2, <1>3, <1>4

LEMMA AskTypes ==
    ASSUME RequestType, clock \in Nat, NEW g \in Gates, NEW revision \in Nat, Ask(g, revision)
    PROVE  RequestType' /\ request' # NoRequest
<1>1. request' \in Requests
    BY ApprovalTypes DEF Ask
<1>2. QED
    BY <1>1, ApprovalTypes DEF Ask, RequestType

LEMMA CloseTypes == Close => RequestType'
BY DEF Close, RequestType

LEMMA ReviseTypes ==
    ASSUME doc \in [Gates -> Nat], NEW g \in Gates, Revise(g)
    PROVE  doc' \in [Gates -> Nat] /\ doc'[g] \in Nat /\ doc'[g] = doc[g] + 1
BY DEF Revise

LEMMA PassTypes ==
    ASSUME TypeOK, NEW g \in Gates, Pass(g)
    PROVE  PassedType' /\ passed' = [passed EXCEPT ![g] = [revision |-> doc[g], by |-> decision]]
<1>1. decision \in Decisions
    <2>1. decision.gate = g /\ g # "none"
        BY DEF Pass, Binds, Gates
    <2>2. QED
        BY <2>1, TypeParts DEF RequestType, NoDecision
<1>2. [revision |-> doc[g], by |-> decision] \in Passes
    BY <1>1, TypeParts DEF Passes
<1>3. QED
    BY <1>2, TypeParts DEF Pass, Mark, PassedType

\* The actions that leave the run where it is and only ask, answer or decide.
LEMMA AnswerTypes ==
    ASSUME TypeOK, Asked,
           \/ \E verdict \in {"approve", "reject"} : Reply(verdict)
           \/ Decide
           \/ SelectContext \/ AskContext \/ SnapshotContext
           \/ ReviseHandoff \/ AskHandoff \/ AskAcceptance
    PROVE  TypeOK' /\ Asked'
<1> USE TypeParts DEF RunType, CycleType, WorkType, TargetType, GateFType
<1>0. doc \in [Gates -> Nat] /\ clock \in Nat /\ RequestType /\ PassedType
    OBVIOUS
<1>g. {"context", "pipeline", "handoff", "critical", "acceptance"} \subseteq Gates
    BY DEF Gates
<1>1. ASSUME NEW verdict \in {"approve", "reject"}, Reply(verdict) PROVE TypeOK' /\ Asked'
    <2>1. request \in Requests
        BY <1>0, <1>1 DEF Reply, RequestType
    <2>2. answer' \in Answers
        BY <1>0, <1>1, <2>1 DEF Reply, Answer, Answers, Requests
    <2>3. RequestType' /\ PassedType'
        BY <1>0, <1>1, <2>2 DEF Reply, RequestType, PassedType
    <2>4. QED
        BY <1>1, <2>3 DEF Reply, Asked
<1>2. CASE Decide
    <2>1. request \in Requests /\ answer \in Answers
        BY <1>0, <1>2 DEF Decide, Usable, RequestType, NoRequest, NoAnswer, Answer, Requests, Gates
    <2>2. decision' \in Decisions
        BY <1>2, <2>1, ApprovalTypes DEF Decide
    <2>3. RequestType' /\ PassedType'
        BY <1>0, <1>2, <2>2 DEF Decide, RequestType, PassedType
    <2>4. QED
        BY <1>2, <2>3 DEF Decide, Asked
<1>3. CASE SelectContext
    <2>1. doc' \in [Gates -> Nat] /\ doc'["context"] \in Nat
        BY <1>0, <1>3, <1>g, ReviseTypes DEF SelectContext
    <2>2. request.gate = "context" => request \in Requests
        BY <1>0 DEF RequestType, NoRequest
    <2>3. request' \in Requests \cup {NoRequest}
        BY <1>0, <1>3, <2>1, <2>2, ApprovalTypes DEF SelectContext, RequestType
    <2>4. RequestType' /\ PassedType'
        BY <1>0, <1>3, <2>3 DEF SelectContext, RequestType, PassedType
    <2>5. QED
        BY <1>3, <2>1, <2>4 DEF SelectContext, Asked
<1>4. CASE AskContext \/ AskHandoff \/ AskAcceptance
    <2>1. RequestType' /\ request' # NoRequest /\ doc' = doc /\ PassedType'
        BY <1>0, <1>4, <1>g, AskTypes DEF AskContext, AskHandoff, AskAcceptance, PassedType
    <2>2. QED
        BY <1>4, <2>1 DEF AskContext, AskHandoff, AskAcceptance, Asked
<1>5. CASE SnapshotContext
    <2>1. PassedType'
        BY <1>5, <1>g, PassTypes DEF SnapshotContext
    <2>2. RequestType'
        BY <1>0, <1>5 DEF SnapshotContext, RequestType
    <2>3. QED
        BY <1>5, <2>1, <2>2 DEF SnapshotContext, Asked
<1>6. CASE ReviseHandoff
    <2>1. doc' \in [Gates -> Nat]
        BY <1>0, <1>6, <1>g, ReviseTypes DEF ReviseHandoff
    <2>2. RequestType' /\ PassedType'
        BY <1>0, <1>6 DEF ReviseHandoff, RequestType, PassedType
    <2>3. QED
        BY <1>6, <2>1, <2>2 DEF ReviseHandoff, Asked
<1>7. QED
    BY <1>1, <1>2, <1>3, <1>4, <1>5, <1>6

\* The moves of the run that ask for nothing.
LEMMA PlainMoveTypes ==
    ASSUME TypeOK, Asked,
           \/ StartPreflight \/ ApprovePipeline \/ PrepareWorkspace
           \/ ApproveCritical \/ RejectCritical \/ FailMerge
           \/ \E machine \in Machines : Preflight(machine)
           \/ \E machine \in Machines : \E override \in BOOLEAN : Rework(machine, override)
    PROVE  TypeOK' /\ Asked'
<1> USE TypeParts DEF CycleType, WorkType, TargetType
<1>0. /\ RunType /\ RequestType /\ PassedType /\ GateFType /\ clock \in Nat /\ doc \in [Gates -> Nat]
      /\ kept \subseteq {"worktree", "branch"} /\ FirstStep \in Steps /\ "build" \in Steps
    BY NextSteps DEF RunType, Steps
<1>1. ASSUME NEW event \in {"Start_Preflight", "Approve", "Worktree_ready", "Failure", "Reject_essential",
                            "Merge_verification_failed", "Checks_passed", "Critical_check_failed",
                            "Retry", "Replace_Agent"},
             NEW context, NEW step \in Steps, Move(event, context, step), template' = template
      PROVE  RunType' /\ run'.state \notin {"Awaiting_Pipeline_Approval", "Awaiting_Acceptance"}
    BY <1>0, <1>1, MoveIs, TableFacts DEF RunType
<1>2. RunType' /\ run'.state \notin {"Awaiting_Pipeline_Approval", "Awaiting_Acceptance"}
    <2>1. CASE StartPreflight
        BY <1>0, <1>1, <2>1 DEF StartPreflight
    <2>2. CASE ApprovePipeline
        BY <1>0, <1>1, <2>2 DEF ApprovePipeline
    <2>3. CASE PrepareWorkspace
        BY <1>0, <1>1, <2>3 DEF PrepareWorkspace
    <2>4. CASE ApproveCritical \/ RejectCritical
        BY <1>0, <1>1, <2>4 DEF ApproveCritical, RejectCritical
    <2>5. CASE FailMerge
        BY <1>0, <1>1, <2>5 DEF FailMerge
    <2>6. ASSUME NEW machine \in Machines, Preflight(machine)
          PROVE  RunType' /\ run'.state \notin {"Awaiting_Pipeline_Approval", "Awaiting_Acceptance"}
        BY <1>0, <1>1, <2>6 DEF Preflight
    <2>7. ASSUME NEW machine \in Machines, NEW override \in BOOLEAN, Rework(machine, override)
          PROVE  RunType' /\ run'.state \notin {"Awaiting_Pipeline_Approval", "Awaiting_Acceptance"}
        BY <1>0, <1>1, <2>7 DEF Rework
    <2>8. QED
        BY <2>1, <2>2, <2>3, <2>4, <2>5, <2>6, <2>7
<1>3. PassedType'
    <2>1. CASE ApprovePipeline \/ ApproveCritical
        BY <2>1, PassTypes DEF ApprovePipeline, ApproveCritical, Gates
    <2>2. CASE passed' = passed
        BY <1>0, <2>2 DEF PassedType
    <2>3. QED
        BY <2>1, <2>2 DEF StartPreflight, PrepareWorkspace, RejectCritical, FailMerge, Preflight, Rework, gates
<1>4. UNCHANGED <<cycle, doc, request, answer, decision, work, target, clock>>
    BY DEF StartPreflight, ApprovePipeline, PrepareWorkspace, ApproveCritical, RejectCritical, FailMerge,
           Preflight, Rework, gates
<1>5. GateFType' /\ kept' \subseteq {"worktree", "branch"}
    <2>1. CASE FailMerge
        BY <1>0, <2>1, MergeTypes DEF FailMerge, GateFType
    <2>2. CASE PrepareWorkspace
        BY <1>0, <2>2 DEF PrepareWorkspace, GateFType
    <2>3. CASE UNCHANGED <<gateF, kept>>
        BY <1>0, <2>3 DEF GateFType
    <2>4. QED
        BY <2>1, <2>2, <2>3 DEF StartPreflight, ApprovePipeline, ApproveCritical, RejectCritical, Preflight, Rework
<1>6. RequestType'
    BY <1>0, <1>4 DEF RequestType
<1>7. QED
    BY <1>0, <1>2, <1>3, <1>4, <1>5, <1>6 DEF Asked

\* The snapshot counts the builds, and when all of them are committed it is what the head holds.
LEMMA SnapshotCounts ==
    ASSUME WorkType
    PROVE  Snapshot \in Nat /\ (work.head = work.built => Snapshot = work.head)
<1>1. work.head \in Nat /\ work.built \in Nat
    BY DEF WorkType
<1>2. /\ IsFiniteSet(1..work.head) /\ IsFiniteSet((work.head + 1)..work.built)
      /\ Cardinality(1..work.head) = work.head
    <2>1. 1 \in Int /\ work.head \in Int /\ work.built \in Int /\ work.head + 1 \in Int
        BY <1>1
    <2>2. IsFiniteSet(1..work.head) /\ IsFiniteSet((work.head + 1)..work.built)
        BY <2>1, FS_Interval
    <2>3. Cardinality(1..work.head) = IF 1 > work.head THEN 0 ELSE work.head - 1 + 1
        BY <2>1, FS_Interval, Zenon
    <2>4. QED
        BY <1>1, <2>2, <2>3
<1>3. Snapshot \in Nat
    BY <1>2, FS_Union, FS_CardinalityType DEF Snapshot, CommittedDiff, WorkingTreeDiff
<1>4. ASSUME work.head = work.built PROVE Snapshot = work.head
    <2>1. 1..work.head \cup (work.head + 1)..work.built = 1..work.head
        BY <1>1, <1>4
    <2>2. QED
        BY <1>2, <2>1 DEF Snapshot, CommittedDiff, WorkingTreeDiff
<1>5. QED
    BY <1>3, <1>4

\* The moves of the run that revise a document and ask for it, or drop what was asked.
LEMMA AskingMoveTypes ==
    ASSUME TypeOK, Asked,
           \/ PresentPipeline \/ EditPipeline \/ Deliver \/ RefreshSnapshot
           \/ \E findings \in ReviewInputs : CriticalReview(findings)
    PROVE  TypeOK' /\ Asked'
<1> USE TypeParts
<1>0. /\ RunType /\ CycleType /\ RequestType /\ PassedType /\ GateFType /\ WorkType /\ TargetType
      /\ clock \in Nat /\ doc \in [Gates -> Nat]
      /\ kept \subseteq {"worktree", "branch"} /\ FirstStep \in Steps /\ {"build", "deliver"} \subseteq Steps
      /\ {"pipeline", "critical", "acceptance"} \subseteq Gates
    BY NextSteps DEF RunType, Steps, Gates
<1>1. UNCHANGED <<template, cycle, passed, target, gateF, kept, clock>>
    BY DEF PresentPipeline, EditPipeline, Deliver, RefreshSnapshot, CriticalReview
<1>2. ASSUME NEW event, NEW context, NEW step \in Steps, Move(event, context, step) PROVE RunType'
    BY <1>0, <1>1, <1>2, MoveIs DEF RunType
<1>3. RunType'
    <2>1. CASE PresentPipeline \/ EditPipeline
        BY <1>0, <1>2, <2>1 DEF PresentPipeline, EditPipeline
    <2>2. CASE Deliver
        BY <1>0, <1>2, <2>2 DEF Deliver
    <2>3. CASE RefreshSnapshot
        BY <1>0, <2>3 DEF RefreshSnapshot, RunType
    <2>4. ASSUME NEW findings \in ReviewInputs, CriticalReview(findings) PROVE RunType'
        BY <1>0, <1>2, <2>4 DEF CriticalReview
    <2>5. QED
        BY <2>1, <2>2, <2>3, <2>4
<1>4. doc' \in [Gates -> Nat]
    BY <1>0, ReviseTypes DEF PresentPipeline, EditPipeline, Deliver, RefreshSnapshot, CriticalReview
<1>5. RequestType' /\ Asked'
    <2>1. CASE PresentPipeline
        <3>1. doc'["pipeline"] \in Nat
            BY <1>0, <2>1, ReviseTypes DEF PresentPipeline
        <3>2. QED
            BY <1>0, <2>1, <3>1, AskTypes DEF PresentPipeline, Asked
    <2>2. CASE Deliver
        <3>1. doc'["acceptance"] \in Nat
            BY <1>0, <2>2, ReviseTypes DEF Deliver
        <3>2. QED
            BY <1>0, <2>2, <3>1, AskTypes DEF Deliver, Asked
    <2>3. ASSUME NEW findings \in ReviewInputs, CriticalReview(findings) PROVE RequestType' /\ Asked'
        <3>1. doc'["critical"] \in Nat
            BY <1>0, <2>3, ReviseTypes DEF CriticalReview
        <3>2. QED
            BY <1>0, <2>3, <3>1, AskTypes DEF CriticalReview, Asked
    <2>4. CASE EditPipeline
        <3>1. PICK t \in RunTransitions : t.from = run.state /\ t.event = "Edit"
            BY <1>0, <2>4, MoveIs DEF EditPipeline
        <3>2. run.state = "Awaiting_Pipeline_Approval"
            BY <3>1, EditFrom
        <3>3. request \in Requests
            BY <1>0, <3>2 DEF Asked, RequestType
        <3>4. doc'["pipeline"] \in Nat
            BY <1>0, <2>4, ReviseTypes DEF EditPipeline
        <3>5. request' \in Requests
            BY <2>4, <3>3, <3>4, ApprovalTypes DEF EditPipeline
        <3>6. QED
            BY <1>0, <2>4, <3>5, ApprovalTypes DEF EditPipeline, RequestType, Asked
    <2>5. CASE RefreshSnapshot
        <3>1. request \in Requests
            BY <1>0, <2>5 DEF RefreshSnapshot, Asked, RequestType
        <3>2. doc'["acceptance"] \in Nat
            BY <1>0, <2>5, ReviseTypes DEF RefreshSnapshot
        <3>3. request' \in Requests
            BY <2>5, <3>1, <3>2, ApprovalTypes DEF RefreshSnapshot
        <3>4. QED
            BY <1>0, <2>5, <3>3, ApprovalTypes DEF RefreshSnapshot, RequestType, Asked
    <2>6. QED
        BY <2>1, <2>2, <2>3, <2>4, <2>5
<1>6. WorkType'
    <2>1. CASE Deliver \/ RefreshSnapshot
        BY <1>0, <2>1, SnapshotCounts DEF Deliver, RefreshSnapshot, WorkType
    <2>2. CASE work' = work
        BY <1>0, <2>2 DEF WorkType
    <2>3. QED
        BY <2>1, <2>2 DEF PresentPipeline, EditPipeline, CriticalReview
<1>7. CycleType' /\ PassedType' /\ TargetType' /\ GateFType'
    BY <1>0, <1>1 DEF CycleType, PassedType, TargetType, GateFType
<1>8. QED
    BY <1>0, <1>1, <1>3, <1>4, <1>5, <1>6, <1>7

\* Handoff, build and correction.
LEMMA BuildTypes ==
    ASSUME TypeOK, Asked,
           \/ ApproveHandoff \/ Build
           \/ \E findings \in ReviewInputs : \E exceptionApproved \in BOOLEAN : Correct(findings, exceptionApproved)
    PROVE  TypeOK' /\ Asked'
<1> USE TypeParts
<1>0. /\ RunType /\ CycleType /\ RequestType /\ PassedType /\ GateFType /\ WorkType /\ TargetType
      /\ clock \in Nat /\ doc \in [Gates -> Nat] /\ run.state = "Running"
      /\ kept \subseteq {"worktree", "branch"} /\ "build" \in Steps /\ \A s : NextStep(s) \in Steps
    BY NextSteps DEF RunType, Steps, ApproveHandoff, Build, Correct
<1>1. UNCHANGED <<template, doc, request, answer, decision, target, gateF, kept, clock>>
    BY DEF ApproveHandoff, Build, Correct, gates
<1>2. RunType' /\ run'.state \notin {"Awaiting_Pipeline_Approval", "Awaiting_Acceptance"}
    <2>1. CASE ApproveHandoff \/ Build
        <3>1. \E s : run' = [run EXCEPT !.step = NextStep(s)]
            BY <2>1 DEF ApproveHandoff, Build
        <3>2. QED
            BY <1>0, <1>1, <3>1 DEF RunType
    <2>2. ASSUME NEW findings \in ReviewInputs, NEW exceptionApproved \in BOOLEAN,
                 Correct(findings, exceptionApproved)
          PROVE  RunType' /\ run'.state \notin {"Awaiting_Pipeline_Approval", "Awaiting_Acceptance"}
        <3>1. \/ run' = [run EXCEPT !.step = NextStep("review")]
              \/ \E event \in {"Review_failed_correction", "Review_failed_exhausted"} : \E facts :
                    Move(event, facts, "build")
              \/ run' = [run EXCEPT !.step = "build"]
            BY <2>2 DEF Correct
        <3>2. CASE \/ run' = [run EXCEPT !.step = NextStep("review")]
                   \/ run' = [run EXCEPT !.step = "build"]
            BY <1>0, <1>1, <3>2 DEF RunType
        <3>3. ASSUME NEW event \in {"Review_failed_correction", "Review_failed_exhausted"}, NEW facts,
                     Move(event, facts, "build")
              PROVE  RunType' /\ run'.state \notin {"Awaiting_Pipeline_Approval", "Awaiting_Acceptance"}
            BY <1>0, <1>1, <3>3, MoveIs, TableFacts DEF RunType
        <3>4. QED
            BY <3>1, <3>2, <3>3
    <2>3. QED
        BY <2>1, <2>2
<1>3. CycleType'
    <2>1. ASSUME NEW findings \in ReviewInputs, NEW exceptionApproved \in BOOLEAN,
                 Correct(findings, exceptionApproved)
          PROVE  CycleType'
        <3>1. Evaluate(cycle.counter, ReviewArtifact(findings), exceptionApproved).next \in Nat
            BY <1>0, CycleCounts DEF CycleType
        <3>2. QED
            BY <1>0, <2>1, <3>1 DEF Correct, CycleType
    <2>2. QED
        BY <1>0, <2>1 DEF ApproveHandoff, Build, CycleType
<1>4. PassedType' /\ WorkType'
    <2>1. CASE ApproveHandoff
        BY <1>0, <2>1, PassTypes DEF ApproveHandoff, WorkType, Gates
    <2>2. CASE Build
        <3>1. PICK commits \in CommitChoices :
                work' = [work EXCEPT !.built = @ + 1, !.head = IF commits THEN work.built + 1 ELSE @]
            BY <2>2 DEF Build
        <3>2. work' = [built |-> work.built + 1, head |-> IF commits THEN work.built + 1 ELSE work.head,
                       snapshot |-> work.snapshot, accepted |-> work.accepted]
            BY <1>0, <3>1 DEF WorkType
        <3>3. WorkType'
            BY <1>0, <3>2 DEF WorkType
        <3>4. QED
            BY <1>0, <2>2, <3>3 DEF Build, gates, PassedType
    <2>3. CASE UNCHANGED <<passed, work>>
        BY <1>0, <2>3 DEF PassedType, WorkType
    <2>4. QED
        BY <2>1, <2>2, <2>3 DEF Correct, gates
<1>5. QED
    BY <1>0, <1>1, <1>2, <1>3, <1>4 DEF Asked, RequestType, TargetType, GateFType

\* Acceptance, merge, ends, time and clean-up.
LEMMA EndingTypes ==
    ASSUME TypeOK, Asked,
           \/ DecideAcceptance \/ CommitLate \/ VerifyHead \/ Complete \/ Stop \/ Tick \/ CleanUp
           \/ \E merge \in BOOLEAN : Push(merge)
           \/ \E patchGiven \in PatchChoices : VerifyMerge(patchGiven)
    PROVE  TypeOK' /\ Asked'
<1> USE TypeParts
<1>0. /\ RunType /\ CycleType /\ RequestType /\ PassedType /\ GateFType /\ WorkType /\ TargetType
      /\ clock \in Nat /\ doc \in [Gates -> Nat] /\ FirstStep \in Steps /\ "deliver" \in Steps
      /\ kept \subseteq {"worktree", "branch"} /\ "acceptance" \in Gates
    BY NextSteps DEF RunType, Steps, Gates
<1>p. UNCHANGED <<template, cycle, doc>>
    BY DEF DecideAcceptance, CommitLate, VerifyHead, Complete, Stop, Tick, CleanUp, Push, VerifyMerge, gates
<1>c. CycleType'
    BY <1>0, <1>p DEF CycleType
<1>1. CASE DecideAcceptance
    <2>1. request \in Requests /\ answer \in Answers
        BY <1>0, <1>1 DEF DecideAcceptance, RequestType, NoRequest, NoAnswer, Answer
    <2>2. decision' \in Decisions
        BY <1>1, <2>1, ApprovalTypes DEF DecideAcceptance
    <2>3. RunType' /\ run'.state \notin {"Awaiting_Pipeline_Approval", "Awaiting_Acceptance"}
        BY <1>0, <1>1, <1>p, MoveIs, TableFacts DEF DecideAcceptance, RunType
    <2>4. PassedType'
        BY <1>0, <1>1, <2>2 DEF DecideAcceptance, Mark, PassedType, Passes
    <2>5. WorkType'
        BY <1>0, <1>1 DEF DecideAcceptance, WorkType
    <2>6. GateFType'
        <3>1. gateF' = gateF \/ gateF' = [NoMerge EXCEPT !.status = "Pending"]
            BY <1>1 DEF DecideAcceptance, PendingManualMerge
        <3>2. QED
            BY <1>0, <3>1, MergeTypes DEF GateFType
    <2>7. RequestType' /\ TargetType' /\ kept' = kept /\ clock' = clock
        BY <1>0, <1>1, <2>2 DEF DecideAcceptance, RequestType, TargetType
    <2>8. QED
        BY <1>0, <1>p, <1>c, <2>3, <2>4, <2>5, <2>6, <2>7 DEF Asked
<1>2. ASSUME NEW merge \in BOOLEAN, Push(merge) PROVE TypeOK' /\ Asked'
    <2>1. TargetType'
        BY <1>0, <1>2 DEF Push, TargetType, WorkType
    <2>2. QED
        BY <1>0, <1>2, <1>c, <2>1 DEF Push, gates, RunType, RequestType, PassedType, WorkType, GateFType, Asked
<1>3. CASE CommitLate
    <2>1. WorkType'
        <3>1. work' = [built |-> work.built + 1, head |-> work.built + 1,
                       snapshot |-> work.snapshot, accepted |-> work.accepted]
            BY <1>0, <1>3 DEF CommitLate, WorkType
        <3>2. QED
            BY <1>0, <3>1 DEF WorkType
    <2>2. QED
        BY <1>0, <1>3, <1>c, <2>1 DEF CommitLate, gates, RunType, RequestType, PassedType, TargetType, GateFType, Asked
<1>4. CASE VerifyHead
    <2>1. GateFType'
        BY <1>0, <1>4, MergeTypes DEF VerifyHead, GateFType, TargetType
    <2>2. QED
        BY <1>0, <1>4, <1>c, <2>1 DEF VerifyHead, gates, RunType, RequestType, PassedType, TargetType, WorkType, Asked
<1>5. ASSUME NEW patchGiven \in PatchChoices, VerifyMerge(patchGiven) PROVE TypeOK' /\ Asked'
    <2>1. patchGiven \in BOOLEAN
        BY DeliveryAssumption
    <2>2. GateFType'
        <3> DEFINE contained == work.head <= target.holds
                   patch == patchGiven /\ PatchEquivalent
        <3>1. gateF' = [gateF EXCEPT !.status = "Verified", !.contained = contained, !.patch = patch,
                                     !.at = clock]
            BY <1>5 DEF VerifyMerge
        <3>2. contained \in BOOLEAN /\ patch \in BOOLEAN
            BY <2>1 DEF PatchEquivalent
        <3>3. QED
            BY <1>0, <3>1, <3>2, MergeTypes DEF GateFType
    <2>3. QED
        BY <1>0, <1>5, <1>c, <2>2 DEF VerifyMerge, gates, RunType, RequestType, PassedType, TargetType, WorkType, Asked
<1>6. CASE Complete
    <2>1. PICK t \in RunTransitions :
            /\ t.event = "Verify_merge_success"
            /\ run' = [run EXCEPT !.state = t.to, !.since = gateF.at]
        BY <1>6 DEF Complete, ApplyRun
    <2>2. t \in RunTransitions /\ t.event = "Verify_merge_success"
        BY <2>1
    <2>3. /\ t.to \in RunStates /\ gateF.at \in Nat
          /\ t.to \notin {"Awaiting_Pipeline_Approval", "Awaiting_Acceptance"}
        <3>1. gateF.at \in Nat
            BY <1>0 DEF GateFType, Merges
        <3>2. QED
            BY <2>2, <3>1, TableFacts
    <2>4. RunType' /\ run'.state = t.to
        BY <1>0, <1>p, <2>1, <2>3 DEF RunType
    <2>5. RequestType'
        BY <1>6, CloseTypes DEF Complete
    <2>6. QED
        BY <1>0, <1>6, <1>c, <2>3, <2>4, <2>5 DEF Complete, PassedType, TargetType, WorkType, GateFType, Asked
<1>7. CASE Stop
    <2>1. run.step \in Steps
        BY <1>0 DEF RunType
    <2>2. RunType' /\ run'.state \notin {"Awaiting_Pipeline_Approval", "Awaiting_Acceptance"}
        BY <1>0, <1>7, <1>p, <2>1, MoveIs, TableFacts DEF Stop, RunType
    <2>3. RequestType'
        BY <1>7, CloseTypes DEF Stop
    <2>4. QED
        BY <1>0, <1>7, <1>c, <2>2, <2>3 DEF Stop, PassedType, TargetType, WorkType, GateFType, Asked
<1>8. CASE Tick
    BY <1>0, <1>8, <1>c DEF Tick, gates, RunType, RequestType, PassedType, TargetType, WorkType, GateFType, Asked
<1>9. CASE CleanUp
    BY <1>0, <1>9, <1>c DEF CleanUp, gates, RunType, RequestType, PassedType, TargetType, WorkType, GateFType, Asked
<1>10. QED
    BY <1>1, <1>2, <1>3, <1>4, <1>5, <1>6, <1>7, <1>8, <1>9

LEMMA NextTypes == TypeOK /\ Asked /\ [Next]_vars => (TypeOK /\ Asked)'
<1> SUFFICES ASSUME TypeOK, Asked, [Next]_vars PROVE TypeOK' /\ Asked'
    OBVIOUS
<1>1. CASE Next
    BY <1>1, AnswerTypes, PlainMoveTypes, AskingMoveTypes, BuildTypes, EndingTypes DEF Next
<1>2. CASE UNCHANGED vars
    BY <1>2 DEF vars, gates, TypeOK, Asked
<1>3. QED
    BY <1>1, <1>2

\* Every variable keeps its type.
THEOREM TypeCorrect == Spec => []TypeOK
BY InitTypes, NextTypes, PTL DEF Spec

-----------------------------------------------------------------------------
(* Corrections                                                             *)

LEMMA NextCorrections == TypeOK /\ CorrectionsCounted /\ [Next]_vars => CorrectionsCounted'
<1> SUFFICES ASSUME TypeOK, CorrectionsCounted, [Next]_vars PROVE CorrectionsCounted'
    OBVIOUS
<1>1. CASE cycle' = cycle
    BY <1>1 DEF CorrectionsCounted
<1>2. ASSUME NEW findings \in ReviewInputs, NEW exceptionApproved \in BOOLEAN,
             Correct(findings, exceptionApproved)
      PROVE  CorrectionsCounted'
    <2> DEFINE v == Evaluate(cycle.counter, ReviewArtifact(findings), exceptionApproved)
    <2>1. cycle.counter \in Nat /\ cycle.exceptions \in Nat
        BY TypeParts DEF CycleType
    <2>2. /\ cycle'.counter = v.next
          /\ cycle'.exceptions = cycle.exceptions + (IF exceptionApproved THEN 1 ELSE 0)
        BY <1>2 DEF Correct
    <2>3. \/ v.next = cycle.counter
          \/ v.next = cycle.counter + 1 /\ (cycle.counter < CorrectionLimit \/ exceptionApproved)
        BY <2>1, CycleCounts
    <2> HIDE DEF v
    <2>4. QED
        BY <2>1, <2>2, <2>3 DEF CorrectionsCounted, CorrectionLimit
<1>3. QED
    BY <1>1, <1>2
    DEF Next, vars, Reply, Decide, SelectContext, AskContext, SnapshotContext, PresentPipeline, EditPipeline,
        StartPreflight, ApprovePipeline, PrepareWorkspace, ReviseHandoff, AskHandoff, ApproveHandoff, Build,
        CriticalReview, ApproveCritical, RejectCritical, Preflight, Rework, Deliver, RefreshSnapshot,
        AskAcceptance, DecideAcceptance, Push, CommitLate, VerifyHead, VerifyMerge, FailMerge, Complete,
        Stop, Tick, CleanUp

\* Past two corrections, every further one was approved by the user.
THEOREM CorrectionsAreCounted == Spec => []CorrectionsCounted
<1>1. Init => CorrectionsCounted
    BY DEF Init, CorrectionsCounted, CorrectionLimit
<1>2. QED
    BY <1>1, TypeCorrect, NextCorrections, PTL DEF Spec

-----------------------------------------------------------------------------
(* Approvals                                                               *)

\* An acceptance request that can be decided is for the snapshot that is current; the other gates
\* compare the revision when they pass.
Current ==
    request.gate = "acceptance" /\ request.state = "Pending" => request.revision = doc["acceptance"]

ApprovalInv == TypeOK /\ Asked /\ ~decision.late /\ Current /\ ApprovedInTime

LEMMA InTime ==
    ASSUME RequestType, NEW g \in Gates, answer.gate = g, request.gate = g, Usable(request, answer)
    PROVE  /\ ~Decision(request, answer).late
           /\ Decision(request, answer).revision = request.revision
           /\ answer.verdict = "approve" => Decision(request, answer).state = "Approved"
<1>1. request \in Requests /\ answer \in Answers
    BY DEF RequestType, NoRequest, NoAnswer, Answer, Gates
<1>2. answer.at \in Nat /\ request.expires \in Nat
    BY <1>1 DEF Requests, Answers
<1>3. ~(answer.at > request.expires) /\ answer.revision = request.revision
    BY <1>2 DEF Usable
<1>4. Decision(request, answer).late <=> answer.at > request.expires
    BY DEF Decision
<1>5. Decision(request, answer).revision = answer.revision
    BY DEF Decision
<1>6. answer.verdict = "approve" => Decision(request, answer).state = "Approved"
    BY DEF Decision
<1>7. QED
    BY <1>3, <1>4, <1>5, <1>6

LEMMA AskInTime ==
    ASSUME NEW g, NEW revision, Ask(g, revision), ~decision.late,
           g = "acceptance" => revision = doc'["acceptance"]
    PROVE  ~decision'.late /\ Current'
BY DEF Ask, Request, NoDecision, Current

\* A gate that passes, passes in time.
LEMMA PassInTime ==
    ASSUME ApprovalInv, NEW g \in Gates, Pass(g)
    PROVE  ApprovedInTime'
<1>1. passed' = [passed EXCEPT ![g] = [revision |-> doc[g], by |-> decision]]
    BY PassTypes DEF ApprovalInv
<1>2. decision.revision = doc[g] /\ decision.state = "Approved" /\ ~decision.late
    BY DEF Pass, Binds, ApprovalInv
<1>3. passed \in [Gates -> Passes \cup {NoPass}]
    BY TypeParts DEF ApprovalInv, PassedType
<1>4. QED
    BY <1>1, <1>2, <1>3 DEF ApprovalInv, ApprovedInTime

LEMMA NextApprovals == ApprovalInv /\ [Next]_vars => ApprovalInv'
<1> SUFFICES ASSUME ApprovalInv, [Next]_vars
             PROVE  ~decision'.late /\ Current' /\ ApprovedInTime'
    BY NextTypes DEF ApprovalInv
<1>0. /\ ~decision.late /\ Current /\ ApprovedInTime /\ RequestType
      /\ doc \in [Gates -> Nat] /\ passed \in [Gates -> Passes \cup {NoPass}]
    BY TypeParts DEF ApprovalInv, PassedType
<1>g. /\ {"context", "pipeline", "handoff", "critical", "acceptance"} \subseteq Gates
    BY DEF Gates
<1>1. CASE UNCHANGED <<doc, request, decision, passed>>
    BY <1>0, <1>1 DEF Current, ApprovedInTime
<1>2. CASE Decide
    BY <1>0, <1>2, InTime DEF Decide, Current, ApprovedInTime, Usable, NoRequest, RequestType, Requests
<1>3. CASE SelectContext
    <2>1. doc'["acceptance"] = doc["acceptance"]
        BY <1>0, <1>3, <1>g DEF SelectContext, Revise
    <2>2. request' = request \/ request'.gate = "context"
        BY <1>3 DEF SelectContext, Invalidated
    <2>3. QED
        BY <1>0, <1>3, <2>1, <2>2 DEF SelectContext, Current, ApprovedInTime
<1>4. CASE AskContext \/ AskHandoff \/ AskAcceptance
    <2>1. ~decision'.late /\ Current'
        BY <1>0, <1>4, AskInTime DEF AskContext, AskHandoff, AskAcceptance
    <2>2. QED
        BY <1>0, <1>4, <2>1 DEF AskContext, AskHandoff, AskAcceptance, ApprovedInTime
<1>5. CASE SnapshotContext \/ ApprovePipeline \/ ApproveHandoff \/ ApproveCritical
    <2>1. ApprovedInTime'
        BY <1>5, <1>g, PassInTime DEF SnapshotContext, ApprovePipeline, ApproveHandoff, ApproveCritical
    <2>2. UNCHANGED <<doc, request, decision>>
        BY <1>5 DEF SnapshotContext, ApprovePipeline, ApproveHandoff, ApproveCritical
    <2>3. QED
        BY <1>0, <2>1, <2>2 DEF Current
<1>6. CASE PresentPipeline \/ Deliver \/ (\E findings \in ReviewInputs : CriticalReview(findings))
    <2>1. ~decision'.late /\ Current'
        BY <1>0, <1>6, AskInTime DEF PresentPipeline, Deliver, CriticalReview
    <2>2. passed' = passed
        BY <1>6 DEF PresentPipeline, Deliver, CriticalReview
    <2>3. QED
        BY <1>0, <2>1, <2>2 DEF ApprovedInTime
<1>7. CASE EditPipeline \/ RefreshSnapshot
    <2>1. ASSUME EditPipeline PROVE Current'
        <3>1. doc'["acceptance"] = doc["acceptance"]
            BY <1>0, <1>g, <2>1 DEF EditPipeline, Revise
        <3>2. request' = request \/ request' = [request EXCEPT !.state = "Invalidated"]
            BY <2>1 DEF EditPipeline, Invalidated
        <3>3. request' = request \/ (request'.gate = "acceptance" => request'.state = "Invalidated")
            BY <1>0, <3>2 DEF RequestType, Requests, NoRequest
        <3>4. QED
            BY <1>0, <3>1, <3>3 DEF Current
    <2>2. ASSUME RefreshSnapshot PROVE Current'
        <3>1. request'.gate = "acceptance" /\ request'.state = "Pending"
                => request'.revision = doc'["acceptance"]
            BY <1>0, <2>2 DEF RefreshSnapshot, Invalidated, RequestType, Requests, NoRequest
        <3>2. QED
            BY <3>1 DEF Current
    <2>3. UNCHANGED <<decision, passed>>
        BY <1>7 DEF EditPipeline, RefreshSnapshot
    <2>4. Current'
        BY <1>7, <2>1, <2>2
    <2>5. QED
        BY <1>0, <2>3, <2>4 DEF ApprovedInTime
<1>8. CASE ReviseHandoff
    <2>1. doc'["acceptance"] = doc["acceptance"]
        BY <1>0, <1>8, <1>g DEF ReviseHandoff, Revise
    <2>2. QED
        BY <1>0, <1>8, <2>1 DEF ReviseHandoff, Current, ApprovedInTime
<1>9. CASE DecideAcceptance
    <2>1. /\ UNCHANGED <<doc, request>>
          /\ decision' = Decision(request, answer)
          /\ answer.gate = "acceptance" /\ request.gate = "acceptance" /\ Usable(request, answer)
        BY <1>9 DEF DecideAcceptance
    <2>2. ~decision'.late /\ decision'.revision = doc["acceptance"]
          /\ (answer.verdict = "approve" => decision'.state = "Approved")
        BY <1>0, <1>g, <2>1, InTime DEF Current, Usable
    <2>3. \/ passed' = passed
          \/ /\ answer.verdict = "approve"
             /\ passed' = [passed EXCEPT !["acceptance"] = [revision |-> doc["acceptance"], by |-> decision']]
        BY <1>9 DEF DecideAcceptance, Mark
    <2>4. ApprovedInTime'
        BY <1>0, <1>g, <2>2, <2>3 DEF ApprovedInTime
    <2>5. QED
        BY <1>0, <2>1, <2>2, <2>4 DEF Current
<1>10. CASE Complete \/ Stop
    <2>1. request' = NoRequest /\ decision' = NoDecision /\ passed' = passed
        BY <1>10 DEF Complete, Stop, Close
    <2>2. ~NoDecision.late /\ NoRequest.gate # "acceptance"
        BY DEF NoDecision, NoRequest
    <2>3. QED
        BY <1>0, <2>1, <2>2 DEF Current, ApprovedInTime
<1>11. QED
    BY <1>1, <1>2, <1>3, <1>4, <1>5, <1>6, <1>7, <1>8, <1>9, <1>10
    DEF Next, vars, gates, Reply, StartPreflight, PrepareWorkspace, Build, Correct, RejectCritical, Preflight,
        Rework, Push, CommitLate, VerifyHead, VerifyMerge, FailMerge, Tick, CleanUp

\* Every gate a run has passed was passed by a decision made in time about the document passed.
THEOREM ApprovalsAreInTime == Spec => []ApprovedInTime
<1>1. Init => ApprovalInv
    BY InitTypes DEF Init, ApprovalInv, NoDecision, NoRequest, Current, ApprovedInTime
<1>2. ApprovalInv => ApprovedInTime
    BY DEF ApprovalInv
<1>3. QED
    BY <1>1, <1>2, NextApprovals, PTL DEF Spec

-----------------------------------------------------------------------------
(* The accepted work                                                       *)

\* Every step commits its work, and Gate F is not given the hash of the accepted patch.
Committing == CommitChoices \subseteq {TRUE} /\ PatchChoices \subseteq {FALSE}

\* Nothing is uncommitted, snapshotted, accepted or merged that the run branch does not hold.
OnBranch ==
    /\ work.head = work.built
    /\ work.snapshot <= work.head /\ work.accepted <= work.head /\ target.holds <= work.head

\* A merge that was verified, or completed the run, holds what was accepted.
Merged ==
    /\ gateF.status = "Verified" => work.accepted <= target.holds
    /\ run.state = "Completed" => work.accepted <= target.holds

\* The run branch is there from the first piece of work until the run is completed, with or without
\* its worktree.
BranchKept ==
    /\ "worktree" \in kept => "branch" \in kept
    /\ "branch" \notin kept => work.built = 0 \/ run.state = "Completed"

WorkInv == OnBranch /\ Merged /\ BranchKept

\* Moves of the run that leave work, target and the workspace as they are.
LEMMA MoveKeepsWork ==
    ASSUME TypeOK, WorkInv, UNCHANGED <<work, target, kept>>,
           gateF' = gateF \/ gateF'.status # "Verified",
           \/ run'.state = run.state
           \/ \E event, context : \E step \in Steps :
                /\ Move(event, context, step)
                /\ event # "Verify_merge_success"
    PROVE  WorkInv'
<1> USE DEF WorkInv
<1>1. OnBranch'
    BY DEF OnBranch
<1>2. gateF'.status = "Verified" => gateF' = gateF
    OBVIOUS
<1>3. run'.state = "Completed" <=> run.state = "Completed"
    <2>1. CASE run'.state = run.state
        BY <2>1
    <2>2. ASSUME NEW event, NEW context, NEW step \in Steps, Move(event, context, step),
                 event # "Verify_merge_success"
          PROVE  run'.state # "Completed" /\ run.state # "Completed"
        <3>1. PICK t \in RunTransitions : t.from = run.state /\ t.event = event /\ run'.state = t.to
            BY <2>2, MoveIs, TypeParts
        <3>2. QED
            BY <2>2, <3>1, TableFacts
    <2>3. QED
        BY <2>1, <2>2
<1>4. Merged' /\ BranchKept'
    BY <1>2, <1>3 DEF Merged, BranchKept
<1>5. QED
    BY <1>1, <1>4

LEMMA NextWork == Committing /\ TypeOK /\ WorkInv /\ [Next]_vars => WorkInv'
<1> SUFFICES ASSUME Committing, TypeOK, WorkInv, [Next]_vars PROVE WorkInv'
    OBVIOUS
<1>0. /\ WorkType /\ GateFType /\ target.holds \in Nat /\ target.pushes \in Nat
      /\ {FirstStep, run.step, "build", "deliver"} \subseteq Steps /\ run.step \in Steps
      /\ OnBranch /\ Merged /\ BranchKept
      /\ work.built \in Nat /\ work.head \in Nat /\ work.snapshot \in Nat /\ work.accepted \in Nat
    BY TypeParts, NextSteps DEF RunType, WorkType, TargetType, Steps, WorkInv
<1>1. CASE UNCHANGED <<run, work, target, gateF, kept>>
    BY <1>1, MoveKeepsWork
<1>2. CASE PresentPipeline \/ EditPipeline \/ StartPreflight \/ ApprovePipeline \/ ApproveCritical
           \/ RejectCritical \/ FailMerge
    <2>1. UNCHANGED <<work, target, kept>> /\ (gateF' = gateF \/ gateF'.status # "Verified")
        BY <1>2 DEF PresentPipeline, EditPipeline, StartPreflight, ApprovePipeline, ApproveCritical,
                    RejectCritical, FailMerge, NoMerge
    <2>2. \E step \in Steps, event \in {"Present_pipeline", "Edit", "Start_Preflight", "Approve",
                                        "Reject_essential", "Merge_verification_failed"} :
             \E context : Move(event, context, step)
        BY <1>0, <1>2 DEF PresentPipeline, EditPipeline, StartPreflight, ApprovePipeline, ApproveCritical,
                          RejectCritical, FailMerge
    <2>3. QED
        BY <2>1, <2>2, MoveKeepsWork
<1>3. ASSUME NEW machine \in Machines, Preflight(machine) PROVE WorkInv'
    BY <1>0, <1>3, MoveKeepsWork DEF Preflight
<1>4. ASSUME NEW machine \in Machines, NEW override \in BOOLEAN, Rework(machine, override) PROVE WorkInv'
    BY <1>0, <1>4, MoveKeepsWork DEF Rework
<1>5. ASSUME NEW findings \in ReviewInputs, CriticalReview(findings) PROVE WorkInv'
    BY <1>0, <1>5, MoveKeepsWork DEF CriticalReview
<1>6. ASSUME NEW findings \in ReviewInputs, NEW exceptionApproved \in BOOLEAN,
             Correct(findings, exceptionApproved)
      PROVE  WorkInv'
    <2>1. UNCHANGED <<work, target, kept, gateF>>
        BY <1>6 DEF Correct
    <2>2. \/ run' = [run EXCEPT !.step = NextStep("review")]
          \/ run' = [run EXCEPT !.step = "build"]
          \/ \E context : Move("Review_failed_correction", context, "build")
          \/ \E context : Move("Review_failed_exhausted", context, "build")
        BY <1>6 DEF Correct
    <2>3. CASE \/ run' = [run EXCEPT !.step = NextStep("review")]
               \/ run' = [run EXCEPT !.step = "build"]
        <3>1. run'.state = run.state
            BY <2>3, TypeParts DEF RunType
        <3>2. QED
            BY <2>1, <3>1, MoveKeepsWork
    <2>4. QED
        BY <1>0, <2>1, <2>2, <2>3, MoveKeepsWork
<1>7. CASE ApproveHandoff
    <2>1. run'.state = run.state
        BY <1>7, TypeParts DEF ApproveHandoff, RunType
    <2>2. QED
        BY <1>7, <2>1, MoveKeepsWork DEF ApproveHandoff
<1>8. CASE Stop
    BY <1>0, <1>8, MoveKeepsWork DEF Stop
<1>9. CASE PrepareWorkspace
    <2>1. CASE kept' = kept
        BY <1>0, <1>9, <2>1, MoveKeepsWork DEF PrepareWorkspace
    <2>2. CASE kept' = {"worktree", "branch"}
        <3>1. PICK t \in RunTransitions : /\ t.event \in {"Worktree_ready", "Failure"}
                                          /\ t.from = run.state /\ run'.state = t.to
            BY <1>0, <1>9, MoveIs, TypeParts DEF PrepareWorkspace
        <3>2. UNCHANGED <<work, target, gateF>>
            BY <1>9 DEF PrepareWorkspace
        <3>3. run'.state # "Completed"
            BY <3>1, TableFacts
        <3>4. QED
            BY <1>0, <2>2, <3>2, <3>3 DEF WorkInv, OnBranch, Merged, BranchKept
    <2>3. QED
        BY <1>9, <2>1, <2>2 DEF PrepareWorkspace
<1>10. CASE Build
    <2>1. PICK commits \in CommitChoices :
            work' = [work EXCEPT !.built = @ + 1, !.head = IF commits THEN work.built + 1 ELSE @]
        BY <1>10 DEF Build
    <2>2. commits = TRUE
        BY DEF Committing
    <2>3. /\ work'.built = work.built + 1 /\ work'.head = work.built + 1
          /\ work'.snapshot = work.snapshot /\ work'.accepted = work.accepted
        BY <1>0, <2>1, <2>2 DEF WorkType
    <2>4. run'.state = run.state /\ UNCHANGED <<target, gateF, kept>>
        BY <1>10, TypeParts DEF Build, RunType
    <2>5. "branch" \in kept
        BY <1>0, <1>10 DEF Build, BranchKept
    <2>6. QED
        BY <1>0, <2>3, <2>4, <2>5 DEF WorkInv, OnBranch, Merged, BranchKept
<1>11. CASE Deliver \/ RefreshSnapshot
    <2>1. work' = [work EXCEPT !.snapshot = Snapshot] /\ UNCHANGED <<target, gateF, kept>>
        BY <1>11 DEF Deliver, RefreshSnapshot
    <2>2. Snapshot = work.head
        BY <1>0, SnapshotCounts DEF OnBranch
    <2>3. /\ work'.built = work.built /\ work'.head = work.head
          /\ work'.snapshot = work.head /\ work'.accepted = work.accepted
        BY <1>0, <2>1, <2>2 DEF WorkType
    <2>4. run'.state = "Completed" <=> run.state = "Completed"
        <3>1. CASE Deliver
            BY <1>0, <3>1, MoveIs, TableFacts, TypeParts DEF Deliver
        <3>2. CASE RefreshSnapshot
            BY <3>2 DEF RefreshSnapshot
        <3>3. QED
            BY <1>11, <3>1, <3>2
    <2>5. QED
        BY <1>0, <2>1, <2>3, <2>4 DEF WorkInv, OnBranch, Merged, BranchKept
<1>12. CASE DecideAcceptance
    <2>1. CASE UNCHANGED <<work, gateF>>
        BY <1>0, <1>12, <2>1, MoveKeepsWork DEF DecideAcceptance
    <2>2. ASSUME work' = [work EXCEPT !.accepted = work.snapshot], gateF' = PendingManualMerge,
                 Move("Accept", {"diffPresented", "testsPresented", "reviewPresented"}, "deliver")
          PROVE  WorkInv'
        <3>1. PICK t \in RunTransitions : t.event = "Accept" /\ t.from = run.state /\ run'.state = t.to
            BY <1>0, <2>2, MoveIs, TypeParts
        <3>2. run.state = "Awaiting_Acceptance" /\ run'.state # "Completed"
            BY <3>1, TableFacts
        <3>3. UNCHANGED <<target, kept>> /\ gateF'.status # "Verified"
            BY <1>12, <2>2 DEF DecideAcceptance, PendingManualMerge, NoMerge
        <3>4. /\ work'.built = work.built /\ work'.head = work.head
              /\ work'.snapshot = work.snapshot /\ work'.accepted = work.snapshot
            BY <1>0, <2>2 DEF WorkType
        <3>5. QED
            BY <1>0, <3>2, <3>3, <3>4 DEF WorkInv, OnBranch, Merged, BranchKept
    <2>3. QED
        BY <1>12, <2>1, <2>2 DEF DecideAcceptance
<1>13. ASSUME NEW merge \in BOOLEAN, Push(merge) PROVE WorkInv'
    <2>1. target'.holds = (IF merge THEN work.head ELSE target.holds) /\ UNCHANGED <<run, work, gateF, kept>>
        BY <1>13 DEF Push
    <2>2. target.holds <= target'.holds /\ target'.holds <= work.head /\ target'.holds \in Nat
        BY <1>0, <2>1 DEF OnBranch
    <2>3. QED
        BY <1>0, <2>1, <2>2 DEF WorkInv, OnBranch, Merged, BranchKept
<1>14. CASE CommitLate
    <2>1. /\ work'.built = work.built + 1 /\ work'.head = work.built + 1
          /\ work'.snapshot = work.snapshot /\ work'.accepted = work.accepted
        BY <1>0, <1>14 DEF CommitLate, WorkType
    <2>2. UNCHANGED <<run, target, gateF, kept>>
        BY <1>14 DEF CommitLate
    <2>3. "branch" \in kept
        BY <1>0, <1>14 DEF CommitLate, BranchKept
    <2>4. QED
        BY <1>0, <2>1, <2>2, <2>3 DEF WorkInv, OnBranch, Merged, BranchKept
<1>15. CASE VerifyHead
    <2>1. gateF'.status # "Verified" /\ UNCHANGED <<run, work, target, kept>>
        BY <1>15 DEF VerifyHead, NoMerge
    <2>2. QED
        BY <2>1, MoveKeepsWork
<1>16. ASSUME NEW patchGiven \in PatchChoices, VerifyMerge(patchGiven) PROVE WorkInv'
    <2>1. work.head <= target.holds
        BY <1>16 DEF Committing, VerifyMerge
    <2>2. UNCHANGED <<run, work, target, kept>>
        BY <1>16 DEF VerifyMerge
    <2>3. work.accepted <= target.holds
        BY <1>0, <2>1 DEF OnBranch
    <2>4. QED
        BY <1>0, <2>2, <2>3 DEF WorkInv, OnBranch, Merged, BranchKept
<1>17. CASE Complete
    <2>1. PICK t \in RunTransitions : /\ t.event = "Verify_merge_success" /\ t.from = run.state
                                      /\ run'.state = t.to
        BY <1>17, TypeParts DEF Complete, ApplyRun, RunType
    <2>2. work.accepted <= target.holds /\ UNCHANGED <<work, target, gateF, kept>>
        BY <1>0, <1>17 DEF Complete, GateFVerified, Merged
    <2>3. run.state # "Completed"
        BY <2>1, TableFacts
    <2>4. QED
        BY <1>0, <2>2, <2>3 DEF WorkInv, OnBranch, Merged, BranchKept
<1>18. CASE CleanUp
    <2>1. UNCHANGED <<run, work, target, gateF>>
        BY <1>18 DEF CleanUp
    <2>2. PICK gone \in {{"worktree"}, Removable} : kept' = kept \ gone
        BY <1>18 DEF CleanUp
    <2>3. "worktree" \notin kept'
        BY <2>2 DEF Removable
    <2>4. "branch" \in kept /\ "branch" \notin kept' => run.state = "Completed"
        BY <2>2 DEF Removable
    <2>5. QED
        BY <1>0, <2>1, <2>3, <2>4 DEF WorkInv, OnBranch, Merged, BranchKept
<1>19. QED
    BY <1>1, <1>2, <1>3, <1>4, <1>5, <1>6, <1>7, <1>8, <1>9, <1>10, <1>11, <1>12, <1>13, <1>14, <1>15, <1>16,
       <1>17, <1>18
    DEF Next, vars, gates, Reply, Decide, SelectContext, AskContext, SnapshotContext, ReviseHandoff,
        AskHandoff, AskAcceptance, Tick

\* Where every step commits and Gate F verifies by history, accepted work is never lost.
THEOREM AcceptedWorkIsKept ==
    ASSUME Committing PROVE Spec => []AcceptedWorkSurvives
<1>1. Init => WorkInv
    BY DEF Init, WorkInv, OnBranch, Merged, BranchKept, NoMerge
<1>2. TypeOK /\ WorkInv => AcceptedWorkSurvives
    BY TypeParts DEF WorkType, TargetType, WorkInv, OnBranch, Merged, BranchKept, AcceptedWorkSurvives
<1>3. TypeOK /\ WorkInv /\ [Next]_vars => WorkInv'
    BY NextWork
<1>4. QED
    BY <1>1, <1>2, <1>3, TypeCorrect, PTL DEF Spec

-----------------------------------------------------------------------------
(* The life cycle                                                          *)

\* The table of the life cycle is the one the gates apply.
LEMMA SameTable == Lifecycle!RunTransitions = RunTransitions
<1>1. Lifecycle!Preparation = Preparation
    BY DEF Lifecycle!Preparation, Preparation, Lifecycle!T, T
<1>2. Lifecycle!Execution = Execution
    BY DEF Lifecycle!Execution, Execution, Lifecycle!T, T
<1>3. Lifecycle!Repair = Repair
    BY DEF Lifecycle!Repair, Repair, Lifecycle!T, T
<1>4. Lifecycle!Delivery = Delivery
    BY DEF Lifecycle!Delivery, Delivery, Lifecycle!T, T
<1>5. Lifecycle!OpenRunStates = OpenRunStates /\ Lifecycle!ActiveRunStates = ActiveRunStates
    BY DEF Lifecycle!OpenRunStates, OpenRunStates, Lifecycle!ActiveRunStates, ActiveRunStates,
        Lifecycle!RunStates, RunStates, Lifecycle!FinalRunStates, FinalRunStates
<1>6. Lifecycle!Stops = Stops
    BY <1>5 DEF Lifecycle!Stops, Stops, Lifecycle!T, T
<1>7. QED
    BY <1>1, <1>2, <1>3, <1>4, <1>6 DEF Lifecycle!RunTransitions, RunTransitions

\* States of a run whose pipeline is still to be approved, and those that rest on an acceptance.
Early == {"Draft", "Preflight_Running", "Blocked", "Ready", "Awaiting_Pipeline_Approval"}
Late == {"Accepted", "Completed", "Cancelled"}

\* Which states are left for which, as the gates need it.
LEMMA GateTransitions ==
    ASSUME NEW t \in RunTransitions
    PROVE  /\ t.from \notin {"Completed", "Cancelled"}
           /\ t.to \in Early => t.from \in Early /\ t.event # "Approve"
           /\ t.event = "Present_pipeline" => t.from \in Early
           /\ t.event = "Verify_merge_success" => t.from = "Accepted" /\ t.to = "Completed"
           /\ t.event = "Merge_verification_failed" => t.to = "Needs_Attention"
           /\ t.from = "Accepted" =>
                t.event \in {"Verify_merge_success", "Merge_verification_failed", "Controlled_Stop"}
           /\ t.event = "Controlled_Stop" => t.to = "Cancelled"
           /\ t.event = "Accept" => t.to = "Accepted"
           /\ t.from = "Awaiting_Pipeline_Approval" /\ t.event = "Approve" => t.to = "Preparing_Workspace"
<1> USE DEF Early, T
<1>1. CASE t \in Preparation
    BY <1>1 DEF Preparation
<1>2. CASE t \in Execution
    BY <1>2 DEF Execution
<1>3. CASE t \in Repair
    BY <1>3 DEF Repair
<1>4. CASE t \in Delivery
    BY <1>4 DEF Delivery
<1>5. CASE t \in Stops
    BY <1>5 DEF Stops, RunStates, OpenRunStates, FinalRunStates, ActiveRunStates
<1>6. QED
    BY <1>1, <1>2, <1>3, <1>4, <1>5 DEF RunTransitions

LEMMA AcceptedBy ==
    ASSUME NEW t \in RunTransitions, t.to = "Accepted" PROVE t.event = "Accept"
<1>1. CASE t \in Delivery
    BY <1>1 DEF Delivery, T
<1>2. CASE t \notin Delivery
    BY <1>2 DEF RunTransitions, Preparation, Execution, Repair, Stops, T
<1>3. QED
    BY <1>1, <1>2

\* The pipeline of an early run is not approved; Gate F is open only for a run that was accepted,
\* and a completed one has been through it.
GateInv ==
    /\ run.state \in Early => passed["pipeline"] = NoPass
    /\ gateF.status # "none" => run.state \in Late
    /\ run.state \in {"Accepted", "Completed"} => gateF.status # "none"

\* A step that leaves the state of the run and its gates alone.
LEMMA QuietGates ==
    ASSUME GateInv, run'.state = run.state, passed'["pipeline"] = passed["pipeline"],
           gateF'.status # "none" <=> gateF.status # "none"
    PROVE  GateInv' /\ UNCHANGED <<run.state, GatesPassed>>
BY DEF GateInv, GatesPassed

\* A transition that passes no gate and takes none back, Gate F included.
LEMMA PlainGates ==
    ASSUME GateInv, passed'["pipeline"] = passed["pipeline"],
           gateF'.status # "none" <=> gateF.status # "none",
           NEW t \in RunTransitions, t.from = run.state, run'.state = t.to,
           t.event \notin {"Accept", "Merge_verification_failed"},
           t.event = "Approve" => t.from # "Awaiting_Pipeline_Approval"
    PROVE  GateInv' /\ Lifecycle!Next
<1> USE DEF GateInv, Early, Late
<1>1. GateInv'
    <2>1. run'.state \in Early => passed'["pipeline"] = NoPass
        BY GateTransitions
    <2>2. run'.state = "Completed" => run.state = "Accepted"
        BY GateTransitions, TableFacts
    <2>3. t.event # "Accept" => run'.state # "Accepted"
        BY AcceptedBy
    <2>4. gateF.status # "none" => run'.state \in Late
        BY GateTransitions
    <2>5. QED
        BY <2>1, <2>2, <2>3, <2>4
<1>2. GatesPassed' = Lifecycle!GatesAfter(t, GatesPassed)
    <2> USE DEF Lifecycle!GatesAfter, GatesPassed
    <2>1. run.state # "Completed"
        BY GateTransitions
    <2>2. CASE t.event = "Edit"
        BY <2>1, <2>2, EditFrom, TableFacts
    <2>3. CASE t.event # "Edit" /\ t.to \in {"Running", "Needs_Attention"}
        BY <2>1, <2>3, GateTransitions
    <2>4. CASE t.event # "Edit" /\ t.to \notin {"Running", "Needs_Attention"}
        BY <2>1, <2>4, GateTransitions, TableFacts
    <2>5. QED
        BY <2>2, <2>3, <2>4
<1>3. QED
    BY <1>1, <1>2, SameTable DEF Lifecycle!Take, Lifecycle!Next

\* What a step of the run is to its life cycle.
LifeStep == GateInv' /\ (Lifecycle!Next \/ UNCHANGED <<run.state, GatesPassed>>)

LEMMA QuietStep ==
    ASSUME GateInv, run'.state = run.state, passed'["pipeline"] = passed["pipeline"],
           gateF'.status # "none" <=> gateF.status # "none"
    PROVE  LifeStep
BY QuietGates DEF LifeStep

LEMMA PlainStep ==
    ASSUME GateInv, TypeOK, passed'["pipeline"] = passed["pipeline"], gateF'.status = gateF.status,
           NEW event, NEW context, NEW step \in Steps, Move(event, context, step),
           event \notin {"Accept", "Merge_verification_failed"},
           event = "Approve" => run.state # "Awaiting_Pipeline_Approval"
    PROVE  LifeStep
<1>1. PICK t \in RunTransitions : t.from = run.state /\ t.event = event /\ run'.state = t.to
    BY MoveIs, TypeParts
<1>2. QED
    BY <1>1, PlainGates DEF LifeStep

\* Gate A: the pipeline is approved.
LEMMA ApproveStep == ASSUME GateInv, TypeOK, ApprovePipeline PROVE LifeStep
<1>1. PICK t \in RunTransitions : /\ t.from = "Awaiting_Pipeline_Approval" /\ t.event = "Approve"
                                  /\ t.from = run.state /\ run'.state = t.to
    BY MoveIs, NextSteps, TypeParts DEF ApprovePipeline, RunType
<1>2. passed'["pipeline"] # NoPass
    <2>1. passed'["pipeline"].by.state = "Approved"
        BY PassTypes, TypeParts DEF ApprovePipeline, Gates, PassedType, Pass, Binds
    <2>2. QED
        BY <2>1 DEF NoPass, NoDecision
<1>3. gateF' = gateF /\ gateF.status = "none" /\ passed["pipeline"] = NoPass
    BY <1>1 DEF ApprovePipeline, GateInv, Early, Late
<1>4. t.to = "Preparing_Workspace"
    BY <1>1, GateTransitions
<1>5. GateInv'
    BY <1>1, <1>3, <1>4 DEF GateInv, Early
<1>6. GatesPassed' = Lifecycle!GatesAfter(t, GatesPassed)
    <2>1. GatesPassed = {}
        BY <1>1, <1>3 DEF GatesPassed
    <2>2. GatesPassed' = {"pipeline"}
        BY <1>1, <1>2, <1>3, <1>4 DEF GatesPassed
    <2>3. Lifecycle!GatesAfter(t, GatesPassed) = GatesPassed \cup {"pipeline"}
        BY <1>1, <1>4 DEF Lifecycle!GatesAfter
    <2>4. QED
        BY <2>1, <2>2, <2>3
<1>7. QED
    BY <1>1, <1>5, <1>6, SameTable DEF LifeStep, Lifecycle!Take, Lifecycle!Next

\* Gate E: the snapshot is accepted, or changes are asked for.
LEMMA AcceptanceStep == ASSUME GateInv, TypeOK, DecideAcceptance PROVE LifeStep
<1>0. {FirstStep, "deliver"} \subseteq Steps
    BY NextSteps, TypeParts DEF Steps, RunType
<1>1. CASE /\ Move("Accept", {"diffPresented", "testsPresented", "reviewPresented"}, "deliver")
           /\ Mark("acceptance", decision') /\ gateF' = PendingManualMerge
    <2>1. PICK t \in RunTransitions : t.event = "Accept" /\ t.from = run.state /\ run'.state = t.to
        BY <1>0, <1>1, MoveIs, TypeParts
    <2>2. t.from = "Awaiting_Acceptance" /\ t.to = "Accepted"
        BY <2>1, TableFacts, GateTransitions
    <2>3. gateF'.status # "none" /\ passed'["pipeline"] = passed["pipeline"]
        BY <1>1, TypeParts DEF PendingManualMerge, NoMerge, Mark, PassedType, Gates
    <2>4. GateInv'
        BY <2>1, <2>2, <2>3 DEF GateInv, Early, Late
    <2>5. GatesPassed' = Lifecycle!GatesAfter(t, GatesPassed)
        BY <2>1, <2>2, <2>3 DEF GatesPassed, Lifecycle!GatesAfter
    <2>6. QED
        BY <2>1, <2>4, <2>5, SameTable DEF LifeStep, Lifecycle!Take, Lifecycle!Next
<1>2. CASE Move("Request_changes", {"reasonSaved"}, FirstStep) /\ UNCHANGED <<passed, work, gateF>>
    BY <1>0, <1>2, PlainStep
<1>3. QED
    BY <1>1, <1>2 DEF DecideAcceptance

\* Gate F: the merge is not what it should be, and what was read of it goes with the acceptance.
LEMMA FailMergeStep == ASSUME GateInv, TypeOK, FailMerge PROVE LifeStep
<1>1. PICK t \in RunTransitions : /\ t.event = "Merge_verification_failed"
                                  /\ t.from = run.state /\ run'.state = t.to
    BY MoveIs, NextSteps, TypeParts DEF FailMerge, RunType
<1>2. t.to = "Needs_Attention" /\ run.state = "Accepted"
    BY <1>1, GateTransitions DEF FailMerge
<1>3. gateF'.status = "none" /\ passed' = passed
    BY DEF FailMerge, NoMerge, gates
<1>4. GateInv'
    BY <1>1, <1>2, <1>3 DEF GateInv, Early
<1>5. GatesPassed' = Lifecycle!GatesAfter(t, GatesPassed)
    BY <1>1, <1>2, <1>3 DEF GatesPassed, Lifecycle!GatesAfter
<1>6. QED
    BY <1>1, <1>4, <1>5, SameTable DEF LifeStep, Lifecycle!Take, Lifecycle!Next

LEMMA CompleteStep == ASSUME GateInv, TypeOK, Complete PROVE LifeStep
<1>1. PICK context : \E t \in ApplyRun(run.state, "Verify_merge_success", context) :
            run' = [run EXCEPT !.state = t.to, !.since = gateF.at]
    BY DEF Complete
<1>2. PICK t \in RunTransitions : /\ t.event = "Verify_merge_success" /\ t.from = run.state
                                  /\ run' = [run EXCEPT !.state = t.to, !.since = gateF.at]
    BY <1>1 DEF ApplyRun
<1>3. run'.state = t.to
    BY <1>2, TypeParts DEF RunType
<1>4. UNCHANGED <<passed, gateF>>
    BY DEF Complete
<1>5. QED
    BY <1>2, <1>3, <1>4, PlainGates DEF LifeStep

LEMMA NextGates == GateInv /\ TypeOK /\ [Next]_vars => LifeStep
<1> SUFFICES ASSUME GateInv, TypeOK, [Next]_vars PROVE LifeStep
    OBVIOUS
<1>0. /\ {FirstStep, run.step, "build", "deliver"} \subseteq Steps /\ run.step \in Steps
      /\ passed \in [Gates -> Passes \cup {NoPass}]
      /\ run \in [state : RunStates, step : Steps, since : Nat]
    BY TypeParts, NextSteps DEF RunType, PassedType, Steps
<1>1. CASE UNCHANGED <<run, passed, gateF>>
    BY <1>1, QuietStep
<1>2. CASE SnapshotContext
    <2>1. passed'["pipeline"] = passed["pipeline"]
        BY <1>0, <1>2 DEF SnapshotContext, Pass, Mark, Gates
    <2>2. QED
        BY <1>2, <2>1, QuietStep DEF SnapshotContext
<1>3. CASE PresentPipeline \/ EditPipeline \/ StartPreflight
    <2>1. UNCHANGED <<passed, gateF>>
        BY <1>3 DEF PresentPipeline, EditPipeline, StartPreflight, gates
    <2>2. \E event \in {"Present_pipeline", "Edit", "Start_Preflight"} : \E context :
            Move(event, context, FirstStep)
        BY <1>3 DEF PresentPipeline, EditPipeline, StartPreflight
    <2>3. QED
        BY <1>0, <2>1, <2>2, PlainStep
<1>4. ASSUME NEW machine \in Machines, Preflight(machine) PROVE LifeStep
    <2>1. UNCHANGED <<passed, gateF>>
        BY <1>4 DEF Preflight, gates
    <2>2. \E event \in {"Checks_passed", "Critical_check_failed"} : \E context :
            Move(event, context, FirstStep)
        BY <1>4 DEF Preflight
    <2>3. QED
        BY <1>0, <2>1, <2>2, PlainStep
<1>5. CASE PrepareWorkspace
    <2>1. UNCHANGED <<passed, gateF>>
        BY <1>5 DEF PrepareWorkspace, gates
    <2>2. \E event \in {"Worktree_ready", "Failure"} : \E context : Move(event, context, FirstStep)
        BY <1>5 DEF PrepareWorkspace
    <2>3. QED
        BY <1>0, <2>1, <2>2, PlainStep
<1>6. CASE ApproveHandoff
    <2>1. passed'["pipeline"] = passed["pipeline"] /\ gateF' = gateF
        BY <1>0, <1>6 DEF ApproveHandoff, Pass, Mark, Gates
    <2>2. run'.state = run.state
        BY <1>0, <1>6 DEF ApproveHandoff
    <2>3. QED
        BY <2>1, <2>2, QuietStep
<1>7. CASE Build
    BY <1>0, <1>7, QuietStep DEF Build, gates
<1>8. ASSUME NEW findings \in ReviewInputs, CriticalReview(findings) PROVE LifeStep
    <2>1. UNCHANGED <<passed, gateF>> /\ Move("Critical_finding", {"criticalFinding"}, "build")
        BY <1>8 DEF CriticalReview
    <2>2. QED
        BY <1>0, <2>1, PlainStep
<1>9. ASSUME NEW findings \in ReviewInputs, NEW exceptionApproved \in BOOLEAN,
             Correct(findings, exceptionApproved)
      PROVE  LifeStep
    <2>1. UNCHANGED <<passed, gateF>>
        BY <1>9 DEF Correct, gates
    <2>2. \/ run' = [run EXCEPT !.step = NextStep("review")]
          \/ run' = [run EXCEPT !.step = "build"]
          \/ \E event \in {"Review_failed_correction", "Review_failed_exhausted"} : \E context :
                Move(event, context, "build")
        BY <1>9 DEF Correct
    <2>3. CASE \/ run' = [run EXCEPT !.step = NextStep("review")]
               \/ run' = [run EXCEPT !.step = "build"]
        <3>1. run'.state = run.state
            BY <1>0, <2>3
        <3>2. QED
            BY <2>1, <3>1, QuietStep
    <2>4. QED
        BY <1>0, <2>1, <2>2, <2>3, PlainStep
<1>10. CASE ApproveCritical
    <2>1. passed'["pipeline"] = passed["pipeline"] /\ gateF' = gateF
        BY <1>0, <1>10 DEF ApproveCritical, Pass, Mark, Gates
    <2>2. run.state # "Awaiting_Pipeline_Approval" /\ Move("Approve", {"approvalValid"}, "build")
        BY <1>10 DEF ApproveCritical
    <2>3. QED
        BY <1>0, <2>1, <2>2, PlainStep
<1>11. CASE RejectCritical
    BY <1>0, <1>11, PlainStep DEF RejectCritical, gates
<1>12. ASSUME NEW machine \in Machines, NEW override \in BOOLEAN, Rework(machine, override)
       PROVE  LifeStep
    <2>1. UNCHANGED <<passed, gateF>>
        BY <1>12 DEF Rework, gates
    <2>2. \E event \in {"Retry", "Replace_Agent"} : \E context : Move(event, context, FirstStep)
        BY <1>12 DEF Rework
    <2>3. QED
        BY <1>0, <2>1, <2>2, PlainStep
<1>13. CASE Deliver
    BY <1>0, <1>13, PlainStep DEF Deliver
<1>14. CASE VerifyHead
    BY <1>14, QuietStep DEF VerifyHead, NoMerge, gates
<1>15. ASSUME NEW patchGiven \in PatchChoices, VerifyMerge(patchGiven) PROVE LifeStep
    <2>1. gateF.status = "read" /\ gateF'.status = "Verified" /\ UNCHANGED <<run, passed>>
        BY <1>15, TypeParts DEF VerifyMerge, gates, GateFType, Merges
    <2>2. QED
        BY <2>1, QuietStep
<1>16. CASE Stop
    <2>1. UNCHANGED <<passed, gateF>>
        BY <1>16 DEF Stop
    <2>2. \E event \in {"Controlled_Stop", "Stop"} : \E context : Move(event, context, run.step)
        BY <1>16 DEF Stop
    <2>3. QED
        BY <1>0, <2>1, <2>2, PlainStep
<1>17. QED
    BY <1>1, <1>2, <1>3, <1>4, <1>5, <1>6, <1>7, <1>8, <1>9, <1>10, <1>11, <1>12, <1>13, <1>14, <1>15,
       <1>16, ApproveStep, AcceptanceStep, FailMergeStep, CompleteStep
    DEF Next, vars, gates, Reply, Decide, SelectContext, AskContext, ReviseHandoff, AskHandoff,
        RefreshSnapshot, AskAcceptance, Push, CommitLate, Tick, CleanUp

\* The gates hold together in every state a run comes to.
LEMMA AlwaysGates == Spec => [](TypeOK /\ GateInv)
<1>1. Init => GateInv
    BY DEF Init, GateInv, NoMerge, Gates
<1>2. TypeOK /\ GateInv /\ [Next]_vars => GateInv'
    BY NextGates DEF LifeStep
<1>3. QED
    BY <1>1, <1>2, TypeCorrect, PTL DEF Spec

\* A run takes only legal steps of its life cycle, and its gates follow.
THEOREM DeliveryFollowsLifecycle == Spec => RunSteps
<1>1. GateInv /\ TypeOK /\ [Next]_vars => [Lifecycle!Next]_<<run.state, GatesPassed>>
    BY NextGates DEF LifeStep
<1>2. QED
    BY <1>1, AlwaysGates, PTL DEF Spec, RunSteps

\* A completed run is through its gates: Gate F is not closed by completion, nor opened by a way
\* around the acceptance.
THEOREM CompletedIsAccepted == Spec => []Lifecycle!CompletedThroughGates
<1>1. GateInv => Lifecycle!CompletedThroughGates
    BY DEF GateInv, GatesPassed, Lifecycle!CompletedThroughGates
<1>2. QED
    BY <1>1, AlwaysGates, PTL
================================================================================
