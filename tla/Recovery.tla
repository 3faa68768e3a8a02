------------------------------- MODULE Recovery -------------------------------
(***************************************************************************)
(* Supervision of the attempt of a run, and what may follow when it goes   *)
(* silent or the service restarts: the automatic technical retry, the      *)
(* report with its guards for Resume, Replace and Stop, checkpoints, the   *)
(* safe shutdown, and the external effects (network attempts under a       *)
(* grant) that must not happen twice.                                      *)
(*                                                                         *)
(* The supervisor keeps its attempts in memory.  Which attempts may still  *)
(* be alive, and what is recorded of an effect, is handed to the code by   *)
(* its caller; here the caller keeps both across restarts, takes an        *)
(* attempt off only when its process is gone, and asks for a new report    *)
(* for each decision.  Times are ages, counted up to the largest threshold *)
(* that reads them.                                                        *)
(***************************************************************************)
EXTENDS StateMachine, Recommendation

CONSTANTS
    Effects,             \* external effects the work of the run has
    FirstAdapters,       \* adapters the first attempt may work with
    Detected,            \* versions that may be detected of the adapters
    RequirementSets,     \* requirements a step may have
    HeartbeatInterval, UnresponsiveAfter, FailureAfter, TimeoutAfter,   \* in ticks
    GrantTtl,            \* NETWORK_GRANT_TTL_MINUTES in ticks
    MaxAttempts,         \* bound: attempts of the run
    MaxTrouble           \* bound: crashes, damaged files and shutdowns that time out together

\* validateSupervisionThresholds
ASSUME RecoveryAssumption ==
    /\ {HeartbeatInterval, UnresponsiveAfter, FailureAfter, TimeoutAfter} \subseteq Nat
    /\ 0 < HeartbeatInterval /\ HeartbeatInterval < UnresponsiveAfter
    /\ UnresponsiveAfter < FailureAfter /\ FailureAfter < TimeoutAfter
    /\ FirstAdapters \subseteq APPROVED_ADAPTER_IDS
    /\ \A requirements \in RequirementSets : IsFiniteSet(requirements)
    /\ GrantTtl \in Nat /\ MaxAttempts \in Nat \ {0} /\ MaxTrouble \in Nat

VARIABLES
    run, step,      \* the states of the run and of its step
    up,             \* whether the service is running
    watched,        \* what the supervisor holds of the current attempt: ages of start and last heartbeat
    current,        \* the attempt that works for the run; 0 before the first
    adapter,        \* its adapter
    alive,          \* attempts whose process lives
    unclosed,       \* attempts whose end nobody has seen
    verdict,        \* the last evaluation of the current attempt
    effect,         \* per effect: what is recorded, the attempt at work on it, and how often it happened
    tried,          \* effects the current attempt has begun
    grant,          \* ticks the network grant is still valid for
    intact,         \* what of the run's files is on disk and unchanged
    report,         \* which actions the last report allows
    retries,        \* automatic technical retries of the step
    trouble

supervisor == <<watched, verdict>>
processes == <<current, adapter, alive, unclosed>>
effects == <<effect, tried, grant>>
decisions == <<report, retries>>
vars == <<run, step, up, supervisor, processes, effects, intact, decisions, trouble>>

RetryLimit == 1    \* TECHNICAL_RETRY_LIMIT

Ids == 1..MaxAttempts
Ages == [elapsed : 0..TimeoutAfter, silence : 0..FailureAfter]
Fresh == [elapsed |-> 0, silence |-> 0]
Verdicts == {"none", "Running", "Heartbeat_Due", "Unresponsive", "Failed", "Timeout_Decision_Required"}
NoReport == [Resume |-> FALSE, Replace |-> FALSE, Stop |-> FALSE]

TypeOK ==
    /\ run \in RunStates /\ step \in StepStates /\ up \in BOOLEAN
    /\ watched \in SUBSET Ages /\ \A x, y \in watched : x = y
    /\ current \in 0..MaxAttempts /\ adapter \in APPROVED_ADAPTER_IDS
    /\ alive \subseteq unclosed /\ unclosed \subseteq Ids
    /\ verdict \in Verdicts
    /\ effect \in [Effects -> [record : {"None", "Known", "Unknown"}, by : 0..MaxAttempts, done : Nat]]
    /\ tried \subseteq Effects /\ grant \in 0..GrantTtl
    /\ intact \subseteq {"checkpoint", "artifacts", "workspace"}
    /\ report \in [Resume : BOOLEAN, Replace : BOOLEAN, Stop : BOOLEAN]
    /\ retries \in 0..RetryLimit /\ trouble \in Nat

\* The first attempt has just been registered.
Init ==
    /\ run = "Running" /\ step = "Running" /\ up = TRUE
    /\ watched = {Fresh}
    /\ current = 1 /\ alive = {1} /\ unclosed = {1}
    /\ adapter \in FirstAdapters
    /\ verdict = "none"
    /\ effect = [e \in Effects |-> [record |-> "None", by |-> 0, done |-> 0]]
    /\ tried = {} /\ grant = 0
    /\ intact = {"artifacts", "workspace"}
    /\ report = NoReport /\ retries = 0
    /\ trouble = 0

-----------------------------------------------------------------------------
(* Transitions and attempts                                                *)

MoveRun(event, context) == \E t \in ApplyRun(run, event, context) : run' = t.to
MoveStep(event, context) == \E t \in ApplyStep(step, event, context) : step' = t.to

\* The two tables are asked separately; that of steps has no way back from Unresponsive when a
\* session reconnects, so a step may be behind its run.
MoveStepToo(event, context) ==
    MoveStep(event, context) \/ (ApplyStep(step, event, context) = {} /\ UNCHANGED step)

Disturb == trouble < MaxTrouble /\ trouble' = trouble + 1

\* registerAttempt refuses an id it has; every start takes a new one.
StartAttempt ==
    /\ current < MaxAttempts
    /\ current' = current + 1
    /\ alive' = alive \cup {current'} /\ unclosed' = unclosed \cup {current'}
    /\ watched' = {Fresh}
    /\ verdict' = "none"
    /\ tried' = {}
    /\ report' = NoReport

Age(age, limit) == IF age < limit THEN age + 1 ELSE age

Tick ==
    /\ watched' = {[elapsed |-> Age(w.elapsed, TimeoutAfter), silence |-> Age(w.silence, FailureAfter)] :
                    w \in watched}
    /\ grant' = IF grant > 0 THEN grant - 1 ELSE 0
    /\ watched' # watched \/ grant' # grant
    /\ UNCHANGED <<run, step, up, verdict, processes, effect, tried, intact, decisions, trouble>>

\* The process of an attempt ends; the caller sees it then, or at a later look.
Exit(a) ==
    /\ a \in alive
    /\ alive' = alive \ {a}
    /\ unclosed' = IF up THEN unclosed \ {a} ELSE unclosed
    /\ UNCHANGED <<run, step, up, supervisor, current, adapter, effects, intact, decisions, trouble>>

SeeExit(a) ==
    /\ up /\ a \in unclosed \ alive
    /\ unclosed' = unclosed \ {a}
    /\ UNCHANGED <<run, step, up, supervisor, current, adapter, alive, effects, intact, decisions, trouble>>

-----------------------------------------------------------------------------
(* Supervision                                                             *)

\* A heartbeat is taken whenever it comes: also after 300 s, and whatever the run has become.
Heartbeat ==
    /\ up /\ current \in alive
    /\ \E w \in watched : watched' = {[w EXCEPT !.silence = 0]}
    /\ UNCHANGED <<run, step, up, verdict, processes, effects, intact, decisions, trouble>>

\* A bug: an attempt over its time is never found silent.
ClassifyTimeoutFirst(age) ==
    IF age.elapsed >= TimeoutAfter THEN "Timeout_Decision_Required"
    ELSE IF age.silence >= UnresponsiveAfter THEN "Unresponsive" ELSE "Running"

\* The order of the tests matters: an attempt over its time and silent is treated as silent.
Classify(age) ==
    CASE age.elapsed >= TimeoutAfter /\ age.silence < UnresponsiveAfter -> "Timeout_Decision_Required"
      [] age.silence >= FailureAfter -> "Failed"
      [] age.silence \in UnresponsiveAfter..(FailureAfter - 1) -> "Unresponsive"
      [] OTHER -> IF age.silence >= HeartbeatInterval THEN "Heartbeat_Due" ELSE "Running"

Evaluate ==
    /\ up /\ \E w \in watched : verdict' = Classify(w)
    /\ UNCHANGED <<run, step, up, watched, processes, effects, intact, decisions, trouble>>

\* The caller acts on an evaluation, which a heartbeat may have overtaken.
MarkUnresponsive ==
    /\ up /\ verdict \in {"Unresponsive", "Failed"}
    /\ MoveRun("Heartbeat_missing_120s", {"activeAttempt"})
    /\ MoveStepToo("Heartbeat_missing_120s", {"activeAttempt"})
    /\ UNCHANGED <<up, supervisor, processes, effects, intact, decisions, trouble>>

\* createReconnectPlan: not once the attempt is found failed; the session answers.
Reconnected ==
    /\ up /\ verdict \in {"Heartbeat_Due", "Unresponsive", "Timeout_Decision_Required"}
    /\ current \in alive
    /\ MoveRun("Reconnected_before_300s", {"sessionVerified"})
    /\ UNCHANGED <<step, up, supervisor, processes, effects, intact, decisions, trouble>>

-----------------------------------------------------------------------------
(* External effects                                                        *)

\* The user approves a network grant for the step.
Approve ==
    /\ up /\ grant < GrantTtl
    /\ grant' = GrantTtl
    /\ UNCHANGED <<run, step, up, supervisor, processes, effect, tried, intact, decisions, trouble>>

\* recordNetworkAttempt at the start of an attempt: whatever comes of it, and also when no grant
\* allows it, the state is Unknown.  An agent knows the effects whose result is recorded.
BeginEffect(e) ==
    /\ up /\ current \in alive
    /\ e \notin tried /\ effect[e].record # "Known"
    /\ tried' = tried \cup {e}
    /\ effect' = [effect EXCEPT ![e].record = "Unknown", ![e].by = IF grant > 0 THEN current ELSE 0]
    /\ UNCHANGED <<run, step, up, supervisor, processes, grant, intact, decisions, trouble>>

\* The request leaves the process, which goes on when the service has crashed.
Perform(e) ==
    /\ effect[e].by \in alive
    /\ effect' = [effect EXCEPT ![e].by = 0, ![e].done = @ + 1]
    /\ UNCHANGED <<run, step, up, supervisor, processes, tried, grant, intact, decisions, trouble>>

\* recordNetworkAttempt once more, with the effect completed and its result known.
KnowEffect(e) ==
    /\ up /\ current \in alive
    /\ e \in tried /\ effect[e].done > 0
    /\ effect' = [effect EXCEPT ![e].record = "Known"]
    /\ UNCHANGED <<run, step, up, supervisor, processes, tried, grant, intact, decisions, trouble>>

\* A bug: an effect that completed may be replayed though its result is not known.
ReplayIfCompleted == \A e \in Effects : effect[e].record = "Unknown" => effect[e].done > 0

\* assertReplayAllowedForExternalEffect for each of them.
ReplaySafe == \A e \in Effects : effect[e].record # "Unknown"

-----------------------------------------------------------------------------
(* Checkpoints, crash and shutdown                                         *)

WriteCheckpoint == intact' = intact \cup {"checkpoint"}

Checkpoint ==
    /\ up /\ run = "Running" /\ "checkpoint" \notin intact
    /\ WriteCheckpoint
    /\ UNCHANGED <<run, step, up, supervisor, processes, effects, decisions, trouble>>

Damage(file) ==
    /\ Disturb
    /\ file \in intact
    /\ intact' = intact \ {file}
    /\ UNCHANGED <<run, step, up, supervisor, processes, effects, decisions>>

\* The service ends with its memory; the agents go on.
Crash ==
    /\ Disturb
    /\ up
    /\ up' = FALSE
    /\ watched' = {} /\ verdict' = "none" /\ report' = NoReport
    /\ UNCHANGED <<run, step, processes, effects, intact, retries>>

\* The attempts this process can cancel.  Those of an earlier lifetime are in nobody's memory, and
\* none starts while an earlier one is open: the current one is left, if the supervisor holds it.
Tracked == IF watched = {} THEN {} ELSE {current}

\* runSafeShutdown: the checkpoint first, then every attempt it was given is cancelled and its exit
\* awaited.  The caller gives it what is open, or what the process manager lists of that: an attempt
\* of an earlier lifetime is unknown there, and a shutdown that is given it throws, like one that
\* runs out of time, and leaves the transition undone; one that is not leaves it alive.
Shutdown ==
    /\ up
    /\ WriteCheckpoint
    /\ \/ /\ alive' = alive \ Tracked /\ unclosed' = unclosed \ Tracked
          /\ MoveRun("Service_shutdown", {"checkpointSaved", "childProcessesClosed"})
          /\ up' = FALSE
          /\ watched' = {} /\ verdict' = "none" /\ report' = NoReport
          /\ UNCHANGED trouble
       \/ /\ Disturb \/ (unclosed \ Tracked # {} /\ UNCHANGED trouble)
          /\ \E cancelled \in SUBSET (unclosed \cap Tracked) :
                alive' = alive \ cancelled /\ unclosed' = unclosed \ cancelled
          /\ UNCHANGED <<run, up, watched, verdict, report>>
    /\ UNCHANGED <<step, current, adapter, effects, retries>>

\* A bug: a report is made of a run that has ended as well.
RestartEnded ==
    /\ ~up
    /\ up' = TRUE
    /\ run' = "Recovery_Required"
    /\ UNCHANGED <<step, supervisor, processes, effects, intact, decisions, trouble>>

\* The service starts: an active run is presented as Recovery Required, and nothing resumes by itself.
\* The report would say so of any run; its caller makes it of active work (decisions/log.md).
Restart ==
    /\ ~up
    /\ up' = TRUE
    /\ run' = IF run \in ActiveRunStates THEN "Recovery_Required" ELSE run
    /\ UNCHANGED <<step, supervisor, processes, effects, intact, decisions, trouble>>

-----------------------------------------------------------------------------
(* Report, retry, resume, replace, stop                                    *)

\* A bug: whether a child may be alive is asked of Resume only.
GuardsReplaceAnyway ==
    LET safe == {"checkpoint", "workspace"} \subseteq intact IN
    [Resume |-> safe /\ "artifacts" \in intact /\ unclosed = {} /\ ReplaySafe,
     Replace |-> safe /\ ReplaySafe, Stop |-> "checkpoint" \in intact]

\* createRecoveryActionGuards: what each action wants verified.
Guards ==
    LET safe == {"checkpoint", "workspace"} \subseteq intact /\ unclosed = {} IN
    [Resume |-> safe /\ "artifacts" \in intact /\ ReplaySafe,
     Replace |-> safe /\ ReplaySafe,
     Stop |-> "checkpoint" \in intact]

\* The report is made once and frozen; files may change before the user decides.
Report ==
    /\ up /\ run \in {"Unresponsive", "Recovery_Required", "Needs_Attention"}
    /\ report' = Guards
    /\ UNCHANGED <<run, step, up, supervisor, processes, effects, intact, retries, trouble>>

\* A bug: the retries so far are not counted.
RetryUncounted ==
    /\ up /\ ReplaySafe /\ report.Resume
    /\ MoveStep("Retry", {"retryAllowed"})
    /\ retries' = retries + 1
    /\ WriteCheckpoint
    /\ UNCHANGED <<run, up, supervisor, processes, effects, report, trouble>>

\* createRetryDecision reads the effects again; the checkpoint before a retry is written with it.
Retry ==
    /\ up /\ retries < RetryLimit
    /\ ReplaySafe /\ report.Resume
    /\ MoveStep("Retry", {"retryAllowed"})
    /\ retries' = retries + 1
    /\ WriteCheckpoint
    /\ UNCHANGED <<run, up, supervisor, processes, effects, report, trouble>>

\* The attempt of the retry starts; the run stays Unresponsive until its session is verified.
Restarted ==
    /\ up /\ run = "Unresponsive"
    /\ MoveStep("Restarted", {"activeAttempt"})
    /\ StartAttempt
    /\ UNCHANGED <<run, up, adapter, effect, grant, intact, retries, trouble>>

\* The automatic retry was used: the step fails, and the run needs attention.
GiveUp ==
    /\ up /\ verdict = "Failed" /\ retries >= RetryLimit
    /\ MoveRun("No_recovery_at_300s", {"automaticRetryUsed"})
    /\ MoveStepToo("Fail", {"not_retryAllowed"})
    /\ UNCHANGED <<up, supervisor, processes, effects, intact, decisions, trouble>>

\* Approved by the user under the report; the step begins anew.
Resume ==
    /\ up /\ report.Resume
    /\ MoveRun("Resume_approved", {"checkpointValid", "externalEffectsVerified"})
    /\ step' = "Running"
    /\ StartAttempt
    /\ UNCHANGED <<up, adapter, effect, grant, intact, retries, trouble>>

\* createAgentReplacementPlan: the first recommended adapter that is eligible and another one.
Replace(detected, requirements, allowQualityOverride) ==
    /\ up /\ report.Replace
    /\ run \in {"Recovery_Required", "Needs_Attention"}
    /\ \/ MoveRun("Replace_approved", {"replacementAdapterPreflightPassed"})
       \/ MoveRun("Replace_Agent", {"replacementAdapterQualified"})
    /\ LET recommended == Recommended(Registry(detected, <<>>), requirements, allowQualityOverride, 3) IN
        \E other \in recommended \ {adapter} : adapter' = other
    /\ step' = "Running"
    /\ StartAttempt
    /\ UNCHANGED <<up, effect, grant, intact, retries, trouble>>

Stop ==
    /\ up /\ report.Stop
    /\ run = "Recovery_Required"
    /\ MoveRun("Stop", {"checkpointSaved"})
    /\ UNCHANGED <<step, up, supervisor, processes, effects, intact, decisions, trouble>>

Next ==
    \/ Tick
    \/ \E a \in Ids : Exit(a) \/ SeeExit(a)
    \/ Heartbeat \/ Evaluate \/ MarkUnresponsive \/ Reconnected
    \/ Approve
    \/ \E e \in Effects : BeginEffect(e) \/ Perform(e) \/ KnowEffect(e)
    \/ Checkpoint \/ Crash \/ Shutdown \/ Restart
    \/ \E file \in {"checkpoint", "artifacts", "workspace"} : Damage(file)
    \/ Report \/ Retry \/ Restarted \/ GiveUp \/ Resume \/ Stop
    \/ \E detected \in Detected, requirements \in RequirementSets, override \in BOOLEAN :
        Replace(detected, requirements, override)

\* Time passes, the supervisor evaluates and its caller acts, and a service that ended starts again.
Fairness == WF_vars(Tick) /\ WF_vars(Evaluate) /\ WF_vars(MarkUnresponsive) /\ WF_vars(Restart)

Spec == Init /\ [][Next]_vars /\ Fairness

-----------------------------------------------------------------------------
(* Properties                                                              *)

\* Through silence, late heartbeats, crashes, retry, resume and replacement, at most one agent of
\* the run is alive: nobody starts beside an attempt that was only given up.
OneAgent == \A a, b \in alive : a = b

\* An external effect happens at most once, though attempts end, and the service crashes, between
\* the request and the record of its result.
EffectOnce == \A e \in Effects : effect[e].done <= 1

\* Whenever an attempt starts, by retry, resume or replacement, no earlier attempt of the run is open
\* and no effect has an unknown outcome: what the frozen report said then is still so.
StartsAreSafe ==
    [][current' # current => unclosed = {} /\ \A e \in Effects : effect[e].record # "Unknown"]_vars

\* While a run is Running the supervisor holds its attempt, and finds it silent once it is, whatever
\* its age: no restart, shutdown or reconnection leaves a running run unwatched.
RunningIsWatched ==
    up /\ run = "Running" =>
        \E w \in watched : w.silence >= UnresponsiveAfter => Classify(w) \in {"Unresponsive", "Failed"}

\* The run is past Gate A, and no gate after it is passed.
Lifecycle == INSTANCE RunLifecycle WITH state <- run, gates <- {"pipeline"}

\* Supervision, restart and recovery take the run no way its life cycle has not: a restart, which
\* sets the state without asking the table, goes where a shutdown could have gone, and recovery from
\* there, or after it from attention, never meets a run that had ended.
RunSteps == [][Lifecycle!Next]_run

\* A run does not stay Running for an agent that is gone: silence is noticed however the tests of
\* the supervisor are ordered, or the restart has put the run to the user.
SilenceIsNoticed == (run = "Running" /\ current \notin alive) ~> (run # "Running")
=============================================================================
