---------------------------- MODULE RecoveryProofs ----------------------------
(* Theorems about Recovery, for all effects, thresholds, adapters and bounds.  *)
EXTENDS Recovery, TLAPS

-----------------------------------------------------------------------------
(* The tables, the ages and the registry                                   *)

\* The run table speaks of run states only.
LEMMA RunTableTyped ==
    ASSUME NEW t \in RunTransitions PROVE t.to \in RunStates
<1>1. CASE t \in Preparation
    BY <1>1 DEF Preparation, T, RunStates
<1>2. CASE t \in Execution
    BY <1>2 DEF Execution, T, RunStates
<1>3. CASE t \in Repair
    BY <1>3 DEF Repair, T, RunStates
<1>4. CASE t \in Delivery
    BY <1>4 DEF Delivery, T, RunStates
<1>5. CASE t \in Stops
    BY <1>5 DEF Stops, T, RunStates
<1>6. QED
    BY <1>1, <1>2, <1>3, <1>4, <1>5 DEF RunTransitions

\* The step table speaks of step states only, and only the event Retry leads to Retrying.
LEMMA StepTableTyped ==
    ASSUME NEW t \in StepTransitions
    PROVE  t.to \in StepStates /\ (t.to = "Retrying" => t.event = "Retry")
BY DEF StepTransitions, T, StepStates

\* Stopping does not lead back to work.
LEMMA StopsEnd ==
    ASSUME NEW t \in RunTransitions, t.event = "Stop" PROVE t.to # "Running"
<1>1. CASE t \in Preparation
    BY <1>1 DEF Preparation, T
<1>2. CASE t \in Execution
    BY <1>2 DEF Execution, T
<1>3. CASE t \in Repair
    BY <1>3 DEF Repair, T
<1>4. CASE t \in Delivery
    BY <1>4 DEF Delivery, T
<1>5. CASE t \in Stops
    BY <1>5 DEF Stops, T
<1>6. QED
    BY <1>1, <1>2, <1>3, <1>4, <1>5 DEF RunTransitions

LEMMA RunMoves ==
    ASSUME NEW event, NEW context, MoveRun(event, context) PROVE run' \in RunStates
BY RunTableTyped DEF MoveRun, ApplyRun

LEMMA StepMoves ==
    ASSUME NEW event, NEW context, step \in StepStates,
           MoveStep(event, context) \/ MoveStepToo(event, context)
    PROVE  step' \in StepStates /\ (step' = "Retrying" => step = "Retrying" \/ event = "Retry")
BY StepTableTyped DEF MoveStep, MoveStepToo, ApplyStep

\* Ages stop at the limits that read them.
LEMMA AgeBounded ==
    ASSUME NEW limit \in Nat, NEW age \in 0..limit PROVE Age(age, limit) \in 0..limit
BY DEF Age

\* The thresholds are positive, so a fresh attempt has an age.
LEMMA FreshIsAge == Fresh \in Ages
BY RecoveryAssumption DEF Fresh, Ages

\* The registry recommends approved adapters only.
LEMMA RecommendedApproved ==
    ASSUME NEW registry, NEW requirements, NEW override, NEW limit
    PROVE  Recommended(registry, requirements, override, limit) \subseteq APPROVED_ADAPTER_IDS
BY DEF Recommended

-----------------------------------------------------------------------------
(* The inductive invariant                                                 *)

\* A report that allows to go on, and a step about to be started again, speak of a run without
\* open attempts and without effects of unknown outcome: nobody is left to change either.
Quiet == unclosed = {} /\ ReplaySafe

GoesOnQuietly == (report.Resume \/ report.Replace \/ step = "Retrying") => Quiet

\* An effect under way has not happened yet, one never begun neither, and the current attempt
\* begins only effects whose outcome is not unknown.
EffectsAccounted ==
    \A e \in Effects :
        /\ effect[e].done <= 1
        /\ effect[e].by # 0 => effect[e].done = 0
        /\ effect[e].record = "None" => effect[e].done = 0 /\ effect[e].by = 0
        /\ e \notin tried => effect[e].record # "Unknown"

IInv == TypeOK /\ OneAgent /\ GoesOnQuietly /\ EffectsAccounted

LEMMA InitInv == Init => IInv
BY FreshIsAge, RecoveryAssumption
   DEF Init, IInv, TypeOK, OneAgent, GoesOnQuietly, EffectsAccounted, RunStates, StepStates, Ids,
       Verdicts, NoReport, RetryLimit

-----------------------------------------------------------------------------
(* Types                                                                   *)

\* A new attempt takes a number below the bound and starts at age zero.
LEMMA AttemptTyped ==
    ASSUME TypeOK, StartAttempt
    PROVE  /\ current' \in 0..MaxAttempts
           /\ alive' \subseteq unclosed' /\ unclosed' \subseteq Ids
           /\ watched' \in SUBSET Ages /\ \A x, y \in watched' : x = y
           /\ verdict' \in Verdicts
           /\ tried' \subseteq Effects
           /\ report' \in [Resume : BOOLEAN, Replace : BOOLEAN, Stop : BOOLEAN]
BY FreshIsAge, RecoveryAssumption DEF TypeOK, StartAttempt, Ids, Verdicts, NoReport

LEMMA NextType == TypeOK /\ [Next]_vars => TypeOK'
<1> SUFFICES ASSUME TypeOK, [Next]_vars PROVE TypeOK'
    OBVIOUS
<1> USE DEF TypeOK
<1>1. CASE Tick
    <2>1. ASSUME NEW w \in watched
          PROVE  [elapsed |-> Age(w.elapsed, TimeoutAfter), silence |-> Age(w.silence, FailureAfter)] \in Ages
        <3>1. w.elapsed \in 0..TimeoutAfter /\ w.silence \in 0..FailureAfter
            BY DEF Ages
        <3>2. Age(w.elapsed, TimeoutAfter) \in 0..TimeoutAfter
            BY <3>1, AgeBounded, RecoveryAssumption
        <3>3. Age(w.silence, FailureAfter) \in 0..FailureAfter
            BY <3>1, AgeBounded, RecoveryAssumption
        <3>4. QED
            BY <3>2, <3>3 DEF Ages
    <2>2. watched' \in SUBSET Ages /\ \A x, y \in watched' : x = y
        BY <1>1, <2>1 DEF Tick
    <2>3. grant' \in 0..GrantTtl
        BY <1>1, RecoveryAssumption DEF Tick
    <2>4. QED
        BY <1>1, <2>2, <2>3 DEF Tick, processes, decisions
<1>2. ASSUME NEW a \in Ids, Exit(a) \/ SeeExit(a) PROVE TypeOK'
    BY <1>2 DEF Exit, SeeExit, supervisor, effects, decisions
<1>3. CASE Heartbeat
    <2>1. ASSUME NEW w \in watched PROVE [w EXCEPT !.silence = 0] \in Ages
        BY RecoveryAssumption DEF Ages
    <2>2. QED
        BY <1>3, <2>1 DEF Heartbeat, processes, effects, decisions
<1>4. CASE Evaluate
    <2>1. ASSUME NEW w \in watched PROVE Classify(w) \in Verdicts
        BY DEF Classify, Verdicts
    <2>2. QED
        BY <1>4, <2>1 DEF Evaluate, processes, effects, decisions
<1>5. CASE MarkUnresponsive
    BY <1>5, RunMoves, StepMoves DEF MarkUnresponsive, supervisor, processes, effects, decisions
<1>6. CASE Reconnected
    BY <1>6, RunMoves DEF Reconnected, supervisor, processes, effects, decisions
<1>7. CASE Approve
    BY <1>7, RecoveryAssumption DEF Approve, supervisor, processes, decisions
<1>8. ASSUME NEW e \in Effects, BeginEffect(e) \/ Perform(e) \/ KnowEffect(e) PROVE TypeOK'
    BY <1>8, RecoveryAssumption DEF BeginEffect, Perform, KnowEffect, supervisor, processes, decisions
<1>9. CASE Checkpoint
    BY <1>9 DEF Checkpoint, WriteCheckpoint, supervisor, processes, effects, decisions
<1>10. CASE Crash
    <2>1. trouble' \in Nat
        BY <1>10 DEF Crash, Disturb
    <2>2. watched' \in SUBSET Ages /\ \A x, y \in watched' : x = y
        BY <1>10 DEF Crash
    <2>3. verdict' \in Verdicts /\ report' \in [Resume : BOOLEAN, Replace : BOOLEAN, Stop : BOOLEAN]
        BY <1>10 DEF Crash, Verdicts, NoReport
    <2>4. QED
        BY <1>10, <2>1, <2>2, <2>3 DEF Crash, processes, effects
<1>11. CASE Shutdown
    <2>1. CASE /\ alive' = alive \ Tracked /\ unclosed' = unclosed \ Tracked
               /\ MoveRun("Service_shutdown", {"checkpointSaved", "childProcessesClosed"})
               /\ up' = FALSE
               /\ watched' = {} /\ verdict' = "none" /\ report' = NoReport
               /\ UNCHANGED trouble
        <3>1. run' \in RunStates
            BY <2>1, RunMoves
        <3>2. verdict' \in Verdicts /\ report' \in [Resume : BOOLEAN, Replace : BOOLEAN, Stop : BOOLEAN]
            BY <2>1 DEF Verdicts, NoReport
        <3>3. QED
            BY <1>11, <2>1, <3>1, <3>2 DEF Shutdown, WriteCheckpoint, effects
    <2>2. CASE /\ Disturb \/ (unclosed \ Tracked # {} /\ UNCHANGED trouble)
               /\ \E cancelled \in SUBSET (unclosed \cap Tracked) :
                    alive' = alive \ cancelled /\ unclosed' = unclosed \ cancelled
               /\ UNCHANGED <<run, up, watched, verdict, report>>
        BY <1>11, <2>2 DEF Shutdown, Disturb, WriteCheckpoint, effects
    <2>3. QED
        BY <1>11, <2>1, <2>2 DEF Shutdown
<1>12. CASE Restart
    BY <1>12 DEF Restart, RunStates, supervisor, processes, effects, decisions
<1>13. ASSUME NEW file \in {"checkpoint", "artifacts", "workspace"}, Damage(file) PROVE TypeOK'
    BY <1>13 DEF Damage, Disturb, supervisor, processes, effects, decisions
<1>14. CASE Report
    BY <1>14 DEF Report, Guards, ReplaySafe, supervisor, processes, effects
<1>15. CASE Retry
    BY <1>15, StepMoves DEF Retry, RetryLimit, WriteCheckpoint, supervisor, processes, effects
<1>16. CASE Restarted
    BY <1>16, StepMoves, AttemptTyped DEF Restarted
<1>17. CASE GiveUp
    BY <1>17, RunMoves, StepMoves DEF GiveUp, supervisor, processes, effects, decisions
<1>18. CASE Resume
    BY <1>18, RunMoves, AttemptTyped DEF Resume, StepStates
<1>19. ASSUME NEW detected \in Detected, NEW requirements \in RequirementSets, NEW override \in BOOLEAN,
              Replace(detected, requirements, override)
       PROVE  TypeOK'
    <2>1. adapter' \in APPROVED_ADAPTER_IDS
        BY <1>19, RecommendedApproved DEF Replace
    <2>2. run' \in RunStates /\ step' \in StepStates
        BY <1>19, RunMoves DEF Replace, StepStates
    <2>3. QED
        BY <1>19, <2>1, <2>2, AttemptTyped DEF Replace
<1>20. CASE Stop
    BY <1>20, RunMoves DEF Stop, supervisor, processes, effects, decisions
<1>21. CASE UNCHANGED vars
    BY <1>21 DEF vars, supervisor, processes, effects, decisions
<1>22. QED
    BY <1>1, <1>2, <1>3, <1>4, <1>5, <1>6, <1>7, <1>8, <1>9, <1>10, <1>11, <1>12, <1>13, <1>14,
       <1>15, <1>16, <1>17, <1>18, <1>19, <1>20, <1>21 DEF Next

-----------------------------------------------------------------------------
(* One agent, every effect once                                            *)

\* Whatever starts an attempt starts it in a quiet run: the new agent is alone, the report is
\* spent, and no effect the new agent may begin has an unknown outcome.
LEMMA StartsAlone ==
    ASSUME IInv, Quiet, StartAttempt, step' = "Running", effect' = effect
    PROVE  OneAgent' /\ GoesOnQuietly' /\ EffectsAccounted'
<1>1. alive = {}
    BY DEF IInv, TypeOK, Quiet
<1>2. OneAgent'
    BY <1>1 DEF StartAttempt, OneAgent
<1>3. GoesOnQuietly'
    BY DEF StartAttempt, NoReport, GoesOnQuietly
<1>4. EffectsAccounted'
    BY DEF IInv, Quiet, ReplaySafe, EffectsAccounted
<1>5. QED
    BY <1>2, <1>3, <1>4

\* A step that neither starts an attempt nor touches effects or the report keeps the rest, if
\* attempts only end and no step is newly retried.
LEMMA KeepsAlone ==
    ASSUME IInv, alive' \subseteq alive, unclosed' \subseteq unclosed, effect' = effect, tried' = tried,
           report' = report \/ report' = NoReport, step' = "Retrying" => step = "Retrying"
    PROVE  OneAgent' /\ GoesOnQuietly' /\ EffectsAccounted'
<1>1. OneAgent'
    BY DEF IInv, OneAgent
<1>2. GoesOnQuietly'
    BY DEF IInv, GoesOnQuietly, Quiet, ReplaySafe, NoReport
<1>3. EffectsAccounted'
    BY DEF IInv, EffectsAccounted
<1>4. QED
    BY <1>1, <1>2, <1>3

\* Only an agent at work touches effects, and where one may be at work nothing waits to go on.
LEMMA EffectSteps ==
    ASSUME IInv, NEW e \in Effects, BeginEffect(e) \/ Perform(e) \/ KnowEffect(e)
    PROVE  OneAgent' /\ GoesOnQuietly' /\ EffectsAccounted'
<1>1. alive # {} /\ alive' = alive /\ unclosed' = unclosed /\ report' = report /\ step' = step
    BY DEF BeginEffect, Perform, KnowEffect, processes, decisions
<1>2. unclosed # {}
    BY <1>1 DEF IInv, TypeOK
<1>3. GoesOnQuietly'
    BY <1>1, <1>2 DEF IInv, GoesOnQuietly, Quiet
<1>4. OneAgent'
    BY <1>1 DEF IInv, OneAgent
<1>5. \A x \in Effects : effect[x] \in [record : {"None", "Known", "Unknown"}, by : 0..MaxAttempts, done : Nat]
    BY DEF IInv, TypeOK
<1>6. effect \in [Effects -> [record : {"None", "Known", "Unknown"}, by : 0..MaxAttempts, done : Nat]]
    BY DEF IInv, TypeOK
<1>7. CASE BeginEffect(e)
    <2>1. effect[e].record = "None" /\ effect[e].done = 0
        BY <1>5, <1>7 DEF IInv, EffectsAccounted, BeginEffect
    <2>2. tried' = tried \cup {e}
        BY <1>7 DEF BeginEffect
    <2>3. effect'[e].record = "Unknown" /\ effect'[e].done = 0
        BY <1>6, <1>7, <2>1 DEF BeginEffect
    <2>4. \A x \in Effects \ {e} : effect'[x] = effect[x]
        BY <1>6, <1>7 DEF BeginEffect
    <2>5. QED
        BY <1>3, <1>4, <2>2, <2>3, <2>4 DEF IInv, EffectsAccounted
<1>8. CASE Perform(e)
    <2>1. effect[e].by # 0
        BY <1>8 DEF Perform, IInv, TypeOK, Ids
    <2>2. effect[e].done = 0 /\ effect[e].record # "None"
        BY <2>1 DEF IInv, EffectsAccounted
    <2>3. effect'[e].by = 0 /\ effect'[e].done = 1 /\ effect'[e].record = effect[e].record
        BY <1>6, <1>8, <2>2 DEF Perform
    <2>4. \A x \in Effects \ {e} : effect'[x] = effect[x]
        BY <1>6, <1>8 DEF Perform
    <2>5. tried' = tried
        BY <1>8 DEF Perform
    <2>6. QED
        BY <1>3, <1>4, <2>2, <2>3, <2>4, <2>5 DEF IInv, EffectsAccounted
<1>9. CASE KnowEffect(e)
    <2>1. effect'[e].record = "Known" /\ effect'[e].by = effect[e].by /\ effect'[e].done = effect[e].done
        BY <1>6, <1>9 DEF KnowEffect
    <2>2. \A x \in Effects \ {e} : effect'[x] = effect[x]
        BY <1>6, <1>9 DEF KnowEffect
    <2>3. tried' = tried
        BY <1>9 DEF KnowEffect
    <2>4. QED
        BY <1>3, <1>4, <2>1, <2>2, <2>3 DEF IInv, EffectsAccounted
<1>10. QED
    BY <1>7, <1>8, <1>9

LEMMA NextInv == IInv /\ [Next]_vars => IInv'
<1> SUFFICES ASSUME IInv, [Next]_vars PROVE OneAgent' /\ GoesOnQuietly' /\ EffectsAccounted'
    BY NextType DEF IInv
<1>t. step \in StepStates /\ alive \subseteq unclosed
    BY DEF IInv, TypeOK
<1>1. CASE Tick
    BY <1>1, KeepsAlone DEF Tick, processes, decisions
<1>2. ASSUME NEW a \in Ids, Exit(a) \/ SeeExit(a)
      PROVE  OneAgent' /\ GoesOnQuietly' /\ EffectsAccounted'
    BY <1>2, KeepsAlone DEF Exit, SeeExit, effects, decisions
<1>3. CASE Heartbeat \/ Evaluate \/ Reconnected \/ Restart \/ Stop
    BY <1>3, KeepsAlone DEF Heartbeat, Evaluate, Reconnected, Restart, Stop, processes, effects, decisions
<1>4. CASE MarkUnresponsive \/ GiveUp
    <2>1. step' = "Retrying" => step = "Retrying"
        BY <1>4, <1>t, StepMoves DEF MarkUnresponsive, GiveUp
    <2>2. QED
        BY <1>4, <2>1, KeepsAlone DEF MarkUnresponsive, GiveUp, processes, effects, decisions
<1>5. CASE Approve \/ Checkpoint
    BY <1>5, KeepsAlone DEF Approve, Checkpoint, processes, effects, decisions
<1>6. ASSUME NEW e \in Effects, BeginEffect(e) \/ Perform(e) \/ KnowEffect(e)
      PROVE  OneAgent' /\ GoesOnQuietly' /\ EffectsAccounted'
    BY <1>6, EffectSteps
<1>7. CASE Crash
    BY <1>7, KeepsAlone DEF Crash, processes, effects
<1>8. CASE Shutdown
    BY <1>8, <1>t, KeepsAlone DEF Shutdown, effects
<1>9. ASSUME NEW file \in {"checkpoint", "artifacts", "workspace"}, Damage(file)
      PROVE  OneAgent' /\ GoesOnQuietly' /\ EffectsAccounted'
    BY <1>9, KeepsAlone DEF Damage, processes, effects, decisions
<1>10. CASE Report
    <2>1. (report'.Resume \/ report'.Replace) => Quiet
        BY <1>10 DEF Report, Guards, Quiet
    <2>2. Quiet' = Quiet /\ step' = step /\ alive' = alive /\ effect' = effect /\ tried' = tried
        BY <1>10 DEF Report, Quiet, ReplaySafe, processes, effects
    <2>3. QED
        BY <2>1, <2>2 DEF IInv, OneAgent, GoesOnQuietly, EffectsAccounted
<1>11. CASE Retry
    <2>1. Quiet
        BY <1>11 DEF Retry, IInv, GoesOnQuietly
    <2>2. Quiet' /\ alive' = alive /\ effect' = effect /\ tried' = tried
        BY <1>11, <2>1 DEF Retry, Quiet, ReplaySafe, processes, effects
    <2>3. QED
        BY <2>2 DEF IInv, OneAgent, GoesOnQuietly, EffectsAccounted
<1>12. CASE Restarted
    <2>1. step = "Retrying" /\ step' = "Running"
        BY <1>12 DEF Restarted, MoveStep, ApplyStep, StepTransitions, T
    <2>2. QED
        BY <1>12, <2>1, StartsAlone DEF Restarted, IInv, GoesOnQuietly
<1>13. CASE Resume
    BY <1>13, StartsAlone DEF Resume, IInv, GoesOnQuietly
<1>14. ASSUME NEW detected \in Detected, NEW requirements \in RequirementSets, NEW override \in BOOLEAN,
              Replace(detected, requirements, override)
       PROVE  OneAgent' /\ GoesOnQuietly' /\ EffectsAccounted'
    BY <1>14, StartsAlone DEF Replace, IInv, GoesOnQuietly
<1>15. CASE UNCHANGED vars
    BY <1>15, KeepsAlone DEF vars, processes, effects, decisions
<1>16. QED
    BY <1>1, <1>2, <1>3, <1>4, <1>5, <1>6, <1>7, <1>8, <1>9, <1>10, <1>11, <1>12, <1>13, <1>14, <1>15
       DEF Next

LEMMA Invariance == Spec => []IInv
BY InitInv, NextInv, PTL DEF Spec

-----------------------------------------------------------------------------
(* Theorems                                                                *)

\* Every variable keeps its type through supervision, crashes, retries and replacements.
THEOREM TypeCorrect == Spec => []TypeOK
<1>1. IInv => TypeOK
    BY DEF IInv
<1>2. QED
    BY <1>1, Invariance, PTL

\* At most one agent of the run is alive, though the service forgets its attempts when it ends and
\* a report is acted on after it was made.
THEOREM NeverTwoAgents == Spec => []OneAgent
<1>1. IInv => OneAgent
    BY DEF IInv
<1>2. QED
    BY <1>1, Invariance, PTL

\* No external effect happens twice, whoever dies between its request and the record of its result.
THEOREM EffectsHappenOnce == Spec => []EffectOnce
<1>1. IInv => EffectOnce
    BY DEF IInv, EffectsAccounted, EffectOnce
<1>2. QED
    BY <1>1, Invariance, PTL

\* A frozen report stays true until it is acted on: an attempt only starts when no other is open and
\* no effect is of unknown outcome.
THEOREM StartsStaySafe == Spec => StartsAreSafe
<1>1. ASSUME IInv, [Next]_vars, current' # current
      PROVE  unclosed = {} /\ \A e \in Effects : effect[e].record # "Unknown"
    <2>1. Restarted \/ Resume \/ \E detected \in Detected, requirements \in RequirementSets,
                                     override \in BOOLEAN : Replace(detected, requirements, override)
        BY <1>1 DEF Next, Tick, Exit, SeeExit, Heartbeat, Evaluate, MarkUnresponsive, Reconnected,
                    Approve, BeginEffect, Perform, KnowEffect, Checkpoint, Crash, Shutdown, Restart,
                    Damage, Report, Retry, GiveUp, Stop, vars, processes
    <2>2. report.Resume \/ report.Replace \/ step = "Retrying"
        BY <2>1 DEF Restarted, Resume, Replace, MoveStep, ApplyStep, StepTransitions, T
    <2>3. Quiet
        BY <1>1, <2>2 DEF IInv, GoesOnQuietly
    <2>4. QED
        BY <2>3 DEF Quiet, ReplaySafe
<1>2. IInv /\ [Next]_vars =>
        [current' # current => unclosed = {} /\ \A e \in Effects : effect[e].record # "Unknown"]_vars
    BY <1>1
<1>3. QED
    BY <1>2, Invariance, PTL DEF Spec, StartsAreSafe

-----------------------------------------------------------------------------
(* A running run is watched                                                *)

\* What was evaluated is still held, and a restart takes a run out of Running.
Watched ==
    /\ up /\ run = "Running" => watched # {}
    /\ verdict # "none" => watched # {}

LEMMA SilentIsClassified ==
    ASSUME NEW w \in Ages, w.silence >= UnresponsiveAfter
    PROVE  Classify(w) \in {"Unresponsive", "Failed"}
<1>1. w.silence \in Nat
    BY RecoveryAssumption DEF Ages
<1>2. ~(w.silence < UnresponsiveAfter)
    BY <1>1, RecoveryAssumption
<1>3. w.silence >= FailureAfter \/ w.silence \in UnresponsiveAfter..(FailureAfter - 1)
    BY <1>1, RecoveryAssumption
<1>4. QED
    BY <1>2, <1>3 DEF Classify

\* Steps that keep the run, the verdict and what is held, or replace what is held by something.
LEMMA StaysWatched ==
    ASSUME Watched, up' => up, run' = "Running" => run = "Running",
           verdict' # "none" => verdict # "none", watched # {} => watched' # {}
    PROVE  Watched'
BY DEF Watched

LEMMA NextWatched == Watched /\ [Next]_vars => Watched'
<1> SUFFICES ASSUME Watched, [Next]_vars PROVE Watched'
    OBVIOUS
<1>1. CASE Tick
    <2>1. watched # {} => watched' # {}
        BY <1>1 DEF Tick
    <2>2. QED
        BY <1>1, <2>1, StaysWatched DEF Tick
<1>2. CASE Heartbeat
    <2>1. watched' # {}
        BY <1>2 DEF Heartbeat
    <2>2. QED
        BY <1>2, <2>1, StaysWatched DEF Heartbeat
<1>3. CASE Evaluate
    BY <1>3 DEF Evaluate, Watched
<1>4. CASE MarkUnresponsive \/ Reconnected \/ GiveUp
    BY <1>4 DEF MarkUnresponsive, Reconnected, GiveUp, Watched, supervisor
<1>5. CASE Crash
    BY <1>5 DEF Crash, Watched
<1>6. CASE Shutdown
    <2>1. (up' = FALSE /\ verdict' = "none") \/ UNCHANGED <<run, up, watched, verdict>>
        BY <1>6 DEF Shutdown
    <2>2. QED
        BY <2>1 DEF Watched
<1>7. CASE Restart
    <2>1. run' # "Running"
        BY <1>7 DEF Restart, ActiveRunStates
    <2>2. QED
        BY <1>7, <2>1 DEF Restart, Watched, supervisor
<1>8. CASE Restarted \/ Resume \/ \E detected \in Detected, requirements \in RequirementSets,
                                     override \in BOOLEAN : Replace(detected, requirements, override)
    BY <1>8 DEF Restarted, Resume, Replace, StartAttempt, Watched
<1>9. CASE Stop
    <2>1. run' # "Running"
        BY <1>9, StopsEnd DEF Stop, MoveRun, ApplyRun
    <2>2. QED
        BY <1>9, <2>1 DEF Stop, Watched, supervisor
<1>10. ASSUME \/ \E a \in Ids : Exit(a) \/ SeeExit(a)
              \/ \E e \in Effects : BeginEffect(e) \/ Perform(e) \/ KnowEffect(e)
              \/ \E file \in {"checkpoint", "artifacts", "workspace"} : Damage(file)
              \/ Approve \/ Checkpoint \/ Report \/ Retry \/ UNCHANGED vars
       PROVE  Watched'
    <2>1. UNCHANGED <<run, up, watched, verdict>>
        BY <1>10 DEF Exit, SeeExit, BeginEffect, Perform, KnowEffect, Damage, Approve, Checkpoint,
                     Report, Retry, vars, supervisor
    <2>2. QED
        BY <2>1 DEF Watched
<1>11. QED
    BY <1>1, <1>2, <1>3, <1>4, <1>5, <1>6, <1>7, <1>8, <1>9, <1>10 DEF Next

\* A running run is watched, and its silence is classified as such: the part of SilenceIsNoticed that
\* no fairness can give.
THEOREM RunningStaysWatched == Spec => []RunningIsWatched
<1>1. Init => Watched
    BY DEF Init, Watched
<1>2. TypeOK /\ Watched => RunningIsWatched
    BY SilentIsClassified DEF TypeOK, Watched, RunningIsWatched
<1>3. QED
    BY <1>1, <1>2, NextWatched, TypeCorrect, PTL DEF Spec

-----------------------------------------------------------------------------
(* The life cycle                                                          *)

\* The table of the life cycle is the one supervision and recovery apply.
LEMMA SameTable == Lifecycle!RunTransitions = RunTransitions
<1>1. Lifecycle!Preparation = Preparation
    BY DEF Lifecycle!Preparation, Preparation, Lifecycle!T, T
<1>2. Lifecycle!Execution = Execution
    BY DEF Lifecycle!Execution, Execution, Lifecycle!T, T
<1>3. Lifecycle!Repair = Repair
    BY DEF Lifecycle!Repair, Repair, Lifecycle!T, T
<1>4. Lifecycle!Delivery = Delivery
    BY DEF Lifecycle!Delivery, Delivery, Lifecycle!T, T
<1>5. Lifecycle!OpenRunStates = OpenRunStates /\ Lifecycle!ActiveRunStates = ActiveRunStates
    BY DEF Lifecycle!OpenRunStates, OpenRunStates, Lifecycle!ActiveRunStates, ActiveRunStates,
        Lifecycle!RunStates, RunStates, Lifecycle!FinalRunStates, FinalRunStates
<1>6. Lifecycle!Stops = Stops
    BY <1>5 DEF Lifecycle!Stops, Stops, Lifecycle!T, T
<1>7. QED
    BY <1>1, <1>2, <1>3, <1>4, <1>6 DEF Lifecycle!RunTransitions, RunTransitions

\* A transition that passes no gate and takes none back.
LEMMA TableStep ==
    ASSUME NEW t \in RunTransitions, t.from = run, run' = t.to,
           t.event \notin {"Approve", "Edit", "Accept", "Verify_merge_success"}
    PROVE  Lifecycle!Next
<1>1. Lifecycle!GatesAfter(t, {"pipeline"}) = {"pipeline"}
    BY DEF Lifecycle!GatesAfter
<1>2. QED
    BY <1>1, SameTable DEF Lifecycle!Take, Lifecycle!Next

LEMMA MoveStepsOn ==
    ASSUME NEW event, event \notin {"Approve", "Edit", "Accept", "Verify_merge_success"},
           NEW context, MoveRun(event, context)
    PROVE  Lifecycle!Next
<1>1. PICK t \in RunTransitions : t.from = run /\ t.event = event /\ run' = t.to
    BY DEF MoveRun, ApplyRun
<1>2. QED
    BY <1>1, TableStep

\* A restart goes where a shutdown of the active run would have gone.
LEMMA RestartSteps == ASSUME Restart PROVE Lifecycle!Next \/ run' = run
<1>1. CASE run \in ActiveRunStates
    <2> DEFINE t == T(run, "Service_shutdown", "Recovery_Required",
                      {"checkpointSaved", "childProcessesClosed"}, {})
    <2>1. t \in RunTransitions /\ t.event = "Service_shutdown"
        BY <1>1 DEF RunTransitions, Stops, T
    <2>2. t.from = run /\ run' = t.to
        BY <1>1 DEF Restart, T
    <2> HIDE DEF t
    <2>3. QED
        BY <2>1, <2>2, TableStep
<1>2. CASE run \notin ActiveRunStates
    BY <1>2 DEF Restart
<1>3. QED
    BY <1>1, <1>2

\* Whatever happens to attempts and service, the run takes legal steps of its life cycle.
THEOREM RecoveryFollowsLifecycle == Spec => RunSteps
<1>1. ASSUME [Next]_vars PROVE Lifecycle!Next \/ run' = run
    <2>1. CASE MarkUnresponsive
        BY <2>1, MoveStepsOn DEF MarkUnresponsive
    <2>2. CASE Reconnected
        BY <2>2, MoveStepsOn DEF Reconnected
    <2>3. CASE Shutdown
        BY <2>3, MoveStepsOn DEF Shutdown
    <2>4. CASE Restart
        BY <2>4, RestartSteps
    <2>5. CASE GiveUp
        BY <2>5, MoveStepsOn DEF GiveUp
    <2>6. CASE Resume
        BY <2>6, MoveStepsOn DEF Resume
    <2>7. ASSUME NEW detected \in Detected, NEW requirements \in RequirementSets, NEW override \in BOOLEAN,
                 Replace(detected, requirements, override)
          PROVE  Lifecycle!Next
        <3>1. \E event \in {"Replace_approved", "Replace_Agent"} : \E context : MoveRun(event, context)
            BY <2>7 DEF Replace
        <3>2. QED
            BY <3>1, MoveStepsOn
    <2>8. CASE Stop
        BY <2>8, MoveStepsOn DEF Stop
    <2>9. ASSUME \/ \E a \in Ids : Exit(a) \/ SeeExit(a)
                 \/ \E e \in Effects : BeginEffect(e) \/ Perform(e) \/ KnowEffect(e)
                 \/ \E file \in {"checkpoint", "artifacts", "workspace"} : Damage(file)
                 \/ Tick \/ Heartbeat \/ Evaluate \/ Approve \/ Checkpoint \/ Crash \/ Report \/ Retry
                 \/ Restarted \/ UNCHANGED vars
          PROVE  run' = run
        BY <2>9 DEF Exit, SeeExit, BeginEffect, Perform, KnowEffect, Damage, Tick, Heartbeat, Evaluate,
                    Approve, Checkpoint, Crash, Report, Retry, Restarted, vars
    <2>10. QED
        BY <1>1, <2>1, <2>2, <2>3, <2>4, <2>5, <2>6, <2>7, <2>8, <2>9 DEF Next
<1>2. [Next]_vars => [Lifecycle!Next]_run
    BY <1>1
<1>3. QED
    BY <1>2, PTL DEF Spec, RunSteps
=============================================================================
