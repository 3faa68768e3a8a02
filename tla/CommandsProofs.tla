---------------------------- MODULE CommandsProofs ----------------------------
(* Theorems about Commands, for every set of requests, keys and effects.      *)
EXTENDS Commands, TLAPS

-----------------------------------------------------------------------------
(* The transition table                                                    *)

\* The table speaks of run states only.
LEMMA TableTyped ==
    ASSUME NEW t \in RunTransitions PROVE t.from \in RunStates /\ t.to \in RunStates
<1>1. CASE t \in Preparation
    BY <1>1 DEF Preparation, T, RunStates
<1>2. CASE t \in Execution
    BY <1>2 DEF Execution, T, RunStates
<1>3. CASE t \in Repair
    BY <1>3 DEF Repair, T, RunStates
<1>4. CASE t \in Delivery
    BY <1>4 DEF Delivery, T, RunStates
<1>5. CASE t \in Stops
    BY <1>5 DEF Stops, T, RunStates, OpenRunStates, FinalRunStates, ActiveRunStates
<1>6. QED
    BY <1>1, <1>2, <1>3, <1>4, <1>5 DEF RunTransitions

\* Acceptance is the only way to Accepted, and from there the verified merge is the only
\* way to Completed.
LEMMA GatedTransitions ==
    ASSUME NEW t \in RunTransitions
    PROVE  /\ t.to = "Accepted" => t.event = "Accept"
           /\ t.to = "Completed" => t.from = "Accepted" /\ t.event = "Verify_merge_success"
<1>1. CASE t \in Preparation
    BY <1>1 DEF Preparation, T
<1>2. CASE t \in Execution
    BY <1>2 DEF Execution, T
<1>3. CASE t \in Repair
    BY <1>3 DEF Repair, T
<1>4. CASE t \in Delivery
    BY <1>4 DEF Delivery, T
<1>5. CASE t \in Stops
    BY <1>5 DEF Stops, T
<1>6. QED
    BY <1>1, <1>2, <1>3, <1>4, <1>5 DEF RunTransitions

\* What a guard grants is a transition of the table from the state the client saw.
LEMMA GrantedInTable ==
    ASSUME NEW r \in Requests, NEW t \in Granted(r)
    PROVE  t \in RunTransitions /\ t.from = seen[r].state
BY DEF Granted, ApplyRun

\* The table of the life cycle is the one the pipeline applies.
LEMMA SameTable == Lifecycle!RunTransitions = RunTransitions
<1>1. Lifecycle!Preparation = Preparation
    BY DEF Lifecycle!Preparation, Preparation, Lifecycle!T, T
<1>2. Lifecycle!Execution = Execution
    BY DEF Lifecycle!Execution, Execution, Lifecycle!T, T
<1>3. Lifecycle!Repair = Repair
    BY DEF Lifecycle!Repair, Repair, Lifecycle!T, T
<1>4. Lifecycle!Delivery = Delivery
    BY DEF Lifecycle!Delivery, Delivery, Lifecycle!T, T
<1>5. Lifecycle!OpenRunStates = OpenRunStates /\ Lifecycle!ActiveRunStates = ActiveRunStates
    BY DEF Lifecycle!OpenRunStates, OpenRunStates, Lifecycle!ActiveRunStates, ActiveRunStates,
        Lifecycle!RunStates, RunStates, Lifecycle!FinalRunStates, FinalRunStates
<1>6. Lifecycle!Stops = Stops
    BY <1>5 DEF Lifecycle!Stops, Stops, Lifecycle!T, T
<1>7. QED
    BY <1>1, <1>2, <1>3, <1>4, <1>6 DEF Lifecycle!RunTransitions, RunTransitions

\* No transition passes a gate there is not.
LEMMA GatesTyped ==
    ASSUME NEW t, NEW g \in SUBSET {"pipeline", "accepted", "merged"}
    PROVE  Lifecycle!GatesAfter(t, g) \in SUBSET {"pipeline", "accepted", "merged"}
BY DEF Lifecycle!GatesAfter

\* The state a transition leads to rests on gates that are passed by then.
LEMMA GatesKept ==
    ASSUME NEW t \in RunTransitions, NEW g,
           t.from = "Accepted" => "accepted" \in g
    PROVE  /\ t.to = "Accepted" => "accepted" \in Lifecycle!GatesAfter(t, g)
           /\ t.to = "Completed" => {"accepted", "merged"} \subseteq Lifecycle!GatesAfter(t, g)
<1>1. t.to = "Accepted" => t.event = "Accept"
    BY GatedTransitions
<1>2. t.to = "Completed" => t.from = "Accepted" /\ t.event = "Verify_merge_success"
    BY GatedTransitions
<1>3. QED
    BY <1>1, <1>2 DEF Lifecycle!GatesAfter

-----------------------------------------------------------------------------
(* Type correctness                                                        *)

\* The transaction keeps the types of everything it writes.
LEMMA CommitTyped == ASSUME TypeOK, NEW r \in Requests, Commit(r) PROVE TypeOK'
<1>1. PICK t \in Granted(r) :
        /\ ApplyState(t)
        /\ gates' = Lifecycle!GatesAfter(t, gates)
        /\ events' = Append(events, [by |-> r, from |-> t.from, to |-> t.to])
    BY DEF Commit
<1>2. t.from \in RunStates /\ t.to \in RunStates
    BY GrantedInTable, TableTyped
<1>3. row' \in [state : RunStates, revision : Nat]
    BY <1>1, <1>2 DEF ApplyState, TypeOK
<1>4. gates' \subseteq {"pipeline", "accepted", "merged"}
    BY <1>1, GatesTyped DEF TypeOK
<1>5. events' \in Seq([by : Requests, from : RunStates, to : RunStates])
    BY <1>1, <1>2 DEF TypeOK
<1>6. audits' \in Seq([by : Requests, event : Nat])
    BY <1>5 DEF Commit, AppendAudit, TypeOK
<1>7. pc' \in [Requests -> {"new", "sent", "lost"} \cup Serving \cup Answered]
    BY DEF Commit, TypeOK, Serving
<1>8. QED
    BY <1>3, <1>4, <1>5, <1>6, <1>7 DEF Commit, TypeOK

\* The initial states have the right types.
LEMMA InitTyped == Init => TypeOK
<1> SUFFICES ASSUME Init PROVE TypeOK
    OBVIOUS
<1>1. PICK s \in Starts :
        row = [state |-> s.state, revision |-> 1] /\ gates = s.gates /\ merged = ("merged" \in s.gates)
    BY DEF Init
<1>2. s.state \in RunStates /\ s.gates \subseteq {"pipeline", "accepted", "merged"}
    BY CommandsAssumption
<1>3. row \in [state : RunStates, revision : Nat]
    BY <1>1, <1>2
<1>4. events \in Seq([by : Requests, from : RunStates, to : RunStates])
    BY DEF Init
<1>5. audits \in Seq([by : Requests, event : Nat])
    BY DEF Init
<1>6. NoCommand \in Fingerprints
    <2> DEFINE Asked == UNION {FingerprintsOf(t) : t \in RunTransitions}
    <2>1. Fingerprints = {NoCommand} \cup Asked
        BY DEF Fingerprints
    <2> HIDE DEF Asked
    <2>2. QED
        BY <2>1
<1>7. merged \in BOOLEAN
    BY <1>1
<1>8. QED
    BY <1>1, <1>2, <1>3, <1>4, <1>5, <1>6, <1>7 DEF Init, TypeOK

\* Every step keeps the types.
LEMMA StepTyped == TypeOK /\ [Next]_vars => TypeOK'
<1> SUFFICES ASSUME TypeOK, [Next]_vars PROVE TypeOK'
    OBVIOUS
<1>1. ASSUME NEW r \in Requests, Send(r) PROVE TypeOK'
    <2>1. PICK t \in RunTransitions : \E f \in FingerprintsOf(t) : command' = [command EXCEPT ![r] = f]
        BY <1>1 DEF Send
    <2>2. PICK f \in FingerprintsOf(t) : command' = [command EXCEPT ![r] = f]
        BY <2>1
    <2>3. f \in Fingerprints
        BY DEF Fingerprints
    <2>4. command' \in [Requests -> Fingerprints]
        BY <2>2, <2>3 DEF TypeOK
    <2>5. QED
        BY <1>1, <2>4 DEF Send, TypeOK, database
<1> USE CommandsAssumption DEF TypeOK, database, Answer, Serving, Answered
<1>2. ASSUME NEW r \in Requests, LoseAnswer(r) PROVE TypeOK'
    BY <1>2 DEF LoseAnswer
<1>3. ASSUME NEW r \in Requests, Resend(r) PROVE TypeOK'
    BY <1>3 DEF Resend
<1>4. ASSUME NEW r \in Requests, Replay(r) PROVE TypeOK'
    BY <1>4 DEF Replay, FromRecord
<1>5. ASSUME NEW r \in Requests, Execute(r) PROVE TypeOK'
    BY <1>5 DEF Execute
<1>6. ASSUME NEW r \in Requests, Record(r) PROVE TypeOK'
    BY <1>6 DEF Record
<1>7. ASSUME NEW r \in Requests, Refuse(r) \/ RollBack(r) \/ FailLate(r) PROVE TypeOK'
    <2>1. CASE Refuse(r)
        BY <2>1 DEF Refuse
    <2>2. CASE RollBack(r)
        BY <2>2 DEF RollBack
    <2>3. CASE FailLate(r)
        BY <2>3 DEF FailLate
    <2>4. QED
        BY <1>7, <2>1, <2>2, <2>3
<1>8. ASSUME NEW r \in Requests, Commit(r) PROVE TypeOK'
    BY <1>8, CommitTyped
<1>9. ASSUME NEW r \in Requests, WriteArtifact(r) PROVE TypeOK'
    BY <1>9 DEF WriteArtifact
<1>10. ASSUME NEW r \in Requests, Mismatch(r) PROVE TypeOK'
    BY <1>10 DEF Mismatch
<1>11. ASSUME NEW r \in Requests, Publish(r) PROVE TypeOK'
    BY <1>11 DEF Publish
<1>12. CASE RecordMerge
    BY <1>12 DEF RecordMerge
<1>13. CASE Crash
    BY <1>13 DEF Crash
<1>14. CASE UNCHANGED vars
    BY <1>14 DEF vars
<1> HIDE DEF TypeOK
<1>15. QED
    BY <1>1, <1>2, <1>3, <1>4, <1>5, <1>6, <1>7, <1>8, <1>9, <1>10, <1>11, <1>12, <1>13, <1>14
    DEF Next, Client, Wrapper, Pipeline

\* Every variable of the run's row, the tables and the requests keeps its type.
THEOREM TypeCorrect == Spec => []TypeOK
BY InitTyped, StepTyped, PTL DEF Spec

-----------------------------------------------------------------------------
(* The database                                                            *)

\* A client knows the past or the present of the run, and no other present than there is.
SeenIsPast ==
    \A r \in Requests :
        /\ seen[r].revision <= row.revision
        /\ seen[r].revision = row.revision => seen[r].state = row.state

\* Who has moved the run was sent, and saw it before it moved: it is stale for good.
MoversAreStale ==
    \A i \in DOMAIN events :
        /\ pc[events[i].by] # "new"
        /\ seen[events[i].by].revision < row.revision

\* The approvals that the state of the run rests on.
Gated ==
    /\ row.state = "Accepted" => "accepted" \in gates
    /\ row.state = "Completed" => {"accepted", "merged"} \subseteq gates

DInv ==
    /\ TypeOK
    /\ SeenIsPast
    /\ MoversAreStale
    /\ Gated
    /\ EventsTellRow
    /\ EveryEventAudited
    /\ AppliedOnce
    /\ CompletedIsMerged

\* Every event was written by a request.
LEMMA MoversAreRequests ==
    ASSUME TypeOK, NEW i \in DOMAIN events PROVE events[i].by \in Requests
<1> DEFINE Event == [by : Requests, from : RunStates, to : RunStates]
<1>1. events \in Seq(Event)
    BY DEF TypeOK
<1> HIDE DEF Event
<1>2. events[i] \in Event
    BY <1>1
<1> USE DEF Event
<1>3. QED
    BY <1>2

\* The database invariant holds before the first request.
LEMMA InitDInv == Init => DInv
<1> SUFFICES ASSUME Init PROVE DInv
    OBVIOUS
<1>1. PICK s \in Starts :
        row = [state |-> s.state, revision |-> 1] /\ gates = s.gates /\ merged = ("merged" \in s.gates)
    BY DEF Init
<1>2. events = <<>> /\ audits = <<>> /\ seen = [r \in Requests |-> row]
    BY DEF Init
<1>3. TypeOK
    BY InitTyped
<1>4. SeenIsPast
    BY <1>1, <1>2 DEF SeenIsPast
<1>5. MoversAreStale
    BY <1>2 DEF MoversAreStale
<1>6. Gated
    BY <1>1, CommandsAssumption DEF Gated
<1>7. EventsTellRow
    BY <1>1, <1>2 DEF EventsTellRow
<1>8. EveryEventAudited
    BY <1>2 DEF EveryEventAudited
<1>9. AppliedOnce
    BY <1>2 DEF AppliedOnce
<1>10. CompletedIsMerged
    <2>1. row.state = "Completed" => "merged" \in gates
        BY <1>6 DEF Gated
    <2>2. merged = ("merged" \in gates)
        BY <1>1
    <2>3. QED
        BY <2>1, <2>2, Zenon DEF CompletedIsMerged
<1>11. QED
    BY <1>3, <1>4, <1>5, <1>6, <1>7, <1>8, <1>9, <1>10 DEF DInv

\* The transaction keeps it: its request saw the present, so it has not moved the run yet.
LEMMA CommitDInv == ASSUME DInv, NEW r \in Requests, Commit(r) PROVE DInv'
<1>1. PICK t \in Granted(r) :
        /\ ~TriggerAborts(t)
        /\ ApplyState(t)
        /\ gates' = Lifecycle!GatesAfter(t, gates)
        /\ events' = Append(events, [by |-> r, from |-> t.from, to |-> t.to])
    BY DEF Commit
<1> DEFINE n == Len(events)
           e == [by |-> r, from |-> t.from, to |-> t.to]
<1>2. t \in RunTransitions /\ t.from = seen[r].state
    BY GrantedInTable
<1>3. seen[r].revision = row.revision /\ t.from = row.state
    BY <1>2 DEF Commit, Fresh, DInv, SeenIsPast
<1>4. row'.state = t.to /\ row'.revision = row.revision + 1
    BY <1>1 DEF ApplyState
<1>5. t.from \in RunStates /\ t.to \in RunStates
    BY <1>2, TableTyped
<1>6. /\ events \in Seq([by : Requests, from : RunStates, to : RunStates])
      /\ row.revision \in Nat
      /\ \A q \in Requests : seen[q].revision \in Nat
    BY DEF DInv, TypeOK
<1>7. e \in [by : Requests, from : RunStates, to : RunStates] /\ n \in Nat
    BY <1>5, <1>6
<1>8. /\ Len(events') = n + 1
      /\ events'[n + 1] = e
      /\ DOMAIN events' = 1..(n + 1)
      /\ DOMAIN events = 1..n
      /\ \A i \in 1..n : events'[i] = events[i]
    BY <1>1, <1>6, <1>7
<1>9. seen' = seen
    BY DEF Commit
<1>10. \A q \in Requests : pc[q] # "new" => pc'[q] # "new"
    BY DEF Commit, DInv, TypeOK
<1>11. TypeOK'
    BY CommitTyped DEF DInv
<1>12. SeenIsPast'
    BY <1>4, <1>6, <1>9 DEF DInv, SeenIsPast
<1>13. MoversAreStale'
    <2>1. SUFFICES ASSUME NEW i \in 1..(n + 1)
                   PROVE  /\ pc'[events'[i].by] # "new"
                          /\ seen'[events'[i].by].revision < row'.revision
        BY <1>8 DEF MoversAreStale
    <2>2. CASE i = n + 1
        <3>1. events'[i].by = r
            BY <2>2, <1>8
        <3>2. pc'[r] # "new"
            BY DEF Commit, DInv, TypeOK
        <3>3. seen'[r].revision < row'.revision
            BY <1>3, <1>4, <1>6, <1>9
        <3>4. QED
            BY <3>1, <3>2, <3>3
    <2>3. CASE i \in 1..n
        <3>1. events'[i] = events[i] /\ events[i].by \in Requests
            BY <2>3, <1>8, MoversAreRequests DEF DInv
        <3>2. pc[events[i].by] # "new" /\ seen[events[i].by].revision < row.revision
            BY <2>3, <1>8 DEF DInv, MoversAreStale
        <3>3. QED
            BY <3>1, <3>2, <1>4, <1>6, <1>9, <1>10
    <2>4. QED
        BY <2>2, <2>3, <1>7
<1>14. Gated'
    <2>1. t.from = "Accepted" => "accepted" \in gates
        BY <1>3 DEF DInv, Gated
    <2>2. /\ t.to = "Accepted" => "accepted" \in gates'
          /\ t.to = "Completed" => {"accepted", "merged"} \subseteq gates'
        BY <2>1, <1>1, <1>2, GatesKept
    <2>3. QED
        BY <2>2, <1>4 DEF Gated
<1>15. EventsTellRow'
    <2>1. row'.revision = Len(events') + 1
        BY <1>4, <1>8, <1>6 DEF DInv, EventsTellRow
    <2>2. events'[Len(events')].to = row'.state
        BY <1>4, <1>8
    <2>3. ASSUME NEW i \in DOMAIN events', i > 1
          PROVE  events'[i].from = events'[i - 1].to
        <3>1. CASE i = n + 1
            <4>1. n \in 1..n
                BY <3>1, <2>3, <1>7
            <4>2. events # <<>>
                BY <4>1
            <4>3. events[n].to = row.state
                BY <4>2 DEF DInv, EventsTellRow
            <4>4. QED
                BY <3>1, <4>1, <4>3, <1>3, <1>7, <1>8
        <3>2. CASE i \in 1..n
            <4>1. i - 1 \in 1..n
                BY <2>3, <3>2, <1>7
            <4>2. events[i].from = events[i - 1].to
                BY <2>3, <3>2, <1>8 DEF DInv, EventsTellRow
            <4>3. QED
                BY <3>2, <4>1, <4>2, <1>8
        <3>3. QED
            BY <2>3, <3>1, <3>2, <1>7, <1>8
    <2>4. QED
        BY <2>1, <2>2, <2>3 DEF EventsTellRow
<1>16. EveryEventAudited'
    <2>1. audits' = Append(audits, [by |-> r, event |-> n + 1])
        BY <1>8 DEF Commit, AppendAudit
    <2>2. audits \in Seq([by : Requests, event : Nat]) /\ Len(audits) = n
        BY DEF DInv, TypeOK, EveryEventAudited
    <2>3. /\ Len(audits') = n + 1
          /\ audits'[n + 1] = [by |-> r, event |-> n + 1]
          /\ DOMAIN audits' = 1..(n + 1)
          /\ \A i \in 1..n : audits'[i] = audits[i]
        BY <2>1, <2>2, <1>7
    <2>4. \A i \in 1..n : audits[i].event = i /\ audits[i].by = events[i].by
        BY <2>2 DEF DInv, EveryEventAudited
    <2>5. \A i \in 1..(n + 1) : audits'[i].event = i /\ audits'[i].by = events'[i].by
        BY <2>3, <2>4, <1>7, <1>8
    <2>6. QED
        BY <2>3, <2>5, <1>8 DEF EveryEventAudited
<1>17. AppliedOnce'
    <2>1. \A i \in 1..n : events[i].by # r
        BY <1>3, <1>6, <1>8 DEF DInv, MoversAreStale
    <2>2. \A i, j \in 1..n : events[i].by = events[j].by => i = j
        BY <1>8 DEF DInv, AppliedOnce
    <2>3. \A i, j \in 1..(n + 1) : events'[i].by = events'[j].by => i = j
        BY <2>1, <2>2, <1>7, <1>8
    <2>4. QED
        BY <2>3, <1>8 DEF AppliedOnce
<1>18. CompletedIsMerged'
    <2>1. t.to = "Completed" => merged
        BY <1>1 DEF TriggerAborts
    <2>2. merged' = merged
        BY DEF Commit
    <2>3. QED
        BY <2>1, <2>2, <1>4, Zenon DEF CompletedIsMerged
<1>19. QED
    BY <1>11, <1>12, <1>13, <1>14, <1>15, <1>16, <1>17, <1>18 DEF DInv

\* A step that leaves the row and the tables alone, and no request is new again.
LEMMA QuietDInv ==
    ASSUME DInv, TypeOK', UNCHANGED <<row, gates, events, audits, seen>>, merged => merged',
           \A r \in Requests : pc[r] # "new" => pc'[r] # "new"
    PROVE  DInv'
<1>1. SeenIsPast'
    BY DEF DInv, SeenIsPast
<1>2. MoversAreStale'
    BY MoversAreRequests DEF DInv, MoversAreStale
<1>3. Gated'
    BY DEF DInv, Gated
<1>4. EventsTellRow'
    BY DEF DInv, EventsTellRow
<1>5. EveryEventAudited'
    BY DEF DInv, EveryEventAudited
<1>6. AppliedOnce'
    BY DEF DInv, AppliedOnce
<1>7. CompletedIsMerged'
    BY Zenon DEF DInv, CompletedIsMerged
<1>8. QED
    BY <1>1, <1>2, <1>3, <1>4, <1>5, <1>6, <1>7 DEF DInv

\* Sending reads the present, and only a request that has moved nothing is sent anew.
LEMMA SendDInv == ASSUME DInv, TypeOK', NEW r \in Requests, Send(r) PROVE DInv'
<1>1. /\ UNCHANGED <<row, gates, events, audits, merged>>
      /\ seen' = [seen EXCEPT ![r] = row]
      /\ pc[r] = "new"
      /\ \A q \in Requests : pc[q] # "new" => pc'[q] = pc[q]
    BY DEF Send, database, DInv, TypeOK
<1>2. SeenIsPast'
    BY <1>1 DEF DInv, TypeOK, SeenIsPast
<1>3. MoversAreStale'
    <2>1. SUFFICES ASSUME NEW i \in DOMAIN events
                   PROVE  /\ pc'[events[i].by] # "new"
                          /\ seen'[events[i].by].revision < row.revision
        BY <1>1 DEF MoversAreStale
    <2>2. events[i].by \in Requests /\ pc[events[i].by] # "new"
        BY MoversAreRequests DEF DInv, MoversAreStale
    <2>3. seen'[events[i].by] = seen[events[i].by]
        BY <1>1, <2>2 DEF DInv, TypeOK
    <2>4. QED
        BY <1>1, <2>2, <2>3 DEF DInv, MoversAreStale
<1>4. Gated'
    BY <1>1 DEF DInv, Gated
<1>5. EventsTellRow'
    BY <1>1 DEF DInv, EventsTellRow
<1>6. EveryEventAudited'
    BY <1>1 DEF DInv, EveryEventAudited
<1>7. AppliedOnce'
    BY <1>1 DEF DInv, AppliedOnce
<1>8. CompletedIsMerged'
    BY <1>1, Zenon DEF DInv, CompletedIsMerged
<1>9. QED
    BY <1>2, <1>3, <1>4, <1>5, <1>6, <1>7, <1>8 DEF DInv

\* Steps of the wrapper and of the pipeline outside its transaction.
Quiet(r) ==
    \/ LoseAnswer(r) \/ Resend(r) \/ Wrapper(r) \/ Refuse(r) \/ RollBack(r)
    \/ WriteArtifact(r) \/ Mismatch(r) \/ FailLate(r) \/ Publish(r)

\* They leave row and tables alone and make no request new again.
LEMMA QuietSteps ==
    ASSUME TypeOK, NEW r \in Requests, Quiet(r)
    PROVE  /\ UNCHANGED <<row, gates, events, audits, seen, merged>>
           /\ \A q \in Requests : pc[q] # "new" => pc'[q] # "new"
<1> USE CommandsAssumption DEF TypeOK, database, Answer
<1>1. CASE LoseAnswer(r)
    BY <1>1 DEF LoseAnswer
<1>2. CASE Resend(r)
    BY <1>2 DEF Resend
<1>3. CASE Replay(r)
    BY <1>3 DEF Replay, FromRecord
<1>4. CASE Execute(r)
    BY <1>4 DEF Execute
<1>5. CASE Record(r)
    BY <1>5 DEF Record
<1>6. CASE Refuse(r) \/ RollBack(r) \/ FailLate(r)
    BY <1>6 DEF Refuse, RollBack, FailLate
<1>7. CASE WriteArtifact(r)
    BY <1>7 DEF WriteArtifact
<1>8. CASE Mismatch(r)
    BY <1>8 DEF Mismatch
<1>9. CASE Publish(r)
    BY <1>9 DEF Publish
<1> HIDE DEF TypeOK, database, Answer
<1>10. QED
    BY <1>1, <1>2, <1>3, <1>4, <1>5, <1>6, <1>7, <1>8, <1>9 DEF Quiet, Wrapper

\* Every step keeps the database invariant.
LEMMA StepDInv == DInv /\ [Next]_vars => DInv'
<1> SUFFICES ASSUME DInv, [Next]_vars PROVE DInv'
    OBVIOUS
<1>1. TypeOK /\ TypeOK'
    BY StepTyped DEF DInv
<1>2. ASSUME NEW r \in Requests, Quiet(r) PROVE DInv'
    <2>1. /\ UNCHANGED <<row, gates, events, audits, seen, merged>>
          /\ \A q \in Requests : pc[q] # "new" => pc'[q] # "new"
        BY <1>1, <1>2, QuietSteps
    <2>2. merged => merged'
        BY <2>1
    <2>3. QED
        BY <1>1, <2>1, <2>2, QuietDInv
<1>3. ASSUME NEW r \in Requests, Send(r) PROVE DInv'
    BY <1>1, <1>3, SendDInv
<1>4. ASSUME NEW r \in Requests, Commit(r) PROVE DInv'
    BY <1>4, CommitDInv
<1>5. CASE RecordMerge
    <2>1. merged'
        BY <1>5 DEF RecordMerge
    <2>2. UNCHANGED <<row, gates, events, audits, seen, pc>>
        BY <1>5 DEF RecordMerge
    <2>3. QED
        BY <1>1, <2>1, <2>2, QuietDInv
<1>6. CASE Crash
    <2>1. UNCHANGED <<row, gates, events, audits, seen, merged>>
        BY <1>6 DEF Crash, database
    <2>2. \A q \in Requests : pc[q] # "new" => pc'[q] # "new"
        BY <1>1, <1>6 DEF Crash, Answer, TypeOK
    <2>3. merged => merged'
        BY <2>1
    <2>4. QED
        BY <1>1, <2>1, <2>2, <2>3, QuietDInv
<1>7. CASE UNCHANGED vars
    <2>1. UNCHANGED <<row, gates, events, audits, seen, merged, pc>>
        BY <1>7 DEF vars, database
    <2>2. merged => merged'
        BY <2>1
    <2>3. QED
        BY <1>1, <2>1, <2>2, QuietDInv
<1>8. QED
    BY <1>2, <1>3, <1>4, <1>5, <1>6, <1>7 DEF Next, Client, Wrapper, Pipeline, Quiet

\* The database invariant holds whatever commands, crashes and retries do.
THEOREM AlwaysDInv == Spec => []DInv
BY InitDInv, StepDInv, PTL DEF Spec

\* The events of the run are its history, and its revision counts them.
THEOREM EventsAreHistory == Spec => []EventsTellRow
<1>1. DInv => EventsTellRow
    BY DEF DInv
<1>2. QED
    BY <1>1, AlwaysDInv, PTL

\* Every event has one audit entry, its own.
THEOREM EventsAreAudited == Spec => []EveryEventAudited
<1>1. DInv => EveryEventAudited
    BY DEF DInv
<1>2. QED
    BY <1>1, AlwaysDInv, PTL

\* A request moves the run at most once, however often it is sent and served.
THEOREM RequestsApplyOnce == Spec => []AppliedOnce
<1>1. DInv => AppliedOnce
    BY DEF DInv
<1>2. QED
    BY <1>1, AlwaysDInv, PTL

\* No completed run in the database without the merge it needs.
THEOREM CompletedAreMerged == Spec => []CompletedIsMerged
<1>1. DInv => CompletedIsMerged
    BY DEF DInv
<1>2. QED
    BY <1>1, AlwaysDInv, PTL

\* A completed run was accepted and merged after that, through every way back to work.
THEOREM CompletedAreGated == Spec => []CompletedThroughGates
<1>1. DInv => CompletedThroughGates
    BY DEF DInv, Gated, CompletedThroughGates, Lifecycle!CompletedThroughGates
<1>2. QED
    BY <1>1, AlwaysDInv, PTL

\* A request that carries a commit through sees the run as it is, so the run takes a
\* transition of the table: the pipeline implements the life cycle.
THEOREM PipelineImplementsLifecycle == Spec => RunSteps
<1>1. ASSUME DInv, [Next]_vars PROVE [Lifecycle!Next]_<<row.state, gates>>
    <2>1. ASSUME NEW r \in Requests, Commit(r) PROVE Lifecycle!Next
        <3>1. PICK t \in Granted(r) : ApplyState(t) /\ gates' = Lifecycle!GatesAfter(t, gates)
            BY <2>1 DEF Commit
        <3>2. t \in RunTransitions /\ t.from = row.state
            BY <1>1, <2>1, GrantedInTable DEF Commit, Fresh, DInv, SeenIsPast
        <3>3. row'.state = t.to
            BY <3>1 DEF ApplyState
        <3>4. Lifecycle!Take(t)
            BY <3>1, <3>2, <3>3 DEF Lifecycle!Take
        <3>5. t \in Lifecycle!RunTransitions
            BY <3>2, SameTable
        <3>6. QED
            BY <3>4, <3>5 DEF Lifecycle!Next
    <2>2. ASSUME NEW r \in Requests, Quiet(r) PROVE UNCHANGED <<row.state, gates>>
        BY <1>1, <2>2, QuietSteps DEF DInv
    <2>3. ASSUME NEW r \in Requests, Send(r) PROVE UNCHANGED <<row.state, gates>>
        BY <2>3 DEF Send, database
    <2>4. CASE RecordMerge
        BY <2>4 DEF RecordMerge
    <2>5. CASE Crash
        BY <2>5 DEF Crash, database
    <2>6. CASE UNCHANGED vars
        BY <2>6 DEF vars, database
    <2>7. QED
        BY <1>1, <2>1, <2>2, <2>3, <2>4, <2>5, <2>6 DEF Next, Client, Wrapper, Pipeline, Quiet
<1>2. QED
    BY <1>1, AlwaysDInv, PTL DEF Spec, RunSteps

-----------------------------------------------------------------------------
(* Artifacts, publication and replay                                       *)

\* One request is served at a time.
Served == \A r \in Requests : pc[r] \in Serving <=> turn = r

\* What follows the commit comes after it and once: a request at the commit has left
\* nothing behind yet, and one past its artifact has no broken one.
Progress ==
    \A r \in Requests :
        /\ pc[r] \in {"committed", "written", "published"} => Committed(r)
        /\ r \in published \/ artifacts[r] # "none" => Committed(r)
        /\ pc[r] = "committed" => r \notin published /\ artifacts[r] = "none"
        /\ pc[r] \in {"written", "published"} \/ r \in published => artifacts[r] # "bad"
        /\ pc[r] = "published" => r \in published

\* A record is of a published request and is never written over; a replay is taken from one
\* whose effect is known.
Records ==
    /\ \A k \in Keys : records[k] # NoKey => records[k] \in published
    /\ \A r \in Requests : turn = r => ~Recorded(r)
    /\ \A r \in Requests :
        pc[r] = "replayed" => Recorded(r) /\ EffectOf[records[KeyOf[r]]] = "None"

WInv == DInv /\ Served /\ Progress /\ Records

\* The invariant of artifacts, publication and records holds initially.
LEMMA InitWInv == Init => WInv
<1> SUFFICES ASSUME Init PROVE WInv
    OBVIOUS
<1>1. DInv
    BY InitDInv
<1>2. Served
    BY CommandsAssumption DEF Init, Served, Serving
<1>3. Progress
    BY DEF Init, Progress
<1>4. Records
    BY CommandsAssumption DEF Init, Records
<1>5. QED
    BY <1>1, <1>2, <1>3, <1>4 DEF WInv

\* Events stay, and a commit leaves the event of its request, which had none.
LEMMA EventsStay ==
    ASSUME DInv, NEW q \in Requests, Commit(q)
    PROVE  /\ ~Committed(q)
           /\ Committed(q)'
           /\ \A r \in Requests : Committed(r) => Committed(r)'
<1> DEFINE Event == [by : Requests, from : RunStates, to : RunStates]
<1>1. PICK t \in Granted(q) : events' = Append(events, [by |-> q, from |-> t.from, to |-> t.to])
    BY DEF Commit
<1>2. events \in Seq(Event)
    BY DEF DInv, TypeOK
<1> HIDE DEF Event
<1>3. /\ DOMAIN events' = 1..(Len(events) + 1)
      /\ DOMAIN events = 1..Len(events)
      /\ Len(events) \in Nat
      /\ events'[Len(events) + 1] = [by |-> q, from |-> t.from, to |-> t.to]
      /\ \A i \in 1..Len(events) : events'[i] = events[i]
    BY <1>1, <1>2
<1>4. ~Committed(q)
    <2>1. seen[q].revision = row.revision /\ row.revision \in Nat
        BY DEF Commit, Fresh, DInv, TypeOK
    <2>2. QED
        BY <2>1 DEF Committed, DInv, MoversAreStale
<1>5. Committed(q)'
    BY <1>3 DEF Committed
<1>6. \A r \in Requests : Committed(r) => Committed(r)'
    BY <1>3 DEF Committed
<1>7. QED
    BY <1>4, <1>5, <1>6

\* Every step keeps it.
LEMMA StepWInv == WInv /\ [Next]_vars => WInv'
<1> SUFFICES ASSUME WInv, [Next]_vars PROVE WInv'
    OBVIOUS
<1>1. TypeOK /\ TypeOK' /\ DInv'
    BY StepDInv DEF WInv, DInv
<1>2. /\ pc \in [Requests -> {"new", "sent", "lost"} \cup Serving \cup Answered]
      /\ records \in [Keys -> Requests \cup {NoKey}]
      /\ artifacts \in [Requests -> {"none", "good", "bad"}]
      /\ published \subseteq Requests
      /\ turn \in Requests \cup {Idle}
    BY <1>1 DEF TypeOK
<1>3. \A r \in Requests : KeyOf[r] \in Keys
    BY CommandsAssumption
<1>4. ASSUME UNCHANGED events PROVE \A r \in Requests : Committed(r)' <=> Committed(r)
    BY <1>4 DEF Committed
<1>5. Served /\ Progress /\ Records
    BY DEF WInv
<1> USE CommandsAssumption, <1>1, <1>2, <1>3, <1>5 DEF Served, Serving, Answered, Answer, database
<1> HIDE DEF Served
<1>6. ASSUME NEW r \in Requests, Send(r) \/ LoseAnswer(r) \/ Resend(r) PROVE Served' /\ Progress' /\ Records'
    <2>1. /\ pc' \in {[pc EXCEPT ![r] = "sent"], [pc EXCEPT ![r] = "lost"]}
          /\ pc[r] \notin Serving
          /\ UNCHANGED <<events, records, artifacts, published, turn>>
        BY <1>6 DEF Send, LoseAnswer, Resend
    <2>2. Served'
        BY <2>1 DEF Served
    <2>3. Progress'
        BY <2>1, <1>4 DEF Progress
    <2>4. Records'
        BY <2>1 DEF Records, Recorded
    <2>5. QED
        BY <2>2, <2>3, <2>4
<1>7. ASSUME NEW r \in Requests, Replay(r) PROVE Served' /\ Progress' /\ Records'
    <2>1. /\ turn = Idle /\ turn' = Idle /\ Recorded(r)
          /\ pc' = [pc EXCEPT ![r] = FromRecord(r)]
          /\ UNCHANGED <<events, records, artifacts, published>>
        BY <1>7 DEF Replay
    <2>2. /\ FromRecord(r) \in {"conflict", "blocked", "replayed"}
          /\ FromRecord(r) = "replayed" => EffectOf[records[KeyOf[r]]] # "Unknown"
        BY DEF FromRecord
    <2>3. records[KeyOf[r]] \in Requests
        BY <2>1 DEF Recorded
    <2>4. FromRecord(r) = "replayed" => EffectOf[records[KeyOf[r]]] = "None"
        BY <2>2, <2>3
    <2>5. Served'
        BY <2>1, <2>2 DEF Served
    <2>6. Progress'
        BY <2>1, <2>2, <1>4 DEF Progress
    <2>7. Records'
        BY <2>1, <2>2, <2>4 DEF Records, Recorded
    <2>8. QED
        BY <2>5, <2>6, <2>7
<1>8. ASSUME NEW r \in Requests, Execute(r) PROVE Served' /\ Progress' /\ Records'
    <2>1. /\ turn = Idle /\ turn' = r /\ ~Recorded(r)
          /\ pc' = [pc EXCEPT ![r] = "executing"]
          /\ UNCHANGED <<events, records, artifacts, published>>
        BY <1>8 DEF Execute
    <2>2. Served'
        BY <2>1 DEF Served
    <2>3. Progress'
        BY <2>1, <1>4 DEF Progress
    <2>4. Records'
        BY <2>1 DEF Records, Recorded
    <2>5. QED
        BY <2>2, <2>3, <2>4
<1>9. ASSUME NEW r \in Requests, Record(r) PROVE Served' /\ Progress' /\ Records'
    <2>1. /\ turn = r /\ turn' = Idle /\ r \in published
          /\ pc' = [pc EXCEPT ![r] = "done"]
          /\ records' = [records EXCEPT ![KeyOf[r]] = r]
          /\ UNCHANGED <<events, artifacts, published>>
        BY <1>9 DEF Record, Progress
    <2>2. Served'
        BY <2>1 DEF Served
    <2>3. Progress'
        BY <2>1, <1>4 DEF Progress
    <2>4. \A q \in Requests : Recorded(q) => records'[KeyOf[q]] = records[KeyOf[q]]
        BY <2>1 DEF Records, Recorded
    <2>5. Records'
        BY <2>1, <2>4 DEF Records, Recorded
    <2>6. QED
        BY <2>2, <2>3, <2>5
<1>10. ASSUME turn \in Requests, NEW label \in {"refused", "failed", "lost"},
              turn' = Idle, pc' = [pc EXCEPT ![turn] = label],
              UNCHANGED <<events, records, artifacts, published>>
       PROVE  Served' /\ Progress' /\ Records'
    <2>1. Served'
        BY <1>10 DEF Served
    <2>2. Progress'
        BY <1>10, <1>4 DEF Progress
    <2>3. Records'
        BY <1>10 DEF Records, Recorded
    <2>4. QED
        BY <2>1, <2>2, <2>3
<1>11. ASSUME NEW r \in Requests, Refuse(r) \/ RollBack(r) \/ FailLate(r)
       PROVE  Served' /\ Progress' /\ Records'
    <2>1. PICK label \in {"refused", "failed"} : turn' = Idle /\ pc' = [pc EXCEPT ![r] = label]
        BY <1>11 DEF Refuse, RollBack, FailLate
    <2>2. turn = r /\ UNCHANGED <<events, records, artifacts, published>>
        BY <1>11 DEF Refuse, RollBack, FailLate
    <2>3. QED
        BY <2>1, <2>2, <1>10
<1>12. ASSUME Crash PROVE Served' /\ Progress' /\ Records'
    BY <1>12, <1>10 DEF Crash
<1>13. ASSUME NEW r \in Requests, Commit(r) PROVE Served' /\ Progress' /\ Records'
    <2>1. /\ turn = r /\ UNCHANGED <<turn, records, artifacts, published>>
          /\ pc' = [pc EXCEPT ![r] = "committed"]
        BY <1>13 DEF Commit
    <2>2. /\ ~Committed(r) /\ Committed(r)'
          /\ \A q \in Requests : Committed(q) => Committed(q)'
        BY <1>13, EventsStay DEF WInv
    <2>3. Served'
        BY <2>1 DEF Served
    <2>4. Progress'
        BY <2>1, <2>2 DEF Progress
    <2>5. Records'
        BY <2>1 DEF Records, Recorded
    <2>6. QED
        BY <2>3, <2>4, <2>5
<1>14. ASSUME NEW r \in Requests, WriteArtifact(r) PROVE Served' /\ Progress' /\ Records'
    <2>1. /\ turn = r /\ pc[r] = "committed" /\ UNCHANGED <<events, turn, records, published>>
          /\ pc' = [pc EXCEPT ![r] = "written"]
          /\ artifacts' \in {artifacts, [artifacts EXCEPT ![r] = "good"]}
        BY <1>14 DEF WriteArtifact
    <2>2. Served'
        BY <2>1 DEF Served
    <2>3. Progress'
        BY <2>1, <1>4 DEF Progress
    <2>4. Records'
        BY <2>1 DEF Records, Recorded
    <2>5. QED
        BY <2>2, <2>3, <2>4
<1>15. ASSUME NEW r \in Requests, Mismatch(r) PROVE Served' /\ Progress' /\ Records'
    <2>1. /\ turn = r /\ turn' = Idle /\ pc[r] = "committed"
          /\ UNCHANGED <<events, records, published>>
          /\ artifacts' = [artifacts EXCEPT ![r] = "bad"]
        BY <1>15 DEF Mismatch
    <2>2. PICK label \in {"mismatch", "failed"} : pc' = [pc EXCEPT ![r] = label]
        BY <1>15 DEF Mismatch
    <2>3. Served'
        BY <2>1, <2>2 DEF Served
    <2>4. Progress'
        BY <2>1, <2>2, <1>4 DEF Progress
    <2>5. Records'
        BY <2>1, <2>2 DEF Records, Recorded
    <2>6. QED
        BY <2>3, <2>4, <2>5
<1>16. ASSUME NEW r \in Requests, Publish(r) PROVE Served' /\ Progress' /\ Records'
    <2>1. /\ turn = r /\ pc[r] = "written" /\ UNCHANGED <<events, turn, records, artifacts>>
          /\ pc' = [pc EXCEPT ![r] = "published"]
          /\ published' = published \cup {r}
        BY <1>16 DEF Publish
    <2>2. Served'
        BY <2>1 DEF Served
    <2>3. Progress'
        BY <2>1, <1>4 DEF Progress
    <2>4. Records'
        BY <2>1 DEF Records, Recorded
    <2>5. QED
        BY <2>2, <2>3, <2>4
<1>17. ASSUME UNCHANGED <<events, records, artifacts, published, turn, pc>>
       PROVE  Served' /\ Progress' /\ Records'
    <2>1. Served'
        BY <1>17 DEF Served
    <2>2. Progress'
        BY <1>17, <1>4 DEF Progress
    <2>3. Records'
        BY <1>17 DEF Records, Recorded
    <2>4. QED
        BY <2>1, <2>2, <2>3
<1>18. ASSUME RecordMerge PROVE Served' /\ Progress' /\ Records'
    BY <1>18, <1>17 DEF RecordMerge
<1>19. ASSUME UNCHANGED vars PROVE Served' /\ Progress' /\ Records'
    BY <1>19, <1>17 DEF vars
<1>20. Served' /\ Progress' /\ Records'
    BY <1>6, <1>7, <1>8, <1>9, <1>11, <1>12, <1>13, <1>14, <1>15, <1>16, <1>18, <1>19
    DEF Next, Client, Wrapper, Pipeline
<1>21. QED
    BY <1>20 DEF WInv

\* It holds whatever commands, crashes and retries do.
THEOREM AlwaysWInv == Spec => []WInv
BY InitWInv, StepWInv, PTL DEF Spec

\* Subscribers hear of requests that were committed and left no broken artifact.
THEOREM PublishedHaveHappened == Spec => []PublishedHappened
<1>1. WInv => PublishedHappened
    <2> SUFFICES ASSUME WInv, NEW r \in published PROVE Committed(r) /\ artifacts[r] # "bad"
        BY DEF PublishedHappened
    <2>1. r \in Requests
        BY DEF WInv, DInv, TypeOK
    <2>2. QED
        BY <2>1 DEF WInv, Progress
<1>2. QED
    BY <1>1, AlwaysWInv, PTL

\* A replayed answer was true when it was recorded, of an effect that is known.
THEOREM ReplaysTellTruth == Spec => []ReplayTellsTruth
<1>1. WInv => ReplayTellsTruth
    <2> SUFFICES ASSUME WInv, NEW r \in Requests, pc[r] = "replayed"
                 PROVE  /\ records[KeyOf[r]] \in published
                        /\ Committed(records[KeyOf[r]])
                        /\ EffectOf[records[KeyOf[r]]] = "None"
        BY DEF ReplayTellsTruth
    <2>1. records[KeyOf[r]] \in published /\ EffectOf[records[KeyOf[r]]] = "None"
        BY CommandsAssumption DEF WInv, Records, Recorded
    <2>2. records[KeyOf[r]] \in Requests
        BY <2>1 DEF WInv, DInv, TypeOK
    <2>3. Committed(records[KeyOf[r]])
        BY <2>1, <2>2 DEF WInv, Progress
    <2>4. QED
        BY <2>1, <2>3
<1>2. QED
    BY <1>1, AlwaysWInv, PTL
=============================================================================
