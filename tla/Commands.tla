------------------------------- MODULE Commands -------------------------------
(***************************************************************************)
(* Commands that move a run: the idempotency wrapper around the command    *)
(* pipeline, the SQLite transaction under it, artifacts and publication,   *)
(* with crashes between any two steps and clients that send again.         *)
(*                                                                         *)
(* A command is one callback: turn names the request it serves, and its    *)
(* steps are apart so that a crash may fall between them.  The client has  *)
(* read the run before it sends; the guard and the revision check see what *)
(* it read.                                                                *)
(***************************************************************************)
EXTENDS StateMachine, Naturals, Sequences

CONSTANTS
    Requests,     \* requests of clients; each may be sent several times
    Keys,         \* idempotency keys
    KeyOf,        \* the key of each request: one key may be used for two
    EffectOf,     \* externalEffectState of each request: "None" or "Unknown"
    Starts        \* where the run may be when the first request is sent

VARIABLES
    row,          \* the run in SQLite: its state and its revision
    merged,       \* its merge columns (accepted_at, merge_verified_at, target_commit) are set
    gates,        \* gates passed, as RunLifecycle counts them
    events,       \* the events table: the request and the transition of each row
    audits,       \* the audit table: the request and the event_id of each row
    records,      \* idempotency_records: the request each key is recorded for
    artifacts,    \* content found at the artifact path of each request
    published,    \* requests whose event was published
    turn,         \* the request that is being served
    pc,           \* progress of each request
    command,      \* its fingerprint: the event and the context of its guard
    seen          \* state and revision its client had read

database == <<row, merged, gates, events, audits>>
vars == <<database, records, artifacts, published, turn, pc, command, seen>>

Idle == "idle"
NoKey == "no_request"
NoCommand == [event |-> "none", context |-> {}]

\* What a caller asks and what its guard will see: enough for a transition, or what bars it.
FingerprintsOf(t) == {[event |-> t.event, context |-> c] : c \in {t.needs, t.bars}}
Fingerprints == {NoCommand} \cup UNION {FingerprintsOf(t) : t \in RunTransitions}

ASSUME CommandsAssumption ==
    /\ KeyOf \in [Requests -> Keys]
    /\ EffectOf \in [Requests -> {"None", "Unknown"}]
    /\ Idle \notin Requests
    /\ NoKey \notin Requests
    /\ \A s \in Starts :
        /\ s.state \in RunStates
        /\ s.gates \subseteq {"pipeline", "accepted", "merged"}
        /\ s.state = "Accepted" => "accepted" \in s.gates
        /\ s.state = "Completed" => {"accepted", "merged"} \subseteq s.gates

Lifecycle == INSTANCE RunLifecycle WITH state <- row.state, gates <- gates

Serving == {"executing", "committed", "written", "published"}
Answered == {"done", "replayed", "refused", "conflict", "blocked", "mismatch", "failed"}

TypeOK ==
    /\ row \in [state : RunStates, revision : Nat]
    /\ merged \in BOOLEAN
    /\ gates \subseteq {"pipeline", "accepted", "merged"}
    /\ events \in Seq([by : Requests, from : RunStates, to : RunStates])
    /\ audits \in Seq([by : Requests, event : Nat])
    /\ records \in [Keys -> Requests \cup {NoKey}]
    /\ artifacts \in [Requests -> {"none", "good", "bad"}]
    /\ published \subseteq Requests
    /\ turn \in Requests \cup {Idle}
    /\ pc \in [Requests -> {"new", "sent", "lost"} \cup Serving \cup Answered]
    /\ command \in [Requests -> Fingerprints]
    /\ seen \in [Requests -> [state : RunStates, revision : Nat]]

Init ==
    /\ \E s \in Starts :
        /\ row = [state |-> s.state, revision |-> 1]
        /\ gates = s.gates
        /\ merged = ("merged" \in s.gates)
    /\ events = <<>>
    /\ audits = <<>>
    /\ records = [k \in Keys |-> NoKey]
    /\ artifacts = [r \in Requests |-> "none"]
    /\ published = {}
    /\ turn = Idle
    /\ pc = [r \in Requests |-> "new"]
    /\ command = [r \in Requests |-> NoCommand]
    /\ seen = [r \in Requests |-> row]

-----------------------------------------------------------------------------
(* Clients and other writers                                               *)

\* A client reads the run and sends a command for what it saw.
Send(r) ==
    /\ turn = Idle
    /\ pc[r] = "new"
    /\ seen' = [seen EXCEPT ![r] = row]
    /\ \E t \in RunTransitions :
        /\ t.from = row.state
        /\ \E f \in FingerprintsOf(t) : command' = [command EXCEPT ![r] = f]
    /\ pc' = [pc EXCEPT ![r] = "sent"]
    /\ UNCHANGED <<database, records, artifacts, published, turn>>

\* An answer is lost or an error, and the request may be sent once more as it was.
LoseAnswer(r) ==
    /\ pc[r] \in {"done", "mismatch", "failed"}
    /\ pc' = [pc EXCEPT ![r] = "lost"]
    /\ UNCHANGED <<database, records, artifacts, published, turn, command, seen>>

Resend(r) ==
    /\ turn = Idle
    /\ pc[r] = "lost"
    /\ pc' = [pc EXCEPT ![r] = "sent"]
    /\ UNCHANGED <<database, records, artifacts, published, turn, command, seen>>

\* Gate F stores what it verified before the run is completed.
RecordMerge ==
    /\ turn = Idle
    /\ row.state = "Accepted"
    /\ ~merged
    /\ merged' = TRUE
    /\ UNCHANGED <<row, gates, events, audits, records, artifacts, published, turn, pc, command, seen>>

-----------------------------------------------------------------------------
(* withIdempotency                                                         *)

Answer(r, label) ==
    /\ turn' = Idle
    /\ pc' = [pc EXCEPT ![r] = label]

Recorded(r) == records[KeyOf[r]] # NoKey

\* The record of the key is for another fingerprint, for an effect nobody knows the
\* outcome of, or it is the answer.
FromRecord(r) ==
    LET other == records[KeyOf[r]]
    IN IF command[other] # command[r] THEN "conflict"
       ELSE IF EffectOf[other] = "Unknown" THEN "blocked"
       ELSE "replayed"

Replay(r) ==
    /\ turn = Idle
    /\ pc[r] = "sent"
    /\ Recorded(r)
    /\ Answer(r, FromRecord(r))
    /\ UNCHANGED <<database, records, artifacts, published, command, seen>>

\* A bug: the record is written before the effect.
ExecuteRecordFirst(r) ==
    /\ turn = Idle
    /\ pc[r] = "sent"
    /\ ~Recorded(r)
    /\ turn' = r
    /\ pc' = [pc EXCEPT ![r] = "executing"]
    /\ records' = [records EXCEPT ![KeyOf[r]] = r]
    /\ UNCHANGED <<database, artifacts, published, command, seen>>

Execute(r) ==
    /\ turn = Idle
    /\ pc[r] = "sent"
    /\ ~Recorded(r)
    /\ turn' = r
    /\ pc' = [pc EXCEPT ![r] = "executing"]
    /\ UNCHANGED <<database, records, artifacts, published, command, seen>>

Record(r) ==
    /\ turn = r
    /\ pc[r] = "published"
    /\ records' = [records EXCEPT ![KeyOf[r]] = r]
    /\ Answer(r, "done")
    /\ UNCHANGED <<database, artifacts, published, command, seen>>

-----------------------------------------------------------------------------
(* The pipeline                                                            *)

\* A bug: an older revision passes.
FreshAtMost(r) == seen[r].revision <= row.revision

\* assertFreshRevision in the command's validation
Fresh(r) == seen[r].revision = row.revision

Granted(r) == ApplyRun(seen[r].state, command[r].event, command[r].context)

Refuse(r) ==
    /\ turn = r
    /\ pc[r] = "executing"
    /\ ~Fresh(r) \/ Granted(r) = {}
    /\ Answer(r, "refused")
    /\ UNCHANGED <<database, records, artifacts, published, command, seen>>

\* runs_completed_update_guard
TriggerAborts(t) == t.to = "Completed" /\ ~merged

\* Mutations of ApplyState: the event is stored for the state; the revision stays.
ApplyEvent(t) == row' = [state |-> t.event, revision |-> row.revision + 1]

ApplyUnversioned(t) == row' = [row EXCEPT !.state = t.to]

\* The row is named by its id only, whatever state it is in by now.
ApplyState(t) == row' = [state |-> t.to, revision |-> row.revision + 1]

\* The audit entry takes the highest event id there is.
AppendAudit(r) == audits' = Append(audits, [by |-> r, event |-> Len(events')])

\* One transaction writes the row, the event and the audit entry.
Commit(r) ==
    /\ turn = r
    /\ pc[r] = "executing"
    /\ Fresh(r)
    /\ \E t \in Granted(r) :
        /\ ~TriggerAborts(t)
        /\ ApplyState(t)
        /\ gates' = Lifecycle!GatesAfter(t, gates)
        /\ events' = Append(events, [by |-> r, from |-> t.from, to |-> t.to])
    /\ AppendAudit(r)
    /\ pc' = [pc EXCEPT ![r] = "committed"]
    /\ UNCHANGED <<merged, records, artifacts, published, turn, command, seen>>

\* A trigger aborts, or SQLite fails: everything is rolled back.
RollBack(r) ==
    /\ turn = r
    /\ pc[r] = "executing"
    /\ Fresh(r)
    /\ Granted(r) # {}
    /\ Answer(r, "failed")
    /\ UNCHANGED <<database, records, artifacts, published, command, seen>>

\* A temporary file and a rename; without an artifact the step does nothing.
WriteArtifact(r) ==
    /\ turn = r
    /\ pc[r] = "committed"
    /\ artifacts' \in {artifacts, [artifacts EXCEPT ![r] = "good"]}
    /\ pc' = [pc EXCEPT ![r] = "written"]
    /\ UNCHANGED <<database, records, published, turn, command, seen>>

\* A required artifact with another hash stays where it was renamed to; the hook that is
\* told of it may throw too.
Mismatch(r) ==
    /\ turn = r
    /\ pc[r] = "committed"
    /\ artifacts' = [artifacts EXCEPT ![r] = "bad"]
    /\ \E label \in {"mismatch", "failed"} : Answer(r, label)
    /\ UNCHANGED <<database, records, published, command, seen>>

\* The file system, a subscriber or the store of records throws after the commit.
FailLate(r) ==
    /\ turn = r
    /\ pc[r] \in {"committed", "written", "published"}
    /\ Answer(r, "failed")
    /\ UNCHANGED <<database, records, artifacts, published, command, seen>>

Publish(r) ==
    /\ turn = r
    /\ pc[r] = "written"
    /\ published' = published \cup {r}
    /\ pc' = [pc EXCEPT ![r] = "published"]
    /\ UNCHANGED <<database, records, artifacts, turn, command, seen>>

\* The process ends and is started again; the client hears nothing.
Crash ==
    /\ turn # Idle
    /\ Answer(turn, "lost")
    /\ UNCHANGED <<database, records, artifacts, published, command, seen>>
-----------------------------------------------------------------------------
Client(r) == Send(r) \/ LoseAnswer(r) \/ Resend(r)

Wrapper(r) == Replay(r) \/ Execute(r) \/ Record(r)

Pipeline(r) ==
    \/ Refuse(r) \/ Commit(r) \/ RollBack(r)
    \/ WriteArtifact(r) \/ Mismatch(r) \/ FailLate(r) \/ Publish(r)

Next ==
    \/ \E r \in Requests : Client(r) \/ Wrapper(r) \/ Pipeline(r)
    \/ RecordMerge
    \/ Crash

Spec == Init /\ [][Next]_vars

-----------------------------------------------------------------------------
(* Properties                                                              *)

Committed(r) == \E i \in DOMAIN events : events[i].by = r

\* The events of a run are its history: each starts where the one before it ended, the
\* last ends where the run is, and the revision counts them.
EventsTellRow ==
    /\ row.revision = Len(events) + 1
    /\ \A i \in DOMAIN events : i > 1 => events[i].from = events[i - 1].to
    /\ events # <<>> => events[Len(events)].to = row.state

\* Every event has one audit entry, its own, whatever failed or crashed.
EveryEventAudited ==
    /\ Len(audits) = Len(events)
    /\ \A i \in DOMAIN audits : audits[i].event = i /\ audits[i].by = events[i].by

\* A request moves the run at most once, however often it is sent and wherever the
\* service stopped while it was served.
AppliedOnce ==
    \A i, j \in DOMAIN events : events[i].by = events[j].by => i = j

\* What subscribers are told has happened, and no required artifact of it is broken.
PublishedHappened == \A r \in published : Committed(r) /\ artifacts[r] # "bad"

\* A replay repeats an answer that was true: the request it is taken from was carried
\* out in full, and no outcome was unknown.
ReplayTellsTruth ==
    \A r \in Requests : pc[r] = "replayed" =>
        LET other == records[KeyOf[r]]
        IN other \in published /\ Committed(other) /\ EffectOf[other] = "None"

\* The database never holds a completed run without the merge it needs.
CompletedIsMerged == row.state = "Completed" => merged

\* Whatever clients read, and whenever, the run only makes transitions of the table.
RunSteps == [][Lifecycle!Next]_<<row.state, gates>>

CompletedThroughGates == Lifecycle!CompletedThroughGates
=============================================================================
