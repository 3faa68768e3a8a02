------------------------------ MODULE EventStream ------------------------------
(***************************************************************************)
(* The event store with its audit list, one client of the event stream,    *)
(* and the retention sweep, whose audit entry is the only record that a    *)
(* workspace was removed.  A sweep is one callback: the store and the runs *)
(* have nothing else done to them meanwhile, but it may throw between any  *)
(* two of its steps.                                                       *)
(*                                                                         *)
(* The server answers a connection with one page of events after a cursor. *)
(* The transport keeps the id of the last message as Last-Event-ID and     *)
(* sends it when it connects again by itself; the client keeps a cursor of *)
(* its own and puts it into the query, where the server does not look: a   *)
(* connection the client opens starts from the first event.                *)
(***************************************************************************)
EXTENDS Naturals, Sequences, FiniteSets

CONSTANTS
    Runs,         \* runs that events are about
    NoRun,        \* the filter of a client that follows every run
    None,         \* a cursor that is null
    PageLimit,    \* contract.batchSize
    Floors,       \* retentionFloorEventId of a server
    Scenes,       \* bound: which of the client and the retention sweep a behaviour has
    MaxEvents,    \* bound: per scene, ids given to events other than those of sweeps
    MaxTrouble    \* bound: cuts, heartbeats, new connections and refused audits together

ASSUME EventStreamAssumption ==
    /\ NoRun \notin Runs /\ None \notin Nat
    /\ PageLimit \in Nat \ {0} /\ Floors \subseteq Nat
    /\ \A s \in Scenes : s \subseteq {"client", "retention"}
    /\ MaxEvents \in [Scenes -> Nat] /\ MaxTrouble \in Nat

VARIABLES
    log,        \* the events, in the order they were appended
    next,       \* nextEventId
    audit,      \* the audit entries: the event each one names, and the runs it says were cleaned up
    eligible,   \* settled runs whose retention time is over
    removed,    \* runs whose workspace was removed
    sweep,      \* the sweep that is running: how far it is, what it planned, what it has done of that
    floor,      \* retentionFloorEventId
    follow,     \* the run the client follows
    scene,      \* what this behaviour has
    wire,       \* the rest of the page on its way to the client, which arrives in the order of ids
    header,     \* the Last-Event-ID the transport would send
    client,     \* state.connection of the client
    got,        \* ids of the events the client has received
    snapshot,   \* the event up to which a reset has sent the client to the REST snapshot
    trouble

store == <<log, next, audit>>
retention == <<eligible, removed, sweep>>
stream == <<wire, header, client, got, snapshot>>
vars == <<store, retention, floor, follow, scene, stream, trouble>>

Cursors == Nat \cup {None}
Types == {"event", "stream_reset_required", "heartbeat"}
Message(type, id) == [type |-> type, id |-> id]

NoSweep == [at |-> "idle", plan |-> {}, done |-> {}, event |-> 0]

TypeOK ==
    /\ log \in Seq([id : Nat \ {0}, run : Runs \cup {NoRun}])
    /\ next \in Nat \ {0}
    /\ audit \subseteq [event : Nat, cleaned : SUBSET Runs]
    /\ eligible \subseteq Runs /\ removed \subseteq Runs
    /\ sweep \in [at : {"idle", "executing", "recording"}, plan : SUBSET Runs, done : SUBSET Runs,
                  event : Nat]
    /\ floor \in Floors /\ follow \in Runs \cup {NoRun} /\ scene \in Scenes
    /\ wire \subseteq [type : Types, id : Nat]
    /\ header \in Cursors
    /\ client \in [status : {"idle", "connected", "disconnected", "reconnecting"},
                   cursor : Cursors, attempt : Nat]
    /\ got \subseteq Nat /\ snapshot \in Nat
    /\ trouble \in Nat

Init ==
    /\ log = <<>> /\ next = 1 /\ audit = {}
    /\ eligible = {} /\ removed = {} /\ sweep = NoSweep
    /\ floor \in Floors /\ follow \in Runs \cup {NoRun} /\ scene \in Scenes
    /\ wire = {} /\ header = None /\ got = {} /\ snapshot = 0
    /\ client = [status |-> "idle", cursor |-> None, attempt |-> 0]
    /\ trouble = 0

Disturb == trouble < MaxTrouble /\ trouble' = trouble + 1

-----------------------------------------------------------------------------
(* The store                                                               *)

\* A bug: the id is the one the last event got.
AppendEventBefore(run) == log' = Append(log, [id |-> next - 1, run |-> run]) /\ next' = next + 1

AppendEvent(run) == log' = Append(log, [id |-> next, run |-> run]) /\ next' = next + 1

AppendAudit(event, cleaned) ==
    /\ \E i \in DOMAIN log' : log'[i].id = event
    /\ audit' = audit \cup {[event |-> event, cleaned |-> cleaned]}

\* No sweep has the callback.
Free == sweep = NoSweep

\* appendEventAndAudit: an audit entry that lacks a field is refused when its event is in the log.
Publish(run) ==
    /\ Free /\ next <= MaxEvents[scene]
    /\ AppendEvent(run)
    /\ \/ AppendAudit(next, {}) /\ UNCHANGED trouble
       \/ Disturb /\ UNCHANGED audit
    /\ UNCHANGED <<retention, floor, follow, scene, stream>>

\* An event without a type is refused, and its id is used up.
Refuse ==
    /\ Free /\ next <= MaxEvents[scene]
    /\ next' = next + 1
    /\ UNCHANGED <<log, audit, retention, floor, follow, scene, stream, trouble>>

-----------------------------------------------------------------------------
(* The retention sweep                                                     *)

\* Retention time passes for a settled run, or the run leaves the sweep's reach: it is kept, or
\* taken up again.  Neither asks whether its worktree is still there.
Settle(run) ==
    /\ Free /\ "retention" \in scene
    /\ eligible' = IF run \in eligible THEN eligible \ {run} ELSE eligible \cup {run}
    /\ UNCHANGED <<store, removed, sweep, floor, follow, scene, stream, trouble>>

Audited == UNION {a.cleaned : a \in audit}

\* A bug: a run whose workspace is already gone is not planned again.
PlannedOnce == eligible \ removed

\* Plans are made from the records of the runs: one already cleaned up is planned again.
Planned == eligible

\* A sweep that has nothing to say the audit does not say already is left out.
BeginSweep ==
    /\ Free
    /\ Planned \ Audited # {}
    /\ sweep' = [NoSweep EXCEPT !.at = "executing", !.plan = Planned]
    /\ UNCHANGED <<store, eligible, removed, floor, follow, scene, stream, trouble>>

\* One clean-up after the other; one that finds the worktree gone says so and goes on.
Execute(run) ==
    /\ sweep.at = "executing"
    /\ run \in sweep.plan \ sweep.done
    /\ removed' = removed \cup {run}
    /\ sweep' = [sweep EXCEPT !.done = @ \cup {run}]
    /\ UNCHANGED <<store, eligible, floor, follow, scene, stream, trouble>>

\* A clean-up throws: its run has no repository path, or git refuses, perhaps the branch only.
\* What was removed stays removed, and nothing is appended.
ExecuteFails ==
    /\ sweep.at = "executing"
    /\ \E run \in sweep.plan \ sweep.done : removed' \in {removed, removed \cup {run}}
    /\ sweep' = NoSweep
    /\ UNCHANGED <<store, eligible, floor, follow, scene, stream, trouble>>

\* The event comes first, and is in the log before the audit is.
AppendSweepEvent ==
    /\ sweep.at = "executing" /\ sweep.done = sweep.plan
    /\ AppendEvent(NoRun)
    /\ sweep' = [sweep EXCEPT !.at = "recording", !.event = next]
    /\ UNCHANGED <<audit, eligible, removed, floor, follow, scene, stream, trouble>>

\* The entry of a sweep has every field: it is not refused.
AppendSweepAudit ==
    /\ sweep.at = "recording"
    /\ UNCHANGED <<log, next, eligible, removed, floor, follow, scene, stream, trouble>>
    /\ AppendAudit(sweep.event, sweep.done)
    /\ sweep' = NoSweep

Sweep == BeginSweep \/ (\E run \in Runs : Execute(run)) \/ AppendSweepEvent \/ AppendSweepAudit

-----------------------------------------------------------------------------
(* The stream                                                              *)

\* Positions in the log.
After(cursor) == {i \in DOMAIN log : log[i].id > cursor}

\* A bug: the page holds the latest events after the cursor instead of the first ones.
PageLatest(cursor) ==
    {i \in After(cursor) : Cardinality({j \in After(cursor) : j > i}) < PageLimit}

Page(cursor) == {i \in After(cursor) : Cardinality({j \in After(cursor) : j < i}) < PageLimit}

\* What the client asks for: the run and the cursor, both in the query.
SseUrl == [runId |-> follow, lastEventId |-> client.cursor]

\* What the server reads: the run of the query and the header, never the cursor of the query.
ParseSseRequest(url, lastEventId) == [runId |-> url.runId, lastEventId |-> lastEventId]

ResetEvent == Message("stream_reset_required", floor)

Wanted(page, runId) == {i \in page : runId = NoRun \/ log[i].run = runId}

Sent(page) == {Message("event", log[i].id) : i \in page}

\* A bug: the cursor is compared with the floor, and the page is always the first.
ReplayFirstPage(request) ==
    IF request.lastEventId # None /\ request.lastEventId < floor THEN {ResetEvent}
    ELSE Sent(Wanted(Page(0), request.runId))

\* A cursor below the floor is answered with a reset; no cursor is not below it.  The page is cut
\* before the events of other runs are taken out of it.
Replay(request) ==
    LET cursor == request.lastEventId IN
    IF cursor # None /\ cursor < floor THEN {ResetEvent}
    ELSE Sent(Wanted(Page(IF cursor = None THEN 0 ELSE cursor), request.runId))

\* transitionConnection: a cursor that is null or not given leaves the one there is (??).
Transition(status, cursor, attempt) ==
    client' = [status |-> status, attempt |-> attempt,
               cursor |-> IF cursor = None THEN client.cursor ELSE cursor]

\* The client opens a connection.
Connect ==
    /\ "client" \in scene /\ Disturb
    /\ client.status # "connected"
    /\ Transition("connected", None, client.attempt)
    /\ header' = None
    /\ wire' = Replay(ParseSseRequest(SseUrl, None))
    /\ UNCHANGED <<store, retention, floor, follow, scene, got, snapshot>>

\* The connection has ended and the transport opens the next one by itself.
Reconnect ==
    /\ client.status \in {"connected", "reconnecting"}
    /\ wire = {}
    /\ wire' = Replay(ParseSseRequest(SseUrl, header))
    /\ wire' # {}
    /\ UNCHANGED <<store, retention, floor, follow, scene, header, client, got, snapshot, trouble>>

\* The server is idle; its heartbeat carries the id 0, for the transport an id like any other.
Heartbeat ==
    /\ Disturb
    /\ client.status \in {"connected", "reconnecting"} /\ wire = {}
    /\ wire' = {Message("heartbeat", 0)}
    /\ UNCHANGED <<store, retention, floor, follow, scene, header, client, got, snapshot>>

\* The connection breaks; what was on its way is lost.
Cut ==
    /\ Disturb
    /\ wire # {}
    /\ wire' = {}
    /\ UNCHANGED <<store, retention, floor, follow, scene, header, client, got, snapshot>>

Disconnect ==
    /\ client.status \in {"connected", "reconnecting"}
    /\ Disturb
    /\ Transition("disconnected", None, client.attempt)
    /\ wire' = {} /\ header' = None
    /\ UNCHANGED <<store, retention, floor, follow, scene, got, snapshot>>

\* handleEvent.  At a reset the client asks for a null cursor, which keeps the one it has, and loads
\* the REST snapshot.
Receive ==
    /\ \E m \in wire :
        /\ \A n \in wire : m.id <= n.id
        /\ header' = m.id
        /\ IF m.type = "stream_reset_required"
           THEN /\ Transition("reconnecting", None, client.attempt + 1)
                /\ snapshot' = m.id
           ELSE /\ Transition("connected", m.id, 0)
                /\ UNCHANGED snapshot
        /\ got' = IF m.type = "event" THEN got \cup {m.id} ELSE got
        /\ wire' = wire \ {m}
    /\ UNCHANGED <<store, retention, floor, follow, scene, trouble>>

Next ==
    \/ \E run \in Runs \cup {NoRun} : Publish(run)
    \/ \E run \in Runs : Settle(run)
    \/ Refuse
    \/ Sweep \/ ExecuteFails
    \/ Connect \/ Reconnect \/ Heartbeat \/ Cut \/ Disconnect \/ Receive

\* The transport connects again and delivers; the sweep runs daily, and may fail as often as it likes.
Fairness == WF_vars(Reconnect) /\ WF_vars(Receive) /\ WF_vars(Sweep)

Spec == Init /\ [][Next]_vars /\ Fairness

-----------------------------------------------------------------------------
(* Properties                                                              *)

Followed == {log[i].id : i \in {j \in DOMAIN log : follow = NoRun \/ log[j].run = follow}}

\* No cursor runs ahead: every event of the followed run up to the client's cursor, or up to the
\* id the transport would name, has been received or is in the snapshot a reset asked for.
NothingSkipped ==
    \A id \in Followed : \A cursor \in {header, client.cursor} \ {None} :
        snapshot < id /\ id <= cursor => id \in got

Missing == {id \in Followed : id > snapshot /\ id \notin got}

\* The page after a cursor is full, and none of its events is for the client.
OthersFillPage ==
    \E others \in SUBSET {i \in DOMAIN log : log[i].id \notin Followed} :
        /\ Cardinality(others) >= PageLimit
        /\ header # None => \A i \in others : header < log[i].id
        /\ \A i \in others, id \in Missing : log[i].id < id

\* A connected client that misses an event and has nothing on its way is sent something when it
\* connects again, unless a whole page of events of other runs lies before all it misses: the limit
\* is applied before the filter, and that is the only way a client comes to a stand.
StallsOnlyBehindOthers ==
    Missing # {} /\ ~OthersFillPage => Replay(ParseSseRequest(SseUrl, header)) # {}

\* A client that follows every run and stays connected receives every event, or is sent to a
\* snapshot that holds it, through cuts, resets and refused events.
FollowerCatchesUp ==
    \A id \in UNION {1..(MaxEvents[s] + Cardinality(Runs)) : s \in Scenes} :
        (follow = NoRun /\ id \in Followed) ~>
            (id \in got \/ id <= snapshot \/ client.status \in {"idle", "disconnected"})

\* What the audit says has happened: the event an entry names is in the log, and every run it calls
\* cleaned up has lost its workspace, in whatever order sweeps fail, are repeated and append.
AuditTellsTruth ==
    /\ \A a \in audit : \E i \in DOMAIN log : log[i].id = a.event
    /\ Audited \subseteq removed

\* A removal by a sweep that then failed is not lost: if its run stays eligible, the audit names it in
\* the end, unless clean-ups fail again and again.  One that is kept or taken up again before a sweep
\* goes through is planned no more, and its removal is never audited.
RemovalIsAudited ==
    \A run \in Runs :
        <>[](run \in removed /\ run \in eligible) =>
            <>(run \in Audited) \/ []<><<ExecuteFails>>_vars
=============================================================================
