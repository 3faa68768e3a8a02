--------------------------- MODULE EventStreamProofs ---------------------------
(* Theorems about EventStream, for any runs, page limit, floors and bounds. *)
EXTENDS EventStream, FiniteSetTheorems, WellFoundedInduction, TLAPS

-----------------------------------------------------------------------------
(* Types                                                                   *)

Entries == [id : Nat \ {0}, run : Runs \cup {NoRun}]
Messages == [type : Types, id : Nat]
Clients == [status : {"idle", "connected", "disconnected", "reconnecting"},
            cursor : Cursors, attempt : Nat]
Sweeps == [at : {"idle", "executing", "recording"}, plan : SUBSET Runs, done : SUBSET Runs, event : Nat]

LEMMA TypeParts ==
    LET Parts == /\ log \in Seq(Entries) /\ next \in Nat \ {0}
                 /\ audit \subseteq [event : Nat, cleaned : SUBSET Runs]
                 /\ eligible \subseteq Runs /\ removed \subseteq Runs /\ sweep \in Sweeps
                 /\ floor \in Floors /\ follow \in Runs \cup {NoRun} /\ scene \in Scenes
                 /\ wire \subseteq Messages /\ header \in Cursors /\ client \in Clients
                 /\ got \subseteq Nat /\ snapshot \in Nat /\ trouble \in Nat
    IN  (TypeOK <=> Parts) /\ (TypeOK' <=> Parts')
BY DEF TypeOK, Entries, Messages, Clients, Sweeps

\* The log grows at its end.
LEMMA AppendGrows ==
    ASSUME log \in Seq(Entries), NEW run \in Runs \cup {NoRun}, next \in Nat \ {0}, AppendEvent(run)
    PROVE  /\ log' \in Seq(Entries) /\ next' \in Nat \ {0} /\ next' = next + 1
           /\ Len(log) \in Nat /\ DOMAIN log = 1..Len(log)
           /\ DOMAIN log' = 1..(Len(log) + 1)
           /\ \A i \in DOMAIN log : i \in DOMAIN log' /\ log'[i] = log[i]
           /\ log'[Len(log) + 1] = [id |-> next, run |-> run]
<1>1. [id |-> next, run |-> run] \in Entries
    BY DEF Entries
<1>2. log' = Append(log, [id |-> next, run |-> run])
    BY DEF AppendEvent
<1>3. QED
    BY <1>1, <1>2 DEF AppendEvent

LEMMA EntryTypes ==
    ASSUME log \in Seq(Entries), NEW i \in DOMAIN log
    PROVE  log[i] \in Entries /\ log[i].id \in Nat \ {0} /\ log[i].run \in Runs \cup {NoRun}
<1>1. log[i] \in Entries
    OBVIOUS
<1>2. QED
    BY <1>1 DEF Entries

LEMMA SentTypes ==
    ASSUME log \in Seq(Entries), NEW page \in SUBSET DOMAIN log
    PROVE  Sent(page) \subseteq Messages
BY EntryTypes DEF Sent, Message, Messages, Types

LEMMA PageTypes ==
    ASSUME NEW cursor, NEW run
    PROVE  /\ After(cursor) \subseteq DOMAIN log /\ Page(cursor) \subseteq After(cursor)
           /\ Wanted(Page(cursor), run) \subseteq Page(cursor)
BY DEF After, Page, Wanted

LEMMA ReplayTypes ==
    ASSUME log \in Seq(Entries), floor \in Nat, NEW request
    PROVE  Replay(request) \subseteq Messages
BY PageTypes, SentTypes DEF Replay, ResetEvent, Message, Messages, Types

LEMMA FloorIsNat == floor \in Floors => floor \in Nat
BY EventStreamAssumption

LEMMA AuditTypes ==
    ASSUME audit \subseteq [event : Nat, cleaned : SUBSET Runs], NEW event \in Nat,
           NEW cleaned \in SUBSET Runs, AppendAudit(event, cleaned)
    PROVE  audit' \subseteq [event : Nat, cleaned : SUBSET Runs]
BY DEF AppendAudit

LEMMA TransitionTypes ==
    ASSUME client \in Clients, NEW status \in {"idle", "connected", "disconnected", "reconnecting"},
           NEW cursor \in Cursors, NEW attempt \in Nat, Transition(status, cursor, attempt)
    PROVE  client' \in Clients
BY DEF Transition, Clients

LEMMA DisturbTypes == trouble \in Nat /\ Disturb => trouble' \in Nat
BY DEF Disturb

LEMMA InitType == Init => TypeOK
<1> SUFFICES ASSUME Init PROVE TypeOK
    OBVIOUS
<1>1. client \in Clients /\ sweep \in Sweeps
    BY DEF Init, Clients, Cursors, NoSweep, Sweeps
<1>2. QED
    BY <1>1, TypeParts DEF Init, Cursors

LEMMA NextType == TypeOK /\ [Next]_vars => TypeOK'
<1> SUFFICES ASSUME TypeOK, [Next]_vars PROVE TypeOK'
    OBVIOUS
<1>0. /\ log \in Seq(Entries) /\ next \in Nat \ {0}
      /\ audit \subseteq [event : Nat, cleaned : SUBSET Runs]
      /\ eligible \subseteq Runs /\ removed \subseteq Runs /\ sweep \in Sweeps
      /\ floor \in Floors /\ follow \in Runs \cup {NoRun} /\ scene \in Scenes
      /\ wire \subseteq Messages /\ header \in Cursors /\ client \in Clients
      /\ got \subseteq Nat /\ snapshot \in Nat /\ trouble \in Nat /\ floor \in Nat
    BY TypeParts, FloorIsNat
<1>1. ASSUME NEW run \in Runs \cup {NoRun}, Publish(run) PROVE TypeOK'
    <2>1. audit' \subseteq [event : Nat, cleaned : SUBSET Runs]
        BY <1>0, <1>1, AuditTypes DEF Publish
    <2>2. trouble' \in Nat
        BY <1>0, <1>1, DisturbTypes DEF Publish
    <2>3. QED
        BY <1>0, <1>1, <2>1, <2>2, AppendGrows, TypeParts DEF Publish, retention, stream
<1>2. ASSUME NEW run \in Runs, Settle(run) PROVE TypeOK'
    BY <1>0, <1>2, TypeParts DEF Settle, store, stream
<1>3. CASE Refuse
    BY <1>0, <1>3, TypeParts DEF Refuse, retention, stream
<1>4. CASE Sweep \/ ExecuteFails
    <2>1. CASE BeginSweep
        <3>1. sweep' \in Sweeps
            BY <1>0, <2>1 DEF BeginSweep, NoSweep, Planned, Sweeps
        <3>2. QED
            BY <1>0, <2>1, <3>1, TypeParts DEF BeginSweep, store, stream
    <2>2. ASSUME NEW run \in Runs, Execute(run) PROVE TypeOK'
        <3>1. sweep' \in Sweeps
            BY <1>0, <2>2 DEF Execute, Sweeps
        <3>2. QED
            BY <1>0, <2>2, <3>1, TypeParts DEF Execute, store, stream
    <2>3. CASE ExecuteFails
        <3>1. sweep' \in Sweeps
            BY <2>3 DEF ExecuteFails, NoSweep, Sweeps
        <3>2. removed' \subseteq Runs
            BY <1>0, <2>3 DEF ExecuteFails, Sweeps
        <3>3. QED
            BY <1>0, <2>3, <3>1, <3>2, TypeParts DEF ExecuteFails, store, stream
    <2>4. CASE AppendSweepEvent
        <3>1. sweep' \in Sweeps
            BY <1>0, <2>4 DEF AppendSweepEvent, Sweeps
        <3>2. QED
            BY <1>0, <2>4, <3>1, AppendGrows, TypeParts DEF AppendSweepEvent, stream
    <2>5. CASE AppendSweepAudit
        <3>1. sweep' \in Sweeps
            BY <2>5 DEF AppendSweepAudit, NoSweep, Sweeps
        <3>2. audit' \subseteq [event : Nat, cleaned : SUBSET Runs]
            BY <1>0, <2>5, AuditTypes DEF AppendSweepAudit, Sweeps
        <3>3. QED
            BY <1>0, <2>5, <3>1, <3>2, TypeParts DEF AppendSweepAudit, stream
    <2>6. QED
        BY <1>4, <2>1, <2>2, <2>3, <2>4, <2>5 DEF Sweep
<1>6. CASE Connect
    <2>1. wire' \subseteq Messages
        BY <1>0, <1>6, ReplayTypes DEF Connect
    <2>2. client' \in Clients
        <3>1. client.attempt \in Nat
            BY <1>0 DEF Clients
        <3>2. QED
            BY <1>0, <1>6, <3>1, TransitionTypes DEF Connect, Cursors
    <2>3. trouble' \in Nat
        BY <1>0, <1>6, DisturbTypes DEF Connect
    <2>4. QED
        BY <1>0, <1>6, <2>1, <2>2, <2>3, TypeParts DEF Connect, store, retention, Cursors
<1>7. CASE Reconnect
    BY <1>0, <1>7, ReplayTypes, TypeParts DEF Reconnect, store, retention
<1>8. CASE Heartbeat
    BY <1>0, <1>8, DisturbTypes, TypeParts DEF Heartbeat, store, retention, Message, Messages, Types
<1>9. CASE Cut
    BY <1>0, <1>9, DisturbTypes, TypeParts DEF Cut, store, retention
<1>10. CASE Disconnect
    <2>1. client' \in Clients
        <3>1. client.attempt \in Nat
            BY <1>0 DEF Clients
        <3>2. QED
            BY <1>0, <1>10, <3>1, TransitionTypes DEF Disconnect, Cursors
    <2>2. QED
        BY <1>0, <1>10, <2>1, DisturbTypes, TypeParts DEF Disconnect, store, retention, Cursors
<1>11. CASE Receive
    <2>1. PICK m \in wire :
            /\ header' = m.id
            /\ IF m.type = "stream_reset_required"
               THEN Transition("reconnecting", None, client.attempt + 1) /\ snapshot' = m.id
               ELSE Transition("connected", m.id, 0) /\ UNCHANGED snapshot
            /\ got' = IF m.type = "event" THEN got \cup {m.id} ELSE got
            /\ wire' = wire \ {m}
        BY <1>11 DEF Receive
    <2>2. m.id \in Nat /\ client.attempt \in Nat
        BY <1>0 DEF Messages, Clients
    <2>3. client' \in Clients
        <3>1. CASE m.type = "stream_reset_required"
            <4>1. None \in Cursors /\ client.attempt + 1 \in Nat
                BY <2>2 DEF Cursors
            <4>2. Transition("reconnecting", None, client.attempt + 1)
                BY <2>1, <3>1
            <4>3. QED
                BY <1>0, <4>1, <4>2, TransitionTypes
        <3>2. CASE m.type # "stream_reset_required"
            BY <1>0, <2>1, <2>2, <3>2, TransitionTypes DEF Cursors
        <3>3. QED
            BY <3>1, <3>2
    <2>4. QED
        BY <1>0, <1>11, <2>1, <2>2, <2>3, TypeParts DEF Receive, store, retention, Cursors
<1>12. CASE UNCHANGED vars
    BY <1>0, <1>12, TypeParts DEF vars, store, retention, stream
<1>13. QED
    BY <1>1, <1>2, <1>3, <1>4, <1>6, <1>7, <1>8, <1>9, <1>10, <1>11, <1>12 DEF Next

\* The variables of the stream keep their types in every behaviour.
THEOREM TypeCorrect == Spec => []TypeOK
BY InitType, NextType, PTL DEF Spec

-----------------------------------------------------------------------------
(* Nothing is skipped                                                      *)

\* Ids grow along the log, and the next one is larger than all of them.
Ascending ==
    /\ \A i \in DOMAIN log : log[i].id < next
    /\ \A i, j \in DOMAIN log : i < j => log[i].id < log[j].id

\* A cursor names a past event, or the snapshot of a reset whose floor no event has reached.
CursorsPast ==
    \A cursor \in {header, client.cursor} \ {None} : cursor < next \/ cursor <= snapshot

\* Only a reset moves the snapshot, and only to the floor.
SnapshotIsFloor == snapshot \in {0, floor}

\* What is under way continues what was received: before an event of a page there is nothing the
\* client lacks but what precedes it on the wire.
Continues(m) ==
    /\ m.type = "heartbeat" => m.id = 0
    /\ m.type = "stream_reset_required" => m.id = floor
    /\ m.type = "event" =>
            /\ m.id < next
            /\ \A id \in Followed :
                    snapshot < id /\ id <= m.id => id \in got \/ Message("event", id) \in wire
WireContinues == \A m \in wire : Continues(m)

SInv == TypeOK /\ Ascending /\ CursorsPast /\ SnapshotIsFloor /\ WireContinues /\ NothingSkipped

LEMMA FollowedIds ==
    ASSUME log \in Seq(Entries) PROVE Followed \subseteq Nat \ {0}
BY EntryTypes DEF Followed

LEMMA NewEvent ==
    ASSUME TypeOK, Ascending, NEW run \in Runs \cup {NoRun}, AppendEvent(run), UNCHANGED follow
    PROVE  Ascending' /\ Followed' \subseteq Followed \cup {next} /\ next' = next + 1
<1>0. log \in Seq(Entries) /\ next \in Nat \ {0}
    BY TypeParts
<1>1. /\ next' = next + 1 /\ Len(log) \in Nat /\ DOMAIN log = 1..Len(log)
      /\ DOMAIN log' = 1..(Len(log) + 1)
      /\ \A i \in DOMAIN log : i \in DOMAIN log' /\ log'[i] = log[i]
      /\ log'[Len(log) + 1] = [id |-> next, run |-> run]
    BY <1>0, AppendGrows
<1>2. \A i \in DOMAIN log : log[i].id \in Nat
    BY <1>0, EntryTypes
<1>3. \A i \in DOMAIN log' : i \in DOMAIN log \/ (i = Len(log) + 1 /\ log'[i].id = next)
    BY <1>1
<1>4. Ascending'
    <2>1. \A i \in DOMAIN log' : log'[i].id < next'
        BY <1>0, <1>1, <1>2, <1>3 DEF Ascending
    <2>2. ASSUME NEW i \in DOMAIN log', NEW j \in DOMAIN log', i < j PROVE log'[i].id < log'[j].id
        <3>1. i \in DOMAIN log
            BY <1>1, <2>2
        <3>2. CASE j \in DOMAIN log
            BY <1>1, <2>2, <3>1, <3>2 DEF Ascending
        <3>3. CASE j \notin DOMAIN log
            BY <1>1, <1>3, <3>1, <3>3 DEF Ascending
        <3>4. QED
            BY <3>2, <3>3
    <2>3. QED
        BY <2>1, <2>2 DEF Ascending
<1>5. Followed' \subseteq Followed \cup {next}
    BY <1>1, <1>3 DEF Followed
<1>6. QED
    BY <1>1, <1>4, <1>5

\* A new event is after every cursor and everything on the wire.
LEMMA StoreKeepsInv ==
    ASSUME SInv, NEW run \in Runs \cup {NoRun}, AppendEvent(run), UNCHANGED <<floor, follow, stream>>,
           TypeOK'
    PROVE  SInv'
<1>0. /\ next \in Nat \ {0} /\ wire \subseteq Messages /\ header \in Cursors /\ client \in Clients
      /\ snapshot \in Nat /\ log \in Seq(Entries)
    BY TypeParts DEF SInv
<1>1. Ascending' /\ Followed' \subseteq Followed \cup {next} /\ next' = next + 1
    BY NewEvent DEF SInv
<1>2. UNCHANGED <<wire, header, client, got, snapshot>>
    BY DEF stream
<1>3. \A cursor \in {header, client.cursor} \ {None} : cursor \in Nat
    BY <1>0 DEF Cursors, Clients
<1>4. \A m \in wire : m.id \in Nat /\ m.type \in Types
    BY <1>0 DEF Messages
<1>5. CursorsPast' /\ NothingSkipped'
    <2>0. \A cursor \in {header, client.cursor} \ {None} : cursor < next \/ cursor <= snapshot
        BY DEF SInv, CursorsPast
    <2>1. ASSUME NEW cursor \in {header, client.cursor} \ {None} PROVE cursor < next' \/ cursor <= snapshot
        <3>1. cursor \in Nat /\ next \in Nat /\ next' = next + 1
            BY <1>0, <1>1, <1>3
        <3>2. cursor < next \/ cursor <= snapshot
            BY <2>0
        <3>3. QED
            BY <3>1, <3>2
    <2>2. ASSUME NEW id \in Followed', NEW cursor \in {header, client.cursor} \ {None},
                 snapshot < id, id <= cursor
          PROVE  id \in got
        <3>1. id \in Followed \/ id = next
            BY <1>1
        <3>2. cursor < next \/ cursor <= snapshot
            BY <2>0
        <3>3. CASE id = next
            <4>1. cursor \in Nat /\ next \in Nat /\ snapshot \in Nat
                BY <1>0, <1>3
            <4>2. ~(cursor < next) /\ ~(cursor <= snapshot)
                BY <2>2, <3>3, <4>1
            <4>3. QED
                BY <3>2, <4>2
        <3>4. CASE id \in Followed
            BY <2>2, <3>4 DEF SInv, NothingSkipped
        <3>5. QED
            BY <3>1, <3>3, <3>4
    <2>3. QED
        BY <1>2, <2>1, <2>2 DEF CursorsPast, NothingSkipped
<1>6. ASSUME NEW m \in wire PROVE Continues(m)'
    <2>1. Continues(m)
        BY DEF SInv, WireContinues
    <2>2. CASE m.type = "heartbeat"
        BY <2>1, <2>2 DEF Continues
    <2>3. CASE m.type = "stream_reset_required"
        BY <2>1, <2>3 DEF Continues
    <2>4. CASE m.type = "event"
        <3>1. m.id < next /\ \A id \in Followed :
                snapshot < id /\ id <= m.id => id \in got \/ Message("event", id) \in wire
            BY <2>1, <2>4 DEF Continues
        <3>2. m.id < next' /\ \A id \in Followed' :
                snapshot < id /\ id <= m.id => id \in got \/ Message("event", id) \in wire
            BY <1>0, <1>1, <1>4, <3>1
        <3>3. QED
            BY <1>2, <2>4, <3>2 DEF Continues
    <2>5. QED
        BY <1>4, <2>2, <2>3, <2>4 DEF Types
<1>7. QED
    BY <1>1, <1>2, <1>5, <1>6 DEF SInv, SnapshotIsFloor, WireContinues

LEMMA AfterFinite ==
    ASSUME log \in Seq(Entries), NEW cursor
    PROVE  IsFiniteSet(After(cursor)) /\ After(cursor) \subseteq Nat
<1>1. DOMAIN log = 1..Len(log) /\ Len(log) \in Nat
    OBVIOUS
<1>2. IsFiniteSet(DOMAIN log)
    BY <1>1, FS_Interval
<1>3. After(cursor) \in SUBSET DOMAIN log
    BY PageTypes
<1>4. QED
    BY <1>1, <1>2, <1>3, FS_Subset

\* A page leaves out nothing before what it holds.
LEMMA PageIsPrefix ==
    ASSUME log \in Seq(Entries), NEW cursor, NEW i \in Page(cursor), NEW j \in After(cursor), j < i
    PROVE  j \in Page(cursor)
<1> DEFINE Earlier(k) == {n \in After(cursor) : n < k}
<1>1. IsFiniteSet(After(cursor)) /\ After(cursor) \subseteq Nat /\ i \in After(cursor)
    BY AfterFinite, PageTypes
<1>2. Earlier(j) \subseteq Earlier(i)
    BY <1>1
<1>3. IsFiniteSet(Earlier(i)) /\ IsFiniteSet(Earlier(j))
    BY <1>1, FS_Subset
<1>4. Cardinality(Earlier(j)) <= Cardinality(Earlier(i))
    BY <1>2, <1>3, FS_Subset
<1>5. Cardinality(Earlier(i)) < PageLimit
    BY DEF Page
<1>6. Cardinality(Earlier(i)) \in Nat /\ Cardinality(Earlier(j)) \in Nat /\ PageLimit \in Nat
    BY <1>3, FS_CardinalityType, EventStreamAssumption
<1>7. Cardinality(Earlier(j)) < PageLimit
    BY <1>4, <1>5, <1>6
<1>8. QED
    BY <1>7 DEF Page

\* The answer to a connection continues what its Last-Event-ID stands for.
LEMMA ReplayContinues ==
    ASSUME SInv, NEW request, request.runId = follow, request.lastEventId \in {None, header},
           wire' = Replay(request), UNCHANGED <<log, next, floor, follow, got, snapshot>>
    PROVE  WireContinues'
<1>0. /\ log \in Seq(Entries) /\ header \in Cursors /\ None \notin Nat /\ floor \in Nat
      /\ next \in Nat
    BY TypeParts, FloorIsNat, EventStreamAssumption DEF SInv
<1> DEFINE cursor == IF request.lastEventId = None THEN 0 ELSE request.lastEventId
           sent == Wanted(Page(cursor), follow)
<1>1. CASE Replay(request) = {ResetEvent}
    BY <1>1 DEF WireContinues, Continues, ResetEvent, Message
<1>2. CASE Replay(request) = Sent(sent)
    <2>1. sent \subseteq Page(cursor) /\ Page(cursor) \subseteq After(cursor)
          /\ After(cursor) \subseteq DOMAIN log
        BY PageTypes
    <2>2. cursor \in Nat
        BY <1>0 DEF Cursors
    <2>3. ASSUME NEW i \in sent, NEW id \in Followed, snapshot < id, id <= log[i].id
          PROVE  id \in got \/ Message("event", id) \in Sent(sent)
        <3>1. PICK j \in DOMAIN log : log[j].id = id /\ (follow = NoRun \/ log[j].run = follow)
            BY DEF Followed
        <3>2. i \in DOMAIN log /\ log[i].id \in Nat /\ id \in Nat \ {0} /\ i \in Nat /\ j \in Nat
            BY <1>0, <2>1, <3>1, EntryTypes
        <3>3. CASE id <= cursor
            BY <1>0, <2>2, <2>3, <3>2, <3>3 DEF SInv, NothingSkipped
        <3>4. CASE ~(id <= cursor)
            <4>1. j \in After(cursor)
                BY <2>2, <3>1, <3>2, <3>4 DEF After
            <4>2. ~(i < j)
                BY <2>3, <3>1, <3>2 DEF SInv, Ascending
            <4>3. j \in Page(cursor)
                BY <1>0, <2>1, <3>2, <4>1, <4>2, PageIsPrefix
            <4>4. j \in sent
                BY <3>1, <4>3 DEF Wanted
            <4>5. QED
                BY <3>1, <4>4 DEF Sent
        <3>5. QED
            BY <3>3, <3>4
    <2>4. \A i \in sent : log[i].id < next
        BY <2>1 DEF SInv, Ascending
    <2>5. ASSUME NEW m \in wire' PROVE Continues(m)'
        <3>1. PICK i \in sent : m = Message("event", log[i].id)
            BY <1>2 DEF Sent
        <3>2. m.type = "event" /\ m.id = log[i].id
            BY <3>1 DEF Message
        <3>3. m.id < next /\ \A id \in Followed :
                snapshot < id /\ id <= m.id => id \in got \/ Message("event", id) \in wire'
            BY <1>2, <2>3, <2>4, <3>2
        <3>4. Followed' = Followed
            BY DEF Followed
        <3>5. QED
            BY <3>2, <3>3, <3>4 DEF Continues
    <2>6. QED
        BY <2>5 DEF WireContinues
<1>3. QED
    BY <1>1, <1>2 DEF Replay

\* A step of the stream that leaves the store alone.
LEMMA Unmoved ==
    ASSUME UNCHANGED <<log, next, floor, follow>>
    PROVE  /\ UNCHANGED <<log, next>> /\ Followed' = Followed
           /\ Ascending => Ascending'
BY DEF Followed, Ascending

LEMMA CutKeepsInv ==
    ASSUME SInv, TypeOK', UNCHANGED <<log, next, floor, follow, got, snapshot>>, header' \in {header, None},
           client'.cursor = client.cursor, wire' = {} \/ WireContinues'
    PROVE  SInv'
<1>1. UNCHANGED <<log, next>> /\ Followed' = Followed /\ Ascending'
    BY Unmoved DEF SInv
<1>2. CursorsPast' /\ NothingSkipped'
    BY <1>1 DEF SInv, CursorsPast, NothingSkipped
<1>3. QED
    BY <1>1, <1>2 DEF SInv, SnapshotIsFloor, WireContinues

LEMMA ReceiveKeepsInv == SInv /\ TypeOK' /\ Receive => SInv'
<1> SUFFICES ASSUME SInv, TypeOK', Receive PROVE SInv'
    OBVIOUS
<1>0. /\ wire \subseteq Messages /\ header \in Cursors /\ client \in Clients /\ snapshot \in Nat
      /\ floor \in Nat /\ next \in Nat /\ log \in Seq(Entries) /\ None \notin Nat /\ got \subseteq Nat
    BY TypeParts, FloorIsNat, EventStreamAssumption DEF SInv
<1>1. PICK m \in wire :
        /\ \A n \in wire : m.id <= n.id
        /\ header' = m.id
        /\ IF m.type = "stream_reset_required"
           THEN Transition("reconnecting", None, client.attempt + 1) /\ snapshot' = m.id
           ELSE Transition("connected", m.id, 0) /\ UNCHANGED snapshot
        /\ got' = IF m.type = "event" THEN got \cup {m.id} ELSE got
        /\ wire' = wire \ {m}
    BY DEF Receive
<1>2. UNCHANGED <<log, next, floor, follow>> /\ Followed' = Followed /\ Ascending'
    BY Unmoved DEF SInv, Receive, store
<1>3. m.id \in Nat /\ m.type \in Types /\ Continues(m)
    BY <1>0 DEF Messages, SInv, WireContinues
<1>4. got \subseteq got' /\ snapshot <= snapshot' /\ snapshot' \in {0, floor} /\ snapshot' \in Nat
    <2>1. CASE m.type = "stream_reset_required"
        BY <1>0, <1>1, <1>3, <2>1 DEF Continues, SInv, SnapshotIsFloor
    <2>2. CASE m.type # "stream_reset_required"
        BY <1>0, <1>1, <2>2 DEF SInv, SnapshotIsFloor
    <2>3. QED
        BY <2>1, <2>2
<1>5. Followed \subseteq Nat
    BY <1>0, FollowedIds
<1>6. \A id \in Followed : snapshot' < id /\ id <= m.id => id \in got'
    <2>1. CASE m.type = "heartbeat"
        BY <1>3, <1>4, <1>5, <2>1 DEF Continues
    <2>2. CASE m.type = "stream_reset_required"
        BY <1>1, <1>3, <1>5, <2>2
    <2>3. CASE m.type = "event"
        <3>1. ASSUME NEW id \in Followed, snapshot' < id, id <= m.id PROVE id \in got'
            <4>1. id \in got \/ Message("event", id) \in wire
                BY <1>0, <1>3, <1>4, <1>5, <2>3, <3>1 DEF Continues
            <4>2. CASE Message("event", id) \in wire
                <5>1. m.id <= id
                    BY <1>1, <4>2 DEF Message
                <5>2. m.id = id
                    BY <1>3, <1>5, <3>1, <5>1
                <5>3. QED
                    BY <1>1, <2>3, <5>2
            <4>3. QED
                BY <1>4, <4>1, <4>2
        <3>2. QED
            BY <3>1
    <2>4. QED
        BY <1>3, <2>1, <2>2, <2>3 DEF Types
<1>7. header' = m.id /\ client'.cursor \in {client.cursor, m.id}
    BY <1>1 DEF Transition
<1>8. m.id < next \/ m.id <= snapshot'
    <2>1. CASE m.type = "heartbeat"
        BY <1>3, <1>4, <2>1 DEF Continues
    <2>2. CASE m.type = "stream_reset_required"
        BY <1>1, <1>3, <2>2
    <2>3. CASE m.type = "event"
        BY <1>3, <2>3 DEF Continues
    <2>4. QED
        BY <1>3, <2>1, <2>2, <2>3 DEF Types
<1>9. \A cursor \in {header, client.cursor} \ {None} : cursor \in Nat
    BY <1>0 DEF Cursors, Clients
<1>10. CursorsPast'
    <2>1. ASSUME client.cursor # None
          PROVE  client.cursor < next \/ client.cursor <= snapshot'
        <3>1. client.cursor < next \/ client.cursor <= snapshot
            BY <2>1 DEF SInv, CursorsPast
        <3>2. client.cursor \in Nat
            BY <1>9, <2>1
        <3>3. QED
            BY <1>0, <1>4, <3>1, <3>2
    <2>2. \A cursor \in {m.id, client.cursor} \ {None} : cursor < next \/ cursor <= snapshot'
        BY <1>8, <2>1
    <2>3. QED
        BY <1>2, <1>7, <2>2 DEF CursorsPast
<1>11. NothingSkipped'
    <2>1. \A id \in Followed : \A cursor \in {m.id, client.cursor} \ {None} :
            snapshot' < id /\ id <= cursor => id \in got'
        BY <1>0, <1>4, <1>5, <1>6, <1>9 DEF SInv, NothingSkipped
    <2>2. QED
        BY <1>2, <1>7, <2>1 DEF NothingSkipped
<1>12. ASSUME NEW n \in wire' PROVE Continues(n)'
    <2>1. n \in wire /\ n.id \in Nat /\ Continues(n) /\ m.id <= n.id
        BY <1>0, <1>1 DEF Messages, SInv, WireContinues
    <2>2. ASSUME n.type = "event", NEW id \in Followed, snapshot' < id, id <= n.id
          PROVE  id \in got' \/ Message("event", id) \in wire'
        <3>1. id \in got \/ Message("event", id) \in wire
            BY <1>0, <1>4, <1>5, <2>1, <2>2 DEF Continues
        <3>2. CASE Message("event", id) = m
            BY <1>1, <3>2 DEF Message
        <3>3. QED
            BY <1>1, <1>4, <3>1, <3>2
    <2>3. QED
        BY <1>2, <2>1, <2>2 DEF Continues
<1>13. QED
    BY <1>2, <1>4, <1>10, <1>11, <1>12 DEF SInv, SnapshotIsFloor, WireContinues

LEMMA InitInv == Init => SInv
<1> SUFFICES ASSUME Init PROVE SInv
    OBVIOUS
<1>1. TypeOK
    BY InitType
<1>2. DOMAIN log = {}
    BY DEF Init
<1>3. QED
    BY <1>1, <1>2 DEF Init, SInv, Ascending, CursorsPast, SnapshotIsFloor, WireContinues, NothingSkipped

LEMMA NextInv == SInv /\ [Next]_vars => SInv'
<1> SUFFICES ASSUME SInv, [Next]_vars PROVE SInv'
    OBVIOUS
<1>0. TypeOK'
    BY NextType DEF SInv
<1>1. ASSUME NEW run \in Runs \cup {NoRun}, Publish(run) PROVE SInv'
    BY <1>0, <1>1, StoreKeepsInv DEF Publish
<1>2. ASSUME NEW run \in Runs, Settle(run) PROVE SInv'
    BY <1>0, <1>2, CutKeepsInv DEF Settle, stream, SInv, WireContinues, Continues, Followed, store
<1>3. CASE Refuse
    <2>1. next' = next + 1 /\ next \in Nat /\ header \in Cursors /\ client.cursor \in Cursors
          /\ wire \subseteq Messages /\ log \in Seq(Entries)
        BY <1>3, TypeParts DEF Refuse, SInv, Clients
    <2>2. UNCHANGED <<log, floor, follow, stream>>
        BY <1>3 DEF Refuse
    <2>3. \A i \in DOMAIN log : log[i].id \in Nat
        BY <2>1, EntryTypes
    <2>4. Ascending'
        BY <2>1, <2>2, <2>3 DEF SInv, Ascending
    <2>5. CursorsPast'
        BY <2>1, <2>2 DEF SInv, CursorsPast, Cursors, stream
    <2>6. Followed' = Followed
        BY <2>2 DEF Followed
    <2>7. \A m \in wire : m.id \in Nat
        BY <2>1 DEF Messages
    <2>8. WireContinues'
        BY <2>1, <2>2, <2>6, <2>7 DEF SInv, WireContinues, Continues, stream
    <2>9. NothingSkipped' /\ SnapshotIsFloor'
        BY <2>2, <2>6 DEF SInv, NothingSkipped, SnapshotIsFloor, stream
    <2>10. QED
        BY <1>0, <2>4, <2>5, <2>8, <2>9 DEF SInv
<1>4. CASE Sweep \/ ExecuteFails
    <2>1. CASE AppendSweepEvent
        BY <1>0, <2>1, StoreKeepsInv DEF AppendSweepEvent
    <2>2. CASE ~AppendSweepEvent
        <3>1. UNCHANGED <<log, next, floor, follow, stream>>
            BY <1>4, <2>2 DEF Sweep, BeginSweep, Execute, AppendSweepAudit, ExecuteFails, store
        <3>2. WireContinues'
            BY <3>1 DEF stream, SInv, WireContinues, Continues, Followed
        <3>3. QED
            BY <1>0, <3>1, <3>2, CutKeepsInv DEF stream
    <2>3. QED
        BY <2>1, <2>2
<1>6. CASE Connect
    <2>1. client'.cursor = client.cursor
        BY <1>6 DEF Connect, Transition
    <2>2. WireContinues'
        BY <1>6, ReplayContinues DEF Connect, ParseSseRequest, SseUrl, store
    <2>3. QED
        BY <1>0, <1>6, <2>1, <2>2, CutKeepsInv DEF Connect, store
<1>7. CASE Reconnect
    <2>1. WireContinues'
        BY <1>7, ReplayContinues DEF Reconnect, ParseSseRequest, SseUrl, store
    <2>2. QED
        BY <1>0, <1>7, <2>1, CutKeepsInv DEF Reconnect, store
<1>8. CASE Heartbeat
    <2>1. WireContinues'
        BY <1>8 DEF Heartbeat, WireContinues, Continues, Message
    <2>2. QED
        BY <1>0, <1>8, <2>1, CutKeepsInv DEF Heartbeat, store
<1>9. CASE Cut
    BY <1>0, <1>9, CutKeepsInv DEF Cut, store
<1>10. CASE Disconnect
    <2>1. client'.cursor = client.cursor
        BY <1>10 DEF Disconnect, Transition
    <2>2. QED
        BY <1>0, <1>10, <2>1, CutKeepsInv DEF Disconnect, store
<1>11. CASE Receive
    BY <1>0, <1>11, ReceiveKeepsInv
<1>12. CASE UNCHANGED vars
    BY <1>0, <1>12, CutKeepsInv
       DEF vars, stream, store, SInv, WireContinues, Continues, Followed
<1>13. QED
    BY <1>1, <1>2, <1>3, <1>4, <1>6, <1>7, <1>8, <1>9, <1>10, <1>11, <1>12 DEF Next

LEMMA Invariance == Spec => []SInv
BY InitInv, NextInv, PTL DEF Spec

\* No cursor of a client passes over an event of its run that it has neither received nor been sent
\* to a snapshot for.
THEOREM NothingIsSkipped == Spec => []NothingSkipped
<1>1. SInv => NothingSkipped
    BY DEF SInv
<1>2. QED
    BY <1>1, Invariance, PTL

-----------------------------------------------------------------------------
(* What keeps a client from going on                                       *)

\* A set of naturals has a least element.
LEMMA Least ==
    ASSUME NEW T \in SUBSET Nat, T # {} PROVE \E x \in T : \A y \in T : x <= y
<1>1. IsWellFoundedOn(OpToRel(<, Nat), Nat)
    BY NatLessThanWellFounded
<1>2. PICK x \in T : \A y \in T : ~(<<y, x>> \in OpToRel(<, Nat))
    BY <1>1, WFMin
<1>3. \A y \in T : ~(y < x)
    BY <1>2 DEF OpToRel
<1>4. QED
    BY <1>3

\* A page that leaves something out is full.
LEMMA PageIsFull ==
    ASSUME log \in Seq(Entries), NEW cursor, NEW k \in After(cursor), k \notin Page(cursor)
    PROVE  /\ Cardinality(Page(cursor)) >= PageLimit
           /\ \A i \in Page(cursor) : i < k
<1> DEFINE Left == After(cursor) \ Page(cursor)
           Earlier(n) == {i \in After(cursor) : i < n}
<1>0. IsFiniteSet(After(cursor)) /\ After(cursor) \subseteq Nat /\ Page(cursor) \subseteq After(cursor)
    BY AfterFinite, PageTypes
<1>1. Left \in SUBSET Nat /\ Left # {}
    BY <1>0
<1>2. PICK least \in Left : \A n \in Left : least <= n
    BY <1>1, Least
<1>3. least \in After(cursor) /\ least \notin Page(cursor) /\ least \in Nat
    BY <1>0, <1>2
<1>4. ~(Cardinality(Earlier(least)) < PageLimit)
    BY <1>3 DEF Page
<1>5. Page(cursor) = Earlier(least)
    <2>1. ASSUME NEW i \in Page(cursor) PROVE i < least
        <3>1. ~(least < i)
            BY <1>3, PageIsPrefix
        <3>2. i # least /\ i \in Nat
            BY <1>0, <1>3
        <3>3. QED
            BY <1>3, <3>1, <3>2
    <2>2. ASSUME NEW i \in Earlier(least) PROVE i \in Page(cursor)
        BY <1>0, <1>2, <1>3
    <2>3. QED
        BY <1>0, <2>1, <2>2
<1>6. Cardinality(Earlier(least)) \in Nat /\ PageLimit \in Nat
    BY <1>0, FS_Subset, FS_CardinalityType, EventStreamAssumption
<1>7. least <= k
    BY <1>2
<1>8. QED
    BY <1>0, <1>3, <1>4, <1>5, <1>6, <1>7

\* While a client misses an event, its next connection brings something, unless a whole page of other
\* runs' events lies before it: the part of FollowerCatchesUp that no fairness can give.
THEOREM OnlyOthersStall == Spec => []StallsOnlyBehindOthers
<1>1. ASSUME SInv PROVE StallsOnlyBehindOthers
    <2> DEFINE request == ParseSseRequest(SseUrl, header)
               cursor == IF header = None THEN 0 ELSE header
               sent == Wanted(Page(cursor), follow)
    <2> SUFFICES ASSUME NEW missed \in Missing, Replay(request) = {} PROVE OthersFillPage
        BY DEF StallsOnlyBehindOthers
    <2>0. /\ log \in Seq(Entries) /\ header \in Cursors /\ snapshot \in Nat /\ None \notin Nat
        BY <1>1, TypeParts, EventStreamAssumption DEF SInv
    <2>1. request.lastEventId = header /\ request.runId = follow
        BY DEF ParseSseRequest, SseUrl
    <2>2. Sent(sent) = {}
        BY <2>1 DEF Replay
    <2>3. sent = {}
        BY <2>2 DEF Sent
    <2>4. Page(cursor) \subseteq After(cursor) /\ After(cursor) \subseteq DOMAIN log /\ cursor \in Nat
        BY <2>0, PageTypes DEF Cursors
    <2>5. \A i \in DOMAIN log : log[i].id \in Nat \ {0} /\ i \in Nat
        BY <2>0, EntryTypes
    <2>6. ASSUME NEW i \in Page(cursor) PROVE log[i].id \notin Followed
        <3>1. i \in DOMAIN log /\ ~(follow = NoRun \/ log[i].run = follow)
            BY <2>3, <2>4 DEF Wanted
        <3>2. SUFFICES ASSUME NEW j \in DOMAIN log, log[j].id = log[i].id,
                               follow = NoRun \/ log[j].run = follow
                        PROVE  FALSE
            BY DEF Followed
        <3>3. ~(i < j) /\ ~(j < i)
            BY <1>1, <2>5, <3>1, <3>2 DEF SInv, Ascending
        <3>4. i = j
            BY <2>5, <3>1, <3>3
        <3>5. QED
            BY <3>1, <3>2, <3>4
    <2>7. ASSUME NEW id \in Missing, NEW i \in Page(cursor)
          PROVE  log[i].id < id /\ Cardinality(Page(cursor)) >= PageLimit
        <3>1. PICK k \in DOMAIN log : log[k].id = id /\ id \in Followed /\ snapshot < id /\ id \notin got
            BY <2>0, <2>5 DEF Missing, Followed
        <3>2. ~(id <= cursor)
            BY <1>1, <2>0, <2>5, <3>1 DEF SInv, NothingSkipped
        <3>3. k \in After(cursor) /\ k \notin Page(cursor)
            BY <2>4, <2>5, <2>6, <3>1, <3>2 DEF After
        <3>4. i < k /\ Cardinality(Page(cursor)) >= PageLimit
            BY <2>0, <3>3, PageIsFull
        <3>5. QED
            BY <1>1, <2>4, <3>1, <3>4 DEF SInv, Ascending
    <2>8. Cardinality(Page(cursor)) >= PageLimit
        <3>1. PICK k \in DOMAIN log : log[k].id = missed /\ missed \in Followed /\ snapshot < missed /\ missed \notin got
            BY <2>0, <2>5 DEF Missing, Followed
        <3>2. ~(missed <= cursor)
            BY <1>1, <2>0, <2>5, <3>1 DEF SInv, NothingSkipped
        <3>3. k \in After(cursor) /\ k \notin Page(cursor)
            BY <2>4, <2>5, <2>6, <3>1, <3>2 DEF After
        <3>4. QED
            BY <2>0, <3>3, PageIsFull
    <2>9. header # None => \A i \in Page(cursor) : header < log[i].id
        BY <2>4 DEF After
    <2>10. Page(cursor) \in SUBSET {i \in DOMAIN log : log[i].id \notin Followed}
        BY <2>4, <2>6
    <2>11. QED
        BY <2>7, <2>8, <2>9, <2>10 DEF OthersFillPage
<1>2. QED
    BY <1>1, Invariance, PTL

-----------------------------------------------------------------------------
(* The audit                                                               *)

\* What a sweep has done is done, and when it comes to its audit entry its event is in the log, so
\* that the entry is taken: with Planned, which leaves no eligible run out, what RemovalIsAudited
\* rests on.
SweepAhead ==
    /\ sweep.done \subseteq removed
    /\ sweep.at = "recording" => \E i \in DOMAIN log : log[i].id = sweep.event

AInv == AuditTellsTruth /\ SweepAhead

\* Neither events nor removals are ever taken back.
LEMMA PastStays ==
    ASSUME AInv, \A i \in DOMAIN log : i \in DOMAIN log' /\ log'[i] = log[i], removed \subseteq removed'
    PROVE  /\ audit' = audit => AuditTellsTruth'
           /\ sweep' = sweep => SweepAhead'
BY DEF AInv, AuditTellsTruth, SweepAhead, Audited

LEMMA AuditIsTaken ==
    ASSUME AInv, NEW event, NEW cleaned \in SUBSET removed, AppendAudit(event, cleaned),
           \A i \in DOMAIN log : i \in DOMAIN log' /\ log'[i] = log[i], removed' = removed
    PROVE  AuditTellsTruth'
<1>1. audit' = audit \cup {[event |-> event, cleaned |-> cleaned]}
    BY DEF AppendAudit
<1>2. \A a \in audit' : \E i \in DOMAIN log' : log'[i].id = a.event
    BY <1>1 DEF AppendAudit, AInv, AuditTellsTruth
<1>3. Audited' \subseteq removed'
    BY <1>1 DEF Audited, AInv, AuditTellsTruth
<1>4. QED
    BY <1>2, <1>3 DEF AuditTellsTruth

\* What the audit says has happened, however sweeps fail and are repeated.
THEOREM AuditIsTrue == Spec => []AuditTellsTruth
<1>1. Init => AInv
    BY DEF Init, AInv, AuditTellsTruth, SweepAhead, Audited, NoSweep
<1>2. TypeOK /\ AInv /\ [Next]_vars => AInv'
    <2> SUFFICES ASSUME TypeOK, AInv, [Next]_vars PROVE AInv'
        OBVIOUS
    <2>0. log \in Seq(Entries) /\ next \in Nat \ {0}
        BY TypeParts
    <2>1. ASSUME NEW run \in Runs \cup {NoRun}, AppendEvent(run)
          PROVE  /\ \A i \in DOMAIN log : i \in DOMAIN log' /\ log'[i] = log[i]
                 /\ \E i \in DOMAIN log' : log'[i].id = next
        <3>1. /\ \A i \in DOMAIN log : i \in DOMAIN log' /\ log'[i] = log[i]
              /\ DOMAIN log' = 1..(Len(log) + 1) /\ Len(log) \in Nat
              /\ log'[Len(log) + 1] = [id |-> next, run |-> run]
            BY <2>0, <2>1, AppendGrows
        <3>2. Len(log) + 1 \in DOMAIN log' /\ log'[Len(log) + 1].id = next
            BY <3>1
        <3>3. QED
            BY <3>1, <3>2
    <2>2. ASSUME NEW run \in Runs \cup {NoRun}, Publish(run) PROVE AInv'
        <3>1. UNCHANGED <<sweep, removed>>
            BY <2>2 DEF Publish, retention
        <3>2. SweepAhead'
            BY <2>1, <2>2, <3>1, PastStays DEF Publish
        <3>3. AuditTellsTruth'
            BY <2>1, <2>2, <3>1, PastStays, AuditIsTaken DEF Publish
        <3>4. QED
            BY <3>2, <3>3 DEF AInv
    <2>3. CASE BeginSweep \/ ExecuteFails
        <3>1. UNCHANGED <<log, audit>> /\ removed \subseteq removed'
            BY <2>3 DEF BeginSweep, ExecuteFails, store
        <3>2. AuditTellsTruth'
            BY <3>1, PastStays
        <3>3. sweep'.done = {} /\ sweep'.at # "recording"
            <4>1. CASE BeginSweep
                BY <4>1 DEF BeginSweep, NoSweep
            <4>2. CASE ExecuteFails
                BY <4>2 DEF ExecuteFails, NoSweep
            <4>3. QED
                BY <2>3, <4>1, <4>2
        <3>4. SweepAhead'
            BY <3>3 DEF SweepAhead
        <3>5. QED
            BY <3>2, <3>4 DEF AInv
    <2>4. ASSUME NEW run \in Runs, Execute(run) PROVE AInv'
        <3>1. UNCHANGED <<log, audit>> /\ removed' = removed \cup {run}
            BY <2>4 DEF Execute, store
        <3>2. sweep'.done = sweep.done \cup {run} /\ sweep'.at = "executing"
            <4>1. sweep \in Sweeps
                BY TypeParts
            <4>2. QED
                BY <2>4, <4>1 DEF Execute, Sweeps
        <3>3. QED
            BY <3>1, <3>2, PastStays DEF AInv, SweepAhead
    <2>5. CASE AppendSweepEvent
        <3>1. UNCHANGED <<audit, removed>> /\ AppendEvent(NoRun)
            BY <2>5 DEF AppendSweepEvent
        <3>2. sweep'.done = sweep.done /\ sweep'.event = next
            <4>1. sweep \in Sweeps
                BY TypeParts
            <4>2. QED
                BY <2>5, <4>1 DEF AppendSweepEvent, Sweeps
        <3>3. AuditTellsTruth'
            BY <2>1, <3>1, PastStays
        <3>4. SweepAhead'
            BY <2>1, <3>1, <3>2 DEF AInv, SweepAhead
        <3>5. QED
            BY <3>3, <3>4 DEF AInv
    <2>6. CASE AppendSweepAudit
        <3>1. UNCHANGED <<log, removed>> /\ sweep' = NoSweep
            BY <2>6 DEF AppendSweepAudit
        <3>2. AuditTellsTruth'
            BY <2>6, <3>1, AuditIsTaken DEF AppendSweepAudit, AInv, SweepAhead
        <3>3. SweepAhead'
            BY <3>1 DEF SweepAhead, NoSweep
        <3>4. QED
            BY <3>2, <3>3 DEF AInv
    <2>7. CASE UNCHANGED <<log, audit, removed, sweep>>
        BY <2>7, PastStays DEF AInv
    <2>8. QED
        BY <2>2, <2>3, <2>4, <2>5, <2>6, <2>7
           DEF Next, Sweep, Settle, Refuse, Connect, Reconnect, Heartbeat, Cut, Disconnect, Receive,
               vars, store, retention
<1>3. AInv => AuditTellsTruth
    BY DEF AInv
<1>4. QED
    BY <1>1, <1>2, <1>3, TypeCorrect, PTL DEF Spec
=============================================================================
