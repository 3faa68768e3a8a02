------------------------------ MODULE Dashboard ------------------------------
(***************************************************************************)
(* The runtime dashboard of one browser page and the Local API it asks:    *)
(* runtime, controller, screen, shell, visual adapter and DOM binder on    *)
(* one side, the run store behind GET and POST /runs on the other.         *)
(*                                                                         *)
(* The page is rendered when it is mounted or refreshed and when a click   *)
(* has come back, not when an action starts: while that waits for the      *)
(* Local API the page still offers what it offered before, and only the    *)
(* screen, asked anew at every click, knows that a control is disabled.    *)
(* Answers arrive in any order, or the request fails.  Runs end, and the   *)
(* vault comes and goes, behind the page's back.  Agents, skills and       *)
(* projects are left out: they are loaded and shown like the runs.         *)
(***************************************************************************)
EXTENDS Naturals, FiniteSets

CONSTANTS
    Runs,        \* ids of manual runs the store may create
    Bridges      \* whether the host connector has an execution bridge

ASSUME DashboardAssumption == Bridges \subseteq BOOLEAN /\ Bridges # {}

VARIABLES
    bridge,
    store,       \* the run store: the status of each run
    page,        \* the mounted page: the controls it binds, and whether a message is typed in
    state,       \* the controller: the action under way, and the error it shows
    view,        \* the dashboard: the runs it shows, the Run Summary among them, and Obsidian's status
    ops,         \* requests under way
    created      \* runs the page was told of by the answer to its own POST

vars == <<bridge, store, page, state, view, ops, created>>

Controls == {"load", "refresh", "write_run_summary", "create_manual_run"}
Loads == {"load", "refresh"}
Slots == 1..2

Stored == {"absent", "queued", "running", "succeeded", "failed"}
Shown == {"absent", "running", "succeeded", "failed"}

None == "none"
NoRuns == [r \in Runs |-> "absent"]
Op(action) == [action |-> action, got |-> {}, run |-> None, runs |-> NoRuns, obsidian |-> FALSE]
NoOp == Op(None)

\* createPhase2DashboardModel over what the Local API has answered.
DashboardModel(runs, obsidian) == [runs |-> runs, summary |-> FALSE, obsidian |-> obsidian]

TypeOK ==
    /\ bridge \in Bridges
    /\ store \in [Runs -> Stored]
    /\ page \in [mounted : BOOLEAN, bound : SUBSET Controls, typed : BOOLEAN]
    /\ state \in [action : Controls \cup {None}, error : {None, "request", "message", "contract"}]
    /\ view \in [runs : [Runs -> Shown], summary : BOOLEAN, obsidian : BOOLEAN]
    /\ ops \in [Slots -> [action : Controls \cup {None}, got : SUBSET {"runs", "obsidian", "answer"},
                          run : Runs \cup {None}, runs : [Runs -> Stored], obsidian : BOOLEAN]]
    /\ created \subseteq Runs

Init ==
    /\ bridge \in Bridges
    /\ store = NoRuns
    /\ page = [mounted |-> FALSE, bound |-> {}, typed |-> FALSE]
    /\ state = [action |-> None, error |-> None]
    /\ view = DashboardModel(NoRuns, FALSE)
    /\ ops = [s \in Slots |-> NoOp]
    /\ created = {}

-----------------------------------------------------------------------------
(* What the page shows                                                     *)

\* createPhase2DashboardViewModel: what the sections and the tone of the page are made from.
ViewModel(dashboard) ==
    [runs |-> {r \in Runs : dashboard.runs[r] # "absent"},
     obsidianTone |-> IF dashboard.obsidian THEN "green" ELSE "amber"]

\* createPhase2DashboardInteractionModel
Disabled(control, action, viewModel) ==
    action # None \/ (control = "write_run_summary" /\ viewModel.obsidianTone # "green")

\* The screen model, as what it says of each control.
ControlsById(action, dashboard) ==
    [c \in Controls |-> [disabled |-> Disabled(c, action, ViewModel(dashboard))]]

\* The shell's toolbar leaves Send to the chat form.
Toolbar(action, dashboard) ==
    {c \in Controls \ {"create_manual_run"} : ~ControlsById(action, dashboard)[c].disabled}

\* The visual adapter binds what is enabled, and Send always.
Bindings(action, dashboard) == Toolbar(action, dashboard) \cup {"create_manual_run"}

\* renderIntoTarget replaces the page, with whatever was typed; it throws when nothing is mounted.
Render ==
    page' = IF page.mounted
            THEN [page EXCEPT !.bound = Bindings(state'.action, view'), !.typed = FALSE] ELSE page

Mount ==
    /\ page' = [mounted |-> TRUE, bound |-> Bindings(state.action, view), typed |-> FALSE]
    /\ UNCHANGED <<bridge, store, state, view, ops, created>>

\* The owner of the page renders it anew, also while an action waits.
Refresh ==
    /\ page.mounted
    /\ UNCHANGED <<bridge, store, state, view, ops, created>>
    /\ Render

\* The listeners are removed; a request under way goes on.
Unmount ==
    /\ page.mounted
    /\ page' = [mounted |-> FALSE, bound |-> {}, typed |-> FALSE]
    /\ UNCHANGED <<bridge, store, state, view, ops, created>>

Type ==
    /\ page.mounted
    /\ page' = [page EXCEPT !.typed = TRUE]
    /\ UNCHANGED <<bridge, store, state, view, ops, created>>

-----------------------------------------------------------------------------
(* Clicks                                                                  *)

\* A bug: the screen trusts the page it has rendered.
GateOpen(control) == FALSE

\* phase2DashboardScreen.click asks the controller again.
Gate(control) == ControlsById(state.action, view)[control].disabled

\* A click the screen turns down: nothing is sent, and the page is rendered anew.
ClickDisabled(control) ==
    /\ control \in page.bound
    /\ Gate(control)
    /\ UNCHANGED <<bridge, store, state, view, ops, created>>
    /\ Render

\* validateManualRunInput: Send without a message ends in the controller.
ClickEmpty ==
    /\ "create_manual_run" \in page.bound /\ ~page.typed
    /\ ~Gate("create_manual_run")
    /\ state' = [action |-> None, error |-> "message"]
    /\ UNCHANGED <<bridge, store, view, ops, created>>
    /\ Render

Click(control) ==
    /\ control \in page.bound
    /\ control = "create_manual_run" => page.typed
    /\ ~Gate(control)
    /\ \E s \in Slots :
        /\ ops[s] = NoOp
        /\ ops' = [ops EXCEPT ![s] = Op(control)]
    /\ state' = [action |-> control, error |-> None]
    /\ UNCHANGED <<bridge, store, page, view, created>>

-----------------------------------------------------------------------------
(* The Local API                                                           *)

\* GET /runs and GET /obsidian/status are sent together and answered on their own; the status of
\* Obsidian may be one from the cache.
AnswerRuns(s) ==
    /\ ops[s].action \in Loads /\ "runs" \notin ops[s].got
    /\ ops' = [ops EXCEPT ![s].got = @ \cup {"runs"}, ![s].runs = store]
    /\ UNCHANGED <<bridge, store, page, state, view, created>>

AnswerObsidian(s, available) ==
    /\ ops[s].action \in Loads /\ "obsidian" \notin ops[s].got
    /\ ops' = [ops EXCEPT ![s].got = @ \cup {"obsidian"}, ![s].obsidian = available]
    /\ UNCHANGED <<bridge, store, page, state, view, created>>

\* createManualRun stores the run as queued, and as running when there is a bridge.
AcceptRun(s, r) ==
    /\ ops[s].action = "create_manual_run" /\ ops[s].run = None
    /\ store[r] = "absent"
    /\ store' = [store EXCEPT ![r] = IF bridge THEN "running" ELSE "queued"]
    /\ ops' = [ops EXCEPT ![s].run = r]
    /\ UNCHANGED <<bridge, page, state, view, created>>

\* It answers with the record, once the bridge has reported.
AnswerRun(s) ==
    /\ ops[s].run # None /\ "answer" \notin ops[s].got
    /\ ops' = [ops EXCEPT ![s].got = {"answer"}, ![s].runs[ops[s].run] = store[ops[s].run]]
    /\ UNCHANGED <<bridge, store, page, state, view, created>>

\* POST /runs/obsidian-summary writes the note; the run it answers with is not stored.
AnswerSummary(s) ==
    /\ ops[s].action = "write_run_summary" /\ ops[s].got = {}
    /\ ops' = [ops EXCEPT ![s].got = {"answer"}]
    /\ UNCHANGED <<bridge, store, page, state, view, created>>

RunEnds(r, status) ==
    /\ store[r] = "running"
    /\ store' = [store EXCEPT ![r] = status]
    /\ UNCHANGED <<bridge, page, state, view, ops, created>>

-----------------------------------------------------------------------------
(* What becomes of a request                                               *)

\* A bug: any status is shown.
AnyStatus(runs) == TRUE

\* createMinimalRun throws for a status it does not know.
Minimal(runs) == \A r \in Runs : runs[r] \in Shown

Answered(s) ==
    IF ops[s].action \in Loads THEN ops[s].got = {"runs", "obsidian"} ELSE ops[s].got = {"answer"}

\* A bug: the action stays under way when its request has failed.
EndLoading(s, error) ==
    /\ ops' = [ops EXCEPT ![s] = NoOp]
    /\ state' = [state EXCEPT !.action = IF error = None THEN None ELSE @, !.error = error]
    /\ Render

\* runAction comes back, and the listener renders.
End(s, error) ==
    /\ ops' = [ops EXCEPT ![s] = NoOp]
    /\ state' = [action |-> None, error |-> error]
    /\ Render

\* A load replaces the dashboard.
Load(s) ==
    /\ ops[s].action \in Loads /\ Answered(s) /\ Minimal(ops[s].runs)
    /\ view' = DashboardModel(ops[s].runs, ops[s].obsidian)
    /\ UNCHANGED <<bridge, store, created>>
    /\ End(s, None)

\* The run of an answer takes the place of the one with its id.
UpsertRun(s) ==
    /\ ops[s].action = "create_manual_run" /\ Answered(s) /\ Minimal(ops[s].runs)
    /\ view' = [view EXCEPT !.runs[ops[s].run] = ops[s].runs[ops[s].run]]
    /\ created' = created \cup {ops[s].run}
    /\ UNCHANGED <<bridge, store>>
    /\ End(s, None)

UpsertSummary(s) ==
    /\ ops[s].action = "write_run_summary" /\ Answered(s)
    /\ view' = [view EXCEPT !.summary = TRUE]
    /\ UNCHANGED <<bridge, store, created>>
    /\ End(s, None)

\* An answer holds a run the page has no contract for; the dashboard stays as it was.
BreaksContract(s) ==
    /\ Answered(s) /\ ~Minimal(ops[s].runs)
    /\ UNCHANGED <<bridge, store, view, created>>
    /\ End(s, "contract")

\* fetch rejects, or the status is another one; what the server did stays done.
Fails(s) ==
    /\ ops[s] # NoOp /\ ~Answered(s)
    /\ UNCHANGED <<bridge, store, view, created>>
    /\ End(s, "request")

Settle(s) == Load(s) \/ UpsertRun(s) \/ UpsertSummary(s) \/ BreaksContract(s) \/ Fails(s)

Next ==
    \/ Mount \/ Refresh \/ Unmount \/ Type
    \/ \E c \in Controls : ClickDisabled(c) \/ Click(c)
    \/ ClickEmpty
    \/ \E s \in Slots :
        \/ AnswerRuns(s)
        \/ \E available \in BOOLEAN : AnswerObsidian(s, available)
        \/ \E r \in Runs : AcceptRun(s, r)
        \/ AnswerRun(s) \/ AnswerSummary(s)
        \/ Settle(s)
    \/ \E r \in Runs : \E status \in {"succeeded", "failed"} : RunEnds(r, status)

\* fetch settles, one way or the other.
Fairness == \A s \in Slots : WF_vars(Settle(s))

Spec == Init /\ [][Next]_vars /\ Fairness

-----------------------------------------------------------------------------
(* Properties                                                              *)

\* A run the page was told of stays on the page: no load that was sent before it replaces the
\* dashboard after it, though the page offers Load and Send while one of them is under way.
CreatedIsShown == created \subseteq ViewModel(view).runs

\* Controls are off only while a request is under way that will turn them on again, and never two:
\* no answer, error or page that is gone leaves the controller busy with nothing.
BusyWithOne ==
    /\ state.action # None => \E s \in Slots : ops[s].action = state.action
    /\ \A s, t \in Slots : ops[s] # NoOp /\ ops[t] # NoOp => s = t

\* Whatever fails, the page offers Load again after every action, unless it is unmounted.
ControlsComeBack ==
    (page.mounted /\ state.action # None) ~> (~page.mounted \/ "load" \in page.bound)

\* What the Local API keeps can be loaded: an answer is never refused for a record in it.
StoredRunsAreShown == state.error # "contract"
=============================================================================
