---------------------------- MODULE DashboardProofs ----------------------------
(* Theorems about Dashboard, for any set of runs and either host connector.  *)
EXTENDS Dashboard, TLAPS

-----------------------------------------------------------------------------
(* Types                                                                   *)

Pages == [mounted : BOOLEAN, bound : SUBSET Controls, typed : BOOLEAN]
States == [action : Controls \cup {None}, error : {None, "request", "message", "contract"}]
Views == [runs : [Runs -> Shown], summary : BOOLEAN, obsidian : BOOLEAN]
Ops == [action : Controls \cup {None}, got : SUBSET {"runs", "obsidian", "answer"},
        run : Runs \cup {None}, runs : [Runs -> Stored], obsidian : BOOLEAN]

LEMMA TypeParts ==
    LET Parts == /\ bridge \in Bridges /\ store \in [Runs -> Stored] /\ page \in Pages
                 /\ state \in States /\ view \in Views /\ ops \in [Slots -> Ops] /\ created \subseteq Runs
    IN  (TypeOK <=> Parts) /\ (TypeOK' <=> Parts')
BY DEF TypeOK, Pages, States, Views, Ops

LEMMA OpTypes == \A action \in Controls \cup {None} : Op(action) \in Ops
BY DEF Op, Ops, None, NoRuns, Stored

\* Rendering keeps the page a page.
LEMMA RenderTypes ==
    ASSUME page \in Pages, Render PROVE page' \in Pages
<1>1. Bindings(state'.action, view') \subseteq Controls
    BY DEF Bindings, Toolbar, Controls
<1>2. \A b \in SUBSET Controls : [[page EXCEPT !.bound = b] EXCEPT !.typed = FALSE] \in Pages
    <2>1. \A b \in SUBSET Controls : [page EXCEPT !.bound = b] \in Pages
        BY DEF Pages
    <2>2. \A p \in Pages : [p EXCEPT !.typed = FALSE] \in Pages
        BY DEF Pages
    <2>3. QED
        BY <2>1, <2>2
<1>3. \A b : [page EXCEPT !.bound = b, !.typed = FALSE] = [[page EXCEPT !.bound = b] EXCEPT !.typed = FALSE]
    OBVIOUS
<1>4. QED
    BY <1>1, <1>2, <1>3 DEF Render

LEMMA EndTypes ==
    ASSUME page \in Pages, ops \in [Slots -> Ops], NEW s \in Slots,
           NEW error \in {None, "request", "message", "contract"}, End(s, error)
    PROVE  page' \in Pages /\ state' \in States /\ ops' \in [Slots -> Ops]
<1>1. page' \in Pages
    BY RenderTypes DEF End
<1>2. state' \in States
    BY DEF End, States
<1>3. ops' \in [Slots -> Ops]
    BY OpTypes DEF End, NoOp
<1>4. QED
    BY <1>1, <1>2, <1>3

-----------------------------------------------------------------------------
(* One request at a time                                                   *)

\* The controller is busy exactly with the one request that is under way.
OneRequest ==
    \A s \in Slots : ops[s] # NoOp =>
        /\ state.action = ops[s].action /\ ops[s].action # None
        /\ \A t \in Slots \ {s} : ops[t] = NoOp

\* The page knows a created run from its own answer, the store has it, and so has every answer to a
\* load under way.
Known ==
    /\ created \subseteq ViewModel(view).runs
    /\ \A r \in created : store[r] # "absent"
    /\ \A s \in Slots :
        /\ ops[s].action \in Loads /\ "runs" \in ops[s].got =>
                \A r \in created : ops[s].runs[r] # "absent"
        /\ ops[s].run # None =>
                ops[s].action = "create_manual_run" /\ store[ops[s].run] # "absent"
        /\ ops[s].action = "create_manual_run" /\ "answer" \in ops[s].got =>
                ops[s].run # None /\ ops[s].runs[ops[s].run] # "absent"

Inv == TypeOK /\ OneRequest /\ Known

LEMMA InitInv == Init => Inv
<1> SUFFICES ASSUME Init PROVE Inv
    OBVIOUS
<1>1. page \in Pages /\ state \in States /\ view \in Views /\ store \in [Runs -> Stored]
    BY DEF Init, Pages, States, Views, DashboardModel, NoRuns, Shown, Stored
<1>2. ops \in [Slots -> Ops] /\ \A s \in Slots : ops[s] = NoOp
    BY OpTypes DEF Init, NoOp
<1>3. TypeOK
    BY <1>1, <1>2, TypeParts DEF Init
<1>4. NoOp.action \notin Loads /\ NoOp.run = None /\ NoOp.action # "create_manual_run"
    BY DEF NoOp, Op, Loads, None
<1>5. Known
    BY <1>2, <1>4 DEF Init, Known
<1>6. QED
    BY <1>2, <1>3, <1>5 DEF Inv, OneRequest

\* The page may change under everything else.
LEMMA PageKeepsInv ==
    ASSUME Inv, page' \in Pages, UNCHANGED <<bridge, store, state, view, ops, created>> PROVE Inv'
<1>1. TypeOK'
    BY TypeParts DEF Inv
<1>2. QED
    BY <1>1 DEF Inv, OneRequest, Known, ViewModel

LEMMA PageActions ==
    ASSUME Inv, \/ Mount \/ Refresh \/ Unmount \/ Type
                \/ \E c \in Controls : ClickDisabled(c)
    PROVE  Inv'
<1>1. page \in Pages
    BY TypeParts DEF Inv
<1>2. CASE Mount
    <2>1. Bindings(state.action, view) \subseteq Controls
        BY DEF Bindings, Toolbar, Controls
    <2>2. page' \in Pages
        BY <1>2, <2>1 DEF Mount, Pages
    <2>3. QED
        BY <1>2, <2>2, PageKeepsInv DEF Mount
<1>3. CASE Refresh
    BY <1>1, <1>3, RenderTypes, PageKeepsInv DEF Refresh
<1>4. CASE Unmount
    <2>1. page' \in Pages
        BY <1>4 DEF Unmount, Pages
    <2>2. QED
        BY <1>4, <2>1, PageKeepsInv DEF Unmount
<1>5. CASE Type
    <2>1. page' \in Pages
        BY <1>1, <1>5 DEF Type, Pages
    <2>2. QED
        BY <1>5, <2>1, PageKeepsInv DEF Type
<1>6. ASSUME NEW c \in Controls, ClickDisabled(c) PROVE Inv'
    BY <1>1, <1>6, RenderTypes, PageKeepsInv DEF ClickDisabled
<1>7. QED
    BY <1>2, <1>3, <1>4, <1>5, <1>6

\* A click that is let through finds the controller idle.
LEMMA GateIsIdle ==
    ASSUME NEW c \in Controls, ~Gate(c) PROVE state.action = None
BY DEF Gate, ControlsById, Disabled

LEMMA ClickKeepsInv ==
    ASSUME Inv, ClickEmpty \/ \E c \in Controls : Click(c) PROVE Inv'
<1>0. /\ bridge \in Bridges /\ store \in [Runs -> Stored] /\ page \in Pages /\ state \in States
      /\ view \in Views /\ ops \in [Slots -> Ops] /\ created \subseteq Runs /\ OneRequest /\ Known
    BY TypeParts DEF Inv
<1>1. CASE ClickEmpty
    <2>1. page' \in Pages
        BY <1>0, <1>1, RenderTypes DEF ClickEmpty
    <2>2. state' \in States /\ state'.action = None
        BY <1>1 DEF ClickEmpty, States
    <2>3. state.action = None
        BY <1>1, GateIsIdle DEF ClickEmpty, Controls
    <2>4. UNCHANGED <<bridge, store, view, ops, created>>
        BY <1>1 DEF ClickEmpty
    <2>5. TypeOK' /\ OneRequest' /\ Known'
        BY <1>0, <2>1, <2>2, <2>3, <2>4, TypeParts DEF OneRequest, Known, ViewModel
    <2>6. QED
        BY <2>5 DEF Inv
<1>2. ASSUME NEW c \in Controls, Click(c) PROVE Inv'
    <2>1. PICK s \in Slots : ops[s] = NoOp /\ ops' = [ops EXCEPT ![s] = Op(c)]
        BY <1>2 DEF Click
    <2>2. state.action = None
        BY <1>2, GateIsIdle DEF Click
    <2>3. \A t \in Slots : ops[t] = NoOp
        BY <1>0, <2>2 DEF OneRequest
    <2>4. UNCHANGED <<bridge, store, page, view, created>> /\ state' = [action |-> c, error |-> None]
        BY <1>2 DEF Click
    <2>5. state' \in States /\ ops' \in [Slots -> Ops]
        BY <1>0, <2>1, <2>4, OpTypes DEF States
    <2>6. Op(c).action = c /\ Op(c).got = {} /\ Op(c).run = None /\ c # None
        BY DEF Op, Controls, None
    <2>7. OneRequest'
        BY <1>0, <2>1, <2>3, <2>4, <2>6 DEF OneRequest
    <2>8. \A t \in Slots : ops'[t] = ops[t] \/ ops'[t] = Op(c)
        BY <1>0, <2>1
    <2>9. Known'
        BY <1>0, <2>4, <2>6, <2>8 DEF Known, ViewModel
    <2>10. TypeOK'
        BY <1>0, <2>4, <2>5, TypeParts
    <2>11. QED
        BY <2>7, <2>9, <2>10 DEF Inv
<1>3. QED
    BY <1>1, <1>2

-----------------------------------------------------------------------------
(* The Local API answers                                                   *)

\* A step of the Local API: the store loses nothing, and one request at most learns something.
LEMMA ApiKeepsInv ==
    ASSUME Inv, UNCHANGED <<bridge, page, state, view, created>>,
           store' \in [Runs -> Stored], \A r \in Runs : store[r] # "absent" => store'[r] # "absent",
           NEW s \in Slots, ops' = ops \/ (ops[s] # NoOp /\ \E o \in Ops : ops' = [ops EXCEPT ![s] = o]),
           ops'[s].action = ops[s].action,
           /\ ops'[s].action \in Loads /\ "runs" \in ops'[s].got =>
                    \A r \in created : ops'[s].runs[r] # "absent"
           /\ ops'[s].run # None =>
                    ops'[s].action = "create_manual_run" /\ store'[ops'[s].run] # "absent"
           /\ ops'[s].action = "create_manual_run" /\ "answer" \in ops'[s].got =>
                    ops'[s].run # None /\ ops'[s].runs[ops'[s].run] # "absent"
    PROVE  Inv'
<1>0. /\ bridge \in Bridges /\ store \in [Runs -> Stored] /\ page \in Pages /\ state \in States
      /\ view \in Views /\ ops \in [Slots -> Ops] /\ created \subseteq Runs /\ OneRequest /\ Known
    BY TypeParts DEF Inv
<1>1. ops' \in [Slots -> Ops] /\ \A t \in Slots \ {s} : ops'[t] = ops[t]
    BY <1>0
<1>2. TypeOK'
    BY <1>0, <1>1, TypeParts
<1>3. OneRequest'
    <2>1. \A t \in Slots : ops'[t] # NoOp => ops[t] # NoOp
        BY <1>0, <1>1
    <2>2. QED
        BY <1>0, <1>1, <2>1 DEF OneRequest
<1>4. Known'
    <2>1. created' \subseteq ViewModel(view)'.runs /\ \A r \in created' : store'[r] # "absent"
        BY <1>0 DEF Known, ViewModel
    <2>2. ASSUME NEW t \in Slots \ {s}
          PROVE  /\ ops'[t].action \in Loads /\ "runs" \in ops'[t].got =>
                        \A r \in created' : ops'[t].runs[r] # "absent"
                 /\ ops'[t].run # None =>
                        ops'[t].action = "create_manual_run" /\ store'[ops'[t].run] # "absent"
                 /\ ops'[t].action = "create_manual_run" /\ "answer" \in ops'[t].got =>
                        ops'[t].run # None /\ ops'[t].runs[ops'[t].run] # "absent"
        <3>1. ops'[t] = ops[t] /\ ops[t] \in Ops
            BY <1>0, <1>1
        <3>2. ops[t].run # None => ops[t].run \in Runs
            BY <3>1 DEF Ops
        <3>3. QED
            BY <1>0, <3>1, <3>2 DEF Known
    <2>3. QED
        BY <2>1, <2>2 DEF Known
<1>5. QED
    BY <1>2, <1>3, <1>4 DEF Inv

LEMMA AnswersKeepInv ==
    ASSUME Inv, NEW s \in Slots,
           \/ AnswerRuns(s) \/ AnswerRun(s) \/ AnswerSummary(s)
           \/ \E available \in BOOLEAN : AnswerObsidian(s, available)
           \/ \E r \in Runs : AcceptRun(s, r)
    PROVE  Inv'
<1>0. /\ store \in [Runs -> Stored] /\ ops \in [Slots -> Ops] /\ ops[s] \in Ops /\ created \subseteq Runs
      /\ Known
    BY TypeParts DEF Inv
<1>a. NoOp.action = None /\ NoOp.run = None /\ None \notin Loads
      /\ None \notin {"create_manual_run", "write_run_summary"}
    BY DEF NoOp, Op, None, Loads
<1>l. "create_manual_run" \notin Loads /\ "write_run_summary" \notin Loads
    BY DEF Loads
<1>1. CASE AnswerRuns(s)
    <2> DEFINE o == [ops[s] EXCEPT !.got = @ \cup {"runs"}, !.runs = store]
    <2>1. ops' = [ops EXCEPT ![s] = o] /\ UNCHANGED <<bridge, store, page, state, view, created>>
          /\ ops[s].action \in Loads
        BY <1>1 DEF AnswerRuns
    <2>2. /\ o \in Ops /\ o.action = ops[s].action /\ o.run = ops[s].run /\ o.runs = store
        BY <1>0 DEF Ops
    <2>3. ops'[s] = o /\ ops[s] # NoOp
        BY <1>0, <1>a, <2>1
    <2>4. o.run = None
        BY <1>0, <1>l, <2>1, <2>2 DEF Known
    <2> HIDE DEF o
    <2>5. QED
        BY <1>0, <1>l, <2>1, <2>2, <2>3, <2>4, ApiKeepsInv DEF Known
<1>2. ASSUME NEW available \in BOOLEAN, AnswerObsidian(s, available) PROVE Inv'
    <2> DEFINE o == [ops[s] EXCEPT !.got = @ \cup {"obsidian"}, !.obsidian = available]
    <2>1. ops' = [ops EXCEPT ![s] = o] /\ UNCHANGED <<bridge, store, page, state, view, created>>
          /\ ops[s].action \in Loads
        BY <1>2 DEF AnswerObsidian
    <2>2. /\ o.action = ops[s].action /\ o.run = ops[s].run /\ o.runs = ops[s].runs
          /\ o.got = ops[s].got \cup {"obsidian"}
        BY <1>0 DEF Ops
    <2>3. o \in Ops
        <3>1. [ops[s] EXCEPT !.got = @ \cup {"obsidian"}] \in Ops
            BY <1>0 DEF Ops
        <3>2. \A q \in Ops, a \in BOOLEAN : [q EXCEPT !.obsidian = a] \in Ops
            BY DEF Ops
        <3>3. o = [[ops[s] EXCEPT !.got = @ \cup {"obsidian"}] EXCEPT !.obsidian = available]
            OBVIOUS
        <3>4. QED
            BY <3>1, <3>2, <3>3
    <2>4. ops'[s] = o /\ ops[s] # NoOp
        BY <1>0, <1>a, <2>1
    <2>5. o.run = None
        BY <1>0, <1>l, <2>1, <2>2 DEF Known
    <2> HIDE DEF o
    <2>6. o.action \in Loads /\ "runs" \in o.got => \A r \in created : o.runs[r] # "absent"
        BY <1>0, <2>2 DEF Known
    <2>7. o.action # "create_manual_run"
        BY <1>l, <2>1, <2>2
    <2>8. store' \in [Runs -> Stored] /\ \A r \in Runs : store[r] # "absent" => store'[r] # "absent"
        BY <1>0, <2>1
    <2>9. QED
        BY <2>1, <2>2, <2>3, <2>4, <2>5, <2>6, <2>7, <2>8, ApiKeepsInv
<1>3. ASSUME NEW r \in Runs, AcceptRun(s, r) PROVE Inv'
    <2> DEFINE o == [ops[s] EXCEPT !.run = r]
    <2>1. /\ ops' = [ops EXCEPT ![s] = o] /\ UNCHANGED <<bridge, page, state, view, created>>
          /\ ops[s].action = "create_manual_run" /\ ops[s].run = None /\ store[r] = "absent"
          /\ store' = [store EXCEPT ![r] = IF bridge THEN "running" ELSE "queued"]
        BY <1>3 DEF AcceptRun
    <2>2. /\ o \in Ops /\ o.action = ops[s].action /\ o.run = r /\ o.got = ops[s].got
        BY <1>0 DEF Ops
    <2>3. ops'[s] = o /\ ops[s] # NoOp
        BY <1>0, <1>a, <2>1
    <2>4. store' \in [Runs -> Stored] /\ (\A q \in Runs : store[q] # "absent" => store'[q] # "absent")
          /\ store'[r] # "absent"
        BY <1>0, <2>1 DEF Stored
    <2>5. "answer" \notin o.got
        BY <1>0, <2>1, <2>2 DEF Known
    <2> HIDE DEF o
    <2>6. o.action \notin Loads /\ o.action = "create_manual_run"
        BY <1>l, <2>1, <2>2
    <2>7. UNCHANGED <<bridge, page, state, view, created>>
        BY <2>1
    <2>8. QED
        BY <2>1, <2>2, <2>3, <2>4, <2>5, <2>6, <2>7, ApiKeepsInv
<1>4. CASE AnswerRun(s)
    <2> DEFINE r == ops[s].run
               o == [ops[s] EXCEPT !.got = {"answer"}, !.runs[r] = store[r]]
    <2>1. /\ ops' = [ops EXCEPT ![s] = o] /\ UNCHANGED <<bridge, store, page, state, view, created>>
          /\ r # None
        BY <1>4 DEF AnswerRun
    <2>2. r \in Runs /\ store[r] # "absent" /\ ops[s].action = "create_manual_run"
        BY <1>0, <2>1 DEF Known, Ops
    <2>3. /\ o \in Ops /\ o.action = ops[s].action /\ o.run = r /\ o.runs[r] = store[r]
        BY <1>0, <2>2 DEF Ops
    <2>4. ops'[s] = o /\ ops[s] # NoOp
        BY <1>0, <1>a, <2>1
    <2> HIDE DEF o, r
    <2>5. QED
        BY <1>0, <1>l, <2>1, <2>2, <2>3, <2>4, ApiKeepsInv
<1>5. CASE AnswerSummary(s)
    <2> DEFINE o == [ops[s] EXCEPT !.got = {"answer"}]
    <2>1. ops' = [ops EXCEPT ![s] = o] /\ UNCHANGED <<bridge, store, page, state, view, created>>
          /\ ops[s].action = "write_run_summary"
        BY <1>5 DEF AnswerSummary
    <2>2. /\ o \in Ops /\ o.action = ops[s].action /\ o.run = ops[s].run
        BY <1>0 DEF Ops
    <2>3. ops'[s] = o /\ ops[s] # NoOp
        BY <1>0, <1>a, <2>1
    <2>4. o.run = None
        BY <1>0, <2>1, <2>2 DEF Known
    <2> HIDE DEF o
    <2>5. QED
        BY <1>0, <1>l, <2>1, <2>2, <2>3, <2>4, ApiKeepsInv
<1>6. QED
    BY <1>1, <1>2, <1>3, <1>4, <1>5

LEMMA RunEndsKeepsInv ==
    ASSUME Inv, NEW r \in Runs, NEW status \in {"succeeded", "failed"}, RunEnds(r, status) PROVE Inv'
<1>0. /\ store \in [Runs -> Stored] /\ ops \in [Slots -> Ops] /\ Known /\ OneRequest
      /\ \A s \in Slots : ops[s].run # None => ops[s].run \in Runs
    BY TypeParts DEF Inv, Ops
<1>1. store' \in [Runs -> Stored] /\ \A q \in Runs : store[q] # "absent" => store'[q] # "absent"
    BY <1>0 DEF RunEnds, Stored
<1>2. UNCHANGED <<bridge, page, state, view, ops, created>>
    BY DEF RunEnds
<1>3. created \subseteq Runs
    BY TypeParts DEF Inv
<1>4. TypeOK' /\ OneRequest' /\ Known'
    BY <1>0, <1>1, <1>2, <1>3, TypeParts DEF Inv, OneRequest, Known, ViewModel
<1>5. QED
    BY <1>4 DEF Inv

-----------------------------------------------------------------------------
(* Requests come to their end                                              *)

\* The request that ends was the only one: none is under way after it.
LEMMA EndFrees ==
    ASSUME Inv, NEW s \in Slots, ops[s] # NoOp,
           NEW error \in {None, "request", "message", "contract"}, End(s, error)
    PROVE  \A t \in Slots : ops'[t] = NoOp
BY TypeParts DEF Inv, OneRequest, End

LEMMA SettleKeepsInv ==
    ASSUME Inv, NEW s \in Slots, Settle(s) PROVE Inv'
<1>0. /\ bridge \in Bridges /\ store \in [Runs -> Stored] /\ page \in Pages
      /\ view \in Views /\ ops \in [Slots -> Ops] /\ ops[s] \in Ops /\ created \subseteq Runs /\ Known
    BY TypeParts DEF Inv
<1>a. /\ NoOp.action = None /\ NoOp.run = None /\ None \notin Loads
      /\ None \notin {"create_manual_run", "write_run_summary"} /\ NoOp.got = {}
      /\ "create_manual_run" \notin Loads
    BY DEF NoOp, Op, None, Loads
<1>1. PICK error \in {None, "request", "message", "contract"} : End(s, error)
    BY DEF Settle, Load, UpsertRun, UpsertSummary, BreaksContract, Fails
<1>2. ops[s] # NoOp
    BY <1>a DEF Settle, Load, UpsertRun, UpsertSummary, BreaksContract, Fails, Answered
<1>3. UNCHANGED <<bridge, store>>
    BY DEF Settle, Load, UpsertRun, UpsertSummary, BreaksContract, Fails
<1>4. page' \in Pages /\ state' \in States /\ ops' \in [Slots -> Ops] /\ \A t \in Slots : ops'[t] = NoOp
    BY <1>0, <1>1, <1>2, EndTypes, EndFrees
<1>5. view' \in Views /\ created' \subseteq ViewModel(view').runs /\ created' \subseteq Runs
      /\ \A r \in created' : store[r] # "absent"
    <2>1. CASE Load(s)
        <3>1. /\ view' = [runs |-> ops[s].runs, summary |-> FALSE, obsidian |-> ops[s].obsidian]
              /\ created' = created
              /\ ops[s].action \in Loads /\ "runs" \in ops[s].got
              /\ \A r \in Runs : ops[s].runs[r] \in Shown
            BY <2>1 DEF Load, DashboardModel, Answered, Minimal
        <3>2. view' \in Views
            BY <1>0, <3>1 DEF Ops, Views
        <3>3. created \subseteq ViewModel(view').runs
            BY <1>0, <3>1 DEF Known, ViewModel
        <3>4. QED
            BY <1>0, <3>1, <3>2, <3>3 DEF Known
    <2>2. CASE UpsertRun(s)
        <3> DEFINE r == ops[s].run
        <3>1. /\ view' = [view EXCEPT !.runs[r] = ops[s].runs[r]]
              /\ created' = created \cup {r}
              /\ ops[s].action = "create_manual_run" /\ "answer" \in ops[s].got
              /\ \A q \in Runs : ops[s].runs[q] \in Shown
            BY <1>a, <2>2 DEF UpsertRun, Answered, Minimal
        <3>2. r \in Runs /\ store[r] # "absent" /\ ops[s].runs[r] # "absent"
            BY <1>0, <3>1 DEF Known, Ops
        <3>3. view' \in Views
            BY <1>0, <3>1, <3>2 DEF Views
        <3>4. \A q \in Runs : view'.runs[q] = IF q = r THEN ops[s].runs[r] ELSE view.runs[q]
            BY <1>0, <3>1, <3>2 DEF Views
        <3> HIDE DEF r
        <3>5. created' \subseteq ViewModel(view').runs
            BY <1>0, <3>1, <3>2, <3>4 DEF Known, ViewModel
        <3>6. QED
            BY <1>0, <3>1, <3>2, <3>3, <3>5 DEF Known
    <2>3. CASE UpsertSummary(s)
        <3>1. view' = [view EXCEPT !.summary = TRUE] /\ created' = created
            BY <2>3 DEF UpsertSummary
        <3>2. view' \in Views /\ view'.runs = view.runs
            BY <1>0, <3>1 DEF Views
        <3>3. QED
            BY <1>0, <3>1, <3>2 DEF Known, ViewModel
    <2>4. CASE BreaksContract(s) \/ Fails(s)
        BY <1>0, <2>4 DEF BreaksContract, Fails, Known
    <2>5. QED
        BY <2>1, <2>2, <2>3, <2>4 DEF Settle
<1>6. TypeOK'
    BY <1>0, <1>3, <1>4, <1>5, TypeParts
<1>7. OneRequest' /\ Known'
    BY <1>a, <1>3, <1>4, <1>5 DEF OneRequest, Known, ViewModel
<1>8. QED
    BY <1>6, <1>7 DEF Inv

LEMMA NextInv == Inv /\ [Next]_vars => Inv'
<1> SUFFICES ASSUME Inv, [Next]_vars PROVE Inv'
    OBVIOUS
<1>1. CASE UNCHANGED vars
    BY <1>1, PageKeepsInv, TypeParts DEF vars, Inv
<1>2. CASE Next
    BY <1>2, PageActions, ClickKeepsInv, AnswersKeepInv, RunEndsKeepsInv, SettleKeepsInv DEF Next
<1>3. QED
    BY <1>1, <1>2

\* Every variable keeps its type.
THEOREM TypeCorrect == Spec => []TypeOK
<1>1. Inv => TypeOK
    BY DEF Inv
<1>2. QED
    BY <1>1, InitInv, NextInv, PTL DEF Spec

\* A run the page was told of is never taken off it again by a load.
THEOREM CreatedStaysShown == Spec => []CreatedIsShown
<1>1. Inv => CreatedIsShown
    BY DEF Inv, Known, CreatedIsShown
<1>2. QED
    BY <1>1, InitInv, NextInv, PTL DEF Spec

-----------------------------------------------------------------------------
(* The controller is busy with something                                   *)

\* A busy controller has its request under way.
Busy == state.action # None => \E s \in Slots : ops[s].action = state.action

\* An answer to a request leaves what it was sent for.
LEMMA AnswersKeepAction ==
    ASSUME Inv, NEW s \in Slots,
           \/ AnswerRuns(s) \/ AnswerRun(s) \/ AnswerSummary(s)
           \/ \E available \in BOOLEAN : AnswerObsidian(s, available)
           \/ \E r \in Runs : AcceptRun(s, r)
    PROVE  state' = state /\ \A t \in Slots : ops'[t].action = ops[t].action
<1>1. ops \in [Slots -> Ops]
    BY TypeParts DEF Inv
<1>2. CASE AnswerRuns(s)
    BY <1>1, <1>2 DEF AnswerRuns, Ops
<1>3. CASE AnswerRun(s)
    BY <1>1, <1>3 DEF AnswerRun, Ops
<1>4. CASE AnswerSummary(s)
    BY <1>1, <1>4 DEF AnswerSummary, Ops
<1>5. ASSUME NEW available \in BOOLEAN, AnswerObsidian(s, available)
      PROVE  state' = state /\ \A t \in Slots : ops'[t].action = ops[t].action
    BY <1>1, <1>5 DEF AnswerObsidian, Ops
<1>6. ASSUME NEW r \in Runs, AcceptRun(s, r)
      PROVE  state' = state /\ \A t \in Slots : ops'[t].action = ops[t].action
    BY <1>1, <1>6 DEF AcceptRun, Ops
<1>7. QED
    BY <1>2, <1>3, <1>4, <1>5, <1>6

LEMMA NextBusy == Inv /\ Busy /\ [Next]_vars => Busy'
<1> SUFFICES ASSUME Inv, Busy, [Next]_vars PROVE Busy'
    OBVIOUS
<1>0. ops \in [Slots -> Ops]
    BY TypeParts DEF Inv
<1>1. CASE UNCHANGED <<state, ops>>
    BY <1>1 DEF Busy
<1>2. CASE ClickEmpty
    BY <1>2 DEF ClickEmpty, Busy
<1>3. ASSUME NEW c \in Controls, Click(c) PROVE Busy'
    <2>1. PICK s \in Slots : ops' = [ops EXCEPT ![s] = Op(c)]
        BY <1>3 DEF Click
    <2>2. ops'[s].action = c /\ state'.action = c
        BY <1>0, <1>3, <2>1 DEF Click, Op
    <2>3. QED
        BY <2>2 DEF Busy
<1>4. ASSUME NEW s \in Slots, Settle(s) PROVE Busy'
    <2>1. state'.action = None
        BY <1>4 DEF Settle, Load, UpsertRun, UpsertSummary, BreaksContract, Fails, End
    <2>2. QED
        BY <2>1 DEF Busy
<1>5. ASSUME NEW s \in Slots,
             \/ AnswerRuns(s) \/ AnswerRun(s) \/ AnswerSummary(s)
             \/ \E available \in BOOLEAN : AnswerObsidian(s, available)
             \/ \E r \in Runs : AcceptRun(s, r)
      PROVE  Busy'
    BY <1>5, AnswersKeepAction DEF Busy
<1>6. QED
    BY <1>1, <1>2, <1>3, <1>4, <1>5 DEF Next, vars, Mount, Refresh, Unmount, Type, ClickDisabled, RunEnds

\* What disables the controls is one request that is under way: the part of ControlsComeBack that no
\* fairness can give.
THEOREM BusyHasItsRequest == Spec => []BusyWithOne
<1>1. Init => Busy
    BY DEF Init, Busy
<1>2. Inv /\ Busy => BusyWithOne
    BY DEF Inv, OneRequest, Busy, BusyWithOne
<1>3. QED
    BY <1>1, <1>2, InitInv, NextInv, NextBusy, PTL DEF Spec
================================================================================
