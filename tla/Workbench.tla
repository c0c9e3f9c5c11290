----------------------------- MODULE Workbench ------------------------------
(***************************************************************************)
(* The classic workbench of the browser: what it shows (state/reducer.ts), *)
(* the loads a selection starts (hooks/useSequenceNav.ts), and running a   *)
(* sequence from it (App.tsx: handleRun, handleStop and the poll of the    *)
(* runs in flight).  How the server runs a row is RunRow's.                *)
(*                                                                         *)
(* One tab, one space.  An event handler runs to its first `await`, with   *)
(* the effects of what it dispatched; it goes on later with the values it  *)
(* captured.  Compose, run and stop are handled by the server while it     *)
(* handles nothing else (async routes over blocking code), so the request  *)
(* and the change it makes are one step; its answer arrives in a later one. *)
(* Lists, groups, the draggable order and the inspected result are left    *)
(* out, as are the values of inputs.                                       *)
(***************************************************************************)
EXTENDS Naturals

CONSTANTS
    Sequences,    \* catalog ids of sequences
    OneStep,      \* those that wrap one operation: they have no definition to load
    Events, Consoles,
    None,         \* null
    MaxRows,      \* bound: state rows composed
    Ticks,        \* bound: the polls under way at a time
    Handlers,     \* bound: the calls of handleRun under way at a time
    Panels,       \* bound: the panels the user opens besides the sequences
    MaxFailures   \* bound: requests that fail

ASSUME WorkbenchAssumption ==
    /\ OneStep \subseteq Sequences /\ MaxRows \in Nat /\ MaxFailures \in Nat
    /\ None \notin Sequences \cup Events \cup Consoles

Rows   == 1..MaxRows
Parked == {"waiting", "active"}

\* The parts of AppState that decide what is shown, and `run` with `params`.
Ui == [sequence : Sequences \cup {None}, event : Events \cup {None}, console : Consoles \cup {None},
       createSequence : BOOLEAN, createEvent : BOOLEAN, spacePanel : BOOLEAN, inspected : BOOLEAN,
       panel : {"builder", "params", "inspect", "space", "event"},
       definition : Sequences \cup {None}, loading : BOOLEAN,
       run : {"idle", "ready", "running", "success", "error"}, awaiting : BOOLEAN,
       inputs : BOOLEAN, valid : BOOLEAN]

VARIABLES
    ui,         \* the reducer's state
    loads,      \* definition requests in flight: <<sequence, cancelled>>
    composing,  \* the compose request of the selection in flight: at most one row
    composed,   \* composedSequence: a row
    rows,       \* the server's state rows
    inFlight,   \* state.inFlight: the rows the nav last heard of, with their status
    ticks,      \* calls of tick
    tracked,    \* trackedRunRef: a row
    lastKey,    \* lastPolledResultRef
    handlers,   \* calls of handleRun
    failures

vars == <<ui, loads, composing, composed, rows, inFlight, ticks, tracked, lastKey, handlers, failures>>

nav  == <<loads, composing, composed>>
poll == <<ticks, tracked, lastKey>>

NoTick    == [pc |-> "none", sequence |-> None, runs |-> {}, row |-> None, status |-> None]
NoHandler == [pc |-> "none", sequence |-> None, resume |-> FALSE, row |-> None, outcome |-> None, runs |-> {}]

Init ==
    /\ ui = [sequence |-> None, event |-> None, console |-> None, createSequence |-> FALSE,
             createEvent |-> FALSE, spacePanel |-> FALSE, inspected |-> FALSE, panel |-> "builder",
             definition |-> None, loading |-> FALSE, run |-> "idle", awaiting |-> FALSE,
             inputs |-> FALSE, valid |-> FALSE]
    /\ loads = {} /\ composing = {} /\ composed = None
    /\ rows = [r \in Rows |-> [seq |-> None, status |-> "unused"]]
    /\ inFlight = {} /\ ticks = [k \in Ticks |-> NoTick] /\ tracked = None /\ lastKey = None
    /\ handlers = [h \in Handlers |-> NoHandler] /\ failures = 0

-----------------------------------------------------------------------------
(* The reducer                                                             *)

\* emptySequence, and the selection that goes with it.
NoSequence(u) == [u EXCEPT !.sequence = None, !.definition = None, !.loading = FALSE, !.inspected = FALSE]

\* idleRun and resetParams
FreshRun(u) == [u EXCEPT !.run = "idle", !.awaiting = FALSE, !.inputs = FALSE, !.valid = FALSE]

\* Slip: a view that leaves the settings panel open.
AloneButSpace(u) == [u EXCEPT !.event = None, !.console = None, !.createSequence = FALSE,
                              !.createEvent = FALSE]

\* deselectEvent, deselectConsole and the panels that a view replaces.
Alone(u) == [u EXCEPT !.event = None, !.console = None, !.createSequence = FALSE,
                      !.createEvent = FALSE, !.spacePanel = FALSE]

SequenceSelected(s) ==
    IF ui.sequence = s THEN ui
    ELSE [Alone(FreshRun(NoSequence(ui))) EXCEPT !.sequence = s, !.loading = s \notin OneStep, !.panel = "params"]

OpenBuilder           == [Alone(FreshRun(NoSequence(ui))) EXCEPT !.panel = "builder"]
CreateSequenceOpened  == [Alone(NoSequence(ui)) EXCEPT !.createSequence = TRUE, !.panel = "builder",
                                                       !.inputs = FALSE, !.valid = FALSE]
CreateEventOpened     == [Alone(NoSequence(ui)) EXCEPT !.createEvent = TRUE, !.panel = "event"]
EventSelected(e)      == [Alone(NoSequence(ui)) EXCEPT !.event = e, !.panel = "event"]
ConsoleSelected(c)    == [Alone(NoSequence(ui)) EXCEPT !.console = c, !.panel = "builder"]
SpacePanelOpened      == [Alone(NoSequence(ui)) EXCEPT !.spacePanel = TRUE, !.panel = "space"]
AuditLogOpened        == [Alone(NoSequence(ui)) EXCEPT !.panel = "builder"]
EventDeselected       == [ui EXCEPT !.event = None, !.createEvent = FALSE, !.panel = "builder"]
ConsoleDeselected     == [ui EXCEPT !.console = None]
VisualElementClicked  == [ui EXCEPT !.inspected = TRUE, !.panel = "inspect", !.spacePanel = FALSE]

NextRightPanelMode(u) ==
    CASE u.inspected -> "inspect"
      [] ~u.inspected /\ u.spacePanel -> "space"
      [] ~u.inspected /\ ~u.spacePanel /\ (u.createEvent \/ u.event # None) -> "event"
      [] ~u.inspected /\ ~u.spacePanel /\ ~u.createEvent /\ u.event = None ->
           IF u.sequence # None THEN "params" ELSE "builder"

WithPanel(u)     == [u EXCEPT !.panel = NextRightPanelMode(u)]
InspectClosed    == WithPanel([ui EXCEPT !.inspected = FALSE])
SpacePanelClosed == WithPanel([ui EXCEPT !.spacePanel = FALSE])

RunRequested(u)        == [u EXCEPT !.run = "running"]
RunSucceeded(u, await) == [u EXCEPT !.run = "success", !.awaiting = await]
RunFailed(u)           == [u EXCEPT !.run = "error", !.awaiting = FALSE]
ParamsResolved(u, any) == [u EXCEPT !.inputs = any, !.valid = ~any]

\* PARAM_CHANGED, then PARAM_VALIDITY_UPDATED by ConfigPanel's effect.
Validated(u, ok) == [u EXCEPT !.valid = ok, !.run = IF ok THEN "ready" ELSE "idle"]

-----------------------------------------------------------------------------
(* A selection and its loads                                               *)

Unused == {r \in Rows : rows[r].status = "unused"}

\* The user's rows of the sequence that were composed and never ran, deleted.
Replaced(s) == [q \in Rows |-> IF rows[q] = [seq |-> s, status |-> "new"]
                                 THEN [rows[q] EXCEPT !.status = "deleted"] ELSE rows[q]]

\* compose_and_store: a new row takes the place of those that never ran.
Compose(r, s) ==
    /\ r \in Unused /\ \A q \in Unused : r <= q
    /\ rows' = [Replaced(s) EXCEPT ![r] = [seq |-> s, status |-> "new"]]

Cancel(requests) == {<<q[1], TRUE>> : q \in requests}

\* The effects' clean-up when the selected sequence changes, and the poll's.  The answer
\* of a compose that was cancelled is thrown away.
Leave ==
    /\ loads' = Cancel(loads) /\ composing' = {}
    /\ ticks' = [k \in Ticks |-> NoTick]

\* The effects of a selection: its definition is requested and it is composed.
SelectSequence(s) ==
    /\ s # ui.sequence /\ ui' = SequenceSelected(s)
    /\ loads' = Cancel(loads) \cup (IF s \in OneStep THEN {} ELSE {<<s, FALSE>>})
    /\ \E r \in Unused : Compose(r, s) /\ composing' = {r}
    /\ composed' = None /\ ticks' = [k \in Ticks |-> NoTick]
    /\ UNCHANGED <<inFlight, tracked, lastKey, handlers, failures>>

\* handleSequenceCreated may select what is selected already: no effect runs.
SelectAgain ==
    /\ ui.sequence # None /\ ui' = SequenceSelected(ui.sequence)
    /\ UNCHANGED <<nav, rows, inFlight, poll, handlers, failures>>

Open(p, next) ==
    /\ p \in Panels /\ ui' = next
    /\ IF ui.sequence = None THEN UNCHANGED <<loads, composing, ticks>> ELSE Leave
    /\ UNCHANGED <<composed, rows, inFlight, tracked, lastKey, handlers, failures>>

OpenPanel ==
    \/ Open("builder", OpenBuilder) \/ Open("createSequence", CreateSequenceOpened)
    \/ Open("createEvent", CreateEventOpened) \/ Open("space", SpacePanelOpened)
    \/ Open("audit", AuditLogOpened)
    \/ \E e \in Events : Open("event", EventSelected(e))
    \/ \E c \in Consoles : Open("console", ConsoleSelected(c))

\* What stays on the panel.  An event is deselected when its save returns, whatever
\* is open by then.
Panel(next) ==
    /\ ui' = next /\ ui' # ui
    /\ UNCHANGED <<nav, rows, inFlight, poll, handlers, failures>>

StayOnPanel ==
    \/ ui.sequence # None /\ ui.definition # None /\ Panel(VisualElementClicked)
    \/ ui.inspected /\ Panel(InspectClosed)
    \/ ui.spacePanel /\ Panel(SpacePanelClosed)
    \/ "event" \in Panels /\ Panel(EventDeselected)
    \/ ui.console # None /\ Panel(ConsoleDeselected)

Failed == failures < MaxFailures /\ failures' = failures + 1

\* Slip: the answer of a selection that was left is used.
LoadArrivesLate(q) ==
    /\ q \in loads /\ loads' = loads \ {q}
    /\ \/ ui' = [ui EXCEPT !.definition = q[1], !.loading = FALSE] /\ UNCHANGED failures
       \/ ui' = [ui EXCEPT !.loading = FALSE] /\ Failed
    /\ UNCHANGED <<composing, composed, rows, inFlight, poll, handlers>>

\* SEQUENCE_LOAD_SUCCEEDED or SEQUENCE_LOAD_FAILED
LoadArrives(q) ==
    /\ q \in loads /\ loads' = loads \ {q}
    /\ \/ q[2] /\ UNCHANGED <<ui, failures>>
       \/ ~q[2] /\ ui' = [ui EXCEPT !.definition = q[1], !.loading = FALSE] /\ UNCHANGED failures
       \/ ~q[2] /\ ui' = [ui EXCEPT !.loading = FALSE] /\ Failed
    /\ UNCHANGED <<composing, composed, rows, inFlight, poll, handlers>>

\* The composed sequence needs no input yet: the executor asks for it step by step.
ComposeArrives(r) ==
    /\ r \in composing /\ composing' = {}
    /\ composed' = r /\ ui' = ParamsResolved(ui, FALSE)
    /\ UNCHANGED <<loads, rows, inFlight, poll, handlers, failures>>

\* The operator edits the inputs shown, a run under way or not.
EditParams(ok) ==
    /\ ui.panel = "params" /\ ui.inputs /\ ui' = Validated(ui, ok)
    /\ UNCHANGED <<nav, rows, inFlight, poll, handlers, failures>>

-----------------------------------------------------------------------------
(* The server's runs                                                       *)

InFlight == {"waiting", "active", "pending"}

\* list_in_flight_states
RunsInFlight == {[row |-> r, seq |-> rows[r].seq, status |-> rows[r].status] :
                    r \in {q \in Rows : rows[q].status \in InFlight}}

Becomes(r, status) == rows' = [rows EXCEPT ![r].status = status]

\* The scheduler resumes a waiting run.
Wake(r) ==
    /\ rows[r].status = "waiting" /\ Becomes(r, "active")
    /\ UNCHANGED <<ui, nav, inFlight, poll, handlers, failures>>

\* The user composes the sequence in another tab too.  Bound: it is not run there.
ComposedElsewhere(s) ==
    /\ rows' = Replaced(s) /\ rows' # rows
    /\ UNCHANGED <<ui, nav, inFlight, poll, handlers, failures>>

\* A resumed run ends, waits again or asks for input.
Work(r, status) ==
    /\ rows[r].status = "active" /\ status \in {"inactive", "waiting", "pending"} /\ Becomes(r, status)
    /\ UNCHANGED <<ui, nav, inFlight, poll, handlers, failures>>

-----------------------------------------------------------------------------
(* The poll                                                                *)

\* The effect runs a tick at once and then every two seconds.
Tick(k) ==
    /\ ticks[k].pc = "none"
    /\ ticks' = [ticks EXCEPT ![k] = [NoTick EXCEPT !.pc = "runs", !.sequence = ui.sequence,
                                                     !.runs = RunsInFlight]]
    /\ UNCHANGED <<ui, nav, rows, inFlight, tracked, lastKey, handlers, failures>>

Of(runs, s) == {x \in runs : s # None /\ x.seq = s}

\* fetchInFlightRuns has answered.
TickRuns(k) ==
    LET t == ticks[k]
        mine == Of(t.runs, t.sequence) IN
    /\ t.pc = "runs" /\ inFlight' = t.runs
    /\ \/ /\ mine # {} /\ ticks' = [ticks EXCEPT ![k] = NoTick]
          /\ \E x \in mine : tracked' = IF x.status \in Parked THEN x.row ELSE None
       \/ /\ mine = {}
          /\ IF tracked # None /\ rows[tracked].seq = t.sequence
               THEN /\ ticks' = [ticks EXCEPT ![k].pc = "status", ![k].row = tracked,
                                              ![k].status = rows[tracked].status, ![k].runs = {}]
                    /\ UNCHANGED tracked
               ELSE tracked' = None /\ ticks' = [ticks EXCEPT ![k] = NoTick]
    /\ UNCHANGED <<ui, nav, rows, lastKey, handlers, failures>>

\* fetchSequenceStatus has answered.
TickStatus(k) ==
    LET t == ticks[k]
        key == <<t.row, t.status>> IN
    /\ t.pc = "status" /\ ticks' = [ticks EXCEPT ![k] = NoTick]
    /\ tracked' = None /\ lastKey' = key
    /\ ui' = IF key = lastKey \/ t.status \notin {"inactive", "cancelled"} THEN ui
             ELSE RunSucceeded(ui, FALSE)
    /\ UNCHANGED <<nav, rows, inFlight, handlers, failures>>

-----------------------------------------------------------------------------
(* handleRun and handleStop                                                *)

CanRun == ui.sequence # None /\ ui.valid /\ ui.run # "running"

\* handleRun up to its first await: a pending run is resumed, with the inputs shown;
\* else the sequence is composed afresh.  Bound: the run it resumes has not gone on
\* since the nav heard of it.
Run(h) ==
    /\ handlers[h].pc = "none" /\ CanRun
    /\ \A x \in Of(inFlight, ui.sequence) : x.status \notin Parked
    /\ LET paused == {x.row : x \in Of(inFlight, ui.sequence)}
           resume == ui.awaiting \/ paused # {}
           target == IF paused # {} THEN CHOOSE r \in paused : TRUE ELSE composed
           call == [NoHandler EXCEPT !.sequence = ui.sequence, !.resume = resume] IN
       \/ /\ ~resume /\ ui' = RunRequested(ParamsResolved(ui, FALSE))
          /\ \E r \in Unused : Compose(r, ui.sequence)
                              /\ handlers' = [handlers EXCEPT ![h] = [call EXCEPT !.pc = "composed", !.row = r]]
       \/ /\ resume /\ target # None /\ ui' = RunRequested(ui) /\ UNCHANGED rows
          /\ rows[target].status \in {"new", "deleted", "pending", "cancelled"}
          /\ handlers' = [handlers EXCEPT ![h] = [call EXCEPT !.pc = "execute", !.row = target]]
       \/ /\ resume /\ target = None /\ ui' = RunFailed(ui) /\ UNCHANGED <<rows, handlers>>
    /\ UNCHANGED <<nav, inFlight, poll, failures>>

\* refreshComposedSequence has answered, whatever is selected by now.
RunComposed(h) ==
    /\ handlers[h].pc = "composed" /\ handlers' = [handlers EXCEPT ![h].pc = "execute"]
    /\ composed' = handlers[h].row /\ ui' = ParamsResolved(ui, FALSE)
    /\ UNCHANGED <<loads, composing, rows, inFlight, poll, failures>>

\* run_execution; a stopped run is left alone, a row that was composed anew is not found.
Execute(h, outcome) ==
    LET r == handlers[h].row
        was == rows[r].status IN
    /\ handlers[h].pc = "execute"
    /\ \/ outcome = "cancelled" /\ was = "cancelled" /\ UNCHANGED rows
       \/ outcome = "error" /\ was = "deleted" /\ UNCHANGED rows
       \/ outcome \in {"inactive", "waiting", "pending"} /\ was \notin {"cancelled", "deleted"} /\ Becomes(r, outcome)
    /\ handlers' = [handlers EXCEPT ![h].pc = "answered", ![h].outcome = outcome]
    /\ UNCHANGED <<ui, nav, inFlight, poll, failures>>

\* Slip: a run that waits is not the end of the handler's work, and nothing says so.
AnsweredWaits(u, outcome, ok) ==
    LET v == IF outcome = "waiting" THEN u ELSE RunSucceeded(u, outcome = "pending") IN
    IF outcome = "error" THEN RunFailed(u)
    ELSE IF outcome # "pending" THEN v
    ELSE IF u.panel = "params" THEN Validated(ParamsResolved(v, TRUE), ok)
    ELSE ParamsResolved(v, TRUE)

\* The answer, whatever is selected by now; a step that waits for input reveals it,
\* and ConfigPanel's effect validates what is shown.
Answered(u, outcome, ok) ==
    LET v == RunSucceeded(u, outcome = "pending") IN
    IF outcome = "error" THEN RunFailed(u)
    ELSE IF outcome # "pending" THEN v
    ELSE IF u.panel = "params" THEN Validated(ParamsResolved(v, TRUE), ok)
    ELSE ParamsResolved(v, TRUE)

RunAnswer(h, ok) ==
    LET call == handlers[h] IN
    /\ call.pc = "answered" /\ ui' = Answered(ui, call.outcome, ok)
    /\ handlers' = [handlers EXCEPT ![h] = IF call.outcome \in {"cancelled", "error"} THEN NoHandler
                                           ELSE [NoHandler EXCEPT !.pc = "refresh", !.runs = RunsInFlight]]
    /\ UNCHANGED <<nav, rows, inFlight, poll, failures>>

\* IN_FLIGHT_UPDATED
RunRefreshed(h) ==
    /\ handlers[h].pc = "refresh" /\ inFlight' = handlers[h].runs
    /\ handlers' = [handlers EXCEPT ![h] = NoHandler]
    /\ UNCHANGED <<ui, nav, rows, poll, failures>>

\* A request of handleRun fails.
RunFails(h) ==
    /\ handlers[h].pc \in {"composed", "execute", "answered"} /\ Failed
    /\ handlers' = [handlers EXCEPT ![h] = NoHandler] /\ ui' = RunFailed(ui)
    /\ UNCHANGED <<nav, rows, inFlight, poll>>

\* handleStop, on the run the nav knows of or on all of the sequence's; request_state_cancel.
Stop(h) ==
    LET known == Of(inFlight, ui.sequence)
        ofSequence == {r \in Rows : rows[r].seq = ui.sequence} IN
    /\ handlers[h].pc = "none" /\ ui.sequence # None /\ (ui.awaiting \/ known # {})
    /\ \E targets \in (IF known = {} THEN {ofSequence} ELSE {{x.row} : x \in known}) :
          rows' = [r \in Rows |-> IF r \in targets /\ rows[r].status \in InFlight
                                    THEN [rows[r] EXCEPT !.status = "cancelled"] ELSE rows[r]]
    /\ handlers' = [handlers EXCEPT ![h] = [NoHandler EXCEPT !.pc = "stopped", !.runs = RunsInFlight']]
    /\ UNCHANGED <<ui, nav, inFlight, poll, failures>>

Stopped(h) ==
    /\ handlers[h].pc = "stopped" /\ inFlight' = handlers[h].runs
    /\ handlers' = [handlers EXCEPT ![h] = NoHandler]
    /\ tracked' = None /\ ui' = RunSucceeded(ui, FALSE)
    /\ UNCHANGED <<nav, rows, ticks, lastKey, failures>>

-----------------------------------------------------------------------------
Select == (\E s \in Sequences : SelectSequence(s)) \/ SelectAgain

Loading == \E q \in loads : LoadArrives(q)
Composing == \E r \in composing : ComposeArrives(r)

Server(r) == Wake(r) \/ \E status \in {"inactive", "waiting", "pending"} : Work(r, status)

Polling(k) == Tick(k) \/ TickRuns(k) \/ TickStatus(k)

Handling(h) ==
    \/ RunComposed(h) \/ RunRefreshed(h) \/ Stopped(h)
    \/ \E ok \in BOOLEAN : RunAnswer(h, ok)
    \/ \E outcome \in {"inactive", "waiting", "pending", "cancelled", "error"} : Execute(h, outcome)

Next ==
    \/ Select \/ OpenPanel \/ StayOnPanel \/ Loading \/ Composing
    \/ (\E s \in Sequences : ComposedElsewhere(s))
    \/ (\E ok \in BOOLEAN : EditParams(ok)) \/ (\E r \in Rows : Server(r)) \/ (\E k \in Ticks : Polling(k))
    \/ (\E h \in Handlers : Run(h) \/ Stop(h) \/ Handling(h) \/ RunFails(h))

Spec == Init /\ [][Next]_vars

\* Requests are answered, and the interval fires.
Fairness ==
    /\ WF_vars(Loading) /\ \A k \in Ticks : WF_vars(Polling(k))
    /\ \A h \in Handlers : WF_vars(Handling(h))

FairSpec == Spec /\ Fairness

-----------------------------------------------------------------------------
\* What is open, by the field that says so.
Workspaces(u) ==
    {p \in {"sequence", "event", "console"} : u[p] # None}
    \cup {p \in {"createSequence", "createEvent", "spacePanel"} : u[p]}

OneOpen(u) == \A p, q \in Workspaces(u) : p = q

PanelIsOpen(u) ==
    /\ u.panel = "params" => u.sequence # None
    /\ u.panel = "event" => u.event # None \/ u.createEvent
    /\ u.panel = "space" => u.spacePanel
    /\ u.panel = "inspect" => u.inspected /\ u.sequence # None

\* The views exclude each other: however they are opened and left, at most one of a
\* sequence, an event, a console, the two builders and the settings is open, and the
\* panel beside it is about something open.
OneWorkspaceOpen == OneOpen(ui) /\ PanelIsOpen(ui)

\* The step flow shown is that of the selected sequence: the answer of a selection that
\* was left changes nothing (the effects' cancelled flag).
DefinitionIsSelected == ui.definition # None => ui.definition = ui.sequence

\* The run button does not stay on "running...".
RunSettles == ui.run = "running" ~> ui.run # "running"
=============================================================================
