--------------------------- MODULE WorkbenchProofs ---------------------------
(***************************************************************************)
(* Theorems about Workbench for any sequences, events, consoles, polls and *)
(* runs: at most one workspace is open, and the step flow shown is that of *)
(* the selected sequence.                                                  *)
(***************************************************************************)
EXTENDS Workbench, TLAPS

-----------------------------------------------------------------------------
(* The reducer                                                             *)

\* Two views are never open at once, field by field.
Exclusive(u) ==
    /\ u.sequence # None =>
          u.event = None /\ u.console = None /\ ~u.createSequence /\ ~u.createEvent /\ ~u.spacePanel
    /\ u.event # None =>
          u.console = None /\ ~u.createSequence /\ ~u.createEvent /\ ~u.spacePanel
    /\ u.console # None => ~u.createSequence /\ ~u.createEvent /\ ~u.spacePanel
    /\ u.createSequence => ~u.createEvent /\ ~u.spacePanel
    /\ u.createEvent => ~u.spacePanel

\* That is what OneOpen says.
LEMMA OneIsExclusive == ASSUME NEW u \in Ui PROVE OneOpen(u) <=> Exclusive(u)
  BY DEF OneOpen, Workspaces, Exclusive, Ui

\* What holds of the screen.
Shown(u) ==
    /\ u \in Ui /\ Exclusive(u) /\ PanelIsOpen(u)
    /\ u.inspected => u.sequence # None
    /\ u.definition # None => u.definition = u.sequence

\* What a step leaves of the screen: the workspace is the same.
Same(u, v) == v.sequence = u.sequence /\ v.definition = u.definition

\* The parts of the screen that runs leave alone.
Screen(u) == <<u.sequence, u.event, u.console, u.createSequence, u.createEvent, u.spacePanel, u.inspected,
               u.panel, u.definition>>

\* The rest of the state does not matter.
LEMMA SameScreen ==
  ASSUME NEW u, Shown(u), NEW v \in Ui, Screen(v) = Screen(u)
  PROVE  Shown(v) /\ Same(u, v)
  BY DEF Shown, Exclusive, PanelIsOpen, Same, Screen

\* What the views do before they open: nothing is left open, and the inputs start over.
LEMMA Cleared ==
  ASSUME NEW u \in Ui
  PROVE  /\ NoSequence(u) \in Ui /\ FreshRun(u) \in Ui /\ Alone(u) \in Ui
         /\ LET v == NoSequence(u) IN v.sequence = None /\ v.definition = None /\ ~v.inspected
         /\ \A v \in {FreshRun(u), Alone(u)} :
               v.sequence = u.sequence /\ v.definition = u.definition /\ v.inspected = u.inspected
         /\ LET v == Alone(u) IN
               v.event = None /\ v.console = None /\ ~v.createSequence /\ ~v.createEvent /\ ~v.spacePanel
  BY DEF Ui, NoSequence, FreshRun, Alone

\* An empty screen.
Empty(u) ==
    /\ u \in Ui /\ u.sequence = None /\ u.definition = None /\ ~u.inspected
    /\ u.event = None /\ u.console = None /\ ~u.createSequence /\ ~u.createEvent /\ ~u.spacePanel

\* Every view starts from one.
LEMMA Emptied ==
  ASSUME NEW u \in Ui
  PROVE  Empty(Alone(NoSequence(u))) /\ Empty(Alone(FreshRun(NoSequence(u))))
  BY Cleared DEF Empty

\* The views leave a good screen good.
LEMMA SequenceSelectedShown ==
  ASSUME Shown(ui), NEW s \in Sequences
  PROVE  /\ Shown(SequenceSelected(s)) /\ SequenceSelected(s).sequence = s
         /\ s # ui.sequence => SequenceSelected(s).definition = None
  <1>1. CASE ui.sequence = s
    BY <1>1 DEF SequenceSelected
  <1>2. CASE ui.sequence # s
    <2> DEFINE u == Alone(FreshRun(NoSequence(ui)))
    <2>1. Empty(u)
      BY Emptied DEF Shown
    <2>2. SequenceSelected(s) = [u EXCEPT !.sequence = s, !.loading = s \notin OneStep, !.panel = "params"]
      BY <1>2 DEF SequenceSelected
    <2> HIDE DEF u
    <2>3. SequenceSelected(s) \in Ui
      BY <2>1, <2>2 DEF Empty, Ui
    <2>4. /\ Screen(SequenceSelected(s)) = Screen([u EXCEPT !.sequence = s, !.panel = "params"])
          /\ SequenceSelected(s).sequence = s
      BY <2>1, <2>2 DEF Empty, Ui, Screen
    <2>5. Shown([u EXCEPT !.sequence = s, !.panel = "params"])
      BY <2>1, WorkbenchAssumption DEF Empty, Ui, Shown, Exclusive, PanelIsOpen
    <2> QED BY <1>2, <2>1, <2>3, <2>4, <2>5, SameScreen DEF Screen, Empty, Ui
  <1> QED BY <1>1, <1>2

\* A panel replaces the sequence.
Replaces(u) == Shown(u) /\ u.sequence = None /\ u.definition = None

\* Every panel does.
LEMMA PanelsReplace ==
  ASSUME Shown(ui)
  PROVE  /\ Replaces(OpenBuilder) /\ Replaces(CreateSequenceOpened) /\ Replaces(CreateEventOpened)
         /\ Replaces(SpacePanelOpened) /\ Replaces(AuditLogOpened)
         /\ \A e \in Events : Replaces(EventSelected(e))
         /\ \A c \in Consoles : Replaces(ConsoleSelected(c))
  <1>0. Empty(Alone(NoSequence(ui))) /\ Empty(Alone(FreshRun(NoSequence(ui))))
    BY Emptied DEF Shown
  <1> USE <1>0, WorkbenchAssumption DEF Empty, Replaces, Shown, Ui, Exclusive, PanelIsOpen
  <1>1. Replaces(OpenBuilder)
    BY DEF OpenBuilder
  <1>2. Replaces(CreateSequenceOpened)
    BY DEF CreateSequenceOpened
  <1>3. Replaces(CreateEventOpened)
    BY DEF CreateEventOpened
  <1>4. Replaces(SpacePanelOpened)
    BY DEF SpacePanelOpened
  <1>5. Replaces(AuditLogOpened)
    BY DEF AuditLogOpened
  <1>6. ASSUME NEW e \in Events PROVE Replaces(EventSelected(e))
    BY DEF EventSelected
  <1>7. ASSUME NEW c \in Consoles PROVE Replaces(ConsoleSelected(c))
    BY DEF ConsoleSelected
  <1> QED BY <1>1, <1>2, <1>3, <1>4, <1>5, <1>6, <1>7

\* Inspecting, closing and deselecting keep the sequence.
LEMMA PanelShown ==
  ASSUME Shown(ui),
         NEW v, \/ v = VisualElementClicked /\ ui.sequence # None
                \/ v \in {InspectClosed, SpacePanelClosed, EventDeselected, ConsoleDeselected}
  PROVE  Shown(v) /\ Same(ui, v)
  <1> USE WorkbenchAssumption DEF Shown, Ui, Exclusive, PanelIsOpen, Same
  <1>1. CASE v = VisualElementClicked /\ ui.sequence # None
    BY <1>1 DEF VisualElementClicked
  <1>2. CASE v = InspectClosed
    BY <1>2 DEF InspectClosed, WithPanel, NextRightPanelMode
  <1>3. CASE v = SpacePanelClosed
    <2> DEFINE w == [ui EXCEPT !.spacePanel = FALSE]
    <2>1. w \in Ui /\ Exclusive(w) /\ (w.inspected => w.sequence # None) /\ ~w.spacePanel
          /\ Same(ui, w)
      OBVIOUS
    <2>2. v = [w EXCEPT !.panel = NextRightPanelMode(w)]
      BY <1>3 DEF SpacePanelClosed, WithPanel
    <2> HIDE DEF w
    <2>3. NextRightPanelMode(w) \in {"builder", "params", "inspect", "event"}
          /\ (NextRightPanelMode(w) = "params" => w.sequence # None)
          /\ (NextRightPanelMode(w) = "event" => w.event # None \/ w.createEvent)
          /\ (NextRightPanelMode(w) = "inspect" => w.inspected)
      BY <2>1 DEF NextRightPanelMode
    <2> QED BY <2>1, <2>2, <2>3
  <1>4. CASE v = EventDeselected
    BY <1>4 DEF EventDeselected
  <1>5. CASE v = ConsoleDeselected
    BY <1>5 DEF ConsoleDeselected
  <1> QED BY <1>1, <1>2, <1>3, <1>4, <1>5

\* Runs and their inputs touch nothing of it.
LEMMA RunShown ==
  ASSUME NEW u, Shown(u), NEW flag \in BOOLEAN
  PROVE  /\ Shown(RunRequested(u)) /\ Same(u, RunRequested(u))
         /\ Shown(RunSucceeded(u, flag)) /\ Same(u, RunSucceeded(u, flag))
         /\ Shown(RunFailed(u)) /\ Same(u, RunFailed(u))
         /\ Shown(ParamsResolved(u, flag)) /\ Same(u, ParamsResolved(u, flag))
         /\ Shown(Validated(u, flag)) /\ Same(u, Validated(u, flag))
  <1>0. u \in Ui
    BY DEF Shown
  <1>1. RunRequested(u) \in Ui /\ Screen(RunRequested(u)) = Screen(u)
    BY <1>0 DEF RunRequested, Ui, Screen
  <1>2. RunSucceeded(u, flag) \in Ui /\ Screen(RunSucceeded(u, flag)) = Screen(u)
    BY <1>0 DEF RunSucceeded, Ui, Screen
  <1>3. RunFailed(u) \in Ui /\ Screen(RunFailed(u)) = Screen(u)
    BY <1>0 DEF RunFailed, Ui, Screen
  <1>4. ParamsResolved(u, flag) \in Ui /\ Screen(ParamsResolved(u, flag)) = Screen(u)
    BY <1>0 DEF ParamsResolved, Ui, Screen
  <1>5. Validated(u, flag) \in Ui /\ Screen(Validated(u, flag)) = Screen(u)
    BY <1>0 DEF Validated, Ui, Screen
  <1> QED BY <1>1, <1>2, <1>3, <1>4, <1>5, SameScreen

-----------------------------------------------------------------------------
(* The invariant                                                           *)

\* A request that was not cancelled is the selected sequence's.
LoadsOwn == /\ loads \subseteq Sequences \X BOOLEAN
            /\ \A q \in loads : q[2] \/ q[1] = ui.sequence

IInv == Shown(ui) /\ LoadsOwn

\* Init establishes it.
LEMMA InitInv == Init => IInv
  BY WorkbenchAssumption DEF Init, IInv, Shown, Ui, Exclusive, PanelIsOpen, LoadsOwn

\* Cancelling leaves no request that counts.
LEMMA CancelAll ==
  ASSUME LoadsOwn
  PROVE  Cancel(loads) \subseteq Sequences \X BOOLEAN /\ \A q \in Cancel(loads) : q[2]
  <1> SUFFICES ASSUME NEW q \in Cancel(loads) PROVE q \in Sequences \X BOOLEAN /\ q[2]
    OBVIOUS
  <1>1. PICK p \in loads : q = <<p[1], TRUE>>
    BY DEF Cancel
  <1>2. p[1] \in Sequences
    BY DEF LoadsOwn
  <1> QED BY <1>1, <1>2

\* A step that keeps the sequence and the requests keeps the invariant.
LEMMA Kept ==
  ASSUME IInv, Shown(ui'), Same(ui, ui'), loads' = loads
  PROVE  IInv'
  BY DEF IInv, LoadsOwn, Same

\* Another sequence.
LEMMA SelectStep == IInv /\ Select => IInv'
  <1> SUFFICES ASSUME IInv, Select PROVE IInv'
    OBVIOUS
  <1>1. ASSUME NEW s \in Sequences, SelectSequence(s) PROVE IInv'
    <2>1. Shown(ui') /\ ui'.sequence = s
      BY <1>1, SequenceSelectedShown DEF SelectSequence, IInv
    <2>2. loads' \subseteq Cancel(loads) \cup {<<s, FALSE>>}
      BY <1>1 DEF SelectSequence
    <2>3. \A q \in loads' : q \in Sequences \X BOOLEAN /\ (q[2] \/ q[1] = s)
      <3>1. LoadsOwn
        BY DEF IInv
      <3>2. <<s, FALSE>> \in Sequences \X BOOLEAN /\ <<s, FALSE>>[1] = s
        OBVIOUS
      <3> QED BY <2>2, <3>1, <3>2, CancelAll
    <2> QED BY <2>1, <2>3 DEF IInv, LoadsOwn
  <1>2. CASE SelectAgain
    BY <1>2, Kept DEF SelectAgain, SequenceSelected, nav, IInv, Same
  <1> QED BY <1>1, <1>2 DEF Select

\* Another panel.
LEMMA OpenStep == IInv /\ OpenPanel => IInv'
  <1> SUFFICES ASSUME IInv, OpenPanel PROVE IInv'
    OBVIOUS
  <1>1. ASSUME NEW p, NEW next, Open(p, next), Replaces(next) PROVE IInv'
    <2>1. Shown(ui') /\ ui'.sequence = None /\ ui' = next
      BY <1>1 DEF Open, Replaces
    <2>2. CASE ui.sequence = None
      <3>1. loads' = loads
        BY <1>1, <2>2 DEF Open
      <3> QED BY <2>1, <2>2, <3>1 DEF IInv, LoadsOwn
    <2>3. CASE ui.sequence # None
      <3>1. loads' = Cancel(loads)
        BY <1>1, <2>3 DEF Open, Leave
      <3> QED BY <2>1, <3>1, CancelAll DEF IInv, LoadsOwn
    <2> QED BY <2>2, <2>3
  <1>2. Shown(ui)
    BY DEF IInv
  <1> QED BY <1>1, <1>2, PanelsReplace DEF OpenPanel

\* A step flow arrives.
LEMMA LoadStep == IInv /\ Loading => IInv'
  <1> SUFFICES ASSUME IInv, NEW q \in loads, LoadArrives(q) PROVE IInv'
    BY DEF Loading
  <1>1. loads' \subseteq loads /\ q[1] \in Sequences /\ (q[2] \/ q[1] = ui.sequence)
    BY DEF LoadArrives, IInv, LoadsOwn
  <1>2. Shown(ui') /\ ui'.sequence = ui.sequence
    BY <1>1 DEF LoadArrives, IInv, Shown, Ui, Exclusive, PanelIsOpen
  <1> QED BY <1>1, <1>2 DEF IInv, LoadsOwn

\* The rest of the panel.
LEMMA PanelStep == IInv /\ StayOnPanel => IInv'
  <1> SUFFICES ASSUME IInv, StayOnPanel PROVE IInv'
    OBVIOUS
  <1>1. Shown(ui)
    BY DEF IInv
  <1>2. Shown(ui') /\ Same(ui, ui')
    BY <1>1, PanelShown DEF StayOnPanel, Panel
  <1>3. loads' = loads
    BY DEF StayOnPanel, Panel, nav
  <1> QED BY <1>2, <1>3, Kept

\* The poll.
LEMMA PollStep == ASSUME IInv, NEW k \in Ticks, Polling(k) PROVE IInv'
  <1>1. loads' = loads
    BY DEF Polling, Tick, TickRuns, TickStatus, nav
  <1>2. ui' = ui \/ ui' = RunSucceeded(ui, FALSE)
    BY DEF Polling, Tick, TickRuns, TickStatus
  <1>3. Shown(ui') /\ Same(ui, ui')
    BY <1>2, RunShown DEF IInv, Same
  <1> QED BY <1>1, <1>3, Kept

\* The handlers of runs.
LEMMA HandlerStep ==
  ASSUME IInv, NEW h \in Handlers, Run(h) \/ Stop(h) \/ Handling(h) \/ RunFails(h)
  PROVE  IInv'
  <1>0. Shown(ui) /\ \A u : Same(u, u)
    BY DEF IInv, Same
  <1>1. CASE Run(h)
    <2>1. \/ ui' = RunRequested(ParamsResolved(ui, FALSE)) \/ ui' = RunRequested(ui)
          \/ ui' = RunFailed(ui)
      BY <1>1 DEF Run
    <2>2. Shown(ParamsResolved(ui, FALSE)) /\ Same(ui, ParamsResolved(ui, FALSE))
      BY <1>0, RunShown
    <2>3. /\ Shown(RunRequested(ParamsResolved(ui, FALSE)))
          /\ Same(ParamsResolved(ui, FALSE), RunRequested(ParamsResolved(ui, FALSE)))
      BY <2>2, RunShown
    <2>4. Shown(RunRequested(ui)) /\ Same(ui, RunRequested(ui)) /\ Shown(RunFailed(ui)) /\ Same(ui, RunFailed(ui))
      BY <1>0, RunShown
    <2>5. Shown(ui') /\ Same(ui, ui')
      BY <2>1, <2>2, <2>3, <2>4 DEF Same
    <2> QED BY <1>1, <2>5, Kept DEF Run, nav
  <1>2. CASE Stop(h) \/ Stopped(h) \/ RunRefreshed(h) \/ RunFails(h)
    <2>1. ui' = ui \/ ui' = RunSucceeded(ui, FALSE) \/ ui' = RunFailed(ui)
      BY <1>2 DEF Stop, Stopped, RunRefreshed, RunFails
    <2>2. Shown(ui') /\ Same(ui, ui')
      BY <1>0, <2>1, RunShown
    <2>3. loads' = loads
      BY <1>2 DEF Stop, Stopped, RunRefreshed, RunFails, nav
    <2> QED BY <2>2, <2>3, Kept
  <1>3. CASE RunComposed(h)
    <2>1. Shown(ui') /\ Same(ui, ui')
      BY <1>0, <1>3, RunShown DEF RunComposed
    <2> QED BY <1>3, <2>1, Kept DEF RunComposed
  <1>4. ASSUME NEW ok \in BOOLEAN, RunAnswer(h, ok) PROVE IInv'
    <2> DEFINE w == handlers[h].outcome = "pending"
               v == RunSucceeded(ui, w)
    <2>1. Shown(v) /\ Same(ui, v)
      BY <1>0, RunShown
    <2>2. Shown(ParamsResolved(v, TRUE)) /\ Same(v, ParamsResolved(v, TRUE))
      BY <2>1, RunShown
    <2>3. /\ Shown(Validated(ParamsResolved(v, TRUE), ok))
          /\ Same(ParamsResolved(v, TRUE), Validated(ParamsResolved(v, TRUE), ok))
      BY <2>2, RunShown
    <2>4. Shown(RunFailed(ui)) /\ Same(ui, RunFailed(ui))
      BY <1>0, RunShown
    <2>5. ui' \in {RunFailed(ui), v, ParamsResolved(v, TRUE), Validated(ParamsResolved(v, TRUE), ok)}
      BY <1>4 DEF RunAnswer, Answered
    <2>6. Shown(ui') /\ Same(ui, ui')
      BY <2>1, <2>2, <2>3, <2>4, <2>5 DEF Same
    <2> QED BY <1>4, <2>6, Kept DEF RunAnswer, nav
  <1>5. ASSUME NEW outcome, Execute(h, outcome) PROVE IInv'
    BY <1>0, <1>5, Kept DEF Execute, nav
  <1> QED BY <1>1, <1>2, <1>3, <1>4, <1>5 DEF Handling

\* Every step keeps the invariant.
LEMMA InvStep == IInv /\ [Next]_vars => IInv'
  <1> SUFFICES ASSUME IInv, [Next]_vars PROVE IInv'
    OBVIOUS
  <1>0. Shown(ui) /\ \A u : Same(u, u)
    BY DEF IInv, Same
  <1>1. CASE Select \/ OpenPanel \/ StayOnPanel \/ Loading
    BY <1>1, SelectStep, OpenStep, PanelStep, LoadStep
  <1>2. CASE Composing
    <2>1. ui' = ui \/ ui' = ParamsResolved(ui, FALSE)
      BY <1>2 DEF Composing, ComposeArrives
    <2>2. Shown(ui') /\ Same(ui, ui')
      BY <1>0, <2>1, RunShown
    <2> QED BY <1>2, <2>2, Kept DEF Composing, ComposeArrives
  <1>3. ASSUME NEW ok \in BOOLEAN, EditParams(ok) PROVE IInv'
    <2>1. Shown(ui') /\ Same(ui, ui')
      BY <1>0, <1>3, RunShown DEF EditParams
    <2> QED BY <1>3, <2>1, Kept DEF EditParams, nav
  <1>4. ASSUME NEW r \in Rows, Server(r) PROVE IInv'
    <2>1. ui' = ui /\ loads' = loads
      BY <1>4 DEF Server, Wake, Work, nav
    <2> QED BY <1>0, <2>1, Kept
  <1>5. ASSUME NEW s \in Sequences, ComposedElsewhere(s) PROVE IInv'
    <2>1. ui' = ui /\ loads' = loads
      BY <1>5 DEF ComposedElsewhere, nav
    <2> QED BY <1>0, <2>1, Kept
  <1>6. CASE UNCHANGED vars
    BY <1>0, <1>6, Kept DEF vars
  <1> QED BY <1>1, <1>2, <1>3, <1>4, <1>5, <1>6, PollStep, HandlerStep DEF Next

-----------------------------------------------------------------------------
\* Theorem: however views are opened and left and whatever answers arrive meanwhile, at most
\* one workspace is open and the right panel is about something open (reducer.ts).
THEOREM WorkbenchOneOpen == Spec => []OneWorkspaceOpen
  <1>1. IInv => OneWorkspaceOpen
    BY OneIsExclusive DEF IInv, Shown, OneWorkspaceOpen
  <1> QED BY <1>1, InitInv, InvStep, PTL DEF Spec

\* Theorem: the step flow shown is the selected sequence's, because leaving a selection
\* cancels its requests (useSequenceNav.ts).
THEOREM WorkbenchShowsSelected == Spec => []DefinitionIsSelected
  <1>1. IInv => DefinitionIsSelected
    BY DEF IInv, Shown, DefinitionIsSelected
  <1> QED BY <1>1, InitInv, InvStep, PTL DEF Spec
=============================================================================
