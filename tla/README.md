# pona-flow in TLA+

TLA+ models of the parts of pona-flow in which order, crashes and concurrent writers decide
whether the program is right: the executor that walks a composed sequence, the `state` rows it
shares with the scheduler and the stop and purge functions, the scheduler's time events and its
embedding sweep, simulated events with their sessions, the chat between the browser and the agent's
turns, the workbench that selects, runs and polls sequences, and the control plane that provisions, suspends and deletes hosted
instances. TLC checks them on small instances, TLAPS proves the central invariants and one
refinement for every value of the constants. File and line references are to the repository
(`src/` is its root).

## 1. Inventory

### Engine/server: running sequences

| Component | State | Operations | What makes it correct |
|---|---|---|---|
| Executor (`execution_run.py`) | in memory: queue, visited, arrivals, minted ids, derived names, loop state, attempts; on the row: `progress` (a snapshot of most of it), `status`, `result` | start, resume, pretest, ask, park, mint, call, retry, advance, next pass, finish, error | a step runs once per pass; a snapshot loses nothing that must survive and keeps nothing that must not; every run ends |
| Join barrier (`execution_join.py`) | arrivals, queue | `enqueue_from`, `_flush_ready_joins`, `reject_join_policy` | a join runs after all its arms, and does run |
| Waits (`execution_wait.py`) | `progress.wait` | park, due, complete | a wait is served once, by its own wait |
| Call retry (`execution_call.py`) | attempts: a local, and the snapshot for backoff | retry now, retry after a park | tries stay in the budget across both |
| Loops (`execution_loop.py`) | iteration, latched items | find the body, test at entry and tail, limits, delay | exact number of passes, each from the entry |
| State rows (`catalog.py`) | table `state` | one connection and commit per function | invariants over several functions, which no transaction protects |
| Stop, purge, finish (`catalog.py`, `execution_run.py`, `routes/execution.py`) | status, progress, result | read-then-write sequences | a stopped row stays stopped; polling sees a result; no needed row is purged |
| Scheduler (`scheduler.py`, `triggers.py`) | events' timers, wake flag, parked rows | `_tick`, start-up recovery, wake due waits, release event waiters | due things happen once, late edits are seen, crashes lose nothing |
| Embedding sweep (`scheduler.py`, `embeddings.py`) | `_pending` and `_wake` of the job; vectors and stale marks in the graph | request, interval, a walk over pages of pending records | a request is served, the walk ends, what is pending is embedded |
| External triggers, webhooks, MCP gateway | none of their own | match a payload, start or resume runs | each request reaches the executor as one call |
| Composition (`execution_compose.py`, `execution_operation.py`) | none | declaration to package | packages obey the policy the executor assumes |
| Simulation (`simulation.py`, `routes/simulation.py`) | sessions (tic, status), emissions, a lock per session in memory | create, name, tic, clear error, delete | one tic at a time, each once; an error stops the clock; a name that waits for a tic ends |
| Spaces, members, schema workflow, templates, credentials, reset, self-update | SQLite rows, Neo4j, a marker file | CRUD and multi-store sequences | last owner kept, imports resumable, no half-applied rewrite |
| Chat (`chat_agent.py`, `chat_apply.py`, `chat_store.py`, `routes/chat.py`) | `chat_threads`, messages with proposed batches, one OS thread per turn | start a turn, stream it, accept in phases, reject | one turn at a time, one pending batch, each item applied once |
| Authentication, consoles | rows and in-memory maps | request handlers | mostly sequential |

Threads: `async def` handlers (run, stop, webhook, MCP, external events) run on the event loop's
thread, and since the executor never awaits, one after another; the scheduler's tick runs in a
worker thread (`asyncio.to_thread`); plain `def` routes run on a pool. They meet only in the
database, each catalog function being its own connection and transaction.

### control_plane: hosted instances

| Component | State | Operations | What makes it correct |
|---|---|---|---|
| Instance lifecycle (`lifecycle.py`, `app.py`, `provision.py`, `scheduler.py`, `db.py`) | table `instances`, `stripe_events`; apps at Fly | create, upgrade, Stripe webhook, presence, provisioning job, tick | what is paid stays up, what is not goes, nothing marked deleted is left |
| Billing, Fly client | none | HTTP calls | external |
| Mail, guide | none | HTTP calls, text | not a matter of order |

### App/ui: the browser

| Component | State | Operations | What makes it correct |
|---|---|---|---|
| Chat (`chat/useChatSession.ts`) | open thread, draft, queue, streaming and busy flags | send, queue, poll, accept, reject, follow up | a message goes out once, what is shown settles |
| Workbench (`App.tsx`, `state/reducer.ts`, `hooks/useSequenceNav.ts`) | selection, panel, definition, run, composed row, tracked row | select, load, compose, run, stop, poll | one workspace open, late answers change nothing, a run does not stay "running" |
| Builders, consoles, graph views, wizard | forms | one request at a time | not a matter of order |

The TypeScript packages `authoring`, `composer`, `connector` and `mcp` are pure transformations of a
declaration into Cypher and SQL text, and protocol glue.

### Hard behaviours

Interleaved read-then-write sequences on one row; snapshots that must be neither too small nor too
large; a barrier over a queue that drops duplicates; crashes between any two writes; state read
before an `await` or before minutes of provisioning; answers that arrive after the selection has
changed; streams cut while the turn behind them goes on; events of Stripe in any order. `PROJECT.json`
lists each as a hazard at its line, with the properties that cover it or the reason none does.

## 2. Plan

What exists, in the order of its importance:

1. `StepWalk`: one runner walks one package. Proofs in `StepWalkProofs`.
2. `RunRow`: rows, all their writers and the scheduler's wake-ups. Proofs in `RunRowProofs`.
3. `EventClock`: time events, shown to implement the abstract `EventPromise`; proofs, the refinement
   among them, in `EventClockProofs`.
4. `ReindexJob`: the embedding sweep and its writers. Proofs in `ReindexProofs`.
5. `ChatSession`: the chat, browser and server. Proofs in `ChatProofs`.
6. `Workbench`: selection, loads, runs and polls of the browser. Proofs in `WorkbenchProofs`.
7. `FleetInstance`: hosted instances. Proofs in `FleetProofs`.
8. `SimulationSession`: simulated events. Proofs in `SimulationProofs`.

What is left:

- `RowLifecycle`, what a caller of the API may observe of a row (idle, running, parked, over with a
  result), which `RunRow` with one thread is to implement; `BarrierSpec`, the join barrier as "run
  when every offering arm has come", to be implemented by `StepWalk` on plain arms.
- `SpaceMembers` (the last-owner guard), `TemplateImport` (the resumable plan), `LoopAnalysis`
  (`find_back_edges` and `cycle_body` as functions against a reference definition).
- Theorems: every safety invariant and every action property of a passing run has one. Next are the
  refinements above.

## 3. The modules

### StepWalk (with WalkPackages, MCStepWalk)

`run_execution` as a walk over a package. A package is a record: kind of each step, its possible
routes (each a list that `_passing_targets` can return), which steps ask a person, mint ids, how
many tries they have and whether they back off, and the loop. `PackagesComposed` states what
composition guarantees. `WalkPackages` builds such records from graphs; `MCStepWalk` gives families.

| Variable | Code |
|---|---|
| `walk` | the locals a snapshot keeps (`queue`, `visited`, `arrivals`, `minted`, `derived`, loop state, `wait`), with history fields `trace`, `tries`, `waited` |
| `retry`, `local` | `retry_attempt_by_step` and the locals of one pass through `while queue`, which no snapshot keeps |
| `saved`, `status`, `result` | `state.progress`, `state.status`, `state.result` |
| `phase` | no runner, the head of `while queue`, or in a call |
| `nextId`, `effects` | fresh ids, and the graph writes called for |

One action per way through the loop body: `DropVisited`, `SkipLoop`, `AskOperator`, `ParkWait`,
`RejectPolicy`, `Call` (with the snapshot before it), then the outcome `StepRaises`,
`OperationFails`, `RetryNow`, `RetryLater`, `StepDone`, `LoopLimit`, `NextPass`, `NextPassLater`;
`Finish`; `StartFresh`, `Resume`, `Crash`, `WaitDue`. Cypher, HTTP, parameters and conditions are
their outcomes.

### RunRow (with MCRunRow)

Rows, threads and a chain of steps. Each catalog call is one action; a thread's `pc` names the call
it is about to make. `Read`, `Claim`, `Check`, `SaveMinted`, `Execute`, `SaveAndLeave`,
`LeaveStatus`, `RaiseStatus`, `RaiseResult`, `FinishResult`, `FinishClear`, `FinishStatus` are
`run_execution` with `_park_waiting` and `_finish_run`; `PurgeSelect`, `PurgeDelete` the purge that
follows a finish; `StopRead` to `StopStatus` are `request_state_cancel`; `Wake`, `Fire`, `NextRow`,
`Release` the scheduler. `Crash` ends every thread. The walk inside a pass is `StepWalk`'s subject:
a chain with one step of each kind is enough for the writes between steps, which do not depend on
routing.

### FleetInstance

Instance rows, the apps at Fly and Stripe's news. `loop` is the handler the event loop is in,
`report` a presence handler that has read its row and awaits its body, `job[r]` the row's
provisioning, `modes` the `_resume` and `_resume_stop` threads, `tick` the scheduler. Rows hold
tier, status, subscription, dates as none, ahead or past, whether machine and volume ids are stored,
whether there are events, and `sleep_allowed`. Fly and Stripe are external: an app without a machine
answers a mode change with an error, deleting what is not there is an error for an app and none for a
volume, a paid session and an ended subscription become events delivered in any order.
Days pass only while nothing is under way and all of Stripe's events have been answered: jobs take
minutes and Stripe repeats an event for three days, the periods are weeks; an open checkout session
does not outlive them. `UpgradeFrom` are the statuses in which the wizard's page shows the upgrade
button (`App/ui/src/guide/Wizard.tsx:467`). Self-hosted and local rows are left out: no other thread
touches them.

### EventClock (with EventPromise, MCClock)

The thread of `scheduler.py` that serves time events, its restarts and the routes that edit events.

| Variable | Code |
|---|---|
| `table` | the rows of `events`: deleted, off or on; the minutes the rule names; `next_activation` |
| `pc`, `recovering`, `now`, `todo`, `seen`, `event` | where `_startup_recovery` or `_tick` is, its `now`, and the list of events it read once |
| `wake` | `Scheduler._wake` |
| `parked` | events that runs wait for (their rows are `RunRow`'s) |
| `begun`, `times` | history: what has run since the timer was written, and how often for a minute |
| `overwritten` | history: events whose timer was last written from a row older than the table's |

`Start`, `Clear`, `List`, `Take`, `Fire`, `Store`, `Release`, `Done`, `Wakes` are the loop; recovery
fires, releases and then stores, a tick fires, stores and then releases. `Edit` is `events_upsert` and
`events_delete`, between any two steps of a tick (no request is served before the lifespan's start-up,
and so recovery, is over); `Fail` a catalog call that raises, `Crash` the end of the process.

`EventPromise` is the abstract specification: an event is armed for a minute its rule names, its run
begins at that minute or later, and what was armed is given up only once its run has begun or for a
minute no later. It knows nothing of lists, flags, restarts. `EventClock` implements it with

| EventPromise | EventClock |
|---|---|
| `rule` | the row's minutes while it is on, none otherwise (`RuleOf`) |
| `armed` | the timer if the rule names it, else `None` (`ArmedAt`): a timer computed from an older version of the row arms nothing |
| `served` | armed, and the run has begun since the timer was written (`ServedAt`) |

### ReindexJob (with MCReindex)

`EmbeddingReindexJob._run` (`pending`, `wake`, `pc`), `reindex_label` with `only_stale` (`seen`, `page`,
`at`, `streak`) and the writers that change records, mark vectors as stale and ask for a sweep
(`writer`). A text is the number of its version, a vector the version it was made of. `Update`,
`MarkStale`, `RequestSweep` are the three statements of a write; `Top`, `Woken` the job's loop;
`ReadPage`, `NextRow`, `WriteVector`, `EmbedFails`, `SweepFails` the walk; `Restart` a new process.

### ChatSession (with MCChat)

The browser's hook, the handlers it calls and the threads that run turns, for one user and one tab. A
step is what runs between two awaits: a function goes on with what it captured when it was called
(`streams`, `task`, `fetch`), except for the open thread, which it reads from a ref (`tid`).

| Variable | Code |
|---|---|
| `db` | `chat_threads` and their messages: `turn_status`, what was said, the proposed batches with how often their settings and their rest were applied |
| `turns` | the OS threads `start_turn` spawned, each with the stream that listens to it |
| `tid`, `pending`, `status`, `draft`, `queued`, `streaming`, `batchBusy`, `opener` | the hook's state |
| `streams` | `send` under way: from the composer, from an accept or reject, or from the opener effect |
| `task` | `accept` or `reject` under way, with the `queued` and `streaming` it captured |
| `fetch` | an `openThread` or a poll whose answer has not come |

`SubmitDraft`, `NewThread`, `OpenThread`, `Poll` and `FetchArrives` are the user and the timer;
`StartTurn` and `RefuseTurn` are `start_turn`; `BeginTurn`, `Reply`, `EndTurn` are `run_turn`;
`StartEvent`, `StreamEnds`, `StreamDone` the stream; `Accept`, `AcceptSettings`, `Author`, `AcceptRest`,
`Reject`, `RejectBatch`, `Reload`, `Continue`, `Settled` the settling of a batch in its phases;
`CutStream` and `Restart` the faults.

### Workbench (with MCWorkbench)

What the classic workbench shows (`ui`, the reducer's selection, panel, definition and run fields), the
requests a selection starts (`loads`, `composing`) and the effects that cancel them, `handleRun` and
`handleStop` (`handlers`) and the two-second poll (`ticks`, `tracked`, `lastKey`). The reducer's events
are operators on `ui` of the same names; an action is a handler up to an `await`. The server is what
these talk to: `rows` with their status, composed (which deletes the user's rows of that sequence that
never ran), run, resumed and stopped in one step each; how a run goes about its writes is `RunRow`'s
subject, and the purge of finished rows too. `ComposedElsewhere` is the same user's other tab.

### SimulationSession (with MCSimulation)

Sessions of one simulated event and the requests about them. The event loop's thread serves creation
and names, a pool serves tics, deletions and clear-error; every request passes through the loop when
it comes (`loop = None`).

| Variable | Code |
|---|---|
| `event` | the row of `events`: enabled, with a sequence to run or only to record; disabled; deleted |
| `table` | `simulation_sessions`: not made, there, deleted; `status`, `current_tic` |
| `emissions` | `simulation_emissions`: how many of a probability and a tic, with and without a final status |
| `lock`, `loop` | `_locks`; the `async` handler that waits for one and with it the event loop |
| `calls` | the requests: what they read of the event, and where in `_advance_unlocked` they are |

`Ask` is a route up to `with _session_lock`; `Refuse`, `Begin`, `Emit`, `Run`, `Commit`, `Halt` are
`_advance_unlocked` and `_run_emission`, one step per call of the catalog and one per run (the status
`recorded` is written in the step of its emission); `Patch` is
`clear_session_error` and `rename_session`; `CreateSession` goes on after `await json_body` with the
event read before it; `DeleteSession` and `EditEvent` take no lock. `Fail` is a catalog call that
raises, `Crash` the end of the process, with which the locks go. A probability in `Homing` has a
sequence that calls this server over HTTP: it hears an answer only while the loop is free, or else an
error when the call times out.

Definitions whose comment calls them a *slip* are plausible mistakes in the definition after them.
They are not part of any specification; each is put in the place of that definition once, to see
that a property notices.

## 4. Runs

| Run | Instance | Shows |
|---|---|---|
| `dags` | 5 steps, all forward graphs, with and without an ignored back-edge, all or no transition conditional, 5 sets of joins | `JoinAfterArms`, `OncePerPass`, `PlainArmsJoin` |
| `loops` | a body of three steps, three loop types, delay, backoff, wait, operation, create and form steps, one crash or error, two runs | `PassOpensAtEntry`, `CountedPasses`, `TriesWithinBudget`, `StableIds`, `FreshIdsUnbroken`, `WaitsServed`, `Terminates` |
| `serial` | two rows, one thread, chain create-event-wait, five requests, one crash or error | `StopIsFinal`, `StepOnce`, `PollableResult`, `WaitingHasWait`, `NoStepSkipped`, `PurgeKeeps`, `DueRunsResume`, `ReleasedResumeUnbroken` |
| `clock` | two events of which runs await one, two rules, minutes 0 to 2, one edit, one crash or failed call | `RunsOnce`, `EditsPickedUp`, `KeepsPromise` (the refinement of `EventPromise`), `DueRuns`, `WaitersReleased` |
| `reindex` | four records, one of them blank, pages of three, one write, two failures or restarts | `RequestsServed`, `SweepEnds`, `PendingIsEmbedded` |
| `chat` | two threads, two messages, one batch, no faults | `SentOnce` |
| `turns` | one thread, one message, one batch, one cut stream or restart | `AppliedOnce`, `PollSettles`, `BatchSettles` |
| `workbench` | two sequences (one of one step), an event, a console, every panel, two rows, one failed request | `OneWorkspaceOpen`, `DefinitionIsSelected`, `RunSettles` |
| `simulation` | one session, two probabilities of different priorities, one of them calling home, two tics, two requests at a time, one crash or failed call | `TicOnce`, `ErrorStops`, `LoopGoesOn` |
| `fleet` | one row, one checkout, two reports, one fault | `DeletedIsGone`, `PaidIsOn`, `SandboxSuspends`, `GraceEndsInDeletion` |
| `lost_join` | as `dags`, without the back-edge | `OfferedJoinsRun` is violated |
| `stale_vector` | two records, pages of two, two writes, no failures | `MarksAreKept` is violated |

Every component has a type invariant, and each is proved for every instance and therefore not run
(`Workbench` has it as a part of its proof: `Shown`, `LoadsOwn`). `serial` has one thread, since most of
its properties hold only where catalog calls of different requests do not overlap on a row; this is
proved for any number of threads, and so is that no step is skipped and no result lost when they do
(section 6). Every property of a
passing run is broken by at least one slip.

**Bounds.** `Packages` is the set of graphs; five steps are the least with a join whose two arms
differ in length, a nested fan-in, or a loop body of three with a step before and after. `MaxItems`
1: a for-each source returns none or one more. `MaxRuns` 2: a run after a finished one. `MaxFaults`
1: a crash or an error at any one point; the faults are independent, a second repeats the first from
a state the first run of the model already has. `MaxCalls` counts requests to the executor: start,
resume, stop and fire of two rows need five. `clock`: three minutes are a first, a missed and a last
one; an edit at any moment is enough to overtake a list that was read; two events put one behind the
other in the list. `reindex`: four records in pages of three are two pages with one that never leaves
the stale set; two failures in a row reach `Tolerance` and end a sweep. `chat`: two messages, one
typed while the other's turn runs, one batch between them, two threads to switch between; `turns`
leaves the second of each out to afford faults and liveness. `Switching` is empty: the user changes
threads while a batch is being settled in no run (section 5 says what happens then); `MayShow` names
the bound. `workbench`: two rows are the one of the selection and the one of the run; a third
selection of a sequence is not composed in the model. `Ticks` and `Handlers` 1: one poll and one
`handleRun` under way (the interval is two seconds, and the run button is off while one runs). `simulation`: one session, because sessions
share nothing but the event; two requests, of which the second queues behind a tic; the second tic is
the one that could run early or twice. `fleet`
has one row, because rows interact only in `has_active_sandbox` (one statement after its `await`) and
in a tick that an error ends for all rows (another tick follows); its safety invariants were also run
with two rows. One session of a row is paid. CHECK_DEADLOCK is FALSE everywhere: a finished run, a
deleted instance, an idle browser and a bounded clock are at rest.

**Fairness.** `StepWalk`: the runner goes on (nothing in it waits for anything), the clock moves and
waited-for events fire, a due run is resumed (the scheduler's loop sleeps a bounded time), and a person
who sees a form answers all of it in the end (strong, since a crash or a partial answer can come
between). No fairness of starts and crashes. `RunRow`: threads inside a call go on, the scheduler's
loop catches every exception and ticks again, the clock moves; no request is owed. `EventClock`: the
server is started again, the thread runs and its sleeps end (`Event.wait` has a timeout of at most
half a minute); nothing is owed of edits, the clock or faults. `ReindexJob`: the interval passes, the
sweep goes on and a writer that has written finishes its marks. `ChatSession`: the agent's turns,
requests and the browser's timers go on, the poll strongly (other requests interrupt it); the user
need do nothing. `Workbench`: requests are answered and the interval fires.
`SimulationSession`: a request that was begun goes on, and a call over HTTP has a timeout; nobody has to
ask for anything. `FleetInstance`: handlers
and jobs go on, `_scheduler_loop` ticks for ever, days pass (strong: only at quiet moments), Stripe
redelivers until answered (strong: only between handlers). Nobody has to pay, to cancel or to report.

## 5. Known divergences

Two are runs; the line where the code or the docs say otherwise is under `findings` in `PROJECT.json`:

- `lost_join`: a duplicate dropped at `execution_run.py:1357` does not release the join it held back.
  `PlainArmsJoin` shows that this takes a fan-in before the join that is not itself a join.
- `stale_vector`: both records have been embedded; a write marks them, a sweep reads its page, a second
  write changes a record of that page and marks it again, and then the sweep writes the vector of the
  text it had read and removes the mark (`embeddings.py:1147`). The record is no longer pending, with a
  vector of the old text. (A record that is embedded for the first time ends the same way without any
  mark: `mark_label_stale` touches only records that have a vector.)

These are stated as properties that the runs leave out, because they do not hold; with the instance
named, TLC shows it:

- `StepWalk!WaitsServed` with `DelayedWaitLoops`: a `loop_delay` park completes the wait of an entry
  wait STEP (`execution_run.py:1353`).
- `StepWalk!FreshIdPerPass` with `CreateLoops` and one fault: ids minted before a park are not forgotten
  by the pass that resumes. `FreshIdsUnbroken` shows that it takes a crash or an error.
- `RunRow!ReleasedResumes` with one row, one thread and one fault: a crash between the release and the
  run of an event waiter leaves it parked.
- `RunRow!StepOnce` with two threads and `WaitThenCalls`: two resumes of one parked row both run what
  follows. `RunRow!StopNoticed` with `CallsAround`: a runner writes its own status over `cancelled`.
- `EventClock!EveryEditPickedUp`, with the bounds of `clock`: an event that is edited after a tick has
  read its row and before the tick writes its timer gets the time of the old rule (`scheduler.py:160`).
  The next tick finds a timer and leaves it (`scheduler.py:209`), and the loop sleeps over the edit: a
  minute of the new rule before that time is missed. `EditsPickedUp` excepts these events
  (`overwritten`) and no others; `KeepsPromise` and `DueRuns` do not see them either, since a timer of
  an older row arms nothing.
- `FleetInstance!SandboxEnds` with one checkout and no faults: an upgrade that is never paid takes the
  sandbox out of the scheduler's sight.
- `FleetInstance!PaidIsOn` with `"deleted"` in `UpgradeFrom`, one checkout and no faults: the upgrade
  route looks at the tier only (`control_plane/app.py:439`), so a sandbox that was deleted while its page
  stayed open can be paid for; its row is then `running` and no app is built for it.
- `ChatSession!IdleIsIdle`: two sends can both pass `start_turn` before either turn says that it runs
  (`routes/chat.py:125`), and the first to end declares the thread idle under the second
  (`chat-tables.sql` says what `idle` means).
- `ReindexJob!PendingIsEmbedded` with `PageSize` 1: a page full of records that cannot be embedded is
  all the sweep ever sees, and hides the rest (`embeddings.py:1108`). With the code's page size that
  takes as many such records as a page holds.

Seen while modelling, and part of the behaviours the modules describe:

- Walk: a loop body with a fan-in at its tail keeps a duplicate of the tail in the queue, and the next
  pass opens in the middle of the body (`execution_run.py:994`).
- Rows: the tick lists due rows once; a row finished or stopped before its turn is started afresh
  (`scheduler.py:133`, `execution_run.py:1287`). The writes of Stop and of a park interleave to a
  waiting row without progress (`catalog.py:667`). The purge deletes a selected row that was restarted
  before the DELETE (`catalog.py:862`).
- Time events: an event that is disabled while a tick has it in hand still runs. A crash between run and store repeats the run at
  start-up. A tick stores the timer before it releases the waiters, so that a fault in between leaves
  them parked until the next firing. Minutes that pass while the server is down collapse into one
  firing.
- Embeddings: a restart between a write and its mark, or a mark that fails (it is best-effort), leaves
  a vector that nothing says is out of date. The executor's query step marks without asking for a
  sweep: the interval has to come.
- Chat, browser: `accept` sends its second phase to the thread that is open by then, which is why
  `Switching` is a bound. A message queued while an accept runs stays queued after it. A second message
  queued replaces the first. The queue captured by an accept that started during a stream is emptied
  and its text not sent (`SendCaptured`). A queued message that is sent empties what was typed
  meanwhile.
- Chat, server: a restart leaves `turn_status` at "running" for ever (`Stranded`). A stream cut after
  its turn began returns the text to the composer, and a retry says it twice (`cut`). A restart between
  the phases of an accept leaves the batch pending with its settings applied, and accepting again
  applies them again (`AppliedOnce` excludes it by `torn`). Two turns of one thread at once
  (`IdleIsIdle` above) let a second batch arrive while the first is being accepted: the accept's second
  phase goes to the newest batch, whose settings were not applied (`torn` has "overlap" since the second
  turn was let through; without that condition TLC finds it with one thread, two texts and three
  batches).
- Workbench: `handleRun` goes on after its awaits with another selection and reports on the run state of
  that one; `refreshComposedSequence` sets the composed row of a selection that was left. Selecting a
  sequence again, or in another tab, deletes the row a `handleRun` is about to execute, which then
  reports an error. An event's save that returns late resets the panel while a sequence is open. Editing
  inputs during a run makes the run button live again. A run that ends between two polls before the
  first has seen it is never noticed by the poll.
- Simulation: `rename_session` waits for a session's lock on the event loop, so that while a tic of that
  session runs nobody is served, and a step of the tic that calls this server fails by its timeout
  (`routes/simulation.py:113`). A tic that a restart or a failed call cuts leaves its emissions, and the
  next tic has the same number and emits again. A session or event deleted during a tic is not missed:
  the emissions that follow are written without a session. A tic that waited for the lock goes by the
  event as its route read it, and runs its sequence after it was disabled. A clear-error that waits
  behind a tic clears that tic's error, which nobody has seen. A session whose creation reads the event
  before it is deleted is left without one.
- Fleet: a tick that has listed a row suspends or deletes the app of a row that Stripe's webhook upgrades
  in between (`control_plane/scheduler.py:20-43`). A crash between `remember_stripe_event` and the row's
  update loses a payment (`control_plane/app.py:471`). A crash between `delete_app` and the status write
  leaves the row suspended, and every later tick fails on the missing app; `GraceEndsInDeletion`
  therefore speaks of the app. An owner who pays two checkouts of one instance leaves it `provisioning`
  (`control_plane/app.py:485-491`). A job decides the machine's mode from the row it read at its start
  (`provision.py:168`).

## 6. Proofs

The eight modules whose names end in `Proofs` are checked by `tlapm`. They assume only the named
assumptions of the modules: finite sets of steps and rows, natural bounds, what composition guarantees of a package,
and that NULL is none of the values it stands beside. A theorem that holds only of some packages or some
interleavings says of which in its statement.

- `StepWalkProofs!TypeCorrect`, `THEOREM Spec => []TypeOK`: `TypeOK` is inductive with the facts
  that the package in use is one of `Packages` and that a runner in a call has a queue (`TypeInv`);
  the number of a pass stays below the limit because
  `NextPass` and `NextPassLater` require `~AtLimit`.
- `StepWalkProofs!IdsStable`, `THEOREM Spec => []StableIds`: a create step is called with one id per
  pass, whatever crashes and resumes. `StableIds` alone is not inductive: nothing in it says that the
  id of an earlier call is still known to whoever calls next. `IdsInv` adds, of the runner's walk and
  of the walk on the row, that they hold the id of every recorded call of their pass or a later one
  (`Records`), that the row knows every id the runner holds (`Covered`: the snapshot is written after
  the mint and before the call), that the runner is not behind the row (`Ahead`), and that an id
  minted for the call under way was used in no later pass (`MintedNow`). One lemma per action.
- `StepWalkProofs!RunsOncePerPass`: no step is twice in one pass of a trace. The invariant says that what
  is in the visited set is what the trace has of the pass under way, and that the set is cleared for the
  body when the number of the pass grows. `JoinsComeAfterArms`: a join that is queued or has run has no
  queued step that leads to it; it rests on what `reject_join_policy` lets through (no join leads to
  another, none is in the body). `TriesStayWithinBudget`: the number a backoff park carries is that of a
  try not yet made, through parks, resumes and crashes.
- `StepWalkProofs!FreshUntilFault`: until a crash or an error, every id a pass mints is dropped before
  the next pass, and the ids still to be minted are larger than those recorded.
- `StepWalkProofs!PassesOpenAtEntry`, `WaitsAreServed` and `PlainArmsNeverLoseJoin` hold of packages of a
  shape, which the statement names: `ChainBody` (behind its entry the body is a chain: a step of it is
  queued by steps of the body only, one at a time, and not first), `Paced` (no pause between passes,
  or all wait steps inside a chain body, behind its entry) and `Straight` (the steps that lead to joins
  have one predecessor each and are not in the loop). The runs' packages have these shapes; section 5
  has what happens to others.
- `StepWalkProofs!CountedLoopRunsCount`: a `for` loop runs its entry exactly `count` times, on packages
  that are a chain of unconditional steps up to the loop's tail (`CountedChain`: the chain goes through
  the entry, the body is entered there only, the back-edge closes the only cycle, as `analyze_loop` and
  `cycle_body` make it); what follows the tail is left open. Until the loop is over (`OnTheWay`) one
  step is queued, it leads to the tail and has not been visited, because the visited steps lead only to
  one another and to it; the entry has run once per pass it is part of. After that (`LoopOver`) nothing
  queued or offered leads back to the entry. That a step leads to another is stated by closed sets, so
  no induction over paths is needed. A count of zero is the case where the pre-test fails; what executes
  at the entry has been pre-tested (`EntryPretested`).
- `RunRowProofs!TypeCorrect` and `RunRowProofs!NoStepIsSkipped`, `THEOREM Spec => []NoStepSkipped`:
  for any rows, threads and crashes. The invariant says of each thread, progress and result that the
  steps before the place it points to have run (`Backed`, `RowBacked`), and that a thread in a call
  has a row (`Located`); no thread and no row ever loses this when another writes, because runs of a
  step are never undone. Lemmas `ThreadChanges` and `RowChanges` do that once for all actions.
- `RunRowProofs!OverIsPollable`, for any threads on one row at once: a thread that is about to write that
  a row is over has found or written a result on it (`Reporting`), and no write takes a result back. The
  status may be wrong, the result is there.
- `RunRowProofs!StopIsFinalAlone`, `WaitingHasWaitAlone` and `StepOnceAlone` have the form
  `Spec /\ []Apart => []P`. `Apart` says that no two threads work on one row at once; a thread works on
  the row of its call, those a fire has listed with their progress and those a purge is about to delete
  (`Holds`). A wake's list is not among them: a row it lists may be run, stopped and restarted before
  its turn, and the three hold nevertheless. Nothing in the code sees to `Apart` (a row has no
  lock); it is what a deployment has whose requests and ticks meet on no row, and section 5 has what
  happens otherwise. `SoloInv` says what the status of a row is at
  each catalog call of the thread that works on it; `OnceInv` that the steps from which a walk may start
  or go on have run less often than the row was started and faults happened (`Owing`). Under `Apart` a
  thread finds the row as it left it, which is all that the overlaps break.
- `RunRowProofs!PurgeKeepsAlone` needs `PurgesAlone`: while a purge is between its SELECT and its DELETE
  no other thread is in a call. Of the finished rows the last started is never selected (`GreatestOf`:
  a bounded set of numbers has a greatest one), and neither it nor a selected row changes before the
  DELETE (`DoomedStays`). `Apart` would not do: the row that is kept could be restarted.

- `EventClockProofs!ClockKeepsPromise`, `THEOREM Spec => KeepsPromise`: the scheduler implements
  `EventPromise`. One lemma per action maps its step to a step of the promise or to none. They need an
  invariant on what the thread holds (`IInv`): every row it may still write is as it was read, or was
  edited since and has no timer (`Snapshot`); where it is in the firing of an event, the event is due
  or has no timer (`AtEvent`); a due event whose row is unedited has run before its timer is written
  (`RunFirst`). Without `Snapshot` nothing relates the minute the thread gives up to the minute the
  table is armed for. `ClockTypes` is the type invariant. `ClockRunsOnce` adds `Counted`: a run that may
  come again has been cut before, which takes a fault. `ClockPicksUpEdits` adds
  `Unedited` and `Looked`, while the wake flag is down the rows are as the tick read them and an event
  without a timer is one it has still to take, and `Timely`, a timer that was not written over an edit
  is a minute of its rule with none ahead before it. Its exception, `overwritten`, is a history variable
  that only `Store` adds to.
- `ReindexProofs!ReindexTypes` and `ReindexServesRequests`, `THEOREM Spec => []RequestsServed`, for any
  records, writers and failures: inductive as it stands, because the only step that clears `_pending`
  begins the sweep that was asked for.
- `WorkbenchProofs!WorkbenchOneOpen` and `WorkbenchShowsSelected`: for any sequences, events, consoles,
  rows, polls and handlers. The invariant `IInv` says that the views exclude each other field by field
  (`Exclusive`), that the panel's subject is open, that an inspected element has a sequence, that the
  definition shown is the selected sequence's, and that a request that was not cancelled is the selected
  sequence's (`LoadsOwn`). One lemma per kind of step; runs, polls and inputs touch nothing of what is
  shown (`RunShown`).

- `SimulationProofs!SimulationTypes`, `SimulationTicsOnce` and `SimulationErrorStops`: for any sessions,
  probabilities, priorities and requests. The invariant says that a request within a tic holds its
  session's lock, with the clock one tic behind and no error (`Held`), that the session was made
  (`Found`), and how often a probability may have emitted: for the tic to come only as often as there
  were faults, and no more for what the tic under way has still to do (`Counted`). `TicOnce` alone is
  not inductive, since nothing in it says which probabilities the tic has done.
- `ChatProofs!ChatTypes`: beside the types the invariant needs that a turn that was spawned has a message
  and a stream no other turn has (`StreamsLinked`), and that a turn that has begun and a batch that is
  being settled have a thread (`ThreadsLinked`), whose row they write.
- `ChatProofs!ChatSaysOnce`, `THEOREM Spec => []SentOnce`, for any threads, texts, batches, switches of
  thread and faults. A text whose stream did not break is in one place only: loose (in the composer, in
  the queue, or captured from the queue by an accept or reject that will send it) or with one stream and
  the turn spawned for it, and nothing has been said of it before that turn begins (`Once`, `SInv`). The
  captured queue is what makes it hard: `accept` sends what it captured, and the hook's queue may
  meanwhile have been replaced or emptied.
- `ChatProofs!ChatAppliesOnce` assumes `"accept" \notin Switching`: the user stays on the thread while a
  batch of it is being accepted (section 5 says what the code does otherwise). `BatchInv` says, while no
  two turns of a thread overlapped, that it has one turn (`OneTurn`) and one pending batch at most
  (`OnePending`), none while its turn may still propose one (`TurnsClear`), that an accept between its
  two requests still finds its batch pending (`HalfWaits`), and what was applied of each batch, which is
  the settings alone exactly while such an accept is under way, or after a restart (`AllSound`).
- `ChatProofs!ChatIdleApart`: `IdleIsIdle` holds until `start_turn` has let two turns of one thread
  through (`IdleApart`), whatever streams are cut and servers restarted. That a second turn comes through
  is thus the only way in which an idle thread is not idle.
- `FleetProofs!FleetTypes` and `FleetDeletedIsGone`, for any rows, statuses in which an upgrade is
  offered, checkouts, reports and faults. That nothing is left of a deleted row's app needs that no
  provisioning job builds one again: a row on the tick's list has no job and no unhandled payment that
  would start one (`DeleteKnown`). When it came on the list its grace period was over, before which no
  job and no unanswered news was left (`JobsInTime`, `NewsInTime`); a sandbox may be paid for after that,
  which starts no job, and any other row has a deadline only because a subscription ended, so it was
  paid for before (`DeadlinePaid`) and, by the bound on payments, is not again (`PaidOnce`). It rests
  therefore on the two assumptions of the model that section 3 names: days pass at quiet moments, and
  one session of a row is paid.
- `FleetProofs!FleetPaidIsOn` assumes `"deleted" \notin UpgradeFrom` (section 5 says what happens to a
  deleted sandbox that is upgraded). `PaidIsOn` speaks of runs in which nothing failed and nothing
  overlapped, but Stripe's news still come in any order, an ended subscription before the payment too,
  and days pass between. `Calm` says of such runs: a sandbox that has an open checkout or unhandled news
  of a payment is pending payment, or suspended with its grace period ahead (`Claimed`), so that the tick
  neither lists nor deletes it (`Listed`) and it still has the machine to resume (`SandboxUp`); a basic
  row has no machine and no job before the news of its payment is handled (`Unbuilt`), so that the
  webhook starts one; and a paid row is in its job, or runs and is on or about to be put on (`PaidUp`).
  One lemma per action. The proof also takes NULL to be none of the machine's modes (`NullAssumption`).

Only model-checked: all liveness (the prover has neither fairness nor ENABLED).
What a recursive definition computes for every input is out of the prover's reach; the modules have no
RECURSIVE operator (`CanReach` is stated by closed sets).

## 7. Not modelled

The components `PROJECT.json` lists as `not_modelled`, with the reason there. Members,
templates and the search for loop bodies are planned (section 2). Authentication, schema
rewrites, consoles, self-update and credentials are sequential, or I/O. The packages `authoring`,
`composer`, `connector` and `mcp` are pure translations of text: what could be wrong with them is the
text itself, which these modules abstract. Most of the browser (builders, forms, drawings, the guide)
is view code over one request at a time. By far the largest part of the repository's TypeScript is of
these two kinds, so that the share of its lines that definitions here stand for is small, and stays
so; what the modules cover in the browser is the code in which answers and clicks can overtake each
other.

Within the modelled parts: failing SQLite writes of `RunRow` (each write happens or the process dies
before it), the search for a loop's back-edge, the contents of parameters, conditions, results and audit
records; local times and daylight saving of `next_activation`; an interval of 0, which turns the sweep
job off, several spaces or labels, `REINDEX_MAX_RECORDS`, and the marks on endpoint relationships;
the weights of a simulation's outcomes (a weight may be a sequence of its own), its world time and its
panel in the browser; the
validation of a batch's items, the tools of the agent and the canvas; switching spaces, lists, groups,
the order of panels, deletion dialogs and the results shown by the workbench.
