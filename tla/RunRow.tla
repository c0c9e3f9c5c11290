------------------------------- MODULE RunRow -------------------------------
(***************************************************************************)
(* The `state` rows of the catalog and everyone who works on them at once. *)
(*                                                                         *)
(* Nothing locks a row.  Every function of catalog.py opens a connection,  *)
(* commits and closes it, so each call is one atomic step here and what    *)
(* lies between two calls may interleave with any other thread:            *)
(*                                                                         *)
(*  - the event loop's thread: POST /api/sequence/run and /stop, the       *)
(*    sequence webhook, the MCP tools and the external event receiver are  *)
(*    `async def` handlers that call the executor directly, one at a time; *)
(*  - the scheduler's thread: _tick runs by asyncio.to_thread, fires due   *)
(*    events, releases their waiters and wakes due waits;                  *)
(*  - threads of the pool: the routes that are plain `def`.                *)
(*                                                                         *)
(* The package is a chain of steps 1..Last; what a walk does inside one    *)
(* pass of its loop is the subject of module StepWalk.  A thread's program *)
(* counter names the catalog call it is about to make.                     *)
(***************************************************************************)
EXTENDS Naturals, Sequences, FiniteSets

CONSTANTS
    Rows,        \* state rows, all of one sequence, owner and space
    Threads,     \* threads that call into the executor
    Runners,     \* those that serve run requests
    Stoppers,    \* those that serve stop requests
    Wakers,      \* those that wake due waits: the scheduler's
    Firers,      \* those that fire the event waited for
    Last,        \* length of the chain
    Kind,        \* what each step of the chain is
    None,        \* the SQL NULL
    MaxCalls,    \* bound: run, stop and fire requests
    MaxFaults    \* bound: raising steps and process crashes

Kinds == {"call", "create", "wait", "event", "ask"}

Chain == 1..Last

ASSUME ChainAssumption == Last \in Nat \ {0} /\ Kind \in [Chain -> Kinds]

ASSUME BoundsAssumption == MaxCalls \in Nat /\ MaxFaults \in Nat

ASSUME ThreadsAssumption ==
    Runners \cup Stoppers \cup Wakers \cup Firers \subseteq Threads

ASSUME RowsFinite == IsFiniteSet(Rows)

VARIABLES
    db,       \* the state table
    th,       \* the locals of each thread
    calls,    \* requests so far
    faults,   \* crashes and raising steps so far
    starts,   \* history: the rows whose run was started afresh, in that order
    ran,      \* history: how often each step of each row ran
    stopped,  \* history: rows for which Stop has answered "cancelled"
    late      \* history: steps run on a row after that answer

vars == <<db, th, calls, faults, starts, ran, stopped, late>>

history == <<starts, ran, stopped, late>>

Statuses == {"inactive", "active", "pending", "waiting", "cancelled"}
InFlight == {"active", "pending", "waiting"}
Results  == {"none", "done", "error", "cancelled"}

\* progress.wait: none, a time to come, an event to come, a time that has come,
\* an event that has fired.
Waits == {"none", "clock", "event", "due", "released"}

Progress == [at : 1..(Last + 1), wait : Waits]

ASSUME NullAssumption == None \notin Rows /\ None \notin Progress

\* started: the place of run_start_date among all starts, 0 for NULL.
RowType == [here : BOOLEAN, status : Statuses, progress : Progress \cup {None},
            result : Results, started : Nat]

PCs == {"idle", "next", "release", "read", "claim", "check", "step", "exec",
        "leave", "result", "clear", "status", "select", "delete",
        "raise", "explain", "stopRead", "stopResult", "stopClear", "stopStatus"}

\* at, resumed and given are run_execution's queue, complete_pending_wait and
\* params; fresh: stored_queue is None; minted: the ids of step `at` came with
\* the progress; to: the status about to be written;
\* todo and copy: rows a scheduler loop has listed, with the progress it read;
\* doomed: the ids purge_finished_state_packages has selected.
Local == [pc : PCs, op : {"run", "stop", "wake", "fire"}, row : Rows \cup {None},
          at : 1..(Last + 1), resumed : BOOLEAN, given : BOOLEAN, fresh : BOOLEAN,
          minted : BOOLEAN, to : Statuses, outcome : Results, todo : SUBSET Rows,
          copy : [Rows -> Progress \cup {None}], doomed : SUBSET Rows]

Idle == [pc |-> "idle", op |-> "run", row |-> None, at |-> 1, resumed |-> FALSE,
         given |-> FALSE, fresh |-> FALSE, minted |-> FALSE, to |-> "active", outcome |-> "none",
         todo |-> {}, copy |-> [r \in Rows |-> None], doomed |-> {}]

Init ==
    /\ db = [r \in Rows |-> [here |-> TRUE, status |-> "inactive",
                             progress |-> None, result |-> "none", started |-> 0]]
    /\ th = [t \in Threads |-> Idle]
    /\ calls = 0 /\ faults = 0
    /\ starts = <<>> /\ ran = [r \in Rows |-> [k \in Chain |-> 0]]
    /\ stopped = {} /\ late = [r \in Rows |-> 0]

-----------------------------------------------------------------------------
(* The catalog's statements                                                *)

\* An UPDATE of a row that has been deleted changes nothing.
Put(r, new) == db' = [db EXCEPT ![r] = IF db[r].here THEN new ELSE @]

SetStatus(r, s)   == Put(r, [db[r] EXCEPT !.status = s])
SetProgress(r, p) == Put(r, [db[r] EXCEPT !.progress = p])
SetResult(r, o)   == Put(r, [db[r] EXCEPT !.result = o])

GoTo(t, pc) == th' = [th EXCEPT ![t].pc = pc]

\* The call on this row is over; a scheduler loop goes on to the next it listed.
Returned(t) ==
    IF th[t].todo = {} THEN Idle ELSE
        [Idle EXCEPT !.pc = "next", !.op = th[t].op, !.todo = th[t].todo,
                     !.copy = th[t].copy]

Return(t) == th' = [th EXCEPT ![t] = Returned(t)]

-----------------------------------------------------------------------------
(* Requests and the scheduler's loops                                      *)

\* POST run, a webhook or MCP call: with or without the parameters asked for.
RequestRun(t, r, given) ==
    /\ t \in Runners /\ th[t].pc = "idle" /\ calls < MaxCalls
    /\ calls' = calls + 1
    /\ th' = [th EXCEPT ![t] = [Idle EXCEPT !.pc = "read", !.row = r, !.given = given]]
    /\ UNCHANGED <<db, faults, history>>

RequestStop(t, r) ==
    /\ t \in Stoppers /\ th[t].pc = "idle" /\ calls < MaxCalls
    /\ calls' = calls + 1
    /\ th' = [th EXCEPT ![t] = [Idle EXCEPT !.pc = "stopRead", !.op = "stop", !.row = r]]
    /\ UNCHANGED <<db, faults, history>>

\* _wake_waiting_runs lists every waiting row once; only those with an `until`
\* that has passed are run.  A released event wait has no `until`.
DueRows ==
    {r \in Rows : /\ db[r].here /\ db[r].status = "waiting"
                  /\ db[r].progress # None /\ db[r].progress.wait = "due"}

Wake(t) ==
    /\ t \in Wakers /\ th[t].pc = "idle" /\ DueRows # {}
    /\ th' = [th EXCEPT ![t] = [Idle EXCEPT !.pc = "next", !.op = "wake",
                                            !.todo = DueRows]]
    /\ UNCHANGED <<db, calls, faults, history>>

\* _resume_event_waiters lists the waiting rows parked on the event, with the
\* progress each has at that moment.
EventWaiters ==
    {r \in Rows : /\ db[r].here /\ db[r].status = "waiting"
                  /\ db[r].progress # None
                  /\ db[r].progress.wait \in {"event", "released"}}

Fire(t) ==
    /\ t \in Firers /\ th[t].pc = "idle" /\ EventWaiters # {} /\ calls < MaxCalls
    /\ calls' = calls + 1
    /\ th' = [th EXCEPT ![t] = [Idle EXCEPT
                 !.pc = "next", !.op = "fire", !.todo = EventWaiters,
                 !.copy = [r \in Rows |->
                             IF r \in EventWaiters THEN db[r].progress ELSE None]]]
    /\ UNCHANGED <<db, faults, history>>

\* The loop takes the next row of its list.
NextRow(t, r) ==
    /\ th[t].pc = "next" /\ r \in th[t].todo
    /\ th' = [th EXCEPT ![t].pc = IF th[t].op = "fire" THEN "release" ELSE "read",
                        ![t].row = r, ![t].todo = @ \ {r}]
    /\ UNCHANGED <<db, calls, faults, history>>

\* The listed progress is written back, released, whatever the row holds now.
Release(t) ==
    /\ th[t].pc = "release"
    /\ SetProgress(th[t].row, [th[t].copy[th[t].row] EXCEPT !.wait = "released"])
    /\ GoTo(t, "read")
    /\ UNCHANGED <<calls, faults, history>>

\* The clock passes the `until` of a parked row.
ClockPasses(r) ==
    /\ db[r].here /\ db[r].progress # None /\ db[r].progress.wait = "clock"
    /\ db' = [db EXCEPT ![r].progress.wait = "due"]
    /\ UNCHANGED <<th, calls, faults, history>>

-----------------------------------------------------------------------------
(* run_execution                                                           *)

\* Slips: the cancelled status is not looked at; a time is taken as not due
\* whenever it is; every wait is.
SentAwayIfGone(row) ==
    ~row.here \/ (row.progress # None /\ row.progress.wait \in {"clock", "event"})
SentAwayByAnyTime(row) ==
    \/ ~row.here \/ row.status = "cancelled"
    \/ row.progress # None /\ row.progress.wait \in {"clock", "due", "event"}
SentAwayByAnyWait(row) ==
    \/ ~row.here \/ row.status = "cancelled"
    \/ row.progress # None /\ row.progress.wait # "none"

\* What the row read sends away at once: it is gone, it is cancelled, or it
\* waits for something that has not come.
SentAway(row) ==
    \/ ~row.here
    \/ row.status = "cancelled"
    \/ row.progress # None /\ row.progress.wait \in {"clock", "event"}

ReadAway(t) ==
    /\ th[t].pc = "read" /\ SentAway(db[th[t].row])
    /\ Return(t)
    /\ UNCHANGED <<db, calls, faults, history>>

\* Slips: the saved queue is ignored; its head is popped before it has run.
ResumeAtFirst(p) == 1
ResumePastHead(p) == IF p.at <= Last THEN p.at + 1 ELSE p.at

\* The head of the saved queue.
ResumeAt(p) == p.at

\* Otherwise the walk starts where the progress says; without progress, afresh.
Read(t) ==
    /\ th[t].pc = "read" /\ ~SentAway(db[th[t].row])
    /\ LET p == db[th[t].row].progress
       IN  th' = [th EXCEPT ![t].pc = "claim",
                            ![t].fresh = (p = None),
                            ![t].at = IF p = None THEN 1 ELSE ResumeAt(p),
                            ![t].minted = (p # None),
                            ![t].resumed = (p # None /\ p.wait # "none")]
    /\ UNCHANGED <<db, calls, faults, history>>

\* The row becomes active, whatever its status is by now.
Claimed(t) ==
    [db[th[t].row] EXCEPT !.status = "active",
                          !.started = IF th[t].fresh THEN Len(starts) + 1 ELSE @]

Claim(t) ==
    /\ th[t].pc = "claim"
    /\ Put(th[t].row, Claimed(t))
    /\ GoTo(t, "check")
    /\ starts' = IF th[t].fresh THEN Append(starts, th[t].row) ELSE starts
    /\ UNCHANGED <<calls, faults, ran, stopped, late>>

\* state_cancel_requested: a row that is gone is not cancelled.
CancelRequested(row) == row.here /\ row.status = "cancelled"

\* `while queue`: at the end the chain has finished; before every step the row is
\* asked whether it has been cancelled.
Check(t) ==
    /\ th[t].pc = "check"
    /\ th' = [th EXCEPT ![t] =
          IF th[t].at > Last
            THEN [th[t] EXCEPT !.pc = "result", !.outcome = "done", !.to = "inactive"]
          ELSE IF CancelRequested(db[th[t].row])
            THEN [th[t] EXCEPT !.pc = "result", !.outcome = "cancelled",
                               !.to = "cancelled"]
          ELSE [th[t] EXCEPT !.pc = "step"]]
    /\ UNCHANGED <<db, calls, faults, history>>

\* The status a step that cannot run now leaves the row in, if there is one.
ParksAs(t) ==
    LET kind == Kind[th[t].at]
    IN  IF kind \in {"wait", "event"} /\ ~th[t].resumed THEN "waiting"
        ELSE IF kind = "ask" /\ ~th[t].given THEN "pending"
        ELSE "active"

\* Slip: an event wait is left out of the snapshot.
WaitOfClock(t) == IF Kind[th[t].at] = "wait" THEN "clock" ELSE "none"

\* The progress written when the run leaves: what it waits for, if anything.
WaitOf(t) ==
    [wait |-> "clock", event |-> "event", ask |-> "none", call |-> "none",
     create |-> "none"][Kind[th[t].at]]

\* First half of _park_waiting and of the pending return.
SaveAndLeave(t) ==
    /\ th[t].pc = "step" /\ ParksAs(t) # "active"
    /\ SetProgress(th[t].row, [at |-> th[t].at, wait |-> WaitOf(t)])
    /\ th' = [th EXCEPT ![t].pc = "leave", ![t].to = ParksAs(t)]
    /\ UNCHANGED <<calls, faults, history>>

\* Second half: the status.
LeaveStatus(t) ==
    /\ th[t].pc = "leave"
    /\ SetStatus(th[t].row, th[t].to)
    /\ Return(t)
    /\ UNCHANGED <<calls, faults, history>>

\* A create step that has no ids yet mints them and persists them before the call.
Mints(t) == Kind[th[t].at] = "create" /\ ~th[t].minted

SaveMinted(t) ==
    /\ th[t].pc = "step" /\ ParksAs(t) = "active" /\ Mints(t)
    /\ SetProgress(th[t].row, [at |-> th[t].at, wait |-> "none"])
    /\ GoTo(t, "exec")
    /\ UNCHANGED <<calls, faults, history>>

Ready(t) ==
    \/ th[t].pc = "exec"
    \/ th[t].pc = "step" /\ ParksAs(t) = "active" /\ ~Mints(t)

Execute(t) ==
    /\ Ready(t)
    /\ th' = [th EXCEPT ![t].pc = "check", ![t].at = @ + 1,
                        ![t].resumed = FALSE, ![t].minted = FALSE]
    /\ ran' = [ran EXCEPT ![th[t].row][th[t].at] = @ + 1]
    /\ late' = IF th[t].row \in stopped
                 THEN [late EXCEPT ![th[t].row] = @ + 1] ELSE late
    /\ UNCHANGED <<db, calls, faults, starts, stopped>>

\* _execute_step raises: first the status, then the result; progress stays.
ExecuteRaises(t) ==
    /\ Ready(t) /\ Kind[th[t].at] \in {"call", "create"}
    /\ faults < MaxFaults /\ faults' = faults + 1
    /\ GoTo(t, "raise")
    /\ UNCHANGED <<db, calls, history>>

RaiseStatus(t) ==
    /\ th[t].pc = "raise"
    /\ SetStatus(th[t].row, "inactive")
    /\ GoTo(t, "explain")
    /\ UNCHANGED <<calls, faults, history>>

RaiseResult(t) ==
    /\ th[t].pc = "explain"
    /\ SetResult(th[t].row, "error")
    /\ Return(t)
    /\ UNCHANGED <<calls, faults, history>>

-----------------------------------------------------------------------------
(* _finish_run                                                             *)

\* Slip: the result is returned to the caller and not stored.
FinishUnstored(t) ==
    /\ th[t].pc = "result"
    /\ GoTo(t, "clear")
    /\ UNCHANGED <<db, calls, faults, history>>

FinishResult(t) ==
    /\ th[t].pc = "result"
    /\ SetResult(th[t].row, th[t].outcome)
    /\ GoTo(t, "clear")
    /\ UNCHANGED <<calls, faults, history>>

FinishClear(t) ==
    /\ th[t].pc = "clear"
    /\ SetProgress(th[t].row, None)
    /\ GoTo(t, "status")
    /\ UNCHANGED <<calls, faults, history>>

FinishStatus(t) ==
    /\ th[t].pc = "status"
    /\ SetStatus(th[t].row, th[t].to)
    /\ GoTo(t, "select")
    /\ UNCHANGED <<calls, faults, history>>

\* purge_finished_state_packages: finished rows but the latest and this one.
Finished(r) ==
    db[r].here /\ db[r].status \in {"inactive", "cancelled"} /\ db[r].started > 0

Latest(r) == \A q \in Rows : Finished(q) => db[q].started <= db[r].started

\* Slip: only the run that just ended is kept.
PurgeableOthers(t) == {r \in Rows : Finished(r) /\ r # th[t].row}

Purgeable(t) == {r \in Rows : Finished(r) /\ ~Latest(r) /\ r # th[t].row}

PurgeSelect(t) ==
    /\ th[t].pc = "select"
    /\ th' = [th EXCEPT ![t].pc = "delete", ![t].doomed = Purgeable(t)]
    /\ UNCHANGED <<db, calls, faults, history>>

\* The DELETE names the ids, not the condition they were selected by.
PurgeDelete(t) ==
    /\ th[t].pc = "delete"
    /\ db' = [r \in Rows |->
                IF r \in th[t].doomed THEN [db[r] EXCEPT !.here = FALSE] ELSE db[r]]
    /\ Return(t)
    /\ UNCHANGED <<calls, faults, history>>

-----------------------------------------------------------------------------
(* request_state_cancel                                                    *)

StopRead(t) ==
    /\ th[t].pc = "stopRead"
    /\ LET row == db[th[t].row]
       IN  IF row.here /\ row.status \in InFlight
             THEN GoTo(t, "stopResult") ELSE Return(t)
    /\ UNCHANGED <<db, calls, faults, history>>

StopResult(t) ==
    /\ th[t].pc = "stopResult"
    /\ SetResult(th[t].row, "cancelled")
    /\ GoTo(t, "stopClear")
    /\ UNCHANGED <<calls, faults, history>>

StopClear(t) ==
    /\ th[t].pc = "stopClear"
    /\ SetProgress(th[t].row, None)
    /\ GoTo(t, "stopStatus")
    /\ UNCHANGED <<calls, faults, history>>

StopStatus(t) ==
    /\ th[t].pc = "stopStatus"
    /\ SetStatus(th[t].row, "cancelled")
    /\ stopped' = stopped \cup {th[t].row}
    /\ Return(t)
    /\ UNCHANGED <<calls, faults, starts, ran, late>>

-----------------------------------------------------------------------------

\* The process dies: every thread is gone, the rows stay as they are.
Crash ==
    /\ faults < MaxFaults /\ faults' = faults + 1
    /\ \E t \in Threads : th[t].pc # "idle"
    /\ th' = [t \in Threads |-> Idle]
    /\ UNCHANGED <<db, calls, history>>

ThreadStep(t) ==
    \/ \E r \in Rows : NextRow(t, r)
    \/ Release(t) \/ ReadAway(t) \/ Read(t) \/ Claim(t) \/ Check(t)
    \/ SaveAndLeave(t) \/ LeaveStatus(t) \/ SaveMinted(t) \/ Execute(t)
    \/ ExecuteRaises(t) \/ RaiseStatus(t) \/ RaiseResult(t)
    \/ FinishResult(t) \/ FinishClear(t) \/ FinishStatus(t)
    \/ PurgeSelect(t) \/ PurgeDelete(t)
    \/ StopRead(t) \/ StopResult(t) \/ StopClear(t) \/ StopStatus(t)

Request(t) ==
    \/ \E r \in Rows, given \in BOOLEAN : RequestRun(t, r, given)
    \/ \E r \in Rows : RequestStop(t, r)
    \/ Fire(t)

Next ==
    \/ \E t \in Threads : Request(t) \/ Wake(t) \/ ThreadStep(t)
    \/ \E r \in Rows : ClockPasses(r)
    \/ Crash

Spec == Init /\ [][Next]_vars

\* A thread inside a call goes on; the scheduler's loop never stops ticking; the
\* clock moves.  Nobody owes a request.
FairSpec ==
    /\ Spec
    /\ \A t \in Threads : WF_vars(ThreadStep(t)) /\ WF_vars(Wake(t))
    /\ \A r \in Rows : WF_vars(ClockPasses(r))

-----------------------------------------------------------------------------
(* Properties                                                              *)

\* Every variable has its type.
TypeOK ==
    /\ db \in [Rows -> RowType]
    /\ th \in [Threads -> Local]
    /\ calls \in 0..MaxCalls /\ faults \in 0..MaxFaults
    /\ starts \in Seq(Rows)
    /\ ran \in [Rows -> [Chain -> Nat]]
    /\ stopped \subseteq Rows /\ late \in [Rows -> Nat]

\* Whatever interleaves, crashes or is written back late, no queue ever points
\* past a step that never ran, and a row whose result says `done` has run its
\* whole chain.
NoStepSkipped ==
    \A r \in Rows, k \in Chain :
        \/ db[r].progress # None /\ k < db[r].progress.at
        \/ db[r].result = "done"
        => ran[r][k] > 0

\* A row that polling reports as over (inactive after a start, or cancelled)
\* has the result to report, unless a step raised or the process died.  The order
\* of the writes in _finish_run and request_state_cancel.
PollableResult ==
    faults = 0 => \A r \in Rows :
        \/ db[r].status = "cancelled"
        \/ db[r].status = "inactive" /\ db[r].started > 0
        => db[r].result # "none"

\* A waiting row says what it waits for, so that something can wake it; only a
\* Stop between its two last writes, or cut off there by a crash, leaves it
\* without.  The order of the writes in _park_waiting.
HalfStopped(r) ==
    \/ \E t \in Threads : th[t].pc = "stopStatus" /\ th[t].row = r
    \/ faults > 0 /\ db[r].result = "cancelled"

WaitingHasWait ==
    \A r \in Rows :
        db[r].status = "waiting" /\ ~HalfStopped(r) =>
            db[r].progress # None /\ db[r].progress.wait # "none"

\* Every step runs at most once per start of the row, and once more per crash:
\* a park, a release and a wake repeat nothing.
StepOnce ==
    \A r \in Rows, k \in Chain :
        ran[r][k] <= Cardinality({i \in DOMAIN starts : starts[i] = r}) + faults

\* Once Stop has answered, the row stays cancelled and no step of it runs.
StopIsFinal ==
    \A r \in stopped : db[r].status = "cancelled" /\ late[r] = 0

\* A live runner notices Stop between two steps: at most the step it is in when
\* Stop answers runs after that.  Overlapping threads break this (README, section 5).
StopNoticed == \A r \in Rows : late[r] <= 1

\* A row is purged only when it is over and another that is over started later.
PurgeKeeps ==
    [][\A r \in Rows : db[r].here /\ ~db'[r].here =>
          /\ Finished(r)
          /\ \E q \in Rows : Finished(q) /\ db'[q].here /\ db[q].started > db[r].started]_vars

Parked(r) == db[r].here /\ db[r].status = "waiting"

ParkedOn(r, wait) ==
    Parked(r) /\ db[r].progress # None /\ db[r].progress.wait = wait

\* A parked run whose time has come does not stay parked: the tick resumes it,
\* after a crash too, unless somebody stopped it.
DueRunsResume ==
    \A r \in Rows : ParkedOn(r, "due") ~> ~Parked(r) \/ HalfStopped(r)

\* A fire of the event a run is parked on releases it: it does not stay parked.  A crash
\* breaks this (README, section 5).
ReleasedResumes == \A r \in Rows : ParkedOn(r, "released") ~> ~Parked(r)

\* The same for a process that does not die.
ReleasedResumeUnbroken ==
    \A r \in Rows : ParkedOn(r, "released") ~> ~Parked(r) \/ faults > 0

=============================================================================
