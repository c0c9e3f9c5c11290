------------------------------ MODULE StepWalk ------------------------------
(***************************************************************************)
(* The walk of one EXECUTION package by run_execution                      *)
(* (Engine/server/execution_run.py), with the join barrier of              *)
(* execution_join.py, the parks of execution_wait.py, the retry budget of  *)
(* execution_call.py and the loop descriptor of execution_loop.py.         *)
(*                                                                         *)
(* One runner walks the package.  What it keeps in memory is `walk`; what  *)
(* the state row keeps is `saved` (progress), `status` and `result`.  The  *)
(* runner may die between any two of its catalog writes and calls; the     *)
(* next run_execution of the same row starts again from `saved`.  Several  *)
(* runners on one row, and Stop, are the subject of module RunRow.         *)
(*                                                                         *)
(* Data is abstracted to what routing and identity need: a parameter that  *)
(* only a person can supply is the step that asks for it, a minted graph   *)
(* id is a number per step, and the conditions of the transitions are a    *)
(* choice among the lists of targets _passing_targets can return.          *)
(***************************************************************************)
EXTENDS Naturals, Sequences, FiniteSets, SequencesExt

CONSTANTS
    Steps,        \* step ids
    Packages,     \* the composed packages under consideration
    None,         \* the SQL NULL of state.progress, and "no runner"
    MaxItems,     \* bound: rows a for-each source can return
    MaxFaults,    \* bound: crashes and raising steps
    MaxRuns       \* bound: fresh runs of the row

Kinds  == {"query", "http", "wait", "join", "operation"}
Parks  == {"none", "clock", "event", "loop_delay", "retry_backoff"}

(***************************************************************************)
(* A route is one list _passing_targets can return: the targets in         *)
(* transition order, those that are join STEPs apart, as the first loop of *)
(* enqueue_from separates them; `back` says that the loop's back-edge is   *)
(* among them (only the tail of a looping package has such a route).       *)
(***************************************************************************)
Routes == [plain : Seq(Steps), joins : SUBSET Steps, back : BOOLEAN]

Loops == [type : {"dag", "for", "for_while", "for_each"}, entry : Steps,
          tail : Steps, body : SUBSET Steps, count : Nat, max : Nat,
          delay : BOOLEAN, source : Steps]

PackageType ==
    [first : Steps, kind : [Steps -> Kinds], next : [Steps -> SUBSET Steps],
     routes : [Steps -> SUBSET Routes],
     asks : SUBSET Steps, mints : SUBSET Steps, tries : [Steps -> Nat \ {0}],
     backoff : SUBSET Steps, loop : Loops]

JoinsOf(p) == {j \in Steps : p.kind[j] = "join"}

\* can_reach: t lies in every set that holds s and is closed under `next`.
\* (The code stops at the target; a path to t need not pass through t.)
CanReach(p, s, t) ==
    \A R \in SUBSET Steps :
        (s \in R /\ \A x \in R : p.next[x] \subseteq R) => t \in R

\* reject_join_policy: no join in a loop body, none that reaches another.
JoinPolicy(p) ==
    /\ JoinsOf(p) \cap p.loop.body = {}
    /\ \A j, k \in JoinsOf(p) : j # k => ~CanReach(p, j, k)

ASSUME StepsFinite == IsFiniteSet(Steps)

ASSUME BoundsAreNat == MaxItems \in Nat /\ MaxFaults \in Nat /\ MaxRuns \in Nat

\* What execution_compose hands to the executor.
ASSUME PackagesComposed ==
    \A p \in Packages :
        /\ p \in PackageType
        /\ JoinPolicy(p)
        /\ \A s \in Steps : \A r \in p.routes[s] :
              /\ r.joins \subseteq p.next[s] \cap JoinsOf(p)
              /\ ToSet(r.plain) \subseteq p.next[s] \ JoinsOf(p)
              /\ r.back => p.loop.type # "dag" /\ s = p.loop.tail
        /\ p.loop.type = "dag" => p.loop.body = {}
        /\ p.loop.type # "dag" =>
              /\ {p.loop.entry, p.loop.tail} \subseteq p.loop.body
              /\ p.loop.entry \in p.next[p.loop.tail]
              /\ CanReach(p, p.loop.entry, p.loop.tail)
              /\ p.loop.max > 0
        /\ p.mints \subseteq {s \in Steps : p.kind[s] = "query"}

VARIABLES
    pkg,       \* the package of the state row
    status,    \* state.status
    saved,     \* state.progress, None when NULL
    result,    \* the status inside state.result
    phase,     \* where the runner is: "idle", "head" of the loop, "exec"uting
    walk,      \* the runner's locals that a snapshot would keep
    retry,     \* retry_attempt_by_step, which no snapshot keeps
    local,     \* attempt and minted of the pass through the while body
    nextId,    \* generate_entity_id: fresh numbers
    effects,   \* history: <<step, pass, id>> of every graph write called for
    faults,    \* how many crashes and raising steps so far
    runs       \* how many fresh runs so far

vars == <<pkg, status, saved, result, phase, walk, retry, local, nextId,
          effects, faults, runs>>

row == <<status, saved, result>>

-----------------------------------------------------------------------------
(* The runner's state and what a park is                                   *)

Wait == [kind : Parks, attempt : Nat, due : BOOLEAN]

NoWait == [kind |-> "none", attempt |-> 0, due |-> TRUE]

\* trace, tries and waited are history: the steps that ran, in order; the calls
\* of a step since it was last enqueued; the wait STEPs whose own wait is over.
Walk ==
    [queue : Seq(Steps), visited : SUBSET Steps, arrivals : SUBSET Steps,
     ids : [Steps -> Nat], answered : SUBSET Steps, entered : BOOLEAN,
     iteration : Nat, items : Nat, derived : SUBSET Steps, wait : Wait,
     trace : Seq([step : Steps, pass : Nat]), tries : [Steps -> Nat],
     waited : SUBSET Steps]

ASSUME NullAssumption == None \notin Walk

Unlatched == MaxItems + 1    \* loop_state["items"] is None

FreshWalk(p, answers) ==
    [queue |-> <<p.first>>, visited |-> {}, arrivals |-> {},
     ids |-> [s \in Steps |-> 0], answered |-> answers, entered |-> FALSE,
     iteration |-> 0, items |-> Unlatched, derived |-> {}, wait |-> NoWait,
     trace |-> <<>>, tries |-> [s \in Steps |-> 0], waited |-> {}]

Looping == pkg.loop.type # "dag"
InBody(s) == Looping /\ s \in pkg.loop.body

-----------------------------------------------------------------------------
(* The join barrier                                                        *)

\* _queued_arm_can_reach
ArmPending(q, j) == \E s \in ToSet(q) : s # j /\ CanReach(pkg, s, j)

\* Slips: every offered join is taken for ready; only the joins this step offers
\* are looked at.
ReadyJoinsAtOnce(w, r) ==
    (w.arrivals \cup r.joins) \ (w.visited \cup ToSet(w.queue \o r.plain))
ReadyJoinsOffered(w, r) ==
    {j \in r.joins \ (w.visited \cup ToSet(w.queue \o r.plain)) :
        ~ArmPending(w.queue \o r.plain, j)}

\* enqueue_from: the plain targets join the queue's end; then every join that
\* has been offered (now or before: _flush_ready_joins) and that no queued arm
\* can still reach goes to the front.  Which of several ready joins comes first
\* is left open.
ReadyJoins(w, r) ==
    LET q == w.queue \o r.plain
    IN  {j \in w.arrivals \cup r.joins :
            j \notin w.visited /\ j \notin ToSet(q) /\ ~ArmPending(q, j)}

EnqueueFrom(w, r) ==
    {[w EXCEPT !.queue = js \o (w.queue \o r.plain),
               !.arrivals = w.arrivals \cup r.joins] :
        js \in SetToSeqs(ReadyJoins(w, r))}

-----------------------------------------------------------------------------
(* The loop descriptor                                                     *)

\* _should_enter_loop_body: the outcomes of the pre-test.
EntryTests(w) ==
    [dag |-> {TRUE},
     for |-> {pkg.loop.count > 0},
     for_while |-> BOOLEAN,
     for_each |-> {w.items = Unlatched \/ w.items > 0}][pkg.loop.type]

\* Slip: one pass too many.
ContinueTestsOneMore(w) ==
    [dag |-> {FALSE}, for |-> {w.iteration < pkg.loop.count}, for_while |-> BOOLEAN,
     for_each |-> {w.items # Unlatched /\ w.iteration < w.items}][pkg.loop.type]

\* _should_continue_loop: the outcomes of the test at the tail.  item_index and
\* iteration always move together.
ContinueTests(w) ==
    [dag |-> {FALSE},
     for |-> {w.iteration + 1 < pkg.loop.count},
     for_while |-> BOOLEAN,
     for_each |-> {w.items # Unlatched /\ w.iteration + 1 < w.items}][pkg.loop.type]

\* _capture_loop_items: the first run of the source latches its row count.
ItemsAfter(w, s) ==
    IF pkg.loop.type = "for_each" /\ s = pkg.loop.source /\ w.items = Unlatched
      THEN 0..MaxItems
      ELSE {w.items}

\* Slip: the derived names are forgotten and not dropped.
KeepDerived(w) ==
    [w EXCEPT !.derived = {}, !.visited = @ \ pkg.loop.body, !.iteration = @ + 1]

\* _clear_iteration_state, then the next iteration's number.
ClearIteration(w) ==
    [w EXCEPT !.ids = [s \in Steps |-> IF s \in w.derived THEN 0 ELSE w.ids[s]],
              !.derived = {},
              !.visited = @ \ pkg.loop.body,
              !.iteration = @ + 1]

-----------------------------------------------------------------------------
(* Starting, resuming, losing and ending a runner                          *)

Init ==
    /\ pkg \in Packages
    /\ status = "inactive" /\ saved = None /\ result = "none"
    /\ phase = "idle" /\ walk = None
    /\ retry = [s \in Steps |-> 1]
    /\ local = [attempt |-> 1, minted |-> FALSE]
    /\ nextId = 1 /\ effects = {} /\ faults = 0 /\ runs = 0

\* The runner returns to its caller: its locals are gone.
Return ==
    /\ phase' = "idle" /\ walk' = None
    /\ retry' = [s \in Steps |-> 1]
    /\ local' = [attempt |-> 1, minted |-> FALSE]

\* run_execution of a row without progress: a fresh run from the first step.
StartFresh ==
    /\ phase = "idle" /\ saved = None /\ runs < MaxRuns
    /\ \E answers \in SUBSET pkg.asks : walk' = FreshWalk(pkg, answers)
    /\ phase' = "head" /\ status' = "active"
    /\ runs' = runs + 1 /\ effects' = {}
    /\ UNCHANGED <<pkg, saved, result, retry, local, nextId, faults>>

\* run_execution of a row with progress, whatever its status says: a wait that
\* is not due sends the caller away, anything else goes on from the snapshot,
\* with the parameters the caller brings.
Resume ==
    /\ phase = "idle" /\ saved # None /\ saved.wait.due
    /\ \E answers \in SUBSET pkg.asks :
          walk' = [saved EXCEPT !.answered = @ \cup answers]
    /\ phase' = "head" /\ status' = "active"
    /\ UNCHANGED <<pkg, saved, result, retry, local, nextId, effects, faults, runs>>

\* The clock passes wait.until, or the event fires and releases the waiter.
WaitDue ==
    /\ saved # None /\ ~saved.wait.due
    /\ saved' = [saved EXCEPT !.wait.due = TRUE]
    /\ UNCHANGED <<pkg, status, result, phase, walk, retry, local, nextId,
                   effects, faults, runs>>

\* The process dies with the runner inside.
Crash ==
    /\ phase # "idle" /\ faults < MaxFaults
    /\ Return
    /\ faults' = faults + 1
    /\ UNCHANGED <<pkg, status, saved, result, nextId, effects, runs>>

\* _finish_run
FinishRun(outcome) ==
    /\ status' = "inactive" /\ saved' = None /\ result' = outcome
    /\ Return

\* _park_waiting, and the "pending" return: a snapshot, a status, and away.
Leave(w, newStatus) ==
    /\ status' = newStatus /\ saved' = w /\ UNCHANGED result
    /\ Return

-----------------------------------------------------------------------------
(* One pass through `while queue`, up to the call                          *)

\* The queue is empty: the chain has finished.
Finish ==
    /\ phase = "head" /\ walk.queue = <<>>
    /\ FinishRun("done")
    /\ UNCHANGED <<pkg, nextId, effects, faults, runs>>

AtHead(s) == phase = "head" /\ walk.queue # <<>> /\ s = Head(walk.queue)

\* A duplicate of a step that has run is dropped.
DropVisited(s) ==
    /\ AtHead(s) /\ s \in walk.visited
    /\ walk' = [walk EXCEPT !.queue = Tail(@), !.wait = NoWait]
    /\ UNCHANGED <<pkg, row, phase, retry, local, nextId, effects, faults, runs>>

\* The loop is pre-tested once, before its first pass.
Pretested(s) == Looping /\ s = pkg.loop.entry /\ ~walk.entered

\* The pre-test fails: on to the tail's exit targets without running the body.
SkipLoop(s) ==
    /\ AtHead(s) /\ s \notin walk.visited
    /\ Pretested(s) /\ FALSE \in EntryTests(walk)
    /\ \E r \in pkg.routes[pkg.loop.tail] :
          walk' \in EnqueueFrom([walk EXCEPT !.queue = Tail(@), !.entered = TRUE,
                                             !.wait = NoWait], r)
    /\ UNCHANGED <<pkg, row, phase, retry, local, nextId, effects, faults, runs>>

\* The head step is going to be looked at; `Opened` is the walk from there on.
Taken(s) ==
    /\ AtHead(s) /\ s \notin walk.visited
    /\ Pretested(s) => TRUE \in EntryTests(walk)

Opened(s) ==
    [walk EXCEPT !.entered = @ \/ Pretested(s), !.wait = NoWait]

\* Slip: a parameter that has been supplied is asked for again.
AskedAgain(s) == s \in pkg.asks

Unresolved(s) == s \in pkg.asks \ walk.answered

\* A required parameter only a person can give: the run is left pending.
AskOperator(s) ==
    /\ Taken(s) /\ Unresolved(s)
    /\ Leave(Opened(s), "pending")
    /\ UNCHANGED <<pkg, nextId, effects, faults, runs>>

\* Slip: a wait STEP never parks.
NeverParks(s) == TRUE

\* complete_pending_wait: this runner resumed from a wait that was due.
CompletePendingWait(s) == walk.wait.kind # "none"

MustPark(s) == pkg.kind[s] = "wait" /\ ~CompletePendingWait(s)

\* park_spec_for_step gives a wait: an event, or a time still to come.
ParkWait(s) ==
    /\ Taken(s) /\ ~Unresolved(s) /\ MustPark(s)
    /\ \E kind \in {"clock", "event"} :
          Leave([Opened(s) EXCEPT
                    !.wait = [kind |-> kind, attempt |-> 0, due |-> FALSE],
                    !.waited = @ \cup {s}],
                "waiting")
    /\ UNCHANGED <<pkg, nextId, effects, faults, runs>>

\* A wait or call policy that does not parse ends the run with an error.
RejectPolicy(s) ==
    /\ Taken(s) /\ ~Unresolved(s)
    /\ MustPark(s) \/ pkg.kind[s] = "http"
    /\ faults < MaxFaults /\ faults' = faults + 1
    /\ FinishRun("error")
    /\ UNCHANGED <<pkg, nextId, effects, runs>>

\* _mint_auto_ids: the ids the step still lacks.
Minted(s, w) == s \in pkg.mints /\ w.ids[s] = 0

WithMintedId(s, w) ==
    IF Minted(s, w) THEN [w EXCEPT !.ids[s] = nextId] ELSE w

\* Slip: the snapshot before the call is left out.
MintUnsaved(s, w) == saved

\* Fresh ids are persisted before the step executes.
SavedAfterMint(s, w) == IF Minted(s, w) THEN WithMintedId(s, w) ELSE saved

\* The try this call is: after a backoff park the one the wait names.
AttemptOf(s) ==
    IF walk.wait.kind = "retry_backoff" THEN walk.wait.attempt ELSE retry[s]

\* Everything before the call: the wait is over or there is none, ids are
\* minted and saved, the try is numbered; the call goes out.
Call(s) ==
    /\ Taken(s) /\ ~Unresolved(s)
    /\ LET over == MustPark(s)    \* zero duration, or until in the past
           w == WithMintedId(s, Opened(s))
       IN  /\ walk' = [w EXCEPT !.tries[s] = @ + 1,
                                !.waited = IF over THEN @ \cup {s} ELSE @]
           /\ saved' = SavedAfterMint(s, Opened(s))
           /\ local' = [attempt |-> AttemptOf(s), minted |-> Minted(s, Opened(s))]
           /\ nextId' = IF Minted(s, Opened(s)) THEN nextId + 1 ELSE nextId
           /\ effects' = IF s \in pkg.mints
                           THEN effects \cup {<<s, w.iteration, w.ids[s]>>}
                           ELSE effects
    /\ phase' = "exec"
    /\ UNCHANGED <<pkg, status, result, retry, faults, runs>>

-----------------------------------------------------------------------------
(* The call's outcome                                                      *)

Executing(s) == phase = "exec" /\ s = Head(walk.queue)

\* _execute_step raises: inactive, the error as the result, the progress kept.
StepRaises(s) ==
    /\ Executing(s) /\ pkg.kind[s] \notin {"wait", "join"}
    /\ faults < MaxFaults /\ faults' = faults + 1
    /\ status' = "inactive" /\ result' = "error" /\ UNCHANGED saved
    /\ Return
    /\ UNCHANGED <<pkg, nextId, effects, runs>>

\* operation.apply raises on a collision: the run ends, its progress wiped.
OperationFails(s) ==
    /\ Executing(s) /\ pkg.kind[s] = "operation"
    /\ faults < MaxFaults /\ faults' = faults + 1
    /\ FinishRun("error")
    /\ UNCHANGED <<pkg, nextId, effects, runs>>

\* A call that is not ok has tries left.
MayRetry(s) == local.attempt < pkg.tries[s]

\* Slip: the wait carries the try that failed.
SameAttempt(s) == local.attempt

\* The try to make after this one; a backoff park carries it.
NextAttempt(s) == local.attempt + 1

RetryNow(s) ==
    /\ Executing(s) /\ pkg.kind[s] = "http" /\ MayRetry(s)
    /\ s \notin pkg.backoff
    /\ retry' = [retry EXCEPT ![s] = NextAttempt(s)]
    /\ phase' = "head"
    /\ UNCHANGED <<pkg, row, walk, local, nextId, effects, faults, runs>>

RetryLater(s) ==
    /\ Executing(s) /\ pkg.kind[s] = "http" /\ MayRetry(s)
    /\ s \in pkg.backoff
    /\ Leave([walk EXCEPT !.wait = [kind |-> "retry_backoff",
                                    attempt |-> NextAttempt(s), due |-> FALSE]],
             "waiting")
    /\ UNCHANGED <<pkg, nextId, effects, faults, runs>>

\* Slip: the step is not marked visited.
RanUnmarked(s, items) ==
    [walk EXCEPT
        !.queue = Tail(@), !.trace = Append(@, [step |-> s, pass |-> walk.iteration]),
        !.tries[s] = 0, !.waited = @ \ {s}, !.items = items,
        !.derived = IF InBody(s) /\ local.minted THEN @ \cup {s} ELSE @]

\* The step has run: off the queue, visited, its names bound, its row count
\* latched, the names it introduced inside the body noted for clearing.
Ran(s, items) ==
    [walk EXCEPT
        !.queue = Tail(@), !.visited = @ \cup {s},
        !.trace = Append(@, [step |-> s, pass |-> walk.iteration]),
        !.tries[s] = 0, !.waited = @ \ {s}, !.items = items,
        !.derived = IF InBody(s) /\ local.minted THEN @ \cup {s} ELSE @]

AtTail(s) == Looping /\ s = pkg.loop.tail

\* Not at the tail, or the loop is over: the outgoing transitions are queued.
StepDone(s) ==
    /\ Executing(s)
    /\ \E r \in pkg.routes[s], items \in ItemsAfter(walk, s) :
          /\ AtTail(s) /\ r.back => FALSE \in ContinueTests(Ran(s, items))
          /\ walk' \in EnqueueFrom(Ran(s, items), r)
    /\ phase' = "head"
    /\ retry' = [retry EXCEPT ![s] = 1]
    /\ UNCHANGED <<pkg, row, local, nextId, effects, faults, runs>>

\* The tail ran and its back-edge is to be followed once more.
Continues(s, items) ==
    /\ Executing(s) /\ AtTail(s)
    /\ \E r \in pkg.routes[s] : r.back
    /\ items \in ItemsAfter(walk, s)
    /\ TRUE \in ContinueTests(Ran(s, items))

AtLimit == walk.iteration + 1 >= pkg.loop.max

LoopLimit(s) ==
    /\ \E items \in 0..Unlatched : Continues(s, items) /\ AtLimit
    /\ FinishRun("error")
    /\ UNCHANGED <<pkg, nextId, effects, faults, runs>>

\* Slip: the back-edge is followed from its wrong end.
BackToTail(w) == [w EXCEPT !.queue = Append(@, pkg.loop.tail)]

BackToEntry(w) == [w EXCEPT !.queue = Append(@, pkg.loop.entry)]

NextPass(s) ==
    /\ ~pkg.loop.delay
    /\ \E items \in 0..Unlatched :
          /\ Continues(s, items) /\ ~AtLimit
          /\ walk' = BackToEntry(ClearIteration(Ran(s, items)))
    /\ phase' = "head"
    /\ retry' = [retry EXCEPT ![s] = 1]
    /\ UNCHANGED <<pkg, row, local, nextId, effects, faults, runs>>

\* delay_seconds parks between two passes.
NextPassLater(s) ==
    /\ pkg.loop.delay
    /\ \E items \in 0..Unlatched :
          /\ Continues(s, items) /\ ~AtLimit
          /\ Leave([BackToEntry(ClearIteration(Ran(s, items))) EXCEPT
                        !.wait = [kind |-> "loop_delay", attempt |-> 0, due |-> FALSE]],
                   "waiting")
    /\ UNCHANGED <<pkg, nextId, effects, faults, runs>>

-----------------------------------------------------------------------------

\* What a runner that has been started does without waiting for anyone.
RunnerStep ==
    \/ Finish
    \/ \E s \in Steps :
          \/ DropVisited(s) \/ SkipLoop(s) \/ AskOperator(s) \/ ParkWait(s)
          \/ RejectPolicy(s) \/ Call(s)
          \/ StepRaises(s) \/ OperationFails(s) \/ RetryNow(s) \/ RetryLater(s)
          \/ StepDone(s) \/ LoopLimit(s) \/ NextPass(s) \/ NextPassLater(s)

Next == StartFresh \/ Resume \/ WaitDue \/ Crash \/ RunnerStep

Spec == Init /\ [][Next]_vars

(***************************************************************************)
(* Fairness.  A started runner goes on (nothing in it waits); the clock    *)
(* moves, and events that are waited for fire; the scheduler's tick, or    *)
(* the event's release, resumes a run that is due; a person who sees a     *)
(* pending run in the end supplies what it asks for.                       *)
(***************************************************************************)
ResumeWaiting == Resume /\ status = "waiting"
ResumeAnswered == Resume /\ walk'.answered = pkg.asks

FairSpec ==
    /\ Spec
    /\ WF_vars(RunnerStep) /\ WF_vars(WaitDue)
    /\ WF_vars(ResumeWaiting) /\ SF_vars(ResumeAnswered)

-----------------------------------------------------------------------------
(* Properties                                                              *)

\* Every variable has its type; a pass number stays below the loop's limit and
\* a try number within the step's budget.
TypeOK ==
    /\ status \in {"inactive", "active", "pending", "waiting"}
    /\ result \in {"none", "done", "error"}
    /\ phase \in {"idle", "head", "exec"}
    /\ (walk = None) <=> (phase = "idle")
    /\ \A w \in {walk, saved} \ {None} :
          /\ w \in Walk
          /\ Looping => w.iteration < pkg.loop.max
          /\ w.items \in 0..Unlatched
    /\ retry \in [Steps -> Nat \ {0}]
    /\ local \in [attempt : Nat, minted : BOOLEAN]
    /\ nextId \in Nat \ {0}
    /\ effects \subseteq Steps \X Nat \X Nat
    /\ faults \in 0..MaxFaults /\ runs \in 0..MaxRuns

LiveWalks == {walk, saved} \ {None}

\* A join is a barrier: once it is queued or has run, no step still queued leads
\* to it, unless the join itself leads back to that step.  enqueue_from and
\* _flush_ready_joins.
JoinAfterArms ==
    \A w \in LiveWalks :
        \A j \in JoinsOf(pkg) \cap (w.visited \cup ToSet(w.queue)) :
            \A s \in ToSet(w.queue) \ {j} :
                CanReach(pkg, s, j) => CanReach(pkg, j, s)

\* A join some arm has offered has run when the chain finishes: the barrier
\* may hold it back, never lose it.  _flush_ready_joins.
OfferedJoinsRun ==
    phase = "head" /\ walk.queue = <<>> => walk.arrivals \subseteq walk.visited

\* The same for the packages in which every step with several predecessors on
\* the way to a join is itself a join: there the barrier loses none.
PlainArms ==
    \A t \in Steps \ JoinsOf(pkg), j \in JoinsOf(pkg) :
        CanReach(pkg, t, j) => Cardinality({s \in Steps : t \in pkg.next[s]}) <= 1

PlainArmsJoin == PlainArms => OfferedJoinsRun

\* A step runs at most once, in a loop at most once per pass, whatever the fan-in
\* and the parks in between.  (A crash takes the walk and its trace back to the
\* snapshot: what ran since then runs again.)
OncePerPass ==
    \A w \in LiveWalks :
        \A i, k \in DOMAIN w.trace : w.trace[i] = w.trace[k] => i = k

\* The first body step of every pass is the loop's entry: a pass never begins
\* in the middle of the body.  _clear_iteration_state and the back-edge.
PassOpensAtEntry ==
    \A w \in LiveWalks :
        \A i \in DOMAIN w.trace :
            InBody(w.trace[i].step) =>
                \E k \in 1..i : w.trace[k] = [w.trace[i] EXCEPT !.step = pkg.loop.entry]

\* A `for` loop whose transitions are unconditional runs its entry exactly
\* `count` times before the chain finishes.
CountedPasses ==
    (/\ phase = "head" /\ walk.queue = <<>> /\ pkg.loop.type = "for"
     /\ \A s \in Steps : Cardinality(pkg.routes[s]) = 1) =>
        Cardinality({i \in DOMAIN walk.trace : walk.trace[i].step = pkg.loop.entry})
            = pkg.loop.count

\* Between its enqueueing and its completion a call is made at most max_attempts
\* times, across immediate retries and backoff parks; a crash takes the count back
\* to the snapshot, as it does the walk.
TriesWithinBudget ==
    \A w \in LiveWalks : \A s \in Steps : w.tries[s] <= pkg.tries[s]

\* A wait STEP completes only after its own wait: parked for and due, or already
\* over when the walk came to it.
WaitsServed ==
    phase = "exec" /\ pkg.kind[Head(walk.queue)] = "wait" =>
        Head(walk.queue) \in walk.waited

\* However often a create step is called again after a crash or an error, within
\* one pass it is called with one id, so the graph's MERGE stays idempotent.
\* _mint_auto_ids and the snapshot before the call.
StableIds ==
    \A a, b \in effects : a[1] = b[1] /\ a[2] = b[2] => a[3] = b[3]

\* Two passes of a loop create two entities: a create step of the body has a
\* different id in every pass.  _mint_auto_ids and _clear_iteration_state.  A crash
\* between a mint and its call breaks this (README, section 5).
FreshIdPerPass ==
    \A a, b \in effects :
        a[1] = b[1] /\ a[2] # b[2] /\ InBody(a[1]) => a[3] # b[3]

\* The same as long as nothing has crashed or raised: a pass that is not resumed
\* between its mint and its call leaves no id behind.
FreshIdsUnbroken == faults = 0 => FreshIdPerPass

\* A run that was started ends, or dies with its process (only a crash leaves the
\* row active without a runner): no barrier, retry, park or loop keeps it going
\* or holds it for ever.
Terminates ==
    phase # "idle" ~> phase = "idle" /\ status \in {"inactive", "active"}

=============================================================================
