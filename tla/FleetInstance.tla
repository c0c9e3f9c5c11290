--------------------------- MODULE FleetInstance ----------------------------
(***************************************************************************)
(* The control plane's instance rows (control_plane/) and the Fly apps and *)
(* Stripe subscriptions behind them: a hosted sandbox is provisioned,      *)
(* expires, is suspended, and is deleted after a grace period unless its   *)
(* owner upgrades; a hosted basic instance is provisioned when paid for.   *)
(*                                                                         *)
(* Three kinds of threads share the rows and lock nothing:                 *)
(*  - the event loop, which runs one `async def` handler at a time:        *)
(*    create, upgrade, the Stripe webhook, presence; a handler gives way   *)
(*    where it awaits the request's body, which presence does after it has *)
(*    read its row;                                                        *)
(*  - one job thread per webhook or creation: provision_fleet, _resume and *)
(*    _resume_stop;                                                        *)
(*  - the scheduler's thread: tick.                                        *)
(* Each database call and each group of calls to Fly is one step.          *)
(*                                                                         *)
(* A date is abstracted to "ahead" or "past".  Days pass only while no     *)
(* handler, job or tick is under way and no event of Stripe is undelivered:*)
(* those last minutes, or three days at most, and a checkout session a day.*)
(***************************************************************************)
EXTENDS Naturals, FiniteSets

CONSTANTS
    Rows,          \* instance ids, of one account
    None,          \* no row yet, the SQL NULL
    UpgradeFrom,   \* statuses in which the wizard's upgrade button is pressed
    MaxCheckouts,  \* bound: checkout sessions opened; one of a row is paid
    MaxReports,    \* bound: presence reports
    MaxFaults      \* bound: failing Fly and Stripe calls, process crashes

Tiers    == {"sandbox", "vip", "basic"}
Statuses == {"pending_payment", "provisioning", "running", "suspended",
             "failed", "deleted"}
Dates    == {"none", "ahead", "past"}
Modes    == {"on", "sleep", "suspended"}

ASSUME FleetAssumption ==
    /\ IsFiniteSet(Rows) /\ UpgradeFrom \subseteq Statuses
    /\ MaxCheckouts \in Nat /\ MaxReports \in Nat /\ MaxFaults \in Nat

\* machine, volume: the ids are stored; events: event_count is not zero.
RowType == [tier : Tiers, status : Statuses, sub : {"none", "active", "canceled"},
            expires : Dates, deadline : Dates, machine : BOOLEAN, volume : BOOLEAN,
            events : BOOLEAN, sleep : BOOLEAN]

ASSUME NullAssumption == None \notin RowType /\ None \notin Rows /\ None \notin Modes

\* What Fly has for the row's app name.
FlyType == [app : BOOLEAN, volume : BOOLEAN, machine : Modes \cup {None}]

Kinds == {"completed", "deleted"}

\* The id of a Stripe event: a kind of news about the n-th checkout session.
Events == [kind : Kinds, row : Rows, n : 1..MaxCheckouts]

VARIABLES
    db,        \* the instances table
    fly,       \* the apps at Fly
    seen,      \* the stripe_events table
    stripe,    \* external: sessions opened, events Stripe delivers
    loop,      \* the handler under way, with the row it read
    report,    \* a presence report that waits for its body, with the row it read
    job,       \* the provisioning job of each row
    modes,     \* the _resume and _resume_stop jobs: <<row, mode>>
    tick,      \* the scheduler's thread
    reports,   \* presence reports so far
    faults,    \* faults so far
    apart      \* history: so far nothing began while something was under way

vars == <<db, fly, seen, stripe, loop, report, job, modes, tick, reports, faults, apart>>

IdleLoop == [pc |-> "idle", row |-> None, copy |-> None, event |-> None]
NoReport == [row |-> None, copy |-> None, events |-> FALSE]
IdleJob  == [pc |-> "idle", copy |-> None]
IdleTick == [pc |-> "idle", todo |-> {}, row |-> None]

NoApp == [app |-> FALSE, volume |-> FALSE, machine |-> None]

Init ==
    /\ db = [r \in Rows |-> None] /\ fly = [r \in Rows |-> NoApp]
    /\ seen = {} /\ stripe = [open |-> {}, live |-> {}, paid |-> {}, news |-> {}]
    /\ loop = IdleLoop /\ report = NoReport /\ job = [r \in Rows |-> IdleJob] /\ modes = {}
    /\ tick = IdleTick
    /\ reports = 0 /\ faults = 0 /\ apart = TRUE

-----------------------------------------------------------------------------
(* Whose turn it is                                                        *)

JobsIdle == modes = {} /\ \A r \in Rows : job[r].pc = "idle"
Quiet == loop.pc = "idle" /\ report = NoReport /\ JobsIdle /\ tick.pc = "idle"

\* A handler or a tick begins.
Begin == apart' = (apart /\ Quiet)

Fault == faults < MaxFaults /\ faults' = faults + 1

Store(r, row) == db' = [db EXCEPT ![r] = row]

-----------------------------------------------------------------------------
(* lifecycle.py                                                            *)

\* machine_awake and sleep_allowed
Awake(tier, events) == tier # "sandbox" \/ events

\* Slip: a sandbox that is kept awake is not due.
DueIfIdle(row) ==
    /\ row # None /\ row.tier = "sandbox" /\ row.status = "running"
    /\ row.expires = "past" /\ ~row.events

DueForSuspend(row) ==
    row # None /\ row.tier = "sandbox" /\ row.status = "running" /\ row.expires = "past"

SuspendFields(row) ==
    [row EXCEPT !.status = "suspended", !.deadline = "ahead", !.sleep = FALSE]

UpgradeFields(row) ==
    [row EXCEPT !.tier = "basic", !.status = "running", !.sub = "active",
                !.expires = "none", !.deadline = "none", !.sleep = FALSE]

CancelFields(row) ==
    [row EXCEPT !.sub = "canceled", !.status = "suspended", !.deadline = "ahead",
                !.sleep = FALSE]

\* Slip: only what was paid for once.
DeleteCanceled(row) ==
    /\ row # None /\ row.status = "suspended"
    /\ row.tier # "vip" /\ row.sub = "canceled" /\ row.deadline = "past"

ShouldDelete(row) ==
    /\ row # None /\ row.status = "suspended"
    /\ row.tier # "vip" /\ row.sub # "active" /\ row.deadline = "past"

PresenceFields(row, tier, events) ==
    [row EXCEPT !.events = events, !.sleep = ~Awake(tier, events)]

-----------------------------------------------------------------------------
(* POST /api/instances and .../upgrade                                     *)

MoreCheckouts == Cardinality(stripe.open) < MaxCheckouts

\* prepare_fleet_row; has_active_sandbox counts every status but `deleted`.  The
\* cap on the sandboxes of all accounts together is left out.
Prepared(tier) ==
    [tier |-> tier, status |-> IF tier = "basic" THEN "pending_payment" ELSE "provisioning",
     sub |-> "none", expires |-> IF tier = "sandbox" THEN "ahead" ELSE "none",
     deadline |-> "none", machine |-> FALSE, volume |-> FALSE, events |-> FALSE,
     sleep |-> tier = "sandbox"]

BlocksAnother(row) == row # None /\ row.tier = "sandbox" /\ row.status # "deleted"

CreateHosted(r, tier) ==
    /\ Begin /\ loop.pc = "idle" /\ db[r] = None /\ tier # "basic"
    /\ tier = "sandbox" => \A q \in Rows : ~BlocksAnother(db[q])
    /\ Store(r, Prepared(tier))
    /\ job' = [job EXCEPT ![r].pc = "read"]
    /\ UNCHANGED <<fly, seen, stripe, loop, report, modes, tick, reports, faults>>

CreateBasic(r) ==
    /\ Begin /\ loop.pc = "idle" /\ db[r] = None /\ MoreCheckouts
    /\ Store(r, Prepared("basic"))
    /\ loop' = [IdleLoop EXCEPT !.pc = "checkout", !.row = r,
                                !.copy = [Prepared("basic") EXCEPT !.status = "failed"]]
    /\ UNCHANGED <<fly, seen, stripe, report, job, modes, tick, reports, faults>>

Upgrade(r) ==
    /\ Begin /\ loop.pc = "idle" /\ MoreCheckouts
    /\ db[r] # None /\ db[r].tier = "sandbox" /\ db[r].status \in UpgradeFrom
    /\ loop' = [IdleLoop EXCEPT !.pc = "pend", !.row = r, !.copy = db[r]]
    /\ UNCHANGED <<db, fly, seen, stripe, report, job, modes, tick, reports, faults>>

UpgradePends ==
    /\ loop.pc = "pend"
    /\ Store(loop.row, [db[loop.row] EXCEPT !.status = "pending_payment"])
    /\ loop' = [loop EXCEPT !.pc = "checkout"]
    /\ UNCHANGED <<fly, seen, stripe, report, job, modes, tick, reports, faults, apart>>

CheckoutOpens ==
    /\ loop.pc = "checkout"
    /\ LET session == <<loop.row, Cardinality(stripe.open) + 1>>
       IN  stripe' = [stripe EXCEPT !.open = @ \cup {session}, !.live = @ \cup {session}]
    /\ loop' = IdleLoop
    /\ UNCHANGED <<db, fly, seen, report, job, modes, tick, reports, faults, apart>>

\* A failing checkout puts back the status that was read.
CheckoutFails ==
    /\ loop.pc = "checkout" /\ Fault
    /\ Store(loop.row, [db[loop.row] EXCEPT !.status = loop.copy.status])
    /\ loop' = IdleLoop
    /\ UNCHANGED <<fly, seen, stripe, report, job, modes, tick, reports, apart>>

-----------------------------------------------------------------------------
(* External: Stripe.  Its events come at least once and in any order.      *)
(* Bound: of the sessions of a row one is paid.                            *)

Pays(s) ==
    /\ s \in stripe.live /\ \A t \in stripe.paid : t[1] # s[1]
    /\ stripe' = [stripe EXCEPT !.paid = @ \cup {s}, !.live = @ \ {s},
                     !.news = @ \cup {[kind |-> "completed", row |-> s[1], n |-> s[2]]}]
    /\ UNCHANGED <<db, fly, seen, loop, report, job, modes, tick, reports, faults, apart>>

SubscriptionEnds(s) ==
    /\ s \in stripe.paid
    /\ stripe' = [stripe EXCEPT
                     !.news = @ \cup {[kind |-> "deleted", row |-> s[1], n |-> s[2]]}]
    /\ UNCHANGED <<db, fly, seen, loop, report, job, modes, tick, reports, faults, apart>>

-----------------------------------------------------------------------------
(* POST /api/stripe/webhook                                                *)

\* remember_stripe_event: a second delivery is answered and changes nothing.
Remembered(e) == e \in seen

Webhook(e) ==
    /\ Begin /\ loop.pc = "idle" /\ e \in stripe.news /\ ~Remembered(e)
    /\ seen' = seen \cup {e}
    /\ loop' = [IdleLoop EXCEPT !.pc = "webhook", !.row = e.row, !.event = e]
    /\ UNCHANGED <<db, fly, stripe, report, job, modes, tick, reports, faults>>

WebhookReads ==
    /\ loop.pc = "webhook"
    /\ loop' = [loop EXCEPT !.pc = loop.event.kind, !.copy = db[loop.row]]
    /\ UNCHANGED <<db, fly, seen, stripe, report, job, modes, tick, reports, faults, apart>>

\* checkout.session.completed
PaidFields(row, tier) ==
    IF tier = "sandbox" THEN UpgradeFields(row)
    ELSE [row EXCEPT !.sub = "active", !.status = "provisioning"]

\* The mode _resume asks for; slip: the mode the row would have as a sandbox.
ResumesAsSandbox(row) == IF row.events THEN "on" ELSE "sleep"
ResumesAs(row) == "on"

Completed ==
    /\ loop.pc = "completed"
    /\ LET r == loop.row  paid == PaidFields(db[r], loop.copy.tier)
       IN  /\ Store(r, paid)
           /\ modes' = IF loop.copy.tier = "sandbox" /\ paid.machine
                         THEN modes \cup {<<r, ResumesAs(paid)>>} ELSE modes
           /\ job' = IF loop.copy.tier # "sandbox" /\ ~loop.copy.machine
                       THEN [job EXCEPT ![r].pc = "read"] ELSE job
    /\ loop' = IdleLoop
    /\ UNCHANGED <<fly, seen, stripe, report, tick, reports, faults, apart>>

\* The mode _resume_stop asks for.
StopsAs == "suspended"

\* customer.subscription.deleted
Canceled ==
    /\ loop.pc = "deleted"
    /\ Store(loop.row, CancelFields(db[loop.row]))
    /\ modes' = IF loop.copy.machine THEN modes \cup {<<loop.row, StopsAs>>} ELSE modes
    /\ loop' = IdleLoop
    /\ UNCHANGED <<fly, seen, stripe, report, job, tick, reports, faults, apart>>

-----------------------------------------------------------------------------
(* set_mode, the _resume and _resume_stop jobs, presence                   *)

\* An app without a machine answers with an error.
SetMode(r, mode) == fly[r].machine # None /\ fly' = [fly EXCEPT ![r].machine = mode]

ModeJob(r, mode) ==
    /\ <<r, mode>> \in modes /\ modes' = modes \ {<<r, mode>>}
    /\ \/ SetMode(r, mode) /\ UNCHANGED faults
       \/ fly[r].machine = None /\ UNCHANGED <<fly, faults>>
       \/ Fault /\ UNCHANGED fly
    /\ UNCHANGED <<db, seen, stripe, loop, report, job, tick, reports, apart>>

\* The instance reports its number of events; it must be up and hold the token.
Presence(r, events) ==
    /\ Begin /\ loop.pc = "idle" /\ report = NoReport /\ reports < MaxReports
    /\ db[r] # None /\ db[r].machine /\ fly[r].machine \in {"on", "sleep"}
    /\ reports' = reports + 1
    /\ report' = [row |-> r, copy |-> db[r], events |-> events]
    /\ UNCHANGED <<db, fly, seen, stripe, loop, job, modes, tick, faults>>

\* The body has come: note_events, with the row read before.
ShouldTouchMachine(row) == row.tier = "sandbox" /\ row.status = "running"

PresenceStores ==
    /\ report # NoReport /\ loop.pc = "idle"
    /\ Store(report.row, PresenceFields(db[report.row], report.copy.tier, report.events))
    /\ IF ShouldTouchMachine(report.copy)
         THEN loop' = [IdleLoop EXCEPT !.pc = "touch"] /\ UNCHANGED report
         ELSE report' = NoReport /\ UNCHANGED loop
    /\ UNCHANGED <<fly, seen, stripe, job, modes, tick, reports, faults, apart>>

PresenceTouches ==
    /\ loop.pc = "touch"
    /\ \/ /\ SetMode(report.row, IF Awake("sandbox", report.events) THEN "on" ELSE "sleep")
          /\ UNCHANGED faults
       \/ fly[report.row].machine = None /\ UNCHANGED <<fly, faults>>
       \/ Fault /\ UNCHANGED fly
    /\ loop' = IdleLoop /\ report' = NoReport
    /\ UNCHANGED <<db, seen, stripe, job, modes, tick, reports, apart>>

-----------------------------------------------------------------------------
(* provision_fleet.  Every row it is called for has no machine yet.        *)

JobReads(r) ==
    /\ job[r].pc = "read"
    /\ job' = [job EXCEPT ![r] = [pc |-> "mark", copy |-> db[r]]]
    /\ UNCHANGED <<db, fly, seen, stripe, loop, report, modes, tick, reports, faults, apart>>

JobMarks(r) ==
    /\ job[r].pc = "mark"
    /\ Store(r, [db[r] EXCEPT !.status = "provisioning"])
    /\ job' = [job EXCEPT ![r].pc = "build"]
    /\ UNCHANGED <<fly, seen, stripe, loop, report, modes, tick, reports, faults, apart>>

AwakeAsRead(r) == Awake(job[r].copy.tier, job[r].copy.events)

JobBuilds(r) ==
    /\ job[r].pc = "build"
    /\ fly' = [fly EXCEPT ![r] = [app |-> TRUE, volume |-> TRUE,
                   machine |-> IF AwakeAsRead(r) THEN "on" ELSE "sleep"]]
    /\ job' = [job EXCEPT ![r].pc = "record"]
    /\ UNCHANGED <<db, seen, stripe, loop, report, modes, tick, reports, faults, apart>>

JobRecords(r) ==
    /\ job[r].pc = "record"
    /\ Store(r, [db[r] EXCEPT !.machine = TRUE, !.volume = TRUE, !.sleep = ~AwakeAsRead(r)])
    /\ job' = [job EXCEPT ![r].pc = "health"]
    /\ UNCHANGED <<fly, seen, stripe, loop, report, modes, tick, reports, faults, apart>>

\* wait_healthy and setup_admin have answered.
JobFinishes(r) ==
    /\ job[r].pc = "health"
    /\ Store(r, [db[r] EXCEPT !.status = "running"])
    /\ job' = [job EXCEPT ![r] = IdleJob]
    /\ UNCHANGED <<fly, seen, stripe, loop, report, modes, tick, reports, faults, apart>>

\* A Fly call or the health check raises: what was made before it stays.
JobFails(r) ==
    /\ job[r].pc \in {"build", "health"} /\ Fault
    /\ IF job[r].pc = "build"
         THEN \E made \in {{}, {"app"}, {"app", "volume"}} :
                fly' = [fly EXCEPT ![r].app = "app" \in made, ![r].volume = "volume" \in made]
         ELSE UNCHANGED fly
    /\ Store(r, [db[r] EXCEPT !.status = "failed"])
    /\ job' = [job EXCEPT ![r] = IdleJob]
    /\ UNCHANGED <<seen, stripe, loop, report, modes, tick, reports, apart>>

-----------------------------------------------------------------------------
(* tick: suspend what has expired, delete what was suspended long enough   *)

Due      == {r \in Rows : DueForSuspend(db[r])}
Doomed   == {r \in Rows : ShouldDelete(db[r])}

\* `continue`: the row is left for the next tick.  Slip: the row is done with.
ErrorIgnored == [tick EXCEPT !.pc = "deleted"]
LeftForLater == [tick EXCEPT !.pc = "delete"]

TickBegins ==
    /\ Begin /\ tick.pc = "idle" /\ Due \cup Doomed # {}
    /\ tick' = [IdleTick EXCEPT !.pc = "suspend", !.todo = Due]
    /\ UNCHANGED <<db, fly, seen, stripe, loop, report, job, modes, reports, faults>>

\* An error here ends the tick for all rows.
TickStops(r) ==
    /\ tick.pc = "suspend" /\ r \in tick.todo
    /\ \/ SetMode(r, "suspended") /\ UNCHANGED faults
          /\ tick' = [tick EXCEPT !.pc = "store", !.row = r, !.todo = @ \ {r}]
       \/ Fault /\ UNCHANGED fly /\ tick' = IdleTick
    /\ UNCHANGED <<db, seen, stripe, loop, report, job, modes, reports, apart>>

TickSuspends ==
    /\ tick.pc = "store"
    /\ Store(tick.row, SuspendFields(db[tick.row]))
    /\ tick' = [tick EXCEPT !.pc = "suspend"]
    /\ UNCHANGED <<fly, seen, stripe, loop, report, job, modes, reports, faults, apart>>

TickLists ==
    /\ tick.pc = "suspend" /\ tick.todo = {}
    /\ tick' = [tick EXCEPT !.pc = "delete", !.todo = Doomed]
    /\ UNCHANGED <<db, fly, seen, stripe, loop, report, job, modes, reports, faults, apart>>

\* A volume that is not there is no error.
TickDeletesVolume(r) ==
    /\ tick.pc = "delete" /\ r \in tick.todo
    /\ \/ /\ fly' = IF db[r].volume THEN [fly EXCEPT ![r].volume = FALSE] ELSE fly
          /\ tick' = [tick EXCEPT !.pc = "app", !.row = r, !.todo = @ \ {r}]
          /\ UNCHANGED faults
       \/ db[r].volume /\ Fault /\ UNCHANGED fly /\ tick' = [tick EXCEPT !.todo = @ \ {r}]
    /\ UNCHANGED <<db, seen, stripe, loop, report, job, modes, reports, apart>>

\* An app that is not there is an error too; with the app its volumes go.
TickDeletesApp ==
    /\ tick.pc = "app"
    /\ \/ /\ fly[tick.row].app /\ fly' = [fly EXCEPT ![tick.row] = NoApp]
          /\ tick' = [tick EXCEPT !.pc = "deleted"] /\ UNCHANGED faults
       \/ /\ ~fly[tick.row].app /\ UNCHANGED <<fly, faults>>
          /\ tick' = LeftForLater
       \/ Fault /\ UNCHANGED fly /\ tick' = LeftForLater
    /\ UNCHANGED <<db, seen, stripe, loop, report, job, modes, reports, apart>>

TickDeletes ==
    /\ tick.pc = "deleted"
    /\ Store(tick.row, [db[tick.row] EXCEPT !.status = "deleted"])
    /\ tick' = [tick EXCEPT !.pc = "delete"]
    /\ UNCHANGED <<fly, seen, stripe, loop, report, job, modes, reports, faults, apart>>

TickEnds ==
    /\ tick.pc = "delete" /\ tick.todo = {}
    /\ tick' = IdleTick
    /\ UNCHANGED <<db, fly, seen, stripe, loop, report, job, modes, reports, faults, apart>>

-----------------------------------------------------------------------------

\* Days pass over the sandbox's seven days, over the grace period.
DaysPass ==
    /\ Quiet /\ stripe.news \subseteq seen
    /\ stripe' = [stripe EXCEPT !.live = {}]
    /\ UNCHANGED <<fly, seen, loop, report, job, modes, tick, reports, faults, apart>>

Expires(r) ==
    /\ db[r] # None /\ db[r].expires = "ahead" /\ DaysPass
    /\ Store(r, [db[r] EXCEPT !.expires = "past"])

GraceEnds(r) ==
    /\ db[r] # None /\ db[r].deadline = "ahead" /\ DaysPass
    /\ Store(r, [db[r] EXCEPT !.deadline = "past"])

\* The control plane dies; rows and apps stay as they are.
Crash ==
    /\ ~Quiet /\ Fault
    /\ loop' = IdleLoop /\ report' = NoReport /\ job' = [r \in Rows |-> IdleJob]
    /\ modes' = {} /\ tick' = IdleTick
    /\ UNCHANGED <<db, fly, seen, stripe, reports, apart>>

HandlerStep ==
    \/ UpgradePends \/ CheckoutOpens \/ CheckoutFails
    \/ WebhookReads \/ Completed \/ Canceled \/ PresenceStores \/ PresenceTouches

JobStep(r) ==
    \/ JobReads(r) \/ JobMarks(r) \/ JobBuilds(r) \/ JobRecords(r)
    \/ JobFinishes(r) \/ JobFails(r) \/ \E mode \in Modes : ModeJob(r, mode)

TickStep ==
    \/ TickBegins \/ TickSuspends \/ TickLists \/ TickDeletesApp \/ TickDeletes \/ TickEnds
    \/ \E r \in Rows : TickStops(r) \/ TickDeletesVolume(r)

Request(r) ==
    \/ \E tier \in {"sandbox", "vip"} : CreateHosted(r, tier)
    \/ CreateBasic(r) \/ Upgrade(r)
    \/ \E events \in BOOLEAN : Presence(r, events)

Customer(s) == Pays(s) \/ SubscriptionEnds(s)

Next ==
    \/ HandlerStep \/ TickStep \/ Crash
    \/ \E r \in Rows : Request(r) \/ JobStep(r) \/ Expires(r) \/ GraceEnds(r)
    \/ \E s \in stripe.open : Customer(s)
    \/ \E e \in stripe.news : Webhook(e)

Spec == Init /\ [][Next]_vars

\* Handlers and jobs go on, the tick comes every hour, days pass, Stripe
\* repeats an event until it is answered.  Nobody has to pay or to report.
FairSpec ==
    /\ Spec
    /\ WF_vars(HandlerStep) /\ WF_vars(TickStep)
    /\ \A r \in Rows :
          WF_vars(JobStep(r)) /\ SF_vars(Expires(r)) /\ SF_vars(GraceEnds(r))
    /\ \A e \in Events : SF_vars(Webhook(e))

-----------------------------------------------------------------------------
(* Properties                                                              *)

\* Rows, apps, sessions and the pending changes of mode are of their types.
TypeOK ==
    /\ db \in [Rows -> RowType \cup {None}]
    /\ fly \in [Rows -> FlyType]
    /\ seen \subseteq stripe.news /\ stripe.news \subseteq Events
    /\ stripe.paid \cup stripe.live \subseteq stripe.open
    /\ stripe.open \subseteq Rows \X (1..MaxCheckouts)
    /\ modes \subseteq Rows \X Modes

\* A row is marked deleted only when its app, and the volume and machine in it,
\* are gone, through failing Fly calls and crashes in the middle of a tick.
DeletedIsGone == \A r \in Rows : db[r] # None /\ db[r].status = "deleted" => fly[r] = NoApp

Paid(r) == db[r] # None /\ db[r].sub = "active"

\* Nothing failed, and handlers, jobs and ticks came one after another.
Smooth == apart /\ faults = 0

\* When all goes smoothly, what is paid for is up.
PaidIsOn ==
    Smooth /\ Quiet =>
        \A r \in Rows : Paid(r) => db[r].status = "running" /\ fly[r].machine = "on"

Is(r, tier, statuses) == db[r] # None /\ db[r].tier = tier /\ db[r].status \in statuses

\* A running sandbox whose seven days are over is suspended, or upgraded.
SandboxSuspends ==
    \A r \in Rows :
        Is(r, "sandbox", {"running"}) /\ db[r].expires = "past" ~> ~Is(r, "sandbox", {"running"})

\* The app of a suspended row that nobody pays for is deleted in the end, through
\* failing calls and crashes; unless the row is upgraded first.
SuspendedUnpaid(r) == db[r] # None /\ db[r].status = "suspended" /\ ~Paid(r)

GraceEndsInDeletion ==
    \A r \in Rows : SuspendedUnpaid(r) ~> ~fly[r].app \/ ~SuspendedUnpaid(r)

\* Every sandbox that runs is suspended at some time, or paid for, or fails
\* ("Suspend sandboxes at 7 days", scheduler.py).  An upgrade that is never paid breaks
\* this (README, section 5).
SandboxEnds ==
    \A r \in Rows :
        Is(r, "sandbox", {"running"})
        ~> Is(r, "sandbox", {"suspended", "deleted", "failed"}) \/ Is(r, "basic", Statuses)

=============================================================================
