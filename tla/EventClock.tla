----------------------------- MODULE EventClock ------------------------------
(***************************************************************************)
(* Time events (server/scheduler.py): the recovery at startup, the tick    *)
(* that runs what is due, and the loop that sleeps between ticks until a   *)
(* timeout or an edit wakes it.                                            *)
(*                                                                         *)
(* Recovery and ticks run in a thread over a list read once; an edit of    *)
(* the catalog falls between any two of its steps.  The unit of time is a  *)
(* minute, as in triggers.py, so that a sleep of at most half a minute may *)
(* end at any moment.  Which sequences an event runs, its parameters and   *)
(* the time it last ran are left out; RunRow has the runs that wait.       *)
(***************************************************************************)
EXTENDS Naturals

CONSTANTS
    Events,      \* catalog ids of time events
    Awaited,     \* those that wait STEPs name
    Rules,       \* the sets of minutes a rule package may name
    None,        \* null
    MaxTime,     \* bound: the last minute
    MaxEdits,    \* bound: the edits of events
    MaxFaults    \* bound: the restarts and failed calls of the catalog

Minutes == 0..MaxTime

ASSUME ClockAssumption ==
    /\ MaxTime \in Nat /\ MaxEdits \in Nat /\ MaxFaults \in Nat
    /\ None \notin Minutes /\ None \notin Events /\ Awaited \subseteq Events
    /\ \A r \in Rules : r \subseteq Minutes

\* A row of events: deleted, disabled (or of another type) or enabled; its package; its timer.
Row == [state : {"none", "off", "on"}, rule : Rules \cup {{}}, next : Minutes \cup {None}]

VARIABLES
    clock,
    table,       \* the events in the catalog
    wake,        \* Scheduler._wake
    pc,          \* where the scheduler is
    recovering,  \* in _startup_recovery, not in _tick
    now,         \* its `now`
    todo, seen,  \* the events of the list it has still to take, and the rows as it read them
    event,       \* the event it is at
    parked,      \* events that runs wait for
    begun,       \* history: the event's run has begun since its timer was written
    times,       \* history: how often an event ran for a minute
    overwritten, \* history: events whose timer was last written from a row older than the table's
    edits, faults

vars  == <<clock, table, wake, pc, recovering, now, todo, seen, event, parked, begun, times,
          overwritten, edits, faults>>
local == <<recovering, now, todo, seen, event>>
hist  == <<begun, times, overwritten>>
count == <<edits, faults>>

Blank == [state |-> "none", rule |-> {}, next |-> None]

Init ==
    /\ clock = 0
    /\ table \in [Events -> {r \in Row : r.next = None /\ r.state = (IF r.rule = {} THEN "none" ELSE "on")}]
    /\ wake = FALSE /\ pc = "down" /\ recovering = FALSE /\ now = 0
    /\ todo = {} /\ seen = [e \in Events |-> Blank] /\ event = None
    /\ parked = [e \in Events |-> FALSE]
    /\ begun = [e \in Events |-> FALSE] /\ times = [e \in Events |-> [t \in Minutes |-> 0]]
    /\ overwritten = {} /\ edits = 0 /\ faults = 0

-----------------------------------------------------------------------------
First(ms) == CHOOSE t \in ms : \A u \in ms : t <= u

\* Slip: the minute it is told counts as the next.
NextActivationFrom(rule, after) ==
    LET later == {t \in rule : t >= after} IN IF later = {} THEN None ELSE First(later)

\* next_activation: the first minute the rule names after `after`.
NextActivation(rule, after) ==
    LET later == {t \in rule : t > after} IN IF later = {} THEN None ELSE First(later)

Due(e) == seen[e].next # None /\ seen[e].next <= now

Advance ==
    /\ clock < MaxTime /\ clock' = clock + 1
    /\ UNCHANGED <<table, wake, pc, local, parked, hist, count>>

\* events_upsert and events_delete: the timers are reset and the loop is woken.  No request
\* is served before recovery is over.
Edit(e, state, rule) ==
    /\ edits < MaxEdits /\ edits' = edits + 1
    /\ pc # "down" /\ ~recovering /\ (state = "none" => table[e].state # "none" /\ rule = {})
    /\ table' = [table EXCEPT ![e] = [state |-> state, rule |-> rule, next |-> None]]
    /\ wake' = TRUE /\ begun' = [begun EXCEPT ![e] = FALSE] /\ overwritten' = overwritten \ {e}
    /\ UNCHANGED <<clock, pc, local, parked, times, faults>>

\* A run reaches a wait STEP that names the event.
Park(e) ==
    /\ ~parked[e] /\ pc # "down" /\ parked' = [parked EXCEPT ![e] = TRUE]
    /\ UNCHANGED <<clock, table, wake, pc, local, hist, count>>

-----------------------------------------------------------------------------
Goto(at) == pc' = at /\ UNCHANGED local

Start ==
    /\ pc = "down" /\ pc' = "list" /\ recovering' = TRUE
    /\ UNCHANGED <<clock, table, wake, now, todo, seen, event, parked, hist, count>>

\* The flag is cleared before the tick reads the events.
Clear ==
    /\ pc = "clear" /\ wake' = FALSE /\ Goto("list")
    /\ UNCHANGED <<clock, table, parked, hist, count>>

\* `now` and _active_time_events
List ==
    /\ pc = "list" /\ pc' = "each" /\ now' = clock /\ event' = None
    /\ seen' = table /\ todo' = {e \in Events : table[e].state = "on"}
    /\ UNCHANGED <<clock, table, wake, recovering, parked, hist, count>>

\* Slip: a timer missed while the server was down is written anew and not run.
AfterTakeUnrecovered(e) ==
    IF Due(e) /\ ~recovering THEN "fire"
    ELSE IF recovering \/ seen[e].next = None THEN "store" ELSE "each"

\* A due event runs; recovery writes every timer anew, a tick those that are not set.
AfterTake(e) ==
    IF Due(e) THEN "fire"
    ELSE IF recovering \/ seen[e].next = None THEN "store" ELSE "each"

Take(e) ==
    /\ pc = "each" /\ e \in todo /\ todo' = todo \ {e} /\ event' = e /\ pc' = AfterTake(e)
    /\ UNCHANGED <<clock, table, wake, recovering, now, seen, parked, hist, count>>

\* _fire_event: a sequence that fails stops neither the rest nor the loop.
Fire ==
    /\ pc = "fire" /\ Goto(IF recovering THEN "release" ELSE "store")
    /\ begun' = [begun EXCEPT ![event] = TRUE]
    /\ times' = [times EXCEPT ![event][seen[event].next] = @ + 1]
    /\ UNCHANGED <<clock, table, wake, parked, overwritten, count>>

\* Slip: a tick that has run an event is done with it.
AfterStoreDone == "each"

AfterStore == IF ~recovering /\ Due(event) THEN "release" ELSE "each"

\* _store_timers, from the row as it was read; a deleted row is not found.
Store ==
    /\ pc = "store" /\ Goto(AfterStore)
    /\ IF table[event].state = "none" THEN UNCHANGED <<table, begun, overwritten>>
       ELSE /\ table' = [table EXCEPT ![event].next = NextActivation(seen[event].rule, now)]
            /\ begun' = [begun EXCEPT ![event] = FALSE]
            /\ overwritten' = (IF table[event].rule = seen[event].rule
                               THEN overwritten \ {event} ELSE overwritten \cup {event})
    /\ UNCHANGED <<clock, wake, parked, times, count>>

\* _resume_event_waiters
Release ==
    /\ pc = "release" /\ Goto(IF recovering THEN "store" ELSE "each")
    /\ parked' = [parked EXCEPT ![event] = FALSE]
    /\ UNCHANGED <<clock, table, wake, hist, count>>

\* The thread returns; its locals are gone.
Return(at) ==
    /\ pc' = at /\ recovering' = FALSE /\ now' = 0 /\ todo' = {} /\ event' = None
    /\ seen' = [e \in Events |-> Blank]

\* Slip: the flag is cleared after the tick.
DoneThenClear ==
    /\ pc = "each" /\ todo = {} /\ Return(IF recovering THEN "clear" ELSE "wait")
    /\ wake' = FALSE
    /\ UNCHANGED <<clock, table, parked, hist, count>>

Done ==
    /\ pc = "each" /\ todo = {} /\ Return(IF recovering THEN "clear" ELSE "wait")
    /\ UNCHANGED <<clock, table, wake, parked, hist, count>>

\* A call of the catalog fails: what is left of the recovery or the tick is dropped.
Fail ==
    /\ pc \in {"list", "store", "release"} /\ faults < MaxFaults /\ faults' = faults + 1
    /\ Return(IF recovering THEN "clear" ELSE "rest")
    /\ UNCHANGED <<clock, table, wake, parked, hist, edits>>

\* Slip: the wait has no timeout.
WakesByFlag ==
    /\ pc \in {"wait", "rest"} /\ wake /\ Goto("clear")
    /\ UNCHANGED <<clock, table, wake, parked, hist, count>>

\* The wait ends by the flag or by its timeout.
Wakes ==
    /\ pc \in {"wait", "rest"} /\ Goto("clear")
    /\ UNCHANGED <<clock, table, wake, parked, hist, count>>

\* The process ends.
Crash ==
    /\ pc # "down" /\ faults < MaxFaults /\ faults' = faults + 1
    /\ Return("down") /\ wake' = FALSE
    /\ UNCHANGED <<clock, table, parked, hist, edits>>

-----------------------------------------------------------------------------
Loop == Start \/ Clear \/ List \/ (\E e \in Events : Take(e)) \/ Fire \/ Store \/ Release \/ Done \/ Wakes

Others ==
    \/ Advance \/ Fail \/ Crash
    \/ \E e \in Awaited : Park(e)
    \/ \E e \in Events, state \in {"none", "off", "on"}, rule \in Rules \cup {{}} : Edit(e, state, rule)

Next == Loop \/ Others

Spec == Init /\ [][Next]_vars

\* The server is started again, the thread runs and sleeps end.
FairSpec == Spec /\ WF_vars(Loop)

-----------------------------------------------------------------------------
\* The variables keep their types.
TypeOK ==
    /\ clock \in Minutes /\ now \in Minutes /\ wake \in BOOLEAN /\ recovering \in BOOLEAN
    /\ pc \in {"down", "clear", "list", "each", "fire", "store", "release", "wait", "rest"}
    /\ table \in [Events -> Row] /\ seen \in [Events -> Row]
    /\ todo \subseteq Events /\ event \in Events \cup {None}
    /\ parked \in [Events -> BOOLEAN] /\ begun \in [Events -> BOOLEAN]
    /\ times \in [Events -> [Minutes -> Nat]] /\ overwritten \subseteq Events
    /\ edits \in 0..MaxEdits /\ faults \in 0..MaxFaults

\* The minutes an event that is on names, and the one it is armed for.
RuleOf(e)   == IF table[e].state = "on" THEN table[e].rule ELSE {}
ArmedAt(e)  == IF table[e].next \in RuleOf(e) THEN table[e].next ELSE None
ServedAt(e) == ArmedAt(e) # None /\ begun[e]

Promise == INSTANCE EventPromise WITH
    rule   <- [e \in Events |-> RuleOf(e)],
    armed  <- [e \in Events |-> ArmedAt(e)],
    served <- [e \in Events |-> ServedAt(e)]

\* A minute an event is armed for is never passed over and no event runs early, through
\* restarts, failed calls and edits at any moment (the header of scheduler.py).
KeepsPromise == Promise!Spec

\* An event runs once for a minute, and once more at most for every fault that cuts a
\* firing between the run and the timer (_tick and _startup_recovery).
RunsOnce == \A e \in Events, t \in Minutes : times[e][t] <= 1 + faults

\* The timer is a minute of the event's rule, and none it names is ahead before that.
PickedUp(e) ==
    LET upcoming == NextActivation(RuleOf(e), clock)
    IN upcoming # None => ArmedAt(e) # None /\ ArmedAt(e) <= upcoming

\* The loop never goes to sleep over an edit: an event that was created, enabled or changed
\* while the tick ran has the timer its new rule asks for, or the loop is about to look
\* again (request_reload).  Excepted is an event that was edited after a tick had read its
\* row and before that tick wrote its timer: _store_timers wrote the time of the old rule
\* over the edit, and the next tick finds a timer that is set and leaves it.
EditsPickedUp ==
    pc = "wait" /\ ~wake => \A e \in Events \ overwritten : PickedUp(e)

\* The same without the exception (request_reload: an edit "is picked up at once").  It does
\* not hold.
EveryEditPickedUp == pc = "wait" /\ ~wake => \A e \in Events : PickedUp(e)

\* A due event runs, unless it is edited first, whatever is restarted or fails.
DueRuns == \A e \in Events, t \in Minutes :
    (ArmedAt(e) = t /\ t <= clock) ~> (ServedAt(e) \/ ArmedAt(e) # t)

\* A run that waits for an event goes on when the event runs, unless a fault cuts the firing.
WaitersReleased == \A e \in Awaited, n \in 0..MaxFaults :
    (pc = "fire" /\ event = e /\ parked[e] /\ faults = n) ~> (~parked[e] \/ faults > n)
=============================================================================
