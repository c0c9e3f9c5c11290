---------------------------- MODULE EventPromise ----------------------------
(***************************************************************************)
(* What the scheduler promises of time events, without the thread that     *)
(* keeps it, its snapshots or its restarts: a minute an event is armed for *)
(* is never passed over, and an event never runs before it.                *)
(***************************************************************************)
EXTENDS Naturals

CONSTANTS Events, Rules, MaxTime, None

VARIABLES
    clock,
    rule,     \* the minutes an event names; none while it is off
    armed,    \* the minute it will run at, one its rule names
    served    \* that minute's run has begun

vars == <<clock, rule, armed, served>>

Minutes == 0..MaxTime

Init ==
    /\ clock = 0 /\ rule \in [Events -> Rules \cup {{}}]
    /\ armed = [e \in Events |-> None] /\ served = [e \in Events |-> FALSE]

Advance == clock < MaxTime /\ clock' = clock + 1 /\ UNCHANGED <<rule, armed, served>>

Disarm(e) == armed' = [armed EXCEPT ![e] = None] /\ served' = [served EXCEPT ![e] = FALSE]

Aim(e, t) == armed' = [armed EXCEPT ![e] = t] /\ served' = [served EXCEPT ![e] = FALSE]

\* An edit forgets what was armed.
Edit(e) ==
    /\ \E r \in Rules \cup {{}} : rule' = [rule EXCEPT ![e] = r]
    /\ Disarm(e) /\ UNCHANGED clock

Arm(e, t) == armed[e] = None /\ t \in rule[e] /\ Aim(e, t) /\ UNCHANGED <<clock, rule>>

\* At least once: a restart may repeat a run.
Serve(e) ==
    /\ armed[e] # None /\ armed[e] <= clock
    /\ served' = [served EXCEPT ![e] = TRUE]
    /\ UNCHANGED <<clock, rule, armed>>

\* What was armed is given up once its run has begun, or for a minute no later.
Rearm(e, t) ==
    /\ armed[e] # None /\ t \in rule[e] \cup {None}
    /\ served[e] \/ (t # None /\ t <= armed[e])
    /\ Aim(e, t) /\ UNCHANGED <<clock, rule>>

Next ==
    \/ Advance
    \/ \E e \in Events : Edit(e) \/ Serve(e)
    \/ \E e \in Events, t \in Minutes \cup {None} : (t # None /\ Arm(e, t)) \/ Rearm(e, t)

Spec == Init /\ [][Next]_vars
=============================================================================
