-------------------------- MODULE EventClockProofs --------------------------
(***************************************************************************)
(* Theorems about EventClock for any events, rules, minutes and faults:   *)
(* the types, and that the scheduler keeps EventPromise.                   *)
(*                                                                         *)
(* The thread works from rows it read a while ago.  What makes the promise *)
(* hold nonetheless is that an edit always clears the timer: a row the     *)
(* thread has still to write is the one it read, or has no timer at all.   *)
(***************************************************************************)
EXTENDS EventClock, WellFoundedInduction, TLAPS

-----------------------------------------------------------------------------
(* Minutes                                                                 *)

\* A non-empty set of numbers has a least one.
LEMMA Least ==
  ASSUME NEW R, IsWellFoundedOn(R, Nat), \A x, y \in Nat : x < y => <<x, y>> \in R,
         NEW ms \in SUBSET Nat, ms # {}
  PROVE  \E t \in ms : \A u \in ms : t <= u
  <1>1. ms \subseteq Nat /\ ms # {}
    OBVIOUS
  <1>2. \E t \in ms : \A u \in ms : ~(<<u, t>> \in R)
    BY ONLY <1>1, WFMin, IsWellFoundedOn(R, Nat)
  <1>3. PICK t \in ms : \A u \in ms : ~(<<u, t>> \in R)
    BY <1>2
  <1>4. ASSUME NEW u \in ms PROVE t <= u
    <2>1. t \in Nat /\ u \in Nat
      BY <1>1
    <2>2. u < t => <<u, t>> \in R
      BY <2>1
    <2> QED BY <1>3, <2>1, <2>2
  <1> QED BY <1>4

\* The ordering the library calls well founded holds of smaller numbers.
LEMMA LessNat == \A x, y \in Nat : x < y => <<x, y>> \in OpToRel(<, Nat)
  BY Zenon DEF OpToRel

\* First finds it.
LEMMA HasFirst ==
  ASSUME NEW ms \in SUBSET Nat, ms # {}
  PROVE  First(ms) \in ms /\ \A t \in ms : First(ms) <= t
  <1>1. \E t \in ms : \A u \in ms : t <= u
    BY Least, LessNat, NatLessThanWellFounded, Zenon
  <1> QED BY <1>1 DEF First

\* The next activation is a minute the rule names, and none it names lies between.
LEMMA NextIsNamed ==
  ASSUME NEW r \in SUBSET Minutes, NEW a \in Minutes
  PROVE  /\ NextActivation(r, a) \in r \cup {None}
         /\ \A t \in r : t > a => NextActivation(r, a) \in r /\ NextActivation(r, a) <= t
  <1> DEFINE later == {t \in r : t > a}
  <1>1. later \in SUBSET Nat
    <2>1. Minutes \subseteq Nat
      BY ClockAssumption DEF Minutes
    <2> QED BY <2>1
  <1>2. CASE later = {}
    BY <1>2 DEF NextActivation
  <1>3. CASE later # {}
    <2>1. First(later) \in later /\ \A t \in later : First(later) <= t
      BY ONLY <1>1, <1>3, HasFirst
    <2>2. NextActivation(r, a) = First(later)
      BY <1>3 DEF NextActivation
    <2> QED BY <2>1, <2>2
  <1> QED BY <1>2, <1>3

-----------------------------------------------------------------------------
(* The invariant                                                           *)

\* The row as it was read, or edited since and without a timer.
Fresh(e) == table[e] = seen[e] \/ table[e].next = None

\* The events whose timer the thread may still write.
ToWrite ==
    IF pc \in {"fire", "store"} \/ (pc = "release" /\ recovering) THEN todo \cup {event} ELSE todo

\* Where the thread can be in the firing of an event.
AtEvent ==
    pc \in {"fire", "store", "release"} =>
        /\ event \in Events \ todo
        /\ Due(event) \/ (pc = "store" /\ (recovering \/ seen[event].next = None))

\* What the thread read still tells what it may write.
Snapshot == \A e \in ToWrite : seen[e].state = "on" /\ Fresh(e)

\* A due event has run before its timer is written.
RunFirst ==
    (pc = "store" \/ (pc = "release" /\ recovering)) /\ Due(event) /\ table[event] = seen[event]
        => begun[event]

\* Between ticks nothing is left to take.
Idle == pc \in {"down", "clear", "list", "wait", "rest"} => todo = {}

IInv == TypeOK /\ now <= clock /\ AtEvent /\ Snapshot /\ RunFirst /\ Idle

\* What the thread leaves behind has the type of what it reads.
LEMMA Nothing == Blank \in Row /\ 0 \in Minutes
  BY ClockAssumption DEF Blank, Row, Minutes

\* Init establishes the invariant.
LEMMA InitInv == Init => IInv
  <1> SUFFICES ASSUME Init PROVE IInv
    OBVIOUS
  <1> USE Nothing, ClockAssumption DEF Init
  <1>1. table \in [Events -> Row] /\ seen \in [Events -> Row]
    OBVIOUS
  <1>2. times \in [Events -> [Minutes -> Nat]]
    OBVIOUS
  <1>3. edits \in 0..MaxEdits /\ faults \in 0..MaxFaults
    OBVIOUS
  <1>4. parked \in [Events -> BOOLEAN] /\ begun \in [Events -> BOOLEAN]
    OBVIOUS
  <1>5. todo \subseteq Events /\ event \in Events \cup {None} /\ clock \in Minutes /\ now \in Minutes
    OBVIOUS
  <1>6. TypeOK
    BY <1>1, <1>2, <1>3, <1>4, <1>5 DEF TypeOK, Init
  <1> QED BY <1>6 DEF IInv, AtEvent, Snapshot, ToWrite, RunFirst, Idle, Init

\* Every step keeps the types.
LEMMA TypeStep == IInv /\ [Next]_vars => TypeOK'
  <1> SUFFICES ASSUME IInv, [Next]_vars PROVE TypeOK'
    OBVIOUS
  <1> USE ClockAssumption, Nothing DEF IInv, TypeOK, local, hist, count
  <1>1. CASE Advance
    BY <1>1 DEF Advance, Minutes
  <1>2. CASE Start
    BY <1>2 DEF Start
  <1>3. CASE Clear
    BY <1>3 DEF Clear, Goto
  <1>4. CASE List
    BY <1>4 DEF List
  <1>5. ASSUME NEW e \in Events, Take(e) PROVE TypeOK'
    BY <1>5 DEF Take, AfterTake
  <1>6. CASE Fire
    <2>1. event \in Events /\ seen[event].next \in Minutes
      BY <1>6 DEF Fire, AtEvent, Due, Row
    <2>2. times' \in [Events -> [Minutes -> Nat]]
      BY <1>6, <2>1 DEF Fire
    <2> QED BY <1>6, <2>1, <2>2 DEF Fire, Goto
  <1>7. CASE Store
    <2>1. event \in Events /\ seen[event].rule \in SUBSET Minutes
      BY <1>7 DEF Store, AtEvent, Row
    <2>2. NextActivation(seen[event].rule, now) \in Minutes \cup {None}
      BY <2>1, NextIsNamed
    <2>3. \A n \in Minutes \cup {None} : [table[event] EXCEPT !.next = n] \in Row
      BY <2>1 DEF Row
    <2>4. table' \in [Events -> Row]
      BY <1>7, <2>1, <2>2, <2>3 DEF Store
    <2>5. overwritten' \subseteq Events
      BY <1>7, <2>1 DEF Store
    <2> QED BY <1>7, <2>1, <2>4, <2>5 DEF Store, Goto, AfterStore
  <1>8. CASE Release
    BY <1>8 DEF Release, Goto
  <1>9. CASE Done
    BY <1>9 DEF Done, Return
  <1>10. CASE Wakes
    BY <1>10 DEF Wakes, Goto
  <1>11. CASE Fail
    <2>1. faults' \in 0..MaxFaults
      BY <1>11 DEF Fail
    <2> QED BY <1>11, <2>1 DEF Fail, Return
  <1>12. CASE Crash
    <2>1. faults' \in 0..MaxFaults
      BY <1>12 DEF Crash
    <2> QED BY <1>12, <2>1 DEF Crash, Return
  <1>13. ASSUME NEW e \in Awaited, Park(e) PROVE TypeOK'
    BY <1>13 DEF Park
  <1>14. ASSUME NEW e \in Events, NEW state \in {"none", "off", "on"}, NEW rule \in Rules \cup {{}},
                Edit(e, state, rule)
         PROVE TypeOK'
    BY <1>14 DEF Edit, Row
  <1>15. CASE UNCHANGED vars
    BY <1>15 DEF vars
  <1> QED
    BY <1>1, <1>2, <1>3, <1>4, <1>5, <1>6, <1>7, <1>8, <1>9, <1>10, <1>11, <1>12, <1>13, <1>14, <1>15
    DEF Next, Loop, Others

\* Every step keeps the invariant.
LEMMA InvStep == IInv /\ [Next]_vars => IInv'
  <1> SUFFICES ASSUME IInv, [Next]_vars PROVE IInv'
    OBVIOUS
  <1>0. TypeOK /\ TypeOK'
    BY TypeStep DEF IInv
  <1> DEFINE Rest == now <= clock /\ AtEvent /\ Snapshot /\ RunFirst /\ Idle
  <1> SUFFICES Rest'
    BY <1>0 DEF IInv
  <1> USE <1>0, ClockAssumption
      DEF IInv, AtEvent, Snapshot, ToWrite, RunFirst, Idle, Fresh, Due, local, hist, count, Goto, Return
  <1>1. CASE Advance
    <2>1. now' <= clock'
      BY <1>1 DEF Advance, TypeOK, Minutes
    <2> QED BY <1>1, <2>1 DEF Advance
  <1>2. CASE Start
    BY <1>2 DEF Start
  <1>3. CASE Clear
    BY <1>3 DEF Clear
  <1>4. CASE List
    BY <1>4 DEF List, TypeOK, Minutes
  <1>5. ASSUME NEW e \in Events, Take(e) PROVE Rest'
    BY <1>5 DEF Take, AfterTake, TypeOK
  <1>6. CASE Fire
    BY <1>6 DEF Fire, TypeOK
  <1>7. CASE Store
    BY <1>7 DEF Store, AfterStore, TypeOK
  <1>8. CASE Release
    BY <1>8 DEF Release
  <1>9. CASE Done
    BY <1>9 DEF Done, TypeOK, Minutes
  <1>10. CASE Wakes
    BY <1>10 DEF Wakes
  <1>11. CASE Fail
    BY <1>11 DEF Fail, TypeOK, Minutes
  <1>12. CASE Crash
    BY <1>12 DEF Crash, TypeOK, Minutes
  <1>13. ASSUME NEW e \in Awaited, Park(e) PROVE Rest'
    BY <1>13 DEF Park
  <1>14. ASSUME NEW e \in Events, NEW state \in {"none", "off", "on"}, NEW rule \in Rules \cup {{}},
                Edit(e, state, rule)
         PROVE Rest'
    BY <1>14 DEF Edit, TypeOK
  <1>15. CASE UNCHANGED vars
    BY <1>15 DEF vars
  <1> QED
    BY <1>1, <1>2, <1>3, <1>4, <1>5, <1>6, <1>7, <1>8, <1>9, <1>10, <1>11, <1>12, <1>13, <1>14, <1>15
    DEF Next, Loop, Others

-----------------------------------------------------------------------------
(* The promise                                                             *)

\* A row of the catalog names minutes, and no timer is not one of them.
LEMMA Armed ==
  ASSUME TypeOK, NEW e \in Events
  PROVE  /\ RuleOf(e) \in Rules \cup {{}} /\ RuleOf(e) \subseteq Minutes
         /\ ArmedAt(e) \in Minutes \cup {None}
         /\ ArmedAt(e) # None => ArmedAt(e) = table[e].next /\ table[e].next \in RuleOf(e)
  BY ClockAssumption DEF TypeOK, Row, RuleOf, ArmedAt

\* A step that touches the row of one event changes the promise at that event only.
LEMMA OneEvent ==
  ASSUME NEW e \in Events,
         \A d \in Events \ {e} : table'[d] = table[d] /\ begun'[d] = begun[d]
  PROVE  /\ [d \in Events |-> RuleOf(d)]' = [[d \in Events |-> RuleOf(d)] EXCEPT ![e] = RuleOf(e)']
         /\ [d \in Events |-> ArmedAt(d)]' = [[d \in Events |-> ArmedAt(d)] EXCEPT ![e] = ArmedAt(e)']
         /\ [d \in Events |-> ServedAt(d)]' = [[d \in Events |-> ServedAt(d)] EXCEPT ![e] = ServedAt(e)']
  BY DEF RuleOf, ArmedAt, ServedAt

\* A step that touches no row is a stutter of the promise.
LEMMA Unseen ==
  ASSUME UNCHANGED <<clock, table, begun>>
  PROVE  UNCHANGED Promise!vars
  BY DEF Promise!vars, RuleOf, ArmedAt, ServedAt

\* Init establishes the initial promise.
LEMMA PromiseInit == Init => Promise!Init
  <1> SUFFICES ASSUME Init PROVE Promise!Init
    OBVIOUS
  <1>1. TypeOK
    BY InitInv DEF IInv
  <1>2. \A e \in Events : ArmedAt(e) = None /\ RuleOf(e) \in Rules \cup {{}} /\ ServedAt(e) = FALSE
    BY <1>1, Armed DEF Init, ServedAt
  <1> QED BY <1>2 DEF Init, Promise!Init

\* An edit of the catalog is an edit of the promise.
LEMMA EditKeeps ==
  ASSUME IInv, TypeOK', NEW e \in Events, NEW state \in {"none", "off", "on"}, NEW r \in Rules \cup {{}},
         Edit(e, state, r)
  PROVE  Promise!Edit(e)
  <1>1. \A d \in Events \ {e} : table'[d] = table[d] /\ begun'[d] = begun[d]
    BY DEF Edit, IInv, TypeOK
  <1>2. table'[e].next = None /\ RuleOf(e)' \in Rules \cup {{}} /\ RuleOf(e)' \subseteq Minutes
    BY ClockAssumption DEF Edit, IInv, TypeOK, RuleOf
  <1>3. ArmedAt(e)' = None
    BY <1>2, ClockAssumption DEF ArmedAt
  <1>4. ServedAt(e)' = FALSE
    BY <1>3 DEF ServedAt
  <1> QED BY <1>1, <1>2, <1>3, <1>4, OneEvent DEF Edit, Promise!Edit, Promise!Disarm

\* A run serves the minute its event is armed for; one of an event edited since serves none.
LEMMA FireKeeps ==
  ASSUME IInv, NEW e \in Events, event = e, Fire
  PROVE  [Promise!Next]_Promise!vars
  <1>0. TypeOK /\ Due(e) /\ Fresh(e) /\ now <= clock
    BY DEF Fire, IInv, AtEvent, Snapshot, ToWrite
  <1>1. /\ UNCHANGED <<clock, table>> /\ begun'[e] = TRUE
        /\ \A d \in Events \ {e} : table'[d] = table[d] /\ begun'[d] = begun[d]
    BY <1>0 DEF Fire, TypeOK
  <1>2. RuleOf(e)' = RuleOf(e) /\ ArmedAt(e)' = ArmedAt(e)
    BY <1>1 DEF RuleOf, ArmedAt
  <1>3. ServedAt(e)' = (ArmedAt(e) # None)
    BY <1>1, <1>2 DEF ServedAt
  <1>4. CASE ArmedAt(e) = None
    <2>1. ServedAt(e) = FALSE /\ ServedAt(e)' = FALSE
      BY <1>3, <1>4 DEF ServedAt
    <2>2. \A d \in Events : ServedAt(d)' = ServedAt(d)
      BY <1>1, <2>1 DEF ServedAt, ArmedAt, RuleOf
    <2>3. \A d \in Events : RuleOf(d)' = RuleOf(d) /\ ArmedAt(d)' = ArmedAt(d)
      BY <1>1 DEF ArmedAt, RuleOf
    <2> QED BY <1>1, <2>2, <2>3 DEF Promise!vars
  <1>5. CASE ArmedAt(e) # None
    <2>1. table[e] = seen[e]
      BY <1>0, <1>5, Armed, ClockAssumption DEF Fresh
    <2>2. ArmedAt(e) <= clock
      BY <1>0, <1>5, <2>1, Armed, ClockAssumption DEF Due, TypeOK, Row, Minutes
    <2>3. Promise!Serve(e)
      BY <1>0, <1>1, <1>2, <1>3, <1>5, <2>2, OneEvent DEF Promise!Serve
    <2> QED BY <1>0, <2>3 DEF Promise!Next
  <1> QED BY <1>4, <1>5

\* A timer arms the event for the next minute of its rule, or gives up one that was served.
LEMMA StoreKeeps ==
  ASSUME IInv, TypeOK', NEW e \in Events, event = e, Store
  PROVE  [Promise!Next]_Promise!vars
  <1>1. CASE table[e].state = "none"
    BY <1>1, Unseen DEF Store
  <1>2. CASE table[e].state # "none"
    <2> DEFINE n == NextActivation(seen[e].rule, now)
    <2>0. /\ TypeOK /\ Fresh(e) /\ now <= clock /\ seen[e].state = "on"
          /\ now \in Minutes /\ seen[e].rule \in SUBSET Minutes /\ table[e] \in Row
      BY ClockAssumption DEF Store, IInv, AtEvent, Snapshot, ToWrite, TypeOK, Row
    <2>1. /\ clock' = clock /\ begun'[e] = FALSE
          /\ table'[e] = [table[e] EXCEPT !.next = n]
          /\ \A d \in Events \ {e} : table'[d] = table[d] /\ begun'[d] = begun[d]
      BY <1>2, <2>0 DEF Store, TypeOK
    <2>2. /\ n \in seen[e].rule \cup {None}
          /\ \A t \in seen[e].rule : t > now => n \in seen[e].rule /\ n <= t
      BY <2>0, NextIsNamed
    <2>3. RuleOf(e)' = RuleOf(e) /\ table'[e].next = n
      BY <2>0, <2>1 DEF RuleOf, Row
    <2>4. ArmedAt(e)' = (IF n \in RuleOf(e) THEN n ELSE None) /\ ServedAt(e)' = FALSE
      BY <2>1, <2>3 DEF ArmedAt, ServedAt
    <2> HIDE DEF n
    <2> DEFINE t == ArmedAt(e)'
    <2>5. t \in RuleOf(e) \cup {None} /\ t \in Minutes \cup {None}
      BY <2>0, <2>4, Armed
    <2>6. /\ [d \in Events |-> RuleOf(d)]' = [d \in Events |-> RuleOf(d)]
          /\ [d \in Events |-> ArmedAt(d)]' = [[d \in Events |-> ArmedAt(d)] EXCEPT ![e] = t]
          /\ [d \in Events |-> ServedAt(d)]' = [[d \in Events |-> ServedAt(d)] EXCEPT ![e] = FALSE]
      <3>1. [[d \in Events |-> RuleOf(d)] EXCEPT ![e] = RuleOf(e)] = [d \in Events |-> RuleOf(d)]
        BY <2>0
      <3> QED BY <2>0, <2>1, <2>3, <2>4, <3>1, OneEvent
    <2>7. CASE ArmedAt(e) = None /\ t = None
      <3>1. ServedAt(e) = FALSE
        BY <2>7 DEF ServedAt
      <3>2. UNCHANGED Promise!vars
        BY <2>0, <2>1, <2>6, <2>7, <3>1 DEF Promise!vars
      <3> QED BY <3>2
    <2>8. CASE ArmedAt(e) = None /\ t # None
      <3>1. t \in RuleOf(e)
        BY <2>5, <2>8
      <3> HIDE DEF t
      <3>2. Promise!Arm(e, t)
        BY <2>0, <2>1, <2>6, <2>8, <3>1 DEF Promise!Arm, Promise!Aim
      <3> QED BY <2>0, <2>5, <2>8, <3>2 DEF Promise!Next, Promise!Minutes, Minutes
    <2>9. CASE ArmedAt(e) # None
      <3>1. table[e] = seen[e] /\ ArmedAt(e) = seen[e].next
        BY <2>0, <2>9, Armed, ClockAssumption DEF Fresh
      <3>2. RuleOf(e) = seen[e].rule /\ seen[e].next \in RuleOf(e)
        BY <2>0, <2>9, <3>1, Armed DEF RuleOf
      <3>3. t = n
        BY <2>2, <2>4, <3>2
      <3>4. ServedAt(e) \/ (t # None /\ t <= ArmedAt(e))
        <4>1. Due(e) => ServedAt(e)
          BY <2>9, <3>1 DEF Store, IInv, RunFirst, ServedAt
        <4>2. ~Due(e) => n \in RuleOf(e) /\ n <= seen[e].next
          <5> SUFFICES ASSUME ~Due(e) PROVE n \in RuleOf(e) /\ n <= seen[e].next
            OBVIOUS
          <5>1. seen[e].next # None /\ seen[e].next \in Minutes /\ seen[e].next > now
            BY <2>0, <2>9, <3>1, Armed, ClockAssumption DEF Due, Minutes
          <5> QED BY <2>2, <3>2, <5>1
        <4>3. n \in RuleOf(e) => n # None
          BY <2>0, Armed, ClockAssumption
        <4> QED BY <3>1, <3>3, <4>1, <4>2, <4>3
      <3> HIDE DEF t
      <3>5. Promise!Rearm(e, t)
        BY <2>0, <2>1, <2>5, <2>6, <2>9, <3>4 DEF Promise!Rearm, Promise!Aim
      <3> QED BY <2>0, <2>5, <3>5 DEF Promise!Next, Promise!Minutes, Minutes
    <2> QED BY <2>7, <2>8, <2>9
  <1> QED BY <1>1, <1>2

\* Every step of the scheduler is a step of the promise or a stutter.
LEMMA PromiseStep == IInv /\ [Next]_vars => [Promise!Next]_Promise!vars
  <1> SUFFICES ASSUME IInv, [Next]_vars PROVE [Promise!Next]_Promise!vars
    OBVIOUS
  <1>0. TypeOK'
    BY TypeStep
  <1>1. CASE Advance
    <2>1. Promise!Advance
      BY <1>1 DEF Advance, Promise!Advance, hist, RuleOf, ArmedAt, ServedAt
    <2> QED BY <2>1 DEF Promise!Next
  <1>2. CASE Start \/ Clear \/ List \/ Release \/ Done \/ Wakes \/ Fail \/ Crash
    BY <1>2, Unseen DEF Start, Clear, List, Release, Done, Wakes, Fail, Crash, hist
  <1>3. ASSUME NEW e \in Events, Take(e) PROVE UNCHANGED Promise!vars
    BY <1>3, Unseen DEF Take, hist
  <1>4. CASE Fire
    <2>1. PICK e \in Events : event = e
      BY <1>4 DEF Fire, IInv, AtEvent
    <2> QED BY <1>4, <2>1, FireKeeps
  <1>5. CASE Store
    <2>1. PICK e \in Events : event = e
      BY <1>5 DEF Store, IInv, AtEvent
    <2> QED BY <1>0, <1>5, <2>1, StoreKeeps
  <1>6. ASSUME NEW e \in Awaited, Park(e) PROVE UNCHANGED Promise!vars
    BY <1>6, Unseen DEF Park, hist
  <1>7. ASSUME NEW e \in Events, NEW state \in {"none", "off", "on"}, NEW r \in Rules \cup {{}},
               Edit(e, state, r)
        PROVE Promise!Next
    <2>1. Promise!Edit(e)
      BY <1>0, <1>7, EditKeeps
    <2> QED BY <2>1 DEF Promise!Next
  <1>8. CASE UNCHANGED vars
    BY <1>8, Unseen DEF vars, hist
  <1> QED
    BY <1>1, <1>2, <1>3, <1>4, <1>5, <1>6, <1>7, <1>8 DEF Next, Loop, Others

-----------------------------------------------------------------------------
(* Nothing runs twice, nothing is slept over                               *)

\* In the middle of a recovery or a tick.
Working == pc \in {"each", "fire", "store", "release"}

\* The thread may still run the event for the minute it read.
ToFire(e) == e \in todo \/ (pc = "fire" /\ event = e)

\* The event ran for the minute it is armed for and has not got the next one.
Cut(e) == event = e /\ (pc = "store" \/ (pc = "release" /\ recovering))

\* A run is of a minute that has come, and before the thread's `now`; one that may come
\* again has been cut before.
Counted == \A e \in Events, t \in Minutes :
    /\ times[e][t] <= 1 + faults
    /\ times[e][t] > 0 => t <= clock /\ (Working => t <= now)
    /\ table[e].next = t /\ ~Cut(e) => times[e][t] <= faults
    /\ ToFire(e) /\ seen[e].next = t => times[e][t] <= faults

\* While the flag is down no row the thread has to write has changed.
Unedited == ~wake => \A e \in ToWrite : table[e] = seen[e]

\* An event without a timer is one the thread has still to take.
Looked ==
    ~wake /\ (Working \/ pc = "wait") =>
        \A e \in Events : NextActivation(RuleOf(e), clock) # None =>
            table[e].next # None \/ (e \in ToWrite /\ seen[e].next = None)

\* A timer that was not written over an edit is a minute of the rule, and the first that is
\* ahead at the latest.
Timely == \A e \in Events \ overwritten :
    table[e].next # None /\ table[e].state = "on" =>
        /\ table[e].next \in table[e].rule
        /\ \A t \in table[e].rule : t > clock => table[e].next <= t

\* As time passes fewer minutes are still to come.
LEMMA FewerLater ==
  ASSUME NEW r \in SUBSET Minutes, NEW a \in Minutes, NEW b \in Minutes, a <= b,
         NextActivation(r, b) # None
  PROVE  NextActivation(r, a) # None
  <1>1. PICK t \in r : t > b
    BY DEF NextActivation
  <1>2. t > a
    BY <1>1, ClockAssumption DEF Minutes
  <1>3. NextActivation(r, a) \in r
    BY <1>2, NextIsNamed
  <1> QED BY <1>3, ClockAssumption

\* The next activation is later than the minute it is asked for.
LEMMA NextIsLater ==
  ASSUME NEW r \in SUBSET Minutes, NEW a \in Minutes, NextActivation(r, a) # None
  PROVE  NextActivation(r, a) > a
  <1> DEFINE later == {t \in r : t > a}
  <1>1. later # {} /\ later \in SUBSET Nat
    <2>1. Minutes \subseteq Nat
      BY ClockAssumption DEF Minutes
    <2>2. later # {}
      BY DEF NextActivation
    <2> QED BY <2>1, <2>2
  <1>2. First(later) \in later
    BY ONLY <1>1, HasFirst
  <1> QED BY <1>1, <1>2 DEF NextActivation

\* Every step keeps Counted.
LEMMA CountedStep == IInv /\ Counted /\ [Next]_vars => Counted'
  <1> SUFFICES ASSUME IInv, Counted, [Next]_vars, NEW e \in Events, NEW t \in Minutes
               PROVE  /\ times'[e][t] <= 1 + faults'
                      /\ times'[e][t] > 0 => t <= clock' /\ (Working' => t <= now')
                      /\ table'[e].next = t /\ ~Cut(e)' => times'[e][t] <= faults'
                      /\ ToFire(e)' /\ seen'[e].next = t => times'[e][t] <= faults'
    BY DEF Counted
  <1> DEFINE Goal == /\ times'[e][t] <= 1 + faults'
                     /\ times'[e][t] > 0 => t <= clock' /\ (Working' => t <= now')
                     /\ table'[e].next = t /\ ~Cut(e)' => times'[e][t] <= faults'
                     /\ ToFire(e)' /\ seen'[e].next = t => times'[e][t] <= faults'
  <1> SUFFICES Goal
    OBVIOUS
  <1>0. /\ times[e][t] <= 1 + faults
        /\ times[e][t] > 0 => t <= clock /\ (Working => t <= now)
        /\ table[e].next = t /\ ~Cut(e) => times[e][t] <= faults
        /\ ToFire(e) /\ seen[e].next = t => times[e][t] <= faults
    BY DEF Counted
  <1>a. times[e][t] \in Nat /\ faults \in Nat /\ t \in Nat /\ now \in Nat /\ clock \in Nat /\ None # t
    BY ClockAssumption DEF IInv, TypeOK, Minutes
  <1> USE <1>0, <1>a DEF Working, ToFire, Cut, local, hist, count, Goto
  <1>1. CASE Advance
    BY <1>1 DEF Advance
  <1>2. CASE Start
    BY <1>2 DEF Start, IInv, TypeOK
  <1>3. CASE Clear
    BY <1>3 DEF Clear
  <1>4. CASE List
    BY <1>4 DEF List
  <1>5. ASSUME NEW d \in Events, Take(d) PROVE Goal
    BY <1>5 DEF Take, AfterTake, Due, IInv, TypeOK
  <1>6. CASE Fire
    <2>1. event \in Events \ todo /\ Due(event) /\ seen[event].next \in Minutes
      BY <1>6 DEF Fire, IInv, AtEvent, Due, TypeOK, Row
    <2>2. times'[e][t] = IF e = event /\ t = seen[event].next THEN times[e][t] + 1 ELSE times[e][t]
      BY <1>6, <2>1 DEF Fire, IInv, TypeOK
    <2>3. e = event /\ t = seen[event].next => t <= now /\ times[e][t] <= faults
      BY <1>6, <2>1 DEF Fire, Due
    <2>4. now <= clock
      BY DEF IInv
    <2>5. \A n \in Nat : n = times'[e][t] => Goal
      BY <1>6, <2>1, <2>2, <2>3, <2>4 DEF Fire
    <2> QED BY <2>2, <2>5
  <1>7. CASE Store
    <2> DEFINE n == NextActivation(seen[event].rule, now)
    <2>1. event \in Events \ todo /\ seen[event].rule \in SUBSET Minutes /\ now \in Minutes
      BY <1>7, ClockAssumption DEF Store, IInv, AtEvent, TypeOK, Row
    <2>2. n # None => n > now
      BY <2>1, NextIsLater
    <2>3. table'[e] = table[e] \/ (e = event /\ table'[e].next = n)
      BY <1>7, <2>1 DEF Store, IInv, TypeOK, Row
    <2>4. table[e].state # "none" \/ table[e].next = None \/ e # event
      BY <1>7 DEF Store, IInv, Snapshot, ToWrite, Fresh
    <2> HIDE DEF n
    <2>5. e = event => table'[e].next = n \/ table'[e].next = None
      BY <1>7, <2>1, <2>3, <2>4 DEF Store, IInv, TypeOK, Row, n
    <2>6. t = n => times[e][t] = 0
      BY <1>7, <2>2 DEF Store
    <2>7. UNCHANGED <<clock, now, todo, seen, event, times, faults>> /\ pc' \in {"each", "release"}
          /\ pc = "store" /\ recovering' = recovering /\ (pc' = "release" => ~recovering)
      BY <1>7 DEF Store, AfterStore
    <2> QED BY <2>1, <2>3, <2>5, <2>6, <2>7
  <1>8. CASE Release
    BY <1>8 DEF Release, IInv, AtEvent
  <1>9. CASE Done
    BY <1>9 DEF Done, Return
  <1>10. CASE Wakes
    BY <1>10 DEF Wakes
  <1>11. CASE Fail
    BY <1>11 DEF Fail, Return, IInv, TypeOK
  <1>12. CASE Crash
    BY <1>12 DEF Crash, Return, IInv, TypeOK
  <1>13. ASSUME NEW d \in Awaited, Park(d) PROVE Goal
    BY <1>13 DEF Park
  <1>14. ASSUME NEW d \in Events, NEW state \in {"none", "off", "on"}, NEW rule \in Rules \cup {{}},
                Edit(d, state, rule)
         PROVE Goal
    BY <1>14 DEF Edit, IInv, TypeOK
  <1>15. CASE UNCHANGED vars
    BY <1>15 DEF vars
  <1> QED
    BY <1>1, <1>2, <1>3, <1>4, <1>5, <1>6, <1>7, <1>8, <1>9, <1>10, <1>11, <1>12, <1>13, <1>14, <1>15
    DEF Next, Loop, Others

\* Every step keeps Unedited.
LEMMA UneditedStep == IInv /\ Unedited /\ [Next]_vars => Unedited'
  <1> SUFFICES ASSUME IInv, Unedited, [Next]_vars PROVE Unedited'
    OBVIOUS
  <1> USE ClockAssumption DEF IInv, Unedited, ToWrite, AtEvent, local, hist, count, Goto, Return
  <1>1. CASE Advance \/ Start \/ Clear \/ List \/ Fire \/ Release \/ Done \/ Wakes \/ Fail \/ Crash
    <2>1. CASE Advance \/ Start \/ Clear
      BY <2>1 DEF Advance, Start, Clear, Idle
    <2>2. CASE List
      BY <2>2 DEF List
    <2>3. CASE Fire \/ Release
      BY <2>3 DEF Fire, Release
    <2>4. CASE Done \/ Wakes \/ Fail \/ Crash
      BY <2>4 DEF Done, Wakes, Fail, Crash
    <2> QED BY <1>1, <2>1, <2>2, <2>3, <2>4
  <1>2. ASSUME NEW e \in Events, Take(e) PROVE Unedited'
    BY <1>2 DEF Take, AfterTake, TypeOK
  <1>3. CASE Store
    BY <1>3 DEF Store, AfterStore, TypeOK
  <1>4. ASSUME NEW e \in Awaited, Park(e) PROVE Unedited'
    BY <1>4 DEF Park
  <1>5. ASSUME NEW e \in Events, NEW state \in {"none", "off", "on"}, NEW rule \in Rules \cup {{}},
               Edit(e, state, rule)
        PROVE Unedited'
    BY <1>5 DEF Edit
  <1>6. CASE UNCHANGED vars
    BY <1>6 DEF vars
  <1> QED BY <1>1, <1>2, <1>3, <1>4, <1>5, <1>6 DEF Next, Loop, Others

\* Every step keeps Looked.
LEMMA LookedStep == IInv /\ Unedited /\ Looked /\ [Next]_vars => Looked'
  <1> SUFFICES ASSUME IInv, Unedited, Looked, [Next]_vars,
                      ~wake', Working' \/ pc' = "wait",
                      NEW e \in Events, NextActivation(RuleOf(e)', clock') # None
               PROVE  (table[e].next # None \/ (e \in ToWrite /\ seen[e].next = None))'
    BY DEF Looked
  <1> DEFINE Goal == (table[e].next # None \/ (e \in ToWrite /\ seen[e].next = None))'
  <1> SUFFICES Goal
    OBVIOUS
  <1>a. TypeOK /\ TypeOK' /\ RuleOf(e) \in SUBSET Minutes
    BY TypeStep, ClockAssumption DEF IInv, TypeOK, Row, RuleOf
  <1>b. ~wake /\ (Working \/ pc = "wait") /\ NextActivation(RuleOf(e), clock) # None
          => table[e].next # None \/ (e \in ToWrite /\ seen[e].next = None)
    BY DEF Looked
  <1> USE <1>a, <1>b DEF ToWrite, Working, local, hist, count, Goto, Return, RuleOf
  <1>1. CASE Advance
    <2>1. clock \in Minutes /\ clock' \in Minutes /\ clock <= clock' /\ RuleOf(e)' = RuleOf(e)
      BY <1>1 DEF Advance, TypeOK, Minutes
    <2>2. NextActivation(RuleOf(e), clock) # None
      BY <2>1, FewerLater
    <2> QED BY <1>1, <2>2 DEF Advance
  <1>2. CASE Start \/ Clear \/ Wakes \/ Fail \/ Crash
    BY <1>2 DEF Start, Clear, Wakes, Fail, Crash, IInv
  <1>3. CASE List
    <2>1. NextActivation({}, clock) = None
      BY DEF NextActivation
    <2>2. table[e].state = "on"
      BY <1>3, <2>1 DEF List
    <2> QED BY <1>3, <2>2 DEF List
  <1>4. ASSUME NEW d \in Events, Take(d) PROVE Goal
    BY <1>4 DEF Take, AfterTake, Due
  <1>5. CASE Fire
    BY <1>5 DEF Fire, IInv, AtEvent, Due
  <1>6. CASE Store
    <2>1. CASE e # event
      BY <1>6, <2>1 DEF Store, IInv, AtEvent, AfterStore, TypeOK
    <2>2. CASE e = event
      <3>1. table[e] = seen[e] /\ seen[e].state = "on" /\ now <= clock
        BY <1>6, <2>2 DEF Store, IInv, Unedited, Snapshot
      <3>2. RuleOf(e) = seen[e].rule /\ RuleOf(e)' = RuleOf(e) /\ clock' = clock
        BY <1>6, <2>2, <3>1 DEF Store, TypeOK, Row
      <3>3. NextActivation(seen[e].rule, now) # None
        BY <3>1, <3>2, FewerLater DEF TypeOK
      <3> QED BY <1>6, <2>2, <3>1, <3>3 DEF Store, TypeOK, Row
    <2> QED BY <2>1, <2>2
  <1>7. CASE Release
    BY <1>7 DEF Release, IInv, AtEvent, Due
  <1>8. CASE Done
    BY <1>8 DEF Done
  <1>9. ASSUME NEW d \in Awaited, Park(d) PROVE Goal
    BY <1>9 DEF Park
  <1>10. ASSUME NEW d \in Events, NEW state \in {"none", "off", "on"}, NEW rule \in Rules \cup {{}},
                Edit(d, state, rule)
         PROVE Goal
    BY <1>10 DEF Edit
  <1>11. CASE UNCHANGED vars
    BY <1>11 DEF vars
  <1> QED
    BY <1>1, <1>2, <1>3, <1>4, <1>5, <1>6, <1>7, <1>8, <1>9, <1>10, <1>11 DEF Next, Loop, Others

\* Every step keeps Timely: an edit clears the timer, and one that is written from the rule
\* the table has is the first minute after the thread's `now`, which has passed.
LEMMA TimelyStep == IInv /\ Timely /\ [Next]_vars => Timely'
  <1> SUFFICES ASSUME IInv, Timely, [Next]_vars,
                      NEW e \in Events, e \notin overwritten',
                      table'[e].next # None, table'[e].state = "on"
               PROVE  /\ table'[e].next \in table'[e].rule
                      /\ \A t \in table'[e].rule : t > clock' => table'[e].next <= t
    BY DEF Timely
  <1> DEFINE Goal == /\ table'[e].next \in table'[e].rule
                     /\ \A t \in table'[e].rule : t > clock' => table'[e].next <= t
  <1> SUFFICES Goal
    OBVIOUS
  <1>0. e \notin overwritten /\ table[e].next # None /\ table[e].state = "on"
          => /\ table[e].next \in table[e].rule
             /\ \A t \in table[e].rule : t > clock => table[e].next <= t
    BY DEF Timely
  <1>a. TypeOK /\ table[e] \in Row /\ table[e].rule \subseteq Minutes /\ clock \in Nat
    BY ClockAssumption DEF IInv, TypeOK, Row, Minutes
  <1>1. CASE UNCHANGED <<clock, table, overwritten>>
    BY <1>0, <1>1
  <1>2. CASE Advance
    <2>1. \A t \in table[e].rule : t > clock + 1 => t > clock
      BY <1>a DEF Minutes
    <2> QED BY <1>0, <1>2, <2>1 DEF Advance, hist
  <1>3. CASE Store
    <2> DEFINE n == NextActivation(seen[event].rule, now)
    <2>1. event \in Events /\ seen[event].rule \in SUBSET Minutes /\ now \in Minutes /\ now <= clock
      BY <1>3, <1>a, ClockAssumption DEF Store, IInv, AtEvent, TypeOK, Row
    <2>2. clock' = clock
      BY <1>3 DEF Store
    <2>3. CASE e = event /\ table[event].state # "none"
      <3>1. table'[e].next = n /\ table'[e].rule = table[e].rule
        BY <1>3, <1>a, <2>1, <2>3 DEF Store, TypeOK, Row
      <3>2. table[e].rule = seen[e].rule
        BY <1>3, <2>1, <2>3 DEF Store
      <3>3. /\ n \in seen[e].rule \cup {None}
            /\ \A t \in seen[e].rule : t > now => n <= t
        BY <2>1, <2>3, NextIsNamed
      <3> HIDE DEF n
      <3>4. \A t \in seen[e].rule : t > clock => t > now
        BY <1>a, <2>1, <3>2 DEF Minutes
      <3> QED BY <2>2, <3>1, <3>2, <3>3, <3>4
    <2>4. CASE ~(e = event /\ table[event].state # "none")
      <3>1. table'[e] = table[e] /\ e \notin overwritten
        BY <1>3, <1>a, <2>1, <2>4 DEF Store, TypeOK
      <3> QED BY <1>0, <2>2, <3>1
    <2> QED BY <2>3, <2>4
  <1>4. ASSUME NEW d \in Events, NEW state \in {"none", "off", "on"}, NEW rule \in Rules \cup {{}},
               Edit(d, state, rule)
        PROVE Goal
    <2>1. d # e
      BY <1>4, <1>a DEF Edit, TypeOK
    <2>2. table'[e] = table[e] /\ e \notin overwritten /\ clock' = clock
      BY <1>4, <1>a, <2>1 DEF Edit, TypeOK
    <2> QED BY <1>0, <2>2
  <1>5. CASE Start \/ Clear \/ List \/ Fire \/ Release \/ Done \/ Wakes \/ Fail \/ Crash
    BY <1>1, <1>5 DEF Start, Clear, List, Fire, Release, Done, Wakes, Fail, Crash, hist
  <1>6. ASSUME NEW d \in Events, Take(d) PROVE Goal
    BY <1>1, <1>6 DEF Take, hist
  <1>7. ASSUME NEW d \in Awaited, Park(d) PROVE Goal
    BY <1>1, <1>7 DEF Park, hist
  <1>8. CASE UNCHANGED vars
    BY <1>1, <1>8 DEF vars
  <1> QED
    BY <1>2, <1>3, <1>4, <1>5, <1>6, <1>7, <1>8 DEF Next, Loop, Others

\* Init establishes the four.
LEMMA HistInit == Init => Counted /\ Unedited /\ Looked /\ Timely
  <1> SUFFICES ASSUME Init PROVE Counted /\ Unedited /\ Looked /\ Timely
    OBVIOUS
  <1>1. Counted
    BY DEF Init, Counted, Working, ToFire, Cut
  <1>2. Unedited
    BY DEF Init, Unedited, ToWrite
  <1>3. Looked
    BY DEF Init, Looked, Working
  <1>4. Timely
    BY DEF Init, Timely, Row
  <1> QED BY <1>1, <1>2, <1>3, <1>4

-----------------------------------------------------------------------------
\* Theorem: the thread's locals and the rows of the catalog keep their types, whatever the
\* events, rules, edits and faults (scheduler.py, time events).
THEOREM ClockTypes == Spec => []TypeOK
  <1>1. IInv => TypeOK
    BY DEF IInv
  <1> QED BY <1>1, InitInv, InvStep, PTL DEF Spec

\* Theorem: the scheduler keeps EventPromise: no minute an event is armed for is passed over
\* and no event runs before one, through restarts, failed calls and edits while a tick works
\* from rows it read before (_startup_recovery, _tick, _store_timers).
THEOREM ClockKeepsPromise == Spec => KeepsPromise
  <1> QED BY PromiseInit, InitInv, InvStep, PromiseStep, PTL DEF Spec, KeepsPromise, Promise!Spec

\* Theorem: an event runs once for a minute, and once more at most for every fault, because a
\* timer is only ever written for a minute after the one its event last ran for (_tick,
\* _store_timers, _startup_recovery).
THEOREM ClockRunsOnce == Spec => []RunsOnce
  <1>1. Counted => RunsOnce
    BY DEF Counted, RunsOnce
  <1> QED BY <1>1, HistInit, InitInv, InvStep, CountedStep, PTL DEF Spec

\* Theorem: the loop never sleeps over an edit, whenever it falls: it clears the flag before
\* it reads the events, and a timer written from the row the table has is of its rule (_loop,
\* request_reload, _store_timers).  An event whose timer was written from an older row is
\* excepted.
THEOREM ClockPicksUpEdits == Spec => []EditsPickedUp
  <1>1. IInv /\ Looked /\ Timely => EditsPickedUp
    <2> SUFFICES ASSUME IInv, Looked, Timely, pc = "wait", ~wake, NEW e \in Events \ overwritten
                 PROVE  PickedUp(e)
      BY DEF EditsPickedUp
    <2> DEFINE upcoming == NextActivation(RuleOf(e), clock)
    <2> SUFFICES ASSUME upcoming # None PROVE ArmedAt(e) # None /\ ArmedAt(e) <= upcoming
      BY DEF PickedUp
    <2>1. table[e].next # None
      <3>1. table[e].next # None \/ e \in todo
        BY DEF Looked, ToWrite
      <3> QED BY <3>1 DEF IInv, Idle
    <2>2. RuleOf(e) \in SUBSET Minutes /\ clock \in Minutes
      BY Armed DEF IInv, TypeOK
    <2>3. upcoming \in RuleOf(e) /\ upcoming > clock
      BY <2>2, NextIsNamed, NextIsLater
    <2> HIDE DEF upcoming
    <2>4. table[e].state = "on" /\ RuleOf(e) = table[e].rule
      BY <2>3 DEF RuleOf
    <2>5. table[e].next \in RuleOf(e) /\ table[e].next <= upcoming
      BY <2>1, <2>3, <2>4 DEF Timely
    <2>6. ArmedAt(e) = table[e].next
      BY <2>5 DEF ArmedAt
    <2> QED BY <2>1, <2>5, <2>6
  <1> QED BY <1>1, HistInit, InitInv, InvStep, UneditedStep, LookedStep, TimelyStep, PTL DEF Spec
=============================================================================
