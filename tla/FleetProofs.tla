---------------------------- MODULE FleetProofs -----------------------------
(***************************************************************************)
(* Proofs about FleetInstance, for any rows, any statuses in which the     *)
(* upgrade button is shown, and any number of checkouts, reports and       *)
(* faults: the types, that a row is marked deleted only when its app is    *)
(* gone, and that what is paid for is up when all went smoothly.           *)
(*                                                                         *)
(* The second needs that no provisioning job can build an app for a row    *)
(* the tick has listed for deletion.  A job begins when a row is made or   *)
(* paid for.  A listed row's grace period is over, so no job was under way *)
(* when it ended and every event of Stripe had come; what remains to be    *)
(* excluded is a payment after that: a sandbox can still be paid for, but  *)
(* that starts no job, and of any other row a subscription has ended, so   *)
(* it was paid for before.                                                 *)
(*                                                                         *)
(* The third needs that one payment finds its row as it should be: a       *)
(* sandbox that was or can be paid for is out of the tick's reach and has  *)
(* its machine, a basic row has none before the payment's news is handled, *)
(* and what a handler, a job or the tick has read still holds.             *)
(***************************************************************************)
EXTENDS FleetInstance, FiniteSetTheorems, TLAPS

SessionType == Rows \X (1..MaxCheckouts)

DbTyped     == db \in [Rows -> RowType \cup {None}]
FlyTyped    == fly \in [Rows -> FlyType]
StripeTyped ==
    /\ stripe \in [open : SUBSET SessionType, live : SUBSET SessionType,
                   paid : SUBSET SessionType, news : SUBSET Events]
    /\ stripe.paid \subseteq stripe.open /\ stripe.live \subseteq stripe.open
    /\ seen \subseteq stripe.news
ModesTyped  == modes \subseteq Rows \X Modes

HandlerOf(pcs) == loop.pc \in pcs

\* A handler works for a row that is there; a webhook's event is in seen.
LoopTyped ==
    /\ loop \in [pc : {"idle", "pend", "checkout", "webhook", "completed", "deleted", "touch"},
                 row : Rows \cup {None}, copy : RowType \cup {None}, event : Events \cup {None}]
    /\ HandlerOf({"pend", "checkout", "webhook", "completed", "deleted"}) =>
          loop.row \in Rows /\ db[loop.row] # None
    /\ HandlerOf({"pend", "checkout", "completed", "deleted"}) => loop.copy \in RowType
    /\ HandlerOf({"webhook", "completed", "deleted"}) =>
          loop.event \in seen /\ loop.event.row = loop.row
    /\ HandlerOf({"completed", "deleted"}) => loop.event.kind = loop.pc
    /\ HandlerOf({"completed"}) => loop.copy.tier = db[loop.row].tier

\* There is room for the session a handler is going to open.
LoopHasRoom ==
    /\ IsFiniteSet(stripe.open)
    /\ HandlerOf({"pend", "checkout"}) => MoreCheckouts

ReportTyped ==
    /\ report # NoReport =>
          /\ report \in [row : Rows, copy : RowType, events : BOOLEAN]
          /\ db[report.row] # None
    /\ loop.pc = "touch" => report # NoReport

JobTyped ==
    /\ job \in [Rows -> [pc : {"idle", "read", "mark", "build", "record", "health"},
                         copy : RowType \cup {None}]]
    /\ \A r \in Rows : job[r].pc # "idle" => db[r] # None
    /\ \A r \in Rows : job[r].pc \in {"mark", "build", "record"} => job[r].copy \in RowType

TickTyped ==
    /\ tick \in [pc : {"idle", "suspend", "store", "delete", "app", "deleted"},
                 todo : SUBSET Rows, row : Rows \cup {None}]
    /\ \A r \in tick.todo : db[r] # None
    /\ tick.pc \in {"store", "app", "deleted"} => tick.row \in Rows /\ db[tick.row] # None

\* The sessions are those of rows that are there.
SessionsKnown == \A s \in stripe.open : db[s[1]] # None

\* The news are about paid sessions, one of a row.
PaidOnce ==
    /\ \A e \in stripe.news : <<e.row, e.n>> \in stripe.paid
    /\ \A s, t \in stripe.paid : s[1] = t[1] => s = t

WasPaid(r) == \E s \in stripe.paid : s[1] = r

\* The news of a payment is still to be handled.
Pending(r) ==
    \/ \E e \in stripe.news \ seen : e.kind = "completed" /\ e.row = r
    \/ /\ HandlerOf({"webhook", "completed"})
       /\ loop.event.kind = "completed" /\ loop.row = r

Hosted(r) == db[r] # None /\ db[r].tier # "sandbox"

\* What is no sandbox has a deadline only after it was paid for.
DeadlinePaid == \A r \in Rows : Hosted(r) /\ db[r].deadline # "none" => WasPaid(r)

\* Its grace period does not end before the news of its payment came.
NewsInTime == \A r \in Rows : Hosted(r) /\ Pending(r) => db[r].deadline # "past"

\* Nor while a job is at work, and a job's row is not deleted.
JobsInTime ==
    \A r \in Rows : job[r].pc # "idle" => db[r].deadline # "past" /\ db[r].status # "deleted"

\* The rows the tick is about to suspend, and to delete.
ToSuspend == IF tick.pc = "suspend" THEN tick.todo
             ELSE IF tick.pc = "store" THEN tick.todo \cup {tick.row} ELSE {}
ToDelete  == IF tick.pc = "delete" THEN tick.todo
             ELSE IF tick.pc \in {"app", "deleted"} THEN tick.todo \cup {tick.row} ELSE {}

SuspendKnown == \A r \in ToSuspend : Hosted(r) => WasPaid(r)

\* No job is at work for a row on the list, and no payment can start one.
DeleteKnown ==
    /\ \A r \in ToDelete : job[r].pc = "idle" /\ (Hosted(r) => WasPaid(r) /\ ~Pending(r))
    /\ tick.pc = "deleted" => fly[tick.row] = NoApp

\* A failing checkout puts "deleted" back only on a row that is.
Restorable ==
    HandlerOf({"pend", "checkout"}) /\ loop.copy.status = "deleted" =>
        fly[loop.row] = NoApp /\ job[loop.row].pc = "idle"

IInv ==
    /\ DbTyped /\ FlyTyped /\ StripeTyped /\ ModesTyped /\ LoopTyped /\ LoopHasRoom
    /\ ReportTyped /\ JobTyped /\ TickTyped /\ SessionsKnown /\ PaidOnce
    /\ DeadlinePaid /\ NewsInTime /\ JobsInTime /\ SuspendKnown /\ DeleteKnown
    /\ Restorable /\ DeletedIsGone

-----------------------------------------------------------------------------
(* Apps                                                                    *)

\* What is gone stays gone when a mode is set.
LEMMA SetModeKeeps ==
    ASSUME IInv, NEW r \in Rows, NEW mode \in Modes, SetMode(r, mode)
    PROVE  FlyTyped' /\ \A q \in Rows : fly[q] = NoApp => fly'[q] = NoApp
  <1>1. fly[r] \in FlyType /\ [fly[r] EXCEPT !.machine = mode] \in FlyType /\ fly[r] # NoApp
    BY DEF SetMode, IInv, FlyTyped, FlyType, NoApp
  <1>2. fly' = [fly EXCEPT ![r] = [fly[r] EXCEPT !.machine = mode]]
    BY DEF SetMode
  <1> QED BY <1>1, <1>2 DEF IInv, FlyTyped

LEMMA WebhookReadsKeeps == ASSUME IInv, WebhookReads PROVE IInv'
  <1>1. UNCHANGED <<db, fly, seen, stripe, report, job, modes, tick>>
    BY DEF WebhookReads
  <1>2. /\ loop.pc = "webhook" /\ loop.row \in Rows /\ db[loop.row] \in RowType
        /\ loop.event \in Events
    BY DEF WebhookReads, IInv, LoopTyped, HandlerOf, DbTyped, StripeTyped
  <1>3. loop.event.kind \in {"completed", "deleted"}
    BY <1>2 DEF Events, Kinds
  <1>4. loop' = [pc |-> loop.event.kind, row |-> loop.row, copy |-> db[loop.row], event |-> loop.event]
    BY DEF WebhookReads, IInv, LoopTyped
  <1>5. /\ DbTyped' /\ FlyTyped' /\ StripeTyped' /\ ModesTyped' /\ JobTyped' /\ TickTyped'
        /\ SessionsKnown' /\ PaidOnce' /\ DeadlinePaid' /\ JobsInTime' /\ SuspendKnown'
        /\ DeletedIsGone'
    BY <1>1 DEF IInv, DbTyped, FlyTyped, StripeTyped, ModesTyped, JobTyped, TickTyped,
       SessionsKnown, PaidOnce, DeadlinePaid, Hosted, WasPaid, JobsInTime, SuspendKnown,
       ToSuspend, DeletedIsGone
  <1>6. LoopTyped'
    BY <1>1, <1>2, <1>3, <1>4 DEF IInv, LoopTyped, HandlerOf, DbTyped, StripeTyped
  <1>7. LoopHasRoom'
    BY <1>1, <1>2, <1>3, <1>4 DEF IInv, LoopHasRoom, HandlerOf, MoreCheckouts
  <1>8. ReportTyped'
    BY <1>1, <1>2, <1>3, <1>4 DEF IInv, ReportTyped, LoopTyped, HandlerOf
  <1>9. NewsInTime'
    BY <1>1, <1>2, <1>3, <1>4 DEF IInv, NewsInTime, Hosted, Pending, HandlerOf, LoopTyped
  <1>10. DeleteKnown'
    BY <1>1, <1>2, <1>3, <1>4 DEF IInv, DeleteKnown, Hosted, WasPaid, Pending, HandlerOf,
       ToDelete, TickTyped, LoopTyped
  <1>11. Restorable'
    BY <1>1, <1>2, <1>3, <1>4 DEF IInv, Restorable, HandlerOf, LoopTyped
  <1> QED
    BY <1>5, <1>6, <1>7, <1>8, <1>9, <1>10, <1>11 DEF IInv

LEMMA CheckoutOpensKeeps == ASSUME IInv, CheckoutOpens PROVE IInv'
  <1>1. UNCHANGED <<db, fly, seen, report, job, modes, tick>>
    BY DEF CheckoutOpens
  <1>2. loop.pc = "checkout" /\ loop.row \in Rows /\ db[loop.row] # None
    BY DEF CheckoutOpens, IInv, LoopTyped, HandlerOf
  <1>3. loop' = IdleLoop
    BY DEF CheckoutOpens
  <1>4. /\ IsFiniteSet(stripe.open) /\ Cardinality(stripe.open) \in Nat
        /\ Cardinality(stripe.open) < MaxCheckouts
    BY <1>2, FS_CardinalityType DEF IInv, LoopHasRoom, HandlerOf, MoreCheckouts
  <1>5. PICK s \in SessionType : /\ s[1] = loop.row
                              /\ stripe' = [stripe EXCEPT !.open = @ \cup {s}, !.live = @ \cup {s}]
    <2> DEFINE s == <<loop.row, Cardinality(stripe.open) + 1>>
    <2>1. s \in SessionType /\ s[1] = loop.row
      BY <1>2, <1>4, FleetAssumption DEF SessionType
    <2>2. stripe' = [stripe EXCEPT !.open = @ \cup {s}, !.live = @ \cup {s}]
      BY DEF CheckoutOpens
    <2> QED BY <2>1, <2>2
  <1>6. /\ stripe'.open = stripe.open \cup {s} /\ stripe'.live = stripe.live \cup {s}
        /\ stripe'.paid = stripe.paid /\ stripe'.news = stripe.news
    BY <1>5 DEF IInv, StripeTyped
  <1>7. /\ DbTyped' /\ FlyTyped' /\ ModesTyped' /\ JobTyped' /\ TickTyped' /\ JobsInTime'
        /\ DeletedIsGone'
    BY <1>1 DEF IInv, DbTyped, FlyTyped, ModesTyped, JobTyped, TickTyped, JobsInTime,
       DeletedIsGone
  <1>8. StripeTyped'
    BY <1>1, <1>5 DEF IInv, StripeTyped
  <1>9. LoopTyped'
    BY <1>1, <1>2, <1>3, <1>4, <1>5, <1>6 DEF IInv, LoopTyped, HandlerOf, DbTyped, StripeTyped,
       IdleLoop
  <1>10. LoopHasRoom'
    BY <1>3, <1>4, <1>6, FS_AddElement DEF LoopHasRoom, HandlerOf, IdleLoop
  <1>11. ReportTyped'
    BY <1>1, <1>2, <1>3, <1>4, <1>5, <1>6 DEF IInv, ReportTyped, LoopTyped, HandlerOf, IdleLoop
  <1>12. SessionsKnown'
    BY <1>1, <1>2, <1>3, <1>4, <1>5, <1>6 DEF IInv, SessionsKnown, StripeTyped, IdleLoop
  <1>13. PaidOnce'
    BY <1>1, <1>2, <1>3, <1>4, <1>5, <1>6 DEF IInv, PaidOnce, StripeTyped, IdleLoop
  <1>14. DeadlinePaid'
    BY <1>1, <1>2, <1>3, <1>4, <1>5, <1>6 DEF IInv, DeadlinePaid, Hosted, WasPaid, IdleLoop
  <1>15. NewsInTime'
    BY <1>1, <1>2, <1>3, <1>4, <1>5, <1>6 DEF IInv, NewsInTime, Hosted, Pending, HandlerOf,
       LoopTyped, IdleLoop
  <1>16. SuspendKnown'
    BY <1>1, <1>2, <1>3, <1>4, <1>5, <1>6 DEF IInv, SuspendKnown, Hosted, WasPaid, ToSuspend,
       TickTyped, IdleLoop
  <1>17. DeleteKnown'
    BY <1>1, <1>2, <1>3, <1>4, <1>5, <1>6 DEF IInv, DeleteKnown, Hosted, WasPaid, Pending,
       HandlerOf, ToDelete, TickTyped, LoopTyped, IdleLoop
  <1>18. Restorable'
    BY <1>1, <1>2, <1>3, <1>4, <1>5, <1>6 DEF IInv, Restorable, HandlerOf, LoopTyped, IdleLoop
  <1> QED
    BY <1>7, <1>8, <1>9, <1>10, <1>11, <1>12, <1>13, <1>14, <1>15, <1>16, <1>17, <1>18 DEF IInv

LEMMA PaysKeeps == ASSUME IInv, NEW s \in stripe.open, Pays(s) PROVE IInv'
  <1>1. UNCHANGED <<db, fly, seen, loop, report, job, modes, tick>>
    BY DEF Pays
  <1>2. s \in SessionType /\ s \in stripe.live /\ ~WasPaid(s[1])
    BY DEF Pays, IInv, StripeTyped, WasPaid
  <1>3. PICK e \in Events : /\ e.kind = "completed" /\ e.row = s[1] /\ e.n = s[2]
                         /\ stripe' = [stripe EXCEPT !.paid = @ \cup {s}, !.live = @ \ {s},
                                              !.news = @ \cup {e}]
    BY <1>2 DEF Pays, SessionType, Events, Kinds
  <1>4. /\ stripe'.open = stripe.open /\ stripe'.live = stripe.live \ {s}
        /\ stripe'.paid = stripe.paid \cup {s} /\ stripe'.news = stripe.news \cup {e}
    BY <1>3 DEF IInv, StripeTyped
  <1>5. /\ DbTyped' /\ FlyTyped' /\ ModesTyped' /\ LoopTyped' /\ ReportTyped' /\ JobTyped'
        /\ TickTyped' /\ JobsInTime' /\ Restorable' /\ DeletedIsGone'
    BY <1>1 DEF IInv, DbTyped, FlyTyped, ModesTyped, LoopTyped, HandlerOf, ReportTyped, JobTyped,
       TickTyped, JobsInTime, Restorable, DeletedIsGone
  <1>6. StripeTyped'
    BY <1>1, <1>2, <1>3 DEF IInv, StripeTyped
  <1>7. LoopHasRoom'
    BY <1>1, <1>2, <1>3, <1>4 DEF IInv, LoopHasRoom, HandlerOf, MoreCheckouts
  <1>8. SessionsKnown'
    BY <1>1, <1>2, <1>3, <1>4 DEF IInv, SessionsKnown, StripeTyped
  <1>9. PaidOnce'
    BY <1>1, <1>2, <1>3, <1>4 DEF IInv, PaidOnce, StripeTyped, SessionType, WasPaid, Events
  <1>10. DeadlinePaid'
    BY <1>1, <1>2, <1>3, <1>4 DEF IInv, DeadlinePaid, Hosted, WasPaid
  <1>11. NewsInTime'
    BY <1>1, <1>2, <1>3, <1>4 DEF IInv, NewsInTime, Hosted, Pending, HandlerOf, LoopTyped,
       DeadlinePaid, WasPaid
  <1>12. SuspendKnown'
    BY <1>1, <1>2, <1>3, <1>4 DEF IInv, SuspendKnown, Hosted, WasPaid, ToSuspend, TickTyped
  <1>13. DeleteKnown'
    BY <1>1, <1>2, <1>3, <1>4 DEF IInv, DeleteKnown, Hosted, WasPaid, Pending, HandlerOf,
       ToDelete, TickTyped, LoopTyped
  <1> QED
    BY <1>5, <1>6, <1>7, <1>8, <1>9, <1>10, <1>11, <1>12, <1>13 DEF IInv

LEMMA SubscriptionEndsKeeps == ASSUME IInv, NEW s \in stripe.open, SubscriptionEnds(s) PROVE IInv'
  <1>1. UNCHANGED <<db, fly, seen, loop, report, job, modes, tick>>
    BY DEF SubscriptionEnds
  <1>2. s \in SessionType /\ s \in stripe.paid
    BY DEF SubscriptionEnds, IInv, StripeTyped
  <1>3. PICK e \in Events : /\ e.kind = "deleted" /\ e.row = s[1] /\ e.n = s[2]
                         /\ stripe' = [stripe EXCEPT !.news = @ \cup {e}]
    BY <1>2 DEF SubscriptionEnds, SessionType, Events, Kinds
  <1>4. /\ stripe'.open = stripe.open /\ stripe'.live = stripe.live
        /\ stripe'.paid = stripe.paid /\ stripe'.news = stripe.news \cup {e}
    BY <1>3 DEF IInv, StripeTyped
  <1>5. /\ DbTyped' /\ FlyTyped' /\ ModesTyped' /\ LoopTyped' /\ ReportTyped' /\ JobTyped'
        /\ TickTyped' /\ JobsInTime' /\ Restorable' /\ DeletedIsGone'
    BY <1>1 DEF IInv, DbTyped, FlyTyped, ModesTyped, LoopTyped, HandlerOf, ReportTyped, JobTyped,
       TickTyped, JobsInTime, Restorable, DeletedIsGone
  <1>6. StripeTyped'
    BY <1>1, <1>2, <1>3 DEF IInv, StripeTyped
  <1>7. LoopHasRoom'
    BY <1>1, <1>2, <1>3, <1>4 DEF IInv, LoopHasRoom, HandlerOf, MoreCheckouts
  <1>8. SessionsKnown'
    BY <1>1, <1>2, <1>3, <1>4 DEF IInv, SessionsKnown, StripeTyped
  <1>9. PaidOnce'
    BY <1>1, <1>2, <1>3, <1>4 DEF IInv, PaidOnce, StripeTyped, SessionType, Events
  <1>10. DeadlinePaid'
    BY <1>1, <1>2, <1>3, <1>4 DEF IInv, DeadlinePaid, Hosted, WasPaid
  <1>11. NewsInTime'
    BY <1>1, <1>2, <1>3, <1>4 DEF IInv, NewsInTime, Hosted, Pending, HandlerOf, LoopTyped
  <1>12. SuspendKnown'
    BY <1>1, <1>2, <1>3, <1>4 DEF IInv, SuspendKnown, Hosted, WasPaid, ToSuspend, TickTyped
  <1>13. DeleteKnown'
    BY <1>1, <1>2, <1>3, <1>4 DEF IInv, DeleteKnown, Hosted, WasPaid, Pending, HandlerOf,
       ToDelete, TickTyped, LoopTyped
  <1> QED
    BY <1>5, <1>6, <1>7, <1>8, <1>9, <1>10, <1>11, <1>12, <1>13 DEF IInv

LEMMA WebhookKeeps == ASSUME IInv, NEW e \in stripe.news, Webhook(e) PROVE IInv'
  <1>1. UNCHANGED <<db, fly, stripe, report, job, modes, tick>>
    BY DEF Webhook
  <1>2. e \in Events /\ <<e.row, e.n>> \in stripe.open /\ e.row \in Rows /\ db[e.row] # None
    BY DEF IInv, StripeTyped, PaidOnce, SessionsKnown, Events
  <1>3. /\ loop.pc = "idle" /\ e \notin seen /\ seen' = seen \cup {e}
        /\ loop' = [pc |-> "webhook", row |-> e.row, copy |-> None, event |-> e]
    BY DEF Webhook, IdleLoop, Remembered
  <1>4. /\ DbTyped' /\ FlyTyped' /\ ModesTyped' /\ JobTyped' /\ TickTyped'
        /\ SessionsKnown' /\ PaidOnce' /\ DeadlinePaid' /\ JobsInTime' /\ SuspendKnown'
        /\ DeletedIsGone'
    BY <1>1 DEF IInv, DbTyped, FlyTyped, ModesTyped, JobTyped, TickTyped, SessionsKnown,
       PaidOnce, DeadlinePaid, Hosted, WasPaid, JobsInTime, SuspendKnown, ToSuspend, DeletedIsGone
  <1>5. StripeTyped'
    BY <1>1, <1>2, <1>3 DEF IInv, StripeTyped
  <1>6. LoopTyped'
    BY <1>1, <1>2, <1>3 DEF IInv, LoopTyped, HandlerOf, DbTyped, StripeTyped
  <1>7. LoopHasRoom'
    BY <1>1, <1>2, <1>3 DEF IInv, LoopHasRoom, HandlerOf, MoreCheckouts
  <1>8. ReportTyped'
    BY <1>1, <1>2, <1>3 DEF IInv, ReportTyped, LoopTyped, HandlerOf
  <1>9. NewsInTime'
    BY <1>1, <1>2, <1>3 DEF IInv, NewsInTime, Hosted, Pending, HandlerOf, LoopTyped
  <1>10. DeleteKnown'
    BY <1>1, <1>2, <1>3 DEF IInv, DeleteKnown, Hosted, WasPaid, Pending, HandlerOf, ToDelete,
       TickTyped, LoopTyped
  <1>11. Restorable'
    BY <1>1, <1>2, <1>3 DEF IInv, Restorable, HandlerOf, LoopTyped
  <1> QED
    BY <1>4, <1>5, <1>6, <1>7, <1>8, <1>9, <1>10, <1>11 DEF IInv

LEMMA ModeJobKeeps ==
    ASSUME IInv, NEW r \in Rows, NEW mode \in Modes, ModeJob(r, mode)
    PROVE  IInv'
  <1>1. UNCHANGED <<db, seen, stripe, loop, report, job, tick>>
    BY DEF ModeJob
  <1>2. FlyTyped' /\ \A q \in Rows : fly[q] = NoApp => fly'[q] = NoApp
    BY SetModeKeeps DEF ModeJob, IInv, FlyTyped
  <1>3. /\ DbTyped' /\ StripeTyped' /\ LoopTyped' /\ LoopHasRoom' /\ ReportTyped'
        /\ JobTyped' /\ TickTyped' /\ SessionsKnown' /\ PaidOnce' /\ DeadlinePaid'
        /\ NewsInTime' /\ JobsInTime' /\ SuspendKnown'
    BY <1>1 DEF IInv, DbTyped, StripeTyped, LoopTyped, HandlerOf, LoopHasRoom, MoreCheckouts,
       ReportTyped, JobTyped, TickTyped, SessionsKnown, PaidOnce, DeadlinePaid, Hosted, WasPaid,
       NewsInTime, Pending, JobsInTime, SuspendKnown, ToSuspend
  <1>4. FlyTyped'
    BY <1>2
  <1>5. ModesTyped'
    BY <1>1, <1>2 DEF IInv, ModesTyped, ModeJob
  <1>6. DeleteKnown'
    BY <1>1, <1>2 DEF IInv, DeleteKnown, Hosted, WasPaid, Pending, HandlerOf, ToDelete,
       TickTyped, LoopTyped
  <1>7. Restorable'
    BY <1>1, <1>2 DEF IInv, Restorable, HandlerOf, LoopTyped
  <1>8. DeletedIsGone'
    BY <1>1, <1>2 DEF IInv, DeletedIsGone
  <1> QED
    BY <1>3, <1>4, <1>5, <1>6, <1>7, <1>8 DEF IInv

LEMMA PresenceKeeps ==
    ASSUME IInv, NEW r \in Rows, NEW events \in BOOLEAN, Presence(r, events)
    PROVE  IInv'
  <1>1. UNCHANGED <<db, fly, seen, stripe, loop, job, modes, tick>>
    BY DEF Presence
  <1>2. db[r] \in RowType /\ db[r] # None /\ loop.pc = "idle"
    BY DEF Presence, IInv, DbTyped
  <1>3. report' = [row |-> r, copy |-> db[r], events |-> events]
    BY DEF Presence
  <1>4. /\ DbTyped' /\ FlyTyped' /\ StripeTyped' /\ ModesTyped' /\ LoopTyped'
        /\ LoopHasRoom' /\ JobTyped' /\ TickTyped' /\ SessionsKnown' /\ PaidOnce'
        /\ DeadlinePaid' /\ NewsInTime' /\ JobsInTime' /\ SuspendKnown' /\ DeleteKnown'
        /\ Restorable' /\ DeletedIsGone'
    BY <1>1 DEF IInv, DbTyped, FlyTyped, StripeTyped, ModesTyped, LoopTyped, HandlerOf,
       LoopHasRoom, MoreCheckouts, JobTyped, TickTyped, SessionsKnown, PaidOnce, DeadlinePaid,
       Hosted, WasPaid, NewsInTime, Pending, JobsInTime, SuspendKnown, ToSuspend, DeleteKnown,
       ToDelete, Restorable, DeletedIsGone
  <1>5. ReportTyped'
    BY <1>1, <1>2, <1>3 DEF IInv, ReportTyped, LoopTyped, HandlerOf
  <1> QED
    BY <1>4, <1>5 DEF IInv

LEMMA PresenceTouchesKeeps == ASSUME IInv, PresenceTouches PROVE IInv'
  <1>1. UNCHANGED <<db, seen, stripe, job, modes, tick>>
    BY DEF PresenceTouches
  <1>2. loop.pc = "touch" /\ loop' = IdleLoop /\ report' = NoReport
    BY DEF PresenceTouches
  <1>3. report.row \in Rows
    BY <1>2 DEF IInv, ReportTyped
  <1>4. FlyTyped' /\ \A q \in Rows : fly[q] = NoApp => fly'[q] = NoApp
    BY <1>3, SetModeKeeps DEF PresenceTouches, IInv, FlyTyped, Modes
  <1>5. /\ DbTyped' /\ StripeTyped' /\ ModesTyped' /\ JobTyped' /\ TickTyped'
        /\ SessionsKnown' /\ PaidOnce' /\ DeadlinePaid' /\ JobsInTime' /\ SuspendKnown'
    BY <1>1 DEF IInv, DbTyped, StripeTyped, ModesTyped, JobTyped, TickTyped, SessionsKnown,
       PaidOnce, DeadlinePaid, Hosted, WasPaid, JobsInTime, SuspendKnown, ToSuspend
  <1>6. FlyTyped'
    BY <1>4
  <1>7. LoopTyped'
    BY <1>1, <1>2, <1>3, <1>4 DEF IInv, LoopTyped, HandlerOf, DbTyped, StripeTyped, IdleLoop
  <1>8. LoopHasRoom'
    BY <1>1, <1>2, <1>3, <1>4 DEF IInv, LoopHasRoom, HandlerOf, MoreCheckouts, IdleLoop
  <1>9. ReportTyped'
    BY <1>1, <1>2, <1>3, <1>4 DEF IInv, ReportTyped, LoopTyped, HandlerOf, IdleLoop
  <1>10. NewsInTime'
    BY <1>1, <1>2, <1>3, <1>4 DEF IInv, NewsInTime, Hosted, Pending, HandlerOf, LoopTyped,
       IdleLoop
  <1>11. DeleteKnown'
    BY <1>1, <1>2, <1>3, <1>4 DEF IInv, DeleteKnown, Hosted, WasPaid, Pending, HandlerOf,
       ToDelete, TickTyped, LoopTyped, IdleLoop
  <1>12. Restorable'
    BY <1>1, <1>2, <1>3, <1>4 DEF IInv, Restorable, HandlerOf, LoopTyped, IdleLoop
  <1>13. DeletedIsGone'
    BY <1>1, <1>2, <1>3, <1>4 DEF IInv, DeletedIsGone, IdleLoop
  <1> QED
    BY <1>5, <1>6, <1>7, <1>8, <1>9, <1>10, <1>11, <1>12, <1>13 DEF IInv

LEMMA UpgradeKeeps == ASSUME IInv, NEW r \in Rows, Upgrade(r) PROVE IInv'
  <1>1. UNCHANGED <<db, fly, seen, stripe, report, job, modes, tick>>
    BY DEF Upgrade
  <1>2. /\ loop' = [pc |-> "pend", row |-> r, copy |-> db[r], event |-> None]
        /\ db[r] \in RowType /\ db[r] # None /\ MoreCheckouts /\ loop.pc = "idle"
    BY DEF Upgrade, IdleLoop, IInv, DbTyped
  <1>3. db[r].status = "deleted" => fly[r] = NoApp /\ job[r].pc = "idle"
    BY <1>2, NullAssumption DEF IInv, DeletedIsGone, JobsInTime
  <1>4. /\ DbTyped' /\ FlyTyped' /\ StripeTyped' /\ ModesTyped' /\ JobTyped' /\ TickTyped'
        /\ SessionsKnown' /\ PaidOnce' /\ DeadlinePaid' /\ JobsInTime' /\ SuspendKnown'
        /\ DeletedIsGone'
    BY <1>1 DEF IInv, DbTyped, FlyTyped, StripeTyped, ModesTyped, JobTyped, TickTyped,
       SessionsKnown, PaidOnce, DeadlinePaid, Hosted, WasPaid, JobsInTime, SuspendKnown,
       ToSuspend, DeletedIsGone
  <1>5. LoopTyped'
    BY <1>1, <1>2, <1>3 DEF IInv, LoopTyped, HandlerOf, DbTyped, StripeTyped
  <1>6. LoopHasRoom'
    BY <1>1, <1>2, <1>3 DEF IInv, LoopHasRoom, HandlerOf, MoreCheckouts
  <1>7. ReportTyped'
    BY <1>1, <1>2, <1>3 DEF IInv, ReportTyped, LoopTyped, HandlerOf
  <1>8. NewsInTime'
    BY <1>1, <1>2, <1>3 DEF IInv, NewsInTime, Hosted, Pending, HandlerOf, LoopTyped
  <1>9. DeleteKnown'
    BY <1>1, <1>2, <1>3 DEF IInv, DeleteKnown, Hosted, WasPaid, Pending, HandlerOf, ToDelete,
       TickTyped, LoopTyped
  <1>10. Restorable'
    BY <1>1, <1>2, <1>3 DEF IInv, Restorable, HandlerOf, LoopTyped
  <1> QED
    BY <1>4, <1>5, <1>6, <1>7, <1>8, <1>9, <1>10 DEF IInv

LEMMA JobReadsKeeps == ASSUME IInv, NEW r \in Rows, JobReads(r) PROVE IInv'
  <1>1. UNCHANGED <<db, fly, seen, stripe, loop, report, modes, tick>>
    BY DEF JobReads
  <1>2. /\ DbTyped' /\ FlyTyped' /\ StripeTyped' /\ ModesTyped' /\ LoopTyped'
        /\ LoopHasRoom' /\ ReportTyped' /\ TickTyped' /\ SessionsKnown' /\ PaidOnce'
        /\ DeadlinePaid' /\ NewsInTime' /\ SuspendKnown' /\ DeletedIsGone'
    BY <1>1 DEF IInv, DbTyped, FlyTyped, StripeTyped, ModesTyped, LoopTyped, HandlerOf,
       LoopHasRoom, MoreCheckouts, ReportTyped, TickTyped, SessionsKnown, PaidOnce, DeadlinePaid,
       Hosted, WasPaid, NewsInTime, Pending, SuspendKnown, ToSuspend, DeletedIsGone
  <1>3. JobTyped'
    BY <1>1 DEF IInv, JobTyped, DbTyped, JobReads
  <1>4. JobsInTime'
    BY <1>1 DEF IInv, JobsInTime, JobTyped, JobReads
  <1>5. DeleteKnown'
    BY <1>1 DEF IInv, DeleteKnown, Hosted, WasPaid, Pending, HandlerOf, ToDelete, TickTyped,
       LoopTyped, JobReads
  <1>6. Restorable'
    BY <1>1 DEF IInv, Restorable, HandlerOf, LoopTyped, JobReads
  <1> QED
    BY <1>2, <1>3, <1>4, <1>5, <1>6 DEF IInv

LEMMA JobBuildsKeeps == ASSUME IInv, NEW r \in Rows, JobBuilds(r) PROVE IInv'
  <1>1. UNCHANGED <<db, seen, stripe, loop, report, modes, tick>>
    BY DEF JobBuilds
  <1>2. \A q \in Rows : q # r => fly'[q] = fly[q]
    BY DEF JobBuilds, IInv, FlyTyped
  <1>3. job[r].pc = "build" /\ job' = [job EXCEPT ![r] = [job[r] EXCEPT !.pc = "record"]]
    BY DEF JobBuilds
  <1>4. \A q \in Rows : q # r => job'[q] = job[q]
    BY <1>3 DEF IInv, JobTyped
  <1>5. /\ DbTyped' /\ StripeTyped' /\ ModesTyped' /\ LoopTyped' /\ LoopHasRoom'
        /\ ReportTyped' /\ TickTyped' /\ SessionsKnown' /\ PaidOnce' /\ DeadlinePaid'
        /\ NewsInTime' /\ SuspendKnown'
    BY <1>1 DEF IInv, DbTyped, StripeTyped, ModesTyped, LoopTyped, HandlerOf, LoopHasRoom,
       MoreCheckouts, ReportTyped, TickTyped, SessionsKnown, PaidOnce, DeadlinePaid, Hosted,
       WasPaid, NewsInTime, Pending, SuspendKnown, ToSuspend
  <1>6. FlyTyped'
    BY <1>1, <1>2, <1>3, <1>4 DEF IInv, FlyTyped, AwakeAsRead, FlyType, Modes, JobBuilds
  <1>7. JobTyped'
    BY <1>1, <1>2, <1>3, <1>4 DEF IInv, JobTyped, DbTyped, JobBuilds
  <1>8. JobsInTime'
    BY <1>1, <1>2, <1>3, <1>4 DEF IInv, JobsInTime, JobTyped
  <1>9. DeleteKnown'
    BY <1>1, <1>2, <1>3, <1>4 DEF IInv, DeleteKnown, Hosted, WasPaid, Pending, HandlerOf,
       ToDelete, TickTyped, LoopTyped
  <1>10. Restorable'
    BY <1>1, <1>2, <1>3, <1>4 DEF IInv, Restorable, HandlerOf, LoopTyped
  <1>11. DeletedIsGone'
    BY <1>1, <1>2, <1>3, <1>4 DEF IInv, DeletedIsGone, JobsInTime
  <1> QED
    BY <1>5, <1>6, <1>7, <1>8, <1>9, <1>10, <1>11 DEF IInv

LEMMA TickBeginsKeeps == ASSUME IInv, TickBegins PROVE IInv'
  <1>1. UNCHANGED <<db, fly, seen, stripe, loop, report, job, modes>>
    BY DEF TickBegins, Due, Doomed, DueForSuspend, IdleTick
  <1>2. /\ DbTyped' /\ FlyTyped' /\ StripeTyped' /\ ModesTyped' /\ LoopTyped'
        /\ LoopHasRoom' /\ ReportTyped' /\ JobTyped' /\ SessionsKnown' /\ PaidOnce'
        /\ DeadlinePaid' /\ NewsInTime' /\ JobsInTime' /\ Restorable' /\ DeletedIsGone'
    BY <1>1 DEF IInv, DbTyped, FlyTyped, StripeTyped, ModesTyped, LoopTyped, HandlerOf,
       LoopHasRoom, MoreCheckouts, ReportTyped, JobTyped, SessionsKnown, PaidOnce, DeadlinePaid,
       Hosted, WasPaid, NewsInTime, Pending, JobsInTime, Restorable, DeletedIsGone
  <1>3. TickTyped'
    BY <1>1 DEF IInv, TickTyped, TickBegins, Due, Doomed, DueForSuspend, IdleTick
  <1>4. SuspendKnown'
    BY <1>1 DEF IInv, SuspendKnown, Hosted, WasPaid, ToSuspend, TickTyped, TickBegins, Due,
       Doomed, DueForSuspend, IdleTick
  <1>5. DeleteKnown'
    BY <1>1 DEF IInv, DeleteKnown, Hosted, WasPaid, Pending, HandlerOf, ToDelete, TickTyped,
       LoopTyped, TickBegins, Due, Doomed, DueForSuspend, IdleTick
  <1> QED
    BY <1>2, <1>3, <1>4, <1>5 DEF IInv

LEMMA TickStopsKeeps == ASSUME IInv, NEW r \in Rows, TickStops(r) PROVE IInv'
  <1>1. UNCHANGED <<db, seen, stripe, loop, report, job, modes>>
    BY DEF TickStops
  <1>2. FlyTyped' /\ \A q \in Rows : fly[q] = NoApp => fly'[q] = NoApp
    BY SetModeKeeps DEF TickStops, IInv, FlyTyped, Modes
  <1>3. r \in tick.todo /\ tick.pc = "suspend"
    BY DEF TickStops
  <1>4. tick' = [pc |-> "store", todo |-> tick.todo \ {r}, row |-> r] \/ tick' = IdleTick
    BY DEF TickStops, IInv, TickTyped
  <1>5. /\ DbTyped' /\ StripeTyped' /\ ModesTyped' /\ LoopTyped' /\ LoopHasRoom'
        /\ ReportTyped' /\ JobTyped' /\ SessionsKnown' /\ PaidOnce' /\ DeadlinePaid'
        /\ NewsInTime' /\ JobsInTime'
    BY <1>1 DEF IInv, DbTyped, StripeTyped, ModesTyped, LoopTyped, HandlerOf, LoopHasRoom,
       MoreCheckouts, ReportTyped, JobTyped, SessionsKnown, PaidOnce, DeadlinePaid, Hosted,
       WasPaid, NewsInTime, Pending, JobsInTime
  <1>6. FlyTyped'
    BY <1>2
  <1>7. TickTyped'
    BY <1>1, <1>2, <1>3, <1>4 DEF IInv, TickTyped, IdleTick
  <1>8. SuspendKnown'
    BY <1>1, <1>2, <1>3, <1>4 DEF IInv, SuspendKnown, Hosted, WasPaid, ToSuspend, TickTyped,
       IdleTick
  <1>9. DeleteKnown'
    BY <1>1, <1>2, <1>3, <1>4 DEF IInv, DeleteKnown, Hosted, WasPaid, Pending, HandlerOf,
       ToDelete, TickTyped, LoopTyped, IdleTick
  <1>10. Restorable'
    BY <1>1, <1>2, <1>3, <1>4 DEF IInv, Restorable, HandlerOf, LoopTyped, IdleTick
  <1>11. DeletedIsGone'
    BY <1>1, <1>2, <1>3, <1>4 DEF IInv, DeletedIsGone, IdleTick
  <1> QED
    BY <1>5, <1>6, <1>7, <1>8, <1>9, <1>10, <1>11 DEF IInv

LEMMA TickListsKeeps == ASSUME IInv, TickLists PROVE IInv'
  <1>1. UNCHANGED <<db, fly, seen, stripe, loop, report, job, modes>>
    BY DEF TickLists
  <1>2. tick' = [pc |-> "delete", todo |-> Doomed, row |-> tick.row]
    BY DEF TickLists, IInv, TickTyped
  <1>3. \A r \in Doomed : db[r] # None /\ db[r].deadline = "past"
    BY DEF Doomed, ShouldDelete
  <1>4. Doomed \subseteq Rows
    BY DEF Doomed
  <1>5. /\ DbTyped' /\ FlyTyped' /\ StripeTyped' /\ ModesTyped' /\ LoopTyped'
        /\ LoopHasRoom' /\ ReportTyped' /\ JobTyped' /\ SessionsKnown' /\ PaidOnce'
        /\ DeadlinePaid' /\ NewsInTime' /\ JobsInTime' /\ Restorable' /\ DeletedIsGone'
    BY <1>1 DEF IInv, DbTyped, FlyTyped, StripeTyped, ModesTyped, LoopTyped, HandlerOf,
       LoopHasRoom, MoreCheckouts, ReportTyped, JobTyped, SessionsKnown, PaidOnce, DeadlinePaid,
       Hosted, WasPaid, NewsInTime, Pending, JobsInTime, Restorable, DeletedIsGone
  <1>6. TickTyped'
    BY <1>1, <1>2, <1>3, <1>4 DEF IInv, TickTyped
  <1>7. SuspendKnown'
    BY <1>1, <1>2, <1>3, <1>4 DEF IInv, SuspendKnown, Hosted, WasPaid, ToSuspend, TickTyped
  <1>8. DeleteKnown'
    BY <1>1, <1>2, <1>3, <1>4 DEF IInv, DeleteKnown, Hosted, WasPaid, Pending, HandlerOf,
       ToDelete, TickTyped, LoopTyped, JobsInTime, NewsInTime, DeadlinePaid
  <1> QED
    BY <1>5, <1>6, <1>7, <1>8 DEF IInv

LEMMA TickDeletesVolumeKeeps == ASSUME IInv, NEW r \in Rows, TickDeletesVolume(r) PROVE IInv'
  <1>1. UNCHANGED <<db, seen, stripe, loop, report, job, modes>>
    BY DEF TickDeletesVolume
  <1>2. /\ [fly[r] EXCEPT !.volume = FALSE] \in FlyType
        /\ (fly[r] = NoApp => [fly[r] EXCEPT !.volume = FALSE] = NoApp)
    <2>1. fly[r] \in FlyType
      BY DEF IInv, FlyTyped
    <2>2. [fly[r] EXCEPT !.volume = FALSE] \in FlyType
      BY <2>1 DEF FlyType
    <2>3. fly[r] = NoApp => fly[r].app = FALSE /\ fly[r].volume = FALSE /\ fly[r].machine = None
      BY DEF NoApp
    <2>4. fly[r] = NoApp => [fly[r] EXCEPT !.volume = FALSE] = NoApp
      BY <2>1, <2>2, <2>3 DEF NoApp, FlyType
    <2> QED BY <2>2, <2>4
  <1>3. fly' = fly \/ fly' = [fly EXCEPT ![r] = [fly[r] EXCEPT !.volume = FALSE]]
    BY DEF TickDeletesVolume
  <1>4. FlyTyped' /\ \A q \in Rows : fly[q] = NoApp => fly'[q] = NoApp
    BY <1>2, <1>3 DEF IInv, FlyTyped
  <1>5. r \in tick.todo /\ tick.pc = "delete"
    BY DEF TickDeletesVolume
  <1>6. \/ tick' = [pc |-> "app", todo |-> tick.todo \ {r}, row |-> r]
        \/ tick' = [pc |-> "delete", todo |-> tick.todo \ {r}, row |-> tick.row]
    BY DEF TickDeletesVolume, IInv, TickTyped
  <1>7. /\ DbTyped' /\ StripeTyped' /\ ModesTyped' /\ LoopTyped' /\ LoopHasRoom'
        /\ ReportTyped' /\ JobTyped' /\ SessionsKnown' /\ PaidOnce' /\ DeadlinePaid'
        /\ NewsInTime' /\ JobsInTime'
    BY <1>1 DEF IInv, DbTyped, StripeTyped, ModesTyped, LoopTyped, HandlerOf, LoopHasRoom,
       MoreCheckouts, ReportTyped, JobTyped, SessionsKnown, PaidOnce, DeadlinePaid, Hosted,
       WasPaid, NewsInTime, Pending, JobsInTime
  <1>8. FlyTyped'
    BY <1>4
  <1>9. TickTyped'
    BY <1>1, <1>2, <1>3, <1>4, <1>5, <1>6 DEF IInv, TickTyped
  <1>10. SuspendKnown'
    BY <1>1, <1>2, <1>3, <1>4, <1>5, <1>6 DEF IInv, SuspendKnown, Hosted, WasPaid, ToSuspend,
       TickTyped
  <1>11. DeleteKnown'
    BY <1>1, <1>2, <1>3, <1>4, <1>5, <1>6 DEF IInv, DeleteKnown, Hosted, WasPaid, Pending,
       HandlerOf, ToDelete, TickTyped, LoopTyped
  <1>12. Restorable'
    BY <1>1, <1>2, <1>3, <1>4, <1>5, <1>6 DEF IInv, Restorable, HandlerOf, LoopTyped
  <1>13. DeletedIsGone'
    BY <1>1, <1>2, <1>3, <1>4, <1>5, <1>6 DEF IInv, DeletedIsGone
  <1> QED
    BY <1>7, <1>8, <1>9, <1>10, <1>11, <1>12, <1>13 DEF IInv

LEMMA TickDeletesAppKeeps == ASSUME IInv, TickDeletesApp PROVE IInv'
  <1>1. UNCHANGED <<db, seen, stripe, loop, report, job, modes>>
    BY DEF TickDeletesApp
  <1>2. tick.pc = "app" /\ tick.row \in Rows
    BY DEF TickDeletesApp, IInv, TickTyped
  <1>3. NoApp \in FlyType
    BY DEF NoApp, FlyType
  <1>4. fly' = fly \/ fly' = [fly EXCEPT ![tick.row] = NoApp]
    BY DEF TickDeletesApp
  <1>5. FlyTyped' /\ \A q \in Rows : fly[q] = NoApp => fly'[q] = NoApp
    BY <1>2, <1>3, <1>4 DEF IInv, FlyTyped
  <1>6. /\ \/ tick' = [pc |-> "deleted", todo |-> tick.todo, row |-> tick.row]
        /\ fly'[tick.row] = NoApp
        \/ tick' = [pc |-> "delete", todo |-> tick.todo, row |-> tick.row]
    BY <1>2 DEF TickDeletesApp, LeftForLater, IInv, TickTyped, FlyTyped
  <1>7. /\ DbTyped' /\ StripeTyped' /\ ModesTyped' /\ LoopTyped' /\ LoopHasRoom'
        /\ ReportTyped' /\ JobTyped' /\ SessionsKnown' /\ PaidOnce' /\ DeadlinePaid'
        /\ NewsInTime' /\ JobsInTime'
    BY <1>1 DEF IInv, DbTyped, StripeTyped, ModesTyped, LoopTyped, HandlerOf, LoopHasRoom,
       MoreCheckouts, ReportTyped, JobTyped, SessionsKnown, PaidOnce, DeadlinePaid, Hosted,
       WasPaid, NewsInTime, Pending, JobsInTime
  <1>8. FlyTyped'
    BY <1>5
  <1>9. TickTyped'
    BY <1>1, <1>2, <1>3, <1>4, <1>5, <1>6 DEF IInv, TickTyped
  <1>10. SuspendKnown'
    BY <1>1, <1>2, <1>3, <1>4, <1>5, <1>6 DEF IInv, SuspendKnown, Hosted, WasPaid, ToSuspend,
       TickTyped
  <1>11. DeleteKnown'
    BY <1>1, <1>2, <1>3, <1>4, <1>5, <1>6 DEF IInv, DeleteKnown, Hosted, WasPaid, Pending,
       HandlerOf, ToDelete, TickTyped, LoopTyped
  <1>12. Restorable'
    BY <1>1, <1>2, <1>3, <1>4, <1>5, <1>6 DEF IInv, Restorable, HandlerOf, LoopTyped
  <1>13. DeletedIsGone'
    BY <1>1, <1>2, <1>3, <1>4, <1>5, <1>6 DEF IInv, DeletedIsGone
  <1> QED
    BY <1>7, <1>8, <1>9, <1>10, <1>11, <1>12, <1>13 DEF IInv

LEMMA TickEndsKeeps == ASSUME IInv, TickEnds PROVE IInv'
  <1>1. UNCHANGED <<db, fly, seen, stripe, loop, report, job, modes>>
    BY DEF TickEnds, IdleTick
  <1>2. /\ DbTyped' /\ FlyTyped' /\ StripeTyped' /\ ModesTyped' /\ LoopTyped'
        /\ LoopHasRoom' /\ ReportTyped' /\ JobTyped' /\ SessionsKnown' /\ PaidOnce'
        /\ DeadlinePaid' /\ NewsInTime' /\ JobsInTime' /\ Restorable' /\ DeletedIsGone'
    BY <1>1 DEF IInv, DbTyped, FlyTyped, StripeTyped, ModesTyped, LoopTyped, HandlerOf,
       LoopHasRoom, MoreCheckouts, ReportTyped, JobTyped, SessionsKnown, PaidOnce, DeadlinePaid,
       Hosted, WasPaid, NewsInTime, Pending, JobsInTime, Restorable, DeletedIsGone
  <1>3. TickTyped'
    BY <1>1 DEF IInv, TickTyped, TickEnds, IdleTick
  <1>4. SuspendKnown'
    BY <1>1 DEF IInv, SuspendKnown, Hosted, WasPaid, ToSuspend, TickTyped, TickEnds, IdleTick
  <1>5. DeleteKnown'
    BY <1>1 DEF IInv, DeleteKnown, Hosted, WasPaid, Pending, HandlerOf, ToDelete, TickTyped,
       LoopTyped, TickEnds, IdleTick
  <1> QED
    BY <1>2, <1>3, <1>4, <1>5 DEF IInv

LEMMA CrashKeeps == ASSUME IInv, Crash PROVE IInv'
  <1>1. UNCHANGED <<db, fly, seen, stripe>>
    BY DEF Crash, IdleLoop, IdleJob, IdleTick, NoReport
  <1>2. /\ DbTyped' /\ FlyTyped' /\ StripeTyped' /\ SessionsKnown' /\ PaidOnce'
        /\ DeadlinePaid' /\ DeletedIsGone'
    BY <1>1 DEF IInv, DbTyped, FlyTyped, StripeTyped, SessionsKnown, PaidOnce, DeadlinePaid,
       Hosted, WasPaid, DeletedIsGone
  <1>3. ModesTyped'
    BY <1>1 DEF IInv, ModesTyped, Crash, IdleLoop, IdleJob, IdleTick, NoReport
  <1>4. LoopTyped'
    BY <1>1 DEF IInv, LoopTyped, HandlerOf, DbTyped, StripeTyped, Crash, IdleLoop, IdleJob,
       IdleTick, NoReport
  <1>5. LoopHasRoom'
    BY <1>1 DEF IInv, LoopHasRoom, HandlerOf, MoreCheckouts, Crash, IdleLoop, IdleJob, IdleTick,
       NoReport
  <1>6. ReportTyped'
    BY <1>1 DEF IInv, ReportTyped, LoopTyped, HandlerOf, Crash, IdleLoop, IdleJob, IdleTick,
       NoReport
  <1>7. JobTyped'
    BY <1>1 DEF IInv, JobTyped, DbTyped, Crash, IdleLoop, IdleJob, IdleTick, NoReport
  <1>8. TickTyped'
    BY <1>1 DEF IInv, TickTyped, Crash, IdleLoop, IdleJob, IdleTick, NoReport
  <1>9. NewsInTime'
    BY <1>1 DEF IInv, NewsInTime, Hosted, Pending, HandlerOf, LoopTyped, Crash, IdleLoop,
       IdleJob, IdleTick, NoReport
  <1>10. JobsInTime'
    BY <1>1 DEF IInv, JobsInTime, JobTyped, Crash, IdleLoop, IdleJob, IdleTick, NoReport
  <1>11. SuspendKnown'
    BY <1>1 DEF IInv, SuspendKnown, Hosted, WasPaid, ToSuspend, TickTyped, Crash, IdleLoop,
       IdleJob, IdleTick, NoReport
  <1>12. DeleteKnown'
    BY <1>1 DEF IInv, DeleteKnown, Hosted, WasPaid, Pending, HandlerOf, ToDelete, TickTyped,
       LoopTyped, Crash, IdleLoop, IdleJob, IdleTick, NoReport
  <1>13. Restorable'
    BY <1>1 DEF IInv, Restorable, HandlerOf, LoopTyped, Crash, IdleLoop, IdleJob, IdleTick,
       NoReport
  <1> QED
    BY <1>2, <1>3, <1>4, <1>5, <1>6, <1>7, <1>8, <1>9, <1>10, <1>11, <1>12, <1>13 DEF IInv

-----------------------------------------------------------------------------
(* Rows                                                                    *)

\* What is stored for one row leaves the others as they are.
\* The fields lifecycle.py writes keep a row a row.
LEMMA FieldsTyped ==
    ASSUME NEW row \in RowType
    PROVE  /\ [row EXCEPT !.status = "suspended", !.deadline = "ahead", !.sleep = FALSE] \in RowType
           /\ [row EXCEPT !.sub = "canceled", !.status = "suspended", !.deadline = "ahead",
                          !.sleep = FALSE] \in RowType
  <1>1. \A x \in RowType : [x EXCEPT !.sub = "canceled"] \in RowType
    BY DEF RowType
  <1>2. \A x \in RowType : [x EXCEPT !.status = "suspended"] \in RowType
    BY DEF RowType, Statuses
  <1>3. \A x \in RowType : [x EXCEPT !.deadline = "ahead"] \in RowType
    BY DEF RowType, Dates
  <1>4. \A x \in RowType : [x EXCEPT !.sleep = FALSE] \in RowType
    BY DEF RowType
  <1> QED BY <1>1, <1>2, <1>3, <1>4

LEMMA Stored ==
    ASSUME IInv, NEW r \in Rows, NEW row \in RowType, Store(r, row)
    PROVE  /\ DbTyped' /\ db'[r] = row /\ row # None
           /\ \A q \in Rows : q # r => db'[q] = db[q]
           /\ \A q \in Rows : db[q] # None => db'[q] # None
  BY NullAssumption DEF Store, IInv, DbTyped

LEMMA UpgradePendsKeeps == ASSUME IInv, UpgradePends PROVE IInv'
  <1>1. UNCHANGED <<fly, seen, stripe, report, job, modes, tick>>
    BY DEF UpgradePends
  <1>2. PICK r \in Rows : r = loop.row /\ db[r] \in RowType
    BY DEF UpgradePends, IInv, LoopTyped, HandlerOf, DbTyped
  <1>3. PICK row \in RowType :
          /\ Store(r, row) /\ row.tier = db[r].tier /\ row.deadline = db[r].deadline
          /\ row.status = "pending_payment"
    <2> DEFINE row == [db[r] EXCEPT !.status = "pending_payment"]
    <2>1. row \in RowType
      BY <1>2 DEF RowType, Tiers, Statuses, Dates
    <2>2. row.tier = db[r].tier /\ row.deadline = db[r].deadline /\ row.status = "pending_payment"
      BY <1>2 DEF RowType
    <2>3. Store(r, row)
      BY <1>2 DEF UpgradePends
    <2> QED BY <2>1, <2>2, <2>3
  <1>4. /\ DbTyped' /\ db'[r] = row /\ row # None /\ db[r] # None
        /\ \A q \in Rows : q # r => db'[q] = db[q]
        /\ \A q \in Rows : db[q] # None => db'[q] # None
    BY <1>2, <1>3, Stored, NullAssumption
  <1>5. /\ loop.pc = "pend"
        /\ loop' = [pc |-> "checkout", row |-> loop.row, copy |-> loop.copy, event |-> loop.event]
    BY DEF UpgradePends, IInv, LoopTyped
  <1>6. FlyTyped' /\ StripeTyped' /\ ModesTyped' /\ PaidOnce'
    BY <1>1 DEF IInv, FlyTyped, StripeTyped, ModesTyped, PaidOnce
  <1>7. DbTyped'
    BY <1>4
  <1>8. LoopTyped'
    BY <1>1, <1>2, <1>3, <1>4, <1>5 DEF IInv, LoopTyped, HandlerOf, DbTyped, StripeTyped
  <1>9. LoopHasRoom'
    BY <1>1, <1>2, <1>3, <1>4, <1>5 DEF IInv, LoopHasRoom, HandlerOf, MoreCheckouts
  <1>10. ReportTyped'
    BY <1>1, <1>2, <1>3, <1>4, <1>5 DEF IInv, ReportTyped, LoopTyped, HandlerOf
  <1>11. JobTyped'
    BY <1>1, <1>2, <1>3, <1>4, <1>5 DEF IInv, JobTyped, DbTyped
  <1>12. TickTyped'
    BY <1>1, <1>2, <1>3, <1>4, <1>5 DEF IInv, TickTyped
  <1>13. SessionsKnown'
    BY <1>1, <1>2, <1>3, <1>4, <1>5 DEF IInv, SessionsKnown, StripeTyped, SessionType
  <1>14. DeadlinePaid'
    BY <1>1, <1>2, <1>3, <1>4, <1>5 DEF IInv, DeadlinePaid, Hosted, WasPaid
  <1>15. NewsInTime'
    BY <1>1, <1>2, <1>3, <1>4, <1>5 DEF IInv, NewsInTime, Hosted, Pending, HandlerOf, LoopTyped
  <1>16. JobsInTime'
    BY <1>1, <1>2, <1>3, <1>4, <1>5 DEF IInv, JobsInTime, JobTyped
  <1>17. SuspendKnown'
    BY <1>1, <1>2, <1>3, <1>4, <1>5 DEF IInv, SuspendKnown, Hosted, WasPaid, ToSuspend, TickTyped
  <1>18. DeleteKnown'
    BY <1>1, <1>2, <1>3, <1>4, <1>5 DEF IInv, DeleteKnown, Hosted, WasPaid, Pending, HandlerOf,
       ToDelete, TickTyped, LoopTyped
  <1>19. Restorable'
    BY <1>1, <1>2, <1>3, <1>4, <1>5 DEF IInv, Restorable, HandlerOf, LoopTyped
  <1>20. DeletedIsGone'
    BY <1>1, <1>2, <1>3, <1>4, <1>5 DEF IInv, DeletedIsGone
  <1> QED
    BY <1>6, <1>7, <1>8, <1>9, <1>10, <1>11, <1>12, <1>13, <1>14, <1>15, <1>16, <1>17, <1>18,
       <1>19, <1>20 DEF IInv

LEMMA CheckoutFailsKeeps == ASSUME IInv, CheckoutFails PROVE IInv'
  <1>1. UNCHANGED <<fly, seen, stripe, report, job, modes, tick>>
    BY DEF CheckoutFails
  <1>2. PICK r \in Rows : r = loop.row /\ db[r] \in RowType
    BY DEF CheckoutFails, IInv, LoopTyped, HandlerOf, DbTyped
  <1>3. PICK row \in RowType :
          /\ Store(r, row) /\ row.tier = db[r].tier /\ row.deadline = db[r].deadline
          /\ row.status = loop.copy.status
    <2>1. loop.copy.status \in Statuses
      BY DEF CheckoutFails, IInv, LoopTyped, HandlerOf, RowType
    <2>2. [db[r] EXCEPT !.status = loop.copy.status] \in RowType
      BY <1>2, <2>1 DEF RowType
    <2> QED BY <1>2, <2>1, <2>2 DEF CheckoutFails, RowType
  <1>4. /\ DbTyped' /\ db'[r] = row /\ row # None /\ db[r] # None
        /\ \A q \in Rows : q # r => db'[q] = db[q]
        /\ \A q \in Rows : db[q] # None => db'[q] # None
    BY <1>2, <1>3, Stored, NullAssumption
  <1>5. loop.pc = "checkout" /\ loop' = IdleLoop
    BY DEF CheckoutFails
  <1>6. FlyTyped' /\ StripeTyped' /\ ModesTyped' /\ PaidOnce'
    BY <1>1 DEF IInv, FlyTyped, StripeTyped, ModesTyped, PaidOnce
  <1>7. DbTyped'
    BY <1>4
  <1>8. LoopTyped'
    BY <1>1, <1>2, <1>3, <1>4, <1>5 DEF IInv, LoopTyped, HandlerOf, DbTyped, StripeTyped, IdleLoop
  <1>9. LoopHasRoom'
    BY <1>1, <1>2, <1>3, <1>4, <1>5 DEF IInv, LoopHasRoom, HandlerOf, MoreCheckouts, IdleLoop
  <1>10. ReportTyped'
    BY <1>1, <1>2, <1>3, <1>4, <1>5 DEF IInv, ReportTyped, LoopTyped, HandlerOf, IdleLoop
  <1>11. JobTyped'
    BY <1>1, <1>2, <1>3, <1>4, <1>5 DEF IInv, JobTyped, DbTyped, IdleLoop
  <1>12. TickTyped'
    BY <1>1, <1>2, <1>3, <1>4, <1>5 DEF IInv, TickTyped, IdleLoop
  <1>13. SessionsKnown'
    BY <1>1, <1>2, <1>3, <1>4, <1>5 DEF IInv, SessionsKnown, StripeTyped, IdleLoop, SessionType
  <1>14. DeadlinePaid'
    BY <1>1, <1>2, <1>3, <1>4, <1>5 DEF IInv, DeadlinePaid, Hosted, WasPaid, IdleLoop
  <1>15. NewsInTime'
    BY <1>1, <1>2, <1>3, <1>4, <1>5 DEF IInv, NewsInTime, Hosted, Pending, HandlerOf, LoopTyped,
       IdleLoop
  <1>16. JobsInTime'
    BY <1>1, <1>2, <1>3, <1>4, <1>5 DEF IInv, JobsInTime, JobTyped, Restorable, HandlerOf
  <1>17. SuspendKnown'
    BY <1>1, <1>2, <1>3, <1>4, <1>5 DEF IInv, SuspendKnown, Hosted, WasPaid, ToSuspend,
       TickTyped, IdleLoop
  <1>18. DeleteKnown'
    BY <1>1, <1>2, <1>3, <1>4, <1>5 DEF IInv, DeleteKnown, Hosted, WasPaid, Pending, HandlerOf,
       ToDelete, TickTyped, LoopTyped, IdleLoop
  <1>19. Restorable'
    BY <1>1, <1>2, <1>3, <1>4, <1>5 DEF IInv, Restorable, HandlerOf, LoopTyped, IdleLoop
  <1>20. DeletedIsGone'
    BY <1>1, <1>2, <1>3, <1>4, <1>5 DEF IInv, DeletedIsGone, Restorable, HandlerOf
  <1> QED
    BY <1>6, <1>7, <1>8, <1>9, <1>10, <1>11, <1>12, <1>13, <1>14, <1>15, <1>16, <1>17, <1>18,
       <1>19, <1>20 DEF IInv

LEMMA JobMarksKeeps == ASSUME IInv, NEW r \in Rows, JobMarks(r) PROVE IInv'
  <1>1. UNCHANGED <<fly, seen, stripe, loop, report, modes, tick>>
    BY DEF JobMarks
  <1>2. db[r] \in RowType
    BY NullAssumption DEF JobMarks, IInv, JobTyped, DbTyped
  <1>3. PICK row \in RowType :
          /\ Store(r, row) /\ row.tier = db[r].tier /\ row.deadline = db[r].deadline
          /\ row.status # "deleted"
    <2> DEFINE row == [db[r] EXCEPT !.status = "provisioning"]
    <2>1. row \in RowType
      BY <1>2 DEF RowType, Tiers, Statuses, Dates
    <2>2. row.tier = db[r].tier /\ row.deadline = db[r].deadline /\ row.status # "deleted"
      BY <1>2 DEF RowType
    <2>3. Store(r, row)
      BY <1>2 DEF JobMarks
    <2> QED BY <2>1, <2>2, <2>3
  <1>4. /\ DbTyped' /\ db'[r] = row /\ row # None /\ db[r] # None
        /\ \A q \in Rows : q # r => db'[q] = db[q]
        /\ \A q \in Rows : db[q] # None => db'[q] # None
    BY <1>2, <1>3, Stored, NullAssumption
  <1>5. job[r].pc # "idle" /\ \A q \in Rows : q # r => job'[q] = job[q]
    BY DEF JobMarks, IInv, JobTyped
  <1>6. FlyTyped' /\ StripeTyped' /\ ModesTyped' /\ LoopHasRoom' /\ PaidOnce'
    BY <1>1 DEF IInv, FlyTyped, StripeTyped, ModesTyped, LoopHasRoom, HandlerOf, MoreCheckouts,
       PaidOnce
  <1>7. DbTyped'
    BY <1>4
  <1>8. LoopTyped'
    BY <1>1, <1>2, <1>3, <1>4, <1>5 DEF IInv, LoopTyped, HandlerOf, DbTyped, StripeTyped
  <1>9. ReportTyped'
    BY <1>1, <1>2, <1>3, <1>4, <1>5 DEF IInv, ReportTyped, LoopTyped, HandlerOf
  <1>10. JobTyped'
    BY <1>1, <1>2, <1>3, <1>4, <1>5 DEF IInv, JobTyped, DbTyped, IdleJob, JobMarks
  <1>11. TickTyped'
    BY <1>1, <1>2, <1>3, <1>4, <1>5 DEF IInv, TickTyped
  <1>12. SessionsKnown'
    BY <1>1, <1>2, <1>3, <1>4, <1>5 DEF IInv, SessionsKnown, StripeTyped, SessionType
  <1>13. DeadlinePaid'
    BY <1>1, <1>2, <1>3, <1>4, <1>5 DEF IInv, DeadlinePaid, Hosted, WasPaid
  <1>14. NewsInTime'
    BY <1>1, <1>2, <1>3, <1>4, <1>5 DEF IInv, NewsInTime, Hosted, Pending, HandlerOf, LoopTyped
  <1>15. JobsInTime'
    BY <1>1, <1>2, <1>3, <1>4, <1>5 DEF IInv, JobsInTime, JobTyped
  <1>16. SuspendKnown'
    BY <1>1, <1>2, <1>3, <1>4, <1>5 DEF IInv, SuspendKnown, Hosted, WasPaid, ToSuspend, TickTyped
  <1>17. DeleteKnown'
    BY <1>1, <1>2, <1>3, <1>4, <1>5 DEF IInv, DeleteKnown, Hosted, WasPaid, Pending, HandlerOf,
       ToDelete, TickTyped, LoopTyped
  <1>18. Restorable'
    BY <1>1, <1>2, <1>3, <1>4, <1>5 DEF IInv, Restorable, HandlerOf, LoopTyped
  <1>19. DeletedIsGone'
    BY <1>1, <1>2, <1>3, <1>4, <1>5 DEF IInv, DeletedIsGone
  <1> QED
    BY <1>6, <1>7, <1>8, <1>9, <1>10, <1>11, <1>12, <1>13, <1>14, <1>15, <1>16, <1>17, <1>18,
       <1>19 DEF IInv

LEMMA JobRecordsKeeps == ASSUME IInv, NEW r \in Rows, JobRecords(r) PROVE IInv'
  <1>1. UNCHANGED <<fly, seen, stripe, loop, report, modes, tick>>
    BY DEF JobRecords
  <1>2. db[r] \in RowType
    BY NullAssumption DEF JobRecords, IInv, JobTyped, DbTyped
  <1>3. PICK row \in RowType :
          /\ Store(r, row) /\ row.tier = db[r].tier /\ row.deadline = db[r].deadline
          /\ row.status # "deleted"
    <2> DEFINE row == [db[r] EXCEPT !.machine = TRUE, !.volume = TRUE, !.sleep = ~AwakeAsRead(r)]
    <2>1. (~AwakeAsRead(r)) \in BOOLEAN
      OBVIOUS
    <2>2. row \in RowType
      BY <1>2, <2>1 DEF RowType, Tiers, Statuses, Dates
    <2>3. row.tier = db[r].tier /\ row.deadline = db[r].deadline /\ row.status # "deleted"
      BY <1>2, <2>1 DEF RowType, JobRecords, IInv, JobsInTime
    <2>4. Store(r, row)
      BY <1>2 DEF JobRecords
    <2> QED BY <2>2, <2>3, <2>4
  <1>4. /\ DbTyped' /\ db'[r] = row /\ row # None /\ db[r] # None
        /\ \A q \in Rows : q # r => db'[q] = db[q]
        /\ \A q \in Rows : db[q] # None => db'[q] # None
    BY <1>2, <1>3, Stored, NullAssumption
  <1>5. job[r].pc # "idle" /\ \A q \in Rows : q # r => job'[q] = job[q]
    BY DEF JobRecords, IInv, JobTyped
  <1>6. FlyTyped' /\ StripeTyped' /\ ModesTyped' /\ LoopHasRoom' /\ PaidOnce'
    BY <1>1 DEF IInv, FlyTyped, StripeTyped, ModesTyped, LoopHasRoom, HandlerOf, MoreCheckouts,
       PaidOnce
  <1>7. DbTyped'
    BY <1>4
  <1>8. LoopTyped'
    BY <1>1, <1>2, <1>3, <1>4, <1>5 DEF IInv, LoopTyped, HandlerOf, DbTyped, StripeTyped
  <1>9. ReportTyped'
    BY <1>1, <1>2, <1>3, <1>4, <1>5 DEF IInv, ReportTyped, LoopTyped, HandlerOf
  <1>10. JobTyped'
    BY <1>1, <1>2, <1>3, <1>4, <1>5 DEF IInv, JobTyped, DbTyped, IdleJob, JobRecords
  <1>11. TickTyped'
    BY <1>1, <1>2, <1>3, <1>4, <1>5 DEF IInv, TickTyped
  <1>12. SessionsKnown'
    BY <1>1, <1>2, <1>3, <1>4, <1>5 DEF IInv, SessionsKnown, StripeTyped, SessionType
  <1>13. DeadlinePaid'
    BY <1>1, <1>2, <1>3, <1>4, <1>5 DEF IInv, DeadlinePaid, Hosted, WasPaid
  <1>14. NewsInTime'
    BY <1>1, <1>2, <1>3, <1>4, <1>5 DEF IInv, NewsInTime, Hosted, Pending, HandlerOf, LoopTyped
  <1>15. JobsInTime'
    BY <1>1, <1>2, <1>3, <1>4, <1>5 DEF IInv, JobsInTime, JobTyped
  <1>16. SuspendKnown'
    BY <1>1, <1>2, <1>3, <1>4, <1>5 DEF IInv, SuspendKnown, Hosted, WasPaid, ToSuspend, TickTyped
  <1>17. DeleteKnown'
    BY <1>1, <1>2, <1>3, <1>4, <1>5 DEF IInv, DeleteKnown, Hosted, WasPaid, Pending, HandlerOf,
       ToDelete, TickTyped, LoopTyped
  <1>18. Restorable'
    BY <1>1, <1>2, <1>3, <1>4, <1>5 DEF IInv, Restorable, HandlerOf, LoopTyped
  <1>19. DeletedIsGone'
    BY <1>1, <1>2, <1>3, <1>4, <1>5 DEF IInv, DeletedIsGone
  <1> QED
    BY <1>6, <1>7, <1>8, <1>9, <1>10, <1>11, <1>12, <1>13, <1>14, <1>15, <1>16, <1>17, <1>18,
       <1>19 DEF IInv

LEMMA JobFinishesKeeps == ASSUME IInv, NEW r \in Rows, JobFinishes(r) PROVE IInv'
  <1>1. UNCHANGED <<fly, seen, stripe, loop, report, modes, tick>>
    BY DEF JobFinishes
  <1>2. db[r] \in RowType
    BY NullAssumption DEF JobFinishes, IInv, JobTyped, DbTyped
  <1>3. PICK row \in RowType :
          /\ Store(r, row) /\ row.tier = db[r].tier /\ row.deadline = db[r].deadline
          /\ row.status # "deleted"
    <2> DEFINE row == [db[r] EXCEPT !.status = "running"]
    <2>1. row \in RowType
      BY <1>2 DEF RowType, Tiers, Statuses, Dates
    <2>2. row.tier = db[r].tier /\ row.deadline = db[r].deadline /\ row.status # "deleted"
      BY <1>2 DEF RowType
    <2>3. Store(r, row)
      BY <1>2 DEF JobFinishes
    <2> QED BY <2>1, <2>2, <2>3
  <1>4. /\ DbTyped' /\ db'[r] = row /\ row # None /\ db[r] # None
        /\ \A q \in Rows : q # r => db'[q] = db[q]
        /\ \A q \in Rows : db[q] # None => db'[q] # None
    BY <1>2, <1>3, Stored, NullAssumption
  <1>5. job[r].pc # "idle" /\ \A q \in Rows : q # r => job'[q] = job[q]
    BY DEF JobFinishes, IInv, JobTyped
  <1>6. FlyTyped' /\ StripeTyped' /\ ModesTyped' /\ LoopHasRoom' /\ PaidOnce'
    BY <1>1 DEF IInv, FlyTyped, StripeTyped, ModesTyped, LoopHasRoom, HandlerOf, MoreCheckouts,
       PaidOnce
  <1>7. DbTyped'
    BY <1>4
  <1>8. LoopTyped'
    BY <1>1, <1>2, <1>3, <1>4, <1>5 DEF IInv, LoopTyped, HandlerOf, DbTyped, StripeTyped
  <1>9. ReportTyped'
    BY <1>1, <1>2, <1>3, <1>4, <1>5 DEF IInv, ReportTyped, LoopTyped, HandlerOf
  <1>10. JobTyped'
    BY <1>1, <1>2, <1>3, <1>4, <1>5 DEF IInv, JobTyped, DbTyped, IdleJob, JobFinishes
  <1>11. TickTyped'
    BY <1>1, <1>2, <1>3, <1>4, <1>5 DEF IInv, TickTyped
  <1>12. SessionsKnown'
    BY <1>1, <1>2, <1>3, <1>4, <1>5 DEF IInv, SessionsKnown, StripeTyped, SessionType
  <1>13. DeadlinePaid'
    BY <1>1, <1>2, <1>3, <1>4, <1>5 DEF IInv, DeadlinePaid, Hosted, WasPaid
  <1>14. NewsInTime'
    BY <1>1, <1>2, <1>3, <1>4, <1>5 DEF IInv, NewsInTime, Hosted, Pending, HandlerOf, LoopTyped
  <1>15. JobsInTime'
    BY <1>1, <1>2, <1>3, <1>4, <1>5 DEF IInv, JobsInTime, JobTyped
  <1>16. SuspendKnown'
    BY <1>1, <1>2, <1>3, <1>4, <1>5 DEF IInv, SuspendKnown, Hosted, WasPaid, ToSuspend, TickTyped
  <1>17. DeleteKnown'
    BY <1>1, <1>2, <1>3, <1>4, <1>5 DEF IInv, DeleteKnown, Hosted, WasPaid, Pending, HandlerOf,
       ToDelete, TickTyped, LoopTyped
  <1>18. Restorable'
    BY <1>1, <1>2, <1>3, <1>4, <1>5 DEF IInv, Restorable, HandlerOf, LoopTyped
  <1>19. DeletedIsGone'
    BY <1>1, <1>2, <1>3, <1>4, <1>5 DEF IInv, DeletedIsGone
  <1> QED
    BY <1>6, <1>7, <1>8, <1>9, <1>10, <1>11, <1>12, <1>13, <1>14, <1>15, <1>16, <1>17, <1>18,
       <1>19 DEF IInv

LEMMA TickSuspendsKeeps == ASSUME IInv, TickSuspends PROVE IInv'
  <1>1. UNCHANGED <<fly, seen, stripe, loop, report, job, modes>>
    BY DEF TickSuspends
  <1>2. PICK r \in Rows : r = tick.row /\ db[r] \in RowType
    BY NullAssumption DEF TickSuspends, IInv, TickTyped, DbTyped
  <1>3. PICK row \in RowType :
          /\ Store(r, row) /\ row.tier = db[r].tier /\ row.status = "suspended"
          /\ row.deadline = "ahead"
    <2> DEFINE row == SuspendFields(db[r])
    <2>1. row \in RowType
      BY <1>2, FieldsTyped DEF SuspendFields
    <2>2. row.tier = db[r].tier /\ row.status = "suspended" /\ row.deadline = "ahead"
      BY <1>2 DEF RowType, SuspendFields
    <2>3. Store(r, row)
      BY <1>2 DEF TickSuspends
    <2> QED BY <2>1, <2>2, <2>3
  <1>4. /\ DbTyped' /\ db'[r] = row /\ row # None /\ db[r] # None
        /\ \A q \in Rows : q # r => db'[q] = db[q]
        /\ \A q \in Rows : db[q] # None => db'[q] # None
    BY <1>2, <1>3, Stored, NullAssumption
  <1>5. tick.pc = "store" /\ tick' = [pc |-> "suspend", todo |-> tick.todo, row |-> tick.row]
    BY DEF TickSuspends, IInv, TickTyped
  <1>6. /\ FlyTyped' /\ StripeTyped' /\ ModesTyped' /\ LoopHasRoom' /\ PaidOnce'
        /\ Restorable'
    BY <1>1 DEF IInv, FlyTyped, StripeTyped, ModesTyped, LoopHasRoom, HandlerOf, MoreCheckouts,
       PaidOnce, Restorable
  <1>7. DbTyped'
    BY <1>4
  <1>8. LoopTyped'
    BY <1>1, <1>2, <1>3, <1>4, <1>5 DEF IInv, LoopTyped, HandlerOf, DbTyped, StripeTyped
  <1>9. ReportTyped'
    BY <1>1, <1>2, <1>3, <1>4, <1>5 DEF IInv, ReportTyped, LoopTyped, HandlerOf
  <1>10. JobTyped'
    BY <1>1, <1>2, <1>3, <1>4, <1>5 DEF IInv, JobTyped, DbTyped
  <1>11. TickTyped'
    BY <1>1, <1>2, <1>3, <1>4, <1>5 DEF IInv, TickTyped
  <1>12. SessionsKnown'
    BY <1>1, <1>2, <1>3, <1>4, <1>5 DEF IInv, SessionsKnown, StripeTyped, SessionType
  <1>13. DeadlinePaid'
    BY <1>1, <1>2, <1>3, <1>4, <1>5 DEF IInv, DeadlinePaid, Hosted, WasPaid, SuspendKnown,
       ToSuspend
  <1>14. NewsInTime'
    BY <1>1, <1>2, <1>3, <1>4, <1>5 DEF IInv, NewsInTime, Hosted, Pending, HandlerOf, LoopTyped
  <1>15. JobsInTime'
    BY <1>1, <1>2, <1>3, <1>4, <1>5 DEF IInv, JobsInTime, JobTyped
  <1>16. SuspendKnown'
    BY <1>1, <1>2, <1>3, <1>4, <1>5 DEF IInv, SuspendKnown, Hosted, WasPaid, ToSuspend, TickTyped
  <1>17. DeleteKnown'
    BY <1>1, <1>2, <1>3, <1>4, <1>5 DEF IInv, DeleteKnown, Hosted, WasPaid, Pending, HandlerOf,
       ToDelete, TickTyped, LoopTyped
  <1>18. DeletedIsGone'
    BY <1>1, <1>2, <1>3, <1>4, <1>5 DEF IInv, DeletedIsGone
  <1> QED
    BY <1>6, <1>7, <1>8, <1>9, <1>10, <1>11, <1>12, <1>13, <1>14, <1>15, <1>16, <1>17, <1>18 DEF IInv

LEMMA TickDeletesKeeps == ASSUME IInv, TickDeletes PROVE IInv'
  <1>1. UNCHANGED <<fly, seen, stripe, loop, report, job, modes>>
    BY DEF TickDeletes
  <1>2. PICK r \in Rows : r = tick.row /\ db[r] \in RowType
    BY NullAssumption DEF TickDeletes, IInv, TickTyped, DbTyped
  <1>3. PICK row \in RowType :
          /\ Store(r, row) /\ row.tier = db[r].tier /\ row.deadline = db[r].deadline
          /\ row.status = "deleted"
    <2> DEFINE row == [db[r] EXCEPT !.status = "deleted"]
    <2>1. row \in RowType
      BY <1>2 DEF RowType, Tiers, Statuses, Dates
    <2>2. row.tier = db[r].tier /\ row.deadline = db[r].deadline /\ row.status = "deleted"
      BY <1>2 DEF RowType
    <2>3. Store(r, row)
      BY <1>2 DEF TickDeletes
    <2> QED BY <2>1, <2>2, <2>3
  <1>4. /\ DbTyped' /\ db'[r] = row /\ row # None /\ db[r] # None
        /\ \A q \in Rows : q # r => db'[q] = db[q]
        /\ \A q \in Rows : db[q] # None => db'[q] # None
    BY <1>2, <1>3, Stored, NullAssumption
  <1>5. tick.pc = "deleted" /\ tick' = [pc |-> "delete", todo |-> tick.todo, row |-> tick.row]
    BY DEF TickDeletes, IInv, TickTyped
  <1>6. job[r].pc = "idle" /\ fly[r] = NoApp
    BY <1>2, <1>5 DEF IInv, DeleteKnown, ToDelete
  <1>7. /\ FlyTyped' /\ StripeTyped' /\ ModesTyped' /\ LoopHasRoom' /\ PaidOnce'
        /\ Restorable'
    BY <1>1 DEF IInv, FlyTyped, StripeTyped, ModesTyped, LoopHasRoom, HandlerOf, MoreCheckouts,
       PaidOnce, Restorable
  <1>8. DbTyped'
    BY <1>4
  <1>9. LoopTyped'
    BY <1>1, <1>2, <1>3, <1>4, <1>5, <1>6 DEF IInv, LoopTyped, HandlerOf, DbTyped, StripeTyped
  <1>10. ReportTyped'
    BY <1>1, <1>2, <1>3, <1>4, <1>5, <1>6 DEF IInv, ReportTyped, LoopTyped, HandlerOf
  <1>11. JobTyped'
    BY <1>1, <1>2, <1>3, <1>4, <1>5, <1>6 DEF IInv, JobTyped, DbTyped
  <1>12. TickTyped'
    BY <1>1, <1>2, <1>3, <1>4, <1>5, <1>6 DEF IInv, TickTyped
  <1>13. SessionsKnown'
    BY <1>1, <1>2, <1>3, <1>4, <1>5, <1>6 DEF IInv, SessionsKnown, StripeTyped, SessionType
  <1>14. DeadlinePaid'
    BY <1>1, <1>2, <1>3, <1>4, <1>5, <1>6 DEF IInv, DeadlinePaid, Hosted, WasPaid
  <1>15. NewsInTime'
    BY <1>1, <1>2, <1>3, <1>4, <1>5, <1>6 DEF IInv, NewsInTime, Hosted, Pending, HandlerOf,
       LoopTyped
  <1>16. JobsInTime'
    BY <1>1, <1>2, <1>3, <1>4, <1>5, <1>6 DEF IInv, JobsInTime, JobTyped
  <1>17. SuspendKnown'
    BY <1>1, <1>2, <1>3, <1>4, <1>5, <1>6 DEF IInv, SuspendKnown, Hosted, WasPaid, ToSuspend,
       TickTyped
  <1>18. DeleteKnown'
    BY <1>1, <1>2, <1>3, <1>4, <1>5, <1>6 DEF IInv, DeleteKnown, Hosted, WasPaid, Pending,
       HandlerOf, ToDelete, TickTyped, LoopTyped
  <1>19. DeletedIsGone'
    BY <1>1, <1>2, <1>3, <1>4, <1>5, <1>6 DEF IInv, DeletedIsGone
  <1> QED
    BY <1>7, <1>8, <1>9, <1>10, <1>11, <1>12, <1>13, <1>14, <1>15, <1>16, <1>17, <1>18, <1>19 DEF IInv

LEMMA PresenceStoresKeeps == ASSUME IInv, PresenceStores PROVE IInv'
  <1>1. UNCHANGED <<fly, seen, stripe, job, modes, tick>>
    BY DEF PresenceStores
  <1>2. PICK r \in Rows : r = report.row /\ db[r] \in RowType
    BY NullAssumption DEF PresenceStores, IInv, ReportTyped, DbTyped
  <1>3. PICK row \in RowType :
          /\ Store(r, row) /\ row.tier = db[r].tier /\ row.deadline = db[r].deadline
          /\ row.status = db[r].status
    <2> DEFINE row == PresenceFields(db[r], report.copy.tier, report.events)
    <2>1. report.events \in BOOLEAN
      BY DEF PresenceStores, IInv, ReportTyped
    <2>2. row \in RowType
      BY <1>2, <2>1 DEF RowType, Tiers, Statuses, Dates, PresenceFields, Awake
    <2>3. row.tier = db[r].tier /\ row.deadline = db[r].deadline /\ row.status = db[r].status
      BY <1>2, <2>1 DEF RowType, PresenceFields, Awake
    <2>4. Store(r, row)
      BY <1>2 DEF PresenceStores
    <2> QED BY <2>2, <2>3, <2>4
  <1>4. /\ DbTyped' /\ db'[r] = row /\ row # None /\ db[r] # None
        /\ \A q \in Rows : q # r => db'[q] = db[q]
        /\ \A q \in Rows : db[q] # None => db'[q] # None
    BY <1>2, <1>3, Stored, NullAssumption
  <1>5. /\ loop.pc = "idle" /\ report # NoReport
        /\ \/ loop' = [IdleLoop EXCEPT !.pc = "touch"] /\ report' = report
           \/ loop' = loop /\ report' = NoReport
    BY DEF PresenceStores
  <1>6. FlyTyped' /\ StripeTyped' /\ ModesTyped' /\ PaidOnce'
    BY <1>1 DEF IInv, FlyTyped, StripeTyped, ModesTyped, PaidOnce
  <1>7. DbTyped'
    BY <1>4
  <1>8. LoopTyped'
    BY <1>1, <1>2, <1>3, <1>4, <1>5 DEF IInv, LoopTyped, HandlerOf, DbTyped, StripeTyped, IdleLoop
  <1>9. LoopHasRoom'
    BY <1>1, <1>2, <1>3, <1>4, <1>5 DEF IInv, LoopHasRoom, HandlerOf, MoreCheckouts, IdleLoop
  <1>10. ReportTyped'
    BY <1>1, <1>2, <1>3, <1>4, <1>5 DEF IInv, ReportTyped, LoopTyped, HandlerOf, IdleLoop
  <1>11. JobTyped'
    BY <1>1, <1>2, <1>3, <1>4, <1>5 DEF IInv, JobTyped, DbTyped, IdleLoop
  <1>12. TickTyped'
    BY <1>1, <1>2, <1>3, <1>4, <1>5 DEF IInv, TickTyped, IdleLoop
  <1>13. SessionsKnown'
    BY <1>1, <1>2, <1>3, <1>4, <1>5 DEF IInv, SessionsKnown, StripeTyped, IdleLoop, SessionType
  <1>14. DeadlinePaid'
    BY <1>1, <1>2, <1>3, <1>4, <1>5 DEF IInv, DeadlinePaid, Hosted, WasPaid, IdleLoop
  <1>15. NewsInTime'
    BY <1>1, <1>2, <1>3, <1>4, <1>5 DEF IInv, NewsInTime, Hosted, Pending, HandlerOf, LoopTyped,
       IdleLoop
  <1>16. JobsInTime'
    BY <1>1, <1>2, <1>3, <1>4, <1>5 DEF IInv, JobsInTime, JobTyped, IdleLoop
  <1>17. SuspendKnown'
    BY <1>1, <1>2, <1>3, <1>4, <1>5 DEF IInv, SuspendKnown, Hosted, WasPaid, ToSuspend,
       TickTyped, IdleLoop
  <1>18. DeleteKnown'
    BY <1>1, <1>2, <1>3, <1>4, <1>5 DEF IInv, DeleteKnown, Hosted, WasPaid, Pending, HandlerOf,
       ToDelete, TickTyped, LoopTyped, IdleLoop
  <1>19. Restorable'
    BY <1>1, <1>2, <1>3, <1>4, <1>5 DEF IInv, Restorable, HandlerOf, LoopTyped, IdleLoop
  <1>20. DeletedIsGone'
    BY <1>1, <1>2, <1>3, <1>4, <1>5 DEF IInv, DeletedIsGone, IdleLoop
  <1> QED
    BY <1>6, <1>7, <1>8, <1>9, <1>10, <1>11, <1>12, <1>13, <1>14, <1>15, <1>16, <1>17, <1>18,
       <1>19, <1>20 DEF IInv

LEMMA ExpiresKeeps == ASSUME IInv, NEW r \in Rows, Expires(r) PROVE IInv'
  <1>1. UNCHANGED <<fly, seen, loop, report, job, modes, tick>>
    BY DEF Expires, DaysPass
  <1>2. db[r] \in RowType
    BY DEF Expires, IInv, DbTyped
  <1>3. PICK row \in RowType :
          /\ Store(r, row) /\ row.tier = db[r].tier /\ row.deadline = db[r].deadline
          /\ row.status = db[r].status
    <2> DEFINE row == [db[r] EXCEPT !.expires = "past"]
    <2>1. row \in RowType
      BY <1>2 DEF RowType, Tiers, Statuses, Dates
    <2>2. row.tier = db[r].tier /\ row.deadline = db[r].deadline /\ row.status = db[r].status
      BY <1>2 DEF RowType
    <2>3. Store(r, row)
      BY <1>2 DEF Expires, DaysPass
    <2> QED BY <2>1, <2>2, <2>3
  <1>4. /\ DbTyped' /\ db'[r] = row /\ row # None /\ db[r] # None
        /\ \A q \in Rows : q # r => db'[q] = db[q]
        /\ \A q \in Rows : db[q] # None => db'[q] # None
    BY <1>2, <1>3, Stored, NullAssumption
  <1>5. stripe' = [stripe EXCEPT !.live = {}]
    BY DEF Expires, DaysPass
  <1>6. /\ stripe'.open = stripe.open /\ stripe'.paid = stripe.paid
        /\ stripe'.news = stripe.news /\ stripe'.live = {}
    BY <1>5 DEF IInv, StripeTyped
  <1>7. FlyTyped' /\ ModesTyped' /\ Restorable'
    BY <1>1 DEF IInv, FlyTyped, ModesTyped, Restorable, HandlerOf
  <1>8. DbTyped'
    BY <1>4
  <1>9. StripeTyped'
    BY <1>1, <1>5 DEF IInv, StripeTyped
  <1>10. LoopTyped'
    BY <1>1, <1>2, <1>3, <1>4, <1>5, <1>6 DEF IInv, LoopTyped, HandlerOf, DbTyped, StripeTyped
  <1>11. LoopHasRoom'
    BY <1>1, <1>2, <1>3, <1>4, <1>5, <1>6 DEF IInv, LoopHasRoom, HandlerOf, MoreCheckouts
  <1>12. ReportTyped'
    BY <1>1, <1>2, <1>3, <1>4, <1>5, <1>6 DEF IInv, ReportTyped, LoopTyped, HandlerOf
  <1>13. JobTyped'
    BY <1>1, <1>2, <1>3, <1>4, <1>5, <1>6 DEF IInv, JobTyped, DbTyped
  <1>14. TickTyped'
    BY <1>1, <1>2, <1>3, <1>4, <1>5, <1>6 DEF IInv, TickTyped
  <1>15. SessionsKnown'
    BY <1>1, <1>2, <1>3, <1>4, <1>5, <1>6 DEF IInv, SessionsKnown, StripeTyped, SessionType
  <1>16. PaidOnce'
    BY <1>1, <1>2, <1>3, <1>4, <1>5, <1>6 DEF IInv, PaidOnce, StripeTyped
  <1>17. DeadlinePaid'
    BY <1>1, <1>2, <1>3, <1>4, <1>5, <1>6 DEF IInv, DeadlinePaid, Hosted, WasPaid
  <1>18. NewsInTime'
    BY <1>1, <1>2, <1>3, <1>4, <1>5, <1>6 DEF IInv, NewsInTime, Hosted, Pending, HandlerOf,
       LoopTyped
  <1>19. JobsInTime'
    BY <1>1, <1>2, <1>3, <1>4, <1>5, <1>6 DEF IInv, JobsInTime, JobTyped
  <1>20. SuspendKnown'
    BY <1>1, <1>2, <1>3, <1>4, <1>5, <1>6 DEF IInv, SuspendKnown, Hosted, WasPaid, ToSuspend,
       TickTyped
  <1>21. DeleteKnown'
    BY <1>1, <1>2, <1>3, <1>4, <1>5, <1>6 DEF IInv, DeleteKnown, Hosted, WasPaid, Pending,
       HandlerOf, ToDelete, TickTyped, LoopTyped
  <1>22. DeletedIsGone'
    BY <1>1, <1>2, <1>3, <1>4, <1>5, <1>6 DEF IInv, DeletedIsGone
  <1> QED
    BY <1>7, <1>8, <1>9, <1>10, <1>11, <1>12, <1>13, <1>14, <1>15, <1>16, <1>17, <1>18, <1>19,
       <1>20, <1>21, <1>22 DEF IInv

LEMMA GraceEndsKeeps == ASSUME IInv, NEW r \in Rows, GraceEnds(r) PROVE IInv'
  <1>1. UNCHANGED <<fly, seen, loop, report, job, modes, tick>>
    BY DEF GraceEnds, DaysPass
  <1>2. db[r] \in RowType
    BY DEF GraceEnds, IInv, DbTyped
  <1>3. PICK row \in RowType :
          /\ Store(r, row) /\ row.tier = db[r].tier /\ row.deadline = "past"
          /\ row.status = db[r].status
    <2> DEFINE row == [db[r] EXCEPT !.deadline = "past"]
    <2>1. row \in RowType
      BY <1>2 DEF RowType, Tiers, Statuses, Dates
    <2>2. row.tier = db[r].tier /\ row.deadline = "past" /\ row.status = db[r].status
      BY <1>2 DEF RowType
    <2>3. Store(r, row)
      BY <1>2 DEF GraceEnds, DaysPass
    <2> QED BY <2>1, <2>2, <2>3
  <1>4. /\ DbTyped' /\ db'[r] = row /\ row # None /\ db[r] # None
        /\ \A q \in Rows : q # r => db'[q] = db[q]
        /\ \A q \in Rows : db[q] # None => db'[q] # None
    BY <1>2, <1>3, Stored, NullAssumption
  <1>5. stripe' = [stripe EXCEPT !.live = {}]
    BY DEF GraceEnds, DaysPass
  <1>6. /\ stripe'.open = stripe.open /\ stripe'.paid = stripe.paid
        /\ stripe'.news = stripe.news /\ stripe'.live = {}
    BY <1>5 DEF IInv, StripeTyped
  <1>7. /\ db[r].deadline = "ahead" /\ loop.pc = "idle" /\ job[r].pc = "idle" /\ tick.pc = "idle"
        /\ stripe.news \subseteq seen
    BY DEF GraceEnds, DaysPass, Quiet, JobsIdle
  <1>8. FlyTyped' /\ ModesTyped' /\ Restorable'
    BY <1>1 DEF IInv, FlyTyped, ModesTyped, Restorable, HandlerOf
  <1>9. DbTyped'
    BY <1>4
  <1>10. StripeTyped'
    BY <1>1, <1>5 DEF IInv, StripeTyped
  <1>11. LoopTyped'
    BY <1>1, <1>2, <1>3, <1>4, <1>5, <1>6, <1>7 DEF IInv, LoopTyped, HandlerOf, DbTyped,
       StripeTyped
  <1>12. LoopHasRoom'
    BY <1>1, <1>2, <1>3, <1>4, <1>5, <1>6, <1>7 DEF IInv, LoopHasRoom, HandlerOf, MoreCheckouts
  <1>13. ReportTyped'
    BY <1>1, <1>2, <1>3, <1>4, <1>5, <1>6, <1>7 DEF IInv, ReportTyped, LoopTyped, HandlerOf
  <1>14. JobTyped'
    BY <1>1, <1>2, <1>3, <1>4, <1>5, <1>6, <1>7 DEF IInv, JobTyped, DbTyped
  <1>15. TickTyped'
    BY <1>1, <1>2, <1>3, <1>4, <1>5, <1>6, <1>7 DEF IInv, TickTyped
  <1>16. SessionsKnown'
    BY <1>1, <1>2, <1>3, <1>4, <1>5, <1>6, <1>7 DEF IInv, SessionsKnown, StripeTyped, SessionType
  <1>17. PaidOnce'
    BY <1>1, <1>2, <1>3, <1>4, <1>5, <1>6, <1>7 DEF IInv, PaidOnce, StripeTyped
  <1>18. DeadlinePaid'
    BY <1>1, <1>2, <1>3, <1>4, <1>5, <1>6, <1>7 DEF IInv, DeadlinePaid, Hosted, WasPaid
  <1>19. NewsInTime'
    BY <1>1, <1>2, <1>3, <1>4, <1>5, <1>6, <1>7 DEF IInv, NewsInTime, Hosted, Pending, HandlerOf,
       LoopTyped
  <1>20. JobsInTime'
    BY <1>1, <1>2, <1>3, <1>4, <1>5, <1>6, <1>7 DEF IInv, JobsInTime, JobTyped
  <1>21. SuspendKnown'
    BY <1>1, <1>2, <1>3, <1>4, <1>5, <1>6, <1>7 DEF IInv, SuspendKnown, Hosted, WasPaid,
       ToSuspend, TickTyped
  <1>22. DeleteKnown'
    BY <1>1, <1>2, <1>3, <1>4, <1>5, <1>6, <1>7 DEF IInv, DeleteKnown, Hosted, WasPaid, Pending,
       HandlerOf, ToDelete, TickTyped, LoopTyped
  <1>23. DeletedIsGone'
    BY <1>1, <1>2, <1>3, <1>4, <1>5, <1>6, <1>7 DEF IInv, DeletedIsGone
  <1> QED
    BY <1>8, <1>9, <1>10, <1>11, <1>12, <1>13, <1>14, <1>15, <1>16, <1>17, <1>18, <1>19, <1>20,
       <1>21, <1>22, <1>23 DEF IInv

LEMMA JobFailsKeeps == ASSUME IInv, NEW r \in Rows, JobFails(r) PROVE IInv'
  <1>1. UNCHANGED <<seen, stripe, loop, report, modes, tick>>
    BY DEF JobFails
  <1>2. db[r] \in RowType
    BY NullAssumption DEF JobFails, IInv, JobTyped, DbTyped
  <1>3. PICK row \in RowType :
          /\ Store(r, row) /\ row.tier = db[r].tier /\ row.deadline = db[r].deadline
          /\ row.status # "deleted"
    <2> DEFINE row == [db[r] EXCEPT !.status = "failed"]
    <2>1. row \in RowType
      BY <1>2 DEF RowType, Tiers, Statuses, Dates
    <2>2. row.tier = db[r].tier /\ row.deadline = db[r].deadline /\ row.status # "deleted"
      BY <1>2 DEF RowType
    <2>3. Store(r, row)
      BY <1>2 DEF JobFails
    <2> QED BY <2>1, <2>2, <2>3
  <1>4. /\ DbTyped' /\ db'[r] = row /\ row # None /\ db[r] # None
        /\ \A q \in Rows : q # r => db'[q] = db[q]
        /\ \A q \in Rows : db[q] # None => db'[q] # None
    BY <1>2, <1>3, Stored, NullAssumption
  <1>5. /\ job[r].pc # "idle" /\ job' = [job EXCEPT ![r] = IdleJob]
        /\ \A q \in Rows : q # r => job'[q] = job[q] /\ fly'[q] = fly[q]
    BY DEF JobFails, IInv, JobTyped, FlyTyped
  <1>6. FlyTyped'
    <2>1. fly[r] \in FlyType
      BY DEF IInv, FlyTyped
    <2>2. \A a, v \in BOOLEAN : [fly EXCEPT ![r].app = a, ![r].volume = v] \in [Rows -> FlyType]
      BY <2>1 DEF FlyType, IInv, FlyTyped
    <2>3. CASE job[r].pc = "build"
      <3>1. PICK made \in {{}, {"app"}, {"app", "volume"}} :
                fly' = [fly EXCEPT ![r].app = "app" \in made, ![r].volume = "volume" \in made]
        BY <2>3 DEF JobFails
      <3>2. ("app" \in made) \in BOOLEAN /\ ("volume" \in made) \in BOOLEAN
        OBVIOUS
      <3>3. fly' \in [Rows -> FlyType]
        BY <2>2, <3>1, <3>2
      <3> QED BY <3>3 DEF FlyTyped
    <2>4. CASE job[r].pc # "build"
      BY <2>4 DEF JobFails, IInv, FlyTyped
    <2> QED BY <2>3, <2>4
  <1>7. StripeTyped' /\ ModesTyped' /\ LoopHasRoom' /\ PaidOnce'
    BY <1>1 DEF IInv, StripeTyped, ModesTyped, LoopHasRoom, HandlerOf, MoreCheckouts, PaidOnce
  <1>8. DbTyped'
    BY <1>4
  <1>9. FlyTyped'
    BY <1>6
  <1>10. LoopTyped'
    BY <1>1, <1>2, <1>3, <1>4, <1>5, <1>6 DEF IInv, LoopTyped, HandlerOf, DbTyped, StripeTyped
  <1>11. ReportTyped'
    BY <1>1, <1>2, <1>3, <1>4, <1>5, <1>6 DEF IInv, ReportTyped, LoopTyped, HandlerOf
  <1>12. JobTyped'
    BY <1>1, <1>2, <1>3, <1>4, <1>5, <1>6 DEF IInv, JobTyped, DbTyped, IdleJob, JobFails
  <1>13. TickTyped'
    BY <1>1, <1>2, <1>3, <1>4, <1>5, <1>6 DEF IInv, TickTyped
  <1>14. SessionsKnown'
    BY <1>1, <1>2, <1>3, <1>4, <1>5, <1>6 DEF IInv, SessionsKnown, StripeTyped, SessionType
  <1>15. DeadlinePaid'
    BY <1>1, <1>2, <1>3, <1>4, <1>5, <1>6 DEF IInv, DeadlinePaid, Hosted, WasPaid
  <1>16. NewsInTime'
    BY <1>1, <1>2, <1>3, <1>4, <1>5, <1>6 DEF IInv, NewsInTime, Hosted, Pending, HandlerOf,
       LoopTyped
  <1>17. JobsInTime'
    BY <1>1, <1>2, <1>3, <1>4, <1>5, <1>6 DEF IInv, JobsInTime, JobTyped
  <1>18. SuspendKnown'
    BY <1>1, <1>2, <1>3, <1>4, <1>5, <1>6 DEF IInv, SuspendKnown, Hosted, WasPaid, ToSuspend,
       TickTyped
  <1>19. DeleteKnown'
    BY <1>1, <1>2, <1>3, <1>4, <1>5, <1>6 DEF IInv, DeleteKnown, Hosted, WasPaid, Pending,
       HandlerOf, ToDelete, TickTyped, LoopTyped
  <1>20. Restorable'
    BY <1>1, <1>2, <1>3, <1>4, <1>5, <1>6 DEF IInv, Restorable, HandlerOf, LoopTyped
  <1>21. DeletedIsGone'
    BY <1>1, <1>2, <1>3, <1>4, <1>5, <1>6 DEF IInv, DeletedIsGone
  <1> QED
    BY <1>7, <1>8, <1>9, <1>10, <1>11, <1>12, <1>13, <1>14, <1>15, <1>16, <1>17, <1>18, <1>19,
       <1>20, <1>21 DEF IInv

LEMMA CreateHostedKeeps ==
    ASSUME IInv, NEW r \in Rows, NEW tier \in {"sandbox", "vip"}, CreateHosted(r, tier)
    PROVE  IInv'
  <1>1. UNCHANGED <<fly, seen, stripe, loop, report, modes, tick>>
    BY DEF CreateHosted
  <1>2. db[r] = None /\ loop.pc = "idle"
    BY DEF CreateHosted
  <1>3. /\ Prepared(tier) \in RowType /\ Prepared(tier).deadline = "none"
        /\ Prepared(tier).status # "deleted"
    BY DEF Prepared, RowType, Tiers, Statuses, Dates
  <1>4. /\ DbTyped' /\ db'[r] = Prepared(tier) /\ db'[r] # None
        /\ \A q \in Rows : q # r => db'[q] = db[q]
        /\ \A q \in Rows : db[q] # None => db'[q] # None
    BY <1>2, <1>3, Stored DEF CreateHosted
  <1>5. /\ job' = [job EXCEPT ![r].pc = "read"]
        /\ \A q \in Rows : q # r => job'[q] = job[q]
    BY DEF CreateHosted, IInv, JobTyped
  <1>6. FlyTyped' /\ StripeTyped' /\ ModesTyped' /\ LoopHasRoom' /\ PaidOnce'
    BY <1>1 DEF IInv, FlyTyped, StripeTyped, ModesTyped, LoopHasRoom, HandlerOf, MoreCheckouts,
       PaidOnce
  <1>7. DbTyped'
    BY <1>4
  <1>8. LoopTyped'
    BY <1>1, <1>2, <1>3, <1>4, <1>5 DEF IInv, LoopTyped, HandlerOf, DbTyped, StripeTyped
  <1>9. ReportTyped'
    BY <1>1, <1>2, <1>3, <1>4, <1>5 DEF IInv, ReportTyped, LoopTyped, HandlerOf
  <1>10. JobTyped'
    BY <1>1, <1>2, <1>3, <1>4, <1>5 DEF IInv, JobTyped, DbTyped
  <1>11. TickTyped'
    BY <1>1, <1>2, <1>3, <1>4, <1>5 DEF IInv, TickTyped
  <1>12. SessionsKnown'
    BY <1>1, <1>2, <1>3, <1>4, <1>5 DEF IInv, SessionsKnown, StripeTyped, SessionType
  <1>13. DeadlinePaid'
    BY <1>1, <1>2, <1>3, <1>4, <1>5 DEF IInv, DeadlinePaid, Hosted, WasPaid
  <1>14. NewsInTime'
    BY <1>1, <1>2, <1>3, <1>4, <1>5 DEF IInv, NewsInTime, Hosted, Pending, HandlerOf, LoopTyped
  <1>15. JobsInTime'
    BY <1>1, <1>2, <1>3, <1>4, <1>5 DEF IInv, JobsInTime, JobTyped
  <1>16. SuspendKnown'
    BY <1>1, <1>2, <1>3, <1>4, <1>5 DEF IInv, SuspendKnown, Hosted, WasPaid, ToSuspend, TickTyped
  <1>17. DeleteKnown'
    BY <1>1, <1>2, <1>3, <1>4, <1>5 DEF IInv, DeleteKnown, Hosted, WasPaid, Pending, HandlerOf,
       ToDelete, TickTyped, LoopTyped
  <1>18. Restorable'
    BY <1>1, <1>2, <1>3, <1>4, <1>5 DEF IInv, Restorable, HandlerOf, LoopTyped
  <1>19. DeletedIsGone'
    BY <1>1, <1>2, <1>3, <1>4, <1>5 DEF IInv, DeletedIsGone
  <1> QED
    BY <1>6, <1>7, <1>8, <1>9, <1>10, <1>11, <1>12, <1>13, <1>14, <1>15, <1>16, <1>17, <1>18,
       <1>19 DEF IInv

LEMMA CreateBasicKeeps == ASSUME IInv, NEW r \in Rows, CreateBasic(r) PROVE IInv'
  <1>1. UNCHANGED <<fly, seen, stripe, report, job, modes, tick>>
    BY DEF CreateBasic
  <1>2. db[r] = None /\ loop.pc = "idle"
    BY DEF CreateBasic
  <1>3. /\ Prepared("basic") \in RowType /\ Prepared("basic").deadline = "none"
        /\ Prepared("basic").status # "deleted"
    BY DEF Prepared, RowType, Tiers, Statuses, Dates
  <1>4. /\ DbTyped' /\ db'[r] = Prepared("basic") /\ db'[r] # None
        /\ \A q \in Rows : q # r => db'[q] = db[q]
        /\ \A q \in Rows : db[q] # None => db'[q] # None
    BY <1>2, <1>3, Stored DEF CreateBasic
  <1>5. [Prepared("basic") EXCEPT !.status = "failed"] \in RowType /\ MoreCheckouts
    BY DEF CreateBasic, Prepared, RowType, Tiers, Statuses, Dates
  <1>6. /\ loop'.copy.status # "deleted"
        /\ loop' = [pc |-> "checkout", row |-> r,
                     copy |-> [Prepared("basic") EXCEPT !.status = "failed"], event |-> None]
    BY DEF CreateBasic, IdleLoop, Prepared
  <1>7. FlyTyped' /\ StripeTyped' /\ ModesTyped' /\ PaidOnce'
    BY <1>1 DEF IInv, FlyTyped, StripeTyped, ModesTyped, PaidOnce
  <1>8. DbTyped'
    BY <1>4
  <1>9. LoopTyped'
    BY <1>1, <1>2, <1>3, <1>4, <1>5, <1>6 DEF IInv, LoopTyped, HandlerOf, DbTyped, StripeTyped
  <1>10. LoopHasRoom'
    BY <1>1, <1>2, <1>3, <1>4, <1>5, <1>6 DEF IInv, LoopHasRoom, HandlerOf, MoreCheckouts
  <1>11. ReportTyped'
    BY <1>1, <1>2, <1>3, <1>4, <1>5, <1>6 DEF IInv, ReportTyped, LoopTyped, HandlerOf
  <1>12. JobTyped'
    BY <1>1, <1>2, <1>3, <1>4, <1>5, <1>6 DEF IInv, JobTyped, DbTyped
  <1>13. TickTyped'
    BY <1>1, <1>2, <1>3, <1>4, <1>5, <1>6 DEF IInv, TickTyped
  <1>14. SessionsKnown'
    BY <1>1, <1>2, <1>3, <1>4, <1>5, <1>6 DEF IInv, SessionsKnown, StripeTyped, SessionType
  <1>15. DeadlinePaid'
    BY <1>1, <1>2, <1>3, <1>4, <1>5, <1>6 DEF IInv, DeadlinePaid, Hosted, WasPaid
  <1>16. NewsInTime'
    BY <1>1, <1>2, <1>3, <1>4, <1>5, <1>6 DEF IInv, NewsInTime, Hosted, Pending, HandlerOf,
       LoopTyped
  <1>17. JobsInTime'
    BY <1>1, <1>2, <1>3, <1>4, <1>5, <1>6 DEF IInv, JobsInTime, JobTyped
  <1>18. SuspendKnown'
    BY <1>1, <1>2, <1>3, <1>4, <1>5, <1>6 DEF IInv, SuspendKnown, Hosted, WasPaid, ToSuspend,
       TickTyped
  <1>19. DeleteKnown'
    BY <1>1, <1>2, <1>3, <1>4, <1>5, <1>6 DEF IInv, DeleteKnown, Hosted, WasPaid, Pending,
       HandlerOf, ToDelete, TickTyped, LoopTyped
  <1>20. Restorable'
    BY <1>1, <1>2, <1>3, <1>4, <1>5, <1>6 DEF IInv, Restorable, HandlerOf, LoopTyped
  <1>21. DeletedIsGone'
    BY <1>1, <1>2, <1>3, <1>4, <1>5, <1>6 DEF IInv, DeletedIsGone
  <1> QED
    BY <1>7, <1>8, <1>9, <1>10, <1>11, <1>12, <1>13, <1>14, <1>15, <1>16, <1>17, <1>18, <1>19,
       <1>20, <1>21 DEF IInv

LEMMA CanceledKeeps == ASSUME IInv, Canceled PROVE IInv'
  <1>1. UNCHANGED <<fly, seen, stripe, report, job, tick>>
    BY DEF Canceled
  <1>2. PICK r \in Rows : r = loop.row /\ db[r] \in RowType
    BY DEF Canceled, IInv, LoopTyped, HandlerOf, DbTyped
  <1>3. PICK row \in RowType :
          /\ Store(r, row) /\ row.tier = db[r].tier /\ row.deadline = "ahead"
          /\ row.status = "suspended"
    <2> DEFINE row == CancelFields(db[r])
    <2>1. row \in RowType
      BY <1>2, FieldsTyped DEF CancelFields
    <2>2. row.tier = db[r].tier /\ row.deadline = "ahead" /\ row.status = "suspended"
      BY <1>2 DEF RowType, CancelFields
    <2>3. Store(r, row)
      BY <1>2 DEF Canceled
    <2> QED BY <2>1, <2>2, <2>3
  <1>4. /\ DbTyped' /\ db'[r] = row /\ row # None /\ db[r] # None
        /\ \A q \in Rows : q # r => db'[q] = db[q]
        /\ \A q \in Rows : db[q] # None => db'[q] # None
    BY <1>2, <1>3, Stored, NullAssumption
  <1>5. /\ loop.pc = "deleted" /\ loop' = IdleLoop
        /\ loop.event.kind = "deleted" /\ loop.event \in stripe.news /\ loop.event.row = r
    BY <1>2 DEF Canceled, IInv, LoopTyped, HandlerOf, StripeTyped
  <1>6. WasPaid(r)
    BY <1>5 DEF IInv, PaidOnce, StripeTyped, WasPaid, SessionType, Events
  <1>7. FlyTyped' /\ StripeTyped' /\ PaidOnce'
    BY <1>1 DEF IInv, FlyTyped, StripeTyped, PaidOnce
  <1>8. DbTyped'
    BY <1>4
  <1>9. ModesTyped'
    BY <1>1, <1>2, <1>5 DEF IInv, ModesTyped, Canceled, StopsAs, Modes
  <1>10. LoopTyped'
    BY <1>1, <1>2, <1>3, <1>4, <1>5, <1>6 DEF IInv, LoopTyped, HandlerOf, DbTyped, StripeTyped,
       IdleLoop
  <1>11. LoopHasRoom'
    BY <1>1, <1>2, <1>3, <1>4, <1>5, <1>6 DEF IInv, LoopHasRoom, HandlerOf, MoreCheckouts,
       IdleLoop
  <1>12. ReportTyped'
    BY <1>1, <1>2, <1>3, <1>4, <1>5, <1>6 DEF IInv, ReportTyped, LoopTyped, HandlerOf, IdleLoop
  <1>13. JobTyped'
    BY <1>1, <1>2, <1>3, <1>4, <1>5, <1>6 DEF IInv, JobTyped, DbTyped, IdleLoop
  <1>14. TickTyped'
    BY <1>1, <1>2, <1>3, <1>4, <1>5, <1>6 DEF IInv, TickTyped, IdleLoop
  <1>15. SessionsKnown'
    BY <1>1, <1>2, <1>3, <1>4, <1>5, <1>6 DEF IInv, SessionsKnown, StripeTyped, IdleLoop,
       SessionType
  <1>16. DeadlinePaid'
    BY <1>1, <1>2, <1>3, <1>4, <1>5, <1>6 DEF IInv, DeadlinePaid, Hosted, WasPaid, IdleLoop
  <1>17. NewsInTime'
    BY <1>1, <1>2, <1>3, <1>4, <1>5, <1>6 DEF IInv, NewsInTime, Hosted, Pending, HandlerOf,
       LoopTyped, IdleLoop
  <1>18. JobsInTime'
    BY <1>1, <1>2, <1>3, <1>4, <1>5, <1>6 DEF IInv, JobsInTime, JobTyped, IdleLoop
  <1>19. SuspendKnown'
    BY <1>1, <1>2, <1>3, <1>4, <1>5, <1>6 DEF IInv, SuspendKnown, Hosted, WasPaid, ToSuspend,
       TickTyped, IdleLoop
  <1>20. DeleteKnown'
    BY <1>1, <1>2, <1>3, <1>4, <1>5, <1>6 DEF IInv, DeleteKnown, Hosted, WasPaid, Pending,
       HandlerOf, ToDelete, TickTyped, LoopTyped, IdleLoop
  <1>21. Restorable'
    BY <1>1, <1>2, <1>3, <1>4, <1>5, <1>6 DEF IInv, Restorable, HandlerOf, LoopTyped, IdleLoop
  <1>22. DeletedIsGone'
    BY <1>1, <1>2, <1>3, <1>4, <1>5, <1>6 DEF IInv, DeletedIsGone, IdleLoop
  <1> QED
    BY <1>7, <1>8, <1>9, <1>10, <1>11, <1>12, <1>13, <1>14, <1>15, <1>16, <1>17, <1>18, <1>19,
       <1>20, <1>21, <1>22 DEF IInv

LEMMA Upgraded == ASSUME NEW row \in RowType PROVE UpgradeFields(row) \in RowType
  <1> DEFINE paid == [row EXCEPT !.tier = "basic", !.status = "running", !.sub = "active"]
             kept == [paid EXCEPT !.expires = "none", !.deadline = "none", !.sleep = FALSE]
  <1>1. paid \in RowType
    BY DEF RowType, Tiers, Statuses
  <1> HIDE DEF paid
  <1>2. kept \in RowType
    BY <1>1 DEF RowType, Dates
  <1>3. UpgradeFields(row) = kept
    BY DEF UpgradeFields, paid
  <1> QED BY <1>2, <1>3

LEMMA CompletedKeeps == ASSUME IInv, Completed PROVE IInv'
  <1>1. UNCHANGED <<fly, seen, stripe, report, tick>>
    BY DEF Completed
  <1>2. PICK r \in Rows : r = loop.row /\ db[r] \in RowType
    BY DEF Completed, IInv, LoopTyped, HandlerOf, DbTyped
  <1>3. PICK row \in RowType :
          /\ Store(r, row)
          /\ (db[r].tier = "sandbox" => row.tier = "basic" /\ row.deadline = "none")
          /\ (db[r].tier # "sandbox" => row.tier = db[r].tier /\ row.deadline = db[r].deadline)
          /\ row.status # "deleted"
    <2> DEFINE row == PaidFields(db[r], loop.copy.tier)
    <2>1. loop.copy.tier = db[r].tier
      BY <1>2 DEF Completed, IInv, LoopTyped, HandlerOf
    <2>2. UpgradeFields(db[r]) \in RowType
      BY <1>2, Upgraded
    <2>3. [db[r] EXCEPT !.sub = "active", !.status = "provisioning"] \in RowType
      BY <1>2 DEF RowType, Statuses
    <2>4. row \in RowType
      BY <2>2, <2>3 DEF PaidFields
    <2>5. /\ (db[r].tier = "sandbox" => row.tier = "basic" /\ row.deadline = "none")
          /\ (db[r].tier # "sandbox" => row.tier = db[r].tier /\ row.deadline = db[r].deadline)
          /\ row.status # "deleted"
      BY <1>2, <2>1 DEF RowType, PaidFields, UpgradeFields
    <2>6. Store(r, row)
      BY <1>2 DEF Completed
    <2> QED BY <2>4, <2>5, <2>6
  <1>4. /\ DbTyped' /\ db'[r] = row /\ row # None /\ db[r] # None
        /\ \A q \in Rows : q # r => db'[q] = db[q]
        /\ \A q \in Rows : db[q] # None => db'[q] # None
    BY <1>2, <1>3, Stored, NullAssumption
  <1>5. /\ loop.pc = "completed" /\ loop' = IdleLoop /\ loop.copy.tier = db[r].tier
        /\ loop.event.kind = "completed" /\ loop.event \in seen /\ loop.event.row = r
    BY <1>2 DEF Completed, IInv, LoopTyped, HandlerOf
  <1>6. loop.event \in stripe.news /\ stripe.news \subseteq Events /\ Pending(r)
    BY <1>2, <1>5 DEF IInv, StripeTyped, Pending, HandlerOf
  <1>7. WasPaid(r)
    BY <1>5, <1>6 DEF IInv, PaidOnce, StripeTyped, WasPaid, SessionType, Events
  <1>8. \A e \in stripe.news \ seen : e.kind = "completed" => e.row # r
    <2> SUFFICES ASSUME NEW e \in stripe.news \ seen, e.kind = "completed", e.row = r PROVE FALSE
      OBVIOUS
    <2>1. <<e.row, e.n>> = <<loop.event.row, loop.event.n>>
      BY <1>5, <1>6 DEF IInv, PaidOnce
    <2>2. e = loop.event
      BY <1>5, <1>6, <2>1 DEF Events
    <2> QED BY <1>5, <2>2
  <1>9. /\ job' = job \/ (db[r].tier # "sandbox" /\ job' = [job EXCEPT ![r].pc = "read"])
        /\ \A q \in Rows : q # r => job'[q] = job[q]
        /\ db[r].tier = "sandbox" => job' = job
    BY <1>2, <1>5 DEF Completed, IInv, JobTyped
  <1>10. FlyTyped' /\ StripeTyped' /\ PaidOnce'
    BY <1>1 DEF IInv, FlyTyped, StripeTyped, PaidOnce
  <1>11. DbTyped'
    BY <1>4
  <1>12. ModesTyped'
    BY <1>1, <1>2, <1>5 DEF IInv, ModesTyped, Completed, ResumesAs, Modes
  <1>13. LoopTyped'
    BY <1>1, <1>2, <1>3, <1>4, <1>5, <1>6, <1>7, <1>8, <1>9 DEF IInv, LoopTyped, HandlerOf,
       DbTyped, StripeTyped, IdleLoop
  <1>14. LoopHasRoom'
    BY <1>1, <1>2, <1>3, <1>4, <1>5, <1>6, <1>7, <1>8, <1>9 DEF IInv, LoopHasRoom, HandlerOf,
       MoreCheckouts, IdleLoop
  <1>15. ReportTyped'
    BY <1>1, <1>2, <1>3, <1>4, <1>5, <1>6, <1>7, <1>8, <1>9 DEF IInv, ReportTyped, LoopTyped,
       HandlerOf, IdleLoop
  <1>16. JobTyped'
    BY <1>1, <1>2, <1>3, <1>4, <1>5, <1>6, <1>7, <1>8, <1>9 DEF IInv, JobTyped, DbTyped, IdleLoop
  <1>17. TickTyped'
    BY <1>1, <1>2, <1>3, <1>4, <1>5, <1>6, <1>7, <1>8, <1>9 DEF IInv, TickTyped, IdleLoop
  <1>18. SessionsKnown'
    BY <1>1, <1>2, <1>3, <1>4, <1>5, <1>6, <1>7, <1>8, <1>9 DEF IInv, SessionsKnown, StripeTyped,
       IdleLoop, SessionType
  <1>19. DeadlinePaid'
    BY <1>1, <1>2, <1>3, <1>4, <1>5, <1>6, <1>7, <1>8, <1>9 DEF IInv, DeadlinePaid, Hosted,
       WasPaid, IdleLoop
  <1>20. NewsInTime'
    BY <1>1, <1>2, <1>3, <1>4, <1>5, <1>6, <1>7, <1>8, <1>9 DEF IInv, NewsInTime, Hosted,
       Pending, HandlerOf, LoopTyped, IdleLoop
  <1>21. JobsInTime'
    BY <1>1, <1>2, <1>3, <1>4, <1>5, <1>6, <1>7, <1>8, <1>9 DEF IInv, JobsInTime, JobTyped,
       NewsInTime, Hosted
  <1>22. SuspendKnown'
    BY <1>1, <1>2, <1>3, <1>4, <1>5, <1>6, <1>7, <1>8, <1>9 DEF IInv, SuspendKnown, Hosted,
       WasPaid, ToSuspend, TickTyped, IdleLoop
  <1>23. DeleteKnown'
    BY <1>1, <1>2, <1>3, <1>4, <1>5, <1>6, <1>7, <1>8, <1>9 DEF IInv, DeleteKnown, Hosted,
       WasPaid, Pending, HandlerOf, ToDelete, TickTyped, LoopTyped, IdleLoop
  <1>24. Restorable'
    BY <1>1, <1>2, <1>3, <1>4, <1>5, <1>6, <1>7, <1>8, <1>9 DEF IInv, Restorable, HandlerOf,
       LoopTyped, IdleLoop
  <1>25. DeletedIsGone'
    BY <1>1, <1>2, <1>3, <1>4, <1>5, <1>6, <1>7, <1>8, <1>9 DEF IInv, DeletedIsGone, IdleLoop
  <1> QED
    BY <1>10, <1>11, <1>12, <1>13, <1>14, <1>15, <1>16, <1>17, <1>18, <1>19, <1>20, <1>21, <1>22,
       <1>23, <1>24, <1>25 DEF IInv

-----------------------------------------------------------------------------
(* The theorems                                                            *)

LEMMA Starts == Init => IInv
  <1> SUFFICES ASSUME Init PROVE IInv
    OBVIOUS
  <1>1. DbTyped /\ FlyTyped /\ StripeTyped /\ ModesTyped /\ LoopTyped /\ ReportTyped /\ JobTyped /\ TickTyped
    BY DEF Init, DbTyped, FlyTyped, FlyType, NoApp, StripeTyped, ModesTyped, LoopTyped, HandlerOf, IdleLoop,
       ReportTyped, JobTyped, IdleJob, TickTyped, IdleTick
  <1>2. LoopHasRoom
    BY FS_EmptySet DEF Init, LoopHasRoom, HandlerOf, IdleLoop
  <1>3. SessionsKnown /\ PaidOnce /\ DeadlinePaid /\ NewsInTime /\ JobsInTime
    BY DEF Init, SessionsKnown, PaidOnce, DeadlinePaid, NewsInTime, Hosted, JobsInTime, IdleJob
  <1>4. SuspendKnown /\ DeleteKnown /\ Restorable /\ DeletedIsGone
    BY DEF Init, SuspendKnown, ToSuspend, DeleteKnown, ToDelete, IdleTick, Restorable, HandlerOf, IdleLoop,
       DeletedIsGone
  <1> QED BY <1>1, <1>2, <1>3, <1>4 DEF IInv

LEMMA StepKeeps == IInv /\ [Next]_vars => IInv'
  <1> SUFFICES ASSUME IInv, [Next]_vars PROVE IInv'
    OBVIOUS
  <1>1. ASSUME HandlerStep PROVE IInv'
    BY <1>1, UpgradePendsKeeps, CheckoutOpensKeeps, CheckoutFailsKeeps, WebhookReadsKeeps, CompletedKeeps,
       CanceledKeeps, PresenceStoresKeeps, PresenceTouchesKeeps DEF HandlerStep
  <1>2. ASSUME TickStep PROVE IInv'
    BY <1>2, TickBeginsKeeps, TickSuspendsKeeps, TickListsKeeps, TickDeletesAppKeeps, TickDeletesKeeps,
       TickEndsKeeps, TickStopsKeeps, TickDeletesVolumeKeeps DEF TickStep
  <1>3. ASSUME NEW r \in Rows, Request(r) PROVE IInv'
    BY <1>3, CreateHostedKeeps, CreateBasicKeeps, UpgradeKeeps, PresenceKeeps DEF Request
  <1>4. ASSUME NEW r \in Rows, JobStep(r) PROVE IInv'
    BY <1>4, JobReadsKeeps, JobMarksKeeps, JobBuildsKeeps, JobRecordsKeeps, JobFinishesKeeps, JobFailsKeeps,
       ModeJobKeeps DEF JobStep
  <1>5. ASSUME NEW s \in stripe.open, Customer(s) PROVE IInv'
    BY <1>5, PaysKeeps, SubscriptionEndsKeeps DEF Customer
  <1>6. CASE UNCHANGED vars
    BY <1>6 DEF vars, IInv, DbTyped, FlyTyped, StripeTyped, ModesTyped, LoopTyped, LoopHasRoom,
       ReportTyped, JobTyped, TickTyped, SessionsKnown, PaidOnce, DeadlinePaid, NewsInTime,
       JobsInTime, SuspendKnown, DeleteKnown, Restorable, DeletedIsGone, HandlerOf,
       MoreCheckouts, Hosted, WasPaid, Pending, ToSuspend, ToDelete
  <1> QED BY <1>1, <1>2, <1>3, <1>4, <1>5, <1>6, CrashKeeps, ExpiresKeeps, GraceEndsKeeps, WebhookKeeps
       DEF Next

LEMMA FleetInvariant == Spec => []IInv
  BY Starts, StepKeeps, PTL DEF Spec

\* Rows, apps, sessions, the news of Stripe and the pending changes of mode are of
\* their types, whatever handlers, jobs, ticks, Stripe and crashes do.
THEOREM FleetTypes == Spec => []TypeOK
  <1>1. IInv => TypeOK
    BY DEF IInv, TypeOK, DbTyped, FlyTyped, StripeTyped, ModesTyped, SessionType
  <1> QED BY FleetInvariant, <1>1, PTL

\* A row is marked deleted only when nothing of its app is left at Fly, whatever
\* fails or crashes in the middle of a tick (control_plane/scheduler.py, tick).
THEOREM FleetDeletedIsGone == Spec => []DeletedIsGone
  <1>1. IInv => DeletedIsGone
    BY DEF IInv
  <1> QED BY FleetInvariant, <1>1, PTL

-----------------------------------------------------------------------------
(* When all goes smoothly, what is paid for is up                          *)

\* One handler, one job or one tick is under way, and nothing beside it.
OneByOne ==
    /\ loop.pc # "idle" \/ report # NoReport => JobsIdle /\ tick.pc = "idle"
    /\ loop.pc \notin {"idle", "touch"} => report = NoReport
    /\ tick.pc # "idle" => JobsIdle
    /\ \A r, q \in Rows : job[r].pc # "idle" /\ job[q].pc # "idle" => r = q
    /\ \A r \in Rows : job[r].pc # "idle" => modes = {}
    /\ \A a, b \in modes : a = b

\* What a handler or a job has read of its row still holds.
Current ==
    /\ HandlerOf({"completed", "deleted"}) => loop.copy = db[loop.row]
    /\ report # NoReport => report.copy.tier = db[report.row].tier
    /\ loop.pc = "touch" => db[report.row].tier = "sandbox"
    /\ \A r \in Rows :
          job[r].pc \in {"mark", "build", "record"} => job[r].copy.tier = db[r].tier

\* A checkout is of a basic row, or of a sandbox that was not deleted when it was opened.
Sold ==
    /\ \A s \in stripe.open : db[s[1]].tier # "vip"
    /\ HandlerOf({"checkout"}) => db[loop.row].tier # "vip"
    /\ HandlerOf({"pend"}) => db[loop.row].tier = "sandbox" /\ db[loop.row].status # "deleted"

\* What a job has built and stored.
Built == \A r \in Rows :
    /\ job[r].pc \in {"record", "health"} =>
          fly[r].machine # None /\ (db[r].tier # "sandbox" => fly[r].machine = "on")
    /\ job[r].pc = "health" => db[r].machine

Sandbox(r) == db[r] # None /\ db[r].tier = "sandbox"

\* A sandbox has its machine from the end of its job until it is deleted.
SandboxUp == \A r \in Rows :
    Sandbox(r) /\ job[r].pc = "idle" /\ db[r].status # "deleted"
               /\ ~(tick.pc = "deleted" /\ tick.row = r)
       => db[r].machine /\ fly[r].machine # None

\* It can be paid for, or has been.
Claim(r) ==
    \/ \E s \in stripe.live : s[1] = r
    \/ Pending(r)
    \/ HandlerOf({"checkout"}) /\ loop.row = r

\* Such a sandbox is out of the tick's reach.
Claimed == \A r \in Rows :
    Sandbox(r) /\ Claim(r) =>
       db[r].status = "pending_payment" \/ (db[r].status = "suspended" /\ db[r].deadline # "past")

StillPending == \A r \in Rows : Sandbox(r) /\ WasPaid(r) => Pending(r)

\* A sandbox's job works on a row nobody has touched.
Starting == \A r \in Rows : Sandbox(r) /\ job[r].pc # "idle" => db[r].status = "provisioning"

\* What the tick has listed is as it was when it was listed.
Listed ==
    /\ \A r \in ToSuspend : db[r].status = "running" /\ db[r].tier = "sandbox"
    /\ \A r \in ToDelete :
          db[r].status = "suspended" /\ db[r].deadline = "past" /\ db[r].sub # "active"
    /\ tick.pc \in {"store", "app", "deleted"} => tick.row \notin tick.todo

\* A basic row gets its machine only once the news of its payment came.
Unbuilt == \A r \in Rows :
    db[r] # None /\ db[r].tier = "basic" /\ (Pending(r) \/ ~WasPaid(r)) =>
       ~db[r].machine /\ job[r].pc = "idle"

\* A paid row is basic, and being built, or running and on, or about to be put on.
PaidUp == \A r \in Rows : Paid(r) =>
    /\ db[r].tier = "basic"
    /\ \/ job[r].pc # "idle"
       \/ /\ db[r].status = "running" /\ fly[r].machine # None
          /\ fly[r].machine = "on" \/ <<r, "on">> \in modes
    /\ \A mode \in Modes : <<r, mode>> \in modes => mode = "on"

Calm ==
    /\ OneByOne /\ Current /\ Sold /\ Built /\ SandboxUp /\ Claimed /\ StillPending
    /\ Starting /\ Listed /\ Unbuilt /\ PaidUp

SInv == faults \in Nat /\ (Smooth => Calm)

\* No session, and no news, is of a row that is not there.
LEMMA NewRow ==
    ASSUME IInv, ~HandlerOf({"webhook", "completed"}), NEW r \in Rows, db[r] = None
    PROVE  ~WasPaid(r) /\ ~Pending(r) /\ ~Claim(r) /\ \A s \in stripe.open : s[1] # r
  <1>1. \A s \in stripe.open : s[1] # r
    BY DEF IInv, SessionsKnown
  <1>2. ~WasPaid(r)
    BY <1>1 DEF IInv, StripeTyped, WasPaid
  <1>3. \A e \in stripe.news : e.row # r
    <2> SUFFICES ASSUME NEW e \in stripe.news, e.row = r PROVE FALSE
      OBVIOUS
    <2>1. <<e.row, e.n>> \in stripe.paid
      BY DEF IInv, PaidOnce
    <2> QED BY <2>1, <1>2 DEF WasPaid
  <1>4. ~Pending(r)
    BY <1>3 DEF Pending
  <1>5. ~Claim(r)
    BY <1>1, <1>4 DEF IInv, StripeTyped, LoopTyped, Claim, HandlerOf
  <1> QED BY <1>1, <1>2, <1>4, <1>5


LEMMA UpgradePendsCalm ==
    ASSUME IInv, Calm, Smooth, Smooth', UpgradePends
    PROVE  Calm'
  <1>1. UNCHANGED <<fly, seen, stripe, report, job, modes, tick>>
    BY DEF UpgradePends
  <1>2. report = NoReport /\ tick.pc = "idle" /\ modes = {} /\ \A q \in Rows : job[q].pc = "idle"
    BY DEF UpgradePends, Calm, OneByOne, JobsIdle
  <1>3. PICK r \in Rows : r = loop.row /\ db[r] \in RowType
    BY DEF UpgradePends, IInv, LoopTyped, HandlerOf, DbTyped
  <1>4. /\ db' = [db EXCEPT ![r] = [db[r] EXCEPT !.status = "pending_payment"]]
        /\ loop.pc = "pend" /\ loop' = [loop EXCEPT !.pc = "checkout"]
    BY <1>3 DEF UpgradePends, Store
  <1>5. db[r].tier = "sandbox" /\ db[r].status # "deleted"
    BY <1>3, <1>4 DEF Calm, Sold, HandlerOf
  <1>6. /\ db'[r].tier = "sandbox" /\ db'[r].status = "pending_payment"
        /\ db'[r].machine = db[r].machine /\ db'[r].sub = db[r].sub /\ db[r] # None
        /\ \A q \in Rows : q # r => db'[q] = db[q]
    BY <1>3, <1>4, <1>5, NullAssumption DEF RowType, IInv, DbTyped
  <1>7. loop'.pc = "checkout" /\ loop'.row = r /\ loop'.event = loop.event
    BY <1>3, <1>4 DEF IInv, LoopTyped
  <1>8. OneByOne'
    BY <1>1, <1>2, <1>3, <1>4, <1>5, <1>6, <1>7 DEF Calm, IInv, OneByOne, JobsIdle
  <1>9. Current'
    BY <1>1, <1>2, <1>3, <1>4, <1>5, <1>6, <1>7 DEF Calm, IInv, Current, HandlerOf, ReportTyped,
       JobTyped, LoopTyped
  <1>10. Sold'
    BY <1>1, <1>2, <1>3, <1>4, <1>5, <1>6, <1>7 DEF Calm, IInv, Sold, HandlerOf, StripeTyped,
       SessionsKnown, SessionType
  <1>11. Built'
    BY <1>1, <1>2, <1>3, <1>4, <1>5, <1>6, <1>7 DEF Calm, IInv, Built, JobTyped
  <1>12. SandboxUp'
    BY <1>1, <1>2, <1>3, <1>4, <1>5, <1>6, <1>7 DEF Calm, IInv, SandboxUp, Sandbox
  <1>13. Claimed'
    BY <1>1, <1>2, <1>3, <1>4, <1>5, <1>6, <1>7 DEF Calm, IInv, Claimed, Sandbox, Claim, Pending,
       HandlerOf, LoopTyped, StripeTyped
  <1>14. StillPending'
    BY <1>1, <1>2, <1>3, <1>4, <1>5, <1>6, <1>7 DEF Calm, IInv, StillPending, Sandbox, WasPaid,
       Pending, HandlerOf, LoopTyped, StripeTyped
  <1>15. Starting'
    BY <1>1, <1>2, <1>3, <1>4, <1>5, <1>6, <1>7 DEF Calm, IInv, Starting, Sandbox, JobTyped
  <1>16. Listed'
    BY <1>1, <1>2, <1>3, <1>4, <1>5, <1>6, <1>7 DEF Calm, IInv, Listed, ToSuspend, ToDelete,
       TickTyped
  <1>17. Unbuilt'
    BY <1>1, <1>2, <1>3, <1>4, <1>5, <1>6, <1>7 DEF Calm, IInv, Unbuilt, Pending, WasPaid,
       HandlerOf, LoopTyped, StripeTyped, JobTyped
  <1>18. PaidUp'
    BY <1>1, <1>2, <1>3, <1>4, <1>5, <1>6, <1>7 DEF Calm, IInv, PaidUp, Paid, ModesTyped
  <1> QED
    BY <1>8, <1>9, <1>10, <1>11, <1>12, <1>13, <1>14, <1>15, <1>16, <1>17, <1>18 DEF Calm

LEMMA CheckoutOpensCalm ==
    ASSUME IInv, Calm, Smooth, Smooth', CheckoutOpens
    PROVE  Calm'
  <1>1. UNCHANGED <<db, fly, seen, report, job, modes, tick>>
    BY DEF CheckoutOpens
  <1>2. report = NoReport /\ tick.pc = "idle" /\ modes = {} /\ \A q \in Rows : job[q].pc = "idle"
    BY DEF CheckoutOpens, Calm, OneByOne, JobsIdle
  <1>3. PICK r \in Rows : r = loop.row /\ loop.pc = "checkout" /\ db[r] # None
    BY DEF CheckoutOpens, IInv, LoopTyped, HandlerOf
  <1>4. PICK s : s[1] = r /\ stripe' = [stripe EXCEPT !.open = @ \cup {s}, !.live = @ \cup {s}]
    BY <1>3 DEF CheckoutOpens
  <1>5. /\ stripe'.open = stripe.open \cup {s} /\ stripe'.live = stripe.live \cup {s}
        /\ stripe'.paid = stripe.paid /\ stripe'.news = stripe.news
        /\ loop' = IdleLoop
    BY <1>4 DEF CheckoutOpens, IInv, StripeTyped
  <1>6. Built' /\ SandboxUp' /\ Starting' /\ Listed' /\ PaidUp'
    BY <1>1 DEF Calm, Built, SandboxUp, Sandbox, Starting, Listed, ToSuspend, ToDelete, PaidUp,
       Paid
  <1>7. OneByOne'
    BY <1>1, <1>2, <1>3, <1>4, <1>5 DEF Calm, IInv, OneByOne, JobsIdle, IdleLoop
  <1>8. Current'
    BY <1>1, <1>2, <1>3, <1>4, <1>5 DEF Calm, IInv, Current, HandlerOf, ReportTyped, JobTyped,
       LoopTyped, IdleLoop
  <1>9. Sold'
    BY <1>1, <1>2, <1>3, <1>4, <1>5 DEF Calm, IInv, Sold, HandlerOf, StripeTyped, SessionsKnown,
       SessionType, IdleLoop
  <1>10. Claimed'
    BY <1>1, <1>2, <1>3, <1>4, <1>5 DEF Calm, IInv, Claimed, Sandbox, Claim, Pending, HandlerOf,
       LoopTyped, StripeTyped, IdleLoop
  <1>11. StillPending'
    BY <1>1, <1>2, <1>3, <1>4, <1>5 DEF Calm, IInv, StillPending, Sandbox, WasPaid, Pending,
       HandlerOf, LoopTyped, StripeTyped, IdleLoop
  <1>12. Unbuilt'
    BY <1>1, <1>2, <1>3, <1>4, <1>5 DEF Calm, IInv, Unbuilt, Pending, WasPaid, HandlerOf,
       LoopTyped, StripeTyped, JobTyped, IdleLoop
  <1> QED
    BY <1>6, <1>7, <1>8, <1>9, <1>10, <1>11, <1>12 DEF Calm

LEMMA WebhookReadsCalm ==
    ASSUME IInv, Calm, Smooth, Smooth', WebhookReads
    PROVE  Calm'
  <1>1. UNCHANGED <<db, fly, seen, stripe, report, job, modes, tick>>
    BY DEF WebhookReads
  <1>2. report = NoReport /\ tick.pc = "idle" /\ modes = {} /\ \A q \in Rows : job[q].pc = "idle"
    BY DEF WebhookReads, Calm, OneByOne, JobsIdle
  <1>3. /\ loop.pc = "webhook" /\ loop.row \in Rows /\ db[loop.row] \in RowType
        /\ loop.event \in Events /\ loop.event.kind \in {"completed", "deleted"}
    BY DEF WebhookReads, IInv, LoopTyped, HandlerOf, DbTyped, StripeTyped, Events, Kinds
  <1>4. loop' = [pc |-> loop.event.kind, row |-> loop.row, copy |-> db[loop.row],
                     event |-> loop.event]
    BY DEF WebhookReads, IInv, LoopTyped
  <1>5. Built' /\ SandboxUp' /\ Starting' /\ Listed' /\ PaidUp'
    BY <1>1 DEF Calm, Built, SandboxUp, Sandbox, Starting, Listed, ToSuspend, ToDelete, PaidUp,
       Paid
  <1>6. OneByOne'
    BY <1>1, <1>2, <1>3, <1>4 DEF Calm, IInv, OneByOne, JobsIdle
  <1>7. Current'
    BY <1>1, <1>2, <1>3, <1>4 DEF Calm, IInv, Current, HandlerOf, ReportTyped, JobTyped, LoopTyped
  <1>8. Sold'
    BY <1>1, <1>2, <1>3, <1>4 DEF Calm, IInv, Sold, HandlerOf, StripeTyped, SessionsKnown,
       SessionType
  <1>9. Claimed'
    BY <1>1, <1>2, <1>3, <1>4 DEF Calm, IInv, Claimed, Sandbox, Claim, Pending, HandlerOf,
       LoopTyped, StripeTyped
  <1>10. StillPending'
    BY <1>1, <1>2, <1>3, <1>4 DEF Calm, IInv, StillPending, Sandbox, WasPaid, Pending, HandlerOf,
       LoopTyped, StripeTyped
  <1>11. Unbuilt'
    BY <1>1, <1>2, <1>3, <1>4 DEF Calm, IInv, Unbuilt, Pending, WasPaid, HandlerOf, LoopTyped,
       StripeTyped, JobTyped
  <1> QED
    BY <1>5, <1>6, <1>7, <1>8, <1>9, <1>10, <1>11 DEF Calm

LEMMA CreateHostedCalm ==
    ASSUME IInv, Calm, Smooth, Smooth',
           NEW r \in Rows, NEW tier \in {"sandbox", "vip"}, CreateHosted(r, tier)
    PROVE  Calm'
  <1>1. UNCHANGED <<fly, seen, stripe, loop, report, modes, tick>>
    BY DEF CreateHosted
  <1>2. /\ loop.pc = "idle" /\ report = NoReport /\ tick.pc = "idle"
        /\ modes = {} /\ \A q \in Rows : job[q].pc = "idle"
    BY DEF CreateHosted, Begin, Smooth, Quiet, JobsIdle
  <1>3. /\ db[r] = None /\ db' = [db EXCEPT ![r] = Prepared(tier)]
        /\ job' = [job EXCEPT ![r].pc = "read"]
    BY DEF CreateHosted, Store
  <1>4. ~WasPaid(r) /\ ~Pending(r) /\ ~Claim(r) /\ \A s \in stripe.open : s[1] # r
    BY <1>2, <1>3, NewRow DEF HandlerOf
  <1>5. /\ db'[r] = Prepared(tier) /\ \A q \in Rows : q # r => db'[q] = db[q]
        /\ job'[r].pc = "read" /\ \A q \in Rows : q # r => job'[q] = job[q]
    BY <1>3 DEF IInv, DbTyped, JobTyped
  <1>6. /\ Prepared(tier).tier = tier /\ Prepared(tier).sub = "none"
        /\ Prepared(tier).status = "provisioning"
    BY DEF Prepared
  <1>7. \A q \in Rows : /\ Pending(q)' <=> Pending(q)
                        /\ WasPaid(q)' <=> WasPaid(q)
                        /\ Claim(q)' <=> Claim(q)
    BY <1>1 DEF Pending, WasPaid, Claim, HandlerOf
  <1>8. OneByOne'
    BY <1>1, <1>2, <1>3, <1>4, <1>5, <1>6, <1>7 DEF Calm, IInv, OneByOne, JobsIdle
  <1>9. Current'
    BY <1>1, <1>2, <1>3, <1>4, <1>5, <1>6, <1>7 DEF Calm, IInv, Current, HandlerOf, ReportTyped,
       JobTyped, LoopTyped
  <1>10. Sold'
    BY <1>1, <1>2, <1>3, <1>4, <1>5, <1>6, <1>7 DEF Calm, IInv, Sold, HandlerOf, StripeTyped,
       SessionsKnown, SessionType
  <1>11. Built'
    BY <1>1, <1>2, <1>3, <1>4, <1>5, <1>6, <1>7 DEF Calm, IInv, Built, JobTyped
  <1>12. SandboxUp'
    BY <1>1, <1>2, <1>3, <1>4, <1>5, <1>6, <1>7 DEF Calm, IInv, SandboxUp, Sandbox
  <1>13. Claimed'
    BY <1>1, <1>2, <1>3, <1>4, <1>5, <1>6, <1>7 DEF Calm, IInv, Claimed, Sandbox
  <1>14. StillPending'
    BY <1>1, <1>2, <1>3, <1>4, <1>5, <1>6, <1>7 DEF Calm, IInv, StillPending, Sandbox
  <1>15. Starting'
    BY <1>1, <1>2, <1>3, <1>4, <1>5, <1>6, <1>7 DEF Calm, IInv, Starting, Sandbox, JobTyped
  <1>16. Listed'
    BY <1>1, <1>2, <1>3, <1>4, <1>5, <1>6, <1>7 DEF Calm, IInv, Listed, ToSuspend, ToDelete,
       TickTyped
  <1>17. Unbuilt'
    BY <1>1, <1>2, <1>3, <1>4, <1>5, <1>6, <1>7 DEF Calm, IInv, Unbuilt, JobTyped
  <1>18. PaidUp'
    BY <1>1, <1>2, <1>3, <1>4, <1>5, <1>6, <1>7 DEF Calm, IInv, PaidUp, Paid, ModesTyped
  <1> QED
    BY <1>8, <1>9, <1>10, <1>11, <1>12, <1>13, <1>14, <1>15, <1>16, <1>17, <1>18 DEF Calm

LEMMA CreateBasicCalm ==
    ASSUME IInv, Calm, Smooth, Smooth', NEW r \in Rows, CreateBasic(r)
    PROVE  Calm'
  <1>1. UNCHANGED <<fly, seen, stripe, report, job, modes, tick>>
    BY DEF CreateBasic
  <1>2. /\ loop.pc = "idle" /\ report = NoReport /\ tick.pc = "idle"
        /\ modes = {} /\ \A q \in Rows : job[q].pc = "idle"
    BY DEF CreateBasic, Begin, Smooth, Quiet, JobsIdle
  <1>3. db[r] = None /\ db' = [db EXCEPT ![r] = Prepared("basic")]
    BY DEF CreateBasic, Store
  <1>4. ~WasPaid(r) /\ ~Pending(r) /\ ~Claim(r) /\ \A s \in stripe.open : s[1] # r
    BY <1>2, <1>3, NewRow DEF HandlerOf
  <1>5. /\ db'[r] = Prepared("basic") /\ \A q \in Rows : q # r => db'[q] = db[q]
    BY <1>3 DEF IInv, DbTyped
  <1>6. /\ Prepared("basic").tier = "basic" /\ Prepared("basic").sub = "none"
        /\ Prepared("basic").machine = FALSE
    BY DEF Prepared
  <1>7. loop'.pc = "checkout" /\ loop'.row = r
    BY DEF CreateBasic, IdleLoop
  <1>8. OneByOne'
    BY <1>1, <1>2, <1>3, <1>4, <1>5, <1>6, <1>7 DEF Calm, IInv, OneByOne, JobsIdle
  <1>9. Current'
    BY <1>1, <1>2, <1>3, <1>4, <1>5, <1>6, <1>7 DEF Calm, IInv, Current, HandlerOf, ReportTyped,
       JobTyped, LoopTyped
  <1>10. Sold'
    BY <1>1, <1>2, <1>3, <1>4, <1>5, <1>6, <1>7 DEF Calm, IInv, Sold, HandlerOf, StripeTyped,
       SessionsKnown, SessionType
  <1>11. Built'
    BY <1>1, <1>2, <1>3, <1>4, <1>5, <1>6, <1>7 DEF Calm, IInv, Built, JobTyped
  <1>12. SandboxUp'
    BY <1>1, <1>2, <1>3, <1>4, <1>5, <1>6, <1>7 DEF Calm, IInv, SandboxUp, Sandbox
  <1>13. Claimed'
    BY <1>1, <1>2, <1>3, <1>4, <1>5, <1>6, <1>7 DEF Calm, IInv, Claimed, Sandbox, Claim, Pending,
       HandlerOf, LoopTyped, StripeTyped
  <1>14. StillPending'
    BY <1>1, <1>2, <1>3, <1>4, <1>5, <1>6, <1>7 DEF Calm, IInv, StillPending, Sandbox, WasPaid,
       Pending, HandlerOf, LoopTyped, StripeTyped
  <1>15. Starting'
    BY <1>1, <1>2, <1>3, <1>4, <1>5, <1>6, <1>7 DEF Calm, IInv, Starting, Sandbox, JobTyped
  <1>16. Listed'
    BY <1>1, <1>2, <1>3, <1>4, <1>5, <1>6, <1>7 DEF Calm, IInv, Listed, ToSuspend, ToDelete,
       TickTyped
  <1>17. Unbuilt'
    BY <1>1, <1>2, <1>3, <1>4, <1>5, <1>6, <1>7 DEF Calm, IInv, Unbuilt, Pending, WasPaid,
       HandlerOf, LoopTyped, StripeTyped, JobTyped
  <1>18. PaidUp'
    BY <1>1, <1>2, <1>3, <1>4, <1>5, <1>6, <1>7 DEF Calm, IInv, PaidUp, Paid, ModesTyped
  <1> QED
    BY <1>8, <1>9, <1>10, <1>11, <1>12, <1>13, <1>14, <1>15, <1>16, <1>17, <1>18 DEF Calm

LEMMA UpgradeCalm ==
    ASSUME IInv, Calm, Smooth, Smooth',
           NEW r \in Rows, "deleted" \notin UpgradeFrom, Upgrade(r)
    PROVE  Calm'
  <1>1. UNCHANGED <<db, fly, seen, stripe, report, job, modes, tick>>
    BY DEF Upgrade
  <1>2. /\ loop.pc = "idle" /\ report = NoReport /\ tick.pc = "idle"
        /\ modes = {} /\ \A q \in Rows : job[q].pc = "idle"
    BY DEF Upgrade, Begin, Smooth, Quiet, JobsIdle
  <1>3. db[r] # None /\ db[r].tier = "sandbox" /\ db[r].status # "deleted"
    BY DEF Upgrade
  <1>4. loop'.pc = "pend" /\ loop'.row = r
    BY DEF Upgrade, IdleLoop
  <1>5. Built' /\ SandboxUp' /\ Starting' /\ Listed' /\ PaidUp'
    BY <1>1 DEF Calm, Built, SandboxUp, Sandbox, Starting, Listed, ToSuspend, ToDelete, PaidUp,
       Paid
  <1>6. OneByOne'
    BY <1>1, <1>2, <1>3, <1>4 DEF Calm, IInv, OneByOne, JobsIdle
  <1>7. Current'
    BY <1>1, <1>2, <1>3, <1>4 DEF Calm, IInv, Current, HandlerOf, ReportTyped, JobTyped, LoopTyped
  <1>8. Sold'
    BY <1>1, <1>2, <1>3, <1>4 DEF Calm, IInv, Sold, HandlerOf, StripeTyped, SessionsKnown,
       SessionType
  <1>9. Claimed'
    BY <1>1, <1>2, <1>3, <1>4 DEF Calm, IInv, Claimed, Sandbox, Claim, Pending, HandlerOf,
       LoopTyped, StripeTyped
  <1>10. StillPending'
    BY <1>1, <1>2, <1>3, <1>4 DEF Calm, IInv, StillPending, Sandbox, WasPaid, Pending, HandlerOf,
       LoopTyped, StripeTyped
  <1>11. Unbuilt'
    BY <1>1, <1>2, <1>3, <1>4 DEF Calm, IInv, Unbuilt, Pending, WasPaid, HandlerOf, LoopTyped,
       StripeTyped, JobTyped
  <1> QED
    BY <1>5, <1>6, <1>7, <1>8, <1>9, <1>10, <1>11 DEF Calm

LEMMA WebhookCalm ==
    ASSUME IInv, Calm, Smooth, Smooth', NEW e \in stripe.news, Webhook(e)
    PROVE  Calm'
  <1>1. UNCHANGED <<db, fly, stripe, report, job, modes, tick>>
    BY DEF Webhook
  <1>2. /\ loop.pc = "idle" /\ report = NoReport /\ tick.pc = "idle"
        /\ modes = {} /\ \A q \in Rows : job[q].pc = "idle"
    BY DEF Webhook, Begin, Smooth, Quiet, JobsIdle
  <1>3. /\ seen' = seen \cup {e}
        /\ loop'.pc = "webhook" /\ loop'.row = e.row /\ loop'.event = e
    BY DEF Webhook, IdleLoop
  <1>4. e \in Events /\ e.row \in Rows
    BY DEF IInv, StripeTyped, Events
  <1>5. \A q \in Rows : /\ Pending(q)' <=> Pending(q)
                        /\ WasPaid(q)' <=> WasPaid(q)
                        /\ Claim(q)' <=> Claim(q)
    <2> SUFFICES ASSUME NEW q \in Rows
                 PROVE  /\ Pending(q)' <=> Pending(q)
                        /\ WasPaid(q)' <=> WasPaid(q)
                        /\ Claim(q)' <=> Claim(q)
      OBVIOUS
    <2>1. WasPaid(q)' <=> WasPaid(q)
      BY <1>1 DEF WasPaid
    <2>2. ~Remembered(e)
      BY DEF Webhook
    <2>3. Pending(q)' <=> Pending(q)
      BY <1>1, <1>2, <1>3, <2>2 DEF Pending, HandlerOf, Remembered
    <2>4. Claim(q)' <=> Claim(q)
      BY <1>1, <1>2, <1>3, <2>3 DEF Claim, HandlerOf
    <2> QED BY <2>1, <2>3, <2>4
  <1>6. Built' /\ SandboxUp' /\ Starting' /\ Listed' /\ PaidUp'
    BY <1>1 DEF Calm, Built, SandboxUp, Sandbox, Starting, Listed, ToSuspend, ToDelete, PaidUp,
       Paid
  <1>7. OneByOne'
    BY <1>1, <1>2, <1>3, <1>4, <1>5 DEF Calm, IInv, OneByOne, JobsIdle
  <1>8. Current'
    BY <1>1, <1>2, <1>3, <1>4, <1>5 DEF Calm, IInv, Current, HandlerOf, ReportTyped, JobTyped,
       LoopTyped
  <1>9. Sold'
    BY <1>1, <1>2, <1>3, <1>4, <1>5 DEF Calm, IInv, Sold, HandlerOf, StripeTyped, SessionsKnown,
       SessionType
  <1>10. Claimed'
    BY <1>1, <1>2, <1>3, <1>4, <1>5 DEF Calm, IInv, Claimed, Sandbox
  <1>11. StillPending'
    BY <1>1, <1>2, <1>3, <1>4, <1>5 DEF Calm, IInv, StillPending, Sandbox
  <1>12. Unbuilt'
    BY <1>1, <1>2, <1>3, <1>4, <1>5 DEF Calm, IInv, Unbuilt, JobTyped
  <1> QED
    BY <1>6, <1>7, <1>8, <1>9, <1>10, <1>11, <1>12 DEF Calm

LEMMA PresenceCalm ==
    ASSUME IInv, Calm, Smooth, Smooth',
           NEW r \in Rows, NEW events \in BOOLEAN, Presence(r, events)
    PROVE  Calm'
  <1>1. UNCHANGED <<db, fly, seen, stripe, loop, job, modes, tick>>
    BY DEF Presence
  <1>2. /\ loop.pc = "idle" /\ report = NoReport /\ tick.pc = "idle"
        /\ modes = {} /\ \A q \in Rows : job[q].pc = "idle"
    BY DEF Presence, Begin, Smooth, Quiet, JobsIdle
  <1>3. db[r] # None /\ report' = [row |-> r, copy |-> db[r], events |-> events]
    BY DEF Presence
  <1>4. \A q \in Rows : /\ Pending(q)' <=> Pending(q)
                        /\ WasPaid(q)' <=> WasPaid(q)
                        /\ Claim(q)' <=> Claim(q)
    BY <1>1 DEF Pending, WasPaid, Claim, HandlerOf
  <1>5. /\ Sold' /\ Built' /\ SandboxUp' /\ Claimed' /\ StillPending' /\ Starting'
        /\ Listed' /\ Unbuilt' /\ PaidUp'
    BY <1>1 DEF Calm, Sold, HandlerOf, Built, SandboxUp, Sandbox, Claimed, Claim, Pending,
       StillPending, WasPaid, Starting, Listed, ToSuspend, ToDelete, Unbuilt, PaidUp, Paid
  <1>6. OneByOne'
    BY <1>1, <1>2, <1>3, <1>4 DEF Calm, IInv, OneByOne, JobsIdle
  <1>7. Current'
    BY <1>1, <1>2, <1>3, <1>4 DEF Calm, IInv, Current, HandlerOf, ReportTyped, JobTyped, LoopTyped
  <1> QED
    BY <1>5, <1>6, <1>7 DEF Calm

LEMMA TickBeginsCalm ==
    ASSUME IInv, Calm, Smooth, Smooth', TickBegins
    PROVE  Calm'
  <1>1. UNCHANGED <<db, fly, seen, stripe, loop, report, job, modes>>
    BY DEF TickBegins
  <1>2. /\ loop.pc = "idle" /\ report = NoReport /\ tick.pc = "idle"
        /\ modes = {} /\ \A q \in Rows : job[q].pc = "idle"
    BY DEF TickBegins, Begin, Smooth, Quiet, JobsIdle
  <1>3. tick' = [pc |-> "suspend", todo |-> Due, row |-> None] /\ Due \subseteq Rows
    BY DEF TickBegins, IdleTick, Due
  <1>4. \A r \in Due : db[r].status = "running" /\ db[r].tier = "sandbox"
    BY DEF Due, DueForSuspend
  <1>5. \A q \in Rows : /\ Pending(q)' <=> Pending(q)
                        /\ WasPaid(q)' <=> WasPaid(q)
                        /\ Claim(q)' <=> Claim(q)
    BY <1>1 DEF Pending, WasPaid, Claim, HandlerOf
  <1>6. /\ Current' /\ Sold' /\ Built' /\ Claimed' /\ StillPending' /\ Starting'
        /\ Unbuilt' /\ PaidUp'
    BY <1>1 DEF Calm, Current, HandlerOf, Sold, Built, Claimed, Sandbox, Claim, Pending,
       StillPending, WasPaid, Starting, Unbuilt, PaidUp, Paid
  <1>7. OneByOne'
    BY <1>1, <1>2, <1>3, <1>4, <1>5 DEF Calm, IInv, OneByOne, JobsIdle
  <1>8. SandboxUp'
    BY <1>1, <1>2, <1>3, <1>4, <1>5 DEF Calm, IInv, SandboxUp, Sandbox
  <1>9. Listed'
    BY <1>1, <1>2, <1>3, <1>4, <1>5 DEF Calm, IInv, Listed, ToSuspend, ToDelete, TickTyped
  <1> QED
    BY <1>6, <1>7, <1>8, <1>9 DEF Calm

LEMMA JobReadsCalm ==
    ASSUME IInv, Calm, Smooth, Smooth', NEW r \in Rows, JobReads(r)
    PROVE  Calm'
  <1>1. UNCHANGED <<db, fly, seen, stripe, loop, report, modes, tick>>
    BY DEF JobReads
  <1>2. /\ loop.pc = "idle" /\ report = NoReport /\ tick.pc = "idle" /\ modes = {}
        /\ \A q \in Rows : q # r => job[q].pc = "idle"
    BY DEF JobReads, Calm, OneByOne, JobsIdle
  <1>3. db[r] \in RowType /\ db[r] # None
    BY NullAssumption DEF JobReads, IInv, JobTyped, DbTyped
  <1>4. /\ job[r].pc = "read" /\ job'[r] = [pc |-> "mark", copy |-> db[r]]
        /\ \A q \in Rows : q # r => job'[q] = job[q]
    BY DEF JobReads, IInv, JobTyped
  <1>5. \A q \in Rows : /\ Pending(q)' <=> Pending(q)
                        /\ WasPaid(q)' <=> WasPaid(q)
                        /\ Claim(q)' <=> Claim(q)
    BY <1>1 DEF Pending, WasPaid, Claim, HandlerOf
  <1>6. Sold' /\ Claimed' /\ StillPending' /\ Listed'
    BY <1>1 DEF Calm, Sold, HandlerOf, Claimed, Sandbox, Claim, Pending, StillPending, WasPaid,
       Listed, ToSuspend, ToDelete
  <1>7. OneByOne'
    BY <1>1, <1>2, <1>3, <1>4, <1>5 DEF Calm, IInv, OneByOne, JobsIdle
  <1>8. Current'
    BY <1>1, <1>2, <1>3, <1>4, <1>5 DEF Calm, IInv, Current, HandlerOf, ReportTyped, JobTyped,
       LoopTyped
  <1>9. Built'
    BY <1>1, <1>2, <1>3, <1>4, <1>5 DEF Calm, IInv, Built, JobTyped
  <1>10. SandboxUp'
    BY <1>1, <1>2, <1>3, <1>4, <1>5 DEF Calm, IInv, SandboxUp, Sandbox
  <1>11. Starting'
    BY <1>1, <1>2, <1>3, <1>4, <1>5 DEF Calm, IInv, Starting, Sandbox, JobTyped
  <1>12. Unbuilt'
    BY <1>1, <1>2, <1>3, <1>4, <1>5 DEF Calm, IInv, Unbuilt, JobTyped
  <1>13. PaidUp'
    BY <1>1, <1>2, <1>3, <1>4, <1>5 DEF Calm, IInv, PaidUp, Paid, ModesTyped
  <1> QED
    BY <1>6, <1>7, <1>8, <1>9, <1>10, <1>11, <1>12, <1>13 DEF Calm

LEMMA JobMarksCalm ==
    ASSUME IInv, Calm, Smooth, Smooth', NEW r \in Rows, JobMarks(r)
    PROVE  Calm'
  <1>1. UNCHANGED <<fly, seen, stripe, loop, report, modes, tick>>
    BY DEF JobMarks
  <1>2. /\ loop.pc = "idle" /\ report = NoReport /\ tick.pc = "idle" /\ modes = {}
        /\ \A q \in Rows : q # r => job[q].pc = "idle"
    BY DEF JobMarks, Calm, OneByOne, JobsIdle
  <1>3. db[r] \in RowType /\ db[r] # None
    BY NullAssumption DEF JobMarks, IInv, JobTyped, DbTyped
  <1>4. /\ job[r].pc = "mark" /\ job'[r].pc = "build" /\ job'[r].copy = job[r].copy
        /\ \A q \in Rows : q # r => job'[q] = job[q]
    BY DEF JobMarks, IInv, JobTyped
  <1>5. db'[r] = [db[r] EXCEPT !.status = "provisioning"] /\ \A q \in Rows : q # r => db'[q] = db[q]
    BY DEF JobMarks, Store, IInv, DbTyped
  <1>6. \A q \in Rows : q # r => db'[q] = db[q]
    BY <1>5
  <1>7. Sandbox(r) => db[r].status = "provisioning"
    BY <1>4 DEF Calm, Starting
  <1>8. /\ db'[r].tier = db[r].tier /\ db'[r].status = "provisioning" /\ db'[r].sub = db[r].sub
        /\ db'[r].machine = db[r].machine /\ db'[r].deadline = db[r].deadline
    BY <1>3, <1>5 DEF RowType
  <1>9. \A q \in Rows : /\ Pending(q)' <=> Pending(q)
                        /\ WasPaid(q)' <=> WasPaid(q)
                        /\ Claim(q)' <=> Claim(q)
    BY <1>1 DEF Pending, WasPaid, Claim, HandlerOf
  <1>10. OneByOne'
    BY <1>1, <1>2, <1>3, <1>4, <1>6, <1>7, <1>8, <1>9 DEF Calm, IInv, OneByOne, JobsIdle
  <1>11. Current'
    BY <1>1, <1>2, <1>3, <1>4, <1>6, <1>7, <1>8, <1>9 DEF Calm, IInv, Current, HandlerOf,
       ReportTyped, JobTyped, LoopTyped
  <1>12. Sold'
    BY <1>1, <1>2, <1>3, <1>4, <1>6, <1>7, <1>8, <1>9 DEF Calm, IInv, Sold, HandlerOf,
       StripeTyped, SessionsKnown, SessionType
  <1>13. Built'
    BY <1>1, <1>2, <1>3, <1>4, <1>6, <1>7, <1>8, <1>9 DEF Calm, IInv, Built, JobTyped
  <1>14. SandboxUp'
    BY <1>1, <1>2, <1>3, <1>4, <1>6, <1>7, <1>8, <1>9 DEF Calm, IInv, SandboxUp, Sandbox
  <1>15. Claimed'
    BY <1>1, <1>2, <1>3, <1>4, <1>6, <1>7, <1>8, <1>9 DEF Calm, IInv, Claimed, Sandbox
  <1>16. StillPending'
    BY <1>1, <1>2, <1>3, <1>4, <1>6, <1>7, <1>8, <1>9 DEF Calm, IInv, StillPending, Sandbox
  <1>17. Starting'
    BY <1>1, <1>2, <1>3, <1>4, <1>6, <1>7, <1>8, <1>9 DEF Calm, IInv, Starting, Sandbox, JobTyped
  <1>18. Listed'
    BY <1>1, <1>2, <1>3, <1>4, <1>6, <1>7, <1>8, <1>9 DEF Calm, IInv, Listed, ToSuspend,
       ToDelete, TickTyped
  <1>19. Unbuilt'
    BY <1>1, <1>2, <1>3, <1>4, <1>6, <1>7, <1>8, <1>9 DEF Calm, IInv, Unbuilt, JobTyped
  <1>20. PaidUp'
    BY <1>1, <1>2, <1>3, <1>4, <1>6, <1>7, <1>8, <1>9 DEF Calm, IInv, PaidUp, Paid, ModesTyped
  <1> QED
    BY <1>10, <1>11, <1>12, <1>13, <1>14, <1>15, <1>16, <1>17, <1>18, <1>19, <1>20 DEF Calm

LEMMA JobBuildsCalm ==
    ASSUME IInv, Calm, Smooth, Smooth', NEW r \in Rows, JobBuilds(r)
    PROVE  Calm'
  <1>1. UNCHANGED <<db, seen, stripe, loop, report, modes, tick>>
    BY DEF JobBuilds
  <1>2. /\ loop.pc = "idle" /\ report = NoReport /\ tick.pc = "idle" /\ modes = {}
        /\ \A q \in Rows : q # r => job[q].pc = "idle"
    BY DEF JobBuilds, Calm, OneByOne, JobsIdle
  <1>3. db[r] \in RowType /\ db[r] # None
    BY NullAssumption DEF JobBuilds, IInv, JobTyped, DbTyped
  <1>4. /\ job[r].pc = "build" /\ job'[r].pc = "record" /\ job'[r].copy = job[r].copy
        /\ \A q \in Rows : q # r => job'[q] = job[q]
    BY DEF JobBuilds, IInv, JobTyped
  <1>5. /\ fly'[r].machine = IF AwakeAsRead(r) THEN "on" ELSE "sleep"
        /\ \A q \in Rows : q # r => fly'[q] = fly[q]
    BY DEF JobBuilds, IInv, FlyTyped
  <1>6. fly'[r].machine # None /\ (db[r].tier # "sandbox" => fly'[r].machine = "on")
    BY <1>4, <1>5, NullAssumption DEF Calm, Current, AwakeAsRead, Awake, Modes
  <1>7. \A q \in Rows : /\ Pending(q)' <=> Pending(q)
                        /\ WasPaid(q)' <=> WasPaid(q)
                        /\ Claim(q)' <=> Claim(q)
    BY <1>1 DEF Pending, WasPaid, Claim, HandlerOf
  <1>8. Sold' /\ Claimed' /\ StillPending' /\ Listed'
    BY <1>1 DEF Calm, Sold, HandlerOf, Claimed, Sandbox, Claim, Pending, StillPending, WasPaid,
       Listed, ToSuspend, ToDelete
  <1>9. OneByOne'
    BY <1>1, <1>2, <1>3, <1>4, <1>5, <1>6, <1>7 DEF Calm, IInv, OneByOne, JobsIdle
  <1>10. Current'
    BY <1>1, <1>2, <1>3, <1>4, <1>5, <1>6, <1>7 DEF Calm, IInv, Current, HandlerOf, ReportTyped,
       JobTyped, LoopTyped
  <1>11. Built'
    BY <1>1, <1>2, <1>3, <1>4, <1>5, <1>6, <1>7 DEF Calm, IInv, Built, JobTyped
  <1>12. SandboxUp'
    BY <1>1, <1>2, <1>3, <1>4, <1>5, <1>6, <1>7 DEF Calm, IInv, SandboxUp, Sandbox
  <1>13. Starting'
    BY <1>1, <1>2, <1>3, <1>4, <1>5, <1>6, <1>7 DEF Calm, IInv, Starting, Sandbox, JobTyped
  <1>14. Unbuilt'
    BY <1>1, <1>2, <1>3, <1>4, <1>5, <1>6, <1>7 DEF Calm, IInv, Unbuilt, JobTyped
  <1>15. PaidUp'
    BY <1>1, <1>2, <1>3, <1>4, <1>5, <1>6, <1>7 DEF Calm, IInv, PaidUp, Paid, ModesTyped
  <1> QED
    BY <1>8, <1>9, <1>10, <1>11, <1>12, <1>13, <1>14, <1>15 DEF Calm

LEMMA JobRecordsCalm ==
    ASSUME IInv, Calm, Smooth, Smooth', NEW r \in Rows, JobRecords(r)
    PROVE  Calm'
  <1>1. UNCHANGED <<fly, seen, stripe, loop, report, modes, tick>>
    BY DEF JobRecords
  <1>2. /\ loop.pc = "idle" /\ report = NoReport /\ tick.pc = "idle" /\ modes = {}
        /\ \A q \in Rows : q # r => job[q].pc = "idle"
    BY DEF JobRecords, Calm, OneByOne, JobsIdle
  <1>3. db[r] \in RowType /\ db[r] # None
    BY NullAssumption DEF JobRecords, IInv, JobTyped, DbTyped
  <1>4. /\ job[r].pc = "record" /\ job'[r].pc = "health" /\ job'[r].copy = job[r].copy
        /\ \A q \in Rows : q # r => job'[q] = job[q]
    BY DEF JobRecords, IInv, JobTyped
  <1>5. /\ db'[r] = [db[r] EXCEPT !.machine = TRUE, !.volume = TRUE, !.sleep = ~AwakeAsRead(r)]
        /\ \A q \in Rows : q # r => db'[q] = db[q]
    BY DEF JobRecords, Store, IInv, DbTyped
  <1>6. \A q \in Rows : q # r => db'[q] = db[q]
    BY <1>5
  <1>7. /\ db'[r].tier = db[r].tier /\ db'[r].status = db[r].status /\ db'[r].sub = db[r].sub
        /\ db'[r].machine = TRUE /\ db'[r].deadline = db[r].deadline
    BY <1>3, <1>5 DEF RowType
  <1>8. \A q \in Rows : /\ Pending(q)' <=> Pending(q)
                        /\ WasPaid(q)' <=> WasPaid(q)
                        /\ Claim(q)' <=> Claim(q)
    BY <1>1 DEF Pending, WasPaid, Claim, HandlerOf
  <1>9. OneByOne'
    BY <1>1, <1>2, <1>3, <1>4, <1>6, <1>7, <1>8 DEF Calm, IInv, OneByOne, JobsIdle
  <1>10. Current'
    BY <1>1, <1>2, <1>3, <1>4, <1>6, <1>7, <1>8 DEF Calm, IInv, Current, HandlerOf, ReportTyped,
       JobTyped, LoopTyped
  <1>11. Sold'
    BY <1>1, <1>2, <1>3, <1>4, <1>6, <1>7, <1>8 DEF Calm, IInv, Sold, HandlerOf, StripeTyped,
       SessionsKnown, SessionType
  <1>12. Built'
    BY <1>1, <1>2, <1>3, <1>4, <1>6, <1>7, <1>8 DEF Calm, IInv, Built, JobTyped
  <1>13. SandboxUp'
    BY <1>1, <1>2, <1>3, <1>4, <1>6, <1>7, <1>8 DEF Calm, IInv, SandboxUp, Sandbox
  <1>14. Claimed'
    BY <1>1, <1>2, <1>3, <1>4, <1>6, <1>7, <1>8 DEF Calm, IInv, Claimed, Sandbox
  <1>15. StillPending'
    BY <1>1, <1>2, <1>3, <1>4, <1>6, <1>7, <1>8 DEF Calm, IInv, StillPending, Sandbox
  <1>16. Starting'
    BY <1>1, <1>2, <1>3, <1>4, <1>6, <1>7, <1>8 DEF Calm, IInv, Starting, Sandbox, JobTyped
  <1>17. Listed'
    BY <1>1, <1>2, <1>3, <1>4, <1>6, <1>7, <1>8 DEF Calm, IInv, Listed, ToSuspend, ToDelete,
       TickTyped
  <1>18. Unbuilt'
    BY <1>1, <1>2, <1>3, <1>4, <1>6, <1>7, <1>8 DEF Calm, IInv, Unbuilt, JobTyped
  <1>19. PaidUp'
    BY <1>1, <1>2, <1>3, <1>4, <1>6, <1>7, <1>8 DEF Calm, IInv, PaidUp, Paid, ModesTyped
  <1> QED
    BY <1>9, <1>10, <1>11, <1>12, <1>13, <1>14, <1>15, <1>16, <1>17, <1>18, <1>19 DEF Calm

LEMMA JobFinishesCalm ==
    ASSUME IInv, Calm, Smooth, Smooth', NEW r \in Rows, JobFinishes(r)
    PROVE  Calm'
  <1>1. UNCHANGED <<fly, seen, stripe, loop, report, modes, tick>>
    BY DEF JobFinishes
  <1>2. /\ loop.pc = "idle" /\ report = NoReport /\ tick.pc = "idle" /\ modes = {}
        /\ \A q \in Rows : q # r => job[q].pc = "idle"
    BY DEF JobFinishes, Calm, OneByOne, JobsIdle
  <1>3. db[r] \in RowType /\ db[r] # None
    BY NullAssumption DEF JobFinishes, IInv, JobTyped, DbTyped
  <1>4. /\ job[r].pc = "health" /\ job'[r] = IdleJob
        /\ \A q \in Rows : q # r => job'[q] = job[q]
    BY DEF JobFinishes, IInv, JobTyped
  <1>5. db'[r] = [db[r] EXCEPT !.status = "running"] /\ \A q \in Rows : q # r => db'[q] = db[q]
    BY DEF JobFinishes, Store, IInv, DbTyped
  <1>6. \A q \in Rows : q # r => db'[q] = db[q]
    BY <1>5
  <1>7. /\ db'[r].tier = db[r].tier /\ db'[r].status = "running" /\ db'[r].sub = db[r].sub
        /\ db'[r].machine = db[r].machine /\ db'[r].deadline = db[r].deadline
    BY <1>3, <1>5 DEF RowType
  <1>8. fly[r].machine # None /\ db[r].machine /\ (db[r].tier # "sandbox" => fly[r].machine = "on")
    BY <1>4 DEF Calm, Built
  <1>9. Sandbox(r) => db[r].status = "provisioning"
    BY <1>4 DEF Calm, Starting
  <1>10. \A q \in Rows : /\ Pending(q)' <=> Pending(q)
                         /\ WasPaid(q)' <=> WasPaid(q)
                         /\ Claim(q)' <=> Claim(q)
    BY <1>1 DEF Pending, WasPaid, Claim, HandlerOf
  <1>11. OneByOne'
    BY <1>1, <1>2, <1>3, <1>4, <1>6, <1>7, <1>8, <1>9, <1>10 DEF Calm, IInv, OneByOne, JobsIdle,
       IdleJob
  <1>12. Current'
    BY <1>1, <1>2, <1>3, <1>4, <1>6, <1>7, <1>8, <1>9, <1>10 DEF Calm, IInv, Current, HandlerOf,
       ReportTyped, JobTyped, LoopTyped, IdleJob
  <1>13. Sold'
    BY <1>1, <1>2, <1>3, <1>4, <1>6, <1>7, <1>8, <1>9, <1>10 DEF Calm, IInv, Sold, HandlerOf,
       StripeTyped, SessionsKnown, SessionType, IdleJob
  <1>14. Built'
    BY <1>1, <1>2, <1>3, <1>4, <1>6, <1>7, <1>8, <1>9, <1>10 DEF Calm, IInv, Built, JobTyped,
       IdleJob
  <1>15. SandboxUp'
    BY <1>1, <1>2, <1>3, <1>4, <1>6, <1>7, <1>8, <1>9, <1>10 DEF Calm, IInv, SandboxUp, Sandbox,
       IdleJob
  <1>16. Claimed'
    BY <1>1, <1>2, <1>3, <1>4, <1>6, <1>7, <1>8, <1>9, <1>10 DEF Calm, IInv, Claimed, Sandbox,
       IdleJob
  <1>17. StillPending'
    BY <1>1, <1>2, <1>3, <1>4, <1>6, <1>7, <1>8, <1>9, <1>10 DEF Calm, IInv, StillPending,
       Sandbox, IdleJob
  <1>18. Starting'
    BY <1>1, <1>2, <1>3, <1>4, <1>6, <1>7, <1>8, <1>9, <1>10 DEF Calm, IInv, Starting, Sandbox,
       JobTyped, IdleJob
  <1>19. Listed'
    BY <1>1, <1>2, <1>3, <1>4, <1>6, <1>7, <1>8, <1>9, <1>10 DEF Calm, IInv, Listed, ToSuspend,
       ToDelete, TickTyped, IdleJob
  <1>20. Unbuilt'
    BY <1>1, <1>2, <1>3, <1>4, <1>6, <1>7, <1>8, <1>9, <1>10 DEF Calm, IInv, Unbuilt, JobTyped,
       IdleJob
  <1>21. PaidUp'
    BY <1>1, <1>2, <1>3, <1>4, <1>6, <1>7, <1>8, <1>9, <1>10 DEF Calm, IInv, PaidUp, Paid,
       ModesTyped, IdleJob
  <1> QED
    BY <1>11, <1>12, <1>13, <1>14, <1>15, <1>16, <1>17, <1>18, <1>19, <1>20, <1>21 DEF Calm

LEMMA PresenceStoresCalm ==
    ASSUME IInv, Calm, Smooth, Smooth', PresenceStores
    PROVE  Calm'
  <1>1. UNCHANGED <<fly, seen, stripe, job, modes, tick>>
    BY DEF PresenceStores
  <1>2. loop.pc = "idle" /\ report # NoReport
    BY DEF PresenceStores
  <1>3. tick.pc = "idle" /\ modes = {} /\ \A q \in Rows : job[q].pc = "idle"
    BY <1>2 DEF Calm, OneByOne, JobsIdle
  <1>4. PICK r \in Rows : r = report.row /\ db[r] \in RowType /\ db[r] # None
    BY <1>2, NullAssumption DEF IInv, ReportTyped, DbTyped
  <1>5. db' = [db EXCEPT ![r] = PresenceFields(db[r], report.copy.tier, report.events)]
    BY <1>4 DEF PresenceStores, Store
  <1>6. \A q \in Rows : q # r => db'[q] = db[q]
    BY <1>5 DEF IInv, DbTyped
  <1>7. /\ db'[r].tier = db[r].tier
        /\ db'[r].status = db[r].status
        /\ db'[r].sub = db[r].sub
        /\ db'[r].machine = db[r].machine
        /\ db'[r].deadline = db[r].deadline
    BY <1>4, <1>5 DEF IInv, DbTyped, PresenceFields, RowType
  <1>8. \/ /\ loop' = [IdleLoop EXCEPT !.pc = "touch"] /\ report' = report
           /\ report.copy.tier = "sandbox"
        \/ loop' = loop /\ report' = NoReport
    BY DEF PresenceStores, ShouldTouchMachine
  <1>9. db[r].tier = report.copy.tier
    BY <1>2, <1>4 DEF Calm, Current
  <1>10. OneByOne'
    BY <1>1, <1>2, <1>3, <1>4, <1>6, <1>7, <1>8, <1>9 DEF Calm, IInv, OneByOne, JobsIdle, IdleLoop
  <1>11. Current'
    BY <1>1, <1>2, <1>3, <1>4, <1>6, <1>7, <1>8, <1>9 DEF Calm, IInv, Current, HandlerOf,
       ReportTyped, JobTyped, LoopTyped, IdleLoop
  <1>12. Sold'
    BY <1>1, <1>2, <1>3, <1>4, <1>6, <1>7, <1>8, <1>9 DEF Calm, IInv, Sold, HandlerOf,
       StripeTyped, SessionsKnown, SessionType, IdleLoop
  <1>13. Built'
    BY <1>1, <1>2, <1>3, <1>4, <1>6, <1>7, <1>8, <1>9 DEF Calm, IInv, Built, JobTyped, IdleLoop
  <1>14. SandboxUp'
    BY <1>1, <1>2, <1>3, <1>4, <1>6, <1>7, <1>8, <1>9 DEF Calm, IInv, SandboxUp, Sandbox, IdleLoop
  <1>15. Claimed'
    BY <1>1, <1>2, <1>3, <1>4, <1>6, <1>7, <1>8, <1>9 DEF Calm, IInv, Claimed, Sandbox, Claim,
       Pending, HandlerOf, LoopTyped, StripeTyped, IdleLoop
  <1>16. StillPending'
    BY <1>1, <1>2, <1>3, <1>4, <1>6, <1>7, <1>8, <1>9 DEF Calm, IInv, StillPending, Sandbox,
       WasPaid, Pending, HandlerOf, LoopTyped, StripeTyped, IdleLoop
  <1>17. Starting'
    BY <1>1, <1>2, <1>3, <1>4, <1>6, <1>7, <1>8, <1>9 DEF Calm, IInv, Starting, Sandbox,
       JobTyped, IdleLoop
  <1>18. Listed'
    BY <1>1, <1>2, <1>3, <1>4, <1>6, <1>7, <1>8, <1>9 DEF Calm, IInv, Listed, ToSuspend,
       ToDelete, TickTyped, IdleLoop
  <1>19. Unbuilt'
    BY <1>1, <1>2, <1>3, <1>4, <1>6, <1>7, <1>8, <1>9 DEF Calm, IInv, Unbuilt, Pending, WasPaid,
       HandlerOf, LoopTyped, StripeTyped, JobTyped, IdleLoop
  <1>20. PaidUp'
    BY <1>1, <1>2, <1>3, <1>4, <1>6, <1>7, <1>8, <1>9 DEF Calm, IInv, PaidUp, Paid, ModesTyped,
       IdleLoop
  <1> QED
    BY <1>10, <1>11, <1>12, <1>13, <1>14, <1>15, <1>16, <1>17, <1>18, <1>19, <1>20 DEF Calm

LEMMA PresenceTouchesCalm ==
    ASSUME IInv, Calm, Smooth, Smooth', PresenceTouches
    PROVE  Calm'
  <1>1. UNCHANGED <<db, seen, stripe, job, modes, tick>>
    BY DEF PresenceTouches
  <1>2. /\ loop.pc = "touch" /\ loop' = IdleLoop /\ report' = NoReport
        /\ tick.pc = "idle" /\ modes = {} /\ \A q \in Rows : job[q].pc = "idle"
    BY DEF PresenceTouches, Calm, OneByOne, JobsIdle
  <1>3. PICK r \in Rows : r = report.row /\ db[r] # None /\ db[r].tier = "sandbox"
    BY <1>2 DEF Calm, Current, IInv, ReportTyped
  <1>4. /\ \A q \in Rows : q # r => fly'[q] = fly[q]
        /\ fly[r].machine # None => fly'[r].machine # None
    BY <1>3, NullAssumption DEF PresenceTouches, SetMode, IInv, FlyTyped, FlyType, Modes
  <1>5. Starting' /\ Listed'
    BY <1>1 DEF Calm, Starting, Sandbox, Listed, ToSuspend, ToDelete
  <1>6. OneByOne'
    BY <1>1, <1>2, <1>3, <1>4 DEF Calm, IInv, OneByOne, JobsIdle, IdleLoop
  <1>7. Current'
    BY <1>1, <1>2, <1>3, <1>4 DEF Calm, IInv, Current, HandlerOf, ReportTyped, JobTyped,
       LoopTyped, IdleLoop
  <1>8. Sold'
    BY <1>1, <1>2, <1>3, <1>4 DEF Calm, IInv, Sold, HandlerOf, StripeTyped, SessionsKnown,
       SessionType, IdleLoop
  <1>9. Built'
    BY <1>1, <1>2, <1>3, <1>4 DEF Calm, IInv, Built, JobTyped, IdleLoop
  <1>10. SandboxUp'
    BY <1>1, <1>2, <1>3, <1>4 DEF Calm, IInv, SandboxUp, Sandbox, IdleLoop
  <1>11. Claimed'
    BY <1>1, <1>2, <1>3, <1>4 DEF Calm, IInv, Claimed, Sandbox, Claim, Pending, HandlerOf,
       LoopTyped, StripeTyped, IdleLoop
  <1>12. StillPending'
    BY <1>1, <1>2, <1>3, <1>4 DEF Calm, IInv, StillPending, Sandbox, WasPaid, Pending, HandlerOf,
       LoopTyped, StripeTyped, IdleLoop
  <1>13. Unbuilt'
    BY <1>1, <1>2, <1>3, <1>4 DEF Calm, IInv, Unbuilt, Pending, WasPaid, HandlerOf, LoopTyped,
       StripeTyped, JobTyped, IdleLoop
  <1>14. PaidUp'
    BY <1>1, <1>2, <1>3, <1>4 DEF Calm, IInv, PaidUp, Paid, ModesTyped, IdleLoop
  <1> QED
    BY <1>5, <1>6, <1>7, <1>8, <1>9, <1>10, <1>11, <1>12, <1>13, <1>14 DEF Calm

LEMMA ModeJobCalm ==
    ASSUME IInv, Calm, Smooth, Smooth',
           NEW r \in Rows, NEW mode \in Modes, ModeJob(r, mode)
    PROVE  Calm'
  <1>1. UNCHANGED <<db, seen, stripe, loop, report, job, tick>>
    BY DEF ModeJob
  <1>2. <<r, mode>> \in modes /\ modes' = modes \ {<<r, mode>>}
    BY DEF ModeJob
  <1>3. /\ loop.pc = "idle" /\ report = NoReport /\ tick.pc = "idle"
        /\ \A q \in Rows : job[q].pc = "idle"
    BY <1>2 DEF Calm, OneByOne, JobsIdle
  <1>4. ~Fault
    BY DEF Fault, Smooth, ModeJob
  <1>5. /\ \A q \in Rows : q # r => fly'[q] = fly[q]
        /\ fly[r].machine = None => fly' = fly
        /\ fly[r].machine # None => fly'[r].machine = mode /\ mode # None
    BY <1>4, NullAssumption DEF ModeJob, SetMode, IInv, FlyTyped, FlyType
  <1>6. \A q \in Rows : /\ Pending(q)' <=> Pending(q)
                        /\ WasPaid(q)' <=> WasPaid(q)
                        /\ Claim(q)' <=> Claim(q)
    BY <1>1 DEF Pending, WasPaid, Claim, HandlerOf
  <1>7. /\ Current' /\ Sold' /\ Claimed' /\ StillPending' /\ Starting' /\ Listed'
        /\ Unbuilt'
    BY <1>1 DEF Calm, Current, HandlerOf, Sold, Claimed, Sandbox, Claim, Pending, StillPending,
       WasPaid, Starting, Listed, ToSuspend, ToDelete, Unbuilt
  <1>8. OneByOne'
    BY <1>1, <1>2, <1>3, <1>4, <1>5, <1>6 DEF Calm, IInv, OneByOne, JobsIdle
  <1>9. Built'
    BY <1>1, <1>2, <1>3, <1>4, <1>5, <1>6 DEF Calm, IInv, Built, JobTyped
  <1>10. SandboxUp'
    BY <1>1, <1>2, <1>3, <1>4, <1>5, <1>6 DEF Calm, IInv, SandboxUp, Sandbox
  <1>11. PaidUp'
    BY <1>1, <1>2, <1>3, <1>4, <1>5, <1>6 DEF Calm, IInv, PaidUp, Paid, ModesTyped
  <1> QED
    BY <1>7, <1>8, <1>9, <1>10, <1>11 DEF Calm

LEMMA TickStopsCalm ==
    ASSUME IInv, Calm, Smooth, Smooth', NEW r \in Rows, TickStops(r)
    PROVE  Calm'
  <1>1. UNCHANGED <<db, seen, stripe, loop, report, job, modes>>
    BY DEF TickStops
  <1>2. /\ tick.pc = "suspend" /\ loop.pc = "idle" /\ report = NoReport /\ modes = {}
        /\ \A q \in Rows : job[q].pc = "idle"
    BY DEF TickStops, Calm, OneByOne, JobsIdle
  <1>3. r \in tick.todo /\ tick.todo \subseteq Rows
    BY DEF TickStops, IInv, TickTyped
  <1>4. ~Fault
    BY DEF TickStops, Fault, Smooth
  <1>5. tick' = [pc |-> "store", todo |-> tick.todo \ {r}, row |-> r]
    BY <1>4 DEF TickStops, IInv, TickTyped
  <1>6. /\ \A q \in Rows : q # r => fly'[q] = fly[q]
        /\ fly'[r].machine # None
    BY <1>4, NullAssumption DEF TickStops, SetMode, IInv, FlyTyped, FlyType, Modes
  <1>7. db[r].status = "running" /\ db[r].tier = "sandbox"
    BY <1>2, <1>3 DEF Calm, Listed, ToSuspend
  <1>8. \A q \in Rows : /\ Pending(q)' <=> Pending(q)
                        /\ WasPaid(q)' <=> WasPaid(q)
                        /\ Claim(q)' <=> Claim(q)
    BY <1>1 DEF Pending, WasPaid, Claim, HandlerOf
  <1>9. Current' /\ Sold' /\ Claimed' /\ StillPending' /\ Starting' /\ Unbuilt'
    BY <1>1 DEF Calm, Current, HandlerOf, Sold, Claimed, Sandbox, Claim, Pending, StillPending,
       WasPaid, Starting, Unbuilt
  <1>10. OneByOne'
    BY <1>1, <1>2, <1>3, <1>4, <1>5, <1>6, <1>7, <1>8 DEF Calm, IInv, OneByOne, JobsIdle
  <1>11. Built'
    BY <1>1, <1>2, <1>3, <1>4, <1>5, <1>6, <1>7, <1>8 DEF Calm, IInv, Built, JobTyped
  <1>12. SandboxUp'
    BY <1>1, <1>2, <1>3, <1>4, <1>5, <1>6, <1>7, <1>8 DEF Calm, IInv, SandboxUp, Sandbox
  <1>13. Listed'
    BY <1>1, <1>2, <1>3, <1>4, <1>5, <1>6, <1>7, <1>8 DEF Calm, IInv, Listed, ToSuspend,
       ToDelete, TickTyped
  <1>14. PaidUp'
    BY <1>1, <1>2, <1>3, <1>4, <1>5, <1>6, <1>7, <1>8 DEF Calm, IInv, PaidUp, Paid, ModesTyped
  <1> QED
    BY <1>9, <1>10, <1>11, <1>12, <1>13, <1>14 DEF Calm

LEMMA TickSuspendsCalm ==
    ASSUME IInv, Calm, Smooth, Smooth', TickSuspends
    PROVE  Calm'
  <1>1. UNCHANGED <<fly, seen, stripe, loop, report, job, modes>>
    BY DEF TickSuspends
  <1>2. /\ tick.pc = "store" /\ loop.pc = "idle" /\ report = NoReport /\ modes = {}
        /\ \A q \in Rows : job[q].pc = "idle"
    BY DEF TickSuspends, Calm, OneByOne, JobsIdle
  <1>3. PICK r \in Rows : r = tick.row /\ db[r] \in RowType /\ db[r] # None
    BY <1>2, NullAssumption DEF IInv, TickTyped, DbTyped
  <1>4. /\ tick' = [pc |-> "suspend", todo |-> tick.todo, row |-> r]
        /\ r \notin tick.todo /\ tick.todo \subseteq Rows
    BY <1>2, <1>3 DEF TickSuspends, IInv, TickTyped, Calm, Listed
  <1>5. db' = [db EXCEPT ![r] = SuspendFields(db[r])]
    BY <1>3 DEF TickSuspends, Store
  <1>6. \A q \in Rows : q # r => db'[q] = db[q]
    BY <1>5 DEF IInv, DbTyped
  <1>7. /\ db'[r].status = "suspended"
        /\ db'[r].deadline = "ahead"
        /\ db'[r].tier = db[r].tier
        /\ db'[r].sub = db[r].sub
        /\ db'[r].machine = db[r].machine
    BY <1>3, <1>5 DEF IInv, DbTyped, SuspendFields, RowType
  <1>8. db[r].status = "running" /\ db[r].tier = "sandbox"
    BY <1>2, <1>3 DEF Calm, Listed, ToSuspend
  <1>9. \A q \in Rows : /\ Pending(q)' <=> Pending(q)
                        /\ WasPaid(q)' <=> WasPaid(q)
                        /\ Claim(q)' <=> Claim(q)
    BY <1>1 DEF Pending, WasPaid, Claim, HandlerOf
  <1>10. OneByOne'
    BY <1>1, <1>2, <1>3, <1>4, <1>6, <1>7, <1>8, <1>9 DEF Calm, IInv, OneByOne, JobsIdle
  <1>11. Current'
    BY <1>1, <1>2, <1>3, <1>4, <1>6, <1>7, <1>8, <1>9 DEF Calm, IInv, Current, HandlerOf,
       ReportTyped, JobTyped, LoopTyped
  <1>12. Sold'
    BY <1>1, <1>2, <1>3, <1>4, <1>6, <1>7, <1>8, <1>9 DEF Calm, IInv, Sold, HandlerOf,
       StripeTyped, SessionsKnown, SessionType
  <1>13. Built'
    BY <1>1, <1>2, <1>3, <1>4, <1>6, <1>7, <1>8, <1>9 DEF Calm, IInv, Built, JobTyped
  <1>14. SandboxUp'
    BY <1>1, <1>2, <1>3, <1>4, <1>6, <1>7, <1>8, <1>9 DEF Calm, IInv, SandboxUp, Sandbox
  <1>15. Claimed'
    BY <1>1, <1>2, <1>3, <1>4, <1>6, <1>7, <1>8, <1>9 DEF Calm, IInv, Claimed, Sandbox
  <1>16. StillPending'
    BY <1>1, <1>2, <1>3, <1>4, <1>6, <1>7, <1>8, <1>9 DEF Calm, IInv, StillPending, Sandbox
  <1>17. Starting'
    BY <1>1, <1>2, <1>3, <1>4, <1>6, <1>7, <1>8, <1>9 DEF Calm, IInv, Starting, Sandbox, JobTyped
  <1>18. Listed'
    BY <1>1, <1>2, <1>3, <1>4, <1>6, <1>7, <1>8, <1>9 DEF Calm, IInv, Listed, ToSuspend,
       ToDelete, TickTyped
  <1>19. Unbuilt'
    BY <1>1, <1>2, <1>3, <1>4, <1>6, <1>7, <1>8, <1>9 DEF Calm, IInv, Unbuilt, JobTyped
  <1>20. PaidUp'
    BY <1>1, <1>2, <1>3, <1>4, <1>6, <1>7, <1>8, <1>9 DEF Calm, IInv, PaidUp, Paid, ModesTyped
  <1> QED
    BY <1>10, <1>11, <1>12, <1>13, <1>14, <1>15, <1>16, <1>17, <1>18, <1>19, <1>20 DEF Calm

LEMMA TickListsCalm ==
    ASSUME IInv, Calm, Smooth, Smooth', TickLists
    PROVE  Calm'
  <1>1. UNCHANGED <<db, fly, seen, stripe, loop, report, job, modes>>
    BY DEF TickLists
  <1>2. /\ tick.pc = "suspend" /\ loop.pc = "idle" /\ report = NoReport /\ modes = {}
        /\ \A q \in Rows : job[q].pc = "idle"
    BY DEF TickLists, Calm, OneByOne, JobsIdle
  <1>3. tick' = [pc |-> "delete", todo |-> Doomed, row |-> tick.row] /\ Doomed \subseteq Rows
    BY DEF TickLists, IInv, TickTyped, Doomed
  <1>4. \A r \in Doomed :
          db[r].status = "suspended" /\ db[r].deadline = "past" /\ db[r].sub # "active"
    BY DEF Doomed, ShouldDelete
  <1>5. \A q \in Rows : /\ Pending(q)' <=> Pending(q)
                        /\ WasPaid(q)' <=> WasPaid(q)
                        /\ Claim(q)' <=> Claim(q)
    BY <1>1 DEF Pending, WasPaid, Claim, HandlerOf
  <1>6. /\ Current' /\ Sold' /\ Built' /\ Claimed' /\ StillPending' /\ Starting'
        /\ Unbuilt' /\ PaidUp'
    BY <1>1 DEF Calm, Current, HandlerOf, Sold, Built, Claimed, Sandbox, Claim, Pending,
       StillPending, WasPaid, Starting, Unbuilt, PaidUp, Paid
  <1>7. OneByOne'
    BY <1>1, <1>2, <1>3, <1>4, <1>5 DEF Calm, IInv, OneByOne, JobsIdle
  <1>8. SandboxUp'
    BY <1>1, <1>2, <1>3, <1>4, <1>5 DEF Calm, IInv, SandboxUp, Sandbox
  <1>9. Listed'
    BY <1>1, <1>2, <1>3, <1>4, <1>5 DEF Calm, IInv, Listed, ToSuspend, ToDelete, TickTyped
  <1> QED
    BY <1>6, <1>7, <1>8, <1>9 DEF Calm

LEMMA TickDeletesVolumeCalm ==
    ASSUME IInv, Calm, Smooth, Smooth', NEW r \in Rows, TickDeletesVolume(r)
    PROVE  Calm'
  <1>1. UNCHANGED <<db, seen, stripe, loop, report, job, modes>>
    BY DEF TickDeletesVolume
  <1>2. /\ tick.pc = "delete" /\ loop.pc = "idle" /\ report = NoReport /\ modes = {}
        /\ \A q \in Rows : job[q].pc = "idle"
    BY DEF TickDeletesVolume, Calm, OneByOne, JobsIdle
  <1>3. r \in tick.todo /\ tick.todo \subseteq Rows
    BY DEF TickDeletesVolume, IInv, TickTyped
  <1>4. ~Fault
    BY DEF TickDeletesVolume, Fault, Smooth
  <1>5. tick' = [pc |-> "app", todo |-> tick.todo \ {r}, row |-> r]
    BY <1>4 DEF TickDeletesVolume, IInv, TickTyped
  <1>6. \A q \in Rows : fly'[q].machine = fly[q].machine
    BY <1>4 DEF TickDeletesVolume, IInv, FlyTyped, FlyType
  <1>7. \A q \in Rows : /\ Pending(q)' <=> Pending(q)
                        /\ WasPaid(q)' <=> WasPaid(q)
                        /\ Claim(q)' <=> Claim(q)
    BY <1>1 DEF Pending, WasPaid, Claim, HandlerOf
  <1>8. Current' /\ Sold' /\ Claimed' /\ StillPending' /\ Starting' /\ Unbuilt'
    BY <1>1 DEF Calm, Current, HandlerOf, Sold, Claimed, Sandbox, Claim, Pending, StillPending,
       WasPaid, Starting, Unbuilt
  <1>9. OneByOne'
    BY <1>1, <1>2, <1>3, <1>4, <1>5, <1>6, <1>7 DEF Calm, IInv, OneByOne, JobsIdle
  <1>10. Built'
    BY <1>1, <1>2, <1>3, <1>4, <1>5, <1>6, <1>7 DEF Calm, IInv, Built, JobTyped
  <1>11. SandboxUp'
    BY <1>1, <1>2, <1>3, <1>4, <1>5, <1>6, <1>7 DEF Calm, IInv, SandboxUp, Sandbox
  <1>12. Listed'
    BY <1>1, <1>2, <1>3, <1>4, <1>5, <1>6, <1>7 DEF Calm, IInv, Listed, ToSuspend, ToDelete,
       TickTyped
  <1>13. PaidUp'
    BY <1>1, <1>2, <1>3, <1>4, <1>5, <1>6, <1>7 DEF Calm, IInv, PaidUp, Paid, ModesTyped
  <1> QED
    BY <1>8, <1>9, <1>10, <1>11, <1>12, <1>13 DEF Calm

LEMMA TickDeletesAppCalm ==
    ASSUME IInv, Calm, Smooth, Smooth', TickDeletesApp
    PROVE  Calm'
  <1>1. UNCHANGED <<db, seen, stripe, loop, report, job, modes>>
    BY DEF TickDeletesApp
  <1>2. /\ tick.pc = "app" /\ loop.pc = "idle" /\ report = NoReport /\ modes = {}
        /\ \A q \in Rows : job[q].pc = "idle"
    BY DEF TickDeletesApp, Calm, OneByOne, JobsIdle
  <1>3. PICK r \in Rows : r = tick.row /\ db[r] # None
    BY <1>2 DEF IInv, TickTyped
  <1>4. ~Fault
    BY DEF TickDeletesApp, Fault, Smooth
  <1>5. r \notin tick.todo /\ tick.todo \subseteq Rows
    BY <1>2, <1>3 DEF IInv, TickTyped, Calm, Listed
  <1>6. /\ tick'.todo = tick.todo /\ tick'.row = r /\ tick'.pc \in {"deleted", "delete"}
        /\ tick'.pc = "delete" => fly' = fly
        /\ \A q \in Rows : q # r => fly'[q] = fly[q]
    BY <1>3, <1>4 DEF TickDeletesApp, LeftForLater, IInv, TickTyped, FlyTyped
  <1>7. db[r].status = "suspended" /\ db[r].sub # "active"
    BY <1>2, <1>3 DEF Calm, Listed, ToDelete
  <1>8. \A q \in Rows : /\ Pending(q)' <=> Pending(q)
                        /\ WasPaid(q)' <=> WasPaid(q)
                        /\ Claim(q)' <=> Claim(q)
    BY <1>1 DEF Pending, WasPaid, Claim, HandlerOf
  <1>9. Current' /\ Sold' /\ Claimed' /\ StillPending' /\ Starting' /\ Unbuilt'
    BY <1>1 DEF Calm, Current, HandlerOf, Sold, Claimed, Sandbox, Claim, Pending, StillPending,
       WasPaid, Starting, Unbuilt
  <1>10. OneByOne'
    BY <1>1, <1>2, <1>3, <1>4, <1>5, <1>6, <1>7, <1>8 DEF Calm, IInv, OneByOne, JobsIdle
  <1>11. Built'
    BY <1>1, <1>2, <1>3, <1>4, <1>5, <1>6, <1>7, <1>8 DEF Calm, IInv, Built, JobTyped
  <1>12. SandboxUp'
    BY <1>1, <1>2, <1>3, <1>4, <1>5, <1>6, <1>7, <1>8 DEF Calm, IInv, SandboxUp, Sandbox
  <1>13. Listed'
    BY <1>1, <1>2, <1>3, <1>4, <1>5, <1>6, <1>7, <1>8 DEF Calm, IInv, Listed, ToSuspend,
       ToDelete, TickTyped
  <1>14. PaidUp'
    BY <1>1, <1>2, <1>3, <1>4, <1>5, <1>6, <1>7, <1>8 DEF Calm, IInv, PaidUp, Paid, ModesTyped
  <1> QED
    BY <1>9, <1>10, <1>11, <1>12, <1>13, <1>14 DEF Calm

LEMMA TickDeletesCalm ==
    ASSUME IInv, Calm, Smooth, Smooth', TickDeletes
    PROVE  Calm'
  <1>1. UNCHANGED <<fly, seen, stripe, loop, report, job, modes>>
    BY DEF TickDeletes
  <1>2. /\ tick.pc = "deleted" /\ loop.pc = "idle" /\ report = NoReport /\ modes = {}
        /\ \A q \in Rows : job[q].pc = "idle"
    BY DEF TickDeletes, Calm, OneByOne, JobsIdle
  <1>3. PICK r \in Rows : r = tick.row /\ db[r] \in RowType /\ db[r] # None
    BY <1>2, NullAssumption DEF IInv, TickTyped, DbTyped
  <1>4. /\ tick' = [pc |-> "delete", todo |-> tick.todo, row |-> r]
        /\ r \notin tick.todo /\ tick.todo \subseteq Rows
    BY <1>2, <1>3 DEF TickDeletes, IInv, TickTyped, Calm, Listed
  <1>5. db' = [db EXCEPT ![r] = [db[r] EXCEPT !.status = "deleted"]]
    BY <1>3 DEF TickDeletes, Store
  <1>6. \A q \in Rows : q # r => db'[q] = db[q]
    BY <1>5 DEF IInv, DbTyped
  <1>7. /\ db'[r].status = "deleted"
        /\ db'[r].tier = db[r].tier
        /\ db'[r].sub = db[r].sub
        /\ db'[r].machine = db[r].machine
        /\ db'[r].deadline = db[r].deadline
    BY <1>3, <1>5 DEF IInv, DbTyped, RowType
  <1>8. /\ db[r].status = "suspended" /\ db[r].sub # "active" /\ db[r].deadline = "past"
    BY <1>2, <1>3 DEF Calm, Listed, ToDelete
  <1>9. \A q \in Rows : /\ Pending(q)' <=> Pending(q)
                        /\ WasPaid(q)' <=> WasPaid(q)
                        /\ Claim(q)' <=> Claim(q)
    BY <1>1 DEF Pending, WasPaid, Claim, HandlerOf
  <1>10. OneByOne'
    BY <1>1, <1>2, <1>3, <1>4, <1>6, <1>7, <1>8, <1>9 DEF Calm, IInv, OneByOne, JobsIdle
  <1>11. Current'
    BY <1>1, <1>2, <1>3, <1>4, <1>6, <1>7, <1>8, <1>9 DEF Calm, IInv, Current, HandlerOf,
       ReportTyped, JobTyped, LoopTyped
  <1>12. Sold'
    BY <1>1, <1>2, <1>3, <1>4, <1>6, <1>7, <1>8, <1>9 DEF Calm, IInv, Sold, HandlerOf,
       StripeTyped, SessionsKnown, SessionType
  <1>13. Built'
    BY <1>1, <1>2, <1>3, <1>4, <1>6, <1>7, <1>8, <1>9 DEF Calm, IInv, Built, JobTyped
  <1>14. SandboxUp'
    BY <1>1, <1>2, <1>3, <1>4, <1>6, <1>7, <1>8, <1>9 DEF Calm, IInv, SandboxUp, Sandbox
  <1>15. Claimed'
    BY <1>1, <1>2, <1>3, <1>4, <1>6, <1>7, <1>8, <1>9 DEF Calm, IInv, Claimed, Sandbox
  <1>16. StillPending'
    BY <1>1, <1>2, <1>3, <1>4, <1>6, <1>7, <1>8, <1>9 DEF Calm, IInv, StillPending, Sandbox
  <1>17. Starting'
    BY <1>1, <1>2, <1>3, <1>4, <1>6, <1>7, <1>8, <1>9 DEF Calm, IInv, Starting, Sandbox, JobTyped
  <1>18. Listed'
    BY <1>1, <1>2, <1>3, <1>4, <1>6, <1>7, <1>8, <1>9 DEF Calm, IInv, Listed, ToSuspend,
       ToDelete, TickTyped
  <1>19. Unbuilt'
    BY <1>1, <1>2, <1>3, <1>4, <1>6, <1>7, <1>8, <1>9 DEF Calm, IInv, Unbuilt, JobTyped
  <1>20. PaidUp'
    BY <1>1, <1>2, <1>3, <1>4, <1>6, <1>7, <1>8, <1>9 DEF Calm, IInv, PaidUp, Paid, ModesTyped
  <1> QED
    BY <1>10, <1>11, <1>12, <1>13, <1>14, <1>15, <1>16, <1>17, <1>18, <1>19, <1>20 DEF Calm

LEMMA TickEndsCalm ==
    ASSUME IInv, Calm, Smooth, Smooth', TickEnds
    PROVE  Calm'
  <1>1. UNCHANGED <<db, fly, seen, stripe, loop, report, job, modes>>
    BY DEF TickEnds
  <1>2. /\ tick.pc = "delete" /\ loop.pc = "idle" /\ report = NoReport /\ modes = {}
        /\ \A q \in Rows : job[q].pc = "idle"
    BY DEF TickEnds, Calm, OneByOne, JobsIdle
  <1>3. tick' = IdleTick
    BY DEF TickEnds
  <1>4. \A q \in Rows : /\ Pending(q)' <=> Pending(q)
                        /\ WasPaid(q)' <=> WasPaid(q)
                        /\ Claim(q)' <=> Claim(q)
    BY <1>1 DEF Pending, WasPaid, Claim, HandlerOf
  <1>5. /\ Current' /\ Sold' /\ Built' /\ Claimed' /\ StillPending' /\ Starting'
        /\ Unbuilt' /\ PaidUp'
    BY <1>1 DEF Calm, Current, HandlerOf, Sold, Built, Claimed, Sandbox, Claim, Pending,
       StillPending, WasPaid, Starting, Unbuilt, PaidUp, Paid
  <1>6. OneByOne'
    BY <1>1, <1>2, <1>3, <1>4 DEF Calm, IInv, OneByOne, JobsIdle, IdleTick
  <1>7. SandboxUp'
    BY <1>1, <1>2, <1>3, <1>4 DEF Calm, IInv, SandboxUp, Sandbox, IdleTick
  <1>8. Listed'
    BY <1>1, <1>2, <1>3, <1>4 DEF Calm, IInv, Listed, ToSuspend, ToDelete, TickTyped, IdleTick
  <1> QED
    BY <1>5, <1>6, <1>7, <1>8 DEF Calm

LEMMA ExpiresCalm ==
    ASSUME IInv, Calm, Smooth, Smooth', NEW r \in Rows, Expires(r)
    PROVE  Calm'
  <1>1. UNCHANGED <<fly, seen, loop, report, job, modes, tick>>
    BY DEF Expires, DaysPass
  <1>2. /\ loop.pc = "idle" /\ report = NoReport /\ tick.pc = "idle" /\ modes = {}
        /\ \A q \in Rows : job[q].pc = "idle"
    BY DEF Expires, DaysPass, Quiet, JobsIdle
  <1>3. db[r] \in RowType /\ db[r] # None
    BY DEF Expires, IInv, DbTyped
  <1>4. db' = [db EXCEPT ![r] = [db[r] EXCEPT !.expires = "past"]]
    BY DEF Expires, Store
  <1>5. \A q \in Rows : q # r => db'[q] = db[q]
    BY <1>4 DEF IInv, DbTyped
  <1>6. /\ db'[r].tier = db[r].tier
        /\ db'[r].status = db[r].status
        /\ db'[r].sub = db[r].sub
        /\ db'[r].machine = db[r].machine
        /\ db'[r].deadline = db[r].deadline
    BY <1>3, <1>4 DEF IInv, DbTyped, RowType
  <1>7. /\ stripe'.open = stripe.open /\ stripe'.live = {} /\ stripe'.paid = stripe.paid
        /\ stripe'.news = stripe.news /\ stripe.news \subseteq seen
    BY DEF Expires, DaysPass, IInv, StripeTyped
  <1>8. \A q \in Rows : ~Pending(q) /\ ~Pending(q)' /\ ~Claim(q)' /\ (WasPaid(q)' <=> WasPaid(q))
    BY <1>1, <1>2, <1>7 DEF Pending, Claim, WasPaid, HandlerOf
  <1>9. OneByOne'
    BY <1>1 DEF Calm, OneByOne, JobsIdle
  <1>10. Current'
    BY <1>1, <1>2, <1>3, <1>5, <1>6, <1>7, <1>8 DEF Calm, IInv, Current, HandlerOf, ReportTyped,
       JobTyped, LoopTyped
  <1>11. Sold'
    BY <1>1, <1>2, <1>3, <1>5, <1>6, <1>7, <1>8 DEF Calm, IInv, Sold, HandlerOf, StripeTyped,
       SessionsKnown, SessionType
  <1>12. Built'
    BY <1>1, <1>2, <1>3, <1>5, <1>6, <1>7, <1>8 DEF Calm, IInv, Built, JobTyped
  <1>13. SandboxUp'
    BY <1>1, <1>2, <1>3, <1>5, <1>6, <1>7, <1>8 DEF Calm, IInv, SandboxUp, Sandbox
  <1>14. Claimed'
    BY <1>1, <1>2, <1>3, <1>5, <1>6, <1>7, <1>8 DEF Calm, IInv, Claimed, Sandbox, Claim, Pending,
       HandlerOf, LoopTyped, StripeTyped
  <1>15. StillPending'
    BY <1>1, <1>2, <1>3, <1>5, <1>6, <1>7, <1>8 DEF Calm, IInv, StillPending, Sandbox, WasPaid,
       Pending, HandlerOf, LoopTyped, StripeTyped
  <1>16. Starting'
    BY <1>1, <1>2, <1>3, <1>5, <1>6, <1>7, <1>8 DEF Calm, IInv, Starting, Sandbox, JobTyped
  <1>17. Listed'
    BY <1>1, <1>2, <1>3, <1>5, <1>6, <1>7, <1>8 DEF Calm, IInv, Listed, ToSuspend, ToDelete,
       TickTyped
  <1>18. Unbuilt'
    BY <1>1, <1>2, <1>3, <1>5, <1>6, <1>7, <1>8 DEF Calm, IInv, Unbuilt, Pending, WasPaid,
       HandlerOf, LoopTyped, StripeTyped, JobTyped
  <1>19. PaidUp'
    BY <1>1, <1>2, <1>3, <1>5, <1>6, <1>7, <1>8 DEF Calm, IInv, PaidUp, Paid, ModesTyped
  <1> QED
    BY <1>9, <1>10, <1>11, <1>12, <1>13, <1>14, <1>15, <1>16, <1>17, <1>18, <1>19 DEF Calm

LEMMA GraceEndsCalm ==
    ASSUME IInv, Calm, Smooth, Smooth', NEW r \in Rows, GraceEnds(r)
    PROVE  Calm'
  <1>1. UNCHANGED <<fly, seen, loop, report, job, modes, tick>>
    BY DEF GraceEnds, DaysPass
  <1>2. /\ loop.pc = "idle" /\ report = NoReport /\ tick.pc = "idle" /\ modes = {}
        /\ \A q \in Rows : job[q].pc = "idle"
    BY DEF GraceEnds, DaysPass, Quiet, JobsIdle
  <1>3. db[r] \in RowType /\ db[r] # None
    BY DEF GraceEnds, IInv, DbTyped
  <1>4. db' = [db EXCEPT ![r] = [db[r] EXCEPT !.deadline = "past"]]
    BY DEF GraceEnds, Store
  <1>5. \A q \in Rows : q # r => db'[q] = db[q]
    BY <1>4 DEF IInv, DbTyped
  <1>6. /\ db'[r].tier = db[r].tier
        /\ db'[r].status = db[r].status
        /\ db'[r].sub = db[r].sub
        /\ db'[r].machine = db[r].machine
    BY <1>3, <1>4 DEF IInv, DbTyped, RowType
  <1>7. /\ stripe'.open = stripe.open /\ stripe'.live = {} /\ stripe'.paid = stripe.paid
        /\ stripe'.news = stripe.news /\ stripe.news \subseteq seen
    BY DEF GraceEnds, DaysPass, IInv, StripeTyped
  <1>8. \A q \in Rows : ~Pending(q) /\ ~Pending(q)' /\ ~Claim(q)' /\ (WasPaid(q)' <=> WasPaid(q))
    BY <1>1, <1>2, <1>7 DEF Pending, Claim, WasPaid, HandlerOf
  <1>9. OneByOne'
    BY <1>1 DEF Calm, OneByOne, JobsIdle
  <1>10. Current'
    BY <1>1, <1>2, <1>3, <1>5, <1>6, <1>7, <1>8 DEF Calm, IInv, Current, HandlerOf, ReportTyped,
       JobTyped, LoopTyped
  <1>11. Sold'
    BY <1>1, <1>2, <1>3, <1>5, <1>6, <1>7, <1>8 DEF Calm, IInv, Sold, HandlerOf, StripeTyped,
       SessionsKnown, SessionType
  <1>12. Built'
    BY <1>1, <1>2, <1>3, <1>5, <1>6, <1>7, <1>8 DEF Calm, IInv, Built, JobTyped
  <1>13. SandboxUp'
    BY <1>1, <1>2, <1>3, <1>5, <1>6, <1>7, <1>8 DEF Calm, IInv, SandboxUp, Sandbox
  <1>14. Claimed'
    BY <1>1, <1>2, <1>3, <1>5, <1>6, <1>7, <1>8 DEF Calm, IInv, Claimed, Sandbox, Claim, Pending,
       HandlerOf, LoopTyped, StripeTyped
  <1>15. StillPending'
    BY <1>1, <1>2, <1>3, <1>5, <1>6, <1>7, <1>8 DEF Calm, IInv, StillPending, Sandbox, WasPaid,
       Pending, HandlerOf, LoopTyped, StripeTyped
  <1>16. Starting'
    BY <1>1, <1>2, <1>3, <1>5, <1>6, <1>7, <1>8 DEF Calm, IInv, Starting, Sandbox, JobTyped
  <1>17. Listed'
    BY <1>1, <1>2, <1>3, <1>5, <1>6, <1>7, <1>8 DEF Calm, IInv, Listed, ToSuspend, ToDelete,
       TickTyped
  <1>18. Unbuilt'
    BY <1>1, <1>2, <1>3, <1>5, <1>6, <1>7, <1>8 DEF Calm, IInv, Unbuilt, Pending, WasPaid,
       HandlerOf, LoopTyped, StripeTyped, JobTyped
  <1>19. PaidUp'
    BY <1>1, <1>2, <1>3, <1>5, <1>6, <1>7, <1>8 DEF Calm, IInv, PaidUp, Paid, ModesTyped
  <1> QED
    BY <1>9, <1>10, <1>11, <1>12, <1>13, <1>14, <1>15, <1>16, <1>17, <1>18, <1>19 DEF Calm

LEMMA PaysCalm ==
    ASSUME IInv, Calm, Smooth, Smooth', NEW s \in stripe.open, Pays(s)
    PROVE  Calm'
  <1>1. UNCHANGED <<db, fly, seen, loop, report, job, modes, tick>>
    BY DEF Pays
  <1>2. s \in SessionType /\ s \in stripe.live /\ s[1] \in Rows
    BY DEF Pays, IInv, StripeTyped, SessionType
  <1>3. PICK e \in Events : /\ e.kind = "completed" /\ e.row = s[1] /\ e.n = s[2]
                         /\ stripe' = [stripe EXCEPT !.paid = @ \cup {s}, !.live = @ \ {s},
                                              !.news = @ \cup {e}]
    BY <1>2 DEF Pays, SessionType, Events, Kinds
  <1>4. /\ stripe'.open = stripe.open /\ stripe'.live \subseteq stripe.live
        /\ stripe'.paid = stripe.paid \cup {s} /\ stripe'.news = stripe.news \cup {e}
    BY <1>3 DEF IInv, StripeTyped
  <1>5. e \notin seen
    BY <1>2, <1>3 DEF Pays, IInv, StripeTyped, PaidOnce, SessionType, Events
  <1>6. \A q \in Rows : q # s[1] => (Pending(q)' <=> Pending(q)) /\ (WasPaid(q)' <=> WasPaid(q))
    BY <1>1, <1>3, <1>4, <1>5 DEF Pending, WasPaid, HandlerOf
  <1>7. Pending(s[1])' /\ WasPaid(s[1])' /\ ~WasPaid(s[1])
    BY <1>1, <1>2, <1>3, <1>4, <1>5 DEF Pays, Pending, WasPaid
  <1>8. \A q \in Rows : Claim(q)' => Claim(q)
    BY <1>1, <1>2, <1>4, <1>6 DEF Claim, HandlerOf
  <1>9. /\ OneByOne' /\ Current' /\ Built' /\ SandboxUp' /\ Starting' /\ Listed'
        /\ PaidUp'
    BY <1>1 DEF Calm, OneByOne, JobsIdle, Current, HandlerOf, Built, SandboxUp, Sandbox,
       Starting, Listed, ToSuspend, ToDelete, PaidUp, Paid
  <1>10. Sold'
    BY <1>1, <1>2, <1>3, <1>4, <1>5, <1>6, <1>7, <1>8 DEF Calm, IInv, Sold, HandlerOf,
       StripeTyped, SessionsKnown, SessionType
  <1>11. Claimed'
    BY <1>1, <1>8 DEF Calm, Claimed, Sandbox
  <1>12. StillPending'
    BY <1>1, <1>6, <1>7 DEF Calm, StillPending, Sandbox
  <1>13. Unbuilt'
    BY <1>1, <1>6, <1>7 DEF Calm, Unbuilt
  <1> QED
    BY <1>9, <1>10, <1>11, <1>12, <1>13 DEF Calm

LEMMA SubscriptionEndsCalm ==
    ASSUME IInv, Calm, Smooth, Smooth', NEW s \in stripe.open, SubscriptionEnds(s)
    PROVE  Calm'
  <1>1. UNCHANGED <<db, fly, seen, loop, report, job, modes, tick>>
    BY DEF SubscriptionEnds
  <1>2. /\ stripe'.open = stripe.open /\ stripe'.live = stripe.live /\ stripe'.paid = stripe.paid
        /\ \A e : e.kind = "completed" => (e \in stripe'.news <=> e \in stripe.news)
    BY DEF SubscriptionEnds, IInv, StripeTyped
  <1>3. \A q \in Rows : /\ Pending(q)' <=> Pending(q)
                        /\ WasPaid(q)' <=> WasPaid(q)
                        /\ Claim(q)' <=> Claim(q)
    BY <1>1, <1>2 DEF Pending, WasPaid, Claim, HandlerOf
  <1>4. /\ OneByOne' /\ Current' /\ Built' /\ SandboxUp' /\ Starting' /\ Listed'
        /\ PaidUp'
    BY <1>1 DEF Calm, OneByOne, JobsIdle, Current, HandlerOf, Built, SandboxUp, Sandbox,
       Starting, Listed, ToSuspend, ToDelete, PaidUp, Paid
  <1>5. Sold'
    BY <1>1, <1>2, <1>3 DEF Calm, IInv, Sold, HandlerOf, StripeTyped, SessionsKnown, SessionType
  <1>6. Claimed'
    BY <1>1, <1>2, <1>3 DEF Calm, IInv, Claimed, Sandbox
  <1>7. StillPending'
    BY <1>1, <1>2, <1>3 DEF Calm, IInv, StillPending, Sandbox
  <1>8. Unbuilt'
    BY <1>1, <1>2, <1>3 DEF Calm, IInv, Unbuilt, JobTyped
  <1> QED
    BY <1>4, <1>5, <1>6, <1>7, <1>8 DEF Calm

LEMMA CanceledCalm ==
    ASSUME IInv, Calm, Smooth, Smooth', Canceled
    PROVE  Calm'
  <1>1. UNCHANGED <<fly, seen, stripe, report, job, tick>>
    BY DEF Canceled
  <1>2. /\ loop.pc = "deleted" /\ loop' = IdleLoop /\ loop.copy = db[loop.row]
        /\ loop.event.kind = "deleted"
    BY DEF Canceled, Calm, Current, HandlerOf, IInv, LoopTyped
  <1>3. report = NoReport /\ tick.pc = "idle" /\ modes = {} /\ \A q \in Rows : job[q].pc = "idle"
    BY <1>2 DEF Calm, OneByOne, JobsIdle
  <1>4. PICK r \in Rows : r = loop.row /\ db[r] \in RowType /\ db[r] # None
    BY <1>2, NullAssumption DEF IInv, LoopTyped, HandlerOf, DbTyped
  <1>5. db' = [db EXCEPT ![r] = CancelFields(db[r])]
    BY <1>4 DEF Canceled, Store
  <1>6. \A q \in Rows : q # r => db'[q] = db[q]
    BY <1>5 DEF IInv, DbTyped
  <1>7. /\ db'[r].status = "suspended"
        /\ db'[r].sub = "canceled"
        /\ db'[r].deadline = "ahead"
        /\ db'[r].tier = db[r].tier
        /\ db'[r].machine = db[r].machine
    BY <1>4, <1>5 DEF IInv, DbTyped, CancelFields, RowType
  <1>8. modes' = {<<r, "suspended">>} \/ modes' = {}
    BY <1>3, <1>4 DEF Canceled, StopsAs
  <1>9. WasPaid(r)
    <2>1. loop.event \in stripe.news /\ loop.event.row = r
      BY <1>2, <1>4 DEF IInv, LoopTyped, HandlerOf, StripeTyped
    <2>2. <<r, loop.event.n>> \in stripe.paid
      BY <2>1 DEF IInv, PaidOnce
    <2> QED BY <2>2 DEF WasPaid
  <1>10. Sandbox(r) => db[r].status # "deleted"
    BY <1>4, <1>9 DEF Calm, StillPending, Claimed, Claim
  <1>11. \A q \in Rows : /\ Pending(q)' <=> Pending(q)
                         /\ WasPaid(q)' <=> WasPaid(q)
                         /\ Claim(q)' <=> Claim(q)
    BY <1>1, <1>2 DEF Pending, WasPaid, Claim, HandlerOf, IdleLoop
  <1>12. OneByOne'
    BY <1>1, <1>2, <1>3, <1>4, <1>6, <1>7, <1>8, <1>9, <1>10, <1>11 DEF Calm, IInv, OneByOne,
       JobsIdle, IdleLoop
  <1>13. Current'
    BY <1>1, <1>2, <1>3, <1>4, <1>6, <1>7, <1>8, <1>9, <1>10, <1>11 DEF Calm, IInv, Current,
       HandlerOf, ReportTyped, JobTyped, LoopTyped, IdleLoop
  <1>14. Sold'
    BY <1>1, <1>2, <1>3, <1>4, <1>6, <1>7, <1>8, <1>9, <1>10, <1>11 DEF Calm, IInv, Sold,
       HandlerOf, StripeTyped, SessionsKnown, SessionType, IdleLoop
  <1>15. Built'
    BY <1>1, <1>2, <1>3, <1>4, <1>6, <1>7, <1>8, <1>9, <1>10, <1>11 DEF Calm, IInv, Built,
       JobTyped, IdleLoop
  <1>16. SandboxUp'
    BY <1>1, <1>2, <1>3, <1>4, <1>6, <1>7, <1>8, <1>9, <1>10, <1>11 DEF Calm, IInv, SandboxUp,
       Sandbox, IdleLoop
  <1>17. Claimed'
    BY <1>1, <1>2, <1>3, <1>4, <1>6, <1>7, <1>8, <1>9, <1>10, <1>11 DEF Calm, IInv, Claimed,
       Sandbox, IdleLoop
  <1>18. StillPending'
    BY <1>1, <1>2, <1>3, <1>4, <1>6, <1>7, <1>8, <1>9, <1>10, <1>11 DEF Calm, IInv, StillPending,
       Sandbox, IdleLoop
  <1>19. Starting'
    BY <1>1, <1>2, <1>3, <1>4, <1>6, <1>7, <1>8, <1>9, <1>10, <1>11 DEF Calm, IInv, Starting,
       Sandbox, JobTyped, IdleLoop
  <1>20. Listed'
    BY <1>1, <1>2, <1>3, <1>4, <1>6, <1>7, <1>8, <1>9, <1>10, <1>11 DEF Calm, IInv, Listed,
       ToSuspend, ToDelete, TickTyped, IdleLoop
  <1>21. Unbuilt'
    BY <1>1, <1>2, <1>3, <1>4, <1>6, <1>7, <1>8, <1>9, <1>10, <1>11 DEF Calm, IInv, Unbuilt,
       JobTyped, IdleLoop
  <1>22. PaidUp'
    <2> SUFFICES ASSUME NEW q \in Rows, Paid(q)'
                 PROVE  /\ db'[q].tier = "basic"
                        /\ db'[q].status = "running" /\ fly'[q].machine # None
                        /\ fly'[q].machine = "on" /\ \A mode : <<q, mode>> \notin modes'
      BY DEF PaidUp
    <2>1. q # r
      BY <1>7 DEF Paid
    <2>2. Paid(q) /\ db'[q] = db[q] /\ fly'[q] = fly[q]
      BY <1>1, <1>6, <2>1 DEF Paid
    <2>3. /\ db[q].tier = "basic" /\ db[q].status = "running"
          /\ fly[q].machine # None /\ fly[q].machine = "on"
      BY <1>3, <2>2 DEF Calm, PaidUp
    <2> QED BY <1>8, <2>1, <2>2, <2>3
  <1> QED
    BY <1>12, <1>13, <1>14, <1>15, <1>16, <1>17, <1>18, <1>19, <1>20, <1>21, <1>22 DEF Calm

LEMMA CompletedCalm ==
    ASSUME IInv, Calm, Smooth, Smooth', Completed
    PROVE  Calm'
  <1>1. UNCHANGED <<fly, seen, stripe, report, tick>>
    BY DEF Completed
  <1>2. /\ loop.pc = "completed" /\ loop' = IdleLoop /\ loop.copy = db[loop.row]
        /\ loop.event.kind = "completed"
    BY DEF Completed, Calm, Current, HandlerOf, IInv, LoopTyped
  <1>3. report = NoReport /\ tick.pc = "idle" /\ modes = {} /\ \A q \in Rows : job[q].pc = "idle"
    BY <1>2 DEF Calm, OneByOne, JobsIdle
  <1>4. PICK r \in Rows : r = loop.row /\ db[r] \in RowType /\ db[r] # None
    BY <1>2, NullAssumption DEF IInv, LoopTyped, HandlerOf, DbTyped
  <1>5. Pending(r)
    BY <1>2, <1>4 DEF Pending, HandlerOf
  <1>6. /\ loop.event \in seen /\ loop.event \in stripe.news /\ loop.event \in Events
        /\ loop.event.row = r /\ stripe.news \subseteq Events
    BY <1>2, <1>4 DEF IInv, LoopTyped, HandlerOf, StripeTyped
  <1>7. WasPaid(r) /\ db[r].tier # "vip"
    BY <1>6 DEF IInv, StripeTyped, PaidOnce, WasPaid, Calm, Sold
  <1>8. ~Pending(r)'
    <2> SUFFICES ASSUME NEW e \in stripe.news \ seen, e.kind = "completed", e.row = r PROVE FALSE
      BY <1>1, <1>2 DEF Pending, HandlerOf, IdleLoop
    <2>1. <<e.row, e.n>> = <<loop.event.row, loop.event.n>>
      BY <1>6 DEF IInv, PaidOnce
    <2>2. e = loop.event
      BY <1>2, <1>6, <2>1 DEF Events
    <2> QED BY <1>6, <2>2
  <1>9. /\ \A q \in Rows : WasPaid(q)' <=> WasPaid(q)
        /\ \A q \in Rows : q # r => (Pending(q)' <=> Pending(q)) /\ (Claim(q)' <=> Claim(q))
    BY <1>1, <1>2, <1>4 DEF Pending, WasPaid, Claim, HandlerOf, IdleLoop
  <1>10. /\ db' = [db EXCEPT ![r] = PaidFields(db[r], db[r].tier)]
    BY <1>2, <1>4 DEF Completed, Store
  <1>11. \A q \in Rows : q # r => db'[q] = db[q]
    BY <1>10 DEF IInv, DbTyped
  <1>12. db'[r] = PaidFields(db[r], db[r].tier)
    BY <1>10 DEF IInv, DbTyped
  <1>13. /\ db'[r].tier = "basic" /\ db'[r].machine = db[r].machine
         /\ db[r].tier = "sandbox" => db'[r].status = "running"
    BY <1>4, <1>7, <1>12 DEF PaidFields, UpgradeFields, RowType, Tiers
  <1>14. db[r].tier = "sandbox" => db[r].machine /\ fly[r].machine # None
    BY <1>3, <1>4, <1>5 DEF Calm, SandboxUp, Claimed, Claim, Sandbox
  <1>15. db[r].tier # "sandbox" => db[r].machine = FALSE /\ db[r].tier = "basic"
    BY <1>4, <1>5, <1>7 DEF Calm, Unbuilt, RowType, Tiers
  <1>16. db[r].tier = "sandbox" => modes' = {<<r, "on">>} /\ job' = job
    BY <1>2, <1>3, <1>4, <1>13, <1>14 DEF Completed, ResumesAs, PaidFields, UpgradeFields, RowType
  <1>17. db[r].tier # "sandbox" => /\ modes' = {} /\ job'[r].pc = "read"
                                    /\ \A q \in Rows : q # r => job'[q] = job[q]
    BY <1>2, <1>3, <1>4, <1>15 DEF Completed, IInv, JobTyped
  <1>18. OneByOne'
    BY <1>1, <1>2, <1>3, <1>4, <1>5, <1>6, <1>7, <1>8, <1>9, <1>11, <1>13, <1>14, <1>15, <1>16,
       <1>17 DEF Calm, IInv, OneByOne, JobsIdle, IdleLoop
  <1>19. Current'
    BY <1>1, <1>2, <1>3, <1>4, <1>5, <1>6, <1>7, <1>8, <1>9, <1>11, <1>13, <1>14, <1>15, <1>16,
       <1>17 DEF Calm, IInv, Current, HandlerOf, ReportTyped, JobTyped, LoopTyped, IdleLoop
  <1>20. Sold'
    BY <1>1, <1>2, <1>3, <1>4, <1>5, <1>6, <1>7, <1>8, <1>9, <1>11, <1>13, <1>14, <1>15, <1>16,
       <1>17 DEF Calm, IInv, Sold, HandlerOf, StripeTyped, SessionsKnown, SessionType, IdleLoop
  <1>21. Built'
    BY <1>1, <1>2, <1>3, <1>4, <1>5, <1>6, <1>7, <1>8, <1>9, <1>11, <1>13, <1>14, <1>15, <1>16,
       <1>17 DEF Calm, IInv, Built, JobTyped, IdleLoop
  <1>22. SandboxUp'
    BY <1>1, <1>2, <1>3, <1>4, <1>5, <1>6, <1>7, <1>8, <1>9, <1>11, <1>13, <1>14, <1>15, <1>16,
       <1>17 DEF Calm, IInv, SandboxUp, Sandbox, IdleLoop
  <1>23. Claimed'
    BY <1>1, <1>9, <1>11, <1>13 DEF Calm, Claimed, Sandbox
  <1>24. StillPending'
    BY <1>1, <1>9, <1>11, <1>13 DEF Calm, StillPending, Sandbox
  <1>25. Starting'
    BY <1>1, <1>2, <1>3, <1>4, <1>5, <1>6, <1>7, <1>8, <1>9, <1>11, <1>13, <1>14, <1>15, <1>16,
       <1>17 DEF Calm, IInv, Starting, Sandbox, JobTyped, IdleLoop
  <1>26. Listed'
    BY <1>1, <1>2, <1>3, <1>4, <1>5, <1>6, <1>7, <1>8, <1>9, <1>11, <1>13, <1>14, <1>15, <1>16,
       <1>17 DEF Calm, IInv, Listed, ToSuspend, ToDelete, TickTyped, IdleLoop
  <1>27. Unbuilt'
    BY <1>1, <1>3, <1>7, <1>8, <1>9, <1>11, <1>16, <1>17 DEF Calm, Unbuilt
  <1>28. PaidUp'
    BY <1>1, <1>2, <1>3, <1>4, <1>5, <1>6, <1>7, <1>8, <1>9, <1>11, <1>13, <1>14, <1>15, <1>16,
       <1>17 DEF Calm, IInv, PaidUp, Paid, ModesTyped, IdleLoop
  <1> QED
    BY <1>18, <1>19, <1>20, <1>21, <1>22, <1>23, <1>24, <1>25, <1>26, <1>27, <1>28 DEF Calm

-----------------------------------------------------------------------------

LEMMA CalmStarts == Init => SInv
  <1> SUFFICES ASSUME Init PROVE SInv
    OBVIOUS
  <1>1. OneByOne /\ Current /\ Listed /\ Starting
    BY DEF Init, OneByOne, JobsIdle, Current, HandlerOf, Listed, ToSuspend, ToDelete, Starting,
       Sandbox, IdleLoop, NoReport, IdleJob, IdleTick
  <1>2. Sold /\ Built /\ SandboxUp /\ Claimed /\ StillPending /\ Unbuilt /\ PaidUp
    BY DEF Init, Sold, HandlerOf, Built, SandboxUp, Claimed, StillPending, Unbuilt, PaidUp, Paid,
       Sandbox, IdleLoop, IdleJob
  <1>3. faults \in Nat
    BY DEF Init
  <1> QED BY <1>1, <1>2, <1>3 DEF SInv, Calm

\* What is smooth was so before, and nothing fails.
LEMMA SmoothBefore ==
    ASSUME faults \in Nat, [Next]_vars
    PROVE  faults' \in Nat /\ (Smooth' => Smooth /\ ~Fault)
  <1> DEFINE Still == faults' = faults \/ Fault
             Apart == apart' = apart \/ Begin
  <1>1. ASSUME HandlerStep PROVE Still /\ Apart
    BY <1>1 DEF HandlerStep, UpgradePends, CheckoutOpens, CheckoutFails, WebhookReads, Completed,
       Canceled, PresenceStores, PresenceTouches
  <1>2. ASSUME TickStep PROVE Still /\ Apart
    BY <1>2 DEF TickStep, TickBegins, TickSuspends, TickLists, TickDeletesApp, TickDeletes,
       TickEnds, TickStops, TickDeletesVolume
  <1>3. ASSUME NEW r \in Rows, Request(r) PROVE Still /\ Apart
    BY <1>3 DEF Request, CreateHosted, CreateBasic, Upgrade, Presence
  <1>4. ASSUME NEW r \in Rows, JobStep(r) PROVE Still /\ Apart
    BY <1>4 DEF JobStep, JobReads, JobMarks, JobBuilds, JobRecords, JobFinishes, JobFails, ModeJob
  <1>5. ASSUME NEW s, Customer(s) PROVE Still /\ Apart
    BY <1>5 DEF Customer, Pays, SubscriptionEnds
  <1>6. ASSUME NEW e, Webhook(e) PROVE Still /\ Apart
    BY <1>6 DEF Webhook
  <1>7. ASSUME NEW r, Expires(r) \/ GraceEnds(r) PROVE Still /\ Apart
    BY <1>7 DEF Expires, GraceEnds, DaysPass
  <1>8. ASSUME Crash \/ UNCHANGED vars PROVE Still /\ Apart
    BY <1>8 DEF Crash, vars
  <1>9. Still /\ Apart
    BY <1>1, <1>2, <1>3, <1>4, <1>5, <1>6, <1>7, <1>8 DEF Next
  <1>10. faults' \in Nat /\ (faults' = 0 => faults = 0 /\ ~Fault)
    BY <1>9 DEF Fault
  <1>11. apart' => apart
    BY <1>9 DEF Begin
  <1> QED BY <1>10, <1>11 DEF Smooth

LEMMA StepCalm ==
    ASSUME "deleted" \notin UpgradeFrom
    PROVE  IInv /\ SInv /\ [Next]_vars => SInv'
  <1> SUFFICES ASSUME IInv, SInv, [Next]_vars PROVE SInv'
    OBVIOUS
  <1>1. faults' \in Nat /\ (Smooth' => Smooth /\ ~Fault)
    BY SmoothBefore DEF SInv
  <1> SUFFICES ASSUME Smooth' PROVE Calm'
    BY <1>1 DEF SInv
  <1>2. Smooth /\ Calm /\ ~Fault
    BY <1>1 DEF SInv
  <1>3. ASSUME HandlerStep PROVE Calm'
    <2>1. ~CheckoutFails
      BY <1>2 DEF CheckoutFails
    <2> QED BY <1>2, <1>3, <2>1, UpgradePendsCalm, CheckoutOpensCalm, WebhookReadsCalm,
         CompletedCalm, CanceledCalm, PresenceStoresCalm, PresenceTouchesCalm DEF HandlerStep
  <1>4. ASSUME TickStep PROVE Calm'
    BY <1>2, <1>4, TickBeginsCalm, TickSuspendsCalm, TickListsCalm, TickDeletesAppCalm,
       TickDeletesCalm, TickEndsCalm, TickStopsCalm, TickDeletesVolumeCalm DEF TickStep
  <1>5. ASSUME NEW r \in Rows, Request(r) PROVE Calm'
    BY <1>2, <1>5, CreateHostedCalm, CreateBasicCalm, UpgradeCalm, PresenceCalm DEF Request
  <1>6. ASSUME NEW r \in Rows, JobStep(r) PROVE Calm'
    <2>1. ~JobFails(r)
      BY <1>2 DEF JobFails
    <2> QED BY <1>2, <1>6, <2>1, JobReadsCalm, JobMarksCalm, JobBuildsCalm, JobRecordsCalm,
         JobFinishesCalm, ModeJobCalm DEF JobStep
  <1>7. ASSUME NEW s \in stripe.open, Customer(s) PROVE Calm'
    BY <1>2, <1>7, PaysCalm, SubscriptionEndsCalm DEF Customer
  <1>8. ~Crash
    BY <1>2 DEF Crash
  <1>9. CASE UNCHANGED vars
    BY <1>2, <1>9 DEF vars, Calm, OneByOne, JobsIdle, Current, HandlerOf, Sold, Built, SandboxUp,
       Sandbox, Claimed, Claim, StillPending, Starting, Listed, ToSuspend, ToDelete, Unbuilt,
       PaidUp, Paid, Pending, WasPaid
  <1> QED
    BY <1>2, <1>3, <1>4, <1>5, <1>6, <1>7, <1>8, <1>9, ExpiresCalm, GraceEndsCalm, WebhookCalm
       DEF Next

\* When nothing failed, handlers, jobs and ticks came one after another and nothing is
\* under way, each row that is paid for runs and its machine is on, whatever was sold,
\* resumed, suspended or deleted before (control_plane/app.py, jobs.py, scheduler.py).
\* A deleted sandbox must not be upgraded: its payment finds no machine to resume.
THEOREM FleetPaidIsOn ==
    ASSUME "deleted" \notin UpgradeFrom
    PROVE  Spec => []PaidIsOn
  <1>1. Spec => []SInv
    <2>1. IInv /\ SInv /\ [Next]_vars => SInv'
      BY StepCalm
    <2> QED BY FleetInvariant, CalmStarts, <2>1, PTL DEF Spec
  <1>2. SInv => PaidIsOn
    <2> SUFFICES ASSUME SInv, Smooth, Quiet, NEW r \in Rows, Paid(r)
                 PROVE  db[r].status = "running" /\ fly[r].machine = "on"
      BY DEF PaidIsOn
    <2> QED BY DEF SInv, Calm, PaidUp, Quiet, JobsIdle
  <1> QED BY <1>1, <1>2, PTL

=============================================================================
