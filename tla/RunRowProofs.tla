---------------------------- MODULE RunRowProofs ----------------------------
(***************************************************************************)
(* Theorems about RunRow for any number of rows, threads, steps, requests  *)
(* and crashes.                                                            *)
(*                                                                         *)
(* Without a hypothesis: the types; that no step of a chain is ever        *)
(* skipped; and that a row reported over has a result to report.           *)
(* NoStepSkipped speaks of the rows only.  What makes it inductive is that *)
(* the same holds of everything a row can be written from: the position a  *)
(* thread holds, the progress it listed before its loop began, and the     *)
(* outcome it is about to store.                                           *)
(*                                                                         *)
(* Under the hypothesis that no two threads work on one row at once        *)
(* (Apart), or that a purge has the process for itself (PurgesAlone): Stop *)
(* is final, a waiting row says what it waits for, no step runs twice for  *)
(* one start, and what is purged is superseded.  No lock in the code       *)
(* enforces either; README, section 5, shows what happens otherwise.       *)
(***************************************************************************)
EXTENDS RunRow, SequenceTheorems, FiniteSetTheorems, WellFoundedInduction, TLAPS

\* In the run counts n, the steps of row r before step k have all run.
RanBefore(n, r, k) == \A j \in Chain : j < k => n[r][j] > 0

\* Where a thread with locals l can be.
Located(l) ==
    /\ l.pc \notin {"idle", "next"} => l.row \in Rows
    /\ l.pc = "next" => l.at = 1 /\ l.outcome = "none"
    /\ l.pc \in {"step", "exec"} => l.at \in Chain
    /\ l.op = "fire" => \A r \in l.todo : l.copy[r] \in Progress
    /\ l.pc = "release" => l.copy[l.row] \in Progress

\* What a thread with locals l may write says nothing of a step that never ran.
Backed(n, l) ==
    /\ l.row \in Rows => RanBefore(n, l.row, l.at)
    /\ l.row \in Rows /\ l.outcome = "done" => RanBefore(n, l.row, Last + 1)
    /\ \A r \in Rows : l.copy[r] # None => RanBefore(n, r, l.copy[r].at)

\* What a row holds says nothing of a step that never ran.
RowBacked(n, r, row) ==
    /\ row.progress # None => RanBefore(n, r, row.progress.at)
    /\ row.result = "done" => RanBefore(n, r, Last + 1)

IInv ==
    /\ TypeOK
    /\ \A t \in Threads : Located(th[t]) /\ Backed(ran, th[t])
    /\ \A r \in Rows : RowBacked(ran, r, db[r])

-----------------------------------------------------------------------------
(* Lemmas: the initial state, and the two shapes a step has                *)

LEMMA IdleLocal == Idle \in Local /\ Located(Idle) /\ Backed(ran, Idle)
  BY ChainAssumption
  DEF Idle, Local, Progress, PCs, Statuses, Results, Located, Backed, RanBefore, Chain

\* Init establishes the invariant.
LEMMA InitInv == Init => IInv
  <1> SUFFICES ASSUME Init PROVE IInv
    OBVIOUS
  <1>1. TypeOK
    BY IdleLocal, ChainAssumption, BoundsAssumption
    DEF Init, TypeOK, RowType, Statuses, Results
  <1>2. \A t \in Threads : Located(th[t]) /\ Backed(ran, th[t])
    BY IdleLocal DEF Init
  <1>3. \A r \in Rows : RowBacked(ran, r, db[r])
    BY DEF Init, RowBacked
  <1> QED BY <1>1, <1>2, <1>3 DEF IInv

\* A step that changes one thread's locals, and at most counts a request or a fault.
LEMMA ThreadChanges ==
    ASSUME IInv, NEW t \in Threads, NEW l \in Local, Located(l), Backed(ran, l),
           th' = [th EXCEPT ![t] = l],
           calls' \in 0..MaxCalls, faults' \in 0..MaxFaults,
           UNCHANGED <<db, history>>
    PROVE  IInv'
  <1>1. TypeOK'
    BY DEF IInv, TypeOK, history
  <1>2. \A u \in Threads : (Located(th[u]) /\ Backed(ran, th[u]))'
    BY DEF IInv, TypeOK, Located, Backed, RanBefore, history
  <1>3. \A r \in Rows : RowBacked(ran, r, db[r])'
    BY DEF IInv, RowBacked, RanBefore, history
  <1> QED BY <1>1, <1>2, <1>3 DEF IInv

\* A step that also writes one row.
LEMMA RowChanges ==
    ASSUME IInv, NEW t \in Threads, NEW l \in Local, Located(l), Backed(ran, l),
           th' = [th EXCEPT ![t] = l],
           NEW r \in Rows, NEW new \in RowType, RowBacked(ran, r, new), Put(r, new),
           calls' \in 0..MaxCalls, faults' \in 0..MaxFaults,
           starts' \in Seq(Rows), stopped' \subseteq Rows, UNCHANGED <<ran, late>>
    PROVE  IInv'
  <1>1. TypeOK'
    BY DEF IInv, TypeOK, Put
  <1>2. \A u \in Threads : (Located(th[u]) /\ Backed(ran, th[u]))'
    BY DEF IInv, TypeOK, Located, Backed, RanBefore
  <1>3. \A q \in Rows : RowBacked(ran, q, db[q])'
    BY DEF IInv, TypeOK, RowBacked, RanBefore, Put
  <1> QED BY <1>1, <1>2, <1>3 DEF IInv

\* What returning from a call leaves a thread with.
LEMMA ReturnedLocal ==
    ASSUME IInv, NEW t \in Threads
    PROVE  Returned(t) \in Local /\ Located(Returned(t)) /\ Backed(ran, Returned(t))
  <1>1. Returned(t) \in Local
    <2>1. th[t] \in Local
      BY DEF IInv, TypeOK
    <2>2. th[t].op \in {"run", "stop", "wake", "fire"} /\ th[t].todo \in SUBSET Rows
          /\ th[t].copy \in [Rows -> Progress \cup {None}]
      BY <2>1 DEF Local
    <2>3. \A op \in {"run", "stop", "wake", "fire"}, todo \in SUBSET Rows,
             copy \in [Rows -> Progress \cup {None}] :
             [Idle EXCEPT !.pc = "next", !.op = op, !.todo = todo, !.copy = copy] \in Local
      BY IdleLocal DEF Local, PCs
    <2> QED BY <2>2, <2>3, IdleLocal DEF Returned
  <1>2. Located(Returned(t))
    BY IdleLocal DEF Returned, Idle, IInv, TypeOK, Local, Located
  <1>3. Backed(ran, Returned(t))
    BY IdleLocal, NullAssumption DEF Returned, Idle, IInv, TypeOK, Local, Backed
  <1> QED BY <1>1, <1>2, <1>3

\* Going on to another catalog call of the same function changes nothing else.
LEMMA MovedLocal ==
    ASSUME IInv, NEW t \in Threads, th[t].pc \notin {"idle", "next"},
           NEW pc \in PCs \ {"idle", "next", "step", "exec", "release"}
    PROVE  LET l == [th[t] EXCEPT !.pc = pc]
           IN  l \in Local /\ Located(l) /\ Backed(ran, l)
  <1> DEFINE l == [th[t] EXCEPT !.pc = pc]
  <1>1. l \in Local
    <2>1. th[t] \in Local
      BY DEF IInv, TypeOK
    <2> QED BY <2>1 DEF Local
  <1>2. Located(l)
    BY DEF IInv, TypeOK, Local, Located
  <1>3. Backed(ran, l)
    BY DEF IInv, TypeOK, Local, Backed
  <1> QED BY <1>1, <1>2, <1>3

-----------------------------------------------------------------------------
(* Requests and the scheduler's loops                                      *)

LEMMA RequestRunInv ==
    ASSUME IInv, NEW t \in Threads, NEW r \in Rows, NEW given \in BOOLEAN,
           RequestRun(t, r, given)
    PROVE  IInv'
  <1> DEFINE l == [Idle EXCEPT !.pc = "read", !.row = r, !.given = given]
  <1>1. l \in Local
    BY IdleLocal DEF Local, PCs
  <1>2. Located(l) /\ Backed(ran, l)
    BY ChainAssumption DEF Idle, Located, Backed, RanBefore, Chain
  <1>3. calls' \in 0..MaxCalls /\ faults' \in 0..MaxFaults
    BY BoundsAssumption DEF IInv, TypeOK, RequestRun
  <1> QED BY <1>1, <1>2, <1>3, ThreadChanges DEF RequestRun

LEMMA RequestStopInv ==
    ASSUME IInv, NEW t \in Threads, NEW r \in Rows, RequestStop(t, r)
    PROVE  IInv'
  <1> DEFINE l == [Idle EXCEPT !.pc = "stopRead", !.op = "stop", !.row = r]
  <1>1. l \in Local
    BY IdleLocal DEF Local, PCs
  <1>2. Located(l) /\ Backed(ran, l)
    BY ChainAssumption DEF Idle, Located, Backed, RanBefore, Chain
  <1>3. calls' \in 0..MaxCalls /\ faults' \in 0..MaxFaults
    BY BoundsAssumption DEF IInv, TypeOK, RequestStop
  <1> QED BY <1>1, <1>2, <1>3, ThreadChanges DEF RequestStop

LEMMA WakeInv ==
    ASSUME IInv, NEW t \in Threads, Wake(t)
    PROVE  IInv'
  <1> DEFINE l == [Idle EXCEPT !.pc = "next", !.op = "wake", !.todo = DueRows]
  <1>1. l \in Local /\ Located(l) /\ Backed(ran, l)
    BY IdleLocal DEF Idle, Local, PCs, Located, Backed, DueRows
  <1> QED BY <1>1, ThreadChanges DEF Wake, IInv, TypeOK

LEMMA FireInv ==
    ASSUME IInv, NEW t \in Threads, Fire(t)
    PROVE  IInv'
  <1> DEFINE c == [r \in Rows |-> IF r \in EventWaiters THEN db[r].progress ELSE None]
             l == [Idle EXCEPT !.pc = "next", !.op = "fire", !.todo = EventWaiters,
                               !.copy = c]
  <1>1. c \in [Rows -> Progress \cup {None}] /\ \A r \in EventWaiters : c[r] \in Progress
    BY DEF IInv, TypeOK, RowType, EventWaiters
  <1>2. \A r \in Rows : c[r] # None => RanBefore(ran, r, c[r].at)
    BY DEF IInv, RowBacked
  <1> HIDE DEF c
  <1>3. l \in Local /\ Located(l) /\ Backed(ran, l)
    BY <1>1, <1>2, IdleLocal DEF Idle, Local, PCs, Located, Backed, EventWaiters
  <1>4. calls' \in 0..MaxCalls /\ faults' \in 0..MaxFaults
    BY BoundsAssumption DEF IInv, TypeOK, Fire
  <1>5. th' = [th EXCEPT ![t] = l]
    BY DEF Fire, c
  <1> HIDE DEF l
  <1> QED BY <1>3, <1>4, <1>5, ThreadChanges DEF Fire

LEMMA NextRowInv ==
    ASSUME IInv, NEW t \in Threads, NEW r \in Rows, NextRow(t, r)
    PROVE  IInv'
  <1> DEFINE l == [th[t] EXCEPT !.pc = IF th[t].op = "fire" THEN "release" ELSE "read",
                                !.row = r, !.todo = @ \ {r}]
  <1> DEFINE pc == IF th[t].op = "fire" THEN "release" ELSE "read"
  <1>1. l \in Local
    <2>1. th[t] \in Local /\ pc \in PCs
      BY DEF IInv, TypeOK, PCs
    <2>2. l = [th[t] EXCEPT !.pc = pc, !.row = r, !.todo = @ \ {r}]
      OBVIOUS
    <2> HIDE DEF pc
    <2> QED BY <2>1, <2>2 DEF Local
  <1>2. Located(l)
    BY DEF NextRow, IInv, TypeOK, Local, Located
  <1>3. Backed(ran, l)
    BY ChainAssumption DEF NextRow, IInv, TypeOK, Local, Located, Backed, RanBefore, Chain
  <1>4. th' = [th EXCEPT ![t] = l] /\ UNCHANGED <<db, calls, faults, history>>
    BY DEF NextRow
  <1> HIDE DEF l
  <1> QED BY <1>1, <1>2, <1>3, <1>4, ThreadChanges DEF IInv, TypeOK

LEMMA ReleaseInv ==
    ASSUME IInv, NEW t \in Threads, Release(t)
    PROVE  IInv'
  <1> DEFINE r == th[t].row
             p == [th[t].copy[r] EXCEPT !.wait = "released"]
             l == [th[t] EXCEPT !.pc = "read"]
  <1>1. r \in Rows /\ th[t].copy[r] \in Progress
    BY DEF Release, IInv, TypeOK, Local, Located
  <1>2. p \in Progress /\ p.at = th[t].copy[r].at
    BY <1>1 DEF Progress, Waits
  <1>3. RanBefore(ran, r, p.at)
    BY <1>1, <1>2, NullAssumption DEF IInv, Backed
  <1>4. [db[r] EXCEPT !.progress = p] \in RowType
    BY <1>1, <1>2 DEF IInv, TypeOK, RowType
  <1>5. RowBacked(ran, r, [db[r] EXCEPT !.progress = p])
    BY <1>1, <1>3 DEF IInv, TypeOK, RowType, RowBacked
  <1>6. l \in Local /\ Located(l) /\ Backed(ran, l)
    BY MovedLocal DEF Release, PCs
  <1> QED
    BY <1>1, <1>4, <1>5, <1>6, RowChanges
    DEF Release, SetProgress, GoTo, IInv, TypeOK, history

LEMMA ClockPassesInv ==
    ASSUME IInv, NEW r \in Rows, ClockPasses(r)
    PROVE  IInv'
  <1>1. TypeOK'
    BY NullAssumption DEF ClockPasses, IInv, TypeOK, RowType, Progress, Waits, history
  <1>2. \A t \in Threads : (Located(th[t]) /\ Backed(ran, th[t]))'
    BY DEF ClockPasses, IInv, Located, Backed, RanBefore, history
  <1>3. \A q \in Rows : RowBacked(ran, q, db[q])'
    BY NullAssumption
    DEF ClockPasses, IInv, TypeOK, RowType, Progress, RowBacked, RanBefore, history
  <1> QED BY <1>1, <1>2, <1>3 DEF IInv

-----------------------------------------------------------------------------
(* run_execution                                                           *)

LEMMA ReadAwayInv ==
    ASSUME IInv, NEW t \in Threads, ReadAway(t)
    PROVE  IInv'
  BY ReturnedLocal, ThreadChanges DEF ReadAway, Return, IInv, TypeOK

LEMMA ReadInv ==
    ASSUME IInv, NEW t \in Threads, Read(t)
    PROVE  IInv'
  <1> DEFINE p == db[th[t].row].progress
             l == [th[t] EXCEPT !.pc = "claim", !.fresh = (p = None),
                                !.at = IF p = None THEN 1 ELSE ResumeAt(p),
                                !.minted = (p # None),
                                !.resumed = (p # None /\ p.wait # "none")]
  <1>1. th[t] \in Local /\ th[t].row \in Rows
    BY DEF Read, IInv, TypeOK, Located
  <1>2. p \in Progress \cup {None} /\ (p # None => RanBefore(ran, th[t].row, p.at))
    BY <1>1 DEF IInv, TypeOK, RowType, RowBacked
  <1>3. th' = [th EXCEPT ![t] = l] /\ UNCHANGED <<db, calls, faults, history>>
    BY DEF Read
  <1>4. th[t].pc = "read" /\ Located(th[t]) /\ Backed(ran, th[t])
    BY DEF Read, IInv
  <1> HIDE DEF p
  <1>5. l \in Local
    <2>1. ASSUME NEW a \in 1..(Last + 1), NEW f \in BOOLEAN, NEW m \in BOOLEAN,
                 NEW w \in BOOLEAN
          PROVE  [th[t] EXCEPT !.pc = "claim", !.fresh = f, !.at = a, !.minted = m,
                               !.resumed = w] \in Local
      <3>1. [th[t] EXCEPT !.pc = "claim", !.at = a] \in Local
        BY <1>1 DEF Local, PCs
      <3>2. \A x \in Local :
               /\ [x EXCEPT !.fresh = f] \in Local
               /\ [x EXCEPT !.minted = m] \in Local
               /\ [x EXCEPT !.resumed = w] \in Local
        BY DEF Local
      <3> QED BY <3>1, <3>2 DEF Local
    <2>2. (IF p = None THEN 1 ELSE ResumeAt(p)) \in 1..(Last + 1)
      BY <1>2, ChainAssumption DEF Progress, ResumeAt
    <2>3. (p = None) \in BOOLEAN /\ (p # None) \in BOOLEAN
          /\ (p # None /\ p.wait # "none") \in BOOLEAN
      OBVIOUS
    <2> QED BY <2>1, <2>2, <2>3, Zenon
  <1>6. Located(l)
    BY <1>1, <1>4 DEF Located, Local
  <1>7. Backed(ran, l)
    BY <1>1, <1>2, <1>4, ChainAssumption DEF Backed, Local, RanBefore, ResumeAt, Chain
  <1> HIDE DEF l
  <1> QED BY <1>3, <1>5, <1>6, <1>7, ThreadChanges DEF IInv, TypeOK

LEMMA ClaimInv ==
    ASSUME IInv, NEW t \in Threads, Claim(t)
    PROVE  IInv'
  <1> DEFINE r == th[t].row
             l == [th[t] EXCEPT !.pc = "check"]
  <1>1. r \in Rows
    BY DEF Claim, IInv, Located
  <1>2. Claimed(t) \in RowType
    <2>1. db[r] \in RowType
      BY <1>1 DEF IInv, TypeOK
    <2>2. Len(starts) + 1 \in Nat
      BY LenProperties DEF IInv, TypeOK
    <2> QED BY <2>1, <2>2 DEF Claimed, RowType, Statuses
  <1>3. RowBacked(ran, r, Claimed(t))
    BY <1>1 DEF Claimed, IInv, TypeOK, RowType, RowBacked
  <1>4. starts' \in Seq(Rows)
    BY <1>1, AppendProperties DEF Claim, IInv, TypeOK
  <1>5. l \in Local /\ Located(l) /\ Backed(ran, l)
    BY MovedLocal DEF Claim, PCs
  <1> QED
    BY <1>1, <1>2, <1>3, <1>4, <1>5, RowChanges DEF Claim, GoTo, IInv, TypeOK

LEMMA CheckInv ==
    ASSUME IInv, NEW t \in Threads, Check(t)
    PROVE  IInv'
  <1>1. th[t] \in Local /\ th[t].row \in Rows /\ Located(th[t]) /\ Backed(ran, th[t])
    BY DEF Check, IInv, TypeOK, Located
  <1>2. UNCHANGED <<db, calls, faults, history>>
    BY DEF Check
  <1>3. CASE th[t].at > Last
    <2> DEFINE l == [th[t] EXCEPT !.pc = "result", !.outcome = "done", !.to = "inactive"]
    <2>1. l \in Local
      BY <1>1 DEF Local, PCs, Results, Statuses
    <2>2. Located(l)
      BY <1>1 DEF Local, Located, Check
    <2>3. Backed(ran, l)
      BY <1>1, <1>3, ChainAssumption DEF Local, Backed, RanBefore, Chain
    <2> QED BY <1>2, <1>3, <2>1, <2>2, <2>3, ThreadChanges DEF Check, IInv, TypeOK
  <1>4. CASE th[t].at <= Last /\ CancelRequested(db[th[t].row])
    <2> DEFINE l == [th[t] EXCEPT !.pc = "result", !.outcome = "cancelled",
                                  !.to = "cancelled"]
    <2>1. l \in Local
      BY <1>1 DEF Local, PCs, Results, Statuses
    <2>2. Located(l)
      BY <1>1 DEF Local, Located, Check
    <2>3. Backed(ran, l)
      BY <1>1 DEF Local, Backed
    <2>4. ~(th[t].at > Last)
      BY <1>1, <1>4, ChainAssumption DEF Local
    <2> QED BY <1>2, <1>4, <2>1, <2>2, <2>3, <2>4, ThreadChanges DEF Check, IInv, TypeOK
  <1>5. CASE th[t].at <= Last /\ ~CancelRequested(db[th[t].row])
    <2> DEFINE l == [th[t] EXCEPT !.pc = "step"]
    <2>1. l \in Local
      BY <1>1 DEF Local, PCs
    <2>2. Located(l)
      BY <1>1, <1>5, ChainAssumption DEF Local, Located, Check, Chain
    <2>3. Backed(ran, l)
      BY <1>1 DEF Local, Backed
    <2>4. ~(th[t].at > Last)
      BY <1>1, <1>5, ChainAssumption DEF Local
    <2> QED BY <1>2, <1>5, <2>1, <2>2, <2>3, <2>4, ThreadChanges DEF Check, IInv, TypeOK
  <1>6. th[t].at \in Nat
    BY <1>1, ChainAssumption DEF Local
  <1> QED BY <1>3, <1>4, <1>5, <1>6, ChainAssumption

\* Shared by every step in which a thread, in the middle of a call, writes one
\* field of its row and goes on.
LEMMA WriteAndMove ==
    ASSUME IInv, NEW t \in Threads, th[t].pc \notin {"idle", "next"},
           NEW l \in Local, Located(l), Backed(ran, l), th' = [th EXCEPT ![t] = l],
           NEW new \in RowType, RowBacked(ran, th[t].row, new), Put(th[t].row, new),
           UNCHANGED <<calls, starts, ran, late>>, faults' \in 0..MaxFaults,
           stopped' \subseteq Rows
    PROVE  IInv'
  <1>1. th[t].row \in Rows
    BY DEF IInv, Located
  <1> QED BY <1>1, RowChanges DEF IInv, TypeOK

LEMMA StatusWritten ==
    ASSUME IInv, NEW r \in Rows, NEW s \in Statuses
    PROVE  LET new == [db[r] EXCEPT !.status = s]
           IN  new \in RowType /\ RowBacked(ran, r, new)
  <1>1. db[r] \in RowType /\ RowBacked(ran, r, db[r])
    BY DEF IInv, TypeOK
  <1> QED BY <1>1 DEF RowType, RowBacked

LEMMA ProgressWritten ==
    ASSUME IInv, NEW r \in Rows, NEW p \in Progress \cup {None},
           p # None => RanBefore(ran, r, p.at)
    PROVE  LET new == [db[r] EXCEPT !.progress = p]
           IN  new \in RowType /\ RowBacked(ran, r, new)
  <1>1. db[r] \in RowType /\ RowBacked(ran, r, db[r])
    BY DEF IInv, TypeOK
  <1> QED BY <1>1 DEF RowType, RowBacked

LEMMA ResultWritten ==
    ASSUME IInv, NEW r \in Rows, NEW o \in Results,
           o = "done" => RanBefore(ran, r, Last + 1)
    PROVE  LET new == [db[r] EXCEPT !.result = o]
           IN  new \in RowType /\ RowBacked(ran, r, new)
  <1>1. db[r] \in RowType /\ RowBacked(ran, r, db[r])
    BY DEF IInv, TypeOK
  <1> QED BY <1>1 DEF RowType, RowBacked

\* The thread's locals in the middle of a call.
LEMMA InCall ==
    ASSUME IInv, NEW t \in Threads, th[t].pc \notin {"idle", "next"}
    PROVE  /\ th[t] \in Local /\ th[t].row \in Rows
           /\ Located(th[t]) /\ Backed(ran, th[t])
  BY DEF IInv, TypeOK, Located

LEMMA SaveAndLeaveInv ==
    ASSUME IInv, NEW t \in Threads, SaveAndLeave(t)
    PROVE  IInv'
  <1> DEFINE r == th[t].row
             p == [at |-> th[t].at, wait |-> WaitOf(t)]
             l == [th[t] EXCEPT !.pc = "leave", !.to = ParksAs(t)]
  <1>1. /\ th[t] \in Local /\ r \in Rows /\ Located(th[t]) /\ Backed(ran, th[t])
        /\ th[t].pc = "step" /\ th[t].at \in Chain
    BY InCall DEF SaveAndLeave, Located
  <1>2. WaitOf(t) \in Waits
    BY <1>1, ChainAssumption DEF WaitOf, Waits, Kinds
  <1>3. p \in Progress /\ p.at = th[t].at
    BY <1>1, <1>2, ChainAssumption DEF Progress, Chain
  <1>4. p # None => RanBefore(ran, r, p.at)
    BY <1>1, <1>3 DEF Backed
  <1>5. ParksAs(t) \in Statuses
    BY DEF ParksAs, Statuses
  <1>6. l \in Local
    BY <1>1, <1>5 DEF Local, PCs
  <1>7. Located(l)
    BY <1>1 DEF Located, Local
  <1>8. Backed(ran, l)
    BY <1>1 DEF Backed, Local
  <1>9. /\ th' = [th EXCEPT ![t] = l] /\ Put(r, [db[r] EXCEPT !.progress = p])
        /\ UNCHANGED <<calls, faults, history>>
    BY DEF SaveAndLeave, SetProgress
  <1> HIDE DEF p, l
  <1> QED
    BY <1>1, <1>3, <1>4, <1>6, <1>7, <1>8, <1>9, ProgressWritten, WriteAndMove
    DEF IInv, TypeOK, history

LEMMA LeaveStatusInv ==
    ASSUME IInv, NEW t \in Threads, LeaveStatus(t)
    PROVE  IInv'
  <1>1. /\ th[t].row \in Rows /\ th[t].to \in Statuses
    BY InCall DEF LeaveStatus, Local
  <1>2. Put(th[t].row, [db[th[t].row] EXCEPT !.status = th[t].to])
    BY DEF LeaveStatus, SetStatus
  <1> QED
    BY <1>1, <1>2, StatusWritten, ReturnedLocal, WriteAndMove
    DEF LeaveStatus, Return, IInv, TypeOK, history

LEMMA SaveMintedInv ==
    ASSUME IInv, NEW t \in Threads, SaveMinted(t)
    PROVE  IInv'
  <1> DEFINE r == th[t].row
             p == [at |-> th[t].at, wait |-> "none"]
             l == [th[t] EXCEPT !.pc = "exec"]
  <1>1. /\ th[t] \in Local /\ r \in Rows /\ Located(th[t]) /\ Backed(ran, th[t])
        /\ th[t].pc = "step" /\ th[t].at \in Chain
    BY InCall DEF SaveMinted, Located
  <1>2. p \in Progress /\ p.at = th[t].at
    BY <1>1, ChainAssumption DEF Progress, Waits, Chain
  <1>3. p # None => RanBefore(ran, r, p.at)
    BY <1>1, <1>2 DEF Backed
  <1>4. l \in Local
    BY <1>1 DEF Local, PCs
  <1>5. Located(l)
    BY <1>1 DEF Located, Local
  <1>6. Backed(ran, l)
    BY <1>1 DEF Backed, Local
  <1>7. /\ th' = [th EXCEPT ![t] = l] /\ Put(r, [db[r] EXCEPT !.progress = p])
        /\ UNCHANGED <<calls, faults, history>>
    BY DEF SaveMinted, SetProgress, GoTo
  <1> HIDE DEF p, l
  <1> QED
    BY <1>1, <1>2, <1>3, <1>4, <1>5, <1>6, <1>7, ProgressWritten, WriteAndMove
    DEF IInv, TypeOK, history

\* The one step that adds to `ran`: what was backed stays backed, and the
\* thread's own position moves past the step that has just run.
LEMMA ExecuteInv ==
    ASSUME IInv, NEW t \in Threads, Execute(t)
    PROVE  IInv'
  <1> DEFINE r == th[t].row
             k == th[t].at
             l == [th[t] EXCEPT !.pc = "check", !.at = @ + 1, !.resumed = FALSE,
                                !.minted = FALSE]
  <1>1. /\ th[t] \in Local /\ r \in Rows /\ Located(th[t]) /\ Backed(ran, th[t])
        /\ th[t].pc \in {"step", "exec"} /\ k \in Chain
    BY InCall DEF Execute, Ready, Located
  <1>2. /\ th' = [th EXCEPT ![t] = l] /\ ran' = [ran EXCEPT ![r][k] = @ + 1]
        /\ UNCHANGED <<db, calls, faults, starts, stopped>>
        /\ late' = IF r \in stopped THEN [late EXCEPT ![r] = @ + 1] ELSE late
    BY DEF Execute
  <1>3. ran' \in [Rows -> [Chain -> Nat]] /\ late' \in [Rows -> Nat]
    BY <1>1, <1>2 DEF IInv, TypeOK
  <1>4. /\ \A q \in Rows, j \in Chain : ran[q][j] > 0 => ran'[q][j] > 0
        /\ ran'[r][k] > 0
    BY <1>1, <1>2 DEF IInv, TypeOK
  <1>5. \A q \in Rows, n \in Nat : RanBefore(ran, q, n) => RanBefore(ran', q, n)
    BY <1>4 DEF RanBefore
  <1>6. \A x \in Local : Backed(ran, x) => Backed(ran', x)
    BY <1>5, ChainAssumption, NullAssumption DEF Backed, Local, Progress
  <1>7. l \in Local /\ Located(l)
    <2>1. k + 1 \in 1..(Last + 1)
      BY <1>1, ChainAssumption DEF Chain
    <2>2. l \in Local
      BY <1>1, <2>1 DEF Local, PCs
    <2> QED BY <1>1, <2>2 DEF Located, Local
  <1>8. Backed(ran', l)
    <2>1. Backed(ran', th[t])
      BY <1>1, <1>6
    <2>2. RanBefore(ran, r, k)
      BY <1>1 DEF Backed
    <2>3. RanBefore(ran', r, k + 1)
      BY <1>1, <1>4, <2>2, ChainAssumption DEF RanBefore, Chain
    <2>4. /\ l.row = r /\ l.at = k + 1 /\ l.outcome = th[t].outcome
          /\ l.copy = th[t].copy
      BY <1>1 DEF Local
    <2> HIDE DEF l
    <2> QED BY <2>1, <2>3, <2>4 DEF Backed
  <1> HIDE DEF l
  <1>9. TypeOK'
    BY <1>2, <1>3, <1>7 DEF IInv, TypeOK
  <1>10. ASSUME NEW u \in Threads PROVE Located(th'[u]) /\ Backed(ran', th'[u])
    <2>1. Located(th[u]) /\ Backed(ran', th[u])
      BY <1>6 DEF IInv, TypeOK
    <2>2. th'[u] = IF u = t THEN l ELSE th[u]
      BY <1>2 DEF IInv, TypeOK
    <2> QED BY <1>7, <1>8, <2>1, <2>2
  <1>11. ASSUME NEW q \in Rows PROVE RowBacked(ran', q, db'[q])
    <2>1. /\ db[q].progress # None => db[q].progress.at \in Nat
          /\ RowBacked(ran, q, db[q]) /\ db' = db /\ Last + 1 \in Nat
      BY <1>2, ChainAssumption DEF IInv, TypeOK, RowType, Progress
    <2> QED BY <1>5, <2>1 DEF RowBacked
  <1> QED BY <1>9, <1>10, <1>11 DEF IInv

LEMMA ExecuteRaisesInv ==
    ASSUME IInv, NEW t \in Threads, ExecuteRaises(t)
    PROVE  IInv'
  <1>1. th[t].pc \in {"step", "exec"}
    BY DEF ExecuteRaises, Ready
  <1>2. faults' \in 0..MaxFaults /\ calls' \in 0..MaxCalls
    BY BoundsAssumption DEF ExecuteRaises, IInv, TypeOK
  <1> QED BY <1>1, <1>2, MovedLocal, ThreadChanges DEF ExecuteRaises, GoTo, PCs

LEMMA RaiseStatusInv ==
    ASSUME IInv, NEW t \in Threads, RaiseStatus(t)
    PROVE  IInv'
  BY MovedLocal, InCall, StatusWritten, WriteAndMove
  DEF RaiseStatus, SetStatus, GoTo, PCs, Statuses, IInv, TypeOK, history

LEMMA RaiseResultInv ==
    ASSUME IInv, NEW t \in Threads, RaiseResult(t)
    PROVE  IInv'
  BY ReturnedLocal, InCall, ResultWritten, WriteAndMove
  DEF RaiseResult, SetResult, Return, Results, IInv, TypeOK, history

-----------------------------------------------------------------------------
(* _finish_run, the purge and request_state_cancel                         *)

\* The outcome about to be stored is backed.
LEMMA FinishResultInv ==
    ASSUME IInv, NEW t \in Threads, FinishResult(t)
    PROVE  IInv'
  <1>1. /\ th[t].row \in Rows /\ th[t].outcome \in Results
        /\ th[t].outcome = "done" => RanBefore(ran, th[t].row, Last + 1)
    BY InCall DEF FinishResult, Local, Backed
  <1>2. Put(th[t].row, [db[th[t].row] EXCEPT !.result = th[t].outcome])
    BY DEF FinishResult, SetResult
  <1> QED
    BY <1>1, <1>2, MovedLocal, ResultWritten, WriteAndMove
    DEF FinishResult, GoTo, PCs, IInv, TypeOK, history

LEMMA FinishClearInv ==
    ASSUME IInv, NEW t \in Threads, FinishClear(t)
    PROVE  IInv'
  BY MovedLocal, InCall, ProgressWritten, WriteAndMove
  DEF FinishClear, SetProgress, GoTo, PCs, IInv, TypeOK, history

LEMMA FinishStatusInv ==
    ASSUME IInv, NEW t \in Threads, FinishStatus(t)
    PROVE  IInv'
  <1>1. th[t].row \in Rows /\ th[t].to \in Statuses
    BY InCall DEF FinishStatus, Local
  <1>2. Put(th[t].row, [db[th[t].row] EXCEPT !.status = th[t].to])
    BY DEF FinishStatus, SetStatus
  <1> QED
    BY <1>1, <1>2, MovedLocal, StatusWritten, WriteAndMove
    DEF FinishStatus, GoTo, PCs, IInv, TypeOK, history

LEMMA PurgeSelectInv ==
    ASSUME IInv, NEW t \in Threads, PurgeSelect(t)
    PROVE  IInv'
  <1> DEFINE d == Purgeable(t)
             l == [th[t] EXCEPT !.pc = "delete", !.doomed = d]
  <1>1. d \subseteq Rows
    BY DEF Purgeable
  <1>2. th[t] \in Local /\ Located(th[t]) /\ Backed(ran, th[t])
        /\ th[t].pc = "select" /\ th[t].row \in Rows
    BY InCall DEF PurgeSelect
  <1>3. th' = [th EXCEPT ![t] = l] /\ UNCHANGED <<db, calls, faults, history>>
    BY DEF PurgeSelect
  <1> HIDE DEF d
  <1>4. l \in Local
    BY <1>1, <1>2 DEF Local, PCs
  <1>5. Located(l)
    BY <1>2 DEF Local, Located
  <1>6. Backed(ran, l)
    BY <1>2 DEF Local, Backed
  <1> HIDE DEF l
  <1> QED BY <1>3, <1>4, <1>5, <1>6, ThreadChanges DEF IInv, TypeOK

\* The only step that changes several rows: it takes them away.
LEMMA PurgeDeleteInv ==
    ASSUME IInv, NEW t \in Threads, PurgeDelete(t)
    PROVE  IInv'
  <1>1. TypeOK'
    BY ReturnedLocal DEF PurgeDelete, Return, IInv, TypeOK, RowType, history
  <1>2. \A u \in Threads : Located(th'[u]) /\ Backed(ran', th'[u])
    BY ReturnedLocal DEF PurgeDelete, Return, IInv, TypeOK, history
  <1>3. \A q \in Rows : RowBacked(ran', q, db'[q])
    BY DEF PurgeDelete, IInv, TypeOK, RowType, RowBacked, history
  <1> QED BY <1>1, <1>2, <1>3 DEF IInv

LEMMA StopReadInv ==
    ASSUME IInv, NEW t \in Threads, StopRead(t)
    PROVE  IInv'
  BY MovedLocal, ReturnedLocal, ThreadChanges
  DEF StopRead, GoTo, Return, PCs, IInv, TypeOK

LEMMA StopResultInv ==
    ASSUME IInv, NEW t \in Threads, StopResult(t)
    PROVE  IInv'
  BY MovedLocal, InCall, ResultWritten, WriteAndMove
  DEF StopResult, SetResult, GoTo, PCs, Results, IInv, TypeOK, history

LEMMA StopClearInv ==
    ASSUME IInv, NEW t \in Threads, StopClear(t)
    PROVE  IInv'
  BY MovedLocal, InCall, ProgressWritten, WriteAndMove
  DEF StopClear, SetProgress, GoTo, PCs, IInv, TypeOK, history

LEMMA StopStatusInv ==
    ASSUME IInv, NEW t \in Threads, StopStatus(t)
    PROVE  IInv'
  <1>1. stopped' \subseteq Rows
    BY InCall DEF StopStatus, IInv, TypeOK
  <1> QED
    BY <1>1, InCall, ReturnedLocal, StatusWritten, WriteAndMove
    DEF StopStatus, SetStatus, Return, Statuses, IInv, TypeOK

LEMMA CrashInv ==
    ASSUME IInv, Crash
    PROVE  IInv'
  <1>1. TypeOK'
    BY IdleLocal, BoundsAssumption DEF Crash, IInv, TypeOK, history
  <1>2. \A u \in Threads : Located(th'[u]) /\ Backed(ran', th'[u])
    BY IdleLocal DEF Crash, history
  <1>3. \A q \in Rows : RowBacked(ran', q, db'[q])
    BY DEF Crash, IInv, history
  <1> QED BY <1>1, <1>2, <1>3 DEF IInv

-----------------------------------------------------------------------------
(* Every step, and the theorems                                            *)

LEMMA StepInv == IInv /\ [Next]_vars => IInv'
  <1> SUFFICES ASSUME IInv, [Next]_vars PROVE IInv'
    OBVIOUS
  <1>1. ASSUME NEW t \in Threads, Request(t) PROVE IInv'
    BY <1>1, RequestRunInv, RequestStopInv, FireInv DEF Request
  <1>2. ASSUME NEW t \in Threads, Wake(t) PROVE IInv'
    BY <1>2, WakeInv
  <1>3. ASSUME NEW t \in Threads, ThreadStep(t) PROVE IInv'
    BY <1>3, NextRowInv, ReleaseInv, ReadAwayInv, ReadInv, ClaimInv, CheckInv,
       SaveAndLeaveInv, LeaveStatusInv, SaveMintedInv, ExecuteInv, ExecuteRaisesInv,
       RaiseStatusInv, RaiseResultInv, FinishResultInv, FinishClearInv,
       FinishStatusInv, PurgeSelectInv, PurgeDeleteInv, StopReadInv, StopResultInv,
       StopClearInv, StopStatusInv
    DEF ThreadStep
  <1>4. ASSUME NEW r \in Rows, ClockPasses(r) PROVE IInv'
    BY <1>4, ClockPassesInv
  <1>5. CASE Crash
    BY <1>5, CrashInv
  <1>6. CASE UNCHANGED vars
    <2>1. TypeOK'
      BY <1>6 DEF IInv, TypeOK, vars
    <2>2. \A u \in Threads : Located(th'[u]) /\ Backed(ran', th'[u])
      BY <1>6 DEF IInv, vars
    <2>3. \A q \in Rows : RowBacked(ran', q, db'[q])
      BY <1>6 DEF IInv, vars
    <2> QED BY <2>1, <2>2, <2>3 DEF IInv
  <1> QED BY <1>1, <1>2, <1>3, <1>4, <1>5, <1>6 DEF Next

\* The strengthening holds of every reachable state.
THEOREM Invariance == Spec => []IInv
  BY InitInv, StepInv, PTL DEF Spec

\* Every variable keeps its type, whoever interleaves: in particular no statement
\* ever writes a status or a wait the catalog does not know.
THEOREM TypeCorrect == Spec => []TypeOK
  BY Invariance, PTL DEF IInv

\* No interleaving of runners, wakes, released events, stops and crashes makes a
\* saved queue point past a step that never ran, or a row read `done` whose chain
\* did not run: run_execution resumes at the head it saved, and pops a step only
\* after it ran.
THEOREM NoStepIsSkipped == Spec => []NoStepSkipped
  <1>1. IInv => NoStepSkipped
    BY ChainAssumption
    DEF IInv, TypeOK, RowType, Progress, RowBacked, RanBefore, NoStepSkipped, Chain
  <1> QED BY <1>1, Invariance, PTL

-----------------------------------------------------------------------------
(* What polling can report                                                 *)

Over(row) ==
    row.status = "cancelled" \/ (row.status = "inactive" /\ row.started > 0)

\* What a thread with locals l, on its row, has written or knows when it is about to
\* write that the row is over; f faults so far.
Reporting(l, row, f) ==
    /\ l.pc \in {"clear", "status", "stopClear", "stopStatus"} =>
          (row.here => row.result # "none")
    /\ l.pc = "result" => l.outcome # "none"
    /\ l.pc = "leave" => l.to \in {"waiting", "pending"}
    /\ l.pc \in {"raise", "explain"} => f > 0

Calling(l) == l.pc \notin {"idle", "next"}

PollInv ==
    /\ faults = 0 => \A r \in Rows : Over(db[r]) => db[r].result # "none"
    /\ \A t \in Threads : Calling(th[t]) => Reporting(th[t], db[th[t].row], faults)

\* From one moment to a later one a row keeps that it has a result, and that it is gone.
Ages(row, next) ==
    /\ next.here => row.here
    /\ row.result # "none" => next.result # "none"

\* A step of one thread, from what it does to the rows.
LEMMA PollKept ==
    ASSUME IInv, PollInv, NEW t \in Threads, NEW l, th' = [th EXCEPT ![t] = l],
           faults' \in Nat, faults <= faults',
           \A r \in Rows : Ages(db[r], db'[r]),
           \A r \in Rows :
              Over(db'[r]) => Over(db[r]) \/ db'[r].result # "none" \/ faults' > 0,
           Calling(l) => Reporting(l, db'[l.row], faults')
    PROVE  PollInv'
  <1>1. faults \in Nat
    BY BoundsAssumption DEF IInv, TypeOK
  <1>2. ASSUME faults' = 0, NEW r \in Rows, Over(db'[r]) PROVE db'[r].result # "none"
    BY <1>1, <1>2 DEF PollInv, Ages
  <1>3. ASSUME NEW u \in Threads, Calling(th'[u])
        PROVE  Reporting(th'[u], db'[th'[u].row], faults')
    <2>1. CASE u = t
      BY <1>3, <2>1 DEF IInv, TypeOK
    <2>2. CASE u # t
      <3>1. th'[u] = th[u]
        BY <2>2 DEF IInv, TypeOK
      <3>2. th[u].row \in Rows /\ Reporting(th[u], db[th[u].row], faults)
        BY <1>3, <3>1 DEF IInv, Located, Calling, PollInv
      <3> QED BY <1>1, <3>1, <3>2 DEF Reporting, Ages
    <2> QED BY <2>1, <2>2
  <1> QED BY <1>2, <1>3 DEF PollInv

\* One row written, by Put.
LEMMA PollWritten ==
    ASSUME IInv, PollInv, NEW t \in Threads, NEW l, th' = [th EXCEPT ![t] = l],
           faults' \in Nat, faults <= faults',
           NEW r \in Rows, NEW new, Put(r, new), Ages(db[r], new),
           Over(new) => Over(db[r]) \/ new.result # "none" \/ faults' > 0,
           Calling(l) => l.row = r,
           Calling(l) => Reporting(l, IF db[r].here THEN new ELSE db[r], faults')
    PROVE  PollInv'
  <1>1. \A q \in Rows : db'[q] = IF q = r THEN IF db[r].here THEN new ELSE db[r] ELSE db[q]
    BY DEF Put, IInv, TypeOK
  <1>2. \A q \in Rows : Ages(db[q], db'[q])
    BY <1>1 DEF Ages
  <1>3. \A q \in Rows :
           Over(db'[q]) => Over(db[q]) \/ db'[q].result # "none" \/ faults' > 0
    BY <1>1
  <1>4. Calling(l) => Reporting(l, db'[l.row], faults')
    BY <1>1
  <1> QED BY <1>2, <1>3, <1>4, PollKept

\* No row written.
LEMMA PollMoved ==
    ASSUME IInv, PollInv, NEW t \in Threads, NEW l, th' = [th EXCEPT ![t] = l],
           faults' \in Nat, faults <= faults', db' = db,
           Calling(l) => Reporting(l, db[l.row], faults')
    PROVE  PollInv'
  <1>1. \A q \in Rows : Ages(db[q], db'[q])
    BY DEF Ages
  <1> QED BY <1>1, PollKept

\* A call that is over leaves the thread in none.
LEMMA ReturnedQuiet ==
    ASSUME NEW t \in Threads
    PROVE  Returned(t).pc \in {"idle", "next"}
  BY DEF Returned, Idle

\* Going on in the same call.
LEMMA MovedFields ==
    ASSUME IInv, NEW t \in Threads, NEW pc
    PROVE  LET l == [th[t] EXCEPT !.pc = pc]
           IN  l.pc = pc /\ l.row = th[t].row /\ l.to = th[t].to /\ l.outcome = th[t].outcome
  BY DEF IInv, TypeOK, Local

LEMMA FaultsNat == IInv => faults \in Nat /\ faults <= faults
  BY BoundsAssumption DEF IInv, TypeOK

\* A step that writes no row and leaves the thread where it owes no report.
LEMMA PollReads ==
    ASSUME IInv, PollInv, NEW t \in Threads, NEW l, th' = [th EXCEPT ![t] = l],
           db' = db, faults' = faults,
           \/ l.pc \in {"idle", "next", "release", "read", "claim", "check", "step", "exec",
                        "delete", "stopRead", "stopResult"}
           \/ l.pc = "result" /\ l.outcome # "none"
    PROVE  PollInv'
  <1>1. Reporting(l, db[l.row], faults')
    BY DEF Reporting
  <1> QED BY <1>1, FaultsNat, PollMoved

LEMMA RequestPoll ==
    ASSUME IInv, PollInv, NEW t \in Threads, Request(t) \/ Wake(t)
    PROVE  PollInv'
  <1>1. PICK l : /\ th' = [th EXCEPT ![t] = l] /\ l.pc \in {"read", "stopRead", "next"}
                 /\ db' = db /\ faults' = faults
    BY DEF Request, RequestRun, RequestStop, Fire, Wake, Idle
  <1> QED BY <1>1, PollReads

\* Steps that read.
LEMMA ReadingPoll ==
    ASSUME IInv, PollInv, NEW t \in Threads,
           \/ \E r \in Rows : NextRow(t, r)
           \/ ReadAway(t) \/ Read(t) \/ Check(t) \/ Execute(t) \/ PurgeSelect(t) \/ StopRead(t)
    PROVE  PollInv'
  <1>1. th[t] \in Local /\ db' = db /\ faults' = faults
    BY DEF NextRow, ReadAway, Read, Check, Execute, PurgeSelect, StopRead, IInv, TypeOK
  <1>2. ASSUME NEW r \in Rows, NextRow(t, r) PROVE PollInv'
    <2> DEFINE l == [th[t] EXCEPT !.pc = IF th[t].op = "fire" THEN "release" ELSE "read",
                                  !.row = r, !.todo = @ \ {r}]
    <2>1. th' = [th EXCEPT ![t] = l]
      BY <1>2 DEF NextRow
    <2>2. l.pc \in {"release", "read"}
      BY <1>1 DEF Local
    <2> HIDE DEF l
    <2> QED BY <1>1, <2>1, <2>2, PollReads
  <1>3. CASE ReadAway(t)
    BY <1>1, <1>3, ReturnedQuiet, PollReads DEF ReadAway, Return
  <1>4. CASE Read(t)
    <2> DEFINE p == db[th[t].row].progress
               l == [th[t] EXCEPT !.pc = "claim", !.fresh = (p = None),
                                  !.at = IF p = None THEN 1 ELSE ResumeAt(p),
                                  !.minted = (p # None),
                                  !.resumed = (p # None /\ p.wait # "none")]
    <2>1. th' = [th EXCEPT ![t] = l]
      BY <1>4 DEF Read
    <2> HIDE DEF p
    <2>2. l.pc = "claim"
      BY <1>1 DEF Local
    <2> HIDE DEF l
    <2> QED BY <1>1, <2>1, <2>2, PollReads
  <1>5. CASE Check(t)
    <2> DEFINE done == [th[t] EXCEPT !.pc = "result", !.outcome = "done", !.to = "inactive"]
               cut  == [th[t] EXCEPT !.pc = "result", !.outcome = "cancelled",
                                     !.to = "cancelled"]
               on   == [th[t] EXCEPT !.pc = "step"]
    <2>1. \/ th' = [th EXCEPT ![t] = done]
          \/ th' = [th EXCEPT ![t] = cut]
          \/ th' = [th EXCEPT ![t] = on]
      BY <1>5 DEF Check
    <2>2. done.pc = "result" /\ done.outcome # "none"
      BY <1>1 DEF Local
    <2>3. cut.pc = "result" /\ cut.outcome # "none"
      BY <1>1 DEF Local
    <2>4. on.pc = "step"
      BY <1>1 DEF Local
    <2> HIDE DEF done, cut, on
    <2> QED BY <1>1, <2>1, <2>2, <2>3, <2>4, PollReads
  <1>6. CASE Execute(t)
    <2> DEFINE l == [th[t] EXCEPT !.pc = "check", !.at = @ + 1, !.resumed = FALSE,
                                  !.minted = FALSE]
    <2>1. th' = [th EXCEPT ![t] = l]
      BY <1>6 DEF Execute
    <2>2. l.pc = "check"
      BY <1>1 DEF Local
    <2> HIDE DEF l
    <2> QED BY <1>1, <2>1, <2>2, PollReads
  <1>7. CASE PurgeSelect(t)
    <2> DEFINE l == [th[t] EXCEPT !.pc = "delete", !.doomed = Purgeable(t)]
    <2>1. th' = [th EXCEPT ![t] = l]
      BY <1>7 DEF PurgeSelect
    <2>2. l.pc = "delete"
      BY <1>1 DEF Local
    <2> HIDE DEF l
    <2> QED BY <1>1, <2>1, <2>2, PollReads
  <1>8. CASE StopRead(t)
    <2> DEFINE l == [th[t] EXCEPT !.pc = "stopResult"]
    <2>1. th' = [th EXCEPT ![t] = l] \/ th' = [th EXCEPT ![t] = Returned(t)]
      BY <1>8 DEF StopRead, GoTo, Return
    <2>2. l.pc = "stopResult"
      BY MovedFields
    <2> HIDE DEF l
    <2> QED BY <1>1, <2>1, <2>2, ReturnedQuiet, PollReads
  <1> QED BY <1>2, <1>3, <1>4, <1>5, <1>6, <1>7, <1>8

\* A thread in a call writes its row, and goes on with the call or returns from it.
LEMMA PollWrites ==
    ASSUME IInv, PollInv, NEW t \in Threads, Calling(th[t]), faults' = faults,
           NEW new, Put(th[t].row, new), Ages(db[th[t].row], new),
           Over(new) =>
              Over(db[th[t].row]) \/ (db[th[t].row].here => new.result # "none")
              \/ faults > 0,
           \/ Return(t)
           \/ \E pc : /\ GoTo(t, pc)
                      /\ Reporting([th[t] EXCEPT !.pc = pc],
                                   IF db[th[t].row].here THEN new ELSE db[th[t].row], faults)
    PROVE  PollInv'
  <1> DEFINE r == th[t].row
  <1>1. r \in Rows
    BY DEF Calling, IInv, Located
  <1>2. PICK l : /\ th' = [th EXCEPT ![t] = l]
                 /\ Calling(l) => l.row = r
                 /\ Calling(l) => Reporting(l, IF db[r].here THEN new ELSE db[r], faults)
    <2>1. CASE Return(t)
      BY <2>1, ReturnedQuiet DEF Return, Calling
    <2>2. ASSUME NEW pc, GoTo(t, pc),
                 Reporting([th[t] EXCEPT !.pc = pc],
                           IF db[th[t].row].here THEN new ELSE db[th[t].row], faults)
          PROVE  \E l : /\ th' = [th EXCEPT ![t] = l]
                        /\ Calling(l) => l.row = r
                        /\ Calling(l) => Reporting(l, IF db[r].here THEN new ELSE db[r], faults)
      <3> DEFINE l == [th[t] EXCEPT !.pc = pc]
      <3>1. th' = [th EXCEPT ![t] = l]
        BY <2>2 DEF GoTo
      <3>2. l.row = r
        BY MovedFields
      <3> HIDE DEF l
      <3> QED BY <2>2, <3>1, <3>2 DEF l
    <2> QED BY <2>1, <2>2
  <1>3. \A q \in Rows : db'[q] = IF q = r THEN IF db[r].here THEN new ELSE db[r] ELSE db[q]
    BY <1>1 DEF Put, IInv, TypeOK
  <1>4. \A q \in Rows : Ages(db[q], db'[q])
    BY <1>3 DEF Ages
  <1>5. \A q \in Rows :
           Over(db'[q]) => Over(db[q]) \/ db'[q].result # "none" \/ faults' > 0
    BY <1>3
  <1>6. Calling(l) => Reporting(l, db'[l.row], faults')
    BY <1>1, <1>2, <1>3
  <1> QED BY <1>2, <1>4, <1>5, <1>6, FaultsNat, PollKept

LEMMA WritingPoll ==
    ASSUME IInv, PollInv, NEW t \in Threads,
           \/ Release(t) \/ Claim(t) \/ SaveAndLeave(t) \/ LeaveStatus(t) \/ SaveMinted(t)
           \/ RaiseStatus(t) \/ RaiseResult(t)
           \/ FinishResult(t) \/ FinishClear(t) \/ FinishStatus(t)
           \/ StopResult(t) \/ StopClear(t) \/ StopStatus(t)
    PROVE  PollInv'
  <1> DEFINE r == th[t].row
             row == db[r]
             At(pc) == [th[t] EXCEPT !.pc = pc]
  <1>1. Calling(th[t]) /\ faults' = faults
    BY DEF Calling, Release, Claim, SaveAndLeave, LeaveStatus, SaveMinted, RaiseStatus,
           RaiseResult, FinishResult, FinishClear, FinishStatus, StopResult, StopClear,
           StopStatus
  <1>2. /\ th[t] \in Local /\ r \in Rows /\ row \in RowType
        /\ Reporting(th[t], row, faults) /\ faults \in Nat
    BY <1>1, FaultsNat DEF IInv, TypeOK, Located, PollInv, Calling
  <1>3. \A pc : At(pc).pc = pc /\ At(pc).to = th[t].to /\ At(pc).outcome = th[t].outcome
    BY MovedFields
  <1>4. \A s \in Statuses : LET new == [row EXCEPT !.status = s]
                            IN  /\ Ages(row, new) /\ new.result = row.result
                                /\ new.status = s /\ new.started = row.started
    BY <1>2 DEF RowType, Ages
  <1>5. \A p : LET new == [row EXCEPT !.progress = p]
               IN  /\ Ages(row, new) /\ new.result = row.result
                   /\ new.status = row.status /\ new.started = row.started
    BY <1>2 DEF RowType, Ages
  <1>6. \A o : LET new == [row EXCEPT !.result = o]
               IN  /\ o # "none" => Ages(row, new)
                   /\ new.result = o
                   /\ new.status = row.status /\ new.started = row.started
    BY <1>2 DEF RowType, Ages
  <1>7. CASE Release(t)
    <2> DEFINE new == [row EXCEPT !.progress = [th[t].copy[r] EXCEPT !.wait = "released"]]
    <2>1. Put(r, new) /\ GoTo(t, "read")
      BY <1>7 DEF Release, SetProgress
    <2>2. Ages(row, new) /\ (Over(new) => Over(row))
      BY <1>5 DEF Over
    <2>3. Reporting(At("read"), IF row.here THEN new ELSE row, faults)
      BY <1>3 DEF Reporting
    <2> HIDE DEF new
    <2> QED BY <1>1, <2>1, <2>2, <2>3, PollWrites
  <1>8. CASE Claim(t)
    <2> DEFINE new == Claimed(t)
    <2>1. Put(r, new) /\ GoTo(t, "check")
      BY <1>8 DEF Claim
    <2>2. Ages(row, new) /\ ~Over(new)
      BY <1>2 DEF Over, Claimed, RowType, Ages
    <2>3. Reporting(At("check"), IF row.here THEN new ELSE row, faults)
      BY <1>3 DEF Reporting
    <2> HIDE DEF new
    <2> QED BY <1>1, <2>1, <2>2, <2>3, PollWrites
  <1>9. CASE SaveAndLeave(t)
    <2> DEFINE new == [row EXCEPT !.progress = [at |-> th[t].at, wait |-> WaitOf(t)]]
               l == [th[t] EXCEPT !.pc = "leave", !.to = ParksAs(t)]
    <2>1. Put(r, new) /\ th' = [th EXCEPT ![t] = l]
      BY <1>9 DEF SaveAndLeave, SetProgress
    <2>2. Ages(row, new) /\ (Over(new) => Over(row))
      BY <1>5 DEF Over
    <2>3. ParksAs(t) \in {"waiting", "pending"}
      BY <1>9 DEF SaveAndLeave, ParksAs
    <2>4. l.row = r /\ l.pc = "leave" /\ l.to = ParksAs(t)
      BY <1>2 DEF Local
    <2> HIDE DEF new, l
    <2>5. Reporting(l, IF row.here THEN new ELSE row, faults)
      BY <2>3, <2>4 DEF Reporting
    <2> QED BY <1>1, <1>2, <2>1, <2>2, <2>4, <2>5, FaultsNat, PollWritten
  <1>10. CASE LeaveStatus(t)
    <2> DEFINE new == [row EXCEPT !.status = th[t].to]
    <2>1. Put(r, new) /\ Return(t) /\ th[t].to \in {"waiting", "pending"}
      BY <1>2, <1>10 DEF LeaveStatus, SetStatus, Reporting
    <2>2. Ages(row, new) /\ ~Over(new)
      BY <1>4, <2>1 DEF Over, Statuses
    <2> HIDE DEF new
    <2> QED BY <1>1, <2>1, <2>2, PollWrites
  <1>11. CASE SaveMinted(t)
    <2> DEFINE new == [row EXCEPT !.progress = [at |-> th[t].at, wait |-> "none"]]
    <2>1. Put(r, new) /\ GoTo(t, "exec")
      BY <1>11 DEF SaveMinted, SetProgress
    <2>2. Ages(row, new) /\ (Over(new) => Over(row))
      BY <1>5 DEF Over
    <2>3. Reporting(At("exec"), IF row.here THEN new ELSE row, faults)
      BY <1>3 DEF Reporting
    <2> HIDE DEF new
    <2> QED BY <1>1, <2>1, <2>2, <2>3, PollWrites
  <1>12. CASE RaiseStatus(t)
    <2> DEFINE new == [row EXCEPT !.status = "inactive"]
    <2>1. Put(r, new) /\ GoTo(t, "explain") /\ faults > 0
      BY <1>2, <1>12 DEF RaiseStatus, SetStatus, Reporting
    <2>2. Ages(row, new)
      BY <1>4 DEF Statuses
    <2>3. Reporting(At("explain"), IF row.here THEN new ELSE row, faults)
      BY <1>3, <2>1 DEF Reporting
    <2> HIDE DEF new
    <2> QED BY <1>1, <2>1, <2>2, <2>3, PollWrites
  <1>13. CASE RaiseResult(t)
    <2> DEFINE new == [row EXCEPT !.result = "error"]
    <2>1. Put(r, new) /\ Return(t)
      BY <1>13 DEF RaiseResult, SetResult
    <2>2. Ages(row, new) /\ new.result # "none"
      BY <1>6
    <2> HIDE DEF new
    <2> QED BY <1>1, <2>1, <2>2, PollWrites
  <1>14. CASE FinishResult(t)
    <2> DEFINE new == [row EXCEPT !.result = th[t].outcome]
    <2>1. Put(r, new) /\ GoTo(t, "clear") /\ th[t].outcome # "none"
      BY <1>2, <1>14 DEF FinishResult, SetResult, Reporting
    <2>2. Ages(row, new) /\ new.result # "none"
      BY <1>6, <2>1
    <2>3. Reporting(At("clear"), IF row.here THEN new ELSE row, faults)
      BY <1>3, <2>2 DEF Reporting
    <2> HIDE DEF new
    <2> QED BY <1>1, <2>1, <2>2, <2>3, PollWrites
  <1>15. CASE FinishClear(t) \/ StopClear(t)
    <2> DEFINE new == [row EXCEPT !.progress = None]
    <2>1. Put(r, new) /\ \E pc \in {"status", "stopStatus"} : GoTo(t, pc)
      BY <1>15 DEF FinishClear, StopClear, SetProgress
    <2>2. Ages(row, new) /\ (Over(new) => Over(row)) /\ new.result = row.result
      BY <1>5 DEF Over
    <2>3. row.here => row.result # "none"
      BY <1>2, <1>15 DEF FinishClear, StopClear, Reporting
    <2>4. \A pc \in {"status", "stopStatus"} :
             Reporting(At(pc), IF row.here THEN new ELSE row, faults)
      BY <1>3, <2>2, <2>3 DEF Reporting
    <2> HIDE DEF new
    <2> QED BY <1>1, <2>1, <2>2, <2>4, PollWrites
  <1>16. CASE FinishStatus(t) \/ StopStatus(t)
    <2> DEFINE s == IF th[t].pc = "status" THEN th[t].to ELSE "cancelled"
               new == [row EXCEPT !.status = s]
    <2>1. Put(r, new) /\ (GoTo(t, "select") \/ Return(t))
      BY <1>16 DEF FinishStatus, StopStatus, SetStatus
    <2>2. s \in Statuses
      BY <1>2 DEF Local, Statuses
    <2>3. Ages(row, new) /\ new.result = row.result
      BY <1>4, <2>2
    <2>4. row.here => row.result # "none"
      BY <1>2, <1>16 DEF FinishStatus, StopStatus, Reporting
    <2>5. Reporting(At("select"), IF row.here THEN new ELSE row, faults)
      BY <1>3 DEF Reporting
    <2> HIDE DEF new, s
    <2> QED BY <1>1, <2>1, <2>3, <2>4, <2>5, PollWrites
  <1>17. CASE StopResult(t)
    <2> DEFINE new == [row EXCEPT !.result = "cancelled"]
    <2>1. Put(r, new) /\ GoTo(t, "stopClear")
      BY <1>17 DEF StopResult, SetResult
    <2>2. Ages(row, new) /\ new.result # "none"
      BY <1>6
    <2>3. Reporting(At("stopClear"), IF row.here THEN new ELSE row, faults)
      BY <1>3, <2>2 DEF Reporting
    <2> HIDE DEF new
    <2> QED BY <1>1, <2>1, <2>2, <2>3, PollWrites
  <1> QED
    BY <1>7, <1>8, <1>9, <1>10, <1>11, <1>12, <1>13, <1>14, <1>15, <1>16, <1>17

LEMMA RaisingPoll ==
    ASSUME IInv, PollInv, NEW t \in Threads, ExecuteRaises(t)
    PROVE  PollInv'
  <1> DEFINE l == [th[t] EXCEPT !.pc = "raise"]
  <1>1. /\ th' = [th EXCEPT ![t] = l] /\ db' = db /\ faults' = faults + 1
    BY DEF ExecuteRaises, GoTo
  <1>2. l.pc = "raise"
    BY MovedFields
  <1>3. faults' \in Nat /\ faults' > 0 /\ faults <= faults'
    BY <1>1, FaultsNat
  <1> HIDE DEF l
  <1>4. Reporting(l, db[l.row], faults')
    BY <1>2, <1>3 DEF Reporting
  <1> QED BY <1>1, <1>3, <1>4, PollMoved

LEMMA DeletingPoll ==
    ASSUME IInv, PollInv, NEW t \in Threads, PurgeDelete(t)
    PROVE  PollInv'
  <1>1. \A r \in Rows : db'[r] = IF r \in th[t].doomed THEN [db[r] EXCEPT !.here = FALSE]
                                                        ELSE db[r]
    BY DEF PurgeDelete
  <1>2. \A r \in Rows : /\ Ages(db[r], db'[r]) /\ db'[r].status = db[r].status
                        /\ db'[r].started = db[r].started
    BY <1>1 DEF IInv, TypeOK, RowType, Ages
  <1>3. \A r \in Rows : Over(db'[r]) => Over(db[r])
    BY <1>2 DEF Over
  <1>4. ~Calling(Returned(t))
    BY ReturnedQuiet DEF Calling
  <1> QED BY <1>2, <1>3, <1>4, FaultsNat, PollKept DEF PurgeDelete, Return

LEMMA OutsidePoll ==
    ASSUME IInv, PollInv, Crash \/ \E r \in Rows : ClockPasses(r)
    PROVE  PollInv'
  <1>1. CASE Crash
    <2>1. faults' > 0 /\ db' = db
      BY <1>1, FaultsNat DEF Crash
    <2>2. \A t \in Threads : ~Calling(th'[t])
      BY <1>1 DEF Crash, Idle, Calling
    <2> QED BY <2>1, <2>2 DEF PollInv
  <1>2. ASSUME NEW r \in Rows, ClockPasses(r) PROVE PollInv'
    <2>1. \A q \in Rows : /\ db'[q].status = db[q].status /\ db'[q].result = db[q].result
                          /\ db'[q].started = db[q].started /\ db'[q].here = db[q].here
      BY <1>2 DEF ClockPasses, IInv, TypeOK, RowType
    <2>2. th' = th /\ faults' = faults
      BY <1>2 DEF ClockPasses
    <2>3. \A t \in Threads : Calling(th[t]) => th[t].row \in Rows
      BY DEF IInv, Located, Calling
    <2> QED BY <2>1, <2>2, <2>3 DEF PollInv, Over, Reporting
  <1> QED BY <1>1, <1>2

LEMMA StepPoll == IInv /\ PollInv /\ [Next]_vars => PollInv'
  <1> SUFFICES ASSUME IInv, PollInv, [Next]_vars PROVE PollInv'
    OBVIOUS
  <1>1. CASE UNCHANGED vars
    BY <1>1 DEF vars, PollInv
  <1>2. ASSUME NEW t \in Threads, ThreadStep(t) PROVE PollInv'
    BY <1>2, ReadingPoll, WritingPoll, RaisingPoll, DeletingPoll DEF ThreadStep
  <1> QED BY <1>1, <1>2, RequestPoll, OutsidePoll DEF Next

\* However runs, wakes, fires and stops interleave on a row: as long as no step raises
\* and the process lives, a row that polling reports as over has its result.  Every
\* one of them stores the result before the status, and none ever takes a result back.
THEOREM OverIsPollable == Spec => []PollableResult
  <1>1. Init => PollInv
    BY DEF Init, PollInv, Over, Calling, Idle
  <1>2. PollInv => PollableResult
    BY DEF PollInv, PollableResult, Over
  <1> QED BY <1>1, <1>2, StepPoll, Invariance, PTL DEF Spec

-----------------------------------------------------------------------------
(* One call at a time on a row                                             *)

\* The rows a thread with locals l works on: the row of its call, those a fire has
\* listed with their progress, those a purge has selected.
Holds(l) ==
    {r \in Rows : \/ Calling(l) /\ l.row = r
                  \/ l.op = "fire" /\ r \in l.todo
                  \/ l.pc = "delete" /\ r \in l.doomed}

\* No two threads work on one row at once.  Nothing in the code sees to it.
Apart == \A t, u \in Threads : Holds(th[t]) \cap Holds(th[u]) # {} => t = u

HasWait(p) == p # None /\ p.wait # "none"

IsFinished(row) ==
    row.here /\ row.status \in {"inactive", "cancelled"} /\ row.started > 0

\* The places in which a call has not looked at its row yet, those in which it has
\* made it active, and those of a Stop under way.
Unread   == {"idle", "next", "release", "read", "stopRead"}
Working  == {"check", "step", "exec", "leave", "raise", "result", "clear", "status"}
Stopping == {"stopResult", "stopClear", "stopStatus"}

\* How the rows d stand to a thread with locals l that has them for itself.
Standing(l, d) ==
    /\ l.pc \notin Unread => d[l.row].here
    /\ l.pc = "claim" => d[l.row].status # "cancelled"
    /\ l.pc \in Working => d[l.row].status = "active"
    /\ l.pc = "explain" => d[l.row].status = "inactive"
    /\ l.pc \in {"result", "clear", "status"} => l.to \in {"inactive", "cancelled"}
    /\ l.pc \in Stopping => d[l.row].status \in InFlight
    /\ l.pc \in {"stopClear", "stopStatus"} => d[l.row].result = "cancelled"
    /\ l.pc = "leave" /\ l.to = "waiting" => HasWait(d[l.row].progress)
    /\ l.pc = "delete" => \A r \in l.doomed : IsFinished(d[r]) /\ r # l.row

\* What a row says of itself, with a Stop between its last two writes or not.
RowStands(row, halfway) ==
    /\ row.status = "waiting" => HasWait(row.progress) \/ halfway
    /\ ~row.here => row.status \in {"inactive", "cancelled"}

SoloInv ==
    /\ \A t \in Threads : Calling(th[t]) => Standing(th[t], db)
    /\ \A r \in Rows : RowStands(db[r], HalfStopped(r))
    /\ \A r \in stopped : db[r].status = "cancelled"
    /\ \A r \in Rows : late[r] = 0

LEMMA HeldRow ==
    ASSUME IInv, NEW t \in Threads, Calling(th[t])
    PROVE  th[t].row \in Rows /\ th[t].row \in Holds(th[t])
  BY DEF IInv, Located, Calling, Holds

\* A thread in a call may write the row of its call.
LEMMA SoloKept ==
    ASSUME IInv, Apart, SoloInv, NEW t \in Threads, Calling(th[t]),
           NEW r \in Rows, r = th[t].row,
           NEW l, th' = [th EXCEPT ![t] = l], NEW new, db' = [db EXCEPT ![r] = new],
           faults' \in Nat, faults <= faults',
           Calling(l) => Standing(l, db'),
           new.status = "waiting" =>
              \/ HasWait(new.progress)
              \/ l.pc = "stopStatus" /\ l.row = r
              \/ faults' > 0 /\ new.result = "cancelled",
           ~new.here => new.status \in {"inactive", "cancelled"},
           stopped' \subseteq stopped \cup {r},
           r \in stopped' => new.status = "cancelled", late' = late
    PROVE  SoloInv'
  <1>1. r \in Rows /\ r \in Holds(th[t])
    BY HeldRow
  <1>2. /\ db'[r] = new /\ \A q \in Rows : q # r => db'[q] = db[q]
        /\ th'[t] = l /\ \A u \in Threads : u # t => th'[u] = th[u]
    BY <1>1 DEF IInv, TypeOK
  <1>3. ASSUME NEW u \in Threads, Calling(th'[u]) PROVE Standing(th'[u], db')
    <2>1. CASE u = t
      BY <1>2, <1>3, <2>1
    <2>2. CASE u # t
      <3>1. th'[u] = th[u] /\ Calling(th[u])
        BY <1>2, <1>3, <2>2
      <3>2. Holds(th[t]) \cap Holds(th[u]) = {}
        BY <2>2 DEF Apart
      <3>3. th[u].row \in Rows /\ th[u].row # r
        BY <1>1, <3>1, <3>2, HeldRow
      <3>4. ASSUME th[u].pc = "delete", NEW x \in th[u].doomed PROVE db'[x] = db[x]
        <4>1. x \in Rows
          BY DEF IInv, TypeOK, Local
        <4>2. x \in Holds(th[u])
          BY <3>4, <4>1 DEF Holds
        <4> QED BY <1>1, <1>2, <3>2, <4>1, <4>2
      <3>5. Standing(th[u], db) /\ db'[th[u].row] = db[th[u].row]
        BY <1>2, <3>1, <3>3 DEF SoloInv
      <3> QED BY <3>1, <3>4, <3>5 DEF Standing
    <2> QED BY <2>1, <2>2
  <1>4. ASSUME NEW q \in Rows PROVE RowStands(db[q], HalfStopped(q))'
    <2>1. CASE q = r
      <3>1. new.status = "waiting" => HasWait(new.progress) \/ HalfStopped(r)'
        BY <1>2 DEF HalfStopped
      <3> QED BY <1>2, <2>1, <3>1 DEF RowStands, HasWait
    <2>2. CASE q # r
      <3>1. HalfStopped(q) => HalfStopped(q)'
        BY <1>2, <2>2, FaultsNat DEF HalfStopped
      <3>2. RowStands(db[q], HalfStopped(q)) /\ db'[q] = db[q]
        BY <1>2, <2>2 DEF SoloInv
      <3> QED BY <3>1, <3>2 DEF RowStands, HasWait
    <2> QED BY <2>1, <2>2
  <1>5. ASSUME NEW q \in stopped' PROVE db'[q].status = "cancelled"
    <2>1. CASE q = r
      BY <1>2, <1>5, <2>1
    <2>2. CASE q # r
      <3>1. q \in stopped /\ q \in Rows
        BY <1>5, <2>2 DEF IInv, TypeOK
      <3> QED BY <1>2, <2>2, <3>1 DEF SoloInv
    <2> QED BY <2>1, <2>2
  <1> QED BY <1>3, <1>4, <1>5 DEF SoloInv

\* A step that writes no row.
LEMMA SoloMoved ==
    ASSUME IInv, SoloInv, NEW t \in Threads, NEW l, th' = [th EXCEPT ![t] = l],
           th[t].pc # "stopStatus", db' = db, faults' \in Nat, faults <= faults',
           stopped' = stopped, late' = late,
           Calling(l) => Standing(l, db)
    PROVE  SoloInv'
  <1>1. th'[t] = l /\ \A u \in Threads : u # t => th'[u] = th[u]
    BY DEF IInv, TypeOK
  <1>2. \A u \in Threads : Calling(th'[u]) => Standing(th'[u], db')
    BY <1>1 DEF SoloInv
  <1>3. \A q \in Rows : HalfStopped(q) => HalfStopped(q)'
    BY <1>1, FaultsNat DEF HalfStopped
  <1>4. \A q \in Rows : RowStands(db[q], HalfStopped(q))'
    BY <1>3 DEF RowStands, HasWait, SoloInv
  <1> QED BY <1>2, <1>4 DEF SoloInv

\* What the fields of new locals are.
LEMMA FieldsOf ==
    ASSUME IInv, NEW t \in Threads
    PROVE  \A pc : LET l == [th[t] EXCEPT !.pc = pc]
                   IN  l.pc = pc /\ l.row = th[t].row /\ l.to = th[t].to
                       /\ l.doomed = th[t].doomed
  BY DEF IInv, TypeOK, Local

\* Of a call that is over nothing is asked.
LEMMA ReturnedFree ==
    ASSUME NEW t \in Threads
    PROVE  ~Calling(Returned(t))
  BY ReturnedQuiet DEF Calling

LEMMA RequestSolo ==
    ASSUME IInv, SoloInv, NEW t \in Threads, Request(t) \/ Wake(t)
    PROVE  SoloInv'
  <1>1. PICK l : /\ th' = [th EXCEPT ![t] = l] /\ l.pc \in {"read", "stopRead", "next"}
                 /\ db' = db /\ faults' = faults /\ stopped' = stopped /\ late' = late
    BY DEF Request, RequestRun, RequestStop, Fire, Wake, Idle, history
  <1>2. th[t].pc = "idle"
    BY DEF Request, RequestRun, RequestStop, Fire, Wake
  <1>3. Standing(l, db)
    BY <1>1 DEF Standing, Unread, Working, Stopping
  <1> QED BY <1>1, <1>2, <1>3, FaultsNat, SoloMoved

LEMMA ReadingSolo ==
    ASSUME IInv, SoloInv, NEW t \in Threads,
           \/ \E r \in Rows : NextRow(t, r)
           \/ ReadAway(t) \/ Read(t) \/ Check(t) \/ Execute(t) \/ ExecuteRaises(t)
           \/ PurgeSelect(t) \/ StopRead(t)
    PROVE  SoloInv'
  <1> DEFINE Moves(l) == /\ th' = [th EXCEPT ![t] = l]
                         /\ Calling(l) => Standing(l, db)
  <1>1. /\ th[t] \in Local /\ db' = db /\ faults' \in Nat /\ faults <= faults'
        /\ stopped' = stopped /\ th[t].pc # "stopStatus"
    <2>1. /\ th[t] \in Local /\ db' = db /\ stopped' = stopped
          /\ faults' = faults \/ faults' = faults + 1
      BY DEF NextRow, ReadAway, Read, Check, Execute, ExecuteRaises, PurgeSelect, StopRead,
             IInv, TypeOK, history
    <2>2. th[t].pc # "stopStatus"
      BY DEF NextRow, ReadAway, Read, Check, Execute, ExecuteRaises, Ready, PurgeSelect,
             StopRead
    <2> QED BY <2>1, <2>2, FaultsNat
  <1>2. Calling(th[t]) => Standing(th[t], db) /\ th[t].row \in Rows
    BY DEF SoloInv, IInv, Located, Calling
  <1>3. late' = late
    <2>1. CASE Execute(t)
      <3>1. th[t].pc \in {"step", "exec"}
        BY <2>1 DEF Execute, Ready
      <3>2. th[t].row \notin stopped
        BY <1>2, <3>1 DEF Standing, Working, Calling, SoloInv
      <3> QED BY <2>1, <3>2 DEF Execute
    <2>2. CASE ~Execute(t)
      BY <2>2 DEF NextRow, ReadAway, Read, Check, ExecuteRaises, PurgeSelect, StopRead, history
    <2> QED BY <2>1, <2>2
  <1>4. ASSUME NEW l, Moves(l) PROVE SoloInv'
    BY <1>1, <1>3, <1>4, SoloMoved
  <1>5. ASSUME NEW l, th' = [th EXCEPT ![t] = l], l.pc \in Unread PROVE SoloInv'
    <2>1. Standing(l, db)
      BY <1>5 DEF Standing, Unread, Working, Stopping
    <2> QED BY <1>4, <1>5, <2>1
  <1>6. ASSUME NEW r \in Rows, NextRow(t, r) PROVE SoloInv'
    <2> DEFINE l == [th[t] EXCEPT !.pc = IF th[t].op = "fire" THEN "release" ELSE "read",
                                  !.row = r, !.todo = @ \ {r}]
    <2>1. th' = [th EXCEPT ![t] = l]
      BY <1>6 DEF NextRow
    <2>2. l.pc \in Unread
      BY <1>1 DEF Local, Unread
    <2> HIDE DEF l
    <2> QED BY <1>5, <2>1, <2>2
  <1>7. CASE ReadAway(t)
    BY <1>4, <1>7, ReturnedFree DEF ReadAway, Return
  <1>8. CASE Read(t)
    <2> DEFINE p == db[th[t].row].progress
               l == [th[t] EXCEPT !.pc = "claim", !.fresh = (p = None),
                                  !.at = IF p = None THEN 1 ELSE ResumeAt(p),
                                  !.minted = (p # None),
                                  !.resumed = (p # None /\ p.wait # "none")]
    <2>1. th' = [th EXCEPT ![t] = l]
      BY <1>8 DEF Read
    <2> HIDE DEF p
    <2>2. l.pc = "claim" /\ l.row = th[t].row
      BY <1>1 DEF Local
    <2> HIDE DEF l
    <2>3. db[th[t].row].here /\ db[th[t].row].status # "cancelled"
      BY <1>8 DEF Read, SentAway
    <2>4. Standing(l, db)
      BY <2>2, <2>3 DEF Standing, Working, Stopping
    <2> QED BY <1>4, <2>1, <2>4
  <1>9. CASE Check(t)
    <2> DEFINE done == [th[t] EXCEPT !.pc = "result", !.outcome = "done", !.to = "inactive"]
               cut  == [th[t] EXCEPT !.pc = "result", !.outcome = "cancelled",
                                     !.to = "cancelled"]
               on   == [th[t] EXCEPT !.pc = "step"]
    <2>1. \/ th' = [th EXCEPT ![t] = done]
          \/ th' = [th EXCEPT ![t] = cut]
          \/ th' = [th EXCEPT ![t] = on]
      BY <1>9 DEF Check
    <2>2. done.pc = "result" /\ done.row = th[t].row /\ done.to \in {"inactive", "cancelled"}
      BY <1>1 DEF Local
    <2>3. cut.pc = "result" /\ cut.row = th[t].row /\ cut.to \in {"inactive", "cancelled"}
      BY <1>1 DEF Local
    <2>4. on.pc = "step" /\ on.row = th[t].row
      BY <1>1 DEF Local
    <2> HIDE DEF done, cut, on
    <2>5. db[th[t].row].here /\ db[th[t].row].status = "active"
      BY <1>2, <1>9 DEF Check, Standing, Calling, Unread, Working
    <2>6. \A l : /\ l.row = th[t].row
                 /\ l.pc = "step" \/ (l.pc = "result" /\ l.to \in {"inactive", "cancelled"})
                 => Standing(l, db)
      BY <2>5 DEF Standing, Working, Stopping
    <2> QED BY <1>4, <2>1, <2>2, <2>3, <2>4, <2>6
  <1>10. CASE Execute(t)
    <2> DEFINE l == [th[t] EXCEPT !.pc = "check", !.at = @ + 1, !.resumed = FALSE,
                                  !.minted = FALSE]
    <2>1. th' = [th EXCEPT ![t] = l]
      BY <1>10 DEF Execute
    <2>2. l.pc = "check" /\ l.row = th[t].row
      BY <1>1 DEF Local
    <2> HIDE DEF l
    <2>3. Standing(l, db)
      BY <1>2, <1>10, <2>2 DEF Execute, Ready, Standing, Calling, Unread, Working, Stopping
    <2> QED BY <1>4, <2>1, <2>3
  <1>11. CASE ExecuteRaises(t)
    <2> DEFINE l == [th[t] EXCEPT !.pc = "raise"]
    <2>1. th' = [th EXCEPT ![t] = l]
      BY <1>11 DEF ExecuteRaises, GoTo
    <2>2. l.pc = "raise" /\ l.row = th[t].row
      BY FieldsOf
    <2> HIDE DEF l
    <2>3. Standing(l, db)
      BY <1>2, <1>11, <2>2
      DEF ExecuteRaises, Ready, Standing, Calling, Unread, Working, Stopping
    <2> QED BY <1>4, <2>1, <2>3
  <1>12. CASE PurgeSelect(t)
    <2> DEFINE l == [th[t] EXCEPT !.pc = "delete", !.doomed = Purgeable(t)]
    <2>1. th' = [th EXCEPT ![t] = l]
      BY <1>12 DEF PurgeSelect
    <2>2. l.pc = "delete" /\ l.row = th[t].row /\ l.doomed = Purgeable(t)
      BY <1>1 DEF Local
    <2> HIDE DEF l
    <2>3. \A r \in Purgeable(t) : IsFinished(db[r]) /\ r # th[t].row
      BY DEF Purgeable, Finished, IsFinished
    <2>4. Standing(l, db)
      BY <1>2, <1>12, <2>2, <2>3 DEF PurgeSelect, Standing, Calling, Unread, Working, Stopping
    <2> QED BY <1>4, <2>1, <2>4
  <1>13. CASE StopRead(t)
    <2> DEFINE l == [th[t] EXCEPT !.pc = "stopResult"]
    <2>1. \/ th' = [th EXCEPT ![t] = Returned(t)]
          \/ /\ th' = [th EXCEPT ![t] = l]
             /\ db[th[t].row].here /\ db[th[t].row].status \in InFlight
      BY <1>13 DEF StopRead, GoTo, Return
    <2>2. l.pc = "stopResult" /\ l.row = th[t].row
      BY FieldsOf
    <2> HIDE DEF l
    <2>3. db[th[t].row].here /\ db[th[t].row].status \in InFlight => Standing(l, db)
      BY <2>2 DEF Standing, Unread, Working, Stopping
    <2> QED BY <1>4, <2>1, <2>3, ReturnedFree
  <1> QED
    BY <1>6, <1>7, <1>8, <1>9, <1>10, <1>11, <1>12, <1>13

\* A thread in a call writes its row, and goes on with the call or returns from it.
LEMMA SoloWrites ==
    ASSUME IInv, Apart, SoloInv, NEW t \in Threads, Calling(th[t]),
           NEW r \in Rows, r = th[t].row, faults' = faults,
           NEW l, th' = [th EXCEPT ![t] = l], Calling(l) => l.row = r,
           NEW new, Put(r, new), db[r].here => new.here,
           db[r].here /\ Calling(l) => Standing(l, [db EXCEPT ![r] = new]),
           ~db[r].here => l.pc \in Unread,
           db[r].here /\ new.status = "waiting" =>
              HasWait(new.progress) \/ (faults > 0 /\ new.result = "cancelled")
              \/ (l.pc = "stopStatus" /\ l.row = r),
           stopped' \subseteq stopped \cup {r}, late' = late,
           r \in stopped' => (IF db[r].here THEN new ELSE db[r]).status = "cancelled"
    PROVE  SoloInv'
  <1>1. faults' \in Nat /\ faults <= faults'
    BY FaultsNat
  <1>2. CASE db[r].here
    <2>1. db' = [db EXCEPT ![r] = new]
      BY <1>2 DEF Put
    <2> QED BY <1>1, <1>2, <2>1, SoloKept
  <1>3. CASE ~db[r].here
    <2>1. db' = [db EXCEPT ![r] = db[r]]
      BY <1>3 DEF Put
    <2>2. Standing(l, db')
      BY <1>3 DEF Standing, Unread, Working, Stopping
    <2>3. db[r].status \in {"inactive", "cancelled"}
      BY <1>3 DEF SoloInv, RowStands
    <2> HIDE DEF Standing
    <2> QED BY <1>1, <1>3, <2>1, <2>2, <2>3, SoloKept
  <1> QED BY <1>2, <1>3

LEMMA WritingSolo ==
    ASSUME IInv, Apart, SoloInv, NEW t \in Threads,
           \/ Claim(t) \/ SaveAndLeave(t) \/ LeaveStatus(t) \/ SaveMinted(t)
           \/ RaiseStatus(t) \/ RaiseResult(t)
           \/ FinishResult(t) \/ FinishClear(t) \/ FinishStatus(t)
           \/ StopResult(t) \/ StopClear(t) \/ StopStatus(t)
    PROVE  SoloInv'
  <1>1. PICK r : r = th[t].row
    OBVIOUS
  <1> DEFINE row == db[r]
             At(pc) == [th[t] EXCEPT !.pc = pc]
  <1>2. th[t].pc \notin Unread /\ faults' = faults /\ late' = late
    BY DEF Unread, Claim, SaveAndLeave, LeaveStatus, SaveMinted, RaiseStatus,
           RaiseResult, FinishResult, FinishClear, FinishStatus, StopResult, StopClear,
           StopStatus, history
  <1>3. /\ Calling(th[t]) /\ r \in Rows /\ row.here /\ row \in RowType
        /\ th[t] \in Local /\ Standing(th[t], db)
    BY <1>1, <1>2 DEF Unread, Calling, SoloInv, IInv, TypeOK, Located, Standing
  <1>4. \A pc : At(pc).pc = pc /\ At(pc).row = r /\ At(pc).to = th[t].to
    BY <1>1, FieldsOf
  <1>5. \A new : [db EXCEPT ![r] = new][r] = new
    BY <1>3 DEF IInv, TypeOK
  <1>6. row.status = "cancelled" \/ r \notin stopped
    BY <1>3 DEF SoloInv
  \* What is left to show of each action.
  <1>7. ASSUME NEW new, NEW l, Put(r, new), th' = [th EXCEPT ![t] = l], new.here,
               \/ ~Calling(l)
               \/ l.row = r /\ Standing(l, [db EXCEPT ![r] = new]),
               new.status = "waiting" =>
                  HasWait(new.progress) \/ l.pc = "stopStatus"
                  \/ (faults > 0 /\ new.result = "cancelled"),
               \/ stopped' = stopped /\ r \notin stopped
               \/ stopped' = stopped /\ new.status = row.status
        PROVE  SoloInv'
    BY <1>1, <1>2, <1>3, <1>6, <1>7, SoloWrites DEF Calling
  <1>8. \A s : LET new == [row EXCEPT !.status = s]
               IN  /\ new.here /\ new.status = s
                   /\ new.result = row.result /\ new.progress = row.progress
    BY <1>3 DEF RowType
  <1>9. \A p : LET new == [row EXCEPT !.progress = p]
               IN  /\ new.here /\ new.status = row.status
                   /\ new.result = row.result /\ new.progress = p
    BY <1>3 DEF RowType
  <1>10. \A o : LET new == [row EXCEPT !.result = o]
                IN  /\ new.here /\ new.status = row.status
                    /\ new.result = o /\ new.progress = row.progress
    BY <1>3 DEF RowType
  <1>11. CASE Claim(t)
    <2> DEFINE new == Claimed(t)
               l == At("check")
    <2>1. Put(r, new) /\ th' = [th EXCEPT ![t] = l] /\ stopped' = stopped
          /\ th[t].pc = "claim"
      BY <1>1, <1>11 DEF Claim, GoTo
    <2>2. new.here /\ new.status = "active"
      BY <1>1, <1>3 DEF Claimed, RowType
    <2>3. r \notin stopped
      BY <1>1, <1>3, <1>6, <2>1 DEF Standing
    <2>4. l.row = r /\ l.pc = "check"
      BY <1>4
    <2> HIDE DEF new, l
    <2>5. Standing(l, [db EXCEPT ![r] = new])
      BY <1>5, <2>2, <2>4 DEF Standing, Unread, Working, Stopping
    <2> QED BY <1>7, <2>1, <2>2, <2>3, <2>4, <2>5
  <1>12. CASE SaveAndLeave(t)
    <2> DEFINE new == [row EXCEPT !.progress = [at |-> th[t].at, wait |-> WaitOf(t)]]
               l == [th[t] EXCEPT !.pc = "leave", !.to = ParksAs(t)]
    <2>1. Put(r, new) /\ th' = [th EXCEPT ![t] = l] /\ stopped' = stopped
          /\ th[t].pc = "step"
      BY <1>1, <1>12 DEF SaveAndLeave, SetProgress, history
    <2>2. l.row = r /\ l.pc = "leave" /\ l.to = ParksAs(t)
      BY <1>1, <1>3 DEF Local
    <2>3. /\ new.here /\ new.status = row.status
          /\ new.progress = [at |-> th[t].at, wait |-> WaitOf(t)]
      BY <1>9
    <2>4. row.status = "active"
      BY <1>1, <1>3, <2>1 DEF Standing, Working
    <2>5. ParksAs(t) = "waiting" => HasWait(new.progress)
      <3>1. [at |-> th[t].at, wait |-> WaitOf(t)] \in Progress
        <4>1. th[t].at \in Chain
          BY <2>1 DEF IInv, Located
        <4>2. WaitOf(t) \in Waits
          BY <4>1, ChainAssumption DEF WaitOf, Waits, Kinds
        <4> QED BY <4>1, <4>2, ChainAssumption DEF Progress, Chain
      <3>2. ParksAs(t) = "waiting" => WaitOf(t) \in {"clock", "event"}
        BY DEF ParksAs, WaitOf
      <3> QED BY <2>3, <3>1, <3>2, NullAssumption DEF HasWait
    <2> HIDE DEF new, l
    <2>6. Standing(l, [db EXCEPT ![r] = new])
      BY <1>5, <2>2, <2>3, <2>4, <2>5 DEF Standing, Unread, Working, Stopping
    <2> QED BY <1>7, <2>1, <2>2, <2>3, <2>4, <2>6
  <1>13. CASE LeaveStatus(t)
    <2> DEFINE new == [row EXCEPT !.status = th[t].to]
               l == Returned(t)
    <2>1. Put(r, new) /\ th' = [th EXCEPT ![t] = l] /\ stopped' = stopped
          /\ th[t].pc = "leave"
      BY <1>1, <1>13 DEF LeaveStatus, SetStatus, Return, history
    <2>2. new.here /\ new.status = th[t].to /\ new.progress = row.progress
      BY <1>8
    <2>3. row.status = "active" /\ (th[t].to = "waiting" => HasWait(row.progress))
      BY <1>1, <1>3, <2>1 DEF Standing, Working
    <2> HIDE DEF new, l
    <2> QED BY <1>6, <1>7, <2>1, <2>2, <2>3, ReturnedFree DEF l
  <1>14. CASE SaveMinted(t)
    <2> DEFINE new == [row EXCEPT !.progress = [at |-> th[t].at, wait |-> "none"]]
               l == At("exec")
    <2>1. Put(r, new) /\ th' = [th EXCEPT ![t] = l] /\ stopped' = stopped
          /\ th[t].pc = "step"
      BY <1>1, <1>14 DEF SaveMinted, SetProgress, GoTo, history
    <2>2. new.here /\ new.status = row.status
      BY <1>9
    <2>3. row.status = "active"
      BY <1>1, <1>3, <2>1 DEF Standing, Working
    <2>4. l.row = r /\ l.pc = "exec"
      BY <1>4
    <2> HIDE DEF new, l
    <2>5. Standing(l, [db EXCEPT ![r] = new])
      BY <1>5, <2>2, <2>3, <2>4 DEF Standing, Unread, Working, Stopping
    <2> QED BY <1>7, <2>1, <2>2, <2>3, <2>4, <2>5
  <1>15. CASE RaiseStatus(t)
    <2> DEFINE new == [row EXCEPT !.status = "inactive"]
               l == At("explain")
    <2>1. Put(r, new) /\ th' = [th EXCEPT ![t] = l] /\ stopped' = stopped
          /\ th[t].pc = "raise"
      BY <1>1, <1>15 DEF RaiseStatus, SetStatus, GoTo, history
    <2>2. new.here /\ new.status = "inactive"
      BY <1>8
    <2>3. row.status = "active"
      BY <1>1, <1>3, <2>1 DEF Standing, Working
    <2>4. l.row = r /\ l.pc = "explain"
      BY <1>4
    <2> HIDE DEF new, l
    <2>5. Standing(l, [db EXCEPT ![r] = new])
      BY <1>5, <2>2, <2>4 DEF Standing, Unread, Working, Stopping
    <2> QED BY <1>6, <1>7, <2>1, <2>2, <2>3, <2>4, <2>5
  <1>16. CASE RaiseResult(t)
    <2> DEFINE new == [row EXCEPT !.result = "error"]
               l == Returned(t)
    <2>1. Put(r, new) /\ th' = [th EXCEPT ![t] = l] /\ stopped' = stopped
          /\ th[t].pc = "explain"
      BY <1>1, <1>16 DEF RaiseResult, SetResult, Return, history
    <2>2. new.here /\ new.status = row.status
      BY <1>10
    <2>3. row.status = "inactive"
      BY <1>1, <1>3, <2>1 DEF Standing
    <2> HIDE DEF new, l
    <2> QED BY <1>7, <2>1, <2>2, <2>3, ReturnedFree DEF l
  <1>17. CASE FinishResult(t)
    <2> DEFINE new == [row EXCEPT !.result = th[t].outcome]
               l == At("clear")
    <2>1. Put(r, new) /\ th' = [th EXCEPT ![t] = l] /\ stopped' = stopped
          /\ th[t].pc = "result"
      BY <1>1, <1>17 DEF FinishResult, SetResult, GoTo, history
    <2>2. new.here /\ new.status = row.status
      BY <1>10
    <2>3. row.status = "active"
      BY <1>1, <1>3, <2>1 DEF Standing, Working
    <2>4. l.row = r /\ l.pc = "clear" /\ l.to \in {"inactive", "cancelled"}
      BY <1>3, <1>4, <2>1 DEF Standing
    <2> HIDE DEF new, l
    <2>5. Standing(l, [db EXCEPT ![r] = new])
      BY <1>5, <2>2, <2>3, <2>4 DEF Standing, Unread, Working, Stopping
    <2> QED BY <1>7, <2>1, <2>2, <2>3, <2>4, <2>5
  <1>18. CASE FinishClear(t)
    <2> DEFINE new == [row EXCEPT !.progress = None]
               l == At("status")
    <2>1. Put(r, new) /\ th' = [th EXCEPT ![t] = l] /\ stopped' = stopped
          /\ th[t].pc = "clear"
      BY <1>1, <1>18 DEF FinishClear, SetProgress, GoTo, history
    <2>2. new.here /\ new.status = row.status
      BY <1>9
    <2>3. row.status = "active"
      BY <1>1, <1>3, <2>1 DEF Standing, Working
    <2>4. l.row = r /\ l.pc = "status" /\ l.to \in {"inactive", "cancelled"}
      BY <1>3, <1>4, <2>1 DEF Standing
    <2> HIDE DEF new, l
    <2>5. Standing(l, [db EXCEPT ![r] = new])
      BY <1>5, <2>2, <2>3, <2>4 DEF Standing, Unread, Working, Stopping
    <2> QED BY <1>7, <2>1, <2>2, <2>3, <2>4, <2>5
  <1>19. CASE FinishStatus(t)
    <2> DEFINE new == [row EXCEPT !.status = th[t].to]
               l == At("select")
    <2>1. Put(r, new) /\ th' = [th EXCEPT ![t] = l] /\ stopped' = stopped
          /\ th[t].pc = "status"
      BY <1>1, <1>19 DEF FinishStatus, SetStatus, GoTo, history
    <2>2. new.here /\ new.status = th[t].to
      BY <1>8
    <2>3. row.status = "active"
      BY <1>1, <1>3, <2>1 DEF Standing, Working
    <2>4. l.row = r /\ l.pc = "select"
      BY <1>4
    <2>5. th[t].to # "waiting"
      BY <1>3, <2>1 DEF Standing
    <2> HIDE DEF new, l
    <2>6. Standing(l, [db EXCEPT ![r] = new])
      BY <1>5, <2>2, <2>4 DEF Standing, Unread, Working, Stopping
    <2> QED BY <1>6, <1>7, <2>1, <2>2, <2>3, <2>4, <2>5, <2>6
  <1>20. CASE StopResult(t)
    <2> DEFINE new == [row EXCEPT !.result = "cancelled"]
               l == At("stopClear")
    <2>1. Put(r, new) /\ th' = [th EXCEPT ![t] = l] /\ stopped' = stopped
          /\ th[t].pc = "stopResult"
      BY <1>1, <1>20 DEF StopResult, SetResult, GoTo, history
    <2>2. /\ new.here /\ new.status = row.status /\ new.result = "cancelled"
          /\ new.progress = row.progress
      BY <1>10
    <2>3. row.status \in InFlight
      BY <1>1, <1>3, <2>1 DEF Standing, Stopping
    <2>4. l.row = r /\ l.pc = "stopClear"
      BY <1>4
    <2>5. new.status = "waiting" =>
             HasWait(new.progress) \/ (faults > 0 /\ new.result = "cancelled")
      <3>1. ~ \E u \in Threads : th[u].pc = "stopStatus" /\ th[u].row = r
        <4>1. r \in Holds(th[t])
          BY <1>1, <1>3, HeldRow
        <4>2. ASSUME NEW u \in Threads, th[u].pc = "stopStatus", th[u].row = r PROVE FALSE
          <5>1. r \in Holds(th[u])
            BY <4>2, HeldRow DEF Calling
          <5>2. u = t
            BY <4>1, <5>1 DEF Apart
          <5> QED BY <2>1, <4>2, <5>2
        <4> QED BY <4>2
      <3>2. row.status = "waiting" =>
               HasWait(row.progress) \/ (faults > 0 /\ row.result = "cancelled")
        BY <1>3, <3>1 DEF SoloInv, RowStands, HalfStopped
      <3> QED BY <2>2, <3>2
    <2> HIDE DEF new, l
    <2>6. Standing(l, [db EXCEPT ![r] = new])
      BY <1>5, <2>2, <2>3, <2>4 DEF Standing, Unread, Working, Stopping
    <2> QED BY <1>7, <2>1, <2>2, <2>3, <2>4, <2>5, <2>6
  <1>21. CASE StopClear(t)
    <2> DEFINE new == [row EXCEPT !.progress = None]
               l == At("stopStatus")
    <2>1. Put(r, new) /\ th' = [th EXCEPT ![t] = l] /\ stopped' = stopped
          /\ th[t].pc = "stopClear"
      BY <1>1, <1>21 DEF StopClear, SetProgress, GoTo, history
    <2>2. new.here /\ new.status = row.status /\ new.result = row.result
      BY <1>9
    <2>3. row.status \in InFlight /\ row.result = "cancelled"
      BY <1>1, <1>3, <2>1 DEF Standing, Stopping
    <2>4. l.row = r /\ l.pc = "stopStatus"
      BY <1>4
    <2> HIDE DEF new, l
    <2>5. Standing(l, [db EXCEPT ![r] = new])
      BY <1>5, <2>2, <2>3, <2>4 DEF Standing, Unread, Working, Stopping
    <2> QED BY <1>7, <2>1, <2>2, <2>3, <2>4, <2>5
  <1>22. CASE StopStatus(t)
    <2> DEFINE new == [row EXCEPT !.status = "cancelled"]
               l == Returned(t)
    <2>1. Put(r, new) /\ th' = [th EXCEPT ![t] = l] /\ stopped' = stopped \cup {r}
          /\ th[t].pc = "stopStatus"
      BY <1>1, <1>22 DEF StopStatus, SetStatus, Return
    <2>2. new.here /\ new.status = "cancelled"
      BY <1>8
    <2> HIDE DEF new, l
    <2> QED BY <1>1, <1>2, <1>3, <2>1, <2>2, ReturnedFree, SoloWrites DEF l
  <1> QED
    BY <1>11, <1>12, <1>13, <1>14, <1>15, <1>16, <1>17, <1>18, <1>19, <1>20, <1>21, <1>22

LEMMA ReleaseSolo ==
    ASSUME IInv, Apart, SoloInv, NEW t \in Threads, Release(t)
    PROVE  SoloInv'
  <1>1. PICK r : r = th[t].row
    OBVIOUS
  <1> DEFINE p == [th[t].copy[r] EXCEPT !.wait = "released"]
             new == [db[r] EXCEPT !.progress = p]
             l == [th[t] EXCEPT !.pc = "read"]
  <1>2. Calling(th[t]) /\ r \in Rows /\ th[t].copy[r] \in Progress /\ db[r] \in RowType
    BY <1>1 DEF Release, IInv, TypeOK, Local, Located, Calling
  <1>3. HasWait(p)
    <2>1. p \in Progress /\ p.wait = "released"
      BY <1>2 DEF Progress, Waits
    <2> QED BY <2>1, NullAssumption DEF HasWait
  <1>4. Put(r, new) /\ th' = [th EXCEPT ![t] = l] /\ faults' = faults
        /\ stopped' = stopped /\ late' = late
    BY <1>1 DEF Release, SetProgress, GoTo, history
  <1> HIDE DEF p
  <1>5. new.here = db[r].here /\ new.status = db[r].status /\ new.progress = p
    BY <1>2 DEF RowType
  <1>6. l.pc \in Unread /\ l.row = r
    BY <1>1, FieldsOf DEF Unread
  <1>7. r \in stopped => db[r].status = "cancelled"
    BY DEF SoloInv
  <1> HIDE DEF new, l
  <1>8. Standing(l, [db EXCEPT ![r] = new])
    BY <1>6 DEF Standing, Unread, Working, Stopping
  <1> QED BY <1>1, <1>2, <1>3, <1>4, <1>5, <1>6, <1>7, <1>8, SoloWrites

LEMMA DeletingSolo ==
    ASSUME IInv, Apart, SoloInv, NEW t \in Threads, PurgeDelete(t)
    PROVE  SoloInv'
  <1>1. /\ th[t].pc = "delete" /\ th' = [th EXCEPT ![t] = Returned(t)]
        /\ faults' = faults /\ stopped' = stopped /\ late' = late
        /\ db' = [r \in Rows |-> IF r \in th[t].doomed THEN [db[r] EXCEPT !.here = FALSE]
                                                      ELSE db[r]]
    BY DEF PurgeDelete, Return, history
  <1>2. \A r \in th[t].doomed : IsFinished(db[r])
    BY <1>1 DEF SoloInv, Standing, Calling
  <1>3. th'[t] = Returned(t) /\ \A u \in Threads : u # t => th'[u] = th[u]
    BY <1>1 DEF IInv, TypeOK
  <1>4. \A r \in Rows : /\ db'[r].status = db[r].status /\ db'[r].progress = db[r].progress
                        /\ db'[r].result = db[r].result
                        /\ r \notin th[t].doomed => db'[r] = db[r]
    BY <1>1 DEF IInv, TypeOK, RowType
  <1>5. ASSUME NEW u \in Threads, Calling(th'[u]) PROVE Standing(th'[u], db')
    <2>1. u # t /\ th'[u] = th[u] /\ Calling(th[u])
      BY <1>3, <1>5, ReturnedFree
    <2>2. Holds(th[t]) \cap Holds(th[u]) = {}
      BY <2>1 DEF Apart
    <2>3. ASSUME NEW r \in Rows, r \in Holds(th[u]) PROVE db'[r] = db[r]
      <3>1. r \notin th[t].doomed
        BY <1>1, <2>2, <2>3 DEF Holds
      <3> QED BY <1>4, <3>1
    <2>4. db'[th[u].row] = db[th[u].row]
      BY <2>1, <2>3, HeldRow
    <2>5. ASSUME th[u].pc = "delete", NEW x \in th[u].doomed PROVE db'[x] = db[x]
      <3>1. x \in Rows
        BY DEF IInv, TypeOK, Local
      <3> QED BY <2>3, <2>5, <3>1 DEF Holds
    <2>6. Standing(th[u], db)
      BY <2>1 DEF SoloInv
    <2> QED BY <2>1, <2>4, <2>5, <2>6 DEF Standing
  <1>6. ASSUME NEW q \in Rows PROVE RowStands(db[q], HalfStopped(q))'
    <2>1. HalfStopped(q) => HalfStopped(q)'
      BY <1>1, <1>3, <1>4 DEF HalfStopped
    <2>2. db'[q].here \/ db'[q].status \in {"inactive", "cancelled"}
      <3>1. CASE q \in th[t].doomed
        BY <1>2, <1>4, <3>1 DEF IsFinished
      <3>2. CASE q \notin th[t].doomed
        BY <1>4, <3>2 DEF SoloInv, RowStands
      <3> QED BY <3>1, <3>2
    <2>3. RowStands(db[q], HalfStopped(q))
      BY DEF SoloInv
    <2> QED BY <1>4, <2>1, <2>2, <2>3 DEF RowStands, HasWait
  <1>7. \A r \in stopped' : db'[r].status = "cancelled"
    BY <1>1, <1>4 DEF SoloInv, IInv, TypeOK
  <1> QED BY <1>1, <1>5, <1>6, <1>7 DEF SoloInv

LEMMA CrashSolo ==
    ASSUME IInv, SoloInv, Crash
    PROVE  SoloInv'
  <1>1. /\ db' = db /\ stopped' = stopped /\ late' = late /\ faults' > 0
        /\ \A t \in Threads : ~Calling(th'[t])
    BY FaultsNat DEF Crash, Calling, Idle, history
  <1>2. ASSUME NEW q \in Rows PROVE RowStands(db[q], HalfStopped(q))'
    <2>1. HalfStopped(q) => HalfStopped(q)'
      <3>1. ASSUME NEW t \in Threads, th[t].pc = "stopStatus", th[t].row = q
            PROVE  db[q].result = "cancelled"
        BY <3>1 DEF SoloInv, Standing, Calling
      <3> QED BY <1>1, <3>1 DEF HalfStopped
    <2>2. RowStands(db[q], HalfStopped(q))
      BY DEF SoloInv
    <2> QED BY <1>1, <2>1, <2>2 DEF RowStands, HasWait
  <1> QED BY <1>1, <1>2 DEF SoloInv

LEMMA ClockSolo ==
    ASSUME IInv, SoloInv, NEW r \in Rows, ClockPasses(r)
    PROVE  SoloInv'
  <1>1. th' = th /\ faults' = faults /\ stopped' = stopped /\ late' = late
    BY DEF ClockPasses, history
  <1>2. \A q \in Rows : /\ db'[q].here = db[q].here /\ db'[q].status = db[q].status
                        /\ db'[q].result = db[q].result /\ db'[q].started = db[q].started
    BY DEF ClockPasses, IInv, TypeOK, RowType
  <1>3. \A q \in Rows : HasWait(db[q].progress) => HasWait(db'[q].progress)
    <2>1. db[r].progress \in Progress
      BY DEF ClockPasses, IInv, TypeOK, RowType
    <2>2. [db[r].progress EXCEPT !.wait = "due"] \in Progress
      BY <2>1 DEF Progress, Waits
    <2>3. HasWait([db[r].progress EXCEPT !.wait = "due"])
      BY <2>1, <2>2, NullAssumption DEF HasWait, Progress
    <2>4. \A q \in Rows : db'[q].progress = IF q = r THEN [db[r].progress EXCEPT !.wait = "due"]
                                            ELSE db[q].progress
      BY DEF ClockPasses, IInv, TypeOK, RowType
    <2> QED BY <2>3, <2>4
  <1>4. ASSUME NEW t \in Threads, Calling(th[t]) PROVE Standing(th[t], db')
    <2>1. th[t].row \in Rows /\ Standing(th[t], db) /\ th[t].doomed \subseteq Rows
      BY <1>4 DEF SoloInv, Calling, IInv, TypeOK, Local, Located
    <2> QED BY <1>2, <1>3, <2>1 DEF Standing, IsFinished
  <1>5. ASSUME NEW q \in Rows PROVE RowStands(db[q], HalfStopped(q))'
    <2>1. HalfStopped(q) => HalfStopped(q)'
      BY <1>1, <1>2 DEF HalfStopped
    <2>2. RowStands(db[q], HalfStopped(q))
      BY DEF SoloInv
    <2>3. HasWait(db[q].progress) => HasWait(db[q].progress)'
      BY <1>3 DEF HasWait
    <2> QED BY <1>2, <2>1, <2>2, <2>3 DEF RowStands
  <1>6. \A q \in stopped : db'[q].status = "cancelled"
    BY <1>2 DEF SoloInv, IInv, TypeOK
  <1> QED BY <1>1, <1>4, <1>5, <1>6 DEF SoloInv

LEMMA StepSolo == IInv /\ Apart /\ SoloInv /\ [Next]_vars => SoloInv'
  <1> SUFFICES ASSUME IInv, Apart, SoloInv, [Next]_vars PROVE SoloInv'
    OBVIOUS
  <1>1. CASE UNCHANGED vars
    BY <1>1 DEF vars, SoloInv, RowStands, HasWait, HalfStopped
  <1>2. ASSUME NEW t \in Threads, ThreadStep(t) PROVE SoloInv'
    BY <1>2, ReadingSolo, WritingSolo, ReleaseSolo, DeletingSolo DEF ThreadStep
  <1> QED BY <1>1, <1>2, RequestSolo, CrashSolo, ClockSolo DEF Next

LEMMA InitSolo == Init => SoloInv
  BY DEF Init, SoloInv, RowStands, Calling, Idle

\* As long as no two calls work on one row at once, Stop is final: the row stays
\* cancelled and no step of it runs once the answer is given, whatever is requested,
\* fires, wakes or crashes afterwards.  The divergences of section 5 of the README are
\* therefore all overlaps.
THEOREM StopIsFinalAlone == Spec /\ []Apart => []StopIsFinal
  <1>1. IInv /\ SoloInv => StopIsFinal
    BY DEF IInv, TypeOK, SoloInv, StopIsFinal
  <1> QED BY <1>1, InitSolo, StepSolo, Invariance, PTL DEF Spec

\* And a waiting row always says what it waits for, so that something can wake it,
\* unless a Stop is between its last two writes or a crash cut one off there.
THEOREM WaitingHasWaitAlone == Spec /\ []Apart => []WaitingHasWait
  <1>1. SoloInv => WaitingHasWait
    BY DEF SoloInv, RowStands, HasWait, WaitingHasWait
  <1> QED BY <1>1, InitSolo, StepSolo, Invariance, PTL DEF Spec

-----------------------------------------------------------------------------
(* How often a step runs                                                   *)

\* The runs a row may have had of each step: its starts in s, and f faults.
Begun(s, f, r) == Cardinality({i \in DOMAIN s : s[i] = r}) + f

\* In the run counts n of a row that may be c, the steps from a on are one behind.
Owing(n, c, a) == \A k \in Chain : k >= a => n[k] < c

\* A thread that walks a row, with its position ahead of the progress on the row.
Walking == {"check", "step", "exec", "result", "clear"}

Walked(r) == \E t \in Threads : th[t].pc \in Walking /\ th[t].row = r

\* Where a thread with locals l may start or go on, the steps ahead are owing.
Owed(n, s, f, l) ==
    /\ l.pc \in {"check", "step", "exec"} \/ (l.pc = "claim" /\ ~l.fresh) =>
          Owing(n[l.row], Begun(s, f, l.row), l.at)
    /\ l.pc = "claim" /\ l.fresh => l.at = 1
    /\ l.pc = "release" => Owing(n[l.row], Begun(s, f, l.row), l.copy[l.row].at)
    /\ l.op = "fire" => \A r \in l.todo : Owing(n[r], Begun(s, f, r), l.copy[r].at)
    /\ Calling(l) => l.row \notin l.todo

\* Where the next run of a row starts, the steps ahead are owing.
RowOwed(r) ==
    db[r].here /\ db[r].progress # None /\ ~Walked(r) =>
        Owing(ran[r], Begun(starts, faults, r), db[r].progress.at)

OnceInv ==
    /\ \A r \in Rows : \A k \in Chain : ran[r][k] <= Begun(starts, faults, r)
    /\ \A t \in Threads : Owed(ran, starts, faults, th[t])
    /\ \A r \in Rows : RowOwed(r)

LEMMA StartsFinite ==
    ASSUME NEW s \in Seq(Rows), NEW r
    PROVE  /\ IsFiniteSet({i \in DOMAIN s : s[i] = r})
           /\ Cardinality({i \in DOMAIN s : s[i] = r}) \in Nat
  <1>1. DOMAIN s = 1..Len(s) /\ Len(s) \in Nat
    BY LenProperties
  <1>2. IsFiniteSet(1..Len(s))
    BY <1>1, FS_Interval
  <1>3. IsFiniteSet({i \in DOMAIN s : s[i] = r})
    BY <1>1, <1>2, FS_Subset
  <1> QED BY <1>3, FS_CardinalityType

\* A start adds one run to its row and takes none from another.
LEMMA StartCounts ==
    ASSUME NEW s \in Seq(Rows), NEW q \in Rows, NEW f \in Nat
    PROVE  /\ Begun(Append(s, q), f, q) = Begun(s, f, q) + 1
           /\ \A r \in Rows : r # q => Begun(Append(s, q), f, r) = Begun(s, f, r)
           /\ \A r \in Rows : Begun(s, f, r) \in Nat
  <1> DEFINE Of(r) == {i \in DOMAIN s : s[i] = r}
             Of2(r) == {i \in DOMAIN Append(s, q) : Append(s, q)[i] = r}
  <1>1. /\ DOMAIN s = 1..Len(s) /\ Len(s) \in Nat
        /\ DOMAIN Append(s, q) = 1..(Len(s) + 1)
        /\ \A i \in 1..Len(s) : Append(s, q)[i] = s[i]
        /\ Append(s, q)[Len(s) + 1] = q
    BY LenProperties, AppendProperties
  <1>2. Of2(q) = Of(q) \cup {Len(s) + 1} /\ Len(s) + 1 \notin Of(q)
    BY <1>1
  <1>3. \A r \in Rows : r # q => Of2(r) = Of(r)
    BY <1>1
  <1>4. \A r : IsFiniteSet(Of(r)) /\ Cardinality(Of(r)) \in Nat
    BY StartsFinite
  <1>5. /\ \A r : Begun(s, f, r) = Cardinality(Of(r)) + f
        /\ \A r : Begun(Append(s, q), f, r) = Cardinality(Of2(r)) + f
    BY DEF Begun
  <1> HIDE DEF Of, Of2
  <1>6. Cardinality(Of(q) \cup {Len(s) + 1}) = Cardinality(Of(q)) + 1
    BY <1>2, <1>4, FS_AddElement
  <1>7. Cardinality(Of2(q)) = Cardinality(Of(q)) + 1
    BY <1>2, <1>6
  <1> QED BY <1>3, <1>4, <1>5, <1>7

LEMMA BegunNat ==
    ASSUME IInv, NEW r
    PROVE  Begun(starts, faults, r) \in Nat /\ \A f \in Nat : Begun(starts, f, r) \in Nat
  <1>1. starts \in Seq(Rows) /\ faults \in Nat
    BY FaultsNat DEF IInv, TypeOK
  <1> DEFINE c == Cardinality({i \in DOMAIN starts : starts[i] = r})
  <1>2. c \in Nat
    BY <1>1, StartsFinite
  <1>3. \A f : Begun(starts, f, r) = c + f
    BY DEF Begun
  <1> HIDE DEF c
  <1> QED BY <1>1, <1>2, <1>3

\* What is owing stays owing when more may have run.
LEMMA OwingGrows ==
    ASSUME NEW n \in [Chain -> Nat], NEW c \in Nat, NEW d \in Nat, c <= d, NEW a,
           Owing(n, c, a)
    PROVE  Owing(n, d, a)
  BY DEF Owing

\* Shared by the steps in which no step of a chain runs.
LEMMA OnceKept ==
    ASSUME IInv, OnceInv, NEW t \in Threads, NEW l, th' = [th EXCEPT ![t] = l],
           ran' = ran, \A q \in Rows : Begun(starts', faults', q) \in Nat,
           \A q \in Rows : Begun(starts, faults, q) <= Begun(starts', faults', q),
           Owed(ran, starts', faults', l),
           \A q \in Rows :
              \/ db'[q] = db[q] /\ ~(th[t].pc \in Walking /\ th[t].row = q)
              \/ l.pc \in Walking /\ l.row = q
              \/ ~db'[q].here \/ db'[q].progress = None
              \/ Owing(ran[q], Begun(starts', faults', q), db'[q].progress.at)
    PROVE  OnceInv'
  <1>1. th'[t] = l /\ \A u \in Threads : u # t => th'[u] = th[u]
    BY DEF IInv, TypeOK
  <1>2. /\ \A q \in Rows : ran[q] \in [Chain -> Nat]
        /\ \A q \in Rows : Begun(starts, faults, q) \in Nat
    BY BegunNat DEF IInv, TypeOK
  <1>3. \A q \in Rows : \A a : Owing(ran[q], Begun(starts, faults, q), a)
                                   => Owing(ran[q], Begun(starts', faults', q), a)
    BY <1>2, OwingGrows
  <1>4. ASSUME NEW q \in Rows, NEW k \in Chain PROVE ran'[q][k] <= Begun(starts', faults', q)
    <2>1. ran[q][k] \in Nat /\ ran[q][k] <= Begun(starts, faults, q)
      BY <1>2 DEF OnceInv
    <2> QED BY <1>2, <2>1
  <1>5. ASSUME NEW u \in Threads PROVE Owed(ran', starts', faults', th'[u])
    <2>1. CASE u = t
      BY <1>1, <2>1
    <2>2. CASE u # t
      <3>1. th'[u] = th[u] /\ Owed(ran, starts, faults, th[u])
        BY <1>1, <2>2 DEF OnceInv
      <3>2. /\ Calling(th[u]) => th[u].row \in Rows
            /\ th[u].todo \subseteq Rows
        BY DEF IInv, TypeOK, Local, Located, Calling
      <3> QED BY <1>3, <3>1, <3>2 DEF Owed, Calling
    <2> QED BY <2>1, <2>2
  <1>6. ASSUME NEW q \in Rows PROVE RowOwed(q)'
    <2>1. CASE db'[q] = db[q] /\ ~(th[t].pc \in Walking /\ th[t].row = q)
      <3>1. Walked(q) => Walked(q)'
        BY <1>1, <2>1 DEF Walked
      <3>2. RowOwed(q)
        BY DEF OnceInv
      <3> QED BY <1>3, <2>1, <3>1, <3>2 DEF RowOwed
    <2>2. CASE l.pc \in Walking /\ l.row = q
      BY <1>1, <2>2 DEF RowOwed, Walked
    <2>3. CASE \/ ~db'[q].here \/ db'[q].progress = None
               \/ Owing(ran[q], Begun(starts', faults', q), db'[q].progress.at)
      BY <2>3 DEF RowOwed
    <2> QED BY <2>1, <2>2, <2>3
  <1> QED BY <1>4, <1>5, <1>6 DEF OnceInv

\* A row in the hands of a thread that does not walk it is walked by nobody.
LEMMA NotWalked ==
    ASSUME IInv, Apart, NEW t \in Threads, NEW r \in Rows, r \in Holds(th[t]),
           ~(th[t].pc \in Walking /\ th[t].row = r)
    PROVE  ~Walked(r)
  <1> SUFFICES ASSUME NEW u \in Threads, th[u].pc \in Walking, th[u].row = r PROVE FALSE
    BY DEF Walked
  <1>1. r \in Holds(th[u])
    BY HeldRow DEF Calling, Walking
  <1>2. u = t
    BY <1>1 DEF Apart
  <1> QED BY <1>2

\* What is owed where a call returns: only what a fire has still to release.
LEMMA ReturnedOwed ==
    ASSUME IInv, OnceInv, NEW t \in Threads
    PROVE  Owed(ran, starts, faults, Returned(t))
  <1>1. Owed(ran, starts, faults, th[t])
    BY DEF OnceInv
  <1>2. CASE th[t].todo = {}
    BY <1>2 DEF Returned, Owed, Idle, Calling
  <1>3. CASE th[t].todo # {}
    <2> DEFINE l == [Idle EXCEPT !.pc = "next", !.op = th[t].op, !.todo = th[t].todo,
                                 !.copy = th[t].copy]
    <2>1. Returned(t) = l
      BY <1>3 DEF Returned
    <2>2. l.pc = "next" /\ l.op = th[t].op /\ l.todo = th[t].todo /\ l.copy = th[t].copy
      BY DEF Idle
    <2> HIDE DEF l
    <2> QED BY <1>1, <2>1, <2>2 DEF Owed, Calling
  <1> QED BY <1>2, <1>3

\* A thread that moves to a place where nothing is owed keeps what its fire owes.
LEMMA MovedOwed ==
    ASSUME NEW n, NEW s, NEW f, NEW k, Owed(n, s, f, k), Calling(k), NEW l,
           l.pc \notin {"check", "step", "exec", "claim", "release"},
           l.op = k.op, l.todo = k.todo, l.copy = k.copy, l.row = k.row
    PROVE  Owed(n, s, f, l)
  BY DEF Owed

LEMMA SameBegun ==
    ASSUME IInv, starts' = starts, faults' = faults
    PROVE  /\ \A q \in Rows : Begun(starts', faults', q) \in Nat
           /\ \A q \in Rows : Begun(starts', faults', q) = Begun(starts, faults, q)
           /\ \A q \in Rows : Begun(starts, faults, q) <= Begun(starts', faults', q)
  <1>1. \A q \in Rows : Begun(starts', faults', q) = Begun(starts, faults, q)
    OBVIOUS
  <1>2. \A q \in Rows : Begun(starts, faults, q) \in Nat
    BY BegunNat
  <1> QED BY <1>1, <1>2

LEMMA RequestOnce ==
    ASSUME IInv, Apart', OnceInv, NEW t \in Threads, Request(t) \/ Wake(t)
    PROVE  OnceInv'
  <1>1. /\ db' = db /\ ran' = ran /\ starts' = starts /\ faults' = faults
        /\ th[t].pc = "idle"
    BY DEF Request, RequestRun, RequestStop, Fire, Wake, history
  <1>2. ASSUME NEW l, th' = [th EXCEPT ![t] = l], Owed(ran, starts, faults, l)
        PROVE  OnceInv'
    BY <1>1, <1>2, SameBegun, OnceKept DEF Walking
  <1>3. CASE \/ \E r \in Rows, given \in BOOLEAN : RequestRun(t, r, given)
             \/ \E r \in Rows : RequestStop(t, r)
             \/ Wake(t)
    <2> DEFINE Starts(l) == /\ th' = [th EXCEPT ![t] = l] /\ l.op \in {"run", "stop", "wake"}
                            /\ \/ l.pc \in {"read", "stopRead"} /\ l.todo = {}
                               \/ l.pc = "next"
    <2>0. \E l : Starts(l)
      <3>1. ASSUME NEW r \in Rows, NEW given \in BOOLEAN, RequestRun(t, r, given)
            PROVE  \E l : Starts(l)
        <4>1. Starts([Idle EXCEPT !.pc = "read", !.row = r, !.given = given])
          BY <3>1 DEF RequestRun, Idle
        <4> QED BY <4>1
      <3>2. ASSUME NEW r \in Rows, RequestStop(t, r)
            PROVE  \E l : Starts(l)
        <4>1. Starts([Idle EXCEPT !.pc = "stopRead", !.op = "stop", !.row = r])
          BY <3>2 DEF RequestStop, Idle
        <4> QED BY <4>1
      <3>3. CASE Wake(t)
        <4>1. Starts([Idle EXCEPT !.pc = "next", !.op = "wake", !.todo = DueRows])
          BY <3>3 DEF Wake, Idle
        <4> QED BY <4>1
      <3> QED BY <1>3, <3>1, <3>2, <3>3
    <2>1. PICK l : Starts(l)
      BY <2>0
    <2>2. Owed(ran, starts, faults, l)
      BY <2>1 DEF Owed, Calling
    <2> QED BY <1>2, <2>1, <2>2
  <1>4. CASE Fire(t)
    <2> DEFINE c == [r \in Rows |-> IF r \in EventWaiters THEN db[r].progress ELSE None]
               l == [Idle EXCEPT !.pc = "next", !.op = "fire", !.todo = EventWaiters,
                                 !.copy = c]
    <2>1. th' = [th EXCEPT ![t] = l]
      BY <1>4 DEF Fire
    <2>2. l.pc = "next" /\ l.op = "fire" /\ l.todo = EventWaiters /\ l.copy = c
      BY DEF Idle
    <2> HIDE DEF l
    <2>3. ASSUME NEW r \in EventWaiters PROVE Owing(ran[r], Begun(starts, faults, r), c[r].at)
      <3>1. r \in Rows /\ db[r].here /\ db[r].progress # None /\ c[r] = db[r].progress
        BY DEF EventWaiters
      <3>2. th'[t] = l /\ \A u \in Threads : u # t => th'[u] = th[u]
        BY <2>1 DEF IInv, TypeOK
      <3>3. r \in Holds(th'[t])
        BY <2>2, <3>1, <3>2 DEF Holds
      <3>4. ASSUME NEW u \in Threads, th[u].pc \in Walking, th[u].row = r PROVE FALSE
        <4>1. u # t /\ th'[u] = th[u]
          BY <1>1, <3>2, <3>4 DEF Walking
        <4>2. r \in Holds(th'[u])
          BY <3>1, <3>4, <4>1 DEF Holds, Calling, Walking
        <4> QED BY <3>3, <4>1, <4>2 DEF Apart
      <3>5. RowOwed(r)
        BY <3>1 DEF OnceInv
      <3> QED BY <3>1, <3>4, <3>5 DEF RowOwed, Walked
    <2>4. Owed(ran, starts, faults, l)
      BY <2>2, <2>3 DEF Owed, Calling
    <2> QED BY <1>2, <2>1, <2>4
  <1> QED BY <1>3, <1>4 DEF Request

LEMMA ReadingOnce ==
    ASSUME IInv, Apart, OnceInv, NEW t \in Threads,
           \/ \E r \in Rows : NextRow(t, r)
           \/ ReadAway(t) \/ Read(t) \/ Check(t) \/ PurgeSelect(t) \/ StopRead(t)
    PROVE  OnceInv'
  <1>1. /\ db' = db /\ ran' = ran /\ starts' = starts /\ faults' = faults
        /\ th[t] \in Local /\ Owed(ran, starts, faults, th[t])
    BY DEF NextRow, ReadAway, Read, Check, PurgeSelect, StopRead, history, OnceInv, IInv,
           TypeOK
  <1>2. ASSUME NEW l, th' = [th EXCEPT ![t] = l], Owed(ran, starts, faults, l),
               \/ th[t].pc \notin Walking
               \/ l.pc \in Walking /\ l.row = th[t].row
        PROVE  OnceInv'
    <2>1. \A q \in Rows :
              \/ db'[q] = db[q] /\ ~(th[t].pc \in Walking /\ th[t].row = q)
              \/ l.pc \in Walking /\ l.row = q
      BY <1>1, <1>2
    <2> QED BY <1>1, <1>2, <2>1, SameBegun, OnceKept
  <1>3. ASSUME NEW r \in Rows, NextRow(t, r) PROVE OnceInv'
    <2> DEFINE pc == IF th[t].op = "fire" THEN "release" ELSE "read"
               l == [th[t] EXCEPT !.pc = IF th[t].op = "fire" THEN "release" ELSE "read",
                                  !.row = r, !.todo = @ \ {r}]
    <2>1. th' = [th EXCEPT ![t] = l] /\ th[t].pc = "next" /\ r \in th[t].todo
      BY <1>3 DEF NextRow
    <2>2. /\ l.pc = pc /\ l.row = r /\ l.todo = th[t].todo \ {r}
          /\ l.op = th[t].op /\ l.copy = th[t].copy
      BY <1>1 DEF Local
    <2> HIDE DEF l
    <2>3. Owed(ran, starts, faults, l)
      BY <1>1, <2>1, <2>2 DEF Owed
    <2> QED BY <1>2, <2>1, <2>3 DEF Walking
  <1>4. CASE ReadAway(t)
    BY <1>2, <1>4, ReturnedOwed DEF ReadAway, Return, Walking
  <1>5. CASE Read(t)
    <2>1. PICK r \in Rows : r = th[t].row
      BY <1>5 DEF Read, IInv, Located
    <2> DEFINE p == db[th[t].row].progress
               l == [th[t] EXCEPT !.pc = "claim", !.fresh = (p = None),
                                  !.at = IF p = None THEN 1 ELSE ResumeAt(p),
                                  !.minted = (p # None),
                                  !.resumed = (p # None /\ p.wait # "none")]
    <2>2. th' = [th EXCEPT ![t] = l] /\ th[t].pc = "read" /\ db[r].here
      BY <1>5, <2>1 DEF Read, SentAway
    <2>3. ~Walked(r)
      <3>1. r \in Holds(th[t])
        BY <2>1, <2>2, HeldRow DEF Calling
      <3> QED BY <2>2, <3>1, NotWalked DEF Walking
    <2>4. p # None => Owing(ran[r], Begun(starts, faults, r), p.at)
      BY <2>1, <2>2, <2>3 DEF OnceInv, RowOwed
    <2> HIDE DEF p
    <2>5. /\ l.pc = "claim" /\ l.fresh = (p = None) /\ l.row = r
          /\ l.at = IF p = None THEN 1 ELSE p.at
          /\ l.op = th[t].op /\ l.todo = th[t].todo /\ l.copy = th[t].copy
      BY <1>1, <2>1 DEF Local, ResumeAt
    <2> HIDE DEF l
    <2>6. Owed(ran, starts, faults, l)
      BY <1>1, <2>1, <2>2, <2>4, <2>5 DEF Owed, Calling
    <2> QED BY <1>2, <2>2, <2>6 DEF Walking
  <1>6. CASE Check(t)
    <2> DEFINE done == [th[t] EXCEPT !.pc = "result", !.outcome = "done", !.to = "inactive"]
               cut  == [th[t] EXCEPT !.pc = "result", !.outcome = "cancelled",
                                     !.to = "cancelled"]
               on   == [th[t] EXCEPT !.pc = "step"]
               Same(l) == /\ l.row = th[t].row /\ l.at = th[t].at /\ l.op = th[t].op
                          /\ l.todo = th[t].todo /\ l.copy = th[t].copy
    <2>1. /\ \/ th' = [th EXCEPT ![t] = done]
             \/ th' = [th EXCEPT ![t] = cut]
             \/ th' = [th EXCEPT ![t] = on]
          /\ th[t].pc = "check"
      BY <1>6 DEF Check
    <2>2. done.pc = "result" /\ Same(done)
      BY <1>1 DEF Local
    <2>3. cut.pc = "result" /\ Same(cut)
      BY <1>1 DEF Local
    <2>4. on.pc = "step" /\ Same(on)
      BY <1>1 DEF Local
    <2> HIDE DEF done, cut, on
    <2>5. \A l : Same(l) /\ l.pc \in {"result", "step"} => Owed(ran, starts, faults, l)
      BY <1>1, <2>1 DEF Owed, Calling
    <2> QED BY <1>2, <2>1, <2>2, <2>3, <2>4, <2>5 DEF Walking
  <1>7. CASE PurgeSelect(t)
    <2> DEFINE l == [th[t] EXCEPT !.pc = "delete", !.doomed = Purgeable(t)]
    <2>1. th' = [th EXCEPT ![t] = l] /\ th[t].pc = "select"
      BY <1>7 DEF PurgeSelect
    <2>2. /\ l.pc = "delete" /\ l.row = th[t].row /\ l.op = th[t].op
          /\ l.todo = th[t].todo /\ l.copy = th[t].copy
      BY <1>1 DEF Local
    <2> HIDE DEF l
    <2>3. Owed(ran, starts, faults, l)
      BY <1>1, <2>1, <2>2, MovedOwed DEF Calling
    <2> QED BY <1>2, <2>1, <2>3 DEF Walking
  <1>8. CASE StopRead(t)
    <2> DEFINE l == [th[t] EXCEPT !.pc = "stopResult"]
    <2>1. th' = [th EXCEPT ![t] = l] \/ th' = [th EXCEPT ![t] = Returned(t)]
      BY <1>8 DEF StopRead, GoTo, Return
    <2>2. /\ l.pc = "stopResult" /\ l.row = th[t].row /\ l.op = th[t].op
          /\ l.todo = th[t].todo /\ l.copy = th[t].copy
      BY <1>1 DEF Local
    <2>3. th[t].pc = "stopRead"
      BY <1>8 DEF StopRead
    <2> HIDE DEF l
    <2>4. Owed(ran, starts, faults, l)
      BY <1>1, <2>2, <2>3, MovedOwed DEF Calling
    <2> QED BY <1>2, <2>1, <2>3, <2>4, ReturnedOwed DEF Walking
  <1> QED BY <1>3, <1>4, <1>5, <1>6, <1>7, <1>8

\* A thread in a call writes its row, and goes on with the call or returns from it.
LEMMA OnceWrites ==
    ASSUME IInv, Apart, OnceInv, NEW t \in Threads, Calling(th[t]),
           NEW r \in Rows, r = th[t].row,
           ran' = ran, starts' = starts, faults' = faults,
           NEW l, th' = [th EXCEPT ![t] = l], Owed(ran, starts, faults, l),
           NEW new, Put(r, new), new.here = db[r].here,
           \/ l.pc \in Walking /\ l.row = r
           \/ new.progress = None
           \/ Owing(ran[r], Begun(starts, faults, r), new.progress.at)
           \/ th[t].pc \notin Walking /\ new.progress = db[r].progress
    PROVE  OnceInv'
  <1>1. \A q \in Rows : db'[q] = IF q = r THEN IF db[r].here THEN new ELSE db[r] ELSE db[q]
    BY DEF Put, IInv, TypeOK
  <1>2. CASE \/ l.pc \in Walking /\ l.row = r
             \/ new.progress = None
             \/ Owing(ran[r], Begun(starts, faults, r), new.progress.at)
    <2>1. \A q \in Rows :
              \/ db'[q] = db[q] /\ ~(th[t].pc \in Walking /\ th[t].row = q)
              \/ l.pc \in Walking /\ l.row = q
              \/ ~db'[q].here \/ db'[q].progress = None
              \/ Owing(ran[q], Begun(starts', faults', q), db'[q].progress.at)
      BY <1>1, <1>2
    <2> QED BY <2>1, SameBegun, OnceKept
  <1>3. CASE th[t].pc \notin Walking /\ new.progress = db[r].progress
    <2>1. ~Walked(r)
      BY <1>3, HeldRow, NotWalked
    <2>2. db[r].here /\ db[r].progress # None =>
             Owing(ran[r], Begun(starts, faults, r), new.progress.at)
      BY <1>3, <2>1 DEF OnceInv, RowOwed
    <2>3. \A q \in Rows :
              \/ db'[q] = db[q] /\ ~(th[t].pc \in Walking /\ th[t].row = q)
              \/ ~db'[q].here \/ db'[q].progress = None
              \/ Owing(ran[q], Begun(starts', faults', q), db'[q].progress.at)
      BY <1>1, <1>3, <2>2
    <2> QED BY <2>3, SameBegun, OnceKept
  <1> QED BY <1>2, <1>3

LEMMA WritingOnce ==
    ASSUME IInv, Apart, OnceInv, NEW t \in Threads,
           \/ Release(t) \/ SaveAndLeave(t) \/ LeaveStatus(t) \/ SaveMinted(t)
           \/ RaiseStatus(t) \/ RaiseResult(t)
           \/ FinishResult(t) \/ FinishClear(t) \/ FinishStatus(t)
           \/ StopResult(t) \/ StopClear(t) \/ StopStatus(t)
    PROVE  OnceInv'
  <1>1. PICK r : r = th[t].row
    OBVIOUS
  <1> DEFINE row == db[r]
             At(pc) == [th[t] EXCEPT !.pc = pc]
  <1>2. /\ Calling(th[t])
        /\ ran' = ran /\ starts' = starts /\ faults' = faults
    BY DEF Calling, Release, SaveAndLeave, LeaveStatus, SaveMinted, RaiseStatus,
           RaiseResult, FinishResult, FinishClear, FinishStatus, StopResult, StopClear,
           StopStatus, history
  <1>3. r \in Rows /\ row \in RowType /\ th[t] \in Local /\ Owed(ran, starts, faults, th[t])
    BY <1>1, <1>2 DEF Calling, OnceInv, IInv, TypeOK, Located
  <1>4. \A pc : /\ At(pc).pc = pc /\ At(pc).row = r /\ At(pc).at = th[t].at
                /\ At(pc).op = th[t].op /\ At(pc).todo = th[t].todo /\ At(pc).copy = th[t].copy
    BY <1>1, <1>3 DEF Local
  \* Where the call returns, and where it goes on to a place where nothing is owed.
  <1>5. Owed(ran, starts, faults, Returned(t))
    BY ReturnedOwed
  <1>6. \A pc \in {"read", "explain", "clear", "status", "select", "stopClear", "stopStatus"} :
           Owed(ran, starts, faults, At(pc))
    BY <1>1, <1>2, <1>3, <1>4, MovedOwed
  \* What is left to show of each action.
  <1>7. ASSUME NEW new, NEW l, Put(r, new), th' = [th EXCEPT ![t] = l],
               Owed(ran, starts, faults, l), new.here = row.here,
               \/ l.pc \in Walking /\ l.row = r
               \/ new.progress = None
               \/ Owing(ran[r], Begun(starts, faults, r), new.progress.at)
               \/ th[t].pc \notin Walking /\ new.progress = row.progress
        PROVE  OnceInv'
    BY <1>1, <1>2, <1>3, <1>7, OnceWrites
  <1>8. \A s : LET new == [row EXCEPT !.status = s]
               IN  new.here = row.here /\ new.progress = row.progress
    BY <1>3 DEF RowType
  <1>9. \A p : LET new == [row EXCEPT !.progress = p]
               IN  new.here = row.here /\ new.progress = p
    BY <1>3 DEF RowType
  <1>10. \A o : LET new == [row EXCEPT !.result = o]
                IN  new.here = row.here /\ new.progress = row.progress
    BY <1>3 DEF RowType
  <1>11. CASE Release(t)
    <2> DEFINE p == [th[t].copy[r] EXCEPT !.wait = "released"]
               new == [row EXCEPT !.progress = p]
    <2>1. Put(r, new) /\ th' = [th EXCEPT ![t] = At("read")] /\ th[t].pc = "release"
      BY <1>1, <1>11 DEF Release, SetProgress, GoTo
    <2>2. p.at = th[t].copy[r].at
      BY <1>1, <2>1 DEF IInv, Located, Progress
    <2> HIDE DEF p
    <2>3. new.here = row.here /\ new.progress = p
      BY <1>9
    <2>4. Owing(ran[r], Begun(starts, faults, r), p.at)
      BY <1>1, <1>3, <2>1, <2>2 DEF Owed
    <2> HIDE DEF new, At
    <2> QED BY <1>6, <1>7, <2>1, <2>3, <2>4
  <1>12. CASE SaveAndLeave(t)
    <2> DEFINE p == [at |-> th[t].at, wait |-> WaitOf(t)]
               new == [row EXCEPT !.progress = p]
               l == [th[t] EXCEPT !.pc = "leave", !.to = ParksAs(t)]
    <2>1. Put(r, new) /\ th' = [th EXCEPT ![t] = l] /\ th[t].pc = "step"
      BY <1>1, <1>12 DEF SaveAndLeave, SetProgress
    <2>2. /\ l.pc = "leave" /\ l.row = r /\ l.op = th[t].op
          /\ l.todo = th[t].todo /\ l.copy = th[t].copy
      BY <1>1, <1>3 DEF Local
    <2>3. p.at = th[t].at
      OBVIOUS
    <2> HIDE DEF p, l
    <2>4. new.here = row.here /\ new.progress = p
      BY <1>9
    <2> HIDE DEF new
    <2>5. Owing(ran[r], Begun(starts, faults, r), p.at)
      BY <1>1, <1>3, <2>1, <2>3 DEF Owed
    <2>6. Owed(ran, starts, faults, l)
      BY <1>1, <1>2, <1>3, <2>2, MovedOwed
    <2> QED BY <1>7, <2>1, <2>4, <2>5, <2>6
  <1>13. CASE SaveMinted(t)
    <2> DEFINE new == [row EXCEPT !.progress = [at |-> th[t].at, wait |-> "none"]]
    <2>1. Put(r, new) /\ th' = [th EXCEPT ![t] = At("exec")] /\ th[t].pc = "step"
      BY <1>1, <1>13 DEF SaveMinted, SetProgress, GoTo
    <2>2. new.here = row.here
      BY <1>9
    <2>3. At("exec").pc \in Walking /\ At("exec").row = r
      BY <1>4 DEF Walking
    <2> HIDE DEF new
    <2>4. Owed(ran, starts, faults, At("exec"))
      <3> HIDE DEF At
      <3> QED BY <1>1, <1>3, <1>4, <2>1 DEF Owed, Calling
    <2> HIDE DEF At
    <2> QED BY <1>7, <2>1, <2>2, <2>3, <2>4
  <1>14. CASE FinishResult(t)
    <2> DEFINE new == [row EXCEPT !.result = th[t].outcome]
    <2>1. Put(r, new) /\ th' = [th EXCEPT ![t] = At("clear")]
      BY <1>1, <1>14 DEF FinishResult, SetResult, GoTo
    <2>2. new.here = row.here
      BY <1>10
    <2>3. At("clear").pc \in Walking /\ At("clear").row = r
      BY <1>4 DEF Walking
    <2> HIDE DEF new, At
    <2> QED BY <1>6, <1>7, <2>1, <2>2, <2>3
  <1>15. CASE FinishClear(t) \/ StopClear(t)
    <2> DEFINE new == [row EXCEPT !.progress = None]
    <2>1. Put(r, new)
      BY <1>1, <1>15 DEF FinishClear, StopClear, SetProgress
    <2>2. PICK pc \in {"status", "stopStatus"} : th' = [th EXCEPT ![t] = At(pc)]
      BY <1>15 DEF FinishClear, StopClear, GoTo
    <2>3. new.here = row.here /\ new.progress = None
      BY <1>9
    <2> HIDE DEF new, At
    <2> QED BY <1>6, <1>7, <2>1, <2>2, <2>3
  <1>16. CASE \/ LeaveStatus(t) \/ RaiseStatus(t) \/ FinishStatus(t) \/ StopStatus(t)
    <2> DEFINE New(s) == [row EXCEPT !.status = s]
    <2>1. PICK s : Put(r, New(s))
      BY <1>1, <1>16 DEF LeaveStatus, RaiseStatus, FinishStatus, StopStatus, SetStatus
    <2>2. \/ th' = [th EXCEPT ![t] = At("explain")]
          \/ th' = [th EXCEPT ![t] = At("select")]
          \/ th' = [th EXCEPT ![t] = Returned(t)]
      BY <1>16 DEF LeaveStatus, RaiseStatus, FinishStatus, StopStatus, GoTo, Return
    <2>3. th[t].pc \notin Walking
      BY <1>16 DEF LeaveStatus, RaiseStatus, FinishStatus, StopStatus, Walking
    <2>4. New(s).here = row.here /\ New(s).progress = row.progress
      BY <1>8
    <2> HIDE DEF New, At
    <2> QED BY <1>5, <1>6, <1>7, <2>1, <2>2, <2>3, <2>4
  <1>17. CASE RaiseResult(t) \/ StopResult(t)
    <2> DEFINE New(o) == [row EXCEPT !.result = o]
    <2>1. PICK o : Put(r, New(o))
      BY <1>1, <1>17 DEF RaiseResult, StopResult, SetResult
    <2>2. \/ th' = [th EXCEPT ![t] = At("stopClear")]
          \/ th' = [th EXCEPT ![t] = Returned(t)]
      BY <1>17 DEF RaiseResult, StopResult, GoTo, Return
    <2>3. th[t].pc \notin Walking
      BY <1>17 DEF RaiseResult, StopResult, Walking
    <2>4. New(o).here = row.here /\ New(o).progress = row.progress
      BY <1>10
    <2> HIDE DEF New, At
    <2> QED BY <1>5, <1>6, <1>7, <2>1, <2>2, <2>3, <2>4
  <1> QED BY <1>11, <1>12, <1>13, <1>14, <1>15, <1>16, <1>17

LEMMA ClaimOnce ==
    ASSUME IInv, Apart, OnceInv, NEW t \in Threads, Claim(t)
    PROVE  OnceInv'
  <1>1. PICK r : r = th[t].row
    OBVIOUS
  <1> DEFINE l == [th[t] EXCEPT !.pc = "check"]
  <1>2. /\ th[t].pc = "claim" /\ th' = [th EXCEPT ![t] = l] /\ Put(r, Claimed(t))
        /\ starts' = (IF th[t].fresh THEN Append(starts, r) ELSE starts)
        /\ ran' = ran /\ faults' = faults
    BY <1>1 DEF Claim, GoTo
  <1>3. r \in Rows /\ th[t] \in Local /\ db[r] \in RowType /\ Owed(ran, starts, faults, th[t])
        /\ th[t].todo \subseteq Rows /\ Calling(th[t])
    BY <1>1, <1>2 DEF Calling, OnceInv, IInv, TypeOK, Located, Local
  <1>4. /\ l.pc = "check" /\ l.row = r /\ l.at = th[t].at /\ l.op = th[t].op
        /\ l.todo = th[t].todo /\ l.copy = th[t].copy
    BY <1>1, <1>3 DEF Local
  <1> HIDE DEF l
  <1>5. /\ starts \in Seq(Rows) /\ faults \in Nat
        /\ \A q \in Rows : ran[q] \in [Chain -> Nat] /\ Begun(starts, faults, q) \in Nat
    BY FaultsNat, BegunNat DEF IInv, TypeOK
  <1>6. /\ \A q \in Rows : /\ Begun(starts', faults', q) \in Nat
                           /\ Begun(starts, faults, q) <= Begun(starts', faults', q)
        /\ th[t].fresh => Begun(starts', faults', r) = Begun(starts, faults, r) + 1
    <2>1. CASE th[t].fresh
      <3>1. /\ Begun(starts', faults', r) = Begun(starts, faults, r) + 1
            /\ \A q \in Rows : q # r => Begun(starts', faults', q) = Begun(starts, faults, q)
        BY <1>2, <1>3, <1>5, <2>1, StartCounts
      <3> QED BY <1>5, <3>1
    <2>2. CASE ~th[t].fresh
      BY <1>2, <1>5, <2>2
    <2> QED BY <2>1, <2>2
  <1>7. \A q \in Rows : \A a : Owing(ran[q], Begun(starts, faults, q), a)
                                   => Owing(ran[q], Begun(starts', faults', q), a)
    BY <1>5, <1>6, OwingGrows
  <1>8. Owing(ran[r], Begun(starts', faults', r), th[t].at)
    <2>1. CASE th[t].fresh
      <3>1. \A k \in Chain : ran[r][k] \in Nat /\ ran[r][k] <= Begun(starts, faults, r)
        BY <1>3, <1>5 DEF OnceInv
      <3>2. \A k \in Chain : ran[r][k] < Begun(starts', faults', r)
        BY <1>3, <1>5, <1>6, <2>1, <3>1
      <3> QED BY <3>2 DEF Owing
    <2>2. CASE ~th[t].fresh
      BY <1>1, <1>2, <1>3, <1>7, <2>2 DEF Owed
    <2> QED BY <2>1, <2>2
  <1>9. Owed(ran, starts', faults', l)
    BY <1>1, <1>3, <1>4, <1>7, <1>8 DEF Owed, Calling
  <1>10. \A q \in Rows : q # r => db'[q] = db[q]
    BY <1>2, <1>3 DEF Put, IInv, TypeOK
  <1>11. \A q \in Rows :
            \/ db'[q] = db[q] /\ ~(th[t].pc \in Walking /\ th[t].row = q)
            \/ l.pc \in Walking /\ l.row = q
    BY <1>1, <1>4, <1>10 DEF Walking
  <1> QED BY <1>2, <1>6, <1>9, <1>11, OnceKept

\* The one step in which a step of the chain runs.
LEMMA ExecuteOnce ==
    ASSUME IInv, Apart, OnceInv, NEW t \in Threads, Execute(t)
    PROVE  OnceInv'
  <1>1. PICK r, k : r = th[t].row /\ k = th[t].at
    OBVIOUS
  <1> DEFINE l == [th[t] EXCEPT !.pc = "check", !.at = @ + 1, !.resumed = FALSE,
                                !.minted = FALSE]
  <1>2. /\ th[t].pc \in {"step", "exec"} /\ th' = [th EXCEPT ![t] = l]
        /\ ran' = [ran EXCEPT ![r][k] = @ + 1]
        /\ starts' = starts /\ faults' = faults /\ db' = db
    BY <1>1 DEF Execute, Ready
  <1>3. /\ r \in Rows /\ k \in Chain /\ th[t] \in Local /\ Owed(ran, starts, faults, th[t])
        /\ Calling(th[t]) /\ Located(th[t])
    BY <1>1, <1>2 DEF Calling, OnceInv, IInv, TypeOK, Located
  <1>4. /\ l.pc = "check" /\ l.row = r /\ l.at = k + 1 /\ l.op = th[t].op
        /\ l.todo = th[t].todo /\ l.copy = th[t].copy
    BY <1>1, <1>3 DEF Local
  <1> HIDE DEF l
  <1>5. \A q \in Rows : /\ Begun(starts', faults', q) = Begun(starts, faults, q)
                        /\ Begun(starts, faults, q) \in Nat
    BY <1>2, BegunNat
  <1>6. /\ \A q \in Rows : q # r => ran'[q] = ran[q]
        /\ \A j \in Chain : ran'[r][j] = IF j = k THEN ran[r][k] + 1 ELSE ran[r][j]
        /\ \A q \in Rows : ran[q] \in [Chain -> Nat]
    BY <1>2, <1>3 DEF IInv, TypeOK
  <1>7. Owing(ran[r], Begun(starts, faults, r), k)
    BY <1>1, <1>2, <1>3 DEF Owed
  <1>8. k \in Nat
    BY <1>3, ChainAssumption DEF Chain
  <1>9. th'[t] = l /\ \A u \in Threads : u # t => th'[u] = th[u]
    BY <1>2 DEF IInv, TypeOK
  <1>10. r \in Holds(th[t])
    BY <1>1, <1>3, HeldRow
  <1>11. ASSUME NEW q \in Rows, NEW j \in Chain
         PROVE  ran'[q][j] <= Begun(starts', faults', q)
    <2>1. ran[q][j] \in Nat /\ ran[q][j] <= Begun(starts, faults, q)
      BY <1>6 DEF OnceInv
    <2>2. ran[r][k] < Begun(starts, faults, r) /\ ran[r][k] \in Nat
      BY <1>3, <1>6, <1>7, <1>8 DEF Owing
    <2> QED BY <1>3, <1>5, <1>6, <2>1, <2>2
  <1>12. ASSUME NEW u \in Threads PROVE Owed(ran', starts', faults', th'[u])
    <2>1. CASE u = t
      <3>1. Owing(ran'[r], Begun(starts', faults', r), k + 1)
        <4>1. \A j \in Chain : j >= k + 1 => j # k /\ j >= k /\ j \in Nat
          BY <1>8, ChainAssumption DEF Chain
        <4> QED BY <1>3, <1>5, <1>6, <1>7, <4>1 DEF Owing
      <3>2. l.op = "fire" => \A q \in l.todo : /\ q # r /\ q \in Rows
                                 /\ Owing(ran'[q], Begun(starts', faults', q), l.copy[q].at)
        <4>1. r \notin th[t].todo
          BY <1>1, <1>3 DEF Owed
        <4>2. th[t].todo \subseteq Rows
          BY <1>3 DEF Local
        <4> QED BY <1>3, <1>4, <1>5, <1>6, <4>1, <4>2 DEF Owed
      <3>3. r \notin l.todo
        BY <1>1, <1>3, <1>4 DEF Owed
      <3> QED BY <1>4, <1>9, <2>1, <3>1, <3>2, <3>3 DEF Owed
    <2>2. CASE u # t
      <3>1. th'[u] = th[u] /\ Owed(ran, starts, faults, th[u])
        BY <1>9, <2>2 DEF OnceInv
      <3>2. r \notin Holds(th[u])
        BY <1>10, <2>2 DEF Apart
      <3>3. Calling(th[u]) => th[u].row \in Rows /\ th[u].row # r
        BY <3>2, HeldRow
      <3>4. th[u].op = "fire" => \A q \in th[u].todo : q \in Rows /\ q # r
        <4>1. th[u].todo \subseteq Rows
          BY DEF IInv, TypeOK, Local
        <4> QED BY <3>2, <4>1 DEF Holds
      <3> QED BY <1>5, <1>6, <3>1, <3>3, <3>4 DEF Owed, Calling
    <2> QED BY <2>1, <2>2
  <1>13. ASSUME NEW q \in Rows PROVE RowOwed(q)'
    <2>1. CASE q = r
      BY <1>4, <1>9, <2>1 DEF RowOwed, Walked, Walking
    <2>2. CASE q # r
      <3>1. Walked(q) => Walked(q)'
        BY <1>1, <1>9, <2>2 DEF Walked
      <3>2. RowOwed(q)
        BY DEF OnceInv
      <3> QED BY <1>2, <1>5, <1>6, <2>2, <3>1, <3>2 DEF RowOwed
    <2> QED BY <2>1, <2>2
  <1> QED BY <1>11, <1>12, <1>13 DEF OnceInv

\* A fault makes every step of every row owing.
LEMMA FaultOwes ==
    ASSUME IInv, OnceInv, starts' = starts, faults' = faults + 1
    PROVE  /\ \A q \in Rows : Begun(starts', faults', q) \in Nat
           /\ \A q \in Rows : Begun(starts, faults, q) <= Begun(starts', faults', q)
           /\ \A q \in Rows : \A a : Owing(ran[q], Begun(starts', faults', q), a)
  <1> DEFINE c(q) == Cardinality({i \in DOMAIN starts : starts[i] = q})
  <1>1. \A q : c(q) \in Nat
    BY StartsFinite DEF IInv, TypeOK
  <1>2. \A q : Begun(starts, faults, q) = c(q) + faults
               /\ Begun(starts', faults', q) = c(q) + (faults + 1)
    BY DEF Begun
  <1> HIDE DEF c
  <1>3. faults \in Nat
    BY FaultsNat
  <1>4. \A q \in Rows : /\ Begun(starts, faults, q) \in Nat
                        /\ Begun(starts', faults', q) = Begun(starts, faults, q) + 1
    BY <1>1, <1>2, <1>3
  <1>5. \A q \in Rows, k \in Chain : ran[q][k] \in Nat /\ ran[q][k] <= Begun(starts, faults, q)
    BY DEF OnceInv, IInv, TypeOK
  <1>6. \A q \in Rows, k \in Chain : ran[q][k] < Begun(starts', faults', q)
    BY <1>4, <1>5
  <1>7. \A q \in Rows : \A a : Owing(ran[q], Begun(starts', faults', q), a)
    BY <1>6 DEF Owing
  <1> QED BY <1>4, <1>7

LEMMA RaisingOnce ==
    ASSUME IInv, OnceInv, NEW t \in Threads, ExecuteRaises(t)
    PROVE  OnceInv'
  <1> DEFINE l == [th[t] EXCEPT !.pc = "raise"]
  <1>1. /\ th' = [th EXCEPT ![t] = l] /\ db' = db /\ ran' = ran
        /\ starts' = starts /\ faults' = faults + 1
        /\ th[t].pc \in {"step", "exec"}
    BY DEF ExecuteRaises, GoTo, Ready, history
  <1>2. th[t] \in Local /\ Owed(ran, starts, faults, th[t]) /\ Calling(th[t])
    BY <1>1 DEF OnceInv, IInv, TypeOK, Calling
  <1>3. /\ l.pc = "raise" /\ l.row = th[t].row /\ l.op = th[t].op
        /\ l.todo = th[t].todo /\ l.copy = th[t].copy
    BY <1>2 DEF Local
  <1> HIDE DEF l
  <1>4. th[t].todo \subseteq Rows
    BY <1>2 DEF Local
  <1>5. Owed(ran, starts', faults', l)
    BY <1>1, <1>2, <1>3, <1>4, FaultOwes DEF Owed
  <1> QED BY <1>1, <1>5, FaultOwes, OnceKept

LEMMA DeletingOnce ==
    ASSUME IInv, OnceInv, NEW t \in Threads, PurgeDelete(t)
    PROVE  OnceInv'
  <1>1. /\ th' = [th EXCEPT ![t] = Returned(t)] /\ ran' = ran /\ starts' = starts
        /\ faults' = faults /\ th[t].pc = "delete"
        /\ \A q \in Rows : db'[q] = IF q \in th[t].doomed THEN [db[q] EXCEPT !.here = FALSE]
                                                         ELSE db[q]
    BY DEF PurgeDelete, Return, history
  <1>2. \A q \in Rows : db'[q] = db[q] \/ ~db'[q].here
    BY <1>1 DEF IInv, TypeOK, RowType
  <1>3. th[t].pc \notin Walking
    BY <1>1 DEF Walking
  <1> QED BY <1>1, <1>2, <1>3, ReturnedOwed, SameBegun, OnceKept

LEMMA OutsideOnce ==
    ASSUME IInv, OnceInv, Crash \/ \E r \in Rows : ClockPasses(r)
    PROVE  OnceInv'
  <1>1. CASE Crash
    <2>1. /\ db' = db /\ ran' = ran /\ starts' = starts /\ faults' = faults + 1
          /\ \A t \in Threads : th'[t] = Idle
      BY <1>1 DEF Crash, history
    <2>2. ASSUME NEW q \in Rows, NEW k \in Chain PROVE ran'[q][k] <= Begun(starts', faults', q)
      <3>1. ran[q][k] \in Nat /\ ran[q][k] <= Begun(starts, faults, q)
        BY DEF OnceInv, IInv, TypeOK
      <3>2. /\ Begun(starts, faults, q) \in Nat /\ Begun(starts', faults', q) \in Nat
            /\ Begun(starts, faults, q) <= Begun(starts', faults', q)
        BY <2>1, FaultOwes, BegunNat
      <3> QED BY <2>1, <3>1, <3>2
    <2>3. \A t \in Threads : Owed(ran', starts', faults', th'[t])
      BY <2>1 DEF Owed, Idle, Calling
    <2>4. \A q \in Rows : RowOwed(q)'
      BY <2>1, FaultOwes DEF RowOwed
    <2> QED BY <2>2, <2>3, <2>4 DEF OnceInv
  <1>2. ASSUME NEW r \in Rows, ClockPasses(r) PROVE OnceInv'
    <2>1. th' = th /\ ran' = ran /\ starts' = starts /\ faults' = faults
      BY <1>2 DEF ClockPasses, history
    <2>2. \A q \in Rows : /\ db'[q].here = db[q].here
                          /\ db'[q].progress # None => /\ db[q].progress # None
                                                       /\ db'[q].progress.at = db[q].progress.at
      <3>1. db[r].progress \in Progress
        BY <1>2 DEF ClockPasses, IInv, TypeOK, RowType
      <3> QED BY <1>2, <3>1 DEF ClockPasses, IInv, TypeOK, RowType, Progress
    <2> QED BY <2>1, <2>2 DEF OnceInv, RowOwed, Walked
  <1> QED BY <1>1, <1>2

LEMMA StepOnceKept == IInv /\ Apart /\ Apart' /\ OnceInv /\ [Next]_vars => OnceInv'
  <1> SUFFICES ASSUME IInv, Apart, Apart', OnceInv, [Next]_vars PROVE OnceInv'
    OBVIOUS
  <1>1. CASE UNCHANGED vars
    BY <1>1 DEF vars, OnceInv, RowOwed, Walked
  <1>2. ASSUME NEW t \in Threads, ThreadStep(t) PROVE OnceInv'
    BY <1>2, ReadingOnce, WritingOnce, ClaimOnce, ExecuteOnce, RaisingOnce, DeletingOnce
    DEF ThreadStep
  <1> QED BY <1>1, <1>2, RequestOnce, OutsideOnce DEF Next

LEMMA InitOnce == Init => OnceInv
  <1> SUFFICES ASSUME Init PROVE OnceInv
    OBVIOUS
  <1>1. \A r \in Rows : Begun(starts, faults, r) \in Nat
    BY InitInv, BegunNat
  <1>2. \A r \in Rows, k \in Chain : ran[r][k] <= Begun(starts, faults, r)
    BY <1>1 DEF Init
  <1>3. \A t \in Threads : Owed(ran, starts, faults, th[t])
    BY DEF Init, Owed, Idle, Calling
  <1>4. \A r \in Rows : RowOwed(r)
    BY DEF Init, RowOwed
  <1> QED BY <1>2, <1>3, <1>4 DEF OnceInv

\* As long as no two calls work on one row at once, no step of a run is repeated but
\* after a crash or a raise: parks, wakes, releases and resumes start where the row's
\* last walk stopped.
THEOREM StepOnceAlone == Spec /\ []Apart => []StepOnce
  <1>1. OnceInv => StepOnce
    BY DEF OnceInv, Begun, StepOnce
  <1> QED BY <1>1, InitOnce, StepOnceKept, Invariance, PTL DEF Spec

-----------------------------------------------------------------------------
(* What a purge takes away                                                 *)

\* While a purge is between its two statements, no other thread is in a call.
PurgesAlone ==
    \A t, u \in Threads : th[t].pc = "delete" /\ Calling(th[u]) => t = u

\* A row that is over, with one that is over and stays, and was started later.
Superseded(r, doomed) ==
    /\ Finished(r)
    /\ \E q \in Rows : Finished(q) /\ q \notin doomed /\ db[q].started > db[r].started

PurgeInv ==
    /\ \A r \in Rows : db[r].started <= Len(starts)
    /\ \A t \in Threads : th[t].pc = "delete" =>
          \A r \in th[t].doomed : Superseded(r, th[t].doomed)

\* A set of numbers with an upper bound has a greatest one: below the bound, the
\* distances from it have a least one.
LEMMA LeastOf ==
    ASSUME NEW R, IsWellFoundedOn(R, Nat), \A x, y \in Nat : x < y => <<x, y>> \in R,
           NEW ds \in SUBSET Nat, ds # {}
    PROVE  \E d \in ds : \A e \in ds : d <= e
  <1>1. PICK d \in ds : \A e \in ds : ~(<<e, d>> \in R)
    <2>1. ds \subseteq Nat /\ ds # {}
      OBVIOUS
    <2> QED BY ONLY <2>1, WFMin, IsWellFoundedOn(R, Nat)
  <1>2. \A e \in ds : ~(e < d)
    BY <1>1
  <1> QED BY <1>2

LEMMA GreatestOf ==
    ASSUME NEW b \in Nat, NEW ms \in SUBSET Nat, ms # {}, \A m \in ms : m <= b
    PROVE  \E m \in ms : \A e \in ms : e <= m
  <1> DEFINE ds == {b - m : m \in ms}
  <1>1. ds \in SUBSET Nat /\ ds # {}
    <2>1. \A m \in ms : b - m \in Nat
      OBVIOUS
    <2>2. PICK m \in ms : TRUE
      OBVIOUS
    <2>3. b - m \in ds
      OBVIOUS
    <2> QED BY <2>1, <2>3
  <1>2. \A x, y \in Nat : x < y => <<x, y>> \in OpToRel(<, Nat)
    BY Zenon DEF OpToRel
  <1>3. \E d \in ds : \A e \in ds : d <= e
    <2> HIDE DEF ds
    <2> QED BY <1>1, <1>2, LeastOf, NatLessThanWellFounded, Zenon
  <1>4. PICK m \in ms : \A e \in ds : b - m <= e
    BY <1>3
  <1>5. \A e \in ms : b - m <= b - e
    BY <1>4
  <1> QED BY <1>5

\* Whatever a purge selects is superseded: of the rows that are over, the last
\* started is never selected.
LEMMA SelectedSuperseded ==
    ASSUME IInv, PurgeInv, NEW t \in Threads, NEW r \in Purgeable(t)
    PROVE  Superseded(r, Purgeable(t))
  <1> DEFINE over == {q \in Rows : Finished(q)}
             ms == {db[q].started : q \in over}
  <1>1. r \in over /\ \E q \in over : db[q].started > db[r].started
    <2>1. \A q \in Rows : db[q].started \in Nat
      BY DEF IInv, TypeOK, RowType
    <2> QED BY <2>1 DEF Purgeable, Latest
  <1>2. ms \in SUBSET Nat /\ ms # {}
    BY <1>1 DEF IInv, TypeOK, RowType
  <1>3. Len(starts) \in Nat /\ \A m \in ms : m <= Len(starts)
    BY LenProperties DEF IInv, TypeOK, PurgeInv
  <1>4. \E m \in ms : \A e \in ms : e <= m
    <2> HIDE DEF ms
    <2> QED BY <1>2, <1>3, GreatestOf
  <1>5. PICK q \in over : \A p \in over : db[p].started <= db[q].started
    BY <1>4
  <1>6. q \notin Purgeable(t)
    BY <1>5 DEF Purgeable, Latest
  <1>7. db[q].started > db[r].started
    BY <1>1, <1>5 DEF IInv, TypeOK, RowType
  <1> QED BY <1>1, <1>5, <1>6, <1>7 DEF Superseded

\* All but a claim and a purge leave a row where it is and started when it was.
SameLife(old, new) == new.here = old.here /\ new.started = old.started

LEMMA RowsStay ==
    ASSUME IInv, [Next]_vars, ~ \E t \in Threads : PurgeDelete(t) \/ Claim(t)
    PROVE  starts' = starts /\ \A r \in Rows : SameLife(db[r], db'[r])
  <1>1. ASSUME NEW r \in Rows, NEW new, Put(r, new), SameLife(db[r], new)
        PROVE  \A q \in Rows : SameLife(db[q], db'[q])
    BY <1>1 DEF Put, IInv, TypeOK, SameLife
  <1>2. \A r \in Rows : /\ \A s : SameLife(db[r], [db[r] EXCEPT !.status = s])
                        /\ \A p : SameLife(db[r], [db[r] EXCEPT !.progress = p])
                        /\ \A o : SameLife(db[r], [db[r] EXCEPT !.result = o])
    BY DEF IInv, TypeOK, RowType, SameLife
  <1>3. ASSUME NEW r \in Rows,
               \/ \E s : SetStatus(r, s)
               \/ \E p : SetProgress(r, p)
               \/ \E o : SetResult(r, o)
        PROVE  \A q \in Rows : SameLife(db[q], db'[q])
    BY <1>1, <1>2, <1>3 DEF SetStatus, SetProgress, SetResult
  <1>4. \A t \in Threads : th[t].pc \notin {"idle", "next"} => th[t].row \in Rows
    BY DEF IInv, Located
  <1>5. ASSUME NEW t \in Threads,
               \/ Release(t) \/ SaveAndLeave(t) \/ LeaveStatus(t) \/ SaveMinted(t)
               \/ RaiseStatus(t) \/ RaiseResult(t)
               \/ FinishResult(t) \/ FinishClear(t) \/ FinishStatus(t)
               \/ StopResult(t) \/ StopClear(t) \/ StopStatus(t)
        PROVE  starts' = starts /\ \A q \in Rows : SameLife(db[q], db'[q])
    <2>1. th[t].row \in Rows
      BY <1>4, <1>5 DEF Release, SaveAndLeave, LeaveStatus, SaveMinted, RaiseStatus,
         RaiseResult, FinishResult, FinishClear, FinishStatus, StopResult, StopClear, StopStatus
    <2>2. \/ \E s : SetStatus(th[t].row, s)
          \/ \E p : SetProgress(th[t].row, p)
          \/ \E o : SetResult(th[t].row, o)
      BY <1>5 DEF Release, SaveAndLeave, LeaveStatus, SaveMinted, RaiseStatus,
         RaiseResult, FinishResult, FinishClear, FinishStatus, StopResult, StopClear, StopStatus
    <2>3. starts' = starts
      BY <1>5 DEF Release, SaveAndLeave, LeaveStatus, SaveMinted, RaiseStatus, history,
         RaiseResult, FinishResult, FinishClear, FinishStatus, StopResult, StopClear, StopStatus
    <2> QED BY <1>3, <2>1, <2>2, <2>3
  <1>6. ASSUME NEW r \in Rows, ClockPasses(r)
        PROVE  starts' = starts /\ \A q \in Rows : SameLife(db[q], db'[q])
    BY <1>6 DEF ClockPasses, IInv, TypeOK, RowType, SameLife, history
  <1>7. ASSUME NEW t \in Threads,
               \/ Request(t) \/ Wake(t) \/ \E r \in Rows : NextRow(t, r)
               \/ ReadAway(t) \/ Read(t) \/ Check(t) \/ Execute(t) \/ ExecuteRaises(t)
               \/ PurgeSelect(t) \/ StopRead(t)
        PROVE  starts' = starts /\ db' = db
    BY <1>7 DEF Request, RequestRun, RequestStop, Fire, Wake, NextRow, ReadAway, Read, Check,
       Execute, ExecuteRaises, PurgeSelect, StopRead, history
  <1>8. CASE Crash \/ UNCHANGED vars
    BY <1>8 DEF Crash, vars, history, SameLife
  <1>9. db' = db => \A q \in Rows : SameLife(db[q], db'[q])
    BY DEF SameLife
  <1> QED BY <1>5, <1>6, <1>7, <1>8, <1>9 DEF Next, ThreadStep

\* A claim leaves every row where it is, and gives no row a later start than the
\* last one.
LEMMA ClaimStarts ==
    ASSUME IInv, PurgeInv, NEW t \in Threads, Claim(t)
    PROVE  \A r \in Rows : db'[r].here = db[r].here /\ db'[r].started <= Len(starts')
  <1>1. th[t].row \in Rows
    BY DEF IInv, Located, Claim
  <1>2. /\ Claimed(t).here = db[th[t].row].here
        /\ Claimed(t).started =
              IF th[t].fresh THEN Len(starts) + 1 ELSE db[th[t].row].started
    BY <1>1 DEF Claimed, IInv, TypeOK, RowType
  <1>3. Len(starts) \in Nat /\ Len(starts) <= Len(starts')
        /\ (th[t].fresh => Len(starts') = Len(starts) + 1)
    BY <1>1, AppendProperties, LenProperties DEF Claim, IInv, TypeOK
  <1>4. \A r \in Rows : db[r].started \in Nat /\ db[r].started <= Len(starts)
    BY DEF PurgeInv, IInv, TypeOK, RowType
  <1>5. ASSUME NEW r \in Rows
        PROVE  db'[r].here = db[r].here /\ db'[r].started <= Len(starts')
    <2>1. db'[r] = IF r = th[t].row /\ db[r].here THEN Claimed(t) ELSE db[r]
      BY <1>1 DEF Claim, Put, IInv, TypeOK
    <2> QED BY <1>2, <1>3, <1>4, <2>1
  <1> QED BY <1>5

\* A purge leaves every start as it is.
LEMMA DeleteStarts ==
    ASSUME IInv, NEW t \in Threads, PurgeDelete(t)
    PROVE  starts' = starts /\ \A r \in Rows : db'[r].started = db[r].started
  BY DEF IInv, TypeOK, RowType, PurgeDelete, history

\* A thread between the two statements of a purge is alone in a call: until it
\* deletes, every row keeps its status and its start.
LEMMA DoomedStays ==
    ASSUME IInv, PurgesAlone, [Next]_vars, NEW t \in Threads,
           th[t].pc = "delete", th'[t].pc = "delete"
    PROVE  /\ th'[t] = th[t] /\ starts' = starts
           /\ \A r \in Rows : SameLife(db[r], db'[r]) /\ db'[r].status = db[r].status
  <1>1. ASSUME NEW u \in Threads,
               \/ Release(u) \/ ReadAway(u) \/ Read(u) \/ Claim(u) \/ Check(u)
               \/ SaveAndLeave(u) \/ LeaveStatus(u) \/ SaveMinted(u) \/ Execute(u)
               \/ ExecuteRaises(u) \/ RaiseStatus(u) \/ RaiseResult(u)
               \/ FinishResult(u) \/ FinishClear(u) \/ FinishStatus(u) \/ PurgeSelect(u)
               \/ StopRead(u) \/ StopResult(u) \/ StopClear(u) \/ StopStatus(u)
        PROVE  FALSE
    <2>1. Calling(th[u]) /\ th[u].pc # "delete"
      BY <1>1 DEF Release, ReadAway, Read, Claim, Check, SaveAndLeave, LeaveStatus, SaveMinted,
         Execute, ExecuteRaises, Ready, RaiseStatus, RaiseResult, FinishResult, FinishClear,
         FinishStatus, PurgeSelect, StopRead, StopResult, StopClear, StopStatus, Calling
    <2> QED BY <2>1 DEF PurgesAlone
  <1>2. ASSUME NEW u \in Threads, PurgeDelete(u)
        PROVE  FALSE
    <2>1. u = t
      BY <1>2 DEF PurgesAlone, PurgeDelete, Calling
    <2>2. th'[t] = Returned(t)
      BY <1>2, <2>1 DEF PurgeDelete, Return, IInv, TypeOK
    <2>3. Returned(t).pc \in {"idle", "next"}
      BY DEF Returned, Idle
    <2> QED BY <2>2, <2>3
  <1>3. ASSUME NEW u \in Threads, Request(u) \/ Wake(u) \/ \E r \in Rows : NextRow(u, r)
        PROVE  db' = db /\ starts' = starts /\ th'[t] = th[t]
    <2>1. db' = db /\ starts' = starts /\ th[u].pc \in {"idle", "next"}
      BY <1>3 DEF Request, RequestRun, RequestStop, Fire, Wake, NextRow, history
    <2>2. u # t
      BY <2>1
    <2>3. th'[t] = th[t]
      BY <1>3, <2>2 DEF Request, RequestRun, RequestStop, Fire, Wake, NextRow, IInv, TypeOK
    <2> QED BY <2>1, <2>3
  <1>4. ASSUME NEW r \in Rows, ClockPasses(r)
        PROVE  /\ th'[t] = th[t] /\ starts' = starts
               /\ \A q \in Rows : SameLife(db[q], db'[q]) /\ db'[q].status = db[q].status
    BY <1>4 DEF ClockPasses, IInv, TypeOK, RowType, SameLife, history
  <1>5. ASSUME Crash PROVE FALSE
    BY <1>5 DEF Crash, Idle
  <1>6. CASE UNCHANGED vars
    BY <1>6 DEF vars, SameLife
  <1>7. db' = db => \A q \in Rows : SameLife(db[q], db'[q]) /\ db'[q].status = db[q].status
    BY DEF SameLife
  <1> QED BY <1>1, <1>2, <1>3, <1>4, <1>5, <1>6, <1>7 DEF Next, ThreadStep

\* A thread comes between the two statements by selecting.
LEMMA DoomedBySelect ==
    ASSUME IInv, [Next]_vars, NEW t \in Threads, th[t].pc # "delete", th'[t].pc = "delete"
    PROVE  PurgeSelect(t)
  <1>1. ASSUME NEW u \in Threads, NEW l, th' = [th EXCEPT ![u] = l], l.pc # "delete"
        PROVE  FALSE
    BY <1>1 DEF IInv, TypeOK
  <1>2. ASSUME NEW u \in Threads, NEW pc, GoTo(u, pc), pc # "delete"
        PROVE  FALSE
    <2>1. [th[u] EXCEPT !.pc = pc].pc = pc
      BY DEF IInv, TypeOK, Local
    <2> QED BY <1>1, <1>2, <2>1 DEF GoTo
  <1>3. ASSUME NEW u \in Threads, Return(u)
        PROVE  FALSE
    <2>1. Returned(u).pc \in {"idle", "next"}
      BY DEF Returned, Idle
    <2> QED BY <1>1, <1>3, <2>1 DEF Return
  <1>4. ASSUME NEW u \in Threads,
               \/ Release(u) \/ Claim(u) \/ SaveMinted(u) \/ ExecuteRaises(u)
               \/ RaiseStatus(u) \/ FinishResult(u) \/ FinishClear(u) \/ FinishStatus(u)
               \/ StopResult(u) \/ StopClear(u)
        PROVE  FALSE
    BY <1>2, <1>4 DEF Release, Claim, SaveMinted, ExecuteRaises, RaiseStatus, FinishResult,
       FinishClear, FinishStatus, StopResult, StopClear
  <1>5. ASSUME NEW u \in Threads,
               \/ ReadAway(u) \/ LeaveStatus(u) \/ RaiseResult(u) \/ PurgeDelete(u)
               \/ StopStatus(u)
        PROVE  FALSE
    BY <1>3, <1>5 DEF ReadAway, LeaveStatus, RaiseResult, PurgeDelete, StopStatus
  <1>6. ASSUME NEW u \in Threads, StopRead(u)
        PROVE  FALSE
    BY <1>2, <1>3, <1>6 DEF StopRead
  <1>7. \A u \in Threads : th[u] \in Local
    BY DEF IInv, TypeOK
  <1>8. ASSUME NEW u \in Threads,
               \/ \E r \in Rows : NextRow(u, r)
               \/ Read(u) \/ Check(u) \/ SaveAndLeave(u) \/ Execute(u)
               \/ Request(u) \/ Wake(u)
        PROVE  FALSE
    <2>1. u = t
      BY <1>8 DEF NextRow, Read, Check, SaveAndLeave, Execute, Request, RequestRun,
         RequestStop, Fire, Wake, IInv, TypeOK
    <2>2. CASE Request(t) \/ Wake(t)
      BY <2>2 DEF Request, RequestRun, RequestStop, Fire, Wake, Idle, IInv, TypeOK
    <2>3. CASE \E r \in Rows : NextRow(t, r)
      BY <1>7, <2>3 DEF NextRow, Local, IInv, TypeOK
    <2>4. CASE Read(t) \/ SaveAndLeave(t) \/ Execute(t)
      BY <1>7, <2>4 DEF Read, SaveAndLeave, Execute, Local, IInv, TypeOK
    <2>5. CASE Check(t)
      BY <1>7, <2>5 DEF Check, Local, IInv, TypeOK
    <2> QED BY <1>8, <2>1, <2>2, <2>3, <2>4, <2>5
  <1>9. ASSUME NEW u \in Threads, PurgeSelect(u)
        PROVE  u = t
    BY <1>9 DEF PurgeSelect, IInv, TypeOK
  <1>10. ASSUME \/ \E r \in Rows : ClockPasses(r)
                \/ Crash \/ UNCHANGED vars
         PROVE  FALSE
    BY <1>10 DEF ClockPasses, Crash, Idle, vars
  <1> QED BY <1>4, <1>5, <1>6, <1>8, <1>9, <1>10 DEF Next, ThreadStep

LEMMA StepPurge == IInv /\ PurgesAlone /\ PurgeInv /\ [Next]_vars => PurgeInv'
  <1> SUFFICES ASSUME IInv, PurgesAlone, PurgeInv, [Next]_vars
               PROVE  PurgeInv'
    OBVIOUS
  <1>1. ASSUME NEW r \in Rows PROVE db'[r].started <= Len(starts')
    <2>1. CASE \E t \in Threads : Claim(t)
      BY <2>1, ClaimStarts
    <2>2. CASE \E t \in Threads : PurgeDelete(t)
      BY <2>2, DeleteStarts DEF PurgeInv
    <2>3. CASE ~ \E t \in Threads : PurgeDelete(t) \/ Claim(t)
      BY <2>3, RowsStay DEF PurgeInv, SameLife
    <2> QED BY <2>1, <2>2, <2>3
  <1>2. ASSUME NEW t \in Threads, th'[t].pc = "delete", NEW ids, ids = th'[t].doomed
        PROVE  \A r \in ids : Superseded(r, ids)'
    <2>1. CASE th[t].pc = "delete"
      <3>1. /\ ids = th[t].doomed
            /\ \A r \in Rows : SameLife(db[r], db'[r]) /\ db'[r].status = db[r].status
        BY <1>2, <2>1, DoomedStays
      <3>2. \A r \in Rows : Finished(r)' <=> Finished(r)
        BY <3>1 DEF Finished, SameLife
      <3>3. th[t].doomed \subseteq Rows /\ \A r \in th[t].doomed : Superseded(r, th[t].doomed)
        BY <2>1 DEF PurgeInv, IInv, TypeOK, Local
      <3> QED BY <3>1, <3>2, <3>3 DEF Superseded, SameLife
    <2>2. CASE th[t].pc # "delete"
      <3>1. PurgeSelect(t)
        BY <1>2, <2>2, DoomedBySelect
      <3>2. th[t] \in Local /\ th'[t] = [th[t] EXCEPT !.pc = "delete", !.doomed = Purgeable(t)]
        BY <3>1 DEF PurgeSelect, IInv, TypeOK
      <3>3. ids = Purgeable(t)
        BY <1>2, <3>2 DEF Local
      <3>4. \A r \in Purgeable(t) : Superseded(r, Purgeable(t))
        BY SelectedSuperseded
      <3>5. db' = db
        BY <3>1 DEF PurgeSelect
      <3> QED BY <3>3, <3>4, <3>5 DEF Superseded, Finished
    <2> QED BY <2>1, <2>2
  <1> QED BY <1>1, <1>2 DEF PurgeInv

LEMMA InitPurge == Init => PurgeInv
  <1> SUFFICES ASSUME Init PROVE PurgeInv
    OBVIOUS
  <1>1. Len(starts) = 0 /\ \A r \in Rows : db[r].started = 0
    BY DEF Init
  <1>2. \A t \in Threads : th[t].pc = "idle"
    BY DEF Init, Idle
  <1> QED BY <1>1, <1>2 DEF PurgeInv

\* A row is purged only when it is over and a row that stays, which is over too,
\* was started later: purge_finished_state_packages in a process that runs nothing
\* else between its SELECT and its DELETE.
THEOREM PurgeKeepsAlone == Spec /\ []PurgesAlone => PurgeKeeps
  <1> DEFINE Kept == \A r \in Rows : db[r].here /\ ~db'[r].here =>
                /\ Finished(r)
                /\ \E q \in Rows : Finished(q) /\ db'[q].here /\ db[q].started > db[r].started
  <1>1. ASSUME IInv, PurgeInv, [Next]_vars PROVE Kept
    <2>1. CASE \E t \in Threads : Claim(t)
      BY <1>1, <2>1, ClaimStarts
    <2>2. CASE ~ \E t \in Threads : PurgeDelete(t) \/ Claim(t)
      BY <1>1, <2>2, RowsStay DEF SameLife
    <2>3. ASSUME NEW t \in Threads, PurgeDelete(t) PROVE Kept
      <3>1. \A q \in Rows : /\ q \notin th[t].doomed => db'[q].here = db[q].here
                            /\ Finished(q) => db[q].here
        BY <2>3 DEF PurgeDelete, Finished
      <3>2. \A r \in Rows : db[r].here /\ ~db'[r].here => r \in th[t].doomed
        BY <3>1
      <3>3. \A r \in th[t].doomed : Superseded(r, th[t].doomed)
        BY <1>1, <2>3 DEF PurgeInv, PurgeDelete
      <3> QED BY <3>1, <3>2, <3>3 DEF Superseded
    <2> QED BY <2>1, <2>2, <2>3
  <1>2. Spec => []IInv
    BY Invariance
  <1>3. IInv /\ PurgeInv /\ [Next]_vars => [Kept]_vars
    BY <1>1
  <1> HIDE DEF Kept
  <1>4. Spec /\ []PurgesAlone => [][Kept]_vars
    BY <1>2, <1>3, InitPurge, StepPurge, PTL DEF Spec
  <1> QED BY <1>4 DEF PurgeKeeps, Kept

=============================================================================
