--------------------------- MODULE StepWalkProofs ---------------------------
(***************************************************************************)
(* Theorems about StepWalk for every set of packages, whatever their steps,*)
(* joins, loops and bounds.                                                *)
(***************************************************************************)
EXTENDS StepWalk, SequenceTheorems, FiniteSetTheorems, TLAPS

-----------------------------------------------------------------------------
(* Types                                                                   *)

Typed(w) ==
    /\ w \in Walk
    /\ Looping => w.iteration < pkg.loop.max
    /\ w.items \in 0..Unlatched

\* The type invariant with what makes it inductive: the package is one of those
\* composed, and a step that executes is the head of the queue.
TypeInv ==
    /\ TypeOK
    /\ pkg \in Packages
    /\ phase = "exec" => walk.queue # <<>>

\* What the code relies on about a package that was composed.
LEMMA PackageFacts ==
    ASSUME pkg \in Packages
    PROVE  /\ pkg \in PackageType
           /\ pkg.first \in Steps /\ pkg.kind \in [Steps -> Kinds]
           /\ pkg.tries \in [Steps -> Nat \ {0}]
           /\ pkg.loop \in Loops /\ pkg.loop.max \in Nat /\ pkg.loop.entry \in Steps
           /\ pkg.loop.tail \in Steps
           /\ Looping => pkg.loop.max > 0
           /\ pkg.asks \subseteq Steps
           /\ \A s \in Steps : \A r \in pkg.routes[s] : r \in Routes
  <1>1. pkg \in PackageType
    BY PackagesComposed
  <1>2. Looping => pkg.loop.max > 0
    BY PackagesComposed DEF Looping
  <1> QED BY <1>1, <1>2 DEF PackageType, Loops

LEMMA UnlatchedNat == Unlatched \in Nat /\ MaxItems \in Nat /\ Unlatched = MaxItems + 1
  BY BoundsAreNat DEF Unlatched

\* Each ordering of a finite set of steps is a sequence of steps.
LEMMA OrderingsAreSeqs ==
    ASSUME NEW S \in SUBSET Steps, NEW q \in SetToSeqs(S)
    PROVE  q \in Seq(Steps)
  <1>1. Cardinality(S) \in Nat
    BY StepsFinite, FS_Subset, FS_CardinalityType
  <1>2. q \in [1..Cardinality(S) -> Steps]
    BY DEF SetToSeqs
  <1> QED BY <1>1, <1>2, SeqDef

\* enqueue_from changes the queue and the arrivals and nothing else.
LEMMA EnqueueTyped ==
    ASSUME NEW w \in Walk, NEW r \in Routes, NEW v \in EnqueueFrom(w, r)
    PROVE  /\ v \in Walk
           /\ v.ids = w.ids /\ v.derived = w.derived /\ v.iteration = w.iteration
           /\ v.items = w.items
  <1>1. PICK js \in SetToSeqs(ReadyJoins(w, r)) :
            v = [w EXCEPT !.queue = js \o (w.queue \o r.plain),
                          !.arrivals = w.arrivals \cup r.joins]
    BY DEF EnqueueFrom
  <1>2. ReadyJoins(w, r) \subseteq Steps
    BY DEF ReadyJoins, Walk, Routes
  <1>3. js \o (w.queue \o r.plain) \in Seq(Steps)
    BY <1>2, OrderingsAreSeqs, ConcatProperties DEF Walk, Routes
  <1> QED BY <1>1, <1>3 DEF Walk, Routes

LEMMA FreshTyped ==
    ASSUME pkg \in Packages, NEW answers \in SUBSET Steps
    PROVE  Typed(FreshWalk(pkg, answers))
  BY PackageFacts, UnlatchedNat
  DEF Typed, FreshWalk, Walk, Wait, NoWait, Parks, Looping

\* A step of any shape keeps the types when what it leaves behind is typed.
LEMMA TypeFrom ==
    ASSUME TypeInv, pkg' = pkg,
           status' \in {"inactive", "active", "pending", "waiting"},
           result' \in {"none", "done", "error"},
           \/ walk' = None /\ phase' = "idle"
           \/ Typed(walk') /\ phase' \in {"head", "exec"},
           saved' = None \/ Typed(saved'),
           retry' \in [Steps -> Nat \ {0}],
           local' \in [attempt : Nat, minted : BOOLEAN],
           nextId' \in Nat \ {0}, effects' \subseteq Steps \X Nat \X Nat,
           faults' \in 0..MaxFaults, runs' \in 0..MaxRuns,
           phase' = "exec" => walk'.queue # <<>>
    PROVE  TypeInv'
  <1>1. \A w \in {walk', saved'} \ {None} :
            /\ w \in Walk
            /\ Looping' => w.iteration < pkg'.loop.max
            /\ w.items \in 0..Unlatched
    BY DEF Typed, Looping
  <1>2. (walk' = None) <=> (phase' = "idle")
    BY NullAssumption DEF Typed
  <1>3. pkg' \in Packages
    BY DEF TypeInv
  <1> QED BY <1>1, <1>2, <1>3 DEF TypeInv, TypeOK

\* The same for the steps that leave phase, locals and history to Return.
LEMMA TypeFromReturn ==
    ASSUME TypeInv, pkg' = pkg, Return,
           status' \in {"inactive", "active", "pending", "waiting"},
           result' \in {"none", "done", "error"},
           saved' = None \/ Typed(saved'),
           faults' \in 0..MaxFaults, UNCHANGED <<nextId, effects, runs>>
    PROVE  TypeInv'
  <1>1. retry' \in [Steps -> Nat \ {0}] /\ local' \in [attempt : Nat, minted : BOOLEAN]
    BY DEF Return
  <1>2. /\ nextId' \in Nat \ {0} /\ effects' \subseteq Steps \X Nat \X Nat
        /\ runs' \in 0..MaxRuns
    BY DEF TypeInv, TypeOK
  <1>3. walk' = None /\ phase' = "idle"
    BY DEF Return
  <1> QED BY <1>1, <1>2, <1>3, TypeFrom

\* And for those that go on with a walk and touch no variable of the row.
LEMMA TypeFromWalk ==
    ASSUME TypeInv, pkg' = pkg, Typed(walk'), phase' = "head",
           retry' \in [Steps -> Nat \ {0}],
           UNCHANGED <<row, local, nextId, effects, faults, runs>>
    PROVE  TypeInv'
  <1>1. saved' = None \/ Typed(saved')
    BY DEF TypeInv, TypeOK, Typed, row
  <1> QED BY <1>1, TypeFrom DEF TypeInv, TypeOK, row

\* The walk of a runner that is not idle.
LEMMA Walking ==
    ASSUME TypeInv, phase # "idle"
    PROVE  Typed(walk)
  BY DEF TypeInv, TypeOK, Typed

LEMMA SavedTyped ==
    ASSUME TypeInv
    PROVE  saved = None \/ Typed(saved)
  BY DEF TypeInv, TypeOK, Typed

LEMMA HeadFacts ==
    ASSUME TypeInv, phase # "idle", walk.queue # <<>>
    PROVE  Head(walk.queue) \in Steps /\ Tail(walk.queue) \in Seq(Steps)
  BY Walking, HeadTailProperties DEF Typed, Walk

LEMMA OpenedTyped ==
    ASSUME TypeInv, NEW s \in Steps, Taken(s)
    PROVE  /\ Typed(Opened(s)) /\ Opened(s).queue = walk.queue
           /\ Opened(s).ids = walk.ids /\ Opened(s).derived = walk.derived
           /\ Opened(s).iteration = walk.iteration
  <1>1. Typed(walk)
    BY Walking DEF Taken, AtHead
  <1>2. (walk.entered \/ Pretested(s)) \in BOOLEAN
    BY <1>1 DEF Typed, Walk
  <1>3. \A b \in BOOLEAN : [walk EXCEPT !.entered = b] \in Walk
    BY <1>1 DEF Typed, Walk
  <1>4. NoWait \in Wait
    BY DEF NoWait, Wait, Parks
  <1>5. \A w \in Walk : [w EXCEPT !.wait = NoWait] \in Walk
    BY <1>4 DEF Walk
  <1>6. Opened(s) \in Walk
    BY <1>2, <1>3, <1>5 DEF Opened
  <1> QED BY <1>1, <1>6 DEF Opened, Typed, Walk

LEMMA InitType == Init => TypeInv
  BY BoundsAreNat DEF Init, TypeInv, TypeOK

-----------------------------------------------------------------------------
(* Starting, resuming, losing and ending a runner                          *)

LEMMA StartFreshType ==
    ASSUME TypeInv, StartFresh
    PROVE  TypeInv'
  <1>1. PICK answers \in SUBSET pkg.asks : walk' = FreshWalk(pkg, answers)
    BY DEF StartFresh
  <1>2. Typed(walk')
    BY <1>1, FreshTyped, PackageFacts DEF TypeInv
  <1>3. runs' \in 0..MaxRuns
    BY BoundsAreNat DEF StartFresh, TypeInv, TypeOK
  <1>4. saved' = None \/ Typed(saved')
    BY SavedTyped DEF StartFresh
  <1> QED BY <1>2, <1>3, <1>4, TypeFrom DEF StartFresh, TypeInv, TypeOK

LEMMA ResumeType ==
    ASSUME TypeInv, Resume
    PROVE  TypeInv'
  <1>1. PICK answers \in SUBSET pkg.asks :
            walk' = [saved EXCEPT !.answered = @ \cup answers]
    BY DEF Resume
  <1>2. Typed(saved) /\ answers \subseteq Steps
    BY SavedTyped, PackageFacts DEF Resume, TypeInv
  <1>3. Typed(walk')
    BY <1>1, <1>2 DEF Typed, Walk
  <1>4. saved' = None \/ Typed(saved')
    BY <1>2 DEF Resume
  <1> QED BY <1>3, <1>4, TypeFrom DEF Resume, TypeInv, TypeOK

LEMMA WaitDueType ==
    ASSUME TypeInv, WaitDue
    PROVE  TypeInv'
  <1>1. Typed(saved)
    BY SavedTyped DEF WaitDue
  <1>2. Typed(saved')
    BY <1>1 DEF WaitDue, Typed, Walk, Wait
  <1>3. phase # "idle" => Typed(walk)
    BY Walking
  <1> QED BY <1>2, <1>3, TypeFrom DEF WaitDue, TypeInv, TypeOK

LEMMA CrashType ==
    ASSUME TypeInv, Crash
    PROVE  TypeInv'
  <1>1. faults' \in 0..MaxFaults
    BY BoundsAreNat DEF Crash, TypeInv, TypeOK
  <1> QED BY <1>1, SavedTyped, TypeFromReturn DEF Crash, TypeInv, TypeOK

LEMMA FinishType ==
    ASSUME TypeInv, Finish
    PROVE  TypeInv'
  BY TypeFromReturn DEF Finish, FinishRun, TypeInv, TypeOK

-----------------------------------------------------------------------------
(* One pass through `while queue`                                          *)

LEMMA DropVisitedType ==
    ASSUME TypeInv, NEW s \in Steps, DropVisited(s)
    PROVE  TypeInv'
  <1>1. Typed(walk) /\ Tail(walk.queue) \in Seq(Steps)
    BY Walking, HeadFacts DEF DropVisited, AtHead
  <1>2. NoWait \in Wait
    BY DEF NoWait, Wait, Parks
  <1>3. Typed(walk')
    BY <1>1, <1>2 DEF DropVisited, Typed, Walk
  <1> QED BY <1>3, TypeFromWalk DEF DropVisited, AtHead, TypeInv, TypeOK

LEMMA SkipLoopType ==
    ASSUME TypeInv, NEW s \in Steps, SkipLoop(s)
    PROVE  /\ TypeInv'
           /\ walk'.ids = walk.ids /\ walk'.derived = walk.derived
           /\ walk'.iteration = walk.iteration
  <1> DEFINE w == [walk EXCEPT !.queue = Tail(@), !.entered = TRUE, !.wait = NoWait]
  <1>1. Typed(walk) /\ Tail(walk.queue) \in Seq(Steps)
    BY Walking, HeadFacts DEF SkipLoop, AtHead
  <1>2. NoWait \in Wait
    BY DEF NoWait, Wait, Parks
  <1>3. /\ w \in Walk /\ w.ids = walk.ids /\ w.derived = walk.derived
        /\ w.iteration = walk.iteration /\ w.items = walk.items
    BY <1>1, <1>2 DEF Typed, Walk
  <1>4. PICK r \in pkg.routes[pkg.loop.tail] : walk' \in EnqueueFrom(w, r)
    BY DEF SkipLoop
  <1>5. r \in Routes
    BY <1>4, PackageFacts DEF TypeInv
  <1> HIDE DEF w
  <1>6. /\ walk' \in Walk /\ walk'.ids = w.ids /\ walk'.derived = w.derived
        /\ walk'.iteration = w.iteration /\ walk'.items = w.items
    BY <1>3, <1>4, <1>5, EnqueueTyped
  <1>7. Typed(walk')
    BY <1>1, <1>3, <1>6 DEF Typed
  <1>8. TypeInv'
    BY <1>7, TypeFromWalk DEF SkipLoop, AtHead, TypeInv, TypeOK
  <1> QED BY <1>3, <1>6, <1>8

LEMMA AskOperatorType ==
    ASSUME TypeInv, NEW s \in Steps, AskOperator(s)
    PROVE  TypeInv'
  BY OpenedTyped, TypeFromReturn DEF AskOperator, Leave, TypeInv, TypeOK

LEMMA ParkWaitType ==
    ASSUME TypeInv, NEW s \in Steps, ParkWait(s)
    PROVE  /\ TypeInv'
           /\ saved'.ids = walk.ids /\ saved'.derived = walk.derived
           /\ saved'.iteration = walk.iteration
  <1>1. PICK kind \in {"clock", "event"} :
            Leave([Opened(s) EXCEPT
                      !.wait = [kind |-> kind, attempt |-> 0, due |-> FALSE],
                      !.waited = @ \cup {s}],
                  "waiting")
    BY DEF ParkWait
  <1>2. [kind |-> kind, attempt |-> 0, due |-> FALSE] \in Wait
    BY DEF Wait, Parks
  <1>3. /\ Typed(saved') /\ saved'.ids = walk.ids /\ saved'.derived = walk.derived
        /\ saved'.iteration = walk.iteration
    BY <1>1, <1>2, OpenedTyped DEF ParkWait, Leave, Typed, Walk
  <1> QED BY <1>1, <1>3, TypeFromReturn DEF ParkWait, Leave, TypeInv, TypeOK

LEMMA RejectPolicyType ==
    ASSUME TypeInv, NEW s \in Steps, RejectPolicy(s)
    PROVE  TypeInv'
  <1>1. faults' \in 0..MaxFaults
    BY BoundsAreNat DEF RejectPolicy, TypeInv, TypeOK
  <1> QED BY <1>1, TypeFromReturn DEF RejectPolicy, FinishRun, TypeInv, TypeOK

\* Minting gives the step the next free id and leaves the rest alone.
LEMMA MintTyped ==
    ASSUME TypeInv, NEW s \in Steps, NEW w, Typed(w)
    PROVE  /\ Typed(WithMintedId(s, w)) /\ WithMintedId(s, w).queue = w.queue
           /\ WithMintedId(s, w).derived = w.derived
           /\ WithMintedId(s, w).iteration = w.iteration
           /\ WithMintedId(s, w).ids =
                 IF Minted(s, w) THEN [w.ids EXCEPT ![s] = nextId] ELSE w.ids
  BY DEF WithMintedId, Minted, Typed, Walk, TypeInv, TypeOK

LEMMA CallType ==
    ASSUME TypeInv, NEW s \in Steps, Call(s)
    PROVE  TypeInv'
  <1> DEFINE o == Opened(s)
             w == WithMintedId(s, o)
  <1>1. /\ Typed(o) /\ Typed(w) /\ w.queue = walk.queue /\ Typed(walk)
        /\ walk.queue # <<>>
    <2>1. phase # "idle" /\ walk.queue # <<>> /\ Taken(s)
      BY DEF Call, Taken, AtHead
    <2>2. Typed(o) /\ o.queue = walk.queue
      BY <2>1, OpenedTyped
    <2> HIDE DEF o
    <2> QED BY <2>1, <2>2, MintTyped, Walking
  <1>2. Typed(walk') /\ walk'.queue = walk.queue
    <2> DEFINE waited == IF MustPark(s) THEN w.waited \cup {s} ELSE w.waited
    <2> DEFINE tries == [w.tries EXCEPT ![s] = @ + 1]
    <2>1. walk' = [w EXCEPT !.tries = tries, !.waited = waited]
      BY DEF Call
    <2> HIDE DEF w
    <2>2. w.waited \subseteq Steps /\ w.tries \in [Steps -> Nat]
      BY <1>1 DEF Typed, Walk
    <2>3. waited \subseteq Steps
      BY <2>2
    <2>4. tries \in [Steps -> Nat]
      BY <2>2
    <2> HIDE DEF waited, tries
    <2> QED BY <1>1, <2>1, <2>3, <2>4 DEF Typed, Walk
  <1>3. saved' = None \/ Typed(saved')
    BY <1>1, SavedTyped DEF Call, SavedAfterMint
  <1>4. AttemptOf(s) \in Nat
    BY <1>1 DEF AttemptOf, TypeInv, TypeOK, Typed, Walk, Wait
  <1>5. local' \in [attempt : Nat, minted : BOOLEAN]
    <2>1. local' = [attempt |-> AttemptOf(s), minted |-> Minted(s, o)]
      BY DEF Call
    <2>2. Minted(s, o) \in BOOLEAN
      BY DEF Minted
    <2> HIDE DEF o
    <2> QED BY <1>4, <2>1, <2>2
  <1>6. nextId' \in Nat \ {0}
    BY DEF Call, TypeInv, TypeOK
  <1>7. effects' \subseteq Steps \X Nat \X Nat
    <2>1. effects' = IF s \in pkg.mints
                       THEN effects \cup {<<s, w.iteration, w.ids[s]>>} ELSE effects
      BY DEF Call
    <2>2. w.iteration \in Nat /\ w.ids[s] \in Nat
      BY <1>1 DEF Typed, Walk
    <2> HIDE DEF w
    <2> QED BY <2>1, <2>2 DEF TypeInv, TypeOK
  <1> HIDE DEF o, w
  <1>8. phase' = "exec" /\ UNCHANGED <<pkg, status, result, retry, faults, runs>>
    BY DEF Call
  <1> QED
    BY <1>1, <1>2, <1>3, <1>5, <1>6, <1>7, <1>8, TypeFrom DEF TypeInv, TypeOK

-----------------------------------------------------------------------------
(* The call's outcome                                                      *)

LEMMA StepRaisesType ==
    ASSUME TypeInv, NEW s \in Steps, StepRaises(s)
    PROVE  TypeInv'
  <1>1. faults' \in 0..MaxFaults
    BY BoundsAreNat DEF StepRaises, TypeInv, TypeOK
  <1> QED BY <1>1, SavedTyped, TypeFromReturn DEF StepRaises, TypeInv, TypeOK

LEMMA OperationFailsType ==
    ASSUME TypeInv, NEW s \in Steps, OperationFails(s)
    PROVE  TypeInv'
  <1>1. faults' \in 0..MaxFaults
    BY BoundsAreNat DEF OperationFails, TypeInv, TypeOK
  <1> QED BY <1>1, TypeFromReturn DEF OperationFails, FinishRun, TypeInv, TypeOK

LEMMA RetryNowType ==
    ASSUME TypeInv, NEW s \in Steps, RetryNow(s)
    PROVE  TypeInv'
  <1>1. Typed(walk')
    BY Walking DEF RetryNow, Executing
  <1>2. retry' \in [Steps -> Nat \ {0}]
    BY DEF RetryNow, NextAttempt, TypeInv, TypeOK
  <1> QED BY <1>1, <1>2, TypeFromWalk DEF RetryNow

LEMMA RetryLaterType ==
    ASSUME TypeInv, NEW s \in Steps, RetryLater(s)
    PROVE  /\ TypeInv'
           /\ saved'.ids = walk.ids /\ saved'.derived = walk.derived
           /\ saved'.iteration = walk.iteration
  <1>1. [kind |-> "retry_backoff", attempt |-> NextAttempt(s), due |-> FALSE] \in Wait
    BY DEF Wait, Parks, NextAttempt, TypeInv, TypeOK
  <1>2. Typed(walk)
    BY Walking DEF RetryLater, Executing
  <1>3. /\ Typed(saved') /\ saved'.ids = walk.ids /\ saved'.derived = walk.derived
        /\ saved'.iteration = walk.iteration
    BY <1>1, <1>2 DEF RetryLater, Leave, Typed, Walk
  <1> QED BY <1>3, TypeFromReturn DEF RetryLater, Leave, TypeInv, TypeOK

\* What latching the row count can give.
LEMMA ItemsLatched ==
    ASSUME NEW w, Typed(w), NEW s \in Steps, NEW items \in ItemsAfter(w, s)
    PROVE  items \in 0..Unlatched
  BY UnlatchedNat DEF ItemsAfter, Typed

\* The walk once step s has run.
LEMMA RanTyped ==
    ASSUME TypeInv, NEW s \in Steps, Executing(s), NEW items \in 0..Unlatched
    PROVE  /\ Typed(Ran(s, items))
           /\ Ran(s, items).ids = walk.ids /\ Ran(s, items).iteration = walk.iteration
           /\ Ran(s, items).derived =
                 IF InBody(s) /\ local.minted THEN walk.derived \cup {s} ELSE walk.derived
  <1> DEFINE queue == Tail(walk.queue)
             trace == Append(walk.trace, [step |-> s, pass |-> walk.iteration])
             tries == [walk.tries EXCEPT ![s] = 0]
             derived == IF InBody(s) /\ local.minted THEN walk.derived \cup {s}
                        ELSE walk.derived
             visited == walk.visited \cup {s}
             waited == walk.waited \ {s}
  <1>1. Typed(walk) /\ queue \in Seq(Steps)
    BY Walking, HeadFacts DEF Executing, TypeInv
  <1>2. trace \in Seq([step : Steps, pass : Nat])
    BY <1>1, AppendProperties DEF Typed, Walk
  <1>3. /\ tries \in [Steps -> Nat] /\ derived \subseteq Steps
        /\ visited \subseteq Steps /\ waited \subseteq Steps
    BY <1>1 DEF Typed, Walk
  <1>4. Ran(s, items) =
            [walk EXCEPT !.queue = queue, !.visited = visited, !.trace = trace,
                         !.tries = tries, !.waited = waited, !.items = items,
                         !.derived = derived]
    BY DEF Ran
  <1>5. items \in Nat
    BY UnlatchedNat
  <1> HIDE DEF queue, trace, tries, derived, visited, waited
  <1>6. /\ Typed(Ran(s, items)) /\ Ran(s, items).ids = walk.ids
        /\ Ran(s, items).iteration = walk.iteration /\ Ran(s, items).derived = derived
    <2>1. walk \in Walk
      BY <1>1 DEF Typed
    <2> DEFINE moved == [walk EXCEPT !.queue = queue, !.visited = visited, !.trace = trace]
    <2>2. Ran(s, items) \in Walk
      <3>1. moved \in Walk
        BY <1>1, <1>2, <1>3, <2>1 DEF Walk
      <3>2. Ran(s, items) =
                [moved EXCEPT !.tries = tries, !.waited = waited, !.items = items,
                              !.derived = derived]
        BY <1>4, <2>1 DEF Walk
      <3> HIDE DEF moved
      <3> QED BY <1>3, <1>5, <3>1, <3>2 DEF Walk
    <2>3. /\ Ran(s, items).ids = walk.ids /\ Ran(s, items).iteration = walk.iteration
          /\ Ran(s, items).derived = derived /\ Ran(s, items).items = items
      BY <1>4, <2>1 DEF Walk
    <2> QED BY <1>1, <2>2, <2>3 DEF Typed
  <1> QED BY <1>6 DEF derived

LEMMA StepDoneType ==
    ASSUME TypeInv, NEW s \in Steps, StepDone(s)
    PROVE  /\ TypeInv'
           /\ walk'.ids = walk.ids /\ walk'.iteration = walk.iteration
           /\ walk'.derived =
                 IF InBody(s) /\ local.minted THEN walk.derived \cup {s} ELSE walk.derived
  <1>1. PICK r \in pkg.routes[s], items \in ItemsAfter(walk, s) :
            walk' \in EnqueueFrom(Ran(s, items), r)
    BY DEF StepDone
  <1>2. Typed(walk) /\ Executing(s)
    BY Walking DEF StepDone, Executing
  <1>3. items \in 0..Unlatched /\ r \in Routes
    BY <1>1, <1>2, ItemsLatched, PackageFacts DEF TypeInv
  <1>4. /\ Typed(Ran(s, items)) /\ Ran(s, items) \in Walk
        /\ Ran(s, items).ids = walk.ids /\ Ran(s, items).iteration = walk.iteration
        /\ Ran(s, items).derived =
              IF InBody(s) /\ local.minted THEN walk.derived \cup {s} ELSE walk.derived
    BY <1>2, <1>3, RanTyped DEF Typed
  <1>5. /\ walk' \in Walk /\ walk'.ids = Ran(s, items).ids
        /\ walk'.derived = Ran(s, items).derived
        /\ walk'.iteration = Ran(s, items).iteration
        /\ walk'.items = Ran(s, items).items
    BY <1>1, <1>3, <1>4, EnqueueTyped
  <1>6. Typed(walk')
    BY <1>4, <1>5 DEF Typed
  <1>7. retry' \in [Steps -> Nat \ {0}]
    BY DEF StepDone, TypeInv, TypeOK
  <1>8. TypeInv'
    BY <1>6, <1>7, TypeFromWalk DEF StepDone
  <1> QED BY <1>4, <1>5, <1>8

LEMMA LoopLimitType ==
    ASSUME TypeInv, NEW s \in Steps, LoopLimit(s)
    PROVE  TypeInv'
  BY TypeFromReturn DEF LoopLimit, FinishRun, TypeInv, TypeOK

\* The walk with which the next pass begins.
NextWalk(s, items) == BackToEntry(ClearIteration(Ran(s, items)))

LEMMA NextWalkTyped ==
    ASSUME TypeInv, NEW s \in Steps, NEW items \in 0..Unlatched,
           Continues(s, items), ~AtLimit
    PROVE  /\ Typed(NextWalk(s, items))
           /\ NextWalk(s, items).ids =
                 [x \in Steps |-> IF x \in Ran(s, items).derived THEN 0 ELSE walk.ids[x]]
           /\ NextWalk(s, items).derived = {}
           /\ NextWalk(s, items).iteration = walk.iteration + 1
  <1> DEFINE v == Ran(s, items)
             w == ClearIteration(v)
  <1>1. Typed(v) /\ v.ids = walk.ids /\ v.iteration = walk.iteration /\ Typed(walk)
    BY RanTyped, Walking DEF Continues, Executing
  <1>2. walk.iteration + 1 < pkg.loop.max
    <2>1. walk.iteration \in Nat /\ pkg.loop.max \in Nat
      BY <1>1, PackageFacts DEF Typed, Walk, TypeInv
    <2> QED BY <2>1 DEF AtLimit
  <1>3. Looping
    BY DEF Continues, AtTail
  <1> HIDE DEF v
  <1>4. /\ Typed(w) /\ w.derived = {} /\ w.iteration = v.iteration + 1
        /\ w.ids = [x \in Steps |-> IF x \in v.derived THEN 0 ELSE v.ids[x]]
    <2> DEFINE ids == [x \in Steps |-> IF x \in v.derived THEN 0 ELSE v.ids[x]]
               visited == v.visited \ pkg.loop.body
               n == v.iteration + 1
    <2>1. /\ v \in Walk /\ ids \in [Steps -> Nat] /\ visited \subseteq Steps /\ n \in Nat
          /\ n < pkg.loop.max /\ v.items \in 0..Unlatched
      BY <1>1, <1>2 DEF Typed, Walk
    <2>2. w = [v EXCEPT !.ids = ids, !.derived = {}, !.visited = visited, !.iteration = n]
      BY DEF ClearIteration
    <2> HIDE DEF ids, visited, n, w
    <2>3. /\ Typed(w) /\ w.derived = {} /\ w.iteration = n /\ w.ids = ids
      BY <2>1, <2>2 DEF Typed, Walk
    <2> QED BY <2>3 DEF ids, n
  <1>5. Append(w.queue, pkg.loop.entry) \in Seq(Steps)
    BY <1>4, PackageFacts, AppendProperties DEF Typed, Walk, TypeInv
  <1> HIDE DEF w
  <1>6. /\ Typed(BackToEntry(w)) /\ BackToEntry(w).ids = w.ids
        /\ BackToEntry(w).derived = w.derived /\ BackToEntry(w).iteration = w.iteration
    BY <1>4, <1>5 DEF BackToEntry, Typed, Walk
  <1> QED BY <1>1, <1>4, <1>6 DEF NextWalk, v, w

LEMMA NextPassType ==
    ASSUME TypeInv, NEW s \in Steps, NextPass(s)
    PROVE  TypeInv'
  <1>1. PICK items \in 0..Unlatched :
            Continues(s, items) /\ ~AtLimit /\ walk' = NextWalk(s, items)
    BY DEF NextPass, NextWalk
  <1>2. Typed(walk')
    BY <1>1, NextWalkTyped
  <1>3. retry' \in [Steps -> Nat \ {0}]
    BY DEF NextPass, TypeInv, TypeOK
  <1> QED BY <1>2, <1>3, TypeFromWalk DEF NextPass

\* A pause between two passes saves the next pass's walk with its wait.
LEMMA NextPassLaterType ==
    ASSUME TypeInv, NEW s \in Steps, NextPassLater(s)
    PROVE  /\ TypeInv'
           /\ \E items \in 0..Unlatched :
                 /\ Continues(s, items) /\ ~AtLimit
                 /\ saved'.ids = NextWalk(s, items).ids
                 /\ saved'.derived = NextWalk(s, items).derived
                 /\ saved'.iteration = NextWalk(s, items).iteration
  <1> DEFINE wait == [kind |-> "loop_delay", attempt |-> 0, due |-> FALSE]
  <1>1. PICK items \in 0..Unlatched :
            /\ Continues(s, items) /\ ~AtLimit
            /\ Leave([NextWalk(s, items) EXCEPT !.wait = wait], "waiting")
    BY DEF NextPassLater, NextWalk
  <1>2. wait \in Wait
    BY DEF Wait, Parks
  <1> HIDE DEF wait
  <1>3. Typed(NextWalk(s, items))
    BY <1>1, NextWalkTyped
  <1>4. /\ Typed(saved') /\ saved'.ids = NextWalk(s, items).ids
        /\ saved'.derived = NextWalk(s, items).derived
        /\ saved'.iteration = NextWalk(s, items).iteration
    BY <1>1, <1>2, <1>3 DEF Leave, Typed, Walk
  <1>5. TypeInv'
    BY <1>1, <1>4, TypeFromReturn DEF NextPassLater, Leave, TypeInv, TypeOK
  <1> QED BY <1>1, <1>4, <1>5

LEMMA StepType == TypeInv /\ [Next]_vars => TypeInv'
  <1> SUFFICES ASSUME TypeInv, [Next]_vars PROVE TypeInv'
    OBVIOUS
  <1>1. ASSUME NEW s \in Steps,
               \/ DropVisited(s) \/ SkipLoop(s) \/ AskOperator(s) \/ ParkWait(s)
               \/ RejectPolicy(s) \/ Call(s)
        PROVE  TypeInv'
    BY <1>1, DropVisitedType, SkipLoopType, AskOperatorType, ParkWaitType,
       RejectPolicyType, CallType
  <1>2. ASSUME NEW s \in Steps,
               \/ StepRaises(s) \/ OperationFails(s) \/ RetryNow(s) \/ RetryLater(s)
               \/ StepDone(s) \/ LoopLimit(s) \/ NextPass(s) \/ NextPassLater(s)
        PROVE  TypeInv'
    BY <1>2, StepRaisesType, OperationFailsType, RetryNowType, RetryLaterType,
       StepDoneType, LoopLimitType, NextPassType, NextPassLaterType
  <1>3. CASE UNCHANGED vars
    BY <1>3 DEF vars, TypeInv, TypeOK, Looping
  <1> QED
    BY <1>1, <1>2, <1>3, StartFreshType, ResumeType, WaitDueType, CrashType, FinishType
    DEF Next, RunnerStep

\* Every variable keeps its type; in particular no pass number ever reaches the
\* loop's limit, for any package, crash or resume.
THEOREM TypeCorrect == Spec => []TypeOK
  <1>1. TypeInv => TypeOK
    BY DEF TypeInv
  <1> QED BY InitType, StepType, <1>1, PTL DEF Spec

-----------------------------------------------------------------------------
(* Minted ids                                                              *)
(*                                                                         *)
(* A create step may be called again because the process died after the    *)
(* call and the walk went back to the snapshot.  The snapshot can be       *)
(* several passes older than the call: a pass that mints nothing saves     *)
(* nothing.  So the invariant relates three things: the calls made, the    *)
(* ids the runner holds, and the ids the row holds for this and for later  *)
(* passes.                                                                 *)

\* Of the calls recorded in E, those of w's pass or a later one carry the id that
\* w still holds; and w will not drop it before that later pass.
Records(E, w) ==
    \A e \in E : e[2] >= w.iteration =>
        /\ w.ids[e[1]] = e[3]
        /\ e[2] > w.iteration => e[1] \notin w.derived

\* The row's walk v knows every id the runner's walk w holds.
Covered(w, v) ==
    \A s \in Steps : w.ids[s] # 0 =>
        /\ v # None
        /\ v.ids[s] = w.ids[s]
        /\ w.iteration > v.iteration => s \notin v.derived

\* The runner is not behind the row.
Ahead(w, v) ==
    v # None =>
        /\ w.iteration >= v.iteration
        /\ w.iteration = v.iteration => v.derived \subseteq w.derived

\* An id minted for this call was never used in a later pass.
MintedNow(E, s, w) == \A e \in E : e[1] = s => e[2] <= w.iteration

IdsInv ==
    /\ \A e \in effects : e[3] # 0
    /\ walk # None => Records(effects, walk) /\ Covered(walk, saved) /\ Ahead(walk, saved)
    /\ saved # None => Records(effects, saved)
    /\ phase = "exec" /\ local.minted => MintedNow(effects, Head(walk.queue), walk)
    /\ StableIds

SameIds(w, v) == w.ids = v.ids /\ w.derived = v.derived /\ w.iteration = v.iteration

LEMMA InitIds == Init => IdsInv
  BY DEF Init, IdsInv, StableIds

\* Steps that mint nothing, drop nothing and change no pass.
LEMMA IdsKept ==
    ASSUME IdsInv, effects' = effects,
           walk' = None \/ (walk # None /\ SameIds(walk', walk)),
           \/ saved' = None
           \/ saved # None /\ SameIds(saved', saved)
           \/ walk # None /\ SameIds(saved', walk),
           walk' # None => \/ saved' = saved
                           \/ saved # None /\ saved' # None /\ SameIds(saved', saved),
           phase' = "exec" => phase = "exec" /\ UNCHANGED <<walk, local>>
    PROVE  IdsInv'
  <1>1. walk' # None => /\ Records(effects', walk') /\ Covered(walk', saved')
                        /\ Ahead(walk', saved')
    BY DEF IdsInv, SameIds, Records, Covered, Ahead
  <1>2. saved' # None => Records(effects', saved')
    BY DEF IdsInv, SameIds, Records
  <1>3. (phase = "exec" /\ local.minted => MintedNow(effects, Head(walk.queue), walk))'
    BY DEF IdsInv, MintedNow
  <1>4. StableIds' /\ \A e \in effects' : e[3] # 0
    BY DEF IdsInv, StableIds
  <1> QED BY <1>1, <1>2, <1>3, <1>4 DEF IdsInv

LEMMA StartFreshIds ==
    ASSUME TypeInv, IdsInv, StartFresh
    PROVE  IdsInv'
  <1>1. PICK answers \in SUBSET pkg.asks : walk' = FreshWalk(pkg, answers)
    BY DEF StartFresh
  <1>2. /\ effects' = {} /\ saved' = None /\ phase' = "head"
        /\ \A s \in Steps : walk'.ids[s] = 0
    BY <1>1 DEF StartFresh, FreshWalk
  <1>3. Records(effects', walk') /\ Covered(walk', saved') /\ Ahead(walk', saved')
    BY <1>2 DEF Records, Covered, Ahead
  <1>4. StableIds' /\ \A e \in effects' : e[3] # 0
    BY <1>2 DEF StableIds
  <1> QED BY <1>2, <1>3, <1>4 DEF IdsInv

LEMMA ResumeIds ==
    ASSUME TypeInv, IdsInv, Resume
    PROVE  IdsInv'
  <1>1. Typed(saved) /\ saved # None
    BY SavedTyped DEF Resume
  <1>2. /\ SameIds(walk', saved) /\ UNCHANGED <<saved, effects>> /\ phase' = "head"
    BY <1>1 DEF Resume, SameIds, Typed, Walk
  <1>3. saved.iteration \in Nat
    BY <1>1 DEF Typed, Walk
  <1>4. Records(effects', walk') /\ Covered(walk', saved') /\ Ahead(walk', saved')
    BY <1>1, <1>2, <1>3 DEF IdsInv, SameIds, Records, Covered, Ahead
  <1>5. StableIds' /\ \A e \in effects' : e[3] # 0
    BY <1>2 DEF IdsInv, StableIds
  <1> QED BY <1>2, <1>4, <1>5 DEF IdsInv, Records

\* The call: either it mints, and row and runner both hold the new id, or the id
\* was known, and the row holds it too.
LEMMA CallIds ==
    ASSUME TypeInv, IdsInv, NEW s \in Steps, Call(s)
    PROVE  IdsInv'
  <1> DEFINE o == Opened(s)
             w == WithMintedId(s, o)
             n == walk.iteration
  <1>1. /\ Typed(walk) /\ walk # None /\ Taken(s) /\ s = Head(walk.queue)
    BY Walking, NullAssumption DEF Call, Taken, AtHead, Typed
  <1>2. Typed(o) /\ SameIds(o, walk) /\ o.queue = walk.queue
    BY <1>1, OpenedTyped DEF SameIds
  <1>3. n \in Nat /\ walk.ids \in [Steps -> Nat] /\ nextId \in Nat \ {0}
        /\ effects \subseteq Steps \X Nat \X Nat
    BY <1>1 DEF Typed, Walk, TypeInv, TypeOK
  <1>4. /\ Typed(w) /\ w.derived = walk.derived /\ w.iteration = n
        /\ w.queue = walk.queue
        /\ w.ids = IF Minted(s, o) THEN [walk.ids EXCEPT ![s] = nextId] ELSE walk.ids
    <2> HIDE DEF o
    <2> QED BY <1>2, MintTyped DEF SameIds
  <1>5. SameIds(walk', w) /\ walk'.queue = walk.queue
    <2>1. walk' = [w EXCEPT !.tries[s] = @ + 1,
                            !.waited = IF MustPark(s) THEN @ \cup {s} ELSE @]
      BY DEF Call
    <2> HIDE DEF w
    <2> QED BY <1>4, <2>1 DEF SameIds, Typed, Walk
  <1>6. /\ saved' = IF Minted(s, o) THEN w ELSE saved
        /\ local'.minted = Minted(s, o) /\ phase' = "exec"
        /\ effects' = IF s \in pkg.mints THEN effects \cup {<<s, w.iteration, w.ids[s]>>}
                      ELSE effects
    BY DEF Call, SavedAfterMint
  <1>7. Minted(s, o) <=> s \in pkg.mints /\ walk.ids[s] = 0
    BY <1>2 DEF Minted, SameIds
  <1> HIDE DEF o, w
  <1>8. CASE s \in pkg.mints /\ walk.ids[s] = 0
    <2>1. \A e \in effects : e[2] >= n => e[1] # s
      BY <1>1, <1>8 DEF IdsInv, Records
    <2>2. /\ effects' = effects \cup {<<s, n, nextId>>} /\ saved' = w
          /\ w.ids = [walk.ids EXCEPT ![s] = nextId]
      BY <1>3, <1>4, <1>6, <1>7, <1>8
    <2>3. Records(effects', w)
      BY <1>1, <1>3, <1>4, <2>1, <2>2 DEF IdsInv, Records
    <2>4. Records(effects', walk') /\ Covered(walk', saved') /\ Ahead(walk', saved')
      <3>1. saved' # None
        BY <1>4, <2>2, NullAssumption DEF Typed
      <3> QED BY <1>3, <1>4, <1>5, <2>2, <2>3, <3>1 DEF SameIds, Records, Covered, Ahead
    <2>5. MintedNow(effects', Head(walk'.queue), walk')
      BY <1>1, <1>3, <1>4, <1>5, <2>1, <2>2 DEF MintedNow, SameIds
    <2>6. StableIds' /\ \A e \in effects' : e[3] # 0
      BY <1>3, <2>1, <2>2 DEF IdsInv, StableIds
    <2> QED BY <2>2, <2>3, <2>4, <2>5, <2>6 DEF IdsInv
  <1>9. CASE s \in pkg.mints /\ walk.ids[s] # 0
    <2>1. /\ effects' = effects \cup {<<s, n, walk.ids[s]>>} /\ saved' = saved
          /\ SameIds(walk', walk) /\ ~local'.minted
      BY <1>4, <1>5, <1>6, <1>7, <1>9 DEF SameIds
    <2>2. Records(effects', walk')
      BY <1>1, <1>3, <2>1 DEF IdsInv, Records, SameIds
    <2>3. Covered(walk', saved') /\ Ahead(walk', saved')
      BY <1>1, <2>1 DEF IdsInv, Covered, Ahead, SameIds
    <2>4. saved # None /\ Records(effects', saved')
      BY <1>1, <1>3, <1>9, <2>1 DEF IdsInv, Records, Covered
    <2>5. StableIds' /\ \A e \in effects' : e[3] # 0
      BY <1>1, <1>3, <1>9, <2>1 DEF IdsInv, StableIds, Records
    <2> QED BY <2>1, <2>2, <2>3, <2>4, <2>5 DEF IdsInv
  <1>10. CASE s \notin pkg.mints
    <2>1. effects' = effects /\ saved' = saved /\ SameIds(walk', walk) /\ ~local'.minted
      BY <1>4, <1>5, <1>6, <1>7, <1>10 DEF SameIds
    <2>2. Records(effects', walk') /\ Covered(walk', saved') /\ Ahead(walk', saved')
      BY <1>1, <2>1 DEF IdsInv, Records, Covered, Ahead, SameIds
    <2>3. StableIds' /\ \A e \in effects' : e[3] # 0
      BY <2>1 DEF IdsInv, StableIds
    <2> QED BY <2>1, <2>2, <2>3 DEF IdsInv
  <1> QED BY <1>8, <1>9, <1>10

\* The names a step introduced are noted when it has run; none of them was called
\* for in a later pass, since this call minted it.
LEMMA StepDoneIds ==
    ASSUME TypeInv, IdsInv, NEW s \in Steps, StepDone(s)
    PROVE  IdsInv'
  <1>1. /\ walk'.ids = walk.ids /\ walk'.iteration = walk.iteration
        /\ walk'.derived =
              IF InBody(s) /\ local.minted THEN walk.derived \cup {s} ELSE walk.derived
    BY StepDoneType
  <1>2. /\ walk # None /\ phase = "exec" /\ s = Head(walk.queue)
        /\ UNCHANGED <<saved, effects>> /\ phase' = "head"
    BY Walking, NullAssumption DEF StepDone, Executing, Typed, row
  <1>3. local.minted => \A e \in effects : e[1] = s => e[2] <= walk.iteration
    BY <1>2 DEF IdsInv, MintedNow
  <1>4. walk.iteration \in Nat /\ effects \subseteq Steps \X Nat \X Nat
    BY <1>2, Walking DEF Typed, Walk, TypeInv, TypeOK
  <1>5. Records(effects, walk) /\ Covered(walk, saved) /\ Ahead(walk, saved)
    BY <1>2 DEF IdsInv
  <1>6. Records(effects, walk')
    <2>1. local.minted => \A e \in effects : e[2] > walk.iteration => e[1] # s
      BY <1>3, <1>4
    <2>2. \A x \in walk'.derived : x \in walk.derived \/ (x = s /\ local.minted)
      BY <1>1
    <2> QED BY <1>1, <1>5, <2>1, <2>2 DEF Records
  <1>7. Covered(walk', saved) /\ Ahead(walk', saved)
    <2>1. walk.derived \subseteq walk'.derived
      BY <1>1
    <2> QED BY <1>1, <1>5, <2>1 DEF Covered, Ahead
  <1>8. StableIds' /\ \A e \in effects' : e[3] # 0
    BY <1>2 DEF IdsInv, StableIds
  <1> QED BY <1>2, <1>6, <1>7, <1>8 DEF IdsInv

\* The next pass drops the ids of this one, and only those.
LEMMA NextWalkIds ==
    ASSUME TypeInv, IdsInv, NEW s \in Steps, NEW items \in 0..Unlatched,
           Continues(s, items), ~AtLimit
    PROVE  /\ Records(effects, NextWalk(s, items))
           /\ Covered(NextWalk(s, items), saved)
           /\ Ahead(NextWalk(s, items), saved)
  <1> DEFINE N == NextWalk(s, items)
             D == IF InBody(s) /\ local.minted THEN walk.derived \cup {s}
                  ELSE walk.derived
  <1>1. Executing(s)
    BY DEF Continues
  <1>2. /\ N.ids = [x \in Steps |-> IF x \in D THEN 0 ELSE walk.ids[x]]
        /\ N.derived = {} /\ N.iteration = walk.iteration + 1
    <2>1. Ran(s, items).derived = D
      BY <1>1, RanTyped
    <2> HIDE DEF D
    <2> QED BY <2>1, NextWalkTyped
  <1>3. /\ walk # None /\ phase = "exec" /\ s = Head(walk.queue) /\ Typed(walk)
    BY <1>1, Walking, NullAssumption DEF Executing, Typed
  <1>4. /\ walk.iteration \in Nat /\ effects \subseteq Steps \X Nat \X Nat
        /\ saved # None => saved.iteration \in Nat
    BY <1>3, SavedTyped DEF Typed, Walk, TypeInv, TypeOK
  <1>5. Records(effects, walk) /\ Covered(walk, saved) /\ Ahead(walk, saved)
    BY <1>3 DEF IdsInv
  <1>6. walk.derived \subseteq D
    OBVIOUS
  <1>7. \A e \in effects : e[2] > walk.iteration => e[1] \notin D
    <2>1. local.minted => \A e \in effects : e[2] > walk.iteration => e[1] # s
      BY <1>3, <1>4 DEF IdsInv, MintedNow
    <2>2. \A x \in D : x \in walk.derived \/ (x = s /\ local.minted)
      OBVIOUS
    <2>3. \A e \in effects : e[2] > walk.iteration => e[1] \notin walk.derived
      BY <1>4, <1>5 DEF Records
    <2> HIDE DEF D
    <2> QED BY <2>1, <2>2, <2>3
  <1> HIDE DEF D, N
  <1>8. Records(effects, N)
    <2>1. \A e \in effects : e[2] >= walk.iteration + 1 =>
              e[2] > walk.iteration /\ e[2] >= walk.iteration /\ e[1] \in Steps
      BY <1>4
    <2>2. \A e \in effects : e[2] >= N.iteration => N.ids[e[1]] = e[3]
      BY <1>2, <1>5, <1>7, <2>1 DEF Records
    <2> QED BY <1>2, <2>2 DEF Records
  <1>9. Covered(N, saved)
    <2> SUFFICES ASSUME NEW x \in Steps, N.ids[x] # 0
                 PROVE  /\ saved # None /\ saved.ids[x] = N.ids[x]
                        /\ N.iteration > saved.iteration => x \notin saved.derived
      BY DEF Covered
    <2>1. x \notin D /\ N.ids[x] = walk.ids[x]
      BY <1>2
    <2>2. /\ saved # None /\ saved.ids[x] = N.ids[x]
          /\ walk.iteration > saved.iteration => x \notin saved.derived
      BY <1>5, <2>1 DEF Covered
    <2>3. walk.iteration = saved.iteration => x \notin saved.derived
      BY <1>5, <1>6, <2>1, <2>2 DEF Ahead
    <2>4. walk.iteration > saved.iteration \/ walk.iteration = saved.iteration
      BY <1>4, <1>5, <2>2 DEF Ahead
    <2> QED BY <2>2, <2>3, <2>4
  <1>10. Ahead(N, saved)
    BY <1>2, <1>4, <1>5 DEF Ahead
  <1> QED BY <1>8, <1>9, <1>10 DEF N

LEMMA NextPassIds ==
    ASSUME TypeInv, IdsInv, NEW s \in Steps, NextPass(s)
    PROVE  IdsInv'
  <1>1. PICK items \in 0..Unlatched :
            Continues(s, items) /\ ~AtLimit /\ walk' = NextWalk(s, items)
    BY DEF NextPass, NextWalk
  <1>2. UNCHANGED <<saved, effects>> /\ phase' = "head"
    BY DEF NextPass, row
  <1>3. Records(effects, walk') /\ Covered(walk', saved) /\ Ahead(walk', saved)
    BY <1>1, NextWalkIds
  <1>4. StableIds' /\ \A e \in effects' : e[3] # 0
    BY <1>2 DEF IdsInv, StableIds
  <1> QED BY <1>2, <1>3, <1>4 DEF IdsInv

LEMMA NextPassLaterIds ==
    ASSUME TypeInv, IdsInv, NEW s \in Steps, NextPassLater(s)
    PROVE  IdsInv'
  <1>1. PICK items \in 0..Unlatched :
            /\ Continues(s, items) /\ ~AtLimit
            /\ SameIds(saved', NextWalk(s, items))
    BY NextPassLaterType DEF SameIds
  <1>2. walk' = None /\ phase' = "idle" /\ effects' = effects
    BY DEF NextPassLater, Leave, Return
  <1>3. Records(effects, saved')
    BY <1>1, NextWalkIds DEF Records, SameIds
  <1>4. StableIds' /\ \A e \in effects' : e[3] # 0
    BY <1>2 DEF IdsInv, StableIds
  <1> QED BY <1>2, <1>3, <1>4 DEF IdsInv

\* The ends of a run: the runner is gone, the row holds nothing, what it held, or
\* the ids the runner had.
LEMMA ReturnIds ==
    ASSUME IdsInv, Return, effects' = effects,
           \/ saved' = None \/ saved' = saved
           \/ walk # None /\ SameIds(saved', walk)
    PROVE  IdsInv'
  <1>1. walk' = None /\ phase' = "idle"
    BY DEF Return
  <1> QED BY <1>1, IdsKept DEF SameIds

LEMMA HeadStepIds ==
    ASSUME TypeInv, IdsInv, NEW s \in Steps,
           \/ DropVisited(s) \/ SkipLoop(s) \/ AskOperator(s) \/ ParkWait(s)
           \/ RejectPolicy(s)
    PROVE  IdsInv'
  <1>1. Typed(walk) /\ walk # None
    BY Walking, NullAssumption
    DEF DropVisited, SkipLoop, AskOperator, ParkWait, RejectPolicy, Taken, AtHead, Typed
  <1>2. CASE DropVisited(s)
    <2>1. SameIds(walk', walk)
      BY <1>1, <1>2 DEF DropVisited, SameIds, Typed, Walk
    <2>2. UNCHANGED <<saved, effects>> /\ phase' = "head"
      BY <1>2 DEF DropVisited, AtHead, row
    <2> QED BY <1>1, <2>1, <2>2, IdsKept DEF SameIds
  <1>3. CASE SkipLoop(s)
    <2>1. SameIds(walk', walk)
      BY <1>3, SkipLoopType DEF SameIds
    <2>2. UNCHANGED <<saved, effects>> /\ phase' = "head"
      BY <1>3 DEF SkipLoop, AtHead, row
    <2> QED BY <1>1, <2>1, <2>2, IdsKept DEF SameIds
  <1>4. CASE AskOperator(s)
    <2>1. SameIds(saved', walk)
      BY <1>1, <1>4, OpenedTyped DEF AskOperator, Leave, SameIds
    <2> QED BY <1>1, <1>4, <2>1, ReturnIds DEF AskOperator, Leave
  <1>5. CASE ParkWait(s)
    <2>1. SameIds(saved', walk)
      BY <1>5, ParkWaitType DEF SameIds
    <2>2. Return /\ effects' = effects
      BY <1>5 DEF ParkWait, Leave
    <2> QED BY <1>1, <2>1, <2>2, ReturnIds
  <1>6. CASE RejectPolicy(s)
    BY <1>6, ReturnIds DEF RejectPolicy, FinishRun
  <1> QED BY <1>2, <1>3, <1>4, <1>5, <1>6

LEMMA OutcomeIds ==
    ASSUME TypeInv, IdsInv, NEW s \in Steps,
           \/ StepRaises(s) \/ OperationFails(s) \/ RetryNow(s) \/ RetryLater(s)
           \/ LoopLimit(s)
    PROVE  IdsInv'
  <1>1. CASE StepRaises(s) \/ OperationFails(s) \/ LoopLimit(s)
    BY <1>1, ReturnIds DEF StepRaises, OperationFails, LoopLimit, FinishRun
  <1>2. CASE RetryNow(s)
    <2>1. walk # None
      BY <1>2, Walking, NullAssumption DEF RetryNow, Executing, Typed
    <2>2. UNCHANGED <<walk, saved, effects>> /\ phase' = "head"
      BY <1>2 DEF RetryNow, row
    <2> QED BY <2>1, <2>2, IdsKept DEF SameIds
  <1>3. CASE RetryLater(s)
    <2>1. walk # None /\ SameIds(saved', walk)
      BY <1>3, Walking, RetryLaterType, NullAssumption
      DEF RetryLater, Executing, Typed, SameIds
    <2>2. Return /\ effects' = effects
      BY <1>3 DEF RetryLater, Leave
    <2> QED BY <2>1, <2>2, ReturnIds
  <1> QED BY <1>1, <1>2, <1>3

LEMMA WaitDueIds ==
    ASSUME TypeInv, IdsInv, WaitDue
    PROVE  IdsInv'
  <1>1. Typed(saved) /\ saved # None
    BY SavedTyped DEF WaitDue
  <1>2. SameIds(saved', saved) /\ saved' # None
    <2>1. saved' = [saved EXCEPT !.wait.due = TRUE]
      BY DEF WaitDue
    <2>2. SameIds(saved', saved)
      BY <1>1, <2>1 DEF SameIds, Typed, Walk
    <2>3. saved' \in Walk
      <3>1. saved.wait \in Wait
        BY <1>1 DEF Typed, Walk
      <3>2. [saved.wait EXCEPT !.due = TRUE] \in Wait
        BY <3>1 DEF Wait
      <3> QED BY <1>1, <2>1, <3>2 DEF Typed, Walk
    <2> QED BY <2>2, <2>3, NullAssumption
  <1>3. UNCHANGED <<walk, phase, local, effects>>
    BY DEF WaitDue
  <1>4. walk' = None \/ (walk # None /\ SameIds(walk', walk))
    BY <1>3 DEF SameIds
  <1> QED BY <1>1, <1>2, <1>3, <1>4, IdsKept

LEMMA StepIds == TypeInv /\ IdsInv /\ [Next]_vars => IdsInv'
  <1> SUFFICES ASSUME TypeInv, IdsInv, [Next]_vars PROVE IdsInv'
    OBVIOUS
  <1>1. ASSUME NEW s \in Steps,
               \/ DropVisited(s) \/ SkipLoop(s) \/ AskOperator(s) \/ ParkWait(s)
               \/ RejectPolicy(s) \/ Call(s)
        PROVE  IdsInv'
    BY <1>1, HeadStepIds, CallIds
  <1>2. ASSUME NEW s \in Steps,
               \/ StepRaises(s) \/ OperationFails(s) \/ RetryNow(s) \/ RetryLater(s)
               \/ StepDone(s) \/ LoopLimit(s) \/ NextPass(s) \/ NextPassLater(s)
        PROVE  IdsInv'
    BY <1>2, OutcomeIds, StepDoneIds, NextPassIds, NextPassLaterIds
  <1>3. CASE Crash \/ Finish
    BY <1>3, ReturnIds DEF Crash, Finish, FinishRun
  <1>4. CASE UNCHANGED vars
    BY <1>4 DEF vars, IdsInv, Records, Covered, Ahead, MintedNow, StableIds
  <1> QED
    BY <1>1, <1>2, <1>3, <1>4, StartFreshIds, ResumeIds, WaitDueIds
    DEF Next, RunnerStep

\* A create step that is called again, after a crash, an error or a park, however
\* many passes the snapshot is behind, is called with the id of its first call in
\* that pass: the graph's MERGE finds the entity it created.
THEOREM IdsStable == Spec => []StableIds
  <1>1. Init => TypeInv /\ IdsInv
    BY InitType, InitIds
  <1>2. TypeInv /\ IdsInv /\ [Next]_vars => (TypeInv /\ IdsInv)'
    BY StepType, StepIds
  <1>3. TypeInv /\ IdsInv => StableIds
    BY DEF IdsInv
  <1> QED BY <1>1, <1>2, <1>3, PTL DEF Spec

-----------------------------------------------------------------------------
(* Sequences of steps as sets                                              *)

LEMMA ToSetConcat ==
    ASSUME NEW p \in Seq(Steps), NEW q \in Seq(Steps)
    PROVE  ToSet(p \o q) = ToSet(p) \cup ToSet(q)
  <1>1. /\ p \o q \in Seq(Steps) /\ Len(p \o q) = Len(p) + Len(q)
        /\ \A i \in 1..(Len(p) + Len(q)) :
              (p \o q)[i] = IF i <= Len(p) THEN p[i] ELSE q[i - Len(p)]
    BY ConcatProperties
  <1>2. DOMAIN p = 1..Len(p) /\ DOMAIN q = 1..Len(q) /\ DOMAIN (p \o q) = 1..(Len(p) + Len(q))
    BY <1>1
  <1>3. Len(p) \in Nat /\ Len(q) \in Nat
    BY LenProperties
  <1>4. ASSUME NEW i \in 1..Len(p) PROVE p[i] \in ToSet(p \o q)
    BY <1>1, <1>2, <1>3 DEF ToSet
  <1>5. ASSUME NEW i \in 1..Len(q) PROVE q[i] \in ToSet(p \o q)
    <2>1. i + Len(p) \in 1..(Len(p) + Len(q)) /\ (p \o q)[i + Len(p)] = q[i]
      BY <1>1, <1>3
    <2> QED BY <1>2, <2>1 DEF ToSet
  <1>6. ASSUME NEW i \in 1..(Len(p) + Len(q))
        PROVE  (p \o q)[i] \in ToSet(p) \cup ToSet(q)
    <2>1. CASE i <= Len(p)
      BY <1>1, <1>2, <1>3, <2>1 DEF ToSet
    <2>2. CASE i > Len(p)
      <3>1. i - Len(p) \in 1..Len(q) /\ (p \o q)[i] = q[i - Len(p)]
        BY <1>1, <1>3, <2>2
      <3> QED BY <1>2, <3>1 DEF ToSet
    <2> QED BY <1>3, <2>1, <2>2
  <1> QED BY <1>2, <1>4, <1>5, <1>6 DEF ToSet

LEMMA ToSetHeadTail ==
    ASSUME NEW q \in Seq(Steps), q # <<>>
    PROVE  ToSet(q) = {Head(q)} \cup ToSet(Tail(q))
  <1>1. Len(q) \in Nat \ {0} /\ DOMAIN q = 1..Len(q)
    BY EmptySeq, LenProperties
  <1>2. /\ Head(q) = q[1] /\ DOMAIN Tail(q) = 1..(Len(q) - 1)
        /\ \A i \in 1..(Len(q) - 1) : Tail(q)[i] = q[i + 1]
    BY <1>1, HeadTailProperties, LenProperties
  <1>3. \A i \in 1..Len(q) : i = 1 \/ i - 1 \in 1..(Len(q) - 1)
    BY <1>1
  <1>4. ASSUME NEW i \in 1..Len(q) PROVE q[i] \in {Head(q)} \cup ToSet(Tail(q))
    <2>1. CASE i = 1
      BY <1>2, <2>1
    <2>2. CASE i # 1
      <3>1. i - 1 \in DOMAIN Tail(q) /\ Tail(q)[i - 1] = q[i]
        BY <1>1, <1>2, <1>3, <2>2
      <3> QED BY <3>1 DEF ToSet
    <2> QED BY <2>1, <2>2
  <1>5. ASSUME NEW i \in DOMAIN Tail(q) PROVE Tail(q)[i] \in ToSet(q)
    BY <1>1, <1>2 DEF ToSet
  <1> QED BY <1>1, <1>2, <1>4, <1>5 DEF ToSet

LEMMA ToSetAppend ==
    ASSUME NEW q \in Seq(Steps), NEW s \in Steps
    PROVE  ToSet(Append(q, s)) = ToSet(q) \cup {s}
  <1>1. Append(q, s) = q \o <<s>> /\ <<s>> \in Seq(Steps)
    BY AppendIsConcat
  <1>2. ToSet(<<s>>) = {s}
    BY DEF ToSet
  <1> QED BY <1>1, <1>2, ToSetConcat

LEMMA ToSetTyped ==
    ASSUME NEW q \in Seq(Steps)
    PROVE  ToSet(q) \subseteq Steps
  BY LenProperties, ElementOfSeq DEF ToSet

\* An ordering of a set of steps holds steps of that set only.
LEMMA OrderingsHold ==
    ASSUME NEW S \in SUBSET Steps, NEW q \in SetToSeqs(S)
    PROVE  ToSet(q) \subseteq S
  BY DEF SetToSeqs, ToSet

\* It holds all of them: it is one-to-one from as many places.
LEMMA OrderingsAreAll ==
    ASSUME NEW S \in SUBSET Steps, NEW q \in SetToSeqs(S)
    PROVE  ToSet(q) = S
  <1> DEFINE n == Cardinality(S)
  <1>1. IsFiniteSet(S) /\ n \in Nat
    BY StepsFinite, FS_Subset, FS_CardinalityType
  <1>2. q \in [1..n -> S] /\ \A i, k \in 1..n : i # k => q[i] # q[k]
    BY DEF SetToSeqs
  <1>3. q \in Injection(1..n, S)
    BY <1>2 DEF Injection, IsInjective
  <1>4. Cardinality(1..n) = n
    BY <1>1, FS_Interval
  <1>5. q \in Surjection(1..n, S)
    BY <1>1, <1>3, <1>4, FS_Injection
  <1> QED BY <1>2, <1>5 DEF Surjection, ToSet

-----------------------------------------------------------------------------
(* Paths                                                                   *)

LEMMA ReachNext ==
    ASSUME NEW s \in Steps, NEW t \in pkg.next[s]
    PROVE  CanReach(pkg, s, t)
  BY DEF CanReach

LEMMA ReachTransitive ==
    ASSUME NEW s, NEW t, NEW x, CanReach(pkg, s, t), CanReach(pkg, t, x)
    PROVE  CanReach(pkg, s, x)
  BY DEF CanReach

-----------------------------------------------------------------------------
(* Routing                                                                 *)
(*                                                                         *)
(* Whatever a step does, the walks it leaves behind (the runner's and the  *)
(* row's) have one of five shapes as far as the order of steps goes: begun,*)
(* as some walk was before, a duplicate dropped, the head's targets queued,*)
(* or the body opened for another pass.                                    *)

SameRoute(v, w) ==
    /\ v.queue = w.queue /\ v.visited = w.visited /\ v.arrivals = w.arrivals
    /\ v.iteration = w.iteration /\ v.trace = w.trace

Begun(v) ==
    /\ v.queue = <<pkg.first>> /\ v.visited = {} /\ v.arrivals = {}
    /\ v.iteration = 0 /\ v.trace = <<>>

Kept(v) == \E w \in LiveWalks : SameRoute(v, w)

Dropped(v) ==
    /\ phase = "head" /\ walk.queue # <<>> /\ Head(walk.queue) \in walk.visited
    /\ v.queue = Tail(walk.queue)
    /\ v.visited = walk.visited /\ v.arrivals = walk.arrivals
    /\ v.iteration = walk.iteration /\ v.trace = walk.trace

\* u is the runner's walk once its head has run.
HeadRan(u) ==
    /\ phase = "exec"
    /\ u.queue = Tail(walk.queue) /\ u.visited = walk.visited \cup {Head(walk.queue)}
    /\ u.arrivals = walk.arrivals /\ u.iteration = walk.iteration
    /\ u.trace = Append(walk.trace, [step |-> Head(walk.queue), pass |-> walk.iteration])

\* u is the runner's walk once its head, the loop's entry, has been passed over.
HeadPassed(u) ==
    /\ phase = "head" /\ walk.queue # <<>> /\ Head(walk.queue) \notin walk.visited
    /\ Looping /\ Head(walk.queue) = pkg.loop.entry
    /\ u.queue = Tail(walk.queue) /\ u.visited = walk.visited
    /\ u.arrivals = walk.arrivals /\ u.iteration = walk.iteration
    /\ u.trace = walk.trace

Routed(v) ==
    \E u \in Walk :
        \/ HeadRan(u) /\ \E r \in pkg.routes[Head(walk.queue)] : v \in EnqueueFrom(u, r)
        \/ HeadPassed(u) /\ \E r \in pkg.routes[pkg.loop.tail] : v \in EnqueueFrom(u, r)

Reopened(v) ==
    \E u \in Walk :
        /\ HeadRan(u) /\ Looping /\ Head(walk.queue) = pkg.loop.tail
        /\ v.queue = Append(u.queue, pkg.loop.entry)
        /\ v.visited = u.visited \ pkg.loop.body
        /\ v.arrivals = u.arrivals /\ v.iteration = u.iteration + 1 /\ v.trace = u.trace

Shaped(v) == Begun(v) \/ Kept(v) \/ Dropped(v) \/ Routed(v) \/ Reopened(v)

LEMMA WalkIsLive ==
    ASSUME TypeInv, phase # "idle"
    PROVE  walk \in LiveWalks /\ Typed(walk)
  BY Walking, NullAssumption DEF LiveWalks, Typed

LEMMA LiveTyped ==
    ASSUME TypeInv, NEW w \in LiveWalks
    PROVE  Typed(w)
  BY DEF LiveWalks, TypeInv, TypeOK, Typed

LEMMA OpenedRoute ==
    ASSUME TypeInv, NEW s \in Steps, Taken(s)
    PROVE  SameRoute(Opened(s), walk)
  <1>1. walk \in Walk
    BY Walking DEF Taken, AtHead, Typed
  <1> QED BY <1>1 DEF SameRoute, Opened, Walk

LEMMA MintRoute ==
    ASSUME NEW s \in Steps, NEW w \in Walk
    PROVE  SameRoute(WithMintedId(s, w), w)
  BY DEF SameRoute, WithMintedId, Walk

\* A step that leaves the row's walk as some walk was, and the runner without one.
LEMMA LeavesKept ==
    ASSUME NEW v \in LiveWalks', walk' = None, saved' # None => Kept(saved')
    PROVE  Kept(v)
  BY DEF LiveWalks

LEMMA SavedKept ==
    ASSUME saved # None
    PROVE  Kept(saved)
  BY DEF Kept, LiveWalks, SameRoute

LEMMA StartingShaped ==
    ASSUME TypeInv, NEW v \in LiveWalks', StartFresh \/ Resume \/ WaitDue
    PROVE  Shaped(v)
  <1>1. CASE StartFresh
    <2>1. v = walk' \/ v = saved
      BY <1>1 DEF StartFresh, LiveWalks
    <2>2. v # None
      BY DEF LiveWalks
    <2>3. Begun(walk')
      BY <1>1 DEF StartFresh, FreshWalk, Begun
    <2> QED BY <2>1, <2>2, <2>3, SavedKept DEF Shaped
  <1>2. CASE Resume
    <2>1. v = walk' \/ v = saved
      BY <1>2 DEF Resume, LiveWalks
    <2>2. saved # None /\ Typed(saved)
      BY <1>2, SavedTyped DEF Resume
    <2>3. SameRoute(walk', saved)
      BY <1>2, <2>2 DEF Resume, SameRoute, Typed, Walk
    <2>4. Kept(walk')
      BY <2>2, <2>3 DEF Kept, LiveWalks
    <2> QED BY <2>1, <2>2, <2>4, SavedKept DEF Shaped
  <1>3. CASE WaitDue
    <2>1. (v = walk /\ v # None) \/ v = saved'
      BY <1>3 DEF WaitDue, LiveWalks
    <2>2. saved # None /\ Typed(saved)
      BY <1>3, SavedTyped DEF WaitDue
    <2>3. SameRoute(saved', saved)
      BY <1>3, <2>2 DEF WaitDue, SameRoute, Typed, Walk
    <2>4. Kept(saved')
      BY <2>2, <2>3 DEF Kept, LiveWalks
    <2>5. walk # None => Kept(walk)
      BY DEF Kept, LiveWalks, SameRoute
    <2> QED BY <2>1, <2>4, <2>5 DEF Shaped
  <1> QED BY <1>1, <1>2, <1>3

LEMMA EndingShaped ==
    ASSUME TypeInv, NEW v \in LiveWalks',
           \/ Crash \/ Finish
           \/ \E s \in Steps : RejectPolicy(s) \/ StepRaises(s) \/ OperationFails(s)
                               \/ LoopLimit(s)
    PROVE  Shaped(v)
  <1>1. walk' = None /\ (saved' = None \/ saved' = saved)
    BY DEF Crash, Finish, RejectPolicy, StepRaises, OperationFails, LoopLimit,
           FinishRun, Return
  <1> QED BY <1>1, LeavesKept, SavedKept DEF Shaped

LEMMA ParkingShaped ==
    ASSUME TypeInv, NEW v \in LiveWalks', NEW s \in Steps,
           AskOperator(s) \/ ParkWait(s) \/ RetryLater(s)
    PROVE  Shaped(v)
  <1>1. walk' = None
    BY DEF AskOperator, ParkWait, RetryLater, Leave, Return
  <1>2. walk \in LiveWalks /\ Typed(walk)
    BY WalkIsLive DEF AskOperator, ParkWait, RetryLater, Taken, AtHead, Executing
  <1>3. SameRoute(saved', walk)
    <2>1. CASE AskOperator(s)
      BY <2>1, OpenedRoute DEF AskOperator, Leave
    <2>2. CASE ParkWait(s)
      <3>1. Opened(s) \in Walk /\ SameRoute(Opened(s), walk)
        BY <2>2, OpenedTyped, OpenedRoute DEF ParkWait, Typed
      <3>2. SameRoute(saved', Opened(s))
        BY <2>2, <3>1 DEF ParkWait, Leave, SameRoute, Walk
      <3> QED BY <3>1, <3>2 DEF SameRoute
    <2>3. CASE RetryLater(s)
      BY <1>2, <2>3 DEF RetryLater, Leave, SameRoute, Typed, Walk
    <2> QED BY <2>1, <2>2, <2>3
  <1>4. Kept(saved')
    BY <1>2, <1>3 DEF Kept
  <1> QED BY <1>1, <1>4, LeavesKept DEF Shaped

LEMMA CallShaped ==
    ASSUME TypeInv, NEW v \in LiveWalks', NEW s \in Steps, Call(s)
    PROVE  Shaped(v)
  <1> DEFINE o == Opened(s)
             w == WithMintedId(s, o)
  <1>1. walk \in LiveWalks /\ Taken(s)
    BY WalkIsLive DEF Call, Taken, AtHead
  <1>2. o \in Walk /\ SameRoute(o, walk)
    BY <1>1, OpenedTyped, OpenedRoute DEF Typed
  <1>3. SameRoute(w, walk) /\ Typed(w)
    BY <1>1, <1>2, MintRoute, MintTyped, OpenedTyped DEF SameRoute
  <1>4. SameRoute(walk', w)
    <2> HIDE DEF w
    <2>1. w \in Walk
      BY <1>3 DEF Typed
    <2> QED BY <2>1 DEF Call, SameRoute, Walk, w, o
  <1>5. saved' = saved \/ saved' = w
    BY DEF Call, SavedAfterMint
  <1> HIDE DEF w, o
  <1>6. Kept(walk') /\ Kept(w)
    BY <1>1, <1>3, <1>4 DEF Kept, SameRoute
  <1>7. v = walk' \/ (v = saved' /\ v # None)
    BY DEF LiveWalks
  <1> QED BY <1>5, <1>6, <1>7, SavedKept DEF Shaped

LEMMA DropShaped ==
    ASSUME TypeInv, NEW v \in LiveWalks', NEW s \in Steps, DropVisited(s) \/ RetryNow(s)
    PROVE  Shaped(v)
  <1>1. walk \in LiveWalks /\ Typed(walk)
    BY WalkIsLive DEF DropVisited, RetryNow, AtHead, Executing
  <1>2. v = walk' \/ (v = saved /\ v # None)
    BY DEF DropVisited, RetryNow, row, LiveWalks
  <1>3. CASE DropVisited(s)
    <2>1. Dropped(walk')
      BY <1>1, <1>3 DEF DropVisited, AtHead, Dropped, Typed, Walk
    <2> QED BY <1>2, <2>1, SavedKept DEF Shaped
  <1>4. CASE RetryNow(s)
    <2>1. Kept(walk')
      BY <1>1, <1>4 DEF RetryNow, Kept, SameRoute
    <2> QED BY <1>2, <2>1, SavedKept DEF Shaped
  <1> QED BY <1>3, <1>4

LEMMA SkipShaped ==
    ASSUME TypeInv, NEW v \in LiveWalks', NEW s \in Steps, SkipLoop(s)
    PROVE  Shaped(v)
  <1> DEFINE u == [walk EXCEPT !.queue = Tail(@), !.entered = TRUE, !.wait = NoWait]
  <1>1. Typed(walk) /\ Tail(walk.queue) \in Seq(Steps)
    BY Walking, HeadFacts DEF SkipLoop, AtHead
  <1>2. NoWait \in Wait
    BY DEF NoWait, Wait, Parks
  <1>3. u \in Walk
    BY <1>1, <1>2 DEF Typed, Walk
  <1>4. HeadPassed(u)
    BY <1>1 DEF SkipLoop, AtHead, Pretested, HeadPassed, Typed, Walk
  <1>5. \E r \in pkg.routes[pkg.loop.tail] : walk' \in EnqueueFrom(u, r)
    BY DEF SkipLoop
  <1> HIDE DEF u
  <1>6. Routed(walk')
    BY <1>3, <1>4, <1>5 DEF Routed
  <1>7. v = walk' \/ (v = saved /\ v # None)
    BY DEF SkipLoop, row, LiveWalks
  <1> QED BY <1>6, <1>7, SavedKept DEF Shaped

LEMMA RanRoute ==
    ASSUME TypeInv, NEW s \in Steps, Executing(s), NEW items \in 0..Unlatched
    PROVE  Ran(s, items) \in Walk /\ HeadRan(Ran(s, items))
  <1> DEFINE u == Ran(s, items)
             trace == Append(walk.trace, [step |-> s, pass |-> walk.iteration])
             tries == [walk.tries EXCEPT ![s] = 0]
             derived == IF InBody(s) /\ local.minted THEN walk.derived \cup {s}
                        ELSE walk.derived
             waited == walk.waited \ {s}
             visited == walk.visited \cup {s}
  <1>1. walk \in Walk /\ u \in Walk
    BY Walking, RanTyped DEF Executing, Typed
  <1>2. u = [walk EXCEPT !.queue = Tail(@), !.visited = visited, !.trace = trace,
                         !.tries = tries, !.waited = waited, !.items = items,
                         !.derived = derived]
    BY DEF Ran
  <1> HIDE DEF trace, tries, derived, waited, visited, u
  <1>3. /\ u.queue = Tail(walk.queue) /\ u.visited = visited
        /\ u.arrivals = walk.arrivals /\ u.iteration = walk.iteration /\ u.trace = trace
    BY <1>1, <1>2 DEF Walk
  <1>4. HeadRan(u)
    BY <1>3 DEF HeadRan, Executing, trace, visited
  <1> QED BY <1>1, <1>4 DEF u

LEMMA StepDoneShaped ==
    ASSUME TypeInv, NEW v \in LiveWalks', NEW s \in Steps, StepDone(s)
    PROVE  Shaped(v)
  <1>1. PICK r \in pkg.routes[s], items \in ItemsAfter(walk, s) :
            walk' \in EnqueueFrom(Ran(s, items), r)
    BY DEF StepDone
  <1>2. Typed(walk) /\ Executing(s) /\ s = Head(walk.queue)
    BY Walking DEF StepDone, Executing
  <1>3. items \in 0..Unlatched
    BY <1>1, <1>2, ItemsLatched
  <1>4. Routed(walk')
    BY <1>1, <1>2, <1>3, RanRoute DEF Routed
  <1>5. v = walk' \/ (v = saved /\ v # None)
    BY DEF StepDone, row, LiveWalks
  <1> QED BY <1>4, <1>5, SavedKept DEF Shaped

LEMMA NextWalkReopened ==
    ASSUME TypeInv, NEW s \in Steps, NEW items \in 0..Unlatched, Continues(s, items),
           NEW v, SameRoute(v, NextWalk(s, items))
    PROVE  Reopened(v)
  <1> DEFINE u == Ran(s, items)
  <1>1. u \in Walk /\ HeadRan(u) /\ Looping /\ Head(walk.queue) = pkg.loop.tail
    BY RanRoute DEF Continues, Executing, AtTail
  <1> HIDE DEF u
  <1>2. SameRoute(v, BackToEntry(ClearIteration(u)))
    BY DEF NextWalk, u
  <1>3. /\ v.queue = Append(u.queue, pkg.loop.entry)
        /\ v.visited = u.visited \ pkg.loop.body
        /\ v.arrivals = u.arrivals /\ v.iteration = u.iteration + 1 /\ v.trace = u.trace
    BY <1>1, <1>2 DEF SameRoute, BackToEntry, ClearIteration, Walk
  <1> QED BY <1>1, <1>3 DEF Reopened

LEMMA NextPassLaterReopened ==
    ASSUME TypeInv, NEW s \in Steps, NextPassLater(s)
    PROVE  Reopened(saved')
  <1> DEFINE wait == [kind |-> "loop_delay", attempt |-> 0, due |-> FALSE]
  <1>1. PICK items \in 0..Unlatched :
            /\ Continues(s, items) /\ ~AtLimit
            /\ Leave([NextWalk(s, items) EXCEPT !.wait = wait], "waiting")
    BY DEF NextPassLater, NextWalk
  <1> HIDE DEF wait
  <1>2. NextWalk(s, items) \in Walk
    BY <1>1, NextWalkTyped DEF Typed
  <1>3. SameRoute(saved', NextWalk(s, items))
    BY <1>1, <1>2 DEF Leave, SameRoute, Walk
  <1> QED BY <1>1, <1>3, NextWalkReopened

LEMMA NextPassShaped ==
    ASSUME TypeInv, NEW v \in LiveWalks', NEW s \in Steps, NextPass(s) \/ NextPassLater(s)
    PROVE  Shaped(v)
  <1>1. CASE NextPass(s)
    <2>1. Reopened(walk')
      <3>1. PICK items \in 0..Unlatched : Continues(s, items) /\ walk' = NextWalk(s, items)
        BY <1>1 DEF NextPass, NextWalk
      <3>2. SameRoute(walk', NextWalk(s, items))
        BY <3>1 DEF SameRoute
      <3> QED BY <3>1, <3>2, NextWalkReopened
    <2>2. v = walk' \/ (v = saved /\ v # None)
      BY <1>1 DEF NextPass, row, LiveWalks
    <2> QED BY <2>1, <2>2, SavedKept DEF Shaped
  <1>2. CASE NextPassLater(s)
    <2>1. v = saved'
      BY <1>2 DEF NextPassLater, Leave, Return, LiveWalks
    <2> QED BY <1>2, <2>1, NextPassLaterReopened DEF Shaped
  <1> QED BY <1>1, <1>2

\* Every walk there is after a step has one of the five shapes.
LEMMA StepsShaped ==
    ASSUME TypeInv, [Next]_vars, NEW v \in LiveWalks'
    PROVE  Shaped(v) /\ pkg' = pkg
  <1>1. CASE UNCHANGED vars
    <2>1. v \in LiveWalks /\ pkg' = pkg
      BY <1>1 DEF vars, LiveWalks
    <2> QED BY <2>1 DEF Shaped, Kept, SameRoute
  <1>2. pkg' = pkg
    BY DEF vars, Next, StartFresh, Resume, WaitDue, Crash, RunnerStep, Finish, DropVisited,
           SkipLoop, AskOperator, ParkWait, RejectPolicy, Call, StepRaises, OperationFails,
           RetryNow, RetryLater, StepDone, LoopLimit, NextPass, NextPassLater
  <1>3. CASE RunnerStep
    <2>1. ASSUME NEW s \in Steps,
                 DropVisited(s) \/ SkipLoop(s) \/ AskOperator(s) \/ ParkWait(s) \/ Call(s)
          PROVE  Shaped(v)
      BY <2>1, DropShaped, SkipShaped, ParkingShaped, CallShaped
    <2>2. ASSUME NEW s \in Steps,
                 RetryNow(s) \/ RetryLater(s) \/ StepDone(s) \/ NextPass(s) \/ NextPassLater(s)
          PROVE  Shaped(v)
      BY <2>2, DropShaped, ParkingShaped, StepDoneShaped, NextPassShaped
    <2> QED BY <1>2, <1>3, <2>1, <2>2, EndingShaped DEF RunnerStep
  <1>4. CASE StartFresh \/ Resume \/ WaitDue \/ Crash
    BY <1>2, <1>4, StartingShaped, EndingShaped
  <1> QED BY <1>1, <1>2, <1>3, <1>4 DEF Next

\* What executes has not run: DropVisited comes first.
ExecutesUnvisited == phase = "exec" => Head(walk.queue) \notin walk.visited

LEMMA StepUnvisited ==
    ASSUME TypeInv, ExecutesUnvisited, [Next]_vars
    PROVE  ExecutesUnvisited'
  <1> SUFFICES ASSUME phase' = "exec" PROVE (Head(walk.queue) \notin walk.visited)'
    BY DEF ExecutesUnvisited
  <1>1. CASE UNCHANGED vars \/ WaitDue
    BY <1>1 DEF vars, WaitDue, ExecutesUnvisited
  <1>2. CASE \E s \in Steps : Call(s)
    <2>1. PICK s \in Steps : Call(s)
      BY <1>2
    <2> DEFINE o == Opened(s)
               w == WithMintedId(s, o)
    <2>2. Taken(s) /\ o \in Walk /\ SameRoute(o, walk)
      BY <2>1, OpenedTyped, OpenedRoute DEF Call, Typed
    <2>3. SameRoute(w, walk) /\ w \in Walk
      BY <2>2, MintRoute, MintTyped, OpenedTyped DEF SameRoute, Typed
    <2> HIDE DEF o, w
    <2>4. walk'.queue = w.queue /\ walk'.visited = w.visited
      BY <2>1, <2>3 DEF Call, Walk, w, o
    <2>5. Head(walk.queue) = s /\ s \notin walk.visited
      BY <2>2 DEF Taken, AtHead
    <2> QED BY <2>3, <2>4, <2>5 DEF SameRoute
  <1>3. CASE ~(UNCHANGED vars \/ WaitDue \/ \E s \in Steps : Call(s))
    <2>1. phase' \in {"idle", "head"}
      BY <1>3 DEF Next, StartFresh, Resume, Crash, RunnerStep, Finish, DropVisited,
           SkipLoop, AskOperator, ParkWait, RejectPolicy, StepRaises, OperationFails,
           RetryNow, RetryLater, StepDone, LoopLimit, NextPass, NextPassLater,
           FinishRun, Leave, Return, AtHead
    <2> QED BY <2>1
  <1> QED BY <1>1, <1>2, <1>3

\* What enqueue_from does to the routing of u.
LEMMA EnqueueRoute ==
    ASSUME NEW u \in Walk, NEW r \in Routes, NEW v \in EnqueueFrom(u, r)
    PROVE  /\ v.visited = u.visited /\ v.iteration = u.iteration /\ v.trace = u.trace
           /\ v.arrivals = u.arrivals \cup r.joins
           /\ \E js \in SetToSeqs(ReadyJoins(u, r)) :
                 js \in Seq(Steps) /\ v.queue = js \o (u.queue \o r.plain)
  <1>1. PICK js \in SetToSeqs(ReadyJoins(u, r)) :
            v = [u EXCEPT !.queue = js \o (u.queue \o r.plain),
                          !.arrivals = u.arrivals \cup r.joins]
    BY DEF EnqueueFrom
  <1>2. ReadyJoins(u, r) \subseteq Steps
    BY DEF ReadyJoins, Walk, Routes
  <1>3. js \in Seq(Steps)
    BY <1>2, OrderingsAreSeqs
  <1> QED BY <1>1, <1>3 DEF Walk

\* The runner's walk behind a shape, and the routes it can follow.
LEMMA RoutedFacts ==
    ASSUME TypeInv, NEW v, Routed(v)
    PROVE  \E u \in Walk, r \in Routes :
              /\ HeadRan(u) \/ HeadPassed(u)
              /\ v \in EnqueueFrom(u, r)
              /\ r \in pkg.routes[IF phase = "exec" THEN Head(walk.queue) ELSE pkg.loop.tail]
  <1>1. PICK u \in Walk :
          \/ HeadRan(u) /\ \E r \in pkg.routes[Head(walk.queue)] : v \in EnqueueFrom(u, r)
          \/ HeadPassed(u) /\ \E r \in pkg.routes[pkg.loop.tail] : v \in EnqueueFrom(u, r)
    BY DEF Routed
  <1>2. CASE HeadRan(u) /\ \E r \in pkg.routes[Head(walk.queue)] : v \in EnqueueFrom(u, r)
    <2>1. PICK r \in pkg.routes[Head(walk.queue)] : v \in EnqueueFrom(u, r)
      BY <1>2
    <2>2. phase = "exec" /\ Head(walk.queue) \in Steps
      BY <1>2, HeadFacts DEF HeadRan, TypeInv
    <2>3. r \in Routes
      BY <2>1, <2>2, PackageFacts DEF TypeInv
    <2> QED BY <1>2, <2>1, <2>2, <2>3
  <1>3. CASE HeadPassed(u) /\ \E r \in pkg.routes[pkg.loop.tail] : v \in EnqueueFrom(u, r)
    <2>1. PICK r \in pkg.routes[pkg.loop.tail] : v \in EnqueueFrom(u, r)
      BY <1>3
    <2>2. phase # "exec" /\ r \in Routes
      BY <1>3, <2>1, PackageFacts DEF HeadPassed, TypeInv
    <2> QED BY <1>3, <2>1, <2>2
  <1> QED BY <1>1, <1>2, <1>3

-----------------------------------------------------------------------------
(* A step runs once per pass                                               *)

\* Of the passes in the trace none is to come, what ran in the current one is
\* visited, and no entry is there twice.
TraceInv(w) ==
    /\ \A i \in DOMAIN w.trace :
          /\ w.trace[i].pass <= w.iteration
          /\ w.trace[i].pass = w.iteration => w.trace[i].step \in w.visited
    /\ \A i, k \in DOMAIN w.trace : w.trace[i] = w.trace[k] => i = k

OnceInv == ExecutesUnvisited /\ \A w \in LiveWalks : TraceInv(w)

LEMMA TraceRoute ==
    ASSUME NEW v, NEW w, TraceInv(w),
           v.visited = w.visited, v.iteration = w.iteration, v.trace = w.trace
    PROVE  TraceInv(v)
  BY DEF TraceInv

\* The head, which was not visited, is added to the trace and to the visited.
LEMMA TraceRan ==
    ASSUME TypeInv, OnceInv, NEW u \in Walk, HeadRan(u)
    PROVE  TraceInv(u)
  <1> DEFINE s == Head(walk.queue)
             e == [step |-> s, pass |-> walk.iteration]
             n == Len(walk.trace)
  <1>1. /\ Typed(walk) /\ walk \in LiveWalks /\ s \in Steps /\ s \notin walk.visited
    BY WalkIsLive, HeadFacts DEF HeadRan, OnceInv, ExecutesUnvisited, TypeInv
  <1>2. TraceInv(walk) /\ walk.iteration \in Nat
    BY <1>1 DEF OnceInv, Typed, Walk
  <1>3. /\ walk.trace \in Seq([step : Steps, pass : Nat]) /\ n \in Nat
        /\ DOMAIN walk.trace = 1..n
    BY <1>1, LenProperties DEF Typed, Walk
  <1>4. e \in [step : Steps, pass : Nat]
    BY <1>1, <1>2
  <1>5. /\ u.trace = Append(walk.trace, e) /\ u.iteration = walk.iteration
        /\ u.visited = walk.visited \cup {s}
    BY DEF HeadRan
  <1> HIDE DEF e
  <1>6. /\ DOMAIN u.trace = 1..(n + 1) /\ u.trace[n + 1] = e
        /\ \A i \in 1..n : u.trace[i] = walk.trace[i]
    BY <1>3, <1>4, <1>5, AppendProperties, LenProperties
  <1>7. e.pass = walk.iteration /\ e.step = s
    BY DEF e
  <1>8. ASSUME NEW i \in 1..n PROVE u.trace[i] # e
    <2>1. u.trace[i] = walk.trace[i] /\ i \in DOMAIN walk.trace
      BY <1>3, <1>6
    <2>2. walk.trace[i].pass = walk.iteration => walk.trace[i].step # s
      BY <1>1, <1>2, <2>1 DEF TraceInv
    <2> QED BY <1>7, <2>1, <2>2
  <1>9. \A i \in 1..(n + 1) : i \in 1..n \/ i = n + 1
    BY <1>3
  <1>10. ASSUME NEW i \in DOMAIN u.trace
         PROVE  /\ u.trace[i].pass <= u.iteration
                /\ u.trace[i].pass = u.iteration => u.trace[i].step \in u.visited
    <2>1. CASE i \in 1..n
      BY <1>2, <1>3, <1>5, <1>6, <2>1 DEF TraceInv
    <2>2. CASE i = n + 1
      BY <1>2, <1>5, <1>6, <1>7, <2>2
    <2> QED BY <1>6, <1>9, <2>1, <2>2
  <1>11. ASSUME NEW i \in DOMAIN u.trace, NEW k \in DOMAIN u.trace,
                u.trace[i] = u.trace[k]
         PROVE  i = k
    <2>1. CASE i \in 1..n /\ k \in 1..n
      BY <1>2, <1>3, <1>6, <1>11, <2>1 DEF TraceInv
    <2>2. CASE i = n + 1 \/ k = n + 1
      BY <1>6, <1>8, <1>9, <1>11, <2>2
    <2> QED BY <1>6, <1>9, <2>1, <2>2
  <1> QED BY <1>10, <1>11 DEF TraceInv

LEMMA TraceShaped ==
    ASSUME TypeInv, OnceInv, NEW v, Shaped(v)
    PROVE  TraceInv(v)
  <1>1. CASE Begun(v)
    BY <1>1 DEF Begun, TraceInv
  <1>2. CASE Kept(v)
    BY <1>2, TraceRoute DEF Kept, SameRoute, OnceInv
  <1>3. CASE Dropped(v)
    <2>1. TraceInv(walk)
      BY <1>3, WalkIsLive DEF Dropped, OnceInv
    <2> QED BY <1>3, <2>1, TraceRoute DEF Dropped
  <1>4. CASE Routed(v)
    <2>1. PICK u \in Walk, r \in Routes :
              (HeadRan(u) \/ HeadPassed(u)) /\ v \in EnqueueFrom(u, r)
      BY <1>4, RoutedFacts
    <2>2. CASE HeadRan(u)
      <3>1. TraceInv(u)
        BY <2>2, TraceRan
      <3>2. v.visited = u.visited /\ v.iteration = u.iteration /\ v.trace = u.trace
        BY <2>1, EnqueueRoute
      <3> QED BY <3>1, <3>2, TraceRoute
    <2>3. CASE HeadPassed(u)
      <3>1. TraceInv(walk)
        BY <2>3, WalkIsLive DEF HeadPassed, OnceInv
      <3>2. TraceInv(u)
        BY <2>3, <3>1, TraceRoute DEF HeadPassed
      <3>3. v.visited = u.visited /\ v.iteration = u.iteration /\ v.trace = u.trace
        BY <2>1, EnqueueRoute
      <3> QED BY <3>2, <3>3, TraceRoute
    <2> QED BY <2>1, <2>2, <2>3
  <1>5. CASE Reopened(v)
    <2>1. PICK u \in Walk : HeadRan(u) /\ v.trace = u.trace /\ v.iteration = u.iteration + 1
      BY <1>5 DEF Reopened
    <2>2. TraceInv(u)
      BY <2>1, TraceRan
    <2>3. u.iteration \in Nat /\ \A i \in DOMAIN u.trace : u.trace[i].pass \in Nat
      <3>1. u.trace \in Seq([step : Steps, pass : Nat]) /\ u.iteration \in Nat
        BY DEF Walk
      <3>2. \A i \in DOMAIN u.trace : u.trace[i] \in [step : Steps, pass : Nat]
        BY <3>1, LenProperties, ElementOfSeq
      <3> QED BY <3>1, <3>2
    <2> QED BY <2>1, <2>2, <2>3 DEF TraceInv
  <1> QED BY <1>1, <1>2, <1>3, <1>4, <1>5 DEF Shaped

LEMMA StepOnceInv == TypeInv /\ OnceInv /\ [Next]_vars => OnceInv'
  <1> SUFFICES ASSUME TypeInv, OnceInv, [Next]_vars PROVE OnceInv'
    OBVIOUS
  <1>1. ExecutesUnvisited'
    BY StepUnvisited DEF OnceInv
  <1>2. ASSUME NEW v \in LiveWalks' PROVE TraceInv(v)
    BY StepsShaped, TraceShaped
  <1>3. \A v \in LiveWalks' : TraceInv(v)'
    BY <1>2 DEF TraceInv
  <1> QED BY <1>1, <1>3 DEF OnceInv

\* No fan-in, park, resume, retry or further pass makes a step run twice in one
\* pass: the visited set, cleared for the body exactly when the pass number grows,
\* answers for every entry of the trace.
THEOREM RunsOncePerPass == Spec => []OncePerPass
  <1>1. Init => TypeInv /\ OnceInv
    BY InitType DEF Init, OnceInv, ExecutesUnvisited, LiveWalks
  <1>2. TypeInv /\ OnceInv /\ [Next]_vars => (TypeInv /\ OnceInv)'
    BY StepType, StepOnceInv
  <1>3. OnceInv => OncePerPass
    BY DEF OnceInv, TraceInv, OncePerPass
  <1> QED BY <1>1, <1>2, <1>3, PTL DEF Spec

-----------------------------------------------------------------------------
(* The join barrier                                                        *)

\* What was offered is a join; and JoinAfterArms for one walk.
BarrierInv(w) ==
    /\ w.arrivals \subseteq JoinsOf(pkg)
    /\ \A j \in JoinsOf(pkg) \cap (w.visited \cup ToSet(w.queue)) :
          \A s \in ToSet(w.queue) \ {j} :
              CanReach(pkg, s, j) => CanReach(pkg, j, s)

JoinInv == \A w \in LiveWalks : BarrierInv(w)

\* The targets of a route are transitions of the step, joins apart.
LEMMA RouteTargets ==
    ASSUME TypeInv, NEW s \in Steps, NEW r \in pkg.routes[s]
    PROVE  /\ r.joins \subseteq pkg.next[s] \cap JoinsOf(pkg)
           /\ ToSet(r.plain) \subseteq pkg.next[s] \ JoinsOf(pkg)
  BY PackagesComposed DEF TypeInv

LEMMA JoinFacts ==
    ASSUME TypeInv
    PROVE  /\ JoinsOf(pkg) \subseteq Steps
           /\ JoinsOf(pkg) \cap pkg.loop.body = {}
           /\ \A j, k \in JoinsOf(pkg) : j # k => ~CanReach(pkg, j, k)
           /\ Looping => /\ pkg.loop.entry \in pkg.loop.body
                         /\ pkg.loop.entry \in pkg.next[pkg.loop.tail]
                         /\ CanReach(pkg, pkg.loop.entry, pkg.loop.tail)
  BY PackagesComposed DEF TypeInv, JoinPolicy, Looping, JoinsOf

\* v's queue comes from the runner's by taking off the head x, leaving q, and adding
\* the targets `new` that x leads to and joins that nothing else there leads to.
Replaces(v, x, q, new, ready) ==
    /\ ToSet(walk.queue) = {x} \cup q
    /\ ToSet(v.queue) \subseteq ready \cup q \cup new
    /\ v.visited \subseteq walk.visited \cup {x}
    /\ v.arrivals \subseteq JoinsOf(pkg)
    /\ \A t \in new : CanReach(pkg, x, t) /\ t \notin JoinsOf(pkg)
    /\ \A j \in ready : /\ j \in JoinsOf(pkg)
                        /\ \A s \in q \cup new : s # j => ~CanReach(pkg, s, j)

\* What is queued after the head x is led to by x; so whoever could not reach a
\* visited join before cannot now.
LEMMA BarrierQueues ==
    ASSUME TypeInv, BarrierInv(walk), NEW x \in Steps,
           NEW v, NEW q, NEW new, NEW ready, Replaces(v, x, q, new, ready)
    PROVE  BarrierInv(v)
  <1> SUFFICES ASSUME NEW j \in JoinsOf(pkg), j \in v.visited \cup ToSet(v.queue),
                      NEW s \in ToSet(v.queue), s # j, CanReach(pkg, s, j)
               PROVE  CanReach(pkg, j, s)
    BY DEF BarrierInv, Replaces
  <1> USE DEF Replaces
  <1>1. j \notin new
    OBVIOUS
  <1>2. CASE s \in ready
    BY <1>2, JoinFacts
  <1>3. CASE s \notin ready /\ j \in ready
    BY <1>3
  <1>4. CASE s \notin ready /\ j \notin ready
    <2>1. j \in walk.visited \cup ToSet(walk.queue)
      BY <1>1, <1>4
    <2>2. \A y \in ToSet(walk.queue) \ {j} : CanReach(pkg, y, j) => CanReach(pkg, j, y)
      BY <2>1 DEF BarrierInv
    <2>3. CASE s \in q
      BY <2>2, <2>3
    <2>4. CASE s \in new
      <3>1. CanReach(pkg, x, s)
        BY <2>4
      <3>2. CASE j = x
        BY <3>1, <3>2
      <3>3. CASE j # x
        <4>1. CanReach(pkg, x, j)
          BY <3>1, ReachTransitive
        <4>2. CanReach(pkg, j, x)
          BY <2>2, <3>3, <4>1
        <4> QED BY <3>1, <4>2, ReachTransitive
      <3> QED BY <3>2, <3>3
    <2> QED BY <1>4, <2>3, <2>4
  <1> QED BY <1>2, <1>3, <1>4

LEMMA BarrierRouted ==
    ASSUME TypeInv, JoinInv, NEW v, Routed(v)
    PROVE  BarrierInv(v)
  <1> DEFINE x == Head(walk.queue)
             y == IF phase = "exec" THEN x ELSE pkg.loop.tail
  <1>1. PICK u \in Walk, r \in Routes :
            (HeadRan(u) \/ HeadPassed(u)) /\ v \in EnqueueFrom(u, r) /\ r \in pkg.routes[y]
    BY RoutedFacts
  <1>2. /\ phase # "idle" /\ walk.queue # <<>>
        /\ u.queue = Tail(walk.queue) /\ u.visited \subseteq walk.visited \cup {x}
        /\ u.arrivals = walk.arrivals
    BY <1>1 DEF HeadRan, HeadPassed, TypeInv
  <1>3. walk \in LiveWalks /\ Typed(walk) /\ x \in Steps
    BY <1>2, WalkIsLive, HeadFacts
  <1>4. BarrierInv(walk)
    BY <1>3 DEF JoinInv
  <1>5. y \in Steps /\ CanReach(pkg, x, y)
    <2>1. CASE phase = "exec"
      BY <1>3, <2>1 DEF CanReach
    <2>2. CASE phase # "exec"
      <3>1. Looping /\ x = pkg.loop.entry
        BY <1>1, <2>2 DEF HeadRan, HeadPassed
      <3> QED BY <2>2, <3>1, JoinFacts, PackageFacts DEF TypeInv
    <2> QED BY <2>1, <2>2
  <1> HIDE DEF x, y
  <1>6. PICK js \in SetToSeqs(ReadyJoins(u, r)) :
            js \in Seq(Steps) /\ v.queue = js \o (u.queue \o r.plain)
    BY <1>1, EnqueueRoute
  <1>7. /\ u.queue \in Seq(Steps) /\ r.plain \in Seq(Steps)
        /\ u.queue \o r.plain \in Seq(Steps)
    BY ConcatProperties DEF Walk, Routes
  <1>8. /\ ToSet(u.queue \o r.plain) = ToSet(u.queue) \cup ToSet(r.plain)
        /\ ToSet(v.queue) = ToSet(js) \cup ToSet(u.queue \o r.plain)
    BY <1>6, <1>7, ToSetConcat
  <1>9. ReadyJoins(u, r) \subseteq Steps
    BY DEF ReadyJoins, Walk, Routes
  <1>10. ToSet(js) \subseteq ReadyJoins(u, r)
    BY <1>6, <1>9, OrderingsHold
  <1>11. ToSet(walk.queue) = {x} \cup ToSet(u.queue)
    BY <1>2, <1>3, ToSetHeadTail DEF x, Typed, Walk
  <1>12. v.visited = u.visited /\ v.arrivals = u.arrivals \cup r.joins
    BY <1>1, EnqueueRoute
  <1>13. r.joins \subseteq JoinsOf(pkg) /\ ToSet(r.plain) \subseteq pkg.next[y] \ JoinsOf(pkg)
    BY <1>1, <1>5, RouteTargets
  <1>14. \A t \in ToSet(r.plain) : CanReach(pkg, x, t) /\ t \notin JoinsOf(pkg)
    BY <1>5, <1>13, ReachNext, ReachTransitive
  <1>15. walk.arrivals \subseteq JoinsOf(pkg)
    BY <1>4 DEF BarrierInv
  <1>16. \A j \in ReadyJoins(u, r) :
             /\ j \in JoinsOf(pkg)
             /\ \A s \in ToSet(u.queue) \cup ToSet(r.plain) :
                   s # j => ~CanReach(pkg, s, j)
    BY <1>2, <1>8, <1>13, <1>15 DEF ReadyJoins, ArmPending
  <1>17. ToSet(v.queue) \subseteq ReadyJoins(u, r) \cup ToSet(u.queue) \cup ToSet(r.plain)
    BY <1>8, <1>10
  <1>18. v.visited \subseteq walk.visited \cup {x} /\ v.arrivals \subseteq JoinsOf(pkg)
    BY <1>2, <1>12, <1>13, <1>15
  <1>19. Replaces(v, x, ToSet(u.queue), ToSet(r.plain), ReadyJoins(u, r))
    BY <1>11, <1>14, <1>16, <1>17, <1>18 DEF Replaces
  <1> QED BY <1>3, <1>4, <1>19, BarrierQueues

LEMMA BarrierReopened ==
    ASSUME TypeInv, JoinInv, NEW v, Reopened(v)
    PROVE  BarrierInv(v)
  <1> DEFINE x == Head(walk.queue)
  <1>1. PICK u \in Walk :
            /\ HeadRan(u) /\ Looping /\ x = pkg.loop.tail
            /\ v.queue = Append(u.queue, pkg.loop.entry)
            /\ v.visited = u.visited \ pkg.loop.body /\ v.arrivals = u.arrivals
    BY DEF Reopened
  <1>2. walk \in LiveWalks /\ Typed(walk) /\ x \in Steps /\ walk.queue # <<>>
    BY <1>1, WalkIsLive, HeadFacts DEF HeadRan, TypeInv
  <1>3. BarrierInv(walk)
    BY <1>2 DEF JoinInv
  <1>4. /\ u.queue = Tail(walk.queue) /\ u.visited = walk.visited \cup {x}
        /\ u.arrivals = walk.arrivals
    BY <1>1 DEF HeadRan
  <1> HIDE DEF x
  <1>5. ToSet(walk.queue) = {x} \cup ToSet(u.queue)
    BY <1>2, <1>4, ToSetHeadTail DEF x, Typed, Walk
  <1>6. pkg.loop.entry \in Steps
    BY PackageFacts DEF TypeInv
  <1>7. ToSet(v.queue) = ToSet(u.queue) \cup {pkg.loop.entry}
    BY <1>1, <1>6, ToSetAppend DEF Walk
  <1>8. \A t \in {pkg.loop.entry} : CanReach(pkg, x, t) /\ t \notin JoinsOf(pkg)
    BY <1>1, <1>2, JoinFacts, ReachNext
  <1>9. v.visited \subseteq walk.visited \cup {x} /\ v.arrivals \subseteq JoinsOf(pkg)
    BY <1>1, <1>3, <1>4 DEF BarrierInv
  <1>10. Replaces(v, x, ToSet(u.queue), {pkg.loop.entry}, {})
    BY <1>5, <1>7, <1>8, <1>9 DEF Replaces
  <1> QED BY <1>2, <1>3, <1>10, BarrierQueues

LEMMA BarrierShaped ==
    ASSUME TypeInv, JoinInv, NEW v, Shaped(v)
    PROVE  BarrierInv(v)
  <1>1. CASE Begun(v)
    <2>1. ToSet(v.queue) = {pkg.first}
      BY <1>1 DEF Begun, ToSet
    <2> QED BY <1>1, <2>1 DEF Begun, BarrierInv
  <1>2. CASE Kept(v)
    BY <1>2 DEF Kept, SameRoute, JoinInv, BarrierInv
  <1>3. CASE Dropped(v)
    <2>1. BarrierInv(walk) /\ Typed(walk)
      BY <1>3, WalkIsLive DEF Dropped, JoinInv
    <2>2. ToSet(v.queue) \subseteq ToSet(walk.queue)
      BY <1>3, <2>1, ToSetHeadTail DEF Dropped, Typed, Walk
    <2> QED BY <1>3, <2>1, <2>2 DEF Dropped, BarrierInv
  <1> QED BY <1>1, <1>2, <1>3, BarrierRouted, BarrierReopened DEF Shaped

LEMMA StepJoinInv == TypeInv /\ JoinInv /\ [Next]_vars => JoinInv'
  <1> SUFFICES ASSUME TypeInv, JoinInv, [Next]_vars PROVE JoinInv'
    OBVIOUS
  <1>1. ASSUME NEW v \in LiveWalks' PROVE BarrierInv(v) /\ pkg' = pkg
    BY StepsShaped, BarrierShaped
  <1>2. \A v \in LiveWalks' : BarrierInv(v)'
    BY <1>1 DEF BarrierInv
  <1> QED BY <1>2 DEF JoinInv

\* The barrier holds in every package the composer lets through: once a join is
\* queued or has run, no queued step leads to it that it does not itself lead to.
\* reject_join_policy (no join reaches another, none in the body) is what the proof
\* rests on.
THEOREM JoinsComeAfterArms == Spec => []JoinAfterArms
  <1>1. Init => TypeInv /\ JoinInv
    BY InitType DEF Init, JoinInv, LiveWalks
  <1>2. TypeInv /\ JoinInv /\ [Next]_vars => (TypeInv /\ JoinInv)'
    BY StepType, StepJoinInv
  <1>3. JoinInv => JoinAfterArms
    BY DEF JoinInv, BarrierInv, JoinAfterArms
  <1> QED BY <1>1, <1>2, <1>3, PTL DEF Spec

-----------------------------------------------------------------------------
(* What the calls, waits and answers of a walk become                      *)

SameCalls(v, w) ==
    /\ v.tries = w.tries /\ v.wait = w.wait /\ v.waited = w.waited
    /\ v.answered = w.answered /\ v.entered = w.entered

LEMMA OpenedCalls ==
    ASSUME TypeInv, NEW s \in Steps, Taken(s)
    PROVE  /\ Opened(s).tries = walk.tries /\ Opened(s).waited = walk.waited
           /\ Opened(s).answered = walk.answered
           /\ Opened(s).entered = (walk.entered \/ Pretested(s))
           /\ Opened(s).wait = NoWait
  <1>1. walk \in Walk
    BY Walking DEF Taken, AtHead, Typed
  <1> QED BY <1>1 DEF Opened, Walk

LEMMA MintCalls ==
    ASSUME NEW s \in Steps, NEW w \in Walk
    PROVE  SameCalls(WithMintedId(s, w), w)
  BY DEF SameCalls, WithMintedId, Walk

LEMMA EnqueueCalls ==
    ASSUME NEW w \in Walk, NEW r \in Routes, NEW v \in EnqueueFrom(w, r)
    PROVE  SameCalls(v, w)
  BY DEF SameCalls, EnqueueFrom, Walk

\* The walk that is saved before the call, and the walk that makes it.
LEMMA CallCalls ==
    ASSUME TypeInv, NEW s \in Steps, Call(s)
    PROVE  /\ Taken(s) /\ SameRoute(walk', walk)
           /\ walk'.tries = [walk.tries EXCEPT ![s] = @ + 1]
           /\ walk'.waited = IF MustPark(s) THEN walk.waited \cup {s} ELSE walk.waited
           /\ walk'.answered = walk.answered /\ walk'.wait = NoWait
           /\ walk'.entered = (walk.entered \/ Pretested(s))
           /\ \/ saved' = saved
              \/ /\ s \in pkg.mints /\ SameRoute(saved', walk)
                 /\ saved'.tries = walk.tries /\ saved'.waited = walk.waited
                 /\ saved'.answered = walk.answered /\ saved'.wait = NoWait
                 /\ saved'.entered = (walk.entered \/ Pretested(s))
  <1> DEFINE o == Opened(s)
             w == WithMintedId(s, o)
             waited == IF MustPark(s) THEN w.waited \cup {s} ELSE w.waited
  <1>1. Taken(s)
    BY DEF Call
  <1>2. /\ o \in Walk /\ SameRoute(o, walk)
        /\ o.tries = walk.tries /\ o.waited = walk.waited /\ o.answered = walk.answered
        /\ o.entered = (walk.entered \/ Pretested(s)) /\ o.wait = NoWait
    BY <1>1, OpenedTyped, OpenedRoute, OpenedCalls DEF Typed
  <1>3. w \in Walk
    BY <1>1, OpenedTyped, MintTyped DEF Typed
  <1> HIDE DEF o
  <1>4. SameRoute(w, o) /\ SameCalls(w, o)
    BY <1>2, MintRoute, MintCalls
  <1>5. walk' = [w EXCEPT !.tries[s] = @ + 1, !.waited = waited]
    BY DEF Call, o
  <1>6. saved' = IF Minted(s, o) THEN w ELSE saved
    BY DEF Call, SavedAfterMint, o
  <1>7. Minted(s, o) => s \in pkg.mints
    BY DEF Minted
  <1> HIDE DEF w
  <1>8. /\ walk'.tries = [w.tries EXCEPT ![s] = @ + 1] /\ walk'.waited = waited
        /\ walk'.answered = w.answered /\ walk'.wait = w.wait /\ walk'.entered = w.entered
        /\ SameRoute(walk', w)
    <2> HIDE DEF waited
    <2> QED BY <1>3, <1>5 DEF Walk, SameRoute
  <1> QED BY <1>1, <1>2, <1>4, <1>6, <1>7, <1>8 DEF SameRoute, SameCalls

LEMMA RanCalls ==
    ASSUME TypeInv, NEW s \in Steps, Executing(s), NEW items \in 0..Unlatched
    PROVE  /\ Ran(s, items).tries = [walk.tries EXCEPT ![s] = 0]
           /\ Ran(s, items).waited = walk.waited \ {s}
           /\ Ran(s, items).wait = walk.wait /\ Ran(s, items).answered = walk.answered
           /\ Ran(s, items).entered = walk.entered
  <1> DEFINE u == Ran(s, items)
             trace == Append(walk.trace, [step |-> s, pass |-> walk.iteration])
             derived == IF InBody(s) /\ local.minted THEN walk.derived \cup {s}
                        ELSE walk.derived
             visited == walk.visited \cup {s}
             tries == [walk.tries EXCEPT ![s] = 0]
  <1>1. walk \in Walk
    BY Walking DEF Executing, Typed
  <1>2. u = [walk EXCEPT !.queue = Tail(@), !.visited = visited, !.trace = trace,
                         !.tries = tries, !.waited = @ \ {s}, !.items = items,
                         !.derived = derived]
    BY DEF Ran
  <1> HIDE DEF trace, derived, visited, u, tries
  <1>3. /\ u.tries = tries /\ u.waited = walk.waited \ {s} /\ u.wait = walk.wait
        /\ u.answered = walk.answered /\ u.entered = walk.entered
    BY <1>1, <1>2 DEF Walk
  <1> QED BY <1>3 DEF u, tries

LEMMA NextWalkCalls ==
    ASSUME TypeInv, NEW s \in Steps, Executing(s), NEW items \in 0..Unlatched
    PROVE  SameCalls(NextWalk(s, items), Ran(s, items))
  <1> DEFINE u == Ran(s, items)
  <1>1. u \in Walk
    BY RanTyped DEF Typed
  <1> HIDE DEF u
  <1>2. SameCalls(BackToEntry(ClearIteration(u)), u)
    BY <1>1 DEF SameCalls, BackToEntry, ClearIteration, Walk
  <1> QED BY <1>2 DEF NextWalk, u

-----------------------------------------------------------------------------
(* Tries                                                                   *)

\* Only the head has been called and not completed; nothing about it is left to ask
\* for, and it is no loop entry the pre-test of which is still to come.
OnlyHeadCalled(w) ==
    \A s \in Steps : w.tries[s] # 0 =>
        /\ w.queue # <<>> /\ s = Head(w.queue) /\ s \notin w.visited
        /\ s \in pkg.asks => s \in w.answered
        /\ Looping /\ s = pkg.loop.entry => w.entered

\* The number of the next call of the head, when `n` is what retry says.
NextTry(w, n) == IF w.wait.kind = "retry_backoff" THEN w.wait.attempt ELSE n

\* The head may be called once more; only an HTTP call is ever repeated.
CallDue(w, n) ==
    LET s == Head(w.queue)
    IN  /\ w.tries[s] < NextTry(w, n)
        /\ NextTry(w, n) <= pkg.tries[s]
        /\ pkg.kind[s] # "http" => w.tries[s] = 0

BudgetInv ==
    /\ \A s \in Steps : retry[s] <= pkg.tries[s]
    /\ phase = "idle" => retry = [s \in Steps |-> 1]
    /\ \A w \in LiveWalks : OnlyHeadCalled(w)
    /\ phase = "head" /\ walk.queue # <<>> => CallDue(walk, retry[Head(walk.queue)])
    /\ phase = "exec" => /\ walk.wait.kind = "none"
                         /\ walk.tries[Head(walk.queue)] <= local.attempt
                         /\ local.attempt <= pkg.tries[Head(walk.queue)]
    /\ saved # None /\ saved.queue # <<>> => CallDue(saved, 1)

LEMMA BudgetFacts ==
    ASSUME TypeInv
    PROVE  /\ \A s \in Steps : pkg.tries[s] \in Nat \ {0}
           /\ \A s \in Steps : retry[s] \in Nat \ {0}
           /\ local.attempt \in Nat
           /\ \A w \in LiveWalks : /\ w.tries \in [Steps -> Nat] /\ w.wait \in Wait
                                   /\ w.queue \in Seq(Steps) /\ w.answered \subseteq Steps
  <1>1. \A w \in LiveWalks : Typed(w)
    BY LiveTyped
  <1>2. \A w \in LiveWalks : /\ w.tries \in [Steps -> Nat] /\ w.wait \in Wait
                             /\ w.queue \in Seq(Steps) /\ w.answered \subseteq Steps
    BY <1>1 DEF Typed, Walk
  <1> QED BY <1>2, PackageFacts DEF TypeInv, TypeOK

\* The run leaves: whoever resumes it starts with every retry at 1.
LEMMA BudgetReturn ==
    ASSUME TypeInv, BudgetInv, pkg' = pkg, Return,
           \/ saved' = None \/ saved' = saved
           \/ /\ OnlyHeadCalled(saved')
              /\ saved'.queue # <<>> => CallDue(saved', 1)
    PROVE  BudgetInv'
  <1>1. walk' = None /\ phase' = "idle" /\ retry' = [s \in Steps |-> 1]
    BY DEF Return
  <1>2. \A s \in Steps : retry'[s] <= pkg'.tries[s]
    BY <1>1, BudgetFacts
  <1>3. saved' # None =>
            OnlyHeadCalled(saved') /\ (saved'.queue # <<>> => CallDue(saved', 1))
    BY DEF BudgetInv, LiveWalks
  <1>4. \A w \in LiveWalks' : OnlyHeadCalled(w)'
    BY <1>1, <1>3 DEF LiveWalks, OnlyHeadCalled, Looping
  <1>5. saved' # None /\ saved'.queue # <<>> => CallDue(saved, 1)'
    BY <1>3 DEF CallDue, NextTry
  <1> QED BY <1>1, <1>2, <1>4, <1>5 DEF BudgetInv

\* The run goes on.
LEMMA BudgetGoesOn ==
    ASSUME TypeInv, BudgetInv, pkg' = pkg, phase' = "head", saved' = saved,
           \A s \in Steps : retry'[s] <= pkg.tries[s],
           OnlyHeadCalled(walk'),
           walk'.queue # <<>> => CallDue(walk', retry'[Head(walk'.queue)])
    PROVE  BudgetInv'
  <1>1. \A w \in LiveWalks' : OnlyHeadCalled(w)'
    BY DEF BudgetInv, LiveWalks, OnlyHeadCalled, Looping
  <1>2. (walk.queue # <<>> => CallDue(walk, retry[Head(walk.queue)]))'
    BY DEF CallDue, NextTry
  <1>3. (saved # None /\ saved.queue # <<>> => CallDue(saved, 1))'
    BY DEF BudgetInv, CallDue, NextTry
  <1> QED BY <1>1, <1>2, <1>3 DEF BudgetInv

\* A walk none of whose steps has an open call.
LEMMA NothingCalled ==
    ASSUME TypeInv, NEW w, \A s \in Steps : w.tries[s] = 0,
           w.queue \in Seq(Steps), w.wait.kind # "retry_backoff"
    PROVE  /\ OnlyHeadCalled(w)
           /\ \A n \in Nat \ {0} :
                 w.queue # <<>> /\ n <= pkg.tries[Head(w.queue)] => CallDue(w, n)
           /\ w.queue # <<>> => CallDue(w, 1)
  <1>1. w.queue # <<>> => Head(w.queue) \in Steps
    BY HeadTailProperties
  <1>2. OnlyHeadCalled(w)
    BY DEF OnlyHeadCalled
  <1> QED BY <1>1, <1>2, BudgetFacts DEF CallDue, NextTry

LEMMA NothingCalledGoesOn ==
    ASSUME TypeInv, BudgetInv, pkg' = pkg, phase' = "head", saved' = saved,
           \A s \in Steps : retry'[s] \in Nat \ {0} /\ retry'[s] <= pkg.tries[s],
           \A s \in Steps : walk'.tries[s] = 0,
           walk'.queue \in Seq(Steps), walk'.wait.kind # "retry_backoff"
    PROVE  BudgetInv'
  <1>1. walk'.queue # <<>> => Head(walk'.queue) \in Steps
    BY HeadTailProperties
  <1>2. /\ OnlyHeadCalled(walk')
        /\ \A n \in Nat \ {0} :
              walk'.queue # <<>> /\ n <= pkg.tries[Head(walk'.queue)] => CallDue(walk', n)
    BY NothingCalled
  <1>3. walk'.queue # <<>> => CallDue(walk', retry'[Head(walk'.queue)])
    BY <1>1, <1>2
  <1> QED BY <1>2, <1>3, BudgetGoesOn

LEMMA StartingBudget ==
    ASSUME TypeInv, BudgetInv, StartFresh \/ Resume \/ WaitDue
    PROVE  BudgetInv'
  <1>1. CASE StartFresh
    <2>1. PICK answers \in SUBSET pkg.asks : walk' = FreshWalk(pkg, answers)
      BY <1>1 DEF StartFresh
    <2>2. /\ \A s \in Steps : walk'.tries[s] = 0
          /\ walk'.wait.kind # "retry_backoff" /\ walk'.queue \in Seq(Steps)
      BY <2>1, PackageFacts DEF FreshWalk, NoWait, TypeInv
    <2>3. /\ \A s \in Steps : retry'[s] \in Nat \ {0} /\ retry'[s] <= pkg.tries[s]
          /\ UNCHANGED <<pkg, saved>> /\ phase' = "head"
      BY <1>1, BudgetFacts DEF StartFresh, BudgetInv
    <2> QED BY <2>2, <2>3, NothingCalledGoesOn
  <1>2. CASE Resume
    <2>1. PICK answers \in SUBSET pkg.asks :
              walk' = [saved EXCEPT !.answered = @ \cup answers]
      BY <1>2 DEF Resume
    <2>2. saved # None /\ Typed(saved) /\ saved \in LiveWalks
      BY <1>2, SavedTyped DEF Resume, LiveWalks
    <2>3. /\ walk'.queue = saved.queue /\ walk'.tries = saved.tries
          /\ walk'.visited = saved.visited /\ walk'.entered = saved.entered
          /\ walk'.wait = saved.wait /\ saved.answered \subseteq walk'.answered
      BY <2>1, <2>2 DEF Typed, Walk
    <2>4. OnlyHeadCalled(walk')
      BY <2>2, <2>3 DEF BudgetInv, OnlyHeadCalled
    <2>5. retry' = [s \in Steps |-> 1] /\ UNCHANGED <<pkg, saved>> /\ phase' = "head"
      BY <1>2 DEF Resume, BudgetInv
    <2>6. walk'.queue # <<>> => Head(walk'.queue) \in Steps
      BY <2>2, <2>3, BudgetFacts, HeadTailProperties
    <2>7. walk'.queue # <<>> => CallDue(walk', 1)
      BY <2>2, <2>3 DEF BudgetInv, CallDue, NextTry
    <2>8. walk'.queue # <<>> => CallDue(walk', retry'[Head(walk'.queue)])
      BY <2>5, <2>6, <2>7
    <2>9. \A s \in Steps : retry'[s] <= pkg.tries[s]
      BY <2>5, BudgetFacts
    <2> QED BY <2>4, <2>5, <2>8, <2>9, BudgetGoesOn
  <1>3. CASE WaitDue
    <2>1. saved # None /\ Typed(saved) /\ saved \in LiveWalks
      BY <1>3, SavedTyped DEF WaitDue, LiveWalks
    <2>2. /\ saved'.queue = saved.queue /\ saved'.tries = saved.tries
          /\ saved'.visited = saved.visited /\ saved'.entered = saved.entered
          /\ saved'.answered = saved.answered /\ saved'.wait.kind = saved.wait.kind
          /\ saved'.wait.attempt = saved.wait.attempt
      <3>1. saved.wait \in Wait
        BY <2>1 DEF Typed, Walk
      <3> QED BY <1>3, <2>1, <3>1 DEF WaitDue, Typed, Walk, Wait
    <2>3. UNCHANGED <<pkg, walk, phase, retry, local>>
      BY <1>3 DEF WaitDue
    <2>4. OnlyHeadCalled(saved)
      BY <2>1 DEF BudgetInv
    <2>5. OnlyHeadCalled(saved')
      BY <2>2, <2>4 DEF OnlyHeadCalled
    <2>6. \A w \in LiveWalks' : OnlyHeadCalled(w)'
      BY <2>3, <2>5 DEF BudgetInv, LiveWalks, OnlyHeadCalled, Looping
    <2>7. (saved # None /\ saved.queue # <<>> => CallDue(saved, 1))'
      BY <2>1, <2>2, <2>3 DEF BudgetInv, CallDue, NextTry
    <2>8. (phase = "head" /\ walk.queue # <<>> => CallDue(walk, retry[Head(walk.queue)]))'
      BY <2>3 DEF BudgetInv, CallDue, NextTry
    <2> QED BY <2>3, <2>6, <2>7, <2>8 DEF BudgetInv
  <1> QED BY <1>1, <1>2, <1>3

LEMMA EndingBudget ==
    ASSUME TypeInv, BudgetInv,
           \/ Crash \/ Finish
           \/ \E s \in Steps : RejectPolicy(s) \/ StepRaises(s) \/ OperationFails(s)
                               \/ LoopLimit(s)
    PROVE  BudgetInv'
  <1>1. Return /\ (saved' = None \/ saved' = saved) /\ pkg' = pkg
    BY DEF Crash, Finish, RejectPolicy, StepRaises, OperationFails, LoopLimit, FinishRun
  <1> QED BY <1>1, BudgetReturn

\* The runner's walk at the head of the loop.
LEMMA HeadBudget ==
    ASSUME TypeInv, BudgetInv, NEW s \in Steps, AtHead(s)
    PROVE  /\ Typed(walk) /\ walk \in LiveWalks /\ OnlyHeadCalled(walk)
           /\ walk.tries \in [Steps -> Nat] /\ walk.queue \in Seq(Steps)
           /\ walk.queue # <<>> /\ Head(walk.queue) = s
           /\ CallDue(walk, retry[s])
           /\ \A x \in Steps : x # s => walk.tries[x] = 0
           /\ \A x \in Steps : retry[x] \in Nat \ {0} /\ retry[x] <= pkg.tries[x]
  <1>1. walk \in LiveWalks /\ Typed(walk)
    BY WalkIsLive DEF AtHead
  <1>2. OnlyHeadCalled(walk) /\ CallDue(walk, retry[s])
    BY <1>1 DEF BudgetInv, AtHead
  <1> QED BY <1>1, <1>2, BudgetFacts DEF BudgetInv, AtHead, OnlyHeadCalled

LEMMA DropBudget ==
    ASSUME TypeInv, BudgetInv, NEW s \in Steps, DropVisited(s)
    PROVE  BudgetInv'
  <1>1. AtHead(s) /\ s \in walk.visited
    BY DEF DropVisited
  <1>2. \A x \in Steps : walk.tries[x] = 0
    BY <1>1, HeadBudget DEF OnlyHeadCalled
  <1>3. /\ walk'.tries = walk.tries /\ walk'.queue = Tail(walk.queue)
        /\ walk'.wait = NoWait
    BY <1>1, HeadBudget DEF DropVisited, Typed, Walk
  <1>4. walk'.queue \in Seq(Steps) /\ walk'.wait.kind # "retry_backoff"
    BY <1>1, <1>3, HeadFacts DEF AtHead, NoWait
  <1>5. phase' = "head" /\ UNCHANGED <<pkg, saved, retry>>
    BY <1>1 DEF DropVisited, AtHead, row
  <1> QED BY <1>1, <1>2, <1>3, <1>4, <1>5, HeadBudget, NothingCalledGoesOn

LEMMA SkipBudget ==
    ASSUME TypeInv, BudgetInv, NEW s \in Steps, SkipLoop(s)
    PROVE  BudgetInv'
  <1> DEFINE u == [walk EXCEPT !.queue = Tail(@), !.entered = TRUE, !.wait = NoWait]
  <1>1. AtHead(s) /\ Pretested(s)
    BY DEF SkipLoop
  <1>2. \A x \in Steps : walk.tries[x] = 0
    BY <1>1, HeadBudget DEF OnlyHeadCalled, Pretested
  <1>3. Typed(walk) /\ Tail(walk.queue) \in Seq(Steps)
    BY <1>1, HeadBudget, HeadFacts DEF AtHead
  <1>4. NoWait \in Wait
    BY DEF NoWait, Wait, Parks
  <1>5. u \in Walk /\ u.tries = walk.tries /\ u.wait = NoWait
    BY <1>3, <1>4 DEF Typed, Walk
  <1>6. PICK r \in pkg.routes[pkg.loop.tail] : walk' \in EnqueueFrom(u, r)
    BY DEF SkipLoop
  <1>7. r \in Routes
    BY <1>6, PackageFacts DEF TypeInv
  <1> HIDE DEF u
  <1>8. walk' \in Walk /\ walk'.tries = walk.tries /\ walk'.wait = NoWait
    BY <1>5, <1>6, <1>7, EnqueueTyped, EnqueueCalls DEF SameCalls
  <1>9. walk'.queue \in Seq(Steps) /\ walk'.wait.kind # "retry_backoff"
    BY <1>8 DEF Walk, NoWait
  <1>10. phase' = "head" /\ UNCHANGED <<pkg, saved, retry>>
    BY <1>1 DEF SkipLoop, AtHead, row
  <1> QED BY <1>1, <1>2, <1>8, <1>9, <1>10, HeadBudget, NothingCalledGoesOn

\* A step that asks or parks has no open call: a call is made only when all is answered,
\* and a wait is no HTTP call.
LEMMA ParkBudget ==
    ASSUME TypeInv, BudgetInv, NEW s \in Steps, AskOperator(s) \/ ParkWait(s)
    PROVE  BudgetInv'
  <1>1. Taken(s) /\ AtHead(s)
    BY DEF AskOperator, ParkWait, Taken
  <1>2. \A x \in Steps : walk.tries[x] = 0
    <2>1. CASE AskOperator(s)
      BY <1>1, <2>1, HeadBudget DEF AskOperator, Unresolved, OnlyHeadCalled
    <2>2. CASE ParkWait(s)
      BY <1>1, <2>2, HeadBudget DEF ParkWait, MustPark, CallDue
    <2> QED BY <2>1, <2>2
  <1>3. /\ Opened(s) \in Walk /\ Opened(s).tries = walk.tries
        /\ Opened(s).queue = walk.queue /\ Opened(s).wait = NoWait
    BY <1>1, OpenedTyped, OpenedCalls DEF Typed
  <1>4. /\ saved'.tries = walk.tries /\ saved'.queue = walk.queue
        /\ saved'.wait.kind # "retry_backoff" /\ Return /\ pkg' = pkg
    <2>1. CASE AskOperator(s)
      BY <1>3, <2>1 DEF AskOperator, Leave, NoWait
    <2>2. CASE ParkWait(s)
      BY <1>3, <2>2 DEF ParkWait, Leave, Walk
    <2> QED BY <2>1, <2>2
  <1>5. walk.queue \in Seq(Steps)
    BY <1>1, HeadBudget
  <1>6. OnlyHeadCalled(saved') /\ (saved'.queue # <<>> => CallDue(saved', 1))
    BY <1>2, <1>4, <1>5, NothingCalled
  <1> QED BY <1>4, <1>6, BudgetReturn

\* The call: one more, and still within the budget; what is saved before it has no
\* open call, since only create steps mint and those are not repeated.
LEMMA CallBudget ==
    ASSUME TypeInv, BudgetInv, NEW s \in Steps, Call(s)
    PROVE  BudgetInv'
  <1>1. AtHead(s) /\ s \notin walk.visited /\ s \notin pkg.asks \ walk.answered
    BY DEF Call, Taken, Unresolved
  <1>2. /\ walk'.queue = walk.queue /\ walk'.visited = walk.visited
        /\ walk'.tries = [walk.tries EXCEPT ![s] = @ + 1]
        /\ walk'.answered = walk.answered /\ walk'.wait = NoWait
        /\ walk'.entered = (walk.entered \/ Pretested(s))
    BY CallCalls DEF SameRoute
  <1>3. /\ phase' = "exec" /\ UNCHANGED <<pkg, retry>>
        /\ local'.attempt = AttemptOf(s)
    BY DEF Call
  <1>4. OnlyHeadCalled(walk')
    BY <1>1, <1>2, HeadBudget DEF OnlyHeadCalled, Pretested
  <1>5. /\ walk'.wait.kind = "none" /\ walk'.tries[Head(walk'.queue)] <= local'.attempt
        /\ local'.attempt <= pkg'.tries[Head(walk'.queue)]
    <2>1. AttemptOf(s) = NextTry(walk, retry[s])
      BY DEF AttemptOf, NextTry
    <2>2. walk.tries[s] < AttemptOf(s) /\ AttemptOf(s) <= pkg.tries[s]
      BY <1>1, <2>1, HeadBudget DEF CallDue
    <2>3. AttemptOf(s) \in Nat
      <3>1. walk.wait \in Wait
        BY <1>1, HeadBudget DEF Typed, Walk
      <3> QED BY <1>1, <3>1, HeadBudget DEF AttemptOf, Wait
    <2>4. Head(walk'.queue) = s /\ walk'.tries[s] = walk.tries[s] + 1 /\ walk.tries[s] \in Nat
      BY <1>1, <1>2, HeadBudget
    <2> QED BY <1>2, <1>3, <2>2, <2>3, <2>4 DEF NoWait
  <1>6. \/ saved' = saved
        \/ OnlyHeadCalled(saved') /\ (saved'.queue # <<>> => CallDue(saved', 1))
    <2> SUFFICES ASSUME saved' # saved
                 PROVE  OnlyHeadCalled(saved') /\ (saved'.queue # <<>> => CallDue(saved', 1))
      OBVIOUS
    <2>1. /\ s \in pkg.mints /\ saved'.queue = walk.queue /\ saved'.tries = walk.tries
          /\ saved'.wait = NoWait
      BY CallCalls DEF SameRoute
    <2>2. pkg.kind[s] # "http"
      BY <2>1, PackagesComposed DEF TypeInv
    <2>3. \A x \in Steps : saved'.tries[x] = 0
      BY <1>1, <2>1, <2>2, HeadBudget DEF CallDue
    <2>4. saved'.queue \in Seq(Steps) /\ saved'.wait.kind # "retry_backoff"
      BY <1>1, <2>1, HeadBudget DEF NoWait
    <2> QED BY <2>3, <2>4, NothingCalled
  <1>7. saved' # None =>
            OnlyHeadCalled(saved') /\ (saved'.queue # <<>> => CallDue(saved', 1))
    BY <1>6 DEF BudgetInv, LiveWalks
  <1>8. \A w \in LiveWalks' : OnlyHeadCalled(w)'
    BY <1>3, <1>4, <1>7 DEF LiveWalks, OnlyHeadCalled, Looping
  <1>9. (saved # None /\ saved.queue # <<>> => CallDue(saved, 1))'
    BY <1>3, <1>7 DEF CallDue, NextTry
  <1>10. \A x \in Steps : retry'[x] <= pkg'.tries[x]
    BY <1>3 DEF BudgetInv
  <1> QED BY <1>3, <1>5, <1>8, <1>9, <1>10 DEF BudgetInv

\* The runner's walk while its head executes.
LEMMA ExecBudget ==
    ASSUME TypeInv, BudgetInv, NEW s \in Steps, Executing(s)
    PROVE  /\ Typed(walk) /\ walk \in LiveWalks /\ OnlyHeadCalled(walk)
           /\ walk.tries \in [Steps -> Nat] /\ walk.queue \in Seq(Steps)
           /\ walk.queue # <<>> /\ Head(walk.queue) = s
           /\ walk.wait.kind = "none" /\ local.attempt \in Nat
           /\ walk.tries[s] <= local.attempt /\ local.attempt <= pkg.tries[s]
           /\ \A x \in Steps : x # s => walk.tries[x] = 0
           /\ \A x \in Steps : retry[x] \in Nat \ {0} /\ retry[x] <= pkg.tries[x]
  <1>1. walk \in LiveWalks /\ Typed(walk) /\ walk.queue # <<>>
    BY WalkIsLive DEF Executing, TypeInv
  <1>2. /\ OnlyHeadCalled(walk) /\ walk.wait.kind = "none"
        /\ walk.tries[s] <= local.attempt /\ local.attempt <= pkg.tries[s]
    BY <1>1 DEF BudgetInv, Executing
  <1> QED BY <1>1, <1>2, BudgetFacts DEF BudgetInv, Executing, OnlyHeadCalled

\* The retry after a failed call names a try that is left.
LEMMA RetryBudget ==
    ASSUME TypeInv, BudgetInv, NEW s \in Steps, RetryNow(s) \/ RetryLater(s)
    PROVE  BudgetInv'
  <1>1. /\ Executing(s) /\ pkg.kind[s] = "http" /\ local.attempt < pkg.tries[s]
        /\ pkg' = pkg
    BY DEF RetryNow, RetryLater, MayRetry
  <1>2. pkg.tries[s] \in Nat
    BY BudgetFacts
  <1>3. CASE RetryNow(s)
    <2>1. /\ UNCHANGED <<walk, saved>> /\ phase' = "head"
          /\ retry' = [retry EXCEPT ![s] = local.attempt + 1]
      BY <1>3 DEF RetryNow, NextAttempt, row
    <2>2. \A x \in Steps : retry'[x] <= pkg.tries[x]
      BY <1>1, <1>2, <2>1, ExecBudget
    <2>3. CallDue(walk', retry'[Head(walk'.queue)])
      <3>1. retry \in [Steps -> Nat \ {0}]
        BY DEF TypeInv, TypeOK
      <3>2. retry'[s] = local.attempt + 1 /\ Head(walk'.queue) = s
        BY <1>1, <2>1, <3>1, ExecBudget
      <3>3. walk'.tries[s] < local.attempt + 1 /\ local.attempt + 1 <= pkg.tries[s]
        BY <1>1, <1>2, <2>1, ExecBudget
      <3>4. NextTry(walk', retry'[s]) = local.attempt + 1
        BY <1>1, <2>1, <3>2, ExecBudget DEF NextTry
      <3> QED BY <1>1, <3>2, <3>3, <3>4 DEF CallDue
    <2>4. OnlyHeadCalled(walk')
      BY <1>1, <2>1, ExecBudget
    <2> QED BY <1>1, <2>1, <2>2, <2>3, <2>4, BudgetGoesOn
  <1>4. CASE RetryLater(s)
    <2>1. /\ saved' = [walk EXCEPT !.wait = [kind |-> "retry_backoff",
                                             attempt |-> local.attempt + 1, due |-> FALSE]]
          /\ Return
      BY <1>4 DEF RetryLater, Leave, NextAttempt
    <2>2. /\ saved'.tries = walk.tries /\ saved'.queue = walk.queue
          /\ saved'.visited = walk.visited /\ saved'.answered = walk.answered
          /\ saved'.entered = walk.entered /\ saved'.wait.kind = "retry_backoff"
          /\ saved'.wait.attempt = local.attempt + 1
      BY <1>1, <2>1, ExecBudget DEF Typed, Walk
    <2>3. OnlyHeadCalled(walk)
      BY <1>1, ExecBudget
    <2>4. OnlyHeadCalled(saved')
      BY <2>2, <2>3 DEF OnlyHeadCalled
    <2>5. CallDue(saved', 1)
      BY <1>1, <1>2, <2>2, ExecBudget DEF CallDue, NextTry
    <2> QED BY <1>1, <2>1, <2>4, <2>5, BudgetReturn
  <1> QED BY <1>3, <1>4

\* A step that has run has no open call, so none has.
LEMMA RanBudget ==
    ASSUME TypeInv, BudgetInv, NEW s \in Steps, Executing(s), NEW items \in 0..Unlatched
    PROVE  /\ \A x \in Steps : Ran(s, items).tries[x] = 0
           /\ Ran(s, items).wait.kind = "none" /\ Ran(s, items) \in Walk
  <1>1. Typed(walk) /\ walk.tries \in [Steps -> Nat]
    BY ExecBudget DEF Typed, Walk
  <1>2. /\ Ran(s, items).tries = [walk.tries EXCEPT ![s] = 0]
        /\ Ran(s, items).wait = walk.wait
    BY <1>1 DEF Ran, Typed, Walk
  <1>3. \A x \in Steps : x # s => walk.tries[x] = 0
    BY ExecBudget DEF OnlyHeadCalled, Executing
  <1>4. \A x \in Steps : Ran(s, items).tries[x] = 0
    BY <1>1, <1>2, <1>3
  <1>5. Ran(s, items) \in Walk
    BY <1>1, RanTyped, ExecBudget DEF Typed
  <1> QED BY <1>2, <1>4, <1>5, ExecBudget

LEMMA RetryReset ==
    ASSUME TypeInv, BudgetInv, NEW s \in Steps, retry' = [retry EXCEPT ![s] = 1]
    PROVE  \A x \in Steps : retry'[x] \in Nat \ {0} /\ retry'[x] <= pkg.tries[x]
  <1>1. retry \in [Steps -> Nat \ {0}]
    BY DEF TypeInv, TypeOK
  <1> QED BY <1>1, BudgetFacts DEF BudgetInv

LEMMA DoneBudget ==
    ASSUME TypeInv, BudgetInv, NEW s \in Steps,
           StepDone(s) \/ NextPass(s) \/ NextPassLater(s)
    PROVE  BudgetInv'
  <1>1. CASE StepDone(s)
    <2>1. PICK r \in pkg.routes[s], items \in ItemsAfter(walk, s) :
              walk' \in EnqueueFrom(Ran(s, items), r)
      BY <1>1 DEF StepDone
    <2>2. Executing(s) /\ items \in 0..Unlatched /\ r \in Routes
      BY <1>1, <2>1, ExecBudget, ItemsLatched, PackageFacts DEF StepDone, TypeInv
    <2>3. /\ walk' \in Walk /\ \A x \in Steps : walk'.tries[x] = 0
          /\ walk'.wait.kind = "none"
      BY <2>1, <2>2, RanBudget, EnqueueTyped, EnqueueCalls DEF SameCalls
    <2>4. walk'.queue \in Seq(Steps)
      BY <2>3 DEF Walk
    <2>5. /\ phase' = "head" /\ UNCHANGED <<pkg, saved>>
          /\ retry' = [retry EXCEPT ![s] = 1]
      BY <1>1 DEF StepDone, row
    <2> QED BY <2>3, <2>4, <2>5, RetryReset, NothingCalledGoesOn
  <1>2. CASE NextPass(s)
    <2>1. PICK items \in 0..Unlatched :
              Continues(s, items) /\ ~AtLimit /\ walk' = NextWalk(s, items)
      BY <1>2 DEF NextPass, NextWalk
    <2>2. Executing(s)
      BY <2>1 DEF Continues
    <2>3. Typed(walk') /\ SameCalls(walk', Ran(s, items))
      BY <2>1, <2>2, NextWalkTyped, NextWalkCalls
    <2>4. /\ \A x \in Steps : walk'.tries[x] = 0
          /\ walk'.wait.kind # "retry_backoff" /\ walk'.queue \in Seq(Steps)
      BY <2>2, <2>3, RanBudget DEF SameCalls, Typed, Walk
    <2>5. /\ phase' = "head" /\ UNCHANGED <<pkg, saved>>
          /\ retry' = [retry EXCEPT ![s] = 1]
      BY <1>2 DEF NextPass, row
    <2> QED BY <2>4, <2>5, RetryReset, NothingCalledGoesOn
  <1>3. CASE NextPassLater(s)
    <2> DEFINE wait == [kind |-> "loop_delay", attempt |-> 0, due |-> FALSE]
    <2>1. PICK items \in 0..Unlatched :
              /\ Continues(s, items) /\ ~AtLimit
              /\ Leave([NextWalk(s, items) EXCEPT !.wait = wait], "waiting")
      BY <1>3 DEF NextPassLater, NextWalk
    <2>2. Executing(s) /\ wait.kind = "loop_delay"
      BY <2>1 DEF Continues
    <2> HIDE DEF wait
    <2>3. NextWalk(s, items) \in Walk /\ SameCalls(NextWalk(s, items), Ran(s, items))
      BY <2>1, <2>2, NextWalkTyped, NextWalkCalls DEF Typed
    <2>4. /\ saved'.tries = Ran(s, items).tries /\ saved'.wait = wait
          /\ saved'.queue \in Seq(Steps)
      BY <2>1, <2>3 DEF Leave, SameCalls, Walk
    <2>5. OnlyHeadCalled(saved') /\ (saved'.queue # <<>> => CallDue(saved', 1))
      BY <2>2, <2>4, RanBudget, NothingCalled
    <2> QED BY <1>3, <2>1, <2>5, BudgetReturn DEF NextPassLater, Leave
  <1> QED BY <1>1, <1>2, <1>3

LEMMA StepBudget == TypeInv /\ BudgetInv /\ [Next]_vars => BudgetInv'
  <1> SUFFICES ASSUME TypeInv, BudgetInv, [Next]_vars PROVE BudgetInv'
    OBVIOUS
  <1>1. CASE UNCHANGED vars
    BY <1>1 DEF vars, BudgetInv, LiveWalks, OnlyHeadCalled, CallDue, NextTry, Looping
  <1>2. CASE RunnerStep
    <2>1. ASSUME NEW s \in Steps,
                 DropVisited(s) \/ SkipLoop(s) \/ AskOperator(s) \/ ParkWait(s) \/ Call(s)
          PROVE  BudgetInv'
      BY <2>1, DropBudget, SkipBudget, ParkBudget, CallBudget
    <2>2. ASSUME NEW s \in Steps,
                 RetryNow(s) \/ RetryLater(s) \/ StepDone(s) \/ NextPass(s) \/ NextPassLater(s)
          PROVE  BudgetInv'
      BY <2>2, RetryBudget, DoneBudget
    <2> QED BY <1>2, <2>1, <2>2, EndingBudget DEF RunnerStep
  <1>3. CASE StartFresh \/ Resume \/ WaitDue \/ Crash
    BY <1>3, StartingBudget, EndingBudget
  <1> QED BY <1>1, <1>2, <1>3 DEF Next

\* However a call's tries are spread over immediate retries, backoff parks, resumes and
\* crashes, it is made at most max_attempts times before the step is over: the number
\* a backoff park carries is always that of a try not yet made.
THEOREM TriesStayWithinBudget == Spec => []TriesWithinBudget
  <1>1. Init => TypeInv /\ BudgetInv
    <2> SUFFICES ASSUME Init PROVE TypeInv /\ BudgetInv
      OBVIOUS
    <2>1. TypeInv
      BY InitType
    <2> QED BY <2>1, BudgetFacts DEF Init, BudgetInv, LiveWalks
  <1>2. TypeInv /\ BudgetInv /\ [Next]_vars => (TypeInv /\ BudgetInv)'
    BY StepType, StepBudget
  <1>3. TypeInv /\ BudgetInv => TriesWithinBudget
    <2> SUFFICES ASSUME TypeInv, BudgetInv, NEW w \in LiveWalks, NEW s \in Steps
                 PROVE  w.tries[s] <= pkg.tries[s]
      BY DEF TriesWithinBudget
    <2>1. CASE w.tries[s] = 0
      BY <2>1, BudgetFacts
    <2>2. CASE w.tries[s] # 0
      <3>1. w.queue # <<>> /\ s = Head(w.queue)
        BY <2>2 DEF BudgetInv, OnlyHeadCalled
      <3>2. \/ \E n \in Nat : CallDue(w, n)
            \/ w.tries[s] <= local.attempt /\ local.attempt <= pkg.tries[s]
        <4>1. walk \in LiveWalks /\ walk.queue # <<>> => Head(walk.queue) \in Steps
          BY BudgetFacts, HeadTailProperties
        <4>2. \A x \in Steps : retry[x] \in Nat
          BY BudgetFacts
        <4> QED BY <3>1, <4>1, <4>2 DEF BudgetInv, LiveWalks, TypeInv, TypeOK
      <3>3. \/ \E n \in Nat : w.tries[s] < NextTry(w, n) /\ NextTry(w, n) <= pkg.tries[s]
            \/ w.tries[s] <= local.attempt /\ local.attempt <= pkg.tries[s]
        BY <3>1, <3>2 DEF CallDue
      <3>4. w.tries[s] \in Nat /\ pkg.tries[s] \in Nat /\ local.attempt \in Nat
        BY BudgetFacts
      <3>5. ASSUME NEW n \in Nat, w.tries[s] < NextTry(w, n), NextTry(w, n) <= pkg.tries[s]
            PROVE  w.tries[s] <= pkg.tries[s]
        <4>1. NextTry(w, n) \in Nat
          BY BudgetFacts DEF NextTry, Wait
        <4> QED BY <3>4, <3>5, <4>1
      <3> QED BY <3>3, <3>4, <3>5
    <2> QED BY <2>1, <2>2
  <1> QED BY <1>1, <1>2, <1>3, PTL DEF Spec

-----------------------------------------------------------------------------
(* Fresh ids                                                               *)
(*                                                                         *)
(* As long as nothing has crashed or raised, the walk the run will go on   *)
(* with is the runner's, or the row's when no runner is inside.            *)

Current == IF phase = "idle" THEN saved ELSE walk

\* An id the walk knows was used, if at all, for this pass.
IdsOfPass(w) ==
    /\ \A s \in Steps : w.ids[s] < nextId
    /\ \A e \in effects :
          /\ e[2] <= w.iteration
          /\ InBody(e[1]) /\ e[3] = w.ids[e[1]] => e[2] = w.iteration

\* An id the body minted is noted for clearing, or was minted by the step that runs.
Noted(w) ==
    \A s \in pkg.mints : InBody(s) /\ w.ids[s] # 0 =>
        \/ s \in w.derived
        \/ phase = "exec" /\ local.minted /\ s = Head(w.queue)

FreshInv ==
    /\ \A e \in effects : e[1] \in pkg.mints /\ e[3] < nextId
    /\ FreshIdPerPass
    /\ Current # None => IdsOfPass(Current) /\ Noted(Current)

UnbrokenInv == faults = 0 => FreshInv

\* Steps that mint nothing, drop nothing and change no pass.
LEMMA FreshKept ==
    ASSUME UnbrokenInv, UNCHANGED <<pkg, effects, nextId, faults>>,
           \/ Current' = None
           \/ Current # None /\ SameIds(Current', Current),
           phase' = "exec" => UNCHANGED <<phase, walk, local>>,
           phase = "exec" =>
               phase' = "exec" \/ Current' = None \/ Head(walk.queue) \notin pkg.mints
    PROVE  UnbrokenInv'
  <1> SUFFICES ASSUME faults = 0 PROVE FreshInv'
    BY DEF UnbrokenInv
  <1>1. FreshInv
    BY DEF UnbrokenInv
  <1>2. FreshIdPerPass' /\ \A e \in effects' : e[1] \in pkg'.mints /\ e[3] < nextId'
    BY <1>1 DEF FreshInv, FreshIdPerPass, InBody, Looping
  <1>3. ASSUME Current' # None
        PROVE  IdsOfPass(Current)' /\ Noted(Current)'
    <2>1. Current # None /\ SameIds(Current', Current)
      BY <1>3
    <2>2. IdsOfPass(Current) /\ Noted(Current)
      BY <1>1, <2>1 DEF FreshInv
    <2>3. phase = "exec" => Current = walk
      BY DEF Current
    <2>4. phase' = "exec" => Current' = Current
      BY DEF Current
    <2>5. IdsOfPass(Current)'
      BY <2>1, <2>2 DEF IdsOfPass, SameIds, InBody, Looping
    <2>6. Noted(Current)'
      <3> HIDE DEF Current
      <3> QED BY <1>3, <2>1, <2>2, <2>3, <2>4 DEF Noted, SameIds, InBody, Looping
    <2> QED BY <2>5, <2>6
  <1> QED BY <1>2, <1>3 DEF FreshInv

LEMMA FreshCall ==
    ASSUME TypeInv, IdsInv, UnbrokenInv, NEW s \in Steps, Call(s)
    PROVE  UnbrokenInv'
  <1> SUFFICES ASSUME faults = 0 PROVE FreshInv'
    BY DEF UnbrokenInv, Call
  <1> DEFINE o == Opened(s)
             w == WithMintedId(s, o)
             n == walk.iteration
  <1>1. /\ Typed(walk) /\ walk # None /\ Taken(s) /\ s = Head(walk.queue)
        /\ phase = "head"
    BY Walking, NullAssumption DEF Call, Taken, AtHead, Typed
  <1>2. Typed(o) /\ SameIds(o, walk) /\ o.queue = walk.queue
    BY <1>1, OpenedTyped DEF SameIds
  <1>3. n \in Nat /\ walk.ids \in [Steps -> Nat] /\ nextId \in Nat \ {0}
        /\ effects \subseteq Steps \X Nat \X Nat
    BY <1>1 DEF Typed, Walk, TypeInv, TypeOK
  <1>4. /\ Typed(w) /\ w.derived = walk.derived /\ w.iteration = n
        /\ w.queue = walk.queue
        /\ w.ids = IF Minted(s, o) THEN [walk.ids EXCEPT ![s] = nextId] ELSE walk.ids
    <2> HIDE DEF o
    <2> QED BY <1>2, MintTyped DEF SameIds
  <1>5. SameIds(walk', w) /\ walk'.queue = walk.queue
    <2>1. walk' = [w EXCEPT !.tries[s] = @ + 1,
                            !.waited = IF MustPark(s) THEN @ \cup {s} ELSE @]
      BY DEF Call
    <2> HIDE DEF w
    <2> QED BY <1>4, <2>1 DEF SameIds, Typed, Walk
  <1>6. /\ local'.minted = Minted(s, o) /\ phase' = "exec" /\ pkg' = pkg
        /\ nextId' = IF Minted(s, o) THEN nextId + 1 ELSE nextId
        /\ effects' = IF s \in pkg.mints THEN effects \cup {<<s, w.iteration, w.ids[s]>>}
                      ELSE effects
    BY DEF Call
  <1>7. Minted(s, o) <=> s \in pkg.mints /\ walk.ids[s] = 0
    BY <1>2 DEF Minted, SameIds
  <1>8. FreshInv /\ IdsOfPass(walk) /\ Noted(walk)
    BY <1>1 DEF UnbrokenInv, FreshInv, Current
  <1>9. Current' = walk' /\ walk'.iteration = n /\ walk'.derived = walk.derived
        /\ walk'.ids = w.ids
    BY <1>4, <1>5, <1>6 DEF Current, SameIds
  <1> HIDE DEF o, w
  <1>10. CASE s \in pkg.mints /\ walk.ids[s] = 0
    <2>1. /\ effects' = effects \cup {<<s, n, nextId>>} /\ nextId' = nextId + 1
          /\ walk'.ids = [walk.ids EXCEPT ![s] = nextId] /\ local'.minted
      BY <1>3, <1>4, <1>6, <1>7, <1>9, <1>10
    <2>2. \A e \in effects' : e[1] \in pkg'.mints /\ e[3] < nextId'
      BY <1>3, <1>6, <1>8, <1>10, <2>1 DEF FreshInv
    <2>3. \A e \in effects : e[3] # nextId
      BY <1>3, <1>8 DEF FreshInv
    <2>4. FreshIdPerPass'
      BY <1>3, <1>6, <1>8, <2>1, <2>3 DEF FreshInv, FreshIdPerPass, InBody, Looping
    <2>5. IdsOfPass(walk)'
      BY <1>3, <1>6, <1>8, <1>9, <2>1, <2>3 DEF IdsOfPass, InBody, Looping
    <2>6. Noted(walk)'
      BY <1>1, <1>3, <1>5, <1>6, <1>8, <1>9, <2>1 DEF Noted, InBody, Looping
    <2> QED BY <1>9, <2>2, <2>4, <2>5, <2>6 DEF FreshInv, IdsOfPass, Noted, InBody, Looping
  <1>11. CASE s \in pkg.mints /\ walk.ids[s] # 0
    <2>1. /\ effects' = effects \cup {<<s, n, walk.ids[s]>>} /\ nextId' = nextId
          /\ walk'.ids = walk.ids
      BY <1>4, <1>6, <1>7, <1>9, <1>11
    <2>2. \A e \in effects' : e[1] \in pkg'.mints /\ e[3] < nextId'
      BY <1>3, <1>6, <1>8, <1>11, <2>1 DEF FreshInv, IdsOfPass
    <2>3. FreshIdPerPass'
      BY <1>3, <1>6, <1>8, <2>1 DEF FreshInv, FreshIdPerPass, IdsOfPass, InBody, Looping
    <2>4. IdsOfPass(walk)'
      BY <1>3, <1>6, <1>8, <1>9, <2>1 DEF IdsOfPass, InBody, Looping
    <2>5. Noted(walk)'
      BY <1>1, <1>6, <1>8, <1>9, <2>1 DEF Noted, InBody, Looping
    <2> QED BY <1>9, <2>2, <2>3, <2>4, <2>5 DEF FreshInv, IdsOfPass, Noted, InBody, Looping
  <1>12. CASE s \notin pkg.mints
    <2>1. effects' = effects /\ nextId' = nextId /\ walk'.ids = walk.ids
      BY <1>4, <1>6, <1>7, <1>9, <1>12
    <2>2. FreshIdPerPass' /\ \A e \in effects' : e[1] \in pkg'.mints /\ e[3] < nextId'
      BY <1>6, <1>8, <2>1 DEF FreshInv, FreshIdPerPass, InBody, Looping
    <2>3. IdsOfPass(walk)'
      BY <1>6, <1>8, <1>9, <2>1 DEF IdsOfPass, InBody, Looping
    <2>4. Noted(walk)'
      BY <1>1, <1>6, <1>8, <1>9, <2>1 DEF Noted, InBody, Looping
    <2> QED BY <1>9, <2>2, <2>3, <2>4 DEF FreshInv, IdsOfPass, Noted, InBody, Looping
  <1> QED BY <1>10, <1>11, <1>12

LEMMA FreshStarting ==
    ASSUME TypeInv, IdsInv, UnbrokenInv, StartFresh \/ Resume \/ WaitDue \/ Crash
    PROVE  UnbrokenInv'
  <1>1. CASE StartFresh
    <2>1. PICK answers \in SUBSET pkg.asks : walk' = FreshWalk(pkg, answers)
      BY <1>1 DEF StartFresh
    <2>2. /\ effects' = {} /\ phase' = "head" /\ nextId' = nextId /\ nextId \in Nat \ {0}
          /\ \A s \in Steps : walk'.ids[s] = 0
      BY <1>1, <2>1 DEF StartFresh, FreshWalk, TypeInv, TypeOK
    <2>3. /\ Current' = walk' /\ FreshIdPerPass'
      BY <2>2 DEF Current, FreshIdPerPass
    <2>4. IdsOfPass(walk)' /\ Noted(walk)'
      <3>1. \A s \in pkg'.mints : InBody(s)' => s \in Steps
        BY <1>1, StepType, PackageFacts DEF Next, StartFresh, TypeInv, PackageType
      <3> QED BY <2>2, <3>1 DEF IdsOfPass, Noted
    <2> QED BY <2>2, <2>3, <2>4 DEF UnbrokenInv, FreshInv, IdsOfPass, Noted
  <1>2. CASE Resume
    <2>1. Typed(saved) /\ saved # None
      BY <1>2, SavedTyped DEF Resume
    <2>2. SameIds(walk', saved) /\ phase' = "head" /\ phase = "idle"
      BY <1>2, <2>1 DEF Resume, SameIds, Typed, Walk
    <2>3. Current = saved /\ Current' = walk'
      BY <2>2 DEF Current
    <2>4. UNCHANGED <<pkg, effects, nextId, faults>>
      BY <1>2 DEF Resume
    <2> QED BY <2>1, <2>2, <2>3, <2>4, FreshKept
  <1>3. CASE WaitDue
    <2>1. Typed(saved) /\ saved # None
      BY <1>3, SavedTyped DEF WaitDue
    <2>2. SameIds(saved', saved) /\ UNCHANGED <<pkg, effects, nextId, faults, phase, walk, local>>
      BY <1>3, <2>1 DEF WaitDue, SameIds, Typed, Walk
    <2>3. Current # None /\ SameIds(Current', Current)
      BY <2>1, <2>2, NullAssumption DEF Current, SameIds, TypeInv, TypeOK
    <2> QED BY <2>2, <2>3, FreshKept
  <1>4. CASE Crash
    <2>1. faults' # 0
      BY <1>4, BoundsAreNat DEF Crash, TypeInv, TypeOK
    <2> QED BY <2>1 DEF UnbrokenInv
  <1> QED BY <1>1, <1>2, <1>3, <1>4

\* A run that leaves or ends keeps what it knew, or nothing.
LEMMA FreshHead ==
    ASSUME TypeInv, UnbrokenInv, NEW s \in Steps,
           \/ DropVisited(s) \/ SkipLoop(s) \/ AskOperator(s) \/ ParkWait(s)
           \/ RejectPolicy(s)
    PROVE  UnbrokenInv'
  <1>1. Typed(walk) /\ walk # None /\ phase = "head" /\ Current = walk
    BY Walking, NullAssumption
    DEF DropVisited, SkipLoop, AskOperator, ParkWait, RejectPolicy, Taken, AtHead, Typed,
        Current
  <1>2. CASE DropVisited(s) \/ SkipLoop(s)
    <2>1. SameIds(walk', walk)
      BY <1>1, <1>2, SkipLoopType DEF DropVisited, SameIds, Typed, Walk
    <2>2. UNCHANGED <<pkg, effects, nextId, faults>> /\ phase' = "head"
      BY <1>1, <1>2 DEF DropVisited, SkipLoop, row
    <2>3. Current' = walk'
      BY <2>2 DEF Current
    <2> QED BY <1>1, <2>1, <2>2, <2>3, FreshKept
  <1>3. CASE AskOperator(s) \/ ParkWait(s)
    <2>1. SameIds(saved', walk)
      BY <1>1, <1>3, OpenedTyped, ParkWaitType DEF AskOperator, Leave, SameIds
    <2>2. UNCHANGED <<pkg, effects, nextId, faults>> /\ phase' = "idle"
      BY <1>3 DEF AskOperator, ParkWait, Leave, Return
    <2>3. Current' = saved'
      BY <2>2 DEF Current
    <2> QED BY <1>1, <2>1, <2>2, <2>3, FreshKept
  <1>4. CASE RejectPolicy(s)
    <2>1. faults' # 0
      BY <1>4, BoundsAreNat DEF RejectPolicy, TypeInv, TypeOK
    <2> QED BY <2>1 DEF UnbrokenInv
  <1> QED BY <1>2, <1>3, <1>4

LEMMA FreshEnds ==
    ASSUME TypeInv, UnbrokenInv,
           Finish \/ \E s \in Steps : StepRaises(s) \/ OperationFails(s) \/ LoopLimit(s)
    PROVE  UnbrokenInv'
  <1>1. CASE \E s \in Steps : StepRaises(s) \/ OperationFails(s)
    <2>1. faults' # 0
      BY <1>1, BoundsAreNat DEF StepRaises, OperationFails, TypeInv, TypeOK
    <2> QED BY <2>1 DEF UnbrokenInv
  <1>2. CASE Finish \/ \E s \in Steps : LoopLimit(s)
    <2>1. /\ UNCHANGED <<pkg, effects, nextId, faults>> /\ phase' = "idle"
          /\ saved' = None
      BY <1>2 DEF Finish, LoopLimit, FinishRun, Return
    <2>2. Current' = None
      BY <2>1 DEF Current
    <2> QED BY <2>1, <2>2, FreshKept
  <1> QED BY <1>1, <1>2

\* Only HTTP calls are repeated, and those mint nothing.
LEMMA FreshRetry ==
    ASSUME TypeInv, UnbrokenInv, NEW s \in Steps, RetryNow(s) \/ RetryLater(s)
    PROVE  UnbrokenInv'
  <1>1. /\ Typed(walk) /\ walk # None /\ phase = "exec" /\ Current = walk
        /\ s = Head(walk.queue) /\ pkg.kind[s] = "http"
    BY Walking, NullAssumption DEF RetryNow, RetryLater, Executing, Typed, Current
  <1>2. Head(walk.queue) \notin pkg.mints
    BY <1>1, PackagesComposed DEF TypeInv
  <1>3. CASE RetryNow(s)
    <2>1. UNCHANGED <<walk, pkg, effects, nextId, faults>> /\ phase' = "head"
      BY <1>3 DEF RetryNow
    <2>2. Current # None /\ SameIds(Current', Current)
      BY <1>1, <2>1 DEF Current, SameIds
    <2> QED BY <1>2, <2>1, <2>2, FreshKept
  <1>4. CASE RetryLater(s)
    <2>1. SameIds(saved', walk)
      BY <1>4, RetryLaterType DEF SameIds
    <2>2. UNCHANGED <<pkg, effects, nextId, faults>> /\ phase' = "idle"
      BY <1>4 DEF RetryLater, Leave, Return
    <2>3. Current # None /\ SameIds(Current', Current)
      BY <1>1, <2>1, <2>2 DEF Current
    <2> QED BY <1>2, <2>2, <2>3, FreshKept
  <1> QED BY <1>3, <1>4

\* The step has run: the id it minted is noted if it is the body's.
LEMMA FreshDone ==
    ASSUME TypeInv, UnbrokenInv, NEW s \in Steps, StepDone(s)
    PROVE  UnbrokenInv'
  <1> SUFFICES ASSUME faults = 0 PROVE FreshInv'
    BY DEF UnbrokenInv, StepDone
  <1>1. /\ walk'.ids = walk.ids /\ walk'.iteration = walk.iteration
        /\ walk'.derived =
              IF InBody(s) /\ local.minted THEN walk.derived \cup {s} ELSE walk.derived
    BY StepDoneType
  <1>2. /\ walk # None /\ phase = "exec" /\ s = Head(walk.queue) /\ Current = walk
        /\ UNCHANGED <<pkg, effects, nextId, faults>> /\ phase' = "head"
        /\ Current' = walk'
    BY Walking, NullAssumption DEF StepDone, Executing, Typed, row, Current
  <1>3. FreshInv /\ IdsOfPass(walk) /\ Noted(walk)
    BY <1>2 DEF UnbrokenInv, FreshInv
  <1>4. IdsOfPass(walk)' /\ Noted(walk)'
    BY <1>1, <1>2, <1>3 DEF IdsOfPass, Noted, InBody, Looping
  <1>5. FreshIdPerPass' /\ \A e \in effects' : e[1] \in pkg'.mints /\ e[3] < nextId'
    BY <1>2, <1>3 DEF FreshInv, FreshIdPerPass, InBody, Looping
  <1> QED BY <1>2, <1>4, <1>5 DEF FreshInv, IdsOfPass, Noted, InBody, Looping

\* The next pass forgets every id the body minted, so it uses none of them.
LEMMA FreshPass ==
    ASSUME TypeInv, IdsInv, UnbrokenInv, NEW s \in Steps, NextPass(s) \/ NextPassLater(s)
    PROVE  UnbrokenInv'
  <1> SUFFICES ASSUME faults = 0 PROVE FreshInv'
    BY DEF UnbrokenInv, NextPass, NextPassLater
  <1>1. PICK items \in 0..Unlatched :
            Continues(s, items) /\ ~AtLimit /\ SameIds(Current', NextWalk(s, items))
    <2>1. CASE NextPass(s)
      BY <2>1 DEF NextPass, NextWalk, Current, SameIds
    <2>2. CASE NextPassLater(s)
      BY <2>2, NextPassLaterType DEF NextPassLater, Leave, Return, Current, SameIds
    <2> QED BY <2>1, <2>2
  <1> DEFINE D == IF InBody(s) /\ local.minted THEN walk.derived \cup {s}
                  ELSE walk.derived
  <1>2. Executing(s)
    BY <1>1 DEF Continues
  <1>3. /\ Current'.ids = [x \in Steps |-> IF x \in D THEN 0 ELSE walk.ids[x]]
        /\ Current'.iteration = walk.iteration + 1
    <2>1. Ran(s, items).derived = D
      BY <1>2, RanTyped
    <2> HIDE DEF D
    <2> QED BY <1>1, <2>1, NextWalkTyped DEF SameIds
  <1>4. /\ walk # None /\ phase = "exec" /\ s = Head(walk.queue) /\ Typed(walk)
        /\ Current = walk /\ phase' # "exec" /\ UNCHANGED <<pkg, effects, nextId>>
    BY <1>2, Walking, NullAssumption
    DEF Executing, Typed, Current, NextPass, NextPassLater, Leave, Return
  <1>5. /\ walk.iteration \in Nat /\ effects \subseteq Steps \X Nat \X Nat
        /\ walk.ids \in [Steps -> Nat] /\ nextId \in Nat \ {0}
    BY <1>4 DEF Typed, Walk, TypeInv, TypeOK
  <1>6. FreshInv /\ IdsOfPass(walk) /\ Noted(walk)
    BY <1>4 DEF UnbrokenInv, FreshInv
  <1>7. \A x \in pkg.mints : InBody(x) /\ walk.ids[x] # 0 => x \in D
    BY <1>4, <1>6 DEF Noted
  <1> HIDE DEF D
  <1>8. \A e \in effects : /\ e[1] \in Steps /\ e[2] \in Nat /\ e[3] \in Nat \ {0}
                           /\ e[1] \in pkg.mints /\ e[2] <= walk.iteration
    BY <1>5, <1>6 DEF IdsInv, FreshInv, IdsOfPass
  <1>9. \A e \in effects : InBody(e[1]) => e[3] # Current'.ids[e[1]]
    BY <1>3, <1>5, <1>7, <1>8
  <1>10. /\ \A x \in Steps : Current'.ids[x] < nextId
         /\ \A x \in pkg.mints : InBody(x) => x \in Steps /\ Current'.ids[x] = 0
    <2>1. \A x \in pkg.mints : x \in Steps
      BY PackageFacts DEF TypeInv, PackageType
    <2> QED BY <1>3, <1>5, <1>6, <1>7, <2>1 DEF IdsOfPass
  <1>11. \A e \in effects : e[2] <= Current'.iteration
    BY <1>3, <1>5, <1>8
  <1>12. IdsOfPass(Current)' /\ Noted(Current)'
    <2>1. IdsOfPass(Current)'
      <3> HIDE DEF Current
      <3> QED BY <1>4, <1>9, <1>10, <1>11 DEF IdsOfPass, InBody, Looping
    <2>2. Noted(Current)'
      <3> HIDE DEF Current
      <3> QED BY <1>4, <1>10 DEF Noted, InBody, Looping
    <2> QED BY <2>1, <2>2
  <1>13. FreshIdPerPass' /\ \A e \in effects' : e[1] \in pkg'.mints /\ e[3] < nextId'
    BY <1>4, <1>6 DEF FreshInv, FreshIdPerPass, InBody, Looping
  <1> QED BY <1>12, <1>13 DEF FreshInv

LEMMA StepUnbroken == TypeInv /\ IdsInv /\ UnbrokenInv /\ [Next]_vars => UnbrokenInv'
  <1> SUFFICES ASSUME TypeInv, IdsInv, UnbrokenInv, [Next]_vars PROVE UnbrokenInv'
    OBVIOUS
  <1>1. CASE UNCHANGED vars
    BY <1>1 DEF vars, UnbrokenInv, FreshInv, FreshIdPerPass, Current, IdsOfPass, Noted,
                InBody, Looping
  <1>2. CASE RunnerStep
    <2>1. ASSUME NEW s \in Steps,
                 \/ DropVisited(s) \/ SkipLoop(s) \/ AskOperator(s) \/ ParkWait(s)
                 \/ RejectPolicy(s) \/ Call(s)
          PROVE  UnbrokenInv'
      BY <2>1, FreshHead, FreshCall
    <2>2. ASSUME NEW s \in Steps,
                 \/ RetryNow(s) \/ RetryLater(s) \/ StepDone(s) \/ NextPass(s)
                 \/ NextPassLater(s)
          PROVE  UnbrokenInv'
      BY <2>2, FreshRetry, FreshDone, FreshPass
    <2> QED BY <1>2, <2>1, <2>2, FreshEnds DEF RunnerStep
  <1> QED BY <1>1, <1>2, FreshStarting DEF Next

\* Until something crashes or raises, two passes of a loop create two entities: every
\* id a pass mints is dropped before the next begins, and no id is minted twice.
THEOREM FreshUntilFault == Spec => []FreshIdsUnbroken
  <1>1. Init => TypeInv /\ IdsInv /\ UnbrokenInv
    <2>1. Init => UnbrokenInv
      BY DEF Init, UnbrokenInv, FreshInv, FreshIdPerPass, Current
    <2> QED BY <2>1, InitType, InitIds
  <1>2. TypeInv /\ IdsInv /\ UnbrokenInv /\ [Next]_vars => (TypeInv /\ IdsInv /\ UnbrokenInv)'
    BY StepType, StepIds, StepUnbroken
  <1>3. TypeInv /\ IdsInv /\ UnbrokenInv => FreshIdsUnbroken
    BY DEF UnbrokenInv, FreshInv, FreshIdsUnbroken
  <1> QED BY <1>1, <1>2, <1>3, PTL DEF Spec

-----------------------------------------------------------------------------
(* How a pass begins                                                       *)

\* The steps of the body but the loop's entry.
Inner(p) == p.loop.body \ {p.loop.entry}

NoneOf(q, I) == \A i \in DOMAIN q : q[i] \notin I
AtMostOne(q, I) == \A i, k \in DOMAIN q : q[i] \in I /\ q[k] \in I => i = k

\* The body is entered through its entry only, and goes on one step at a time; what
\* lies outside it, and in which order it is queued, is left open.
ChainBody(p) ==
    /\ p.first \notin Inner(p)
    /\ \A s \in Steps : \A r \in p.routes[s] :
          /\ ~NoneOf(r.plain, Inner(p)) => s \in p.loop.body \ {p.loop.tail}
          /\ AtMostOne(r.plain, Inner(p))

LEMMA TailMembers ==
    ASSUME NEW q \in Seq(Steps), q # <<>>, NEW I
    PROVE  /\ AtMostOne(q, I) => AtMostOne(Tail(q), I)
           /\ AtMostOne(q, I) /\ Head(q) \in I => NoneOf(Tail(q), I)
           /\ NoneOf(q, I) => NoneOf(Tail(q), I)
           /\ NoneOf(q, I) => Head(q) \notin I
  <1>1. /\ Len(q) \in Nat \ {0} /\ DOMAIN q = 1..Len(q) /\ Head(q) = q[1]
        /\ Tail(q) \in Seq(Steps) /\ Len(Tail(q)) = Len(q) - 1
        /\ DOMAIN Tail(q) = 1..(Len(q) - 1)
        /\ \A i \in 1..(Len(q) - 1) : Tail(q)[i] = q[i + 1]
    BY EmptySeq, LenProperties, HeadTailProperties
  <1>2. \A i \in 1..(Len(q) - 1) : i + 1 \in 1..Len(q) /\ i + 1 # 1
    BY <1>1
  <1>3. 1 \in 1..Len(q)
    BY <1>1
  <1> QED BY <1>1, <1>2, <1>3 DEF AtMostOne, NoneOf

LEMMA ConcatMembers ==
    ASSUME NEW p \in Seq(Steps), NEW q \in Seq(Steps), NEW I
    PROVE  /\ NoneOf(p, I) /\ NoneOf(q, I) => NoneOf(p \o q, I)
           /\ NoneOf(p \o q, I) => NoneOf(p, I) /\ NoneOf(q, I)
           /\ NoneOf(p, I) /\ AtMostOne(q, I) => AtMostOne(p \o q, I)
           /\ AtMostOne(p, I) /\ NoneOf(q, I) => AtMostOne(p \o q, I)
  <1>1. /\ p \o q \in Seq(Steps) /\ Len(p \o q) = Len(p) + Len(q)
        /\ \A i \in 1..(Len(p) + Len(q)) :
              (p \o q)[i] = IF i <= Len(p) THEN p[i] ELSE q[i - Len(p)]
    BY ConcatProperties
  <1>2. /\ Len(p) \in Nat /\ DOMAIN p = 1..Len(p) /\ Len(q) \in Nat /\ DOMAIN q = 1..Len(q)
        /\ DOMAIN (p \o q) = 1..(Len(p) + Len(q))
    BY <1>1, LenProperties
  <1>3. \A i \in 1..(Len(p) + Len(q)) : IF i <= Len(p) THEN i \in 1..Len(p)
                                        ELSE i - Len(p) \in 1..Len(q)
    BY <1>2
  <1>4. \A i \in 1..Len(p) : i \in 1..(Len(p) + Len(q)) /\ i <= Len(p)
    BY <1>2
  <1>5. \A i \in 1..Len(q) : /\ i + Len(p) \in 1..(Len(p) + Len(q)) /\ ~(i + Len(p) <= Len(p))
                             /\ (i + Len(p)) - Len(p) = i
    BY <1>2
  <1>6. NoneOf(p, I) /\ NoneOf(q, I) => NoneOf(p \o q, I)
    BY <1>1, <1>2, <1>3 DEF NoneOf
  <1>7. NoneOf(p \o q, I) => NoneOf(p, I) /\ NoneOf(q, I)
    <2> SUFFICES ASSUME NoneOf(p \o q, I) PROVE NoneOf(p, I) /\ NoneOf(q, I)
      OBVIOUS
    <2>1. \A i \in 1..Len(p) : (p \o q)[i] = p[i] /\ (p \o q)[i] \notin I
      BY <1>1, <1>2, <1>4 DEF NoneOf
    <2>2. \A i \in 1..Len(q) : (p \o q)[i + Len(p)] = q[i] /\ (p \o q)[i + Len(p)] \notin I
      BY <1>1, <1>2, <1>5 DEF NoneOf
    <2> QED BY <1>2, <2>1, <2>2 DEF NoneOf
  <1>8. NoneOf(p, I) /\ AtMostOne(q, I) => AtMostOne(p \o q, I)
    <2> SUFFICES ASSUME NoneOf(p, I), AtMostOne(q, I),
                        NEW i \in 1..(Len(p) + Len(q)), NEW k \in 1..(Len(p) + Len(q)),
                        (p \o q)[i] \in I, (p \o q)[k] \in I
                 PROVE  i = k
      BY <1>2 DEF AtMostOne
    <2>1. ~(i <= Len(p)) /\ ~(k <= Len(p))
      BY <1>1, <1>2, <1>3 DEF NoneOf
    <2>2. i - Len(p) = k - Len(p)
      BY <1>1, <1>2, <1>3, <2>1 DEF AtMostOne
    <2> QED BY <1>2, <2>2
  <1>9. AtMostOne(p, I) /\ NoneOf(q, I) => AtMostOne(p \o q, I)
    <2> SUFFICES ASSUME AtMostOne(p, I), NoneOf(q, I),
                        NEW i \in 1..(Len(p) + Len(q)), NEW k \in 1..(Len(p) + Len(q)),
                        (p \o q)[i] \in I, (p \o q)[k] \in I
                 PROVE  i = k
      BY <1>2 DEF AtMostOne
    <2>1. i <= Len(p) /\ k <= Len(p)
      BY <1>1, <1>2, <1>3 DEF NoneOf
    <2> QED BY <1>1, <1>2, <1>3, <2>1 DEF AtMostOne
  <1> QED BY <1>6, <1>7, <1>8, <1>9

LEMMA AppendMembers ==
    ASSUME NEW q \in Seq(Steps), NEW s \in Steps, NEW I, s \notin I, NoneOf(q, I)
    PROVE  NoneOf(Append(q, s), I) /\ AtMostOne(Append(q, s), I)
  <1>1. /\ Len(q) \in Nat /\ DOMAIN q = 1..Len(q)
        /\ DOMAIN Append(q, s) = 1..(Len(q) + 1) /\ Append(q, s)[Len(q) + 1] = s
        /\ \A i \in 1..Len(q) : Append(q, s)[i] = q[i]
    BY AppendProperties, LenProperties
  <1>2. \A i \in 1..(Len(q) + 1) : i \in 1..Len(q) \/ i = Len(q) + 1
    BY <1>1
  <1>3. NoneOf(Append(q, s), I)
    BY <1>1, <1>2 DEF NoneOf
  <1> QED BY <1>3 DEF NoneOf, AtMostOne

-----------------------------------------------------------------------------

\* A body step is in the trace only behind the entry of its pass.
OpenedByEntry(w) ==
    \A i \in DOMAIN w.trace :
        InBody(w.trace[i].step) =>
            \E k \in 1..i : w.trace[k] = [step |-> pkg.loop.entry, pass |-> w.trace[i].pass]

EntryRan(w) ==
    \E k \in DOMAIN w.trace : w.trace[k] = [step |-> pkg.loop.entry, pass |-> w.iteration]

\* At most one inner step is queued, and that behind the entry of the current pass.
PassInv(w) ==
    /\ OpenedByEntry(w)
    /\ AtMostOne(w.queue, Inner(pkg))
    /\ ~NoneOf(w.queue, Inner(pkg)) => EntryRan(w)

PassesInv == ChainBody(pkg) => \A w \in LiveWalks : PassInv(w)

LEMMA InnerFacts ==
    ASSUME TypeInv
    PROVE  /\ Inner(pkg) \cap JoinsOf(pkg) = {}
           /\ pkg.loop.entry \notin Inner(pkg)
           /\ \A s : InBody(s) <=> s \in Inner(pkg) \/ (Looping /\ s = pkg.loop.entry)
           /\ Inner(pkg) # {} => Looping
  <1>1. ~Looping => pkg.loop.body = {}
    BY PackagesComposed DEF TypeInv, Looping
  <1> QED BY <1>1, JoinFacts DEF Inner, InBody

\* The head has run: an inner head had the entry of the pass before it, the entry
\* found no inner step in the queue.
LEMMA PassRan ==
    ASSUME TypeInv, OnceInv, PassInv(walk), NEW u \in Walk, HeadRan(u)
    PROVE  /\ PassInv(u)
           /\ Looping /\ Head(walk.queue) \in pkg.loop.body =>
                 NoneOf(u.queue, Inner(pkg)) /\ EntryRan(u)
  <1> DEFINE s == Head(walk.queue)
             e == [step |-> s, pass |-> walk.iteration]
             n == Len(walk.trace)
  <1>1. /\ Typed(walk) /\ walk \in LiveWalks /\ s \in Steps /\ s \notin walk.visited
        /\ walk.queue # <<>> /\ TraceInv(walk)
    BY WalkIsLive, HeadFacts DEF HeadRan, OnceInv, ExecutesUnvisited, TypeInv
  <1>2. /\ walk.iteration \in Nat /\ walk.queue \in Seq(Steps)
        /\ walk.trace \in Seq([step : Steps, pass : Nat]) /\ n \in Nat
        /\ DOMAIN walk.trace = 1..n
    BY <1>1, LenProperties DEF Typed, Walk
  <1>3. e \in [step : Steps, pass : Nat]
    BY <1>1, <1>2
  <1>4. /\ u.trace = Append(walk.trace, e) /\ u.iteration = walk.iteration
        /\ u.queue = Tail(walk.queue)
    BY DEF HeadRan
  <1>5. e.step = s /\ e.pass = walk.iteration
    OBVIOUS
  <1> HIDE DEF e, s
  <1>6. /\ DOMAIN u.trace = 1..(n + 1) /\ u.trace[n + 1] = e
        /\ \A i \in 1..n : u.trace[i] = walk.trace[i]
        /\ \A i \in 1..(n + 1) : i \in 1..n \/ i = n + 1
        /\ n + 1 \in 1..(n + 1) /\ \A i \in 1..n : i \in 1..(n + 1)
    BY <1>2, <1>3, <1>4, AppendProperties, LenProperties
  <1>7. e = [step |-> s, pass |-> walk.iteration]
    BY DEF e
  <1>8. s \in Inner(pkg) => NoneOf(u.queue, Inner(pkg)) /\ EntryRan(walk)
    BY <1>1, <1>2, <1>4, TailMembers DEF PassInv, s
  <1>9. EntryRan(walk) => EntryRan(u)
    BY <1>2, <1>4, <1>6 DEF EntryRan
  <1>10. EntryRan(walk) => pkg.loop.entry \in walk.visited
    BY <1>1 DEF EntryRan, TraceInv
  <1>11. s = pkg.loop.entry => NoneOf(u.queue, Inner(pkg)) /\ EntryRan(u)
    <2> SUFFICES ASSUME s = pkg.loop.entry
                 PROVE  NoneOf(u.queue, Inner(pkg)) /\ EntryRan(u)
      OBVIOUS
    <2>1. NoneOf(walk.queue, Inner(pkg))
      BY <1>1, <1>10 DEF PassInv
    <2>2. NoneOf(u.queue, Inner(pkg))
      BY <1>1, <1>2, <1>4, <2>1, TailMembers
    <2> QED BY <1>4, <1>6, <1>7, <2>2 DEF EntryRan
  <1>12. AtMostOne(u.queue, Inner(pkg))
    BY <1>1, <1>2, <1>4, TailMembers DEF PassInv
  <1>13. ~NoneOf(u.queue, Inner(pkg)) => EntryRan(u)
    BY <1>1, <1>2, <1>4, <1>9, TailMembers DEF PassInv
  <1>14. OpenedByEntry(u)
    <2> SUFFICES ASSUME NEW i \in DOMAIN u.trace, InBody(u.trace[i].step)
                 PROVE  \E k \in 1..i :
                           u.trace[k] = [step |-> pkg.loop.entry, pass |-> u.trace[i].pass]
      BY DEF OpenedByEntry
    <2>1. CASE i \in 1..n
      <3>1. \A k \in 1..i : k \in 1..n
        BY <1>2, <2>1
      <3>2. PICK k \in 1..i :
              walk.trace[k] = [step |-> pkg.loop.entry, pass |-> walk.trace[i].pass]
        BY <1>2, <1>6, <2>1 DEF PassInv, OpenedByEntry
      <3> QED BY <1>6, <2>1, <3>1, <3>2
    <2>2. CASE i = n + 1
      <3>1. u.trace[i].step = s /\ u.trace[i].pass = walk.iteration
        BY <1>5, <1>6, <2>2
      <3>2. CASE s = pkg.loop.entry
        BY <1>6, <1>7, <2>2, <3>1, <3>2
      <3>3. CASE s # pkg.loop.entry
        <4>1. EntryRan(walk)
          BY <1>8, <3>1, <3>3, InnerFacts
        <4> QED BY <1>2, <1>6, <2>2, <3>1, <4>1 DEF EntryRan
      <3> QED BY <3>2, <3>3
    <2> QED BY <1>6, <2>1, <2>2
  <1>15. Looping /\ s \in pkg.loop.body => NoneOf(u.queue, Inner(pkg)) /\ EntryRan(u)
    BY <1>8, <1>9, <1>11 DEF Inner
  <1> QED BY <1>12, <1>13, <1>14, <1>15 DEF PassInv, s

\* A walk with the routing of another, but for its queue, has its passes too.
LEMMA PassQueue ==
    ASSUME NEW v, NEW w, v.trace = w.trace, v.iteration = w.iteration, OpenedByEntry(w),
           AtMostOne(v.queue, Inner(pkg)),
           ~NoneOf(v.queue, Inner(pkg)) => EntryRan(w)
    PROVE  PassInv(v)
  BY DEF PassInv, OpenedByEntry, EntryRan

LEMMA PassRouted ==
    ASSUME TypeInv, OnceInv, JoinInv, ChainBody(pkg), PassesInv, NEW v, Routed(v)
    PROVE  PassInv(v)
  <1> DEFINE x == Head(walk.queue)
             y == IF phase = "exec" THEN x ELSE pkg.loop.tail
             I == Inner(pkg)
  <1>1. PICK u \in Walk, r \in Routes :
            (HeadRan(u) \/ HeadPassed(u)) /\ v \in EnqueueFrom(u, r) /\ r \in pkg.routes[y]
    BY RoutedFacts
  <1>2. phase # "idle" /\ walk.queue # <<>>
    BY <1>1 DEF HeadRan, HeadPassed, TypeInv
  <1>3. walk \in LiveWalks /\ Typed(walk) /\ x \in Steps
    BY <1>2, WalkIsLive, HeadFacts
  <1>4. PassInv(walk)
    BY <1>3 DEF PassesInv
  <1>5. PICK js \in SetToSeqs(ReadyJoins(u, r)) :
            js \in Seq(Steps) /\ v.queue = js \o (u.queue \o r.plain)
    BY <1>1, EnqueueRoute
  <1>6. /\ u.queue \in Seq(Steps) /\ r.plain \in Seq(Steps)
        /\ u.queue \o r.plain \in Seq(Steps)
    BY ConcatProperties DEF Walk, Routes
  <1>7. v.iteration = u.iteration /\ v.trace = u.trace
    BY <1>1, EnqueueRoute
  <1>8. y \in Steps
    BY <1>3, PackageFacts DEF TypeInv
  <1>9. NoneOf(js, I)
    <2>1. ReadyJoins(u, r) \subseteq Steps
      BY DEF ReadyJoins, Walk, Routes
    <2>2. ToSet(js) \subseteq ReadyJoins(u, r)
      BY <2>1, OrderingsHold
    <2>3. walk.arrivals \subseteq JoinsOf(pkg) => ReadyJoins(u, r) \subseteq JoinsOf(pkg)
      BY <1>1, <1>8, RouteTargets DEF ReadyJoins, HeadRan, HeadPassed
    <2>4. ToSet(js) \subseteq JoinsOf(pkg)
      BY <1>3, <2>2, <2>3 DEF JoinInv, BarrierInv
    <2>5. \A i \in DOMAIN js : js[i] \in JoinsOf(pkg)
      BY <2>4 DEF ToSet
    <2> QED BY <2>5, InnerFacts DEF NoneOf
  <1> HIDE DEF y, I
  <1>10. AtMostOne(r.plain, I) /\ (NoneOf(r.plain, I) \/ y \in pkg.loop.body \ {pkg.loop.tail})
    BY <1>1, <1>8 DEF ChainBody, I
  <1>11. /\ PassInv(u)
         /\ NoneOf(r.plain, I) \/ (NoneOf(u.queue, I) /\ EntryRan(u))
    <2>1. CASE HeadRan(u)
      <3>1. y = x
        BY <2>1 DEF HeadRan, y
      <3>2. pkg.loop.body # {} => Looping
        BY PackagesComposed DEF TypeInv, Looping
      <3> QED BY <1>4, <1>10, <2>1, <3>1, <3>2, PassRan DEF I
    <2>2. CASE HeadPassed(u)
      <3>1. y = pkg.loop.tail
        BY <2>2 DEF HeadPassed, y
      <3>2. u.queue = Tail(walk.queue) /\ u.trace = walk.trace /\ u.iteration = walk.iteration
        BY <2>2 DEF HeadPassed
      <3>3. walk.queue \in Seq(Steps)
        BY <1>3 DEF Typed, Walk
      <3>4. PassInv(u)
        BY <1>2, <1>4, <3>2, <3>3, TailMembers, PassQueue DEF PassInv
      <3> QED BY <1>10, <3>1, <3>4
    <2> QED BY <1>1, <2>1, <2>2
  <1>12. AtMostOne(u.queue \o r.plain, I)
    BY <1>6, <1>10, <1>11, ConcatMembers DEF PassInv, I
  <1>13. AtMostOne(v.queue, I)
    BY <1>5, <1>6, <1>9, <1>12, ConcatMembers
  <1>14. ~NoneOf(v.queue, I) => EntryRan(u)
    <2>1. NoneOf(u.queue, I) /\ NoneOf(r.plain, I) => NoneOf(u.queue \o r.plain, I)
      BY <1>6, ConcatMembers
    <2>2. \A c \in Seq(Steps) : NoneOf(c, I) => NoneOf(js \o c, I)
      BY <1>5, <1>9, ConcatMembers
    <2>3. NoneOf(u.queue \o r.plain, I) => NoneOf(v.queue, I)
      BY <1>5, <1>6, <2>2
    <2> QED BY <1>11, <2>1, <2>3 DEF PassInv, I
  <1> QED BY <1>7, <1>11, <1>13, <1>14, PassQueue DEF PassInv, I

\* A pass begins with no inner step in the queue.
LEMMA PassReopened ==
    ASSUME TypeInv, OnceInv, PassesInv, ChainBody(pkg), NEW v, Reopened(v)
    PROVE  PassInv(v) /\ NoneOf(v.queue, Inner(pkg)) /\ v.queue \in Seq(Steps)
  <1>1. PICK u \in Walk :
          /\ HeadRan(u) /\ Looping /\ Head(walk.queue) = pkg.loop.tail
          /\ v.queue = Append(u.queue, pkg.loop.entry) /\ v.trace = u.trace
    BY DEF Reopened
  <1>2. PassInv(walk)
    BY <1>1, WalkIsLive DEF HeadRan, PassesInv
  <1>3. pkg.loop.tail \in pkg.loop.body
    BY <1>1, PackagesComposed DEF TypeInv, Looping
  <1>4. PassInv(u) /\ NoneOf(u.queue, Inner(pkg))
    BY <1>1, <1>2, <1>3, PassRan
  <1>5. u.queue \in Seq(Steps) /\ pkg.loop.entry \in Steps
    BY PackageFacts DEF Walk, TypeInv
  <1>6. NoneOf(v.queue, Inner(pkg)) /\ AtMostOne(v.queue, Inner(pkg))
    BY <1>1, <1>4, <1>5, InnerFacts, AppendMembers
  <1>7. OpenedByEntry(v)
    BY <1>1, <1>4 DEF PassInv, OpenedByEntry
  <1>8. v.queue \in Seq(Steps)
    BY <1>1, <1>5, AppendProperties
  <1> QED BY <1>6, <1>7, <1>8 DEF PassInv

LEMMA PassShaped ==
    ASSUME TypeInv, OnceInv, JoinInv, ChainBody(pkg), PassesInv, NEW v, Shaped(v)
    PROVE  PassInv(v)
  <1>1. CASE Begun(v)
    <2>1. v.queue = <<pkg.first>> /\ v.trace = <<>> /\ pkg.first \notin Inner(pkg)
      BY <1>1 DEF Begun, ChainBody
    <2> QED BY <2>1 DEF PassInv, OpenedByEntry, NoneOf, AtMostOne
  <1>2. CASE Kept(v)
    BY <1>2, PassQueue DEF Kept, SameRoute, PassesInv, PassInv
  <1>3. CASE Dropped(v)
    <2>1. PassInv(walk) /\ Typed(walk)
      BY <1>3, WalkIsLive DEF Dropped, PassesInv
    <2>2. walk.queue \in Seq(Steps) /\ walk.queue # <<>> /\ v.queue = Tail(walk.queue)
      BY <1>3, <2>1 DEF Dropped, Typed, Walk
    <2> QED BY <1>3, <2>1, <2>2, TailMembers, PassQueue DEF Dropped, PassInv
  <1>4. CASE Routed(v)
    BY <1>4, PassRouted
  <1>5. CASE Reopened(v)
    BY <1>5, PassReopened
  <1> QED BY <1>1, <1>2, <1>3, <1>4, <1>5 DEF Shaped

LEMMA StepPasses ==
    TypeInv /\ OnceInv /\ JoinInv /\ PassesInv /\ [Next]_vars => PassesInv'
  <1> SUFFICES ASSUME TypeInv, OnceInv, JoinInv, PassesInv, [Next]_vars, ChainBody(pkg)',
                      NEW v \in LiveWalks'
               PROVE  PassInv(v)'
    BY DEF PassesInv
  <1>1. Shaped(v) /\ pkg' = pkg
    BY StepsShaped
  <1>2. ChainBody(pkg)
    BY <1>1
  <1>3. PassInv(v)
    BY <1>1, <1>2, PassShaped
  <1> QED BY <1>1, <1>3 DEF PassInv, OpenedByEntry, EntryRan, InBody, Looping

\* However a looping package queues what lies around its body, and wherever its runs
\* park, crash or are resumed: if its body is a chain behind its entry, no pass runs
\* a body step before the entry.
THEOREM PassesOpenAtEntry == Spec => [](ChainBody(pkg) => PassOpensAtEntry)
  <1>1. Init => TypeInv /\ OnceInv /\ JoinInv /\ PassesInv
    BY InitType DEF Init, OnceInv, ExecutesUnvisited, JoinInv, PassesInv, LiveWalks
  <1>2. TypeInv /\ OnceInv /\ JoinInv /\ PassesInv /\ [Next]_vars =>
            (TypeInv /\ OnceInv /\ JoinInv /\ PassesInv)'
    BY StepType, StepOnceInv, StepJoinInv, StepPasses
  <1>3. TypeInv /\ PassesInv => (ChainBody(pkg) => PassOpensAtEntry)
    <2> SUFFICES ASSUME TypeInv, PassesInv, ChainBody(pkg),
                        NEW w \in LiveWalks, NEW i \in DOMAIN w.trace,
                        InBody(w.trace[i].step)
                 PROVE  \E k \in 1..i :
                            w.trace[k] = [w.trace[i] EXCEPT !.step = pkg.loop.entry]
      BY DEF PassOpensAtEntry
    <2>1. PICK k \in 1..i :
              w.trace[k] = [step |-> pkg.loop.entry, pass |-> w.trace[i].pass]
      BY DEF PassesInv, PassInv, OpenedByEntry
    <2>2. w.trace[i] \in [step : Steps, pass : Nat]
      <3>1. w.trace \in Seq([step : Steps, pass : Nat])
        BY LiveTyped DEF Typed, Walk
      <3> QED BY <3>1, LenProperties, ElementOfSeq
    <2>3. [w.trace[i] EXCEPT !.step = pkg.loop.entry] =
              [step |-> pkg.loop.entry, pass |-> w.trace[i].pass]
      BY <2>2
    <2> QED BY <2>1, <2>3
  <1> QED BY <1>1, <1>2, <1>3, PTL DEF Spec

-----------------------------------------------------------------------------
(* Waits                                                                   *)

\* The code takes any wait it resumes from for the one of the step at the head.  A
\* pause between passes is one too: what comes first after it must be no wait STEP.
Paced(p) == p.loop.delay => /\ ChainBody(p)
                            /\ \A s \in Steps \ Inner(p) : p.kind[s] # "wait"

\* A walk that goes on from a wait, with a wait STEP at its head, waited for it.
Waited(w) ==
    w.queue # <<>> /\ w.wait.kind # "none" /\ pkg.kind[Head(w.queue)] = "wait" =>
        Head(w.queue) \in w.waited

WaitInv == Paced(pkg) => WaitsServed /\ \A w \in LiveWalks : Waited(w)

LEMMA WaitedFrom ==
    ASSUME WaitInv, pkg' = pkg, phase' # "exec",
           walk' = None \/ walk' = walk \/ (Paced(pkg) => Waited(walk')),
           saved' = None \/ saved' = saved \/ (Paced(pkg) => Waited(saved'))
    PROVE  WaitInv'
  <1> SUFFICES ASSUME Paced(pkg), NEW w \in LiveWalks' PROVE Waited(w)'
    BY DEF WaitInv, WaitsServed
  <1>1. Waited(w)
    BY DEF WaitInv, LiveWalks
  <1> QED BY <1>1 DEF Waited

LEMMA WaitedStarting ==
    ASSUME TypeInv, WaitInv, StartFresh \/ Resume \/ WaitDue \/ Crash
    PROVE  WaitInv'
  <1>1. CASE StartFresh
    <2>1. walk'.wait.kind = "none"
      BY <1>1 DEF StartFresh, FreshWalk, NoWait
    <2> QED BY <1>1, <2>1, WaitedFrom DEF StartFresh, Waited
  <1>2. CASE Resume
    <2>1. Typed(saved) /\ saved \in LiveWalks
      BY <1>2, SavedTyped DEF Resume, LiveWalks
    <2>2. /\ walk'.queue = saved.queue /\ walk'.wait = saved.wait
          /\ walk'.waited = saved.waited
      BY <1>2, <2>1 DEF Resume, Typed, Walk
    <2>3. Paced(pkg) => Waited(walk')
      BY <2>1, <2>2 DEF WaitInv, Waited
    <2> QED BY <1>2, <2>3, WaitedFrom DEF Resume
  <1>3. CASE WaitDue
    <2>1. Typed(saved) /\ saved \in LiveWalks
      BY <1>3, SavedTyped DEF WaitDue, LiveWalks
    <2>2. /\ saved'.queue = saved.queue /\ saved'.waited = saved.waited
          /\ saved'.wait.kind = saved.wait.kind
      BY <1>3, <2>1 DEF WaitDue, Typed, Walk, Wait
    <2>3. Paced(pkg) => Waited(saved')
      BY <2>1, <2>2 DEF WaitInv, Waited
    <2>4. UNCHANGED <<pkg, walk, phase>>
      BY <1>3 DEF WaitDue
    <2> QED BY <2>3, <2>4 DEF WaitInv, WaitsServed, LiveWalks, Waited
  <1>4. CASE Crash
    BY <1>4, WaitedFrom DEF Crash, Return
  <1> QED BY <1>1, <1>2, <1>3, <1>4

\* A run that ends leaves no walk but the saved one.
LEMMA WaitedEnds ==
    ASSUME TypeInv, WaitInv,
           \/ Finish
           \/ \E s \in Steps : \/ RejectPolicy(s) \/ StepRaises(s)
                               \/ OperationFails(s) \/ LoopLimit(s)
    PROVE  WaitInv'
  <1>1. pkg' = pkg /\ walk' = None /\ phase' = "idle" /\ (saved' = None \/ saved' = saved)
    BY DEF Finish, RejectPolicy, StepRaises, OperationFails, LoopLimit, FinishRun, Return
  <1> QED BY <1>1, WaitedFrom

LEMMA WaitedHead ==
    ASSUME TypeInv, WaitInv, NEW s \in Steps,
           DropVisited(s) \/ SkipLoop(s) \/ AskOperator(s) \/ ParkWait(s)
    PROVE  WaitInv'
  <1>1. Typed(walk) /\ AtHead(s)
    BY Walking DEF DropVisited, SkipLoop, AskOperator, ParkWait, Taken, AtHead
  <1>2. CASE DropVisited(s)
    <2>1. walk'.wait.kind = "none"
      BY <1>1, <1>2 DEF DropVisited, Typed, Walk, NoWait
    <2> QED BY <1>1, <1>2, <2>1, WaitedFrom DEF DropVisited, row, Waited, AtHead
  <1>3. CASE SkipLoop(s)
    <2> DEFINE u == [walk EXCEPT !.queue = Tail(@), !.entered = TRUE, !.wait = NoWait]
    <2>1. Tail(walk.queue) \in Seq(Steps) /\ NoWait \in Wait
      BY <1>1, HeadFacts DEF AtHead, NoWait, Wait, Parks
    <2>2. u \in Walk /\ u.wait = NoWait
      BY <1>1, <2>1 DEF Typed, Walk
    <2>3. PICK r \in pkg.routes[pkg.loop.tail] : walk' \in EnqueueFrom(u, r)
      BY <1>3 DEF SkipLoop
    <2>4. r \in Routes
      BY <2>3, PackageFacts DEF TypeInv
    <2> HIDE DEF u
    <2>5. walk'.wait.kind = "none"
      BY <2>2, <2>3, <2>4, EnqueueCalls DEF SameCalls, NoWait
    <2> QED BY <1>1, <1>3, <2>5, WaitedFrom DEF SkipLoop, row, Waited, AtHead
  <1>4. CASE AskOperator(s)
    <2>1. saved'.wait.kind = "none"
      BY <1>4, OpenedCalls DEF AskOperator, Leave, NoWait
    <2> QED BY <1>4, <2>1, WaitedFrom DEF AskOperator, Leave, Return, Waited
  <1>5. CASE ParkWait(s)
    <2>1. Opened(s) \in Walk /\ Opened(s).queue = walk.queue
      BY <1>5, OpenedTyped DEF ParkWait, Typed
    <2>2. saved'.queue = walk.queue /\ s \in saved'.waited
      BY <1>5, <2>1 DEF ParkWait, Leave, Walk
    <2>3. Waited(saved')
      BY <1>1, <2>2 DEF Waited, AtHead
    <2> QED BY <1>5, <2>3, WaitedFrom DEF ParkWait, Leave, Return
  <1> QED BY <1>2, <1>3, <1>4, <1>5

\* The one step after which a wait STEP executes: its wait is over now, or was before.
LEMMA WaitedCall ==
    ASSUME TypeInv, WaitInv, NEW s \in Steps, Call(s)
    PROVE  WaitInv'
  <1> SUFFICES ASSUME Paced(pkg)
               PROVE  WaitsServed' /\ \A w \in LiveWalks' : Waited(w)'
    BY DEF WaitInv, Call
  <1>1. /\ walk'.queue = walk.queue /\ walk'.wait.kind = "none"
        /\ walk'.waited = IF MustPark(s) THEN walk.waited \cup {s} ELSE walk.waited
        /\ saved' = saved \/ saved'.wait.kind = "none"
        /\ Taken(s) /\ pkg' = pkg
    <2>1. NoWait.kind = "none" /\ pkg' = pkg
      BY DEF NoWait, Call
    <2>2. /\ Taken(s) /\ walk'.queue = walk.queue /\ walk'.wait = NoWait
          /\ walk'.waited = IF MustPark(s) THEN walk.waited \cup {s} ELSE walk.waited
          /\ saved' = saved \/ saved'.wait = NoWait
      BY CallCalls DEF SameRoute
    <2> QED BY <2>1, <2>2
  <1>2. s = Head(walk.queue) /\ walk.queue # <<>> /\ walk \in LiveWalks
    BY <1>1, WalkIsLive DEF Taken, AtHead
  <1>3. pkg.kind[s] = "wait" => s \in walk'.waited
    BY <1>1, <1>2 DEF WaitInv, Waited, MustPark, CompletePendingWait
  <1>4. WaitsServed'
    BY <1>1, <1>2, <1>3 DEF WaitsServed
  <1>5. ASSUME NEW w \in LiveWalks' PROVE Waited(w)
    BY <1>1 DEF LiveWalks, Waited, WaitInv
  <1> QED BY <1>1, <1>4, <1>5 DEF Waited

LEMMA WaitedOutcome ==
    ASSUME TypeInv, BudgetInv, OnceInv, PassesInv, WaitInv, NEW s \in Steps,
           RetryNow(s) \/ RetryLater(s) \/ StepDone(s) \/ NextPass(s) \/ NextPassLater(s)
    PROVE  WaitInv'
  <1>1. Executing(s) /\ pkg' = pkg
    BY DEF RetryNow, RetryLater, StepDone, NextPass, NextPassLater, Continues
  <1>2. /\ Typed(walk) /\ walk.wait.kind = "none" /\ s = Head(walk.queue)
        /\ \A items \in 0..Unlatched : /\ Ran(s, items) \in Walk
                                       /\ Ran(s, items).wait.kind = "none"
    BY <1>1, ExecBudget, RanBudget
  <1>3. CASE RetryNow(s)
    BY <1>3, WaitedFrom DEF RetryNow, row
  <1>4. CASE RetryLater(s)
    <2>1. saved'.queue = walk.queue /\ pkg.kind[s] # "wait"
      BY <1>2, <1>4 DEF RetryLater, Leave, Typed, Walk
    <2> QED BY <1>1, <1>2, <1>4, <2>1, WaitedFrom DEF RetryLater, Leave, Return, Waited
  <1>5. CASE StepDone(s)
    <2>1. PICK r \in pkg.routes[s], items \in ItemsAfter(walk, s) :
              walk' \in EnqueueFrom(Ran(s, items), r)
      BY <1>5 DEF StepDone
    <2>2. items \in 0..Unlatched /\ r \in Routes
      BY <1>2, <2>1, ItemsLatched, PackageFacts DEF TypeInv
    <2>3. walk'.wait.kind = "none"
      BY <1>2, <2>1, <2>2, EnqueueCalls DEF SameCalls
    <2> QED BY <1>5, <2>3, WaitedFrom DEF StepDone, row, Waited
  <1>6. CASE NextPass(s)
    <2>1. PICK items \in 0..Unlatched : walk' = NextWalk(s, items)
      BY <1>6 DEF NextPass, NextWalk
    <2>2. walk'.wait.kind = "none"
      BY <1>1, <1>2, <2>1, NextWalkCalls DEF SameCalls
    <2> QED BY <1>6, <2>2, WaitedFrom DEF NextPass, row, Waited
  <1>7. CASE NextPassLater(s)
    <2>1. Reopened(saved') /\ pkg.loop.delay
      BY <1>7, NextPassLaterReopened DEF NextPassLater
    <2>2. ASSUME Paced(pkg) PROVE Waited(saved')
      <3>1. NoneOf(saved'.queue, Inner(pkg)) /\ saved'.queue \in Seq(Steps)
        BY <2>1, <2>2, PassReopened DEF Paced
      <3>2. saved'.queue # <<>> => Head(saved'.queue) \in Steps \ Inner(pkg)
        BY <3>1, TailMembers, HeadTailProperties
      <3> QED BY <2>1, <2>2, <3>2 DEF Waited, Paced
    <2> QED BY <1>1, <1>7, <2>2, WaitedFrom DEF NextPassLater, Leave, Return
  <1> QED BY <1>3, <1>4, <1>5, <1>6, <1>7

LEMMA StepWaits ==
    TypeInv /\ BudgetInv /\ OnceInv /\ PassesInv /\ WaitInv /\ [Next]_vars => WaitInv'
  <1> SUFFICES ASSUME TypeInv, BudgetInv, OnceInv, PassesInv, WaitInv, [Next]_vars
               PROVE  WaitInv'
    OBVIOUS
  <1>1. CASE UNCHANGED vars
    BY <1>1 DEF vars, WaitInv, WaitsServed, LiveWalks, Waited
  <1>2. CASE RunnerStep
    <2>1. ASSUME NEW s \in Steps,
                 DropVisited(s) \/ SkipLoop(s) \/ AskOperator(s) \/ ParkWait(s) \/ Call(s)
          PROVE  WaitInv'
      BY <2>1, WaitedHead, WaitedCall
    <2>2. ASSUME NEW s \in Steps,
                 RetryNow(s) \/ RetryLater(s) \/ StepDone(s) \/ NextPass(s) \/ NextPassLater(s)
          PROVE  WaitInv'
      BY <2>2, WaitedOutcome
    <2> QED BY <1>2, <2>1, <2>2, WaitedEnds DEF RunnerStep
  <1> QED BY <1>1, <1>2, WaitedStarting DEF Next

\* No park but its own lets a wait STEP through, whoever resumes the run and when: in
\* every package without a pause between passes, and in those with one whose wait
\* STEPs all lie inside a chain body, behind its entry.
THEOREM WaitsAreServed == Spec => [](Paced(pkg) => WaitsServed)
  <1> DEFINE I == /\ TypeInv /\ BudgetInv /\ OnceInv /\ JoinInv /\ PassesInv /\ WaitInv
  <1>1. Init => I
    <2>1. Init => TypeInv
      BY InitType
    <2>2. Init /\ TypeInv => BudgetInv /\ OnceInv /\ JoinInv /\ PassesInv /\ WaitInv
      BY BudgetFacts
      DEF Init, BudgetInv, OnceInv, ExecutesUnvisited, JoinInv, PassesInv, WaitInv,
          WaitsServed, LiveWalks
    <2> QED BY <2>1, <2>2
  <1>2. I /\ [Next]_vars => I'
    BY StepType, StepBudget, StepOnceInv, StepJoinInv, StepPasses, StepWaits
  <1>3. I => (Paced(pkg) => WaitsServed)
    BY DEF WaitInv
  <1> QED BY <1>1, <1>2, <1>3, PTL DEF Spec

-----------------------------------------------------------------------------
(* No join is lost                                                         *)

\* The steps that lead to a join.
Arms(p) == {t \in Steps \ JoinsOf(p) : \E j \in JoinsOf(p) : CanReach(p, t, j)}

\* What PlainArms does not ask and the barrier needs too: no loop leads to a join, the
\* first step, if it does, is not entered again, and no step offers an arm twice.
Straight(p) ==
    /\ p.loop.body \cap Arms(p) = {}
    /\ p.first \in Arms(p) => \A s \in Steps : p.first \notin p.next[s]
    /\ \A s \in Steps : \A r \in p.routes[s] : \A t \in Arms(p) : AtMostOne(r.plain, {t})

\* An arm's step is queued once, before it has run, and behind its predecessor; a join
\* that was offered has run, is queued, or a queued arm leads to it.
ArmInv(w) ==
    /\ \A t \in Arms(pkg) :
          /\ AtMostOne(w.queue, {t})
          /\ t \in ToSet(w.queue) => t \notin w.visited
          /\ t \in ToSet(w.queue) \cup w.visited =>
                t = pkg.first \/ \E s \in w.visited : t \in pkg.next[s]
    /\ \A j \in w.arrivals : j \in w.visited \cup ToSet(w.queue) \/ ArmPending(w.queue, j)

ArmsInv == Straight(pkg) /\ PlainArms => \A w \in LiveWalks : ArmInv(w)

LEMMA OnePredecessor ==
    ASSUME PlainArms, NEW t \in Arms(pkg), NEW a \in Steps, NEW b \in Steps,
           t \in pkg.next[a], t \in pkg.next[b]
    PROVE  a = b
  <1> DEFINE P == {s \in Steps : t \in pkg.next[s]}
  <1>1. IsFiniteSet(P) /\ Cardinality(P) \in Nat
    BY StepsFinite, FS_Subset, FS_CardinalityType
  <1>2. Cardinality(P) <= 1
    BY DEF PlainArms, Arms
  <1>3. a \in P /\ b \in P
    OBVIOUS
  <1> HIDE DEF P
  <1> SUFFICES ASSUME a # b PROVE FALSE
    OBVIOUS
  <1>4. /\ IsFiniteSet(P \ {a}) /\ Cardinality(P \ {a}) = Cardinality(P) - 1
    BY <1>1, <1>3, FS_RemoveElement
  <1>5. Cardinality(P \ {a}) = 0
    BY <1>1, <1>2, <1>4, FS_CardinalityType
  <1>6. P \ {a} = {}
    BY <1>4, <1>5, FS_EmptySet
  <1> QED BY <1>3, <1>6

LEMMA ArmFacts ==
    ASSUME TypeInv
    PROVE  /\ Arms(pkg) \subseteq Steps /\ Arms(pkg) \cap JoinsOf(pkg) = {}
           /\ \A s \in Steps, t \in Arms(pkg) :
                 t \in pkg.next[s] => s \in Arms(pkg) \/ s \in JoinsOf(pkg)
           /\ \A s \in Steps \ JoinsOf(pkg), j \in JoinsOf(pkg) :
                 CanReach(pkg, s, j) => s \in Arms(pkg)
  <1>1. \A s \in Steps, t \in Arms(pkg) :
            t \in pkg.next[s] => \E j \in JoinsOf(pkg) : CanReach(pkg, s, j)
    BY ReachNext, ReachTransitive DEF Arms
  <1> QED BY <1>1 DEF Arms

\* Which sets the queue's members form, and how often a step is in it.
LEMMA MemberSets ==
    ASSUME NEW q \in Seq(Steps), NEW t
    PROVE  NoneOf(q, {t}) <=> t \notin ToSet(q)
  BY DEF NoneOf, ToSet

LEMMA AppendKeepsOne ==
    ASSUME NEW q \in Seq(Steps), NEW s \in Steps, NEW I, s \notin I, AtMostOne(q, I)
    PROVE  AtMostOne(Append(q, s), I)
  <1>1. /\ Len(q) \in Nat /\ DOMAIN q = 1..Len(q)
        /\ DOMAIN Append(q, s) = 1..(Len(q) + 1) /\ Append(q, s)[Len(q) + 1] = s
        /\ \A i \in 1..Len(q) : Append(q, s)[i] = q[i]
    BY AppendProperties, LenProperties
  <1>2. \A i \in 1..(Len(q) + 1) : i \in 1..Len(q) \/ i = Len(q) + 1
    BY <1>1
  <1>3. \A i \in 1..(Len(q) + 1) : Append(q, s)[i] \in I => i \in 1..Len(q) /\ q[i] \in I
    BY <1>1, <1>2
  <1> QED BY <1>1, <1>3 DEF AtMostOne

\* The head ran and was not visited: u is the walk before its targets are queued.
LEMMA ArmRan ==
    ASSUME TypeInv, OnceInv, ArmInv(walk), NEW u \in Walk, HeadRan(u) \/ HeadPassed(u)
    PROVE  /\ \A t \in Arms(pkg) :
                 /\ AtMostOne(u.queue, {t})
                 /\ t \in ToSet(u.queue) => t \in ToSet(walk.queue)
                 /\ HeadRan(u) /\ t \in ToSet(u.queue) => t \notin u.visited
                 /\ HeadPassed(u) /\ t \in ToSet(u.queue) => t \notin u.visited
           /\ walk.visited \subseteq u.visited
           /\ u.visited \subseteq walk.visited \cup ToSet(walk.queue)
  <1> DEFINE x == Head(walk.queue)
  <1>1. /\ walk \in LiveWalks /\ Typed(walk) /\ walk.queue # <<>>
        /\ u.queue = Tail(walk.queue)
    BY WalkIsLive DEF HeadRan, HeadPassed, TypeInv
  <1>2. walk.queue \in Seq(Steps) /\ u.queue \in Seq(Steps)
    BY <1>1 DEF Typed, Walk
  <1>3. ToSet(walk.queue) = {x} \cup ToSet(u.queue)
    BY <1>1, <1>2, ToSetHeadTail
  <1>4. /\ HeadRan(u) => u.visited = walk.visited \cup {x}
        /\ HeadPassed(u) => u.visited = walk.visited
    BY DEF HeadRan, HeadPassed
  <1> HIDE DEF x
  <1>5. ASSUME NEW t \in Arms(pkg)
        PROVE  AtMostOne(u.queue, {t}) /\ (t = x => t \notin ToSet(u.queue))
    <2>1. AtMostOne(walk.queue, {t})
      BY DEF ArmInv
    <2>2. /\ AtMostOne(u.queue, {t})
          /\ Head(walk.queue) \in {t} => NoneOf(u.queue, {t})
      BY <1>1, <1>2, <2>1, TailMembers
    <2> QED BY <1>2, <2>2, MemberSets DEF x
  <1>6. \A t \in Arms(pkg) : t \in ToSet(u.queue) => t \notin walk.visited
    BY <1>3 DEF ArmInv
  <1> QED BY <1>3, <1>4, <1>5, <1>6

LEMMA ArmRouted ==
    ASSUME TypeInv, OnceInv, JoinInv, Straight(pkg), PlainArms, ArmsInv, NEW v, Routed(v)
    PROVE  ArmInv(v)
  <1> DEFINE x == Head(walk.queue)
             y == IF phase = "exec" THEN x ELSE pkg.loop.tail
  <1>1. PICK u \in Walk, r \in Routes :
            (HeadRan(u) \/ HeadPassed(u)) /\ v \in EnqueueFrom(u, r) /\ r \in pkg.routes[y]
    BY RoutedFacts
  <1>2. phase # "idle" /\ walk.queue # <<>>
    BY <1>1 DEF HeadRan, HeadPassed, TypeInv
  <1>3. walk \in LiveWalks /\ Typed(walk) /\ x \in Steps /\ walk.queue \in Seq(Steps)
    BY <1>2, WalkIsLive, HeadFacts DEF Typed, Walk
  <1>4. ArmInv(walk)
    BY <1>3 DEF ArmsInv
  <1>5. PICK js \in SetToSeqs(ReadyJoins(u, r)) :
            js \in Seq(Steps) /\ v.queue = js \o (u.queue \o r.plain)
    BY <1>1, EnqueueRoute
  <1>6. /\ u.queue \in Seq(Steps) /\ r.plain \in Seq(Steps)
        /\ u.queue \o r.plain \in Seq(Steps)
    BY ConcatProperties DEF Walk, Routes
  <1>7. v.visited = u.visited /\ v.arrivals = u.arrivals \cup r.joins
    BY <1>1, EnqueueRoute
  <1>8. y \in Steps
    BY <1>3, PackageFacts DEF TypeInv
  <1>9. /\ ToSet(u.queue \o r.plain) = ToSet(u.queue) \cup ToSet(r.plain)
        /\ ToSet(v.queue) = ToSet(js) \cup ToSet(u.queue \o r.plain)
    BY <1>5, <1>6, ToSetConcat
  <1>10. ReadyJoins(u, r) \subseteq Steps
    BY DEF ReadyJoins, Walk, Routes
  <1>11. ToSet(js) = ReadyJoins(u, r)
    BY <1>5, <1>10, OrderingsAreAll
  <1>12. /\ r.joins \subseteq JoinsOf(pkg) /\ walk.arrivals \subseteq JoinsOf(pkg)
         /\ ToSet(r.plain) \subseteq pkg.next[y] \ JoinsOf(pkg)
    BY <1>1, <1>3, <1>8, RouteTargets DEF JoinInv, BarrierInv
  <1>13. u.arrivals = walk.arrivals
    BY <1>1 DEF HeadRan, HeadPassed
  <1>14. ToSet(js) \subseteq JoinsOf(pkg)
    BY <1>11, <1>12, <1>13 DEF ReadyJoins
  \* An arm's step that is offered now was neither queued nor visited before.
  <1>15. ASSUME NEW t \in Arms(pkg), t \in ToSet(r.plain)
         PROVE  /\ HeadRan(u) /\ y = x /\ t \in pkg.next[x]
                /\ t \notin ToSet(walk.queue) \cup walk.visited
    <2>1. t \in pkg.next[y] /\ y \in Arms(pkg) \cup JoinsOf(pkg)
      BY <1>8, <1>12, <1>15, ArmFacts
    <2>2. ~HeadPassed(u)
      <3>1. HeadPassed(u) => Looping /\ y = pkg.loop.tail
        BY DEF HeadPassed, y
      <3>2. Looping => pkg.loop.tail \in pkg.loop.body
        BY PackagesComposed DEF TypeInv, Looping
      <3>3. pkg.loop.body \cap (Arms(pkg) \cup JoinsOf(pkg)) = {}
        BY JoinFacts DEF Straight
      <3> QED BY <2>1, <3>1, <3>2, <3>3
    <2>3. HeadRan(u) /\ y = x
      BY <1>1, <2>2 DEF HeadRan, y
    <2>4. x \notin walk.visited
      BY <2>3 DEF HeadRan, OnceInv, ExecutesUnvisited
    <2>5. t # pkg.first
      BY <1>8, <2>1 DEF Straight
    <2>6. walk.visited \subseteq Steps
      BY <1>3 DEF Typed, Walk
    <2>7. \A s \in walk.visited : t \notin pkg.next[s]
      BY <1>3, <2>1, <2>3, <2>4, <2>6, OnePredecessor
    <2>8. t \notin ToSet(walk.queue) \cup walk.visited
      BY <1>4, <2>5, <2>7 DEF ArmInv
    <2> QED BY <2>1, <2>3, <2>8
  <1> HIDE DEF x, y
  <1>16. ASSUME NEW t \in Arms(pkg)
         PROVE  AtMostOne(v.queue, {t})
    <2>1. t \notin ToSet(js)
      BY <1>14, ArmFacts
    <2>2. NoneOf(js, {t})
      BY <1>5, <2>1, MemberSets
    <2>3. AtMostOne(u.queue, {t}) /\ (t \in ToSet(u.queue) => t \in ToSet(walk.queue))
      BY <1>1, <1>4, ArmRan
    <2>4. AtMostOne(r.plain, {t})
      BY <1>1, <1>8 DEF Straight
    <2>5. NoneOf(u.queue, {t}) \/ NoneOf(r.plain, {t})
      BY <1>6, <1>15, <2>3, MemberSets
    <2>6. AtMostOne(u.queue \o r.plain, {t})
      BY <1>6, <2>3, <2>4, <2>5, ConcatMembers
    <2>7. \A c \in Seq(Steps) : AtMostOne(c, {t}) => AtMostOne(js \o c, {t})
      BY <1>5, <2>2, ConcatMembers
    <2> QED BY <1>5, <1>6, <2>6, <2>7
  <1>17. ToSet(walk.queue) = {x} \cup ToSet(u.queue)
    <2>1. u.queue = Tail(walk.queue)
      BY <1>1 DEF HeadRan, HeadPassed
    <2> QED BY <1>2, <1>3, <2>1, ToSetHeadTail DEF x
  <1>18. ASSUME NEW t \in Arms(pkg), t \in ToSet(v.queue)
         PROVE  t \notin v.visited
    <2>1. t \in ToSet(u.queue) \/ t \in ToSet(r.plain)
      BY <1>9, <1>14, <1>18, ArmFacts
    <2>2. CASE t \in ToSet(u.queue)
      BY <1>1, <1>4, <1>7, <2>2, ArmRan
    <2>3. CASE t \in ToSet(r.plain)
      BY <1>1, <1>4, <1>7, <1>15, <2>3, ArmRan
    <2> QED BY <2>1, <2>2, <2>3
  <1>19. ASSUME NEW t \in Arms(pkg), t \in ToSet(v.queue) \cup v.visited
         PROVE  t = pkg.first \/ \E s \in v.visited : t \in pkg.next[s]
    <2>1. walk.visited \subseteq u.visited
          /\ u.visited \subseteq walk.visited \cup ToSet(walk.queue)
      BY <1>1, <1>4, ArmRan
    <2>2. t \in ToSet(walk.queue) \cup walk.visited \/ t \in ToSet(r.plain)
      BY <1>7, <1>9, <1>14, <1>17, <1>19, <2>1, ArmFacts
    <2>3. CASE t \in ToSet(walk.queue) \cup walk.visited
      BY <1>4, <1>7, <2>1, <2>3 DEF ArmInv
    <2>4. CASE t \in ToSet(r.plain)
      <3>1. HeadRan(u) /\ t \in pkg.next[x]
        BY <1>15, <2>4
      <3>2. x \in u.visited
        BY <3>1 DEF HeadRan, x
      <3> QED BY <1>7, <3>1, <3>2
    <2> QED BY <2>2, <2>3, <2>4
  <1>20. ASSUME NEW j \in v.arrivals
         PROVE  j \in v.visited \cup ToSet(v.queue) \/ ArmPending(v.queue, j)
    <2> DEFINE q == u.queue \o r.plain
    <2>1. \/ j \in u.visited \/ j \in ToSet(q) \/ ArmPending(q, j)
          \/ j \in ReadyJoins(u, r)
      BY <1>7 DEF ReadyJoins
    <2>2. ToSet(q) \subseteq ToSet(v.queue)
      BY <1>9
    <2>3. ArmPending(q, j) => ArmPending(v.queue, j)
      BY <2>2 DEF ArmPending
    <2> QED BY <1>7, <1>9, <1>11, <2>1, <2>2, <2>3
  <1> QED BY <1>16, <1>18, <1>19, <1>20 DEF ArmInv

LEMMA ArmShaped ==
    ASSUME TypeInv, OnceInv, JoinInv, Straight(pkg), PlainArms, ArmsInv, NEW v, Shaped(v)
    PROVE  ArmInv(v)
  <1>1. CASE Begun(v)
    <2>1. /\ v.queue = <<pkg.first>> /\ v.visited = {} /\ v.arrivals = {}
          /\ ToSet(v.queue) = {pkg.first}
      BY <1>1 DEF Begun, ToSet
    <2>2. \A t : AtMostOne(v.queue, {t})
      BY <2>1 DEF AtMostOne
    <2> QED BY <2>1, <2>2 DEF ArmInv
  <1>2. CASE Kept(v)
    <2>1. PICK w \in LiveWalks : SameRoute(v, w)
      BY <1>2 DEF Kept
    <2> QED BY <2>1 DEF SameRoute, ArmsInv, ArmInv
  \* A duplicate that is dropped is no arm's step, so no join waited for it.
  <1>3. CASE Dropped(v)
    <2> DEFINE x == Head(walk.queue)
    <2>1. walk \in LiveWalks /\ Typed(walk) /\ walk.queue \in Seq(Steps) /\ x \in Steps
      BY <1>3, WalkIsLive, HeadFacts DEF Dropped, Typed, Walk
    <2>2. ArmInv(walk) /\ walk.arrivals \subseteq JoinsOf(pkg)
      BY <2>1 DEF ArmsInv, JoinInv, BarrierInv
    <2>3. /\ walk.queue # <<>> /\ v.queue = Tail(walk.queue) /\ v.visited = walk.visited
          /\ v.arrivals = walk.arrivals /\ x \in walk.visited
      BY <1>3 DEF Dropped
    <2>4. ToSet(walk.queue) = {x} \cup ToSet(v.queue)
      BY <2>1, <2>3, ToSetHeadTail
    <2> HIDE DEF x
    <2>5. x \notin Arms(pkg)
      BY <2>2, <2>3, <2>4 DEF ArmInv
    <2>6. \A t \in Arms(pkg) : AtMostOne(v.queue, {t})
      BY <2>1, <2>2, <2>3, TailMembers DEF ArmInv
    <2>7. ASSUME NEW j \in v.arrivals
          PROVE  j \in v.visited \cup ToSet(v.queue) \/ ArmPending(v.queue, j)
      <3>1. j \in JoinsOf(pkg)
        BY <2>2, <2>3
      <3>2. j # x => ~CanReach(pkg, x, j)
        BY <2>1, <2>5, <3>1, ArmFacts, JoinFacts
      <3>3. j \in walk.visited \cup ToSet(walk.queue) \/ ArmPending(walk.queue, j)
        BY <2>2, <2>3 DEF ArmInv
      <3> QED BY <2>3, <2>4, <3>2, <3>3 DEF ArmPending
    <2> QED BY <2>2, <2>3, <2>4, <2>6, <2>7 DEF ArmInv
  <1>4. CASE Routed(v)
    BY <1>4, ArmRouted
  \* A loop that leads to no join starts its next pass beside the arms.
  <1>5. CASE Reopened(v)
    <2> DEFINE x == Head(walk.queue)
    <2>1. PICK u \in Walk :
            /\ HeadRan(u) /\ Looping /\ x = pkg.loop.tail
            /\ v.queue = Append(u.queue, pkg.loop.entry)
            /\ v.visited = u.visited \ pkg.loop.body /\ v.arrivals = u.arrivals
      BY <1>5 DEF Reopened
    <2>2. walk \in LiveWalks /\ Typed(walk) /\ walk.queue # <<>>
      BY <2>1, WalkIsLive DEF HeadRan, TypeInv
    <2>3. walk.queue \in Seq(Steps) /\ walk.arrivals \subseteq JoinsOf(pkg)
          /\ ArmInv(walk) /\ x \in Steps
      BY <2>2, HeadTailProperties DEF Typed, Walk, ArmsInv, JoinInv, BarrierInv
    <2>4. /\ u.queue = Tail(walk.queue) /\ u.visited = walk.visited \cup {x}
          /\ u.arrivals = walk.arrivals /\ u.queue \in Seq(Steps)
      BY <2>1 DEF HeadRan, Walk
    <2>5. ToSet(walk.queue) = {x} \cup ToSet(u.queue)
      BY <2>2, <2>3, <2>4, ToSetHeadTail
    <2> HIDE DEF x
    <2>6. /\ pkg.loop.entry \in pkg.loop.body /\ x \in pkg.loop.body
          /\ pkg.loop.entry \in Steps
      BY <2>1, PackagesComposed, PackageFacts DEF TypeInv, Looping
    <2>7. /\ pkg.loop.body \cap Arms(pkg) = {} /\ pkg.loop.body \cap JoinsOf(pkg) = {}
      BY JoinFacts DEF Straight
    <2>8. ToSet(v.queue) = ToSet(u.queue) \cup {pkg.loop.entry}
      BY <2>1, <2>4, <2>6, ToSetAppend
    <2>9. ASSUME NEW t \in Arms(pkg)
          PROVE  AtMostOne(v.queue, {t})
      <3>1. AtMostOne(u.queue, {t}) /\ t # pkg.loop.entry
        BY <2>2, <2>3, <2>4, <2>6, <2>7, TailMembers DEF ArmInv
      <3>2. pkg.loop.entry \notin {t}
        BY <3>1
      <3>3. \A q \in Seq(Steps) :
                AtMostOne(q, {t}) => AtMostOne(Append(q, pkg.loop.entry), {t})
        BY <2>6, <3>2, AppendKeepsOne
      <3> QED BY <2>1, <2>4, <3>1, <3>3
    <2>10. ASSUME NEW t \in Arms(pkg), t \in ToSet(v.queue) \cup v.visited
           PROVE  /\ t \in ToSet(v.queue) => t \notin v.visited
                  /\ t = pkg.first \/ \E s \in v.visited : t \in pkg.next[s]
      <3>1. t \notin pkg.loop.body /\ t # x
        BY <2>6, <2>7
      <3>2. t \in ToSet(walk.queue) \cup walk.visited
        BY <2>1, <2>4, <2>5, <2>6, <2>8, <2>10, <3>1
      <3>3. t \in ToSet(v.queue) => t \notin v.visited
        BY <2>1, <2>3, <2>4, <2>5, <2>6, <2>8, <3>1 DEF ArmInv
      <3>4. walk.visited \subseteq Steps
        BY <2>2 DEF Typed, Walk
      <3>5. \A s \in walk.visited : t \in pkg.next[s] => s \notin pkg.loop.body
        BY <2>7, <3>4, ArmFacts
      <3> QED BY <2>1, <2>3, <2>4, <3>2, <3>3, <3>5 DEF ArmInv
    <2>11. ASSUME NEW j \in v.arrivals
           PROVE  j \in v.visited \cup ToSet(v.queue) \/ ArmPending(v.queue, j)
      <3>1. j \in JoinsOf(pkg) /\ j \notin pkg.loop.body /\ j # x
        BY <2>1, <2>3, <2>4, <2>6, <2>7
      <3>2. ~CanReach(pkg, x, j)
        BY <2>3, <2>6, <2>7, <3>1, ArmFacts
      <3>3. j \in walk.visited \cup ToSet(walk.queue) \/ ArmPending(walk.queue, j)
        BY <2>1, <2>3, <2>4 DEF ArmInv
      <3> QED BY <2>1, <2>4, <2>5, <2>8, <3>1, <3>2, <3>3 DEF ArmPending
    <2> QED BY <2>9, <2>10, <2>11 DEF ArmInv
  <1> QED BY <1>1, <1>2, <1>3, <1>4, <1>5 DEF Shaped

LEMMA StepArms ==
    TypeInv /\ OnceInv /\ JoinInv /\ ArmsInv /\ [Next]_vars => ArmsInv'
  <1> SUFFICES ASSUME TypeInv, OnceInv, JoinInv, ArmsInv, [Next]_vars,
                      (Straight(pkg) /\ PlainArms)', NEW v \in LiveWalks'
               PROVE  ArmInv(v)'
    BY DEF ArmsInv
  <1>1. Shaped(v) /\ pkg' = pkg
    BY StepsShaped
  <1>2. Straight(pkg) /\ PlainArms
    BY <1>1 DEF PlainArms
  <1>3. ArmInv(v)
    BY <1>1, <1>2, ArmShaped
  <1> QED BY <1>1, <1>3 DEF ArmInv, ArmPending

\* A join that was offered runs before the chain finishes, in every package in which
\* the steps that lead to joins have one predecessor each and lie outside the loop:
\* whatever fan-out, conditions, loops and parks there are besides.
THEOREM PlainArmsNeverLoseJoin == Spec => [](Straight(pkg) => PlainArmsJoin)
  <1>1. Init => TypeInv /\ OnceInv /\ JoinInv /\ ArmsInv
    BY InitType DEF Init, OnceInv, ExecutesUnvisited, JoinInv, ArmsInv, LiveWalks
  <1>2. TypeInv /\ OnceInv /\ JoinInv /\ ArmsInv /\ [Next]_vars =>
            (TypeInv /\ OnceInv /\ JoinInv /\ ArmsInv)'
    BY StepType, StepOnceInv, StepJoinInv, StepArms
  <1>3. TypeInv /\ ArmsInv => (Straight(pkg) => PlainArmsJoin)
    <2> SUFFICES ASSUME TypeInv, ArmsInv, Straight(pkg), PlainArms,
                        phase = "head", walk.queue = <<>>
                 PROVE  walk.arrivals \subseteq walk.visited
      BY DEF PlainArmsJoin, OfferedJoinsRun
    <2>1. ArmInv(walk)
      BY WalkIsLive DEF ArmsInv
    <2>2. ToSet(walk.queue) = {}
      BY DEF ToSet
    <2> QED BY <2>1, <2>2 DEF ArmInv, ArmPending
  <1> QED BY <1>1, <1>2, <1>3, PTL DEF Spec

-----------------------------------------------------------------------------
(* How many passes                                                         *)

\* Up to its tail the package is a chain of unconditional steps that goes through the
\* loop's entry; the body is entered there and left at the tail, whose back-edge is
\* always followed and closes the only cycle (analyze_loop rejects a second one).
CountedChain(p) ==
    /\ p.loop.type = "for"
    /\ p.first \notin Inner(p) /\ CanReach(p, p.first, p.loop.entry)
    /\ \A s \in Steps \ {p.loop.tail} :
          CanReach(p, s, p.loop.tail) =>
              \E t \in Steps :
                  /\ p.next[s] = {t} /\ \A r \in p.routes[s] : r.plain = <<t>>
                  /\ s \in p.loop.body => t \in p.loop.body
                  /\ s \notin p.loop.body => t \notin Inner(p)
    /\ \A t \in p.next[p.loop.tail] \ {p.loop.entry} : ~CanReach(p, t, p.loop.entry)
    /\ \A r \in p.routes[p.loop.tail] : r.back /\ p.loop.entry \notin ToSet(r.plain)

EntryRuns(w) == Cardinality({i \in DOMAIN w.trace : w.trace[i].step = pkg.loop.entry})

\* Until the loop is over one step is queued, on its way to the tail; behind it lie the
\* steps that led to it, and the entry has run once in each pass it is part of.
OnTheWay(w) ==
    \E x \in Steps :
        /\ w.queue = <<x>> /\ w.arrivals = {}
        /\ CanReach(pkg, x, pkg.loop.tail)
        /\ x \notin w.visited /\ pkg.loop.tail \notin w.visited
        /\ \A v \in w.visited : /\ pkg.next[v] \subseteq w.visited \cup {x}
                                /\ CanReach(pkg, v, pkg.loop.tail)
        /\ x \in Inner(pkg) =>
              pkg.loop.entry \in w.visited /\ EntryRuns(w) = w.iteration + 1
        /\ x \notin Inner(pkg) =>
              /\ w.visited \cap pkg.loop.body = {} /\ EntryRuns(w) = w.iteration
              /\ CanReach(pkg, x, pkg.loop.entry)
        /\ \/ w.iteration < pkg.loop.count
           \/ ~w.entered /\ w.iteration = 0 /\ x \notin Inner(pkg)

\* Then nothing that is queued or offered leads back to the entry.
LoopOver(w) ==
    /\ EntryRuns(w) = pkg.loop.count
    /\ \A x \in ToSet(w.queue) \cup w.arrivals : ~CanReach(pkg, x, pkg.loop.entry)

EntryPretested == phase = "exec" /\ Head(walk.queue) = pkg.loop.entry => walk.entered

CountInv ==
    CountedChain(pkg) =>
        EntryPretested /\ \A w \in LiveWalks : OnTheWay(w) \/ LoopOver(w)

\* The five shapes of a walk again, with the tests of a `for` loop.
KeptCount(v) ==
    \E w \in LiveWalks :
        SameRoute(v, w) /\ (v.entered => w.entered \/ pkg.loop.count > 0)

RoutedCount(v) ==
    \/ \E u \in Walk, r \in pkg.routes[Head(walk.queue)] :
          /\ HeadRan(u) /\ v \in EnqueueFrom(u, r) /\ v.entered = walk.entered
          /\ Head(walk.queue) = pkg.loop.tail /\ r.back =>
                ~(walk.iteration + 1 < pkg.loop.count)
    \/ \E u \in Walk, r \in pkg.routes[pkg.loop.tail] :
          HeadPassed(u) /\ v \in EnqueueFrom(u, r) /\ pkg.loop.count = 0

ReopenedCount(v) ==
    Reopened(v) /\ walk.iteration + 1 < pkg.loop.count

ShapedCount(v) ==
    \/ Begun(v) /\ ~v.entered
    \/ KeptCount(v) \/ Dropped(v) \/ RoutedCount(v) \/ ReopenedCount(v)

LEMMA CountedFacts ==
    ASSUME TypeInv, CountedChain(pkg)
    PROVE  /\ Looping /\ pkg.loop.type = "for" /\ pkg.loop.count \in Nat
           /\ pkg.loop.entry \in Steps /\ pkg.loop.tail \in Steps /\ pkg.first \in Steps
           /\ pkg.loop.entry \in pkg.loop.body /\ pkg.loop.tail \in pkg.loop.body
           /\ pkg.loop.entry \notin JoinsOf(pkg)
           /\ CanReach(pkg, pkg.loop.entry, pkg.loop.tail)
           /\ CanReach(pkg, pkg.loop.tail, pkg.loop.entry)
           /\ CanReach(pkg, pkg.loop.entry, pkg.loop.entry)
  <1>1. Looping /\ pkg.loop.type = "for"
    BY DEF CountedChain, Looping
  <1>2. /\ pkg.loop.entry \in Steps /\ pkg.loop.tail \in Steps /\ pkg.first \in Steps
        /\ pkg.loop.count \in Nat
    BY PackageFacts DEF TypeInv, Loops
  <1>3. pkg.loop.tail \in pkg.loop.body
    BY <1>1, PackagesComposed DEF TypeInv, Looping
  <1>4. CanReach(pkg, pkg.loop.entry, pkg.loop.entry)
    BY DEF CanReach
  <1> QED BY <1>1, <1>2, <1>3, <1>4, JoinFacts, ReachNext

\* A step that leads to g through one other step only: that one leads to g too.
LEMMA ReachThrough ==
    ASSUME NEW s \in Steps, NEW t \in Steps, pkg.next[s] = {t}, NEW g,
           CanReach(pkg, s, g), s # g
    PROVE  CanReach(pkg, t, g)
  <1> SUFFICES ASSUME NEW R \in SUBSET Steps, t \in R,
                      \A x \in R : pkg.next[x] \subseteq R
               PROVE  g \in R
    BY DEF CanReach
  <1>1. /\ R \cup {s} \in SUBSET Steps /\ s \in R \cup {s}
        /\ \A x \in R \cup {s} : pkg.next[x] \subseteq R \cup {s}
    OBVIOUS
  <1>2. g \in R \cup {s}
    BY <1>1 DEF CanReach
  <1> QED BY <1>2

\* Targets queued behind an empty queue with no join offered: the queue is theirs.
LEMMA EnqueueAlone ==
    ASSUME NEW u \in Walk, NEW r \in Routes, NEW v \in EnqueueFrom(u, r),
           u.queue = <<>>, u.arrivals = {}
    PROVE  /\ v.arrivals = r.joins
           /\ r.joins = {} => v.queue = r.plain
           /\ ToSet(v.queue) \subseteq r.joins \cup ToSet(r.plain)
  <1>1. /\ v.arrivals = u.arrivals \cup r.joins
        /\ \E js \in SetToSeqs(ReadyJoins(u, r)) :
              js \in Seq(Steps) /\ v.queue = js \o (u.queue \o r.plain)
    BY EnqueueRoute
  <1>2. PICK js \in SetToSeqs(ReadyJoins(u, r)) :
            js \in Seq(Steps) /\ v.queue = js \o (u.queue \o r.plain)
    BY <1>1
  <1>3. r.plain \in Seq(Steps) /\ r.joins \subseteq Steps
    BY DEF Routes
  <1>4. u.queue \o r.plain = r.plain
    BY <1>3, ConcatEmptySeq
  <1>5. ReadyJoins(u, r) \subseteq r.joins /\ ReadyJoins(u, r) \subseteq Steps
    BY <1>3 DEF ReadyJoins
  <1>6. ToSet(js) \subseteq r.joins
    BY <1>5, OrderingsHold
  <1>7. ToSet(v.queue) = ToSet(js) \cup ToSet(r.plain)
    BY <1>2, <1>3, <1>4, ToSetConcat
  <1>8. r.joins = {} => js = <<>>
    <2> SUFFICES ASSUME r.joins = {} PROVE js = <<>>
      OBVIOUS
    <2>1. \A i \in DOMAIN js : FALSE
      BY <1>6 DEF ToSet
    <2>2. js \in Seq(Steps) /\ Len(js) \in Nat /\ DOMAIN js = 1..Len(js)
      BY <1>2, LenProperties
    <2>3. ~(Len(js) >= 1)
      <3>1. Len(js) >= 1 => 1 \in DOMAIN js
        BY <2>2
      <3> QED BY <2>1, <3>1
    <2>4. Len(js) = 0
      BY <2>2, <2>3
    <2> QED BY <2>2, <2>4, EmptySeq
  <1>9. r.joins = {} => v.queue = r.plain
    BY <1>2, <1>3, <1>4, <1>8, ConcatEmptySeq
  <1> QED BY <1>1, <1>6, <1>7, <1>9

\* One more entry of the trace: one more run of the loop's entry if it is that step.
LEMMA EntryRunsRan ==
    ASSUME TypeInv, NEW u \in Walk, HeadRan(u)
    PROVE  /\ EntryRuns(walk) \in Nat
           /\ Head(walk.queue) = pkg.loop.entry => EntryRuns(u) = EntryRuns(walk) + 1
           /\ Head(walk.queue) # pkg.loop.entry => EntryRuns(u) = EntryRuns(walk)
  <1> DEFINE s == Head(walk.queue)
             e == [step |-> s, pass |-> walk.iteration]
             n == Len(walk.trace)
             A == {i \in DOMAIN walk.trace : walk.trace[i].step = pkg.loop.entry}
             B == {i \in DOMAIN u.trace : u.trace[i].step = pkg.loop.entry}
  <1>1. Typed(walk) /\ s \in Steps
    BY WalkIsLive, HeadFacts DEF HeadRan, TypeInv
  <1>2. /\ walk.trace \in Seq([step : Steps, pass : Nat]) /\ n \in Nat
        /\ DOMAIN walk.trace = 1..n /\ e \in [step : Steps, pass : Nat]
    BY <1>1, LenProperties DEF Typed, Walk
  <1>3. u.trace = Append(walk.trace, e) /\ e.step = s
    BY DEF HeadRan
  <1> HIDE DEF e
  <1>4. /\ DOMAIN u.trace = 1..(n + 1) /\ u.trace[n + 1] = e
        /\ \A i \in 1..n : u.trace[i] = walk.trace[i]
        /\ \A i \in 1..(n + 1) : i \in 1..n \/ i = n + 1
        /\ n + 1 \notin 1..n /\ n + 1 \in 1..(n + 1)
        /\ \A i \in 1..n : i \in 1..(n + 1)
    BY <1>2, <1>3, AppendProperties, LenProperties
  <1>5. A \subseteq 1..n /\ IsFiniteSet(1..n)
    BY <1>2, FS_Interval
  <1>6. IsFiniteSet(A) /\ Cardinality(A) \in Nat
    BY <1>5, FS_Subset, FS_CardinalityType
  <1>7. n + 1 \notin A
    BY <1>4, <1>5
  <1>8. s = pkg.loop.entry => B = A \cup {n + 1}
    BY <1>2, <1>3, <1>4
  <1>9. s # pkg.loop.entry => B = A
    BY <1>2, <1>3, <1>4
  <1>10. EntryRuns(walk) = Cardinality(A) /\ EntryRuns(u) = Cardinality(B)
    BY DEF EntryRuns
  <1> HIDE DEF A, B
  <1>11. Cardinality(A \cup {n + 1}) = Cardinality(A) + 1
    BY <1>6, <1>7, FS_AddElement
  <1> QED BY <1>6, <1>8, <1>9, <1>10, <1>11

LEMMA EntryRunsRoute ==
    ASSUME NEW v, NEW w, v.trace = w.trace
    PROVE  EntryRuns(v) = EntryRuns(w)
  BY DEF EntryRuns

\* On the way the head runs: one step further, or over if it was the tail.
LEMMA WayRan ==
    ASSUME TypeInv, OnceInv, CountedChain(pkg), EntryPretested, OnTheWay(walk),
           NEW u \in Walk, HeadRan(u), NEW r \in pkg.routes[Head(walk.queue)],
           NEW v \in EnqueueFrom(u, r), v.entered = walk.entered,
           Head(walk.queue) = pkg.loop.tail /\ r.back =>
              ~(walk.iteration + 1 < pkg.loop.count)
    PROVE  OnTheWay(v) \/ LoopOver(v)
  <1> DEFINE tail == pkg.loop.tail
             entry == pkg.loop.entry
             body == pkg.loop.body
             I == Inner(pkg)
  <1>1. PICK x \in Steps :
          /\ walk.queue = <<x>> /\ walk.arrivals = {} /\ CanReach(pkg, x, tail)
          /\ x \notin walk.visited /\ tail \notin walk.visited
          /\ \A y \in walk.visited : /\ pkg.next[y] \subseteq walk.visited \cup {x}
                                     /\ CanReach(pkg, y, tail)
          /\ x \in I => entry \in walk.visited /\ EntryRuns(walk) = walk.iteration + 1
          /\ x \notin I => /\ walk.visited \cap body = {}
                           /\ EntryRuns(walk) = walk.iteration
                           /\ CanReach(pkg, x, entry)
          /\ \/ walk.iteration < pkg.loop.count
             \/ ~walk.entered /\ walk.iteration = 0 /\ x \notin I
    BY DEF OnTheWay
  <1>2. Head(walk.queue) = x /\ Tail(walk.queue) = <<>>
    BY <1>1
  <1>3. /\ phase = "exec" /\ u.queue = <<>> /\ u.visited = walk.visited \cup {x}
        /\ u.arrivals = {} /\ u.iteration = walk.iteration
    BY <1>1, <1>2 DEF HeadRan
  <1>4. r \in Routes
    BY <1>2, PackageFacts DEF TypeInv
  <1>5. /\ v.visited = walk.visited \cup {x} /\ v.iteration = walk.iteration
        /\ EntryRuns(v) = EntryRuns(u)
    <2>1. v.visited = u.visited /\ v.iteration = u.iteration /\ v.trace = u.trace
      BY <1>4, EnqueueRoute
    <2>2. EntryRuns(v) = EntryRuns(u)
      BY <2>1, EntryRunsRoute
    <2> QED BY <1>3, <2>1, <2>2
  <1>6. /\ v.arrivals = r.joins /\ (r.joins = {} => v.queue = r.plain)
        /\ ToSet(v.queue) \subseteq r.joins \cup ToSet(r.plain)
    BY <1>3, <1>4, EnqueueAlone
  <1>7. /\ r.joins \subseteq pkg.next[x] \cap JoinsOf(pkg)
        /\ ToSet(r.plain) \subseteq pkg.next[x] \ JoinsOf(pkg)
    BY <1>2, RouteTargets
  <1>8. /\ EntryRuns(walk) \in Nat
        /\ x = entry => EntryRuns(u) = EntryRuns(walk) + 1
        /\ x # entry => EntryRuns(u) = EntryRuns(walk)
    BY <1>2, EntryRunsRan
  <1>9. walk.iteration \in Nat /\ pkg.loop.count \in Nat /\ walk.visited \subseteq Steps
    BY <1>3, WalkIsLive, CountedFacts DEF Typed, Walk
  <1>10. x = entry => walk.entered
    BY <1>2, <1>3 DEF EntryPretested
  <1>11. x \in body => walk.iteration < pkg.loop.count
    BY <1>1, <1>10 DEF Inner
  <1>12. x \in I => x # entry /\ x \in body
    BY DEF Inner
  <1>13. x \in body => x = entry \/ x \in I
    BY DEF Inner
  <1>14. entry \in body /\ tail \in body /\ entry \notin JoinsOf(pkg)
    BY CountedFacts
  <1>15. CASE x = tail
    <2>1. /\ r.back /\ entry \notin ToSet(r.plain)
          /\ \A t \in pkg.next[x] \ {entry} : ~CanReach(pkg, t, entry)
      BY <1>2, <1>15 DEF CountedChain
    <2>2. ~(walk.iteration + 1 < pkg.loop.count)
      BY <1>2, <1>15, <2>1
    <2>3. walk.iteration + 1 = pkg.loop.count
      BY <1>9, <1>11, <1>14, <1>15, <2>2
    <2>4. EntryRuns(u) = walk.iteration + 1
      BY <1>1, <1>8, <1>12, <1>13, <1>14, <1>15
    <2>5. \A t \in ToSet(v.queue) \cup v.arrivals : t \in pkg.next[x] \ {entry}
      BY <1>6, <1>7, <1>14, <2>1
    <2> QED BY <1>5, <2>1, <2>3, <2>4, <2>5 DEF LoopOver
  <1>16. CASE x # tail
    <2>1. PICK t \in Steps :
            /\ pkg.next[x] = {t} /\ r.plain = <<t>>
            /\ x \in body => t \in body
            /\ x \notin body => t \notin I
      BY <1>1, <1>2, <1>16 DEF CountedChain
    <2>2. r.joins = {}
      <3>1. t \in ToSet(r.plain)
        BY <2>1 DEF ToSet
      <3> QED BY <1>7, <2>1, <3>1
    <2>3. v.queue = <<t>> /\ v.arrivals = {}
      BY <1>6, <2>1, <2>2
    <2>4. CanReach(pkg, t, tail)
      BY <1>1, <1>16, <2>1, ReachThrough
    <2>5. tail \notin v.visited
      BY <1>1, <1>5, <1>16
    <2>6. t \notin v.visited
      <3> SUFFICES ASSUME t \in v.visited PROVE FALSE
        OBVIOUS
      <3>1. \A y \in v.visited : pkg.next[y] \subseteq v.visited
        BY <1>1, <1>5, <2>1
      <3>2. v.visited \in SUBSET Steps /\ x \in v.visited
        BY <1>5, <1>9
      <3>3. tail \in v.visited
        BY <1>1, <3>1, <3>2 DEF CanReach
      <3> QED BY <2>5, <3>3
    <2>7. \A y \in v.visited : /\ pkg.next[y] \subseteq v.visited \cup {t}
                               /\ CanReach(pkg, y, tail)
      BY <1>1, <1>5, <2>1
    <2>8. t \in I => entry \in v.visited /\ EntryRuns(v) = v.iteration + 1
      <3> SUFFICES ASSUME t \in I
                   PROVE  entry \in v.visited /\ EntryRuns(v) = v.iteration + 1
        OBVIOUS
      <3>1. x \in body
        BY <2>1
      <3>2. CASE x = entry
        BY <1>1, <1>5, <1>8, <1>12, <3>2
      <3>3. CASE x \in I
        BY <1>1, <1>5, <1>8, <1>12, <3>3
      <3> QED BY <1>13, <3>1, <3>2, <3>3
    <2>9. t \notin I => /\ v.visited \cap body = {} /\ EntryRuns(v) = v.iteration
                        /\ CanReach(pkg, t, entry)
      <3> SUFFICES ASSUME t \notin I
                   PROVE  /\ v.visited \cap body = {} /\ EntryRuns(v) = v.iteration
                          /\ CanReach(pkg, t, entry)
        OBVIOUS
      <3>1. x \notin body
        <4> SUFFICES ASSUME x \in body PROVE FALSE
          OBVIOUS
        <4>1. t = entry
          BY <2>1 DEF Inner
        <4>2. x # entry /\ entry \notin walk.visited
          BY <1>5, <2>6, <4>1
        <4> QED BY <1>1, <1>13, <4>2
      <3>2. x \notin I /\ x # entry
        BY <1>12, <1>14, <3>1
      <3>3. CanReach(pkg, t, entry)
        BY <1>1, <2>1, <3>2, ReachThrough
      <3> QED BY <1>1, <1>5, <1>8, <3>1, <3>2, <3>3
    <2>10. \/ v.iteration < pkg.loop.count
           \/ ~v.entered /\ v.iteration = 0 /\ t \notin I
      BY <1>1, <1>5, <1>11, <2>1
    <2> HIDE DEF tail, entry, body, I
    <2>11. OnTheWay(v)
      BY <2>3, <2>4, <2>5, <2>6, <2>7, <2>8, <2>9, <2>10
      DEF OnTheWay, tail, entry, body, I
    <2> QED BY <2>11
  <1> QED BY <1>15, <1>16

\* On the way the entry is passed over: no pass at all, and the loop is over.
LEMMA WayPassed ==
    ASSUME TypeInv, CountedChain(pkg), OnTheWay(walk), NEW u \in Walk, HeadPassed(u),
           NEW r \in pkg.routes[pkg.loop.tail], NEW v \in EnqueueFrom(u, r),
           pkg.loop.count = 0
    PROVE  LoopOver(v)
  <1> DEFINE tail == pkg.loop.tail
             entry == pkg.loop.entry
  <1>1. PICK x \in Steps :
          /\ walk.queue = <<x>> /\ walk.arrivals = {}
          /\ x \notin Inner(pkg) => EntryRuns(walk) = walk.iteration
          /\ \/ walk.iteration < pkg.loop.count
             \/ ~walk.entered /\ walk.iteration = 0 /\ x \notin Inner(pkg)
    BY DEF OnTheWay
  <1>2. /\ Head(walk.queue) = x /\ x = entry /\ u.queue = <<>> /\ u.arrivals = {}
        /\ u.trace = walk.trace /\ phase = "head"
    BY <1>1 DEF HeadPassed
  <1>3. walk.iteration \in Nat
    BY <1>2, WalkIsLive DEF Typed, Walk
  <1>4. EntryRuns(walk) = 0
    BY <1>1, <1>3
  <1>5. /\ entry \in Steps /\ tail \in Steps /\ entry \notin JoinsOf(pkg)
    BY CountedFacts
  <1>6. r \in Routes
    BY <1>5, PackageFacts DEF TypeInv
  <1>7. EntryRuns(v) = 0
    <2>1. v.trace = u.trace
      BY <1>6, EnqueueRoute
    <2> QED BY <1>2, <1>4, <2>1 DEF EntryRuns
  <1>8. v.arrivals = r.joins /\ ToSet(v.queue) \subseteq r.joins \cup ToSet(r.plain)
    BY <1>2, <1>6, EnqueueAlone
  <1>9. /\ r.joins \subseteq pkg.next[tail] \cap JoinsOf(pkg)
        /\ ToSet(r.plain) \subseteq pkg.next[tail] \ JoinsOf(pkg)
    BY <1>5, RouteTargets
  <1>10. /\ entry \notin ToSet(r.plain)
         /\ \A t \in pkg.next[tail] \ {entry} : ~CanReach(pkg, t, entry)
    BY DEF CountedChain
  <1>11. \A t \in ToSet(v.queue) \cup v.arrivals : t \in pkg.next[tail] \ {entry}
    BY <1>5, <1>8, <1>9, <1>10
  <1> QED BY <1>7, <1>10, <1>11 DEF LoopOver

\* On the way the tail runs and the body is opened again, short of the count.
LEMMA WayReopened ==
    ASSUME TypeInv, CountedChain(pkg), OnTheWay(walk), NEW v, ReopenedCount(v)
    PROVE  OnTheWay(v)
  <1> DEFINE tail == pkg.loop.tail
             entry == pkg.loop.entry
             body == pkg.loop.body
             I == Inner(pkg)
  <1>1. PICK u \in Walk :
          /\ HeadRan(u) /\ Head(walk.queue) = tail
          /\ v.queue = Append(u.queue, entry) /\ v.visited = u.visited \ body
          /\ v.arrivals = u.arrivals /\ v.iteration = u.iteration + 1
          /\ v.trace = u.trace
    BY DEF ReopenedCount, Reopened
  <1>2. PICK x \in Steps :
          /\ walk.queue = <<x>> /\ walk.arrivals = {}
          /\ tail \notin walk.visited
          /\ \A y \in walk.visited : /\ pkg.next[y] \subseteq walk.visited \cup {x}
                                     /\ CanReach(pkg, y, tail)
          /\ x \in I => EntryRuns(walk) = walk.iteration + 1
          /\ x \notin I => EntryRuns(walk) = walk.iteration
    BY DEF OnTheWay
  <1>3. x = tail /\ Tail(walk.queue) = <<>>
    BY <1>1, <1>2
  <1>4. /\ phase = "exec" /\ u.queue = <<>> /\ u.visited = walk.visited \cup {x}
        /\ u.arrivals = {} /\ u.iteration = walk.iteration
    BY <1>1, <1>2, <1>3 DEF HeadRan
  <1>5. /\ entry \in Steps /\ entry \in body /\ tail \in body
        /\ CanReach(pkg, entry, tail) /\ CanReach(pkg, entry, entry)
    BY CountedFacts
  <1>6. /\ v.queue = <<entry>> /\ v.arrivals = {} /\ v.visited = walk.visited \ body
        /\ v.iteration = walk.iteration + 1
    BY <1>1, <1>3, <1>4, <1>5
  <1>7. walk.visited \subseteq Steps
    BY <1>4, WalkIsLive DEF Typed, Walk
  <1>8. ASSUME NEW y \in v.visited
        PROVE  pkg.next[y] \subseteq v.visited \cup {entry} /\ CanReach(pkg, y, tail)
    <2>1. /\ y \in walk.visited /\ y \in Steps \ {tail} /\ y \notin body
          /\ CanReach(pkg, y, tail) /\ pkg.next[y] \subseteq walk.visited \cup {tail}
      BY <1>2, <1>3, <1>6, <1>7
    <2>2. PICK t \in Steps : pkg.next[y] = {t} /\ t \notin I
      BY <2>1 DEF CountedChain
    <2>3. CASE t \in body
      BY <2>1, <2>2, <2>3 DEF Inner
    <2>4. CASE t \notin body
      BY <1>5, <1>6, <2>1, <2>2, <2>4
    <2> QED BY <2>1, <2>3, <2>4
  <1>9. EntryRuns(v) = v.iteration
    <2>1. EntryRuns(v) = EntryRuns(u)
      BY <1>1, EntryRunsRoute
    <2>2. /\ x = entry => EntryRuns(u) = EntryRuns(walk) + 1
          /\ x # entry => EntryRuns(u) = EntryRuns(walk)
      BY <1>1, <1>3, EntryRunsRan
    <2>3. x = entry <=> x \notin I
      BY <1>3, <1>5 DEF Inner
    <2> QED BY <1>2, <1>6, <2>1, <2>2, <2>3
  <1>10. v.iteration < pkg.loop.count
    BY <1>6 DEF ReopenedCount
  <1>11. entry \notin I
    BY DEF Inner
  <1>12. v.visited \cap body = {}
    BY <1>6
  <1> HIDE DEF tail, entry, body, I
  <1> QED BY <1>5, <1>6, <1>8, <1>9, <1>10, <1>11, <1>12
      DEF OnTheWay, tail, entry, body, I

\* Behind the loop the entry is not queued again, whatever is.
LEMMA OverRan ==
    ASSUME TypeInv, CountedChain(pkg), LoopOver(walk), NEW u \in Walk, HeadRan(u),
           NEW r \in pkg.routes[Head(walk.queue)], NEW v \in EnqueueFrom(u, r)
    PROVE  LoopOver(v)
  <1> DEFINE x == Head(walk.queue)
             entry == pkg.loop.entry
  <1>1. /\ walk.queue # <<>> /\ walk.queue \in Seq(Steps) /\ x \in Steps
        /\ u.queue = Tail(walk.queue) /\ u.arrivals = walk.arrivals
    BY WalkIsLive, HeadFacts DEF HeadRan, TypeInv, Typed, Walk
  <1>2. ToSet(walk.queue) = {x} \cup ToSet(u.queue)
    BY <1>1, ToSetHeadTail
  <1>3. ~CanReach(pkg, x, entry)
    BY <1>2 DEF LoopOver
  <1>4. x # entry
    BY <1>3, CountedFacts
  <1>5. r \in Routes
    BY <1>1, PackageFacts DEF TypeInv
  <1>6. /\ r.joins \subseteq pkg.next[x] /\ ToSet(r.plain) \subseteq pkg.next[x]
    BY <1>1, RouteTargets
  <1>7. \A t \in pkg.next[x] : ~CanReach(pkg, t, entry)
    BY <1>1, <1>3, ReachNext, ReachTransitive
  <1>8. EntryRuns(v) = EntryRuns(walk)
    <2>1. v.trace = u.trace
      BY <1>5, EnqueueRoute
    <2>2. EntryRuns(u) = EntryRuns(walk)
      BY <1>4, EntryRunsRan
    <2> QED BY <2>1, <2>2, EntryRunsRoute
  <1>9. v.arrivals = walk.arrivals \cup r.joins
    <2>1. v.arrivals = u.arrivals \cup r.joins
      BY <1>5, EnqueueRoute
    <2> QED BY <1>1, <2>1
  <1> HIDE DEF x
  <1>10. ToSet(v.queue) \subseteq ToSet(walk.queue) \cup walk.arrivals \cup pkg.next[x]
    <2>1. PICK js \in SetToSeqs(ReadyJoins(u, r)) :
              js \in Seq(Steps) /\ v.queue = js \o (u.queue \o r.plain)
      BY <1>5, EnqueueRoute
    <2>2. /\ u.queue \in Seq(Steps) /\ r.plain \in Seq(Steps)
          /\ u.queue \o r.plain \in Seq(Steps)
      BY <1>5, ConcatProperties DEF Walk, Routes
    <2>3. ReadyJoins(u, r) \subseteq walk.arrivals \cup r.joins
      BY <1>1 DEF ReadyJoins
    <2>4. ReadyJoins(u, r) \subseteq Steps
      BY <1>5 DEF ReadyJoins, Walk, Routes
    <2>5. ToSet(js) \subseteq ReadyJoins(u, r)
      BY <2>4, OrderingsHold
    <2>6. ToSet(v.queue) = ToSet(js) \cup (ToSet(u.queue) \cup ToSet(r.plain))
      <3>1. ToSet(u.queue \o r.plain) = ToSet(u.queue) \cup ToSet(r.plain)
        BY <2>2, ToSetConcat
      <3>2. ToSet(js \o (u.queue \o r.plain)) = ToSet(js) \cup ToSet(u.queue \o r.plain)
        BY <2>1, <2>2, ToSetConcat
      <3> QED BY <2>1, <3>1, <3>2
    <2> QED BY <1>2, <1>6, <2>3, <2>5, <2>6
  <1>11. \A t \in ToSet(v.queue) \cup v.arrivals : ~CanReach(pkg, t, entry)
    BY <1>6, <1>7, <1>9, <1>10 DEF LoopOver
  <1> QED BY <1>8, <1>11 DEF LoopOver

\* The entry and the tail lead to the entry: behind the loop neither comes up.
LEMMA OverPasses ==
    ASSUME TypeInv, CountedChain(pkg), LoopOver(walk),
           phase # "idle", walk.queue # <<>>
    PROVE  Head(walk.queue) \notin {pkg.loop.entry, pkg.loop.tail}
  <1>1. walk.queue \in Seq(Steps)
    BY WalkIsLive DEF Typed, Walk
  <1>2. Head(walk.queue) \in ToSet(walk.queue)
    BY <1>1, ToSetHeadTail
  <1> QED BY <1>2, CountedFacts DEF LoopOver

LEMMA CountShaped ==
    ASSUME TypeInv, OnceInv, CountedChain(pkg), CountInv, NEW v, ShapedCount(v)
    PROVE  OnTheWay(v) \/ LoopOver(v)
  <1>1. CASE Begun(v) /\ ~v.entered
    <2>1. EntryRuns(v) = 0
      <3>1. {i \in DOMAIN v.trace : v.trace[i].step = pkg.loop.entry} = {}
        BY <1>1 DEF Begun
      <3> QED BY <3>1, FS_EmptySet DEF EntryRuns
    <2>2. /\ pkg.first \in Steps /\ pkg.first \notin Inner(pkg)
          /\ CanReach(pkg, pkg.first, pkg.loop.entry)
          /\ CanReach(pkg, pkg.first, pkg.loop.tail)
      BY CountedFacts, ReachTransitive DEF CountedChain
    <2>3. /\ v.queue = <<pkg.first>> /\ v.visited = {} /\ v.arrivals = {}
          /\ v.iteration = 0 /\ ~v.entered
      BY <1>1 DEF Begun
    <2> QED BY <2>1, <2>2, <2>3 DEF OnTheWay
  <1>2. CASE KeptCount(v)
    <2>1. PICK w \in LiveWalks :
            SameRoute(v, w) /\ (v.entered => w.entered \/ pkg.loop.count > 0)
      BY <1>2 DEF KeptCount
    <2>2. /\ v.queue = w.queue /\ v.visited = w.visited /\ v.arrivals = w.arrivals
          /\ v.iteration = w.iteration /\ EntryRuns(v) = EntryRuns(w)
      BY <2>1, EntryRunsRoute DEF SameRoute
    <2>3. CASE OnTheWay(w)
      <3>1. PICK x \in Steps :
              /\ w.queue = <<x>> /\ w.arrivals = {}
              /\ CanReach(pkg, x, pkg.loop.tail)
              /\ x \notin w.visited /\ pkg.loop.tail \notin w.visited
              /\ \A y \in w.visited : /\ pkg.next[y] \subseteq w.visited \cup {x}
                                      /\ CanReach(pkg, y, pkg.loop.tail)
              /\ x \in Inner(pkg) =>
                    pkg.loop.entry \in w.visited /\ EntryRuns(w) = w.iteration + 1
              /\ x \notin Inner(pkg) =>
                    /\ w.visited \cap pkg.loop.body = {} /\ EntryRuns(w) = w.iteration
                    /\ CanReach(pkg, x, pkg.loop.entry)
              /\ \/ w.iteration < pkg.loop.count
                 \/ ~w.entered /\ w.iteration = 0 /\ x \notin Inner(pkg)
        BY <2>3 DEF OnTheWay
      <3>2. \/ v.iteration < pkg.loop.count
            \/ ~v.entered /\ v.iteration = 0 /\ x \notin Inner(pkg)
        BY <2>1, <2>2, <3>1
      <3> QED BY <2>2, <3>1, <3>2 DEF OnTheWay
    <2>4. CASE LoopOver(w)
      BY <2>2, <2>4 DEF LoopOver
    <2> QED BY <2>1, <2>3, <2>4 DEF CountInv
  <1>3. CASE Dropped(v)
    <2>1. /\ walk \in LiveWalks /\ Typed(walk) /\ walk.queue \in Seq(Steps)
          /\ walk.queue # <<>> /\ v.queue = Tail(walk.queue)
          /\ v.arrivals = walk.arrivals /\ EntryRuns(v) = EntryRuns(walk)
      BY <1>3, WalkIsLive, EntryRunsRoute DEF Dropped, Typed, Walk
    <2>2. ~OnTheWay(walk)
      BY <1>3 DEF Dropped, OnTheWay
    <2>3. LoopOver(walk)
      BY <2>1, <2>2 DEF CountInv
    <2>4. ToSet(v.queue) \subseteq ToSet(walk.queue)
      BY <2>1, ToSetHeadTail
    <2> QED BY <2>1, <2>3, <2>4 DEF LoopOver
  <1>4. CASE RoutedCount(v)
    <2>1. ASSUME NEW u \in Walk, NEW r \in pkg.routes[Head(walk.queue)],
                 HeadRan(u), v \in EnqueueFrom(u, r), v.entered = walk.entered,
                 Head(walk.queue) = pkg.loop.tail /\ r.back =>
                    ~(walk.iteration + 1 < pkg.loop.count)
          PROVE  OnTheWay(v) \/ LoopOver(v)
      <3>1. EntryPretested /\ (OnTheWay(walk) \/ LoopOver(walk))
        BY <2>1, WalkIsLive DEF HeadRan, CountInv
      <3>2. CASE OnTheWay(walk)
        BY <2>1, <3>1, <3>2, WayRan
      <3>3. CASE LoopOver(walk)
        BY <2>1, <3>3, OverRan
      <3> QED BY <3>1, <3>2, <3>3
    <2>2. ASSUME NEW u \in Walk, NEW r \in pkg.routes[pkg.loop.tail],
                 HeadPassed(u), v \in EnqueueFrom(u, r), pkg.loop.count = 0
          PROVE  LoopOver(v)
      <3>1. /\ phase = "head" /\ walk.queue # <<>> /\ walk \in LiveWalks
            /\ Head(walk.queue) = pkg.loop.entry
        BY <2>2, WalkIsLive DEF HeadPassed
      <3>2. OnTheWay(walk)
        BY <3>1, OverPasses DEF CountInv
      <3> QED BY <2>2, <3>2, WayPassed
    <2> QED BY <1>4, <2>1, <2>2 DEF RoutedCount
  <1>5. CASE ReopenedCount(v)
    <2>1. /\ phase = "exec" /\ walk.queue # <<>> /\ walk \in LiveWalks
          /\ Head(walk.queue) = pkg.loop.tail
      BY <1>5, WalkIsLive DEF ReopenedCount, Reopened, HeadRan, TypeInv
    <2>2. OnTheWay(walk)
      BY <2>1, OverPasses DEF CountInv
    <2> QED BY <1>5, <2>2, WayReopened
  <1> QED BY <1>1, <1>2, <1>3, <1>4, <1>5 DEF ShapedCount

-----------------------------------------------------------------------------
(* Every step gives a walk one of these shapes.                            *)

LEMMA CountKeptSaved ==
    ASSUME NEW v, v # None, v = saved
    PROVE  ShapedCount(v)
  BY DEF ShapedCount, KeptCount, SameRoute, LiveWalks

\* The two tests of a `for` loop.
LEMMA ForTests ==
    ASSUME pkg.loop.type = "for", NEW w
    PROVE  /\ EntryTests(w) = {pkg.loop.count > 0}
           /\ ContinueTests(w) = {w.iteration + 1 < pkg.loop.count}
  <1>1. EntryTests(w) = {pkg.loop.count > 0}
    <2> DEFINE tests == [dag |-> {TRUE}, for |-> {pkg.loop.count > 0}, for_while |-> BOOLEAN,
                         for_each |-> {w.items = Unlatched \/ w.items > 0}]
    <2>1. EntryTests(w) = tests[pkg.loop.type]
      BY DEF EntryTests
    <2>2. tests["for"] = {pkg.loop.count > 0}
      OBVIOUS
    <2> HIDE DEF tests
    <2> QED BY <2>1, <2>2
  <1>2. ContinueTests(w) = {w.iteration + 1 < pkg.loop.count}
    <2> DEFINE tests == [dag |-> {FALSE}, for |-> {w.iteration + 1 < pkg.loop.count},
                         for_while |-> BOOLEAN,
                         for_each |-> {w.items # Unlatched /\ w.iteration + 1 < w.items}]
    <2>1. ContinueTests(w) = tests[pkg.loop.type]
      BY DEF ContinueTests
    <2>2. tests["for"] = {w.iteration + 1 < pkg.loop.count}
      OBVIOUS
    <2> HIDE DEF tests
    <2> QED BY <2>1, <2>2
  <1> QED BY <1>1, <1>2

\* Opening the head enters the loop only after a pre-test that passed.
LEMMA OpenedCount ==
    ASSUME TypeInv, CountedChain(pkg), NEW s \in Steps, Taken(s)
    PROVE  /\ Opened(s).entered => walk.entered \/ pkg.loop.count > 0
           /\ s = pkg.loop.entry => Opened(s).entered
  <1>1. walk \in Walk /\ pkg.loop.type = "for" /\ Looping
    BY Walking, CountedFacts DEF Taken, AtHead, Typed
  <1>2. Opened(s).entered = (walk.entered \/ Pretested(s))
    BY <1>1 DEF Opened, Walk
  <1>3. Pretested(s) => pkg.loop.count > 0
    <2>1. EntryTests(walk) = {pkg.loop.count > 0}
      BY <1>1, ForTests
    <2> QED BY <2>1 DEF Taken
  <1>4. s = pkg.loop.entry => walk.entered \/ Pretested(s)
    BY <1>1 DEF Pretested
  <1> QED BY <1>2, <1>3, <1>4

\* The walk that makes the call, and the one saved before it.
LEMMA CallEntered ==
    ASSUME TypeInv, NEW s \in Steps, Call(s)
    PROVE  /\ walk'.entered = Opened(s).entered /\ walk'.queue = walk.queue
           /\ saved' = saved \/ saved'.entered = Opened(s).entered
  <1> DEFINE o == Opened(s)
             w == WithMintedId(s, o)
  <1>1. Taken(s)
    BY DEF Call
  <1>2. o \in Walk /\ o.queue = walk.queue
    BY <1>1, OpenedTyped DEF Typed
  <1> HIDE DEF o
  <1>3. w \in Walk /\ w.entered = o.entered /\ w.queue = o.queue
    <2>1. w \in Walk
      BY <1>1, OpenedTyped, MintTyped DEF Typed, o
    <2> QED BY <1>2, <2>1 DEF WithMintedId, Walk
  <1>4. saved' = saved \/ saved' = w
    BY DEF Call, SavedAfterMint, o
  <1>5. walk'.entered = w.entered /\ walk'.queue = w.queue
    <2> HIDE DEF w
    <2> QED BY <1>3 DEF Call, Walk, w, o
  <1> HIDE DEF w
  <1> QED BY <1>2, <1>3, <1>4, <1>5 DEF o

LEMMA StartingCount ==
    ASSUME TypeInv, NEW v \in LiveWalks', StartFresh \/ Resume \/ WaitDue
    PROVE  ShapedCount(v)
  <1>0. v # None
    BY DEF LiveWalks
  <1>1. CASE StartFresh
    <2>1. v = walk' \/ v = saved
      BY <1>1 DEF StartFresh, LiveWalks
    <2>2. Begun(walk') /\ ~walk'.entered
      BY <1>1 DEF StartFresh, FreshWalk, Begun
    <2> QED BY <1>0, <2>1, <2>2, CountKeptSaved DEF ShapedCount
  <1>2. CASE Resume
    <2>1. v = walk' \/ v = saved
      BY <1>2 DEF Resume, LiveWalks
    <2>2. saved # None /\ Typed(saved)
      BY <1>2, SavedTyped DEF Resume
    <2>3. SameRoute(walk', saved) /\ walk'.entered = saved.entered
      BY <1>2, <2>2 DEF Resume, SameRoute, Typed, Walk
    <2>4. KeptCount(walk')
      BY <2>2, <2>3 DEF KeptCount, LiveWalks
    <2> QED BY <1>0, <2>1, <2>4, CountKeptSaved DEF ShapedCount
  <1>3. CASE WaitDue
    <2>1. (v = walk /\ v # None) \/ v = saved'
      BY <1>3 DEF WaitDue, LiveWalks
    <2>2. saved # None /\ Typed(saved)
      BY <1>3, SavedTyped DEF WaitDue
    <2>3. SameRoute(saved', saved) /\ saved'.entered = saved.entered
      BY <1>3, <2>2 DEF WaitDue, SameRoute, Typed, Walk
    <2>4. KeptCount(saved')
      BY <2>2, <2>3 DEF KeptCount, LiveWalks
    <2>5. walk # None => KeptCount(walk)
      BY DEF KeptCount, LiveWalks, SameRoute
    <2> QED BY <2>1, <2>4, <2>5 DEF ShapedCount
  <1> QED BY <1>1, <1>2, <1>3

LEMMA EndingCount ==
    ASSUME TypeInv, NEW v \in LiveWalks',
           \/ Crash \/ Finish
           \/ \E s \in Steps : RejectPolicy(s) \/ StepRaises(s) \/ OperationFails(s)
                               \/ LoopLimit(s)
    PROVE  ShapedCount(v)
  <1>1. walk' = None /\ (saved' = None \/ saved' = saved)
    BY DEF Crash, Finish, RejectPolicy, StepRaises, OperationFails, LoopLimit,
           FinishRun, Return
  <1>2. v # None /\ v = saved
    BY <1>1 DEF LiveWalks
  <1> QED BY <1>2, CountKeptSaved

LEMMA ParkingCount ==
    ASSUME TypeInv, CountedChain(pkg), NEW v \in LiveWalks', NEW s \in Steps,
           AskOperator(s) \/ ParkWait(s) \/ RetryLater(s)
    PROVE  ShapedCount(v)
  <1>1. v = saved'
    BY DEF AskOperator, ParkWait, RetryLater, Leave, Return, LiveWalks
  <1>2. walk \in LiveWalks /\ Typed(walk)
    BY WalkIsLive DEF AskOperator, ParkWait, RetryLater, Taken, AtHead, Executing
  <1>3. SameRoute(saved', walk) /\ (saved'.entered => walk.entered \/ pkg.loop.count > 0)
    <2>1. CASE AskOperator(s)
      BY <2>1, OpenedRoute, OpenedCount DEF AskOperator, Leave
    <2>2. CASE ParkWait(s)
      <3>1. /\ Opened(s) \in Walk /\ SameRoute(Opened(s), walk)
            /\ Opened(s).entered => walk.entered \/ pkg.loop.count > 0
        BY <2>2, OpenedTyped, OpenedRoute, OpenedCount DEF ParkWait, Typed
      <3>2. SameRoute(saved', Opened(s)) /\ saved'.entered = Opened(s).entered
        BY <2>2, <3>1 DEF ParkWait, Leave, SameRoute, Walk
      <3> QED BY <3>1, <3>2 DEF SameRoute
    <2>3. CASE RetryLater(s)
      BY <1>2, <2>3 DEF RetryLater, Leave, SameRoute, Typed, Walk
    <2> QED BY <2>1, <2>2, <2>3
  <1>4. KeptCount(saved')
    BY <1>2, <1>3 DEF KeptCount
  <1> QED BY <1>1, <1>4 DEF ShapedCount

LEMMA CallCount ==
    ASSUME TypeInv, CountedChain(pkg), NEW v \in LiveWalks', NEW s \in Steps, Call(s)
    PROVE  ShapedCount(v)
  <1>1. Taken(s) /\ walk \in LiveWalks /\ v # None
    BY WalkIsLive DEF Call, Taken, AtHead, LiveWalks
  <1>2. /\ v = walk' \/ v = saved'
        /\ v = saved \/ v.entered = Opened(s).entered
    BY CallEntered DEF LiveWalks
  <1>3. CASE v = saved
    BY <1>1, <1>3, CountKeptSaved
  <1>4. CASE v # saved
    <2>1. SameRoute(v, walk)
      <3> DEFINE o == Opened(s)
                 w == WithMintedId(s, o)
      <3>1. o \in Walk /\ SameRoute(o, walk)
        BY <1>1, OpenedTyped, OpenedRoute DEF Typed
      <3>2. SameRoute(w, walk) /\ Typed(w)
        BY <1>1, <3>1, MintRoute, MintTyped, OpenedTyped DEF SameRoute
      <3>3. SameRoute(walk', w)
        <4> HIDE DEF w
        <4>1. w \in Walk
          BY <3>2 DEF Typed
        <4> QED BY <4>1 DEF Call, SameRoute, Walk, w, o
      <3>4. saved' = saved \/ saved' = w
        BY DEF Call, SavedAfterMint
      <3> HIDE DEF w, o
      <3> QED BY <1>2, <1>4, <3>2, <3>3, <3>4 DEF SameRoute
    <2>2. v.entered => walk.entered \/ pkg.loop.count > 0
      BY <1>1, <1>2, <1>4, OpenedCount
    <2> QED BY <1>1, <2>1, <2>2 DEF KeptCount, ShapedCount
  <1> QED BY <1>3, <1>4

LEMMA DropCount ==
    ASSUME TypeInv, NEW v \in LiveWalks', NEW s \in Steps, DropVisited(s) \/ RetryNow(s)
    PROVE  ShapedCount(v)
  <1>1. walk \in LiveWalks /\ Typed(walk)
    BY WalkIsLive DEF DropVisited, RetryNow, AtHead, Executing
  <1>2. v = walk' \/ (v = saved /\ v # None)
    BY DEF DropVisited, RetryNow, row, LiveWalks
  <1>3. CASE DropVisited(s)
    <2>1. Dropped(walk')
      BY <1>1, <1>3 DEF DropVisited, AtHead, Dropped, Typed, Walk
    <2> QED BY <1>2, <2>1, CountKeptSaved DEF ShapedCount
  <1>4. CASE RetryNow(s)
    <2>1. KeptCount(walk')
      BY <1>1, <1>4 DEF RetryNow, KeptCount, SameRoute
    <2> QED BY <1>2, <2>1, CountKeptSaved DEF ShapedCount
  <1> QED BY <1>3, <1>4

LEMMA SkipCount ==
    ASSUME TypeInv, CountedChain(pkg), NEW v \in LiveWalks', NEW s \in Steps, SkipLoop(s)
    PROVE  ShapedCount(v)
  <1> DEFINE u == [walk EXCEPT !.queue = Tail(@), !.entered = TRUE, !.wait = NoWait]
  <1>1. Typed(walk) /\ Tail(walk.queue) \in Seq(Steps)
    BY Walking, HeadFacts DEF SkipLoop, AtHead
  <1>2. NoWait \in Wait
    BY DEF NoWait, Wait, Parks
  <1>3. u \in Walk
    BY <1>1, <1>2 DEF Typed, Walk
  <1>4. HeadPassed(u)
    BY <1>1 DEF SkipLoop, AtHead, Pretested, HeadPassed, Typed, Walk
  <1>5. \E r \in pkg.routes[pkg.loop.tail] : walk' \in EnqueueFrom(u, r)
    BY DEF SkipLoop
  <1> HIDE DEF u
  <1>6. pkg.loop.count = 0
    <2>1. pkg.loop.type = "for" /\ pkg.loop.count \in Nat
      BY CountedFacts
    <2>2. ~(pkg.loop.count > 0)
      <3>1. EntryTests(walk) = {pkg.loop.count > 0}
        BY <2>1, ForTests
      <3> QED BY <3>1 DEF SkipLoop
    <2> QED BY <2>1, <2>2
  <1>7. RoutedCount(walk')
    BY <1>3, <1>4, <1>5, <1>6 DEF RoutedCount
  <1>8. v = walk' \/ (v = saved /\ v # None)
    BY DEF SkipLoop, row, LiveWalks
  <1> QED BY <1>7, <1>8, CountKeptSaved DEF ShapedCount

LEMMA RanEntered ==
    ASSUME TypeInv, NEW s \in Steps, Executing(s), NEW items \in 0..Unlatched
    PROVE  Ran(s, items).entered = walk.entered
  <1> DEFINE trace == Append(walk.trace, [step |-> s, pass |-> walk.iteration])
             tries == [walk.tries EXCEPT ![s] = 0]
             derived == IF InBody(s) /\ local.minted THEN walk.derived \cup {s}
                        ELSE walk.derived
             waited == walk.waited \ {s}
             visited == walk.visited \cup {s}
  <1>1. walk \in Walk
    BY Walking DEF Executing, Typed
  <1>2. Ran(s, items) = [walk EXCEPT !.queue = Tail(@), !.visited = visited,
                         !.trace = trace, !.tries = tries, !.waited = waited,
                         !.items = items, !.derived = derived]
    BY DEF Ran
  <1> HIDE DEF trace, tries, derived, waited, visited
  <1> QED BY <1>1, <1>2 DEF Walk

LEMMA StepDoneCount ==
    ASSUME TypeInv, CountedChain(pkg), NEW v \in LiveWalks', NEW s \in Steps, StepDone(s)
    PROVE  ShapedCount(v)
  <1>1. PICK r \in pkg.routes[s], items \in ItemsAfter(walk, s) :
            /\ AtTail(s) /\ r.back => FALSE \in ContinueTests(Ran(s, items))
            /\ walk' \in EnqueueFrom(Ran(s, items), r)
    BY DEF StepDone
  <1>2. Typed(walk) /\ Executing(s) /\ s = Head(walk.queue)
    BY Walking DEF StepDone, Executing
  <1>3. items \in 0..Unlatched
    BY <1>1, <1>2, ItemsLatched
  <1> DEFINE u == Ran(s, items)
  <1>4. /\ u \in Walk /\ HeadRan(u) /\ u.entered = walk.entered
        /\ u.iteration = walk.iteration
    BY <1>2, <1>3, RanRoute, RanEntered DEF HeadRan
  <1>5. Head(walk.queue) = pkg.loop.tail /\ r.back =>
            ~(walk.iteration + 1 < pkg.loop.count)
    <2>1. pkg.loop.type = "for" /\ Looping
      BY CountedFacts
    <2> HIDE DEF u
    <2>2. FALSE \in ContinueTests(u) => ~(u.iteration + 1 < pkg.loop.count)
      <3>1. ContinueTests(u) = {u.iteration + 1 < pkg.loop.count}
        BY <2>1, ForTests
      <3> QED BY <3>1
    <2> QED BY <1>1, <1>2, <1>4, <2>1, <2>2 DEF AtTail, u
  <1>6. walk' \in EnqueueFrom(u, r)
    BY <1>1
  <1>7. r \in Routes
    BY <1>1, PackageFacts DEF TypeInv
  <1> HIDE DEF u
  <1>8. walk'.entered = u.entered
    <2>1. PICK js \in SetToSeqs(ReadyJoins(u, r)) :
              walk' = [u EXCEPT !.queue = js \o (u.queue \o r.plain),
                                !.arrivals = u.arrivals \cup r.joins]
      BY <1>6 DEF EnqueueFrom
    <2> QED BY <1>4, <2>1 DEF Walk
  <1>9. RoutedCount(walk')
    BY <1>1, <1>2, <1>4, <1>5, <1>6, <1>8 DEF RoutedCount
  <1>10. v = walk' \/ (v = saved /\ v # None)
    BY DEF StepDone, row, LiveWalks
  <1> QED BY <1>9, <1>10, CountKeptSaved DEF ShapedCount

LEMMA NextPassCount ==
    ASSUME TypeInv, CountedChain(pkg), NEW v \in LiveWalks', NEW s \in Steps,
           NextPass(s) \/ NextPassLater(s)
    PROVE  ShapedCount(v)
  <1>1. walk.iteration + 1 < pkg.loop.count
    <2>1. PICK items \in 0..Unlatched : Continues(s, items)
      BY DEF NextPass, NextPassLater
    <2>2. Ran(s, items).iteration = walk.iteration
      BY <2>1, RanTyped DEF Continues
    <2>3. pkg.loop.type = "for"
      BY CountedFacts
    <2>4. TRUE \in ContinueTests(Ran(s, items))
      BY <2>1 DEF Continues
    <2>5. ContinueTests(Ran(s, items)) = {Ran(s, items).iteration + 1 < pkg.loop.count}
      BY <2>3, ForTests
    <2> QED BY <2>2, <2>4, <2>5
  <1>2. CASE NextPass(s)
    <2>1. Reopened(walk')
      <3>1. PICK items \in 0..Unlatched : Continues(s, items) /\ walk' = NextWalk(s, items)
        BY <1>2 DEF NextPass, NextWalk
      <3>2. SameRoute(walk', NextWalk(s, items))
        BY <3>1 DEF SameRoute
      <3> QED BY <3>1, <3>2, NextWalkReopened
    <2>2. v = walk' \/ (v = saved /\ v # None)
      BY <1>2 DEF NextPass, row, LiveWalks
    <2> QED BY <1>1, <2>1, <2>2, CountKeptSaved DEF ShapedCount, ReopenedCount
  <1>3. CASE NextPassLater(s)
    <2>1. v = saved'
      BY <1>3 DEF NextPassLater, Leave, Return, LiveWalks
    <2> QED BY <1>1, <1>3, <2>1, NextPassLaterReopened DEF ShapedCount, ReopenedCount
  <1> QED BY <1>2, <1>3

LEMMA StepsCount ==
    ASSUME TypeInv, CountedChain(pkg), [Next]_vars, NEW v \in LiveWalks'
    PROVE  ShapedCount(v)
  <1>1. CASE UNCHANGED vars
    <2>1. v \in LiveWalks
      BY <1>1 DEF vars, LiveWalks
    <2> QED BY <2>1 DEF ShapedCount, KeptCount, SameRoute
  <1>2. CASE RunnerStep
    <2>1. ASSUME NEW s \in Steps,
                 DropVisited(s) \/ SkipLoop(s) \/ AskOperator(s) \/ ParkWait(s) \/ Call(s)
          PROVE  ShapedCount(v)
      BY <2>1, DropCount, SkipCount, ParkingCount, CallCount
    <2>2. ASSUME NEW s \in Steps,
                 RetryNow(s) \/ RetryLater(s) \/ StepDone(s) \/ NextPass(s) \/ NextPassLater(s)
          PROVE  ShapedCount(v)
      BY <2>2, DropCount, ParkingCount, StepDoneCount, NextPassCount
    <2> QED BY <1>2, <2>1, <2>2, EndingCount DEF RunnerStep
  <1> QED BY <1>1, <1>2, StartingCount, EndingCount DEF Next

\* What executes at the entry has been pre-tested: Call opens the loop.
LEMMA StepPretested ==
    ASSUME TypeInv, CountedChain(pkg), EntryPretested, [Next]_vars
    PROVE  EntryPretested'
  <1> SUFFICES ASSUME phase' = "exec", (Head(walk.queue) = pkg.loop.entry)'
               PROVE  walk'.entered
    BY DEF EntryPretested
  <1>1. CASE UNCHANGED vars \/ WaitDue
    BY <1>1 DEF vars, WaitDue, EntryPretested
  <1>2. CASE \E s \in Steps : Call(s)
    <2>1. PICK s \in Steps : Call(s)
      BY <1>2
    <2>2. Taken(s) /\ Head(walk.queue) = s /\ pkg' = pkg
      BY <2>1 DEF Call, Taken, AtHead
    <2>3. walk'.entered = Opened(s).entered /\ walk'.queue = walk.queue
      BY <2>1, CallEntered
    <2>4. s = pkg.loop.entry
      BY <2>2, <2>3
    <2> QED BY <2>2, <2>3, <2>4, OpenedCount
  <1>3. CASE ~(UNCHANGED vars \/ WaitDue \/ \E s \in Steps : Call(s))
    <2>1. phase' \in {"idle", "head"}
      BY <1>3 DEF Next, StartFresh, Resume, Crash, RunnerStep, Finish, DropVisited,
           SkipLoop, AskOperator, ParkWait, RejectPolicy, StepRaises, OperationFails,
           RetryNow, RetryLater, StepDone, LoopLimit, NextPass, NextPassLater,
           FinishRun, Leave, Return, AtHead
    <2> QED BY <2>1
  <1> QED BY <1>1, <1>2, <1>3

LEMMA StepCountInv ==
    TypeInv /\ OnceInv /\ CountInv /\ [Next]_vars => CountInv'
  <1> SUFFICES ASSUME TypeInv, OnceInv, CountInv, [Next]_vars, CountedChain(pkg)'
               PROVE  (EntryPretested /\ \A w \in LiveWalks : OnTheWay(w) \/ LoopOver(w))'
    BY DEF CountInv
  <1>1. pkg' = pkg
    BY DEF vars, Next, StartFresh, Resume, WaitDue, Crash, RunnerStep, Finish, DropVisited,
           SkipLoop, AskOperator, ParkWait, RejectPolicy, Call, StepRaises, OperationFails,
           RetryNow, RetryLater, StepDone, LoopLimit, NextPass, NextPassLater
  <1>2. CountedChain(pkg)
    BY <1>1
  <1>3. EntryPretested'
    BY <1>2, StepPretested DEF CountInv
  <1>4. ASSUME NEW v \in LiveWalks' PROVE (OnTheWay(v) \/ LoopOver(v))'
    <2>1. OnTheWay(v) \/ LoopOver(v)
      BY <1>2, <1>4, StepsCount, CountShaped
    <2> QED BY <1>1, <2>1 DEF OnTheWay, LoopOver, EntryRuns
  <1> QED BY <1>3, <1>4

\* A `for` loop on a chain of unconditional steps runs its entry exactly `count` times,
\* none if the count is zero, whatever parks, retries, crashes and resumes there are,
\* whatever follows the loop.
THEOREM CountedLoopRunsCount == Spec => [](CountedChain(pkg) => CountedPasses)
  <1>1. Init => TypeInv /\ OnceInv /\ CountInv
    BY InitType
    DEF Init, OnceInv, ExecutesUnvisited, CountInv, EntryPretested, LiveWalks
  <1>2. TypeInv /\ OnceInv /\ CountInv /\ [Next]_vars => (TypeInv /\ OnceInv /\ CountInv)'
    BY StepType, StepOnceInv, StepCountInv
  <1>3. TypeInv /\ CountInv => (CountedChain(pkg) => CountedPasses)
    <2> SUFFICES ASSUME TypeInv, CountInv, CountedChain(pkg),
                        phase = "head", walk.queue = <<>>
                 PROVE  EntryRuns(walk) = pkg.loop.count
      BY DEF CountedPasses, EntryRuns
    <2>1. OnTheWay(walk) \/ LoopOver(walk)
      BY WalkIsLive DEF CountInv
    <2>2. ~OnTheWay(walk)
      BY DEF OnTheWay
    <2> QED BY <2>1, <2>2 DEF LoopOver
  <1> QED BY <1>1, <1>2, <1>3, PTL DEF Spec

=============================================================================
