---------------------------- MODULE ReindexProofs ----------------------------
(***************************************************************************)
(* Theorems about ReindexJob for any records, page size, tolerance, writes *)
(* and failures: the types, and that no request for a sweep is lost.       *)
(***************************************************************************)
EXTENDS ReindexJob, TLAPS

\* Init establishes the types.
LEMMA TypeInit == Init => TypeOK
  <1> SUFFICES ASSUME Init PROVE TypeOK
    OBVIOUS
  <1>1. 0 \in Versions /\ 0 \in 0..(Tolerance - 1) /\ 0 \in 0..MaxWrites /\ 0 \in 0..MaxFailures
    BY ReindexAssumption DEF Versions
  <1> QED BY <1>1 DEF Init, TypeOK

\* The end of a sweep has the types of its start.
LEMMA EndTyped == EndSweep => seen' \subseteq Records /\ page' \subseteq Records \X Versions
                              /\ at' = None /\ streak' \in 0..(Tolerance - 1) /\ pc' = "top"
  BY ReindexAssumption DEF EndSweep

\* Every step keeps the types.
LEMMA TypeStep == TypeOK /\ [Next]_vars => TypeOK'
  <1> SUFFICES ASSUME TypeOK, [Next]_vars PROVE TypeOK'
    OBVIOUS
  <1> USE ReindexAssumption DEF TypeOK, records, job, walk
  <1>0. ASSUME failures < MaxFailures, failures' = failures + 1 PROVE failures' \in 0..MaxFailures
    BY <1>0
  <1>1. ASSUME NEW r \in Records, Update(r) PROVE TypeOK'
    BY <1>1 DEF Update, Versions
  <1>2. ASSUME NEW next \in {"idle", "request"}, MarkStale(next) PROVE TypeOK'
    BY <1>2 DEF MarkStale
  <1>3. CASE RequestSweep
    BY <1>3 DEF RequestSweep
  <1>4. CASE Top
    BY <1>4 DEF Top
  <1>5. CASE Woken
    BY <1>5 DEF Woken
  <1>6. CASE ReadPage
    <2>1. {<<r, text[r]>> : r \in FirstPage \ seen} \subseteq Records \X Versions
      <3>1. \A r \in FirstPage \ seen : r \in Records /\ text[r] \in Versions
        BY DEF FirstPage, Pending
      <3>2. ASSUME NEW row \in {<<r, text[r]>> : r \in FirstPage \ seen} PROVE row \in Records \X Versions
        <4>1. PICK r \in FirstPage \ seen : row = <<r, text[r]>>
          OBVIOUS
        <4> QED BY ONLY <3>1, <4>1
      <3> QED BY ONLY <3>2
    <2>2. CASE FirstPage \subseteq seen
      BY <1>6, <2>2, EndTyped DEF ReadPage, EndSweep
    <2>3. CASE ~(FirstPage \subseteq seen)
      BY <1>6, <2>1, <2>3 DEF ReadPage
    <2> QED BY <2>2, <2>3
  <1>7. CASE NextRow
    <2>1. ASSUME NEW row \in page, TakeRow(row) PROVE page' \subseteq Records \X Versions /\ seen' \subseteq Records
      BY <2>1 DEF TakeRow
    <2> QED BY <1>7, <2>1 DEF NextRow
  <1>8. CASE WriteVector
    <2>1. at[1] \in Records /\ at[2] \in Versions
      BY <1>8 DEF WriteVector
    <2>2. vec' \in [Records -> Versions \cup {None}]
      BY <1>8, <2>1 DEF WriteVector
    <2> QED BY <1>8, <2>2 DEF WriteVector
  <1>9. CASE EmbedFails
    <2>1. failures' \in 0..MaxFailures
      BY <1>0, <1>9 DEF EmbedFails
    <2>2. CASE TooMany(streak + 1)
      BY <1>9, <2>1, <2>2, EndTyped DEF EmbedFails, EndSweep
    <2>3. CASE ~TooMany(streak + 1)
      <3>1. streak + 1 \in 0..(Tolerance - 1)
        BY <2>3 DEF TooMany
      <3> QED BY <1>9, <2>1, <2>3, <3>1 DEF EmbedFails
    <2> QED BY <2>2, <2>3
  <1>10. CASE SweepFails
    BY <1>0, <1>10, EndTyped DEF SweepFails, EndSweep
  <1>11. CASE Restart
    <2>1. failures' \in 0..MaxFailures
      BY <1>0, <1>11 DEF Restart
    <2>2. 0 \in 0..(Tolerance - 1)
      OBVIOUS
    <2> QED BY <1>11, <2>1, <2>2 DEF Restart
  <1>12. CASE UNCHANGED vars
    BY <1>12 DEF vars
  <1> QED
    BY <1>1, <1>2, <1>3, <1>4, <1>5, <1>6, <1>7, <1>8, <1>9, <1>10, <1>11, <1>12
    DEF Next, Job, Sweep, Marking

\* Every step keeps the request: the loop lowers the flag of the event only when nothing is
\* pending, and the end of a sweep leaves what is pending alone.
LEMMA ServedStep == RequestsServed /\ [Next]_vars => RequestsServed'
  <1> SUFFICES ASSUME RequestsServed, [Next]_vars PROVE RequestsServed'
    OBVIOUS
  <1> USE DEF RequestsServed, records, job, walk
  <1>1. CASE Top \/ Woken
    BY <1>1 DEF Top, Woken
  <1>2. CASE Sweep
    <2>1. EndSweep => pc' = "top" /\ pending' = pending
      BY DEF EndSweep
    <2> QED BY <1>2, <2>1 DEF Sweep, ReadPage, NextRow, WriteVector, EmbedFails, SweepFails
  <1>3. CASE Marking
    BY <1>3 DEF Marking, MarkStale, RequestSweep
  <1>4. CASE Restart
    BY <1>4 DEF Restart
  <1>5. ASSUME NEW r \in Records, Update(r) PROVE RequestsServed'
    BY <1>5 DEF Update
  <1>6. CASE UNCHANGED vars
    BY <1>6 DEF vars
  <1> QED BY <1>1, <1>2, <1>3, <1>4, <1>5, <1>6 DEF Next, Job

-----------------------------------------------------------------------------
\* Theorem: records, the job's flags and the walk's locals keep their types; the streak of
\* failures never reaches the tolerance (reindex_label).
THEOREM ReindexTypes == Spec => []TypeOK
  <1> QED BY TypeInit, TypeStep, PTL DEF Spec

\* Theorem: a sweep that was asked for is never forgotten while the server lives, however
\* requests, sweeps and waits interleave (EmbeddingReindexJob: _loop, request).
THEOREM ReindexServesRequests == Spec => []RequestsServed
  <1>1. Init => RequestsServed
    BY DEF Init, RequestsServed
  <1> QED BY <1>1, ServedStep, PTL DEF Spec
=============================================================================
