----------------------------- MODULE ChatProofs ------------------------------
(***************************************************************************)
(* What holds of ChatSession for any threads, texts, batches and faults:   *)
(* the variables keep their types, and a hidden message never reaches the  *)
(* composer or the queue; what is typed once is said once; a change is     *)
(* applied once while its thread stays shown; and an idle thread is idle   *)
(* unless two of its turns overlapped.                                     *)
(***************************************************************************)
EXTENDS ChatSession, FiniteSetTheorems, SequenceTheorems, TLAPS

-----------------------------------------------------------------------------
(* The rows of the threads                                                 *)

\* What a thread's row is.
LEMMA RowFields ==
  ASSUME NEW d \in [Threads -> Row], NEW t \in Threads
  PROVE  /\ d[t].batches \in Seq(Batch) /\ d[t].said \in Seq(Messages)
         /\ d[t].turn \in {"idle", "running"} /\ d[t].made \in BOOLEAN
  BY DEF Row

\* One thread's row is replaced.
LEMMA RowSet ==
  ASSUME NEW d \in [Threads -> Row], NEW t \in Threads, NEW row \in Row
  PROVE  [d EXCEPT ![t] = row] \in [Threads -> Row]
  OBVIOUS

\* A batch of a thread is replaced; where there is none, nothing is.
LEMMA BatchSet ==
  ASSUME NEW d \in [Threads -> Row], NEW t \in Threads, NEW i, NEW b,
         i \in DOMAIN d[t].batches => b \in Batch
  PROVE  [d EXCEPT ![t].batches[i] = b] \in [Threads -> Row]
  <1> DEFINE old == d[t].batches
             new == [old EXCEPT ![i] = b]
             row == [d[t] EXCEPT !.batches = new]
  <1>1. old \in Seq(Batch)
    BY RowFields
  <1>2. new \in Seq(Batch)
    <2>1. CASE i \in DOMAIN old
      BY <1>1, <2>1, ExceptSeq
    <2>2. CASE i \notin DOMAIN old
      <3>1. new = old
        BY <1>1, <2>2
      <3> QED BY <1>1, <3>1
    <2> QED BY <2>1, <2>2
  <1> HIDE DEF new
  <1>3. row \in Row
    BY <1>2 DEF Row
  <1>4. [d EXCEPT ![t].batches[i] = b] = [d EXCEPT ![t] = row]
    BY DEF new
  <1> HIDE DEF row
  <1> QED BY <1>3, <1>4, RowSet

\* A field of a batch is set.
LEMMA FieldSet ==
  ASSUME NEW d \in [Threads -> Row], NEW t \in Threads, NEW i
  PROVE  /\ \A x \in Statuses : [d EXCEPT ![t].batches[i].status = x] \in [Threads -> Row]
         /\ \A x \in 0..2 : [d EXCEPT ![t].batches[i].settings = x] \in [Threads -> Row]
         /\ \A x \in 0..2 : [d EXCEPT ![t].batches[i].rest = x] \in [Threads -> Row]
  <1> DEFINE old == d[t].batches[i]
  <1>1. i \in DOMAIN d[t].batches => old \in Batch
    BY RowFields
  <1>2. ASSUME NEW x \in Statuses PROVE [d EXCEPT ![t].batches[i].status = x] \in [Threads -> Row]
    <2> DEFINE b == [old EXCEPT !.status = x]
    <2>1. i \in DOMAIN d[t].batches => b \in Batch
      BY <1>1 DEF Batch
    <2> QED BY <2>1, BatchSet
  <1>3. ASSUME NEW x \in 0..2 PROVE [d EXCEPT ![t].batches[i].settings = x] \in [Threads -> Row]
    <2> DEFINE b == [old EXCEPT !.settings = x]
    <2>1. i \in DOMAIN d[t].batches => b \in Batch
      BY <1>1 DEF Batch
    <2> QED BY <2>1, BatchSet
  <1>4. ASSUME NEW x \in 0..2 PROVE [d EXCEPT ![t].batches[i].rest = x] \in [Threads -> Row]
    <2> DEFINE b == [old EXCEPT !.rest = x]
    <2>1. i \in DOMAIN d[t].batches => b \in Batch
      BY <1>1 DEF Batch
    <2> QED BY <2>1, BatchSet
  <1> QED BY <1>2, <1>3, <1>4

-----------------------------------------------------------------------------
(* The invariant                                                           *)

StreamType == [pc : {"none", "posted", "accepted", "begun", "open", "reload", "broken"},
               text : MaybeText, thread : Tid, snap : Snapshot \cup {None}]
TaskType == [pc : {"none", "settings", "authoring", "rest", "rest failed", "reject", "thrown",
                   "answered", "reloaded", "sending"},
             kind : {"accept", "reject", None}, thread : Tid, queued : Texts \cup {None},
             streaming : BOOLEAN, finished : BOOLEAN, snap : Snapshot \cup {None}]
TurnType == [pc : {"spawned", "busy", "replied"}, thread : Tid, text : MaybeText,
             slot : Slots \cup {Orphan}]

\* A stream under way has its message, and so has the turn it started until the turn has
\* said it; one stream starts one turn.
StreamsLinked ==
    /\ \A slot \in Slots : streams[slot].pc # "none" => streams[slot].text \in Messages
    /\ \A u \in turns : u.pc = "spawned" =>
          u.text \in Messages /\ (u.slot # Orphan => streams[u.slot].pc = "accepted")
    /\ \A u, v \in turns :
          u.pc = "spawned" /\ v.pc = "spawned" /\ u.slot = v.slot /\ u.slot # Orphan => u = v

\* A turn that has begun has its thread, and an accept or reject under way has one.
ThreadsLinked ==
    /\ \A u \in turns : u.pc # "spawned" => u.thread \in Threads
    /\ task.pc \in {"settings", "authoring", "rest", "rest failed", "reject"} => task.thread \in Threads

\* The parts of TypeOK.
DbTyped      == db \in [Threads -> Row]
TurnsTyped   == turns \subseteq TurnType
ScreenTyped  == tid \in Tid /\ pending \in BOOLEAN /\ status \in {"idle", "running"}
InputTyped   == draft \in Texts \cup {None} /\ queued \in Texts \cup {None}
FlagsTyped   == streaming \in BOOLEAN /\ batchBusy \in BOOLEAN /\ opener \in BOOLEAN
StreamsTyped == streams \in [Slots -> StreamType]
TaskTyped    == task \in TaskType
FetchTyped   == fetch \in Snapshot \cup {None}
PastTyped    == typed \subseteq Texts /\ cut \subseteq Messages /\ torn \subseteq {"overlap", "batch", "server"}
                /\ faults \in 0..MaxFaults

CInv ==
    /\ DbTyped /\ TurnsTyped /\ ScreenTyped /\ InputTyped /\ FlagsTyped /\ StreamsTyped /\ TaskTyped
    /\ FetchTyped /\ PastTyped /\ StreamsLinked /\ ThreadsLinked

LEMMA PartsAreTypes == CInv => TypeOK
  BY DEF CInv, TypeOK, DbTyped, TurnsTyped, ScreenTyped, InputTyped, FlagsTyped, StreamsTyped, TaskTyped,
     FetchTyped, PastTyped, TurnType, StreamType, TaskType

LEMMA Empties == NoStream \in StreamType /\ NoTask \in TaskType
  BY DEF NoStream, NoTask, StreamType, TaskType, MaybeText, Tid

\* What a request reads of a thread is a snapshot.
LEMMA Snapshots == ASSUME DbTyped, NEW t \in Threads PROVE SnapshotOf(t) \in Snapshot
  BY RowFields DEF DbTyped, SnapshotOf, Snapshot

\* What a step leaves alone keeps its type.
LEMMA PartsStay ==
  ASSUME CInv
  PROVE  /\ UNCHANGED db => DbTyped'
         /\ UNCHANGED turns => TurnsTyped'
         /\ UNCHANGED screen => ScreenTyped'
         /\ UNCHANGED input => InputTyped'
         /\ UNCHANGED <<streaming, batchBusy, opener>> => FlagsTyped'
         /\ UNCHANGED streams => StreamsTyped'
         /\ UNCHANGED task => TaskTyped'
         /\ UNCHANGED fetch => FetchTyped'
         /\ UNCHANGED <<typed, history>> => PastTyped'
         /\ UNCHANGED <<streams, turns>> => StreamsLinked'
         /\ UNCHANGED <<turns, task>> => ThreadsLinked'
  BY DEF CInv, DbTyped, TurnsTyped, ScreenTyped, InputTyped, FlagsTyped, StreamsTyped, TaskTyped,
     FetchTyped, PastTyped, StreamsLinked, ThreadsLinked, screen, input, history

-----------------------------------------------------------------------------
(* The composer, the thread list and the poll                              *)

\* send, past its early returns: a stream of its own.
LEMMA SendTyped ==
  ASSUME CInv, NEW slot \in Slots, NEW text \in Messages, Open(slot), Send(slot, text)
  PROVE  /\ StreamsTyped' /\ streaming' = TRUE
         /\ UNCHANGED turns => StreamsLinked'
  <1> DEFINE stream == [NoStream EXCEPT !.pc = "posted", !.text = text, !.thread = tid]
  <1>1. stream \in StreamType /\ stream.pc = "posted" /\ stream.text = text
    BY Empties DEF StreamType, MaybeText, CInv, ScreenTyped
  <1>2. streams' = [streams EXCEPT ![slot] = stream] /\ streams \in [Slots -> StreamType]
    BY DEF Send, CInv, StreamsTyped
  <1> HIDE DEF stream
  <1>3. streams' \in [Slots -> StreamType]
        /\ \A q \in Slots : streams'[q] = IF q = slot THEN stream ELSE streams[q]
    BY <1>1, <1>2
  <1>4. streams[slot].pc = "none"
    BY DEF Open
  <1>5. UNCHANGED turns => StreamsLinked'
    BY <1>1, <1>3, <1>4 DEF CInv, StreamsLinked, TurnsTyped, TurnType
  <1> QED BY <1>3, <1>5 DEF Send, StreamsTyped

LEMMA ComposeKeeps == ASSUME CInv, Compose \/ Browse \/ SendOpener PROVE CInv'
  <1> USE PartsStay
  <1>1. ASSUME NEW m \in Texts, Type(m) PROVE CInv'
    <2>1. InputTyped' /\ PastTyped'
      BY <1>1 DEF Type, CInv, InputTyped, PastTyped, history
    <2> QED BY <1>1, <2>1 DEF Type, CInv, server
  <1>2. CASE ClearQueue
    <2>1. InputTyped'
      BY <1>2 DEF ClearQueue, CInv, InputTyped
    <2> QED BY <1>2, <2>1 DEF ClearQueue, CInv, server
  <1>3. CASE SubmitDraft
    <2>1. CASE pending
      <3>1. InputTyped'
        BY <1>3, <2>1 DEF SubmitDraft, CInv, InputTyped
      <3> QED BY <1>3, <2>1, <3>1 DEF SubmitDraft, CInv, server
    <2>2. CASE ~pending
      <3>1. draft \in Messages /\ Open("composer") /\ Send("composer", draft) /\ "composer" \in Slots
        BY <1>3, <2>2 DEF SubmitDraft, CInv, InputTyped, Messages, Slots
      <3>2. StreamsTyped' /\ StreamsLinked' /\ FlagsTyped'
        BY <1>3, <3>1, SendTyped DEF SubmitDraft, server, CInv, FlagsTyped
      <3>3. InputTyped'
        BY <1>3, <2>2 DEF SubmitDraft, CInv, InputTyped
      <3> QED BY <1>3, <2>2, <3>2, <3>3 DEF SubmitDraft, CInv, server
    <2> QED BY <2>1, <2>2
  <1>4. CASE SendOpener
    <2>1. Follow \in Messages /\ Open("opener") /\ Send("opener", Follow) /\ "opener" \in Slots
      BY <1>4 DEF SendOpener, Messages, Slots
    <2>2. StreamsTyped' /\ StreamsLinked' /\ FlagsTyped'
      BY <1>4, <2>1, SendTyped DEF SendOpener, server, CInv, FlagsTyped
    <2> QED BY <1>4, <2>2 DEF SendOpener, CInv, server
  <1>5. CASE NewThread
    <2>1. ScreenTyped' /\ InputTyped'
      BY <1>5 DEF NewThread, CInv, ScreenTyped, InputTyped, Tid
    <2> QED BY <1>5, <2>1 DEF NewThread, CInv, server
  <1>6. CASE Poll \/ \E t \in Threads : OpenThread(t)
    <2>1. \E t \in Threads : fetch' = SnapshotOf(t)
      BY <1>6 DEF Poll, OpenThread, CInv, ScreenTyped, Tid
    <2>2. FetchTyped'
      BY <2>1, Snapshots DEF CInv, FetchTyped
    <2>3. UNCHANGED <<server, screen, input, streaming, batchBusy, opener, streams, task, typed, history>>
      BY <1>6 DEF Poll, OpenThread
    <2> QED BY <2>2, <2>3 DEF CInv, server
  <1>7. CASE FetchArrives
    <2>1. ScreenTyped' /\ FetchTyped'
      BY <1>7 DEF FetchArrives, ApplyThread, CInv, ScreenTyped, FetchTyped, Snapshot, Tid
    <2> QED BY <1>7, <2>1 DEF FetchArrives, CInv, server
  <1> QED BY <1>1, <1>2, <1>3, <1>4, <1>5, <1>6, <1>7 DEF Compose, Browse

-----------------------------------------------------------------------------
(* Turns and streams                                                       *)

\* One stream changes.
LEMMA StreamSet ==
  ASSUME StreamsTyped, NEW slot \in Slots, NEW stream \in StreamType, streams' = [streams EXCEPT ![slot] = stream]
  PROVE  StreamsTyped' /\ \A q \in Slots : streams'[q] = IF q = slot THEN stream ELSE streams[q]
  BY DEF StreamsTyped

\* Only its step changes.
LEMMA StreamMoves ==
  ASSUME StreamsTyped, NEW slot \in Slots,
         NEW pc \in {"none", "posted", "accepted", "begun", "open", "reload", "broken"}, Move(slot, pc)
  PROVE  /\ StreamsTyped' /\ \A q \in Slots \ {slot} : streams'[q] = streams[q]
         /\ streams'[slot].pc = pc /\ streams'[slot].text = streams[slot].text
  <1> DEFINE stream == [streams[slot] EXCEPT !.pc = pc]
  <1>1. streams[slot] \in StreamType
    BY DEF StreamsTyped
  <1>2. stream \in StreamType /\ stream.pc = pc /\ stream.text = streams[slot].text
    BY <1>1 DEF StreamType
  <1>3. streams' = [streams EXCEPT ![slot] = stream]
    BY DEF Move
  <1> HIDE DEF stream
  <1>4. StreamsTyped' /\ \A q \in Slots : streams'[q] = IF q = slot THEN stream ELSE streams[q]
    BY <1>2, <1>3, StreamSet
  <1> QED BY <1>2, <1>4

\* A message is given back to the user, unless it is hidden.
LEMMA GivenBack ==
  ASSUME CInv, NEW slot \in Slots, streams[slot].pc # "none", NEW reason, GiveBack(slot, reason)
  PROVE  /\ StreamsTyped' /\ InputTyped' /\ streaming' = FALSE /\ streams[slot].text \in Messages
         /\ \A q \in Slots : streams'[q] = IF q = slot THEN NoStream ELSE streams[q]
  <1>1. StreamsTyped' /\ \A q \in Slots : streams'[q] = IF q = slot THEN NoStream ELSE streams[q]
    BY Empties, StreamSet DEF GiveBack, CInv
  <1>2. streams[slot].text \in Messages
    BY DEF CInv, StreamsLinked
  <1>3. InputTyped'
    BY <1>2 DEF GiveBack, CInv, InputTyped, Messages, input
  <1> QED BY <1>1, <1>2, <1>3 DEF GiveBack

LEMMA StartTurnKeeps == ASSUME CInv, NEW slot \in Slots, StartTurn(slot) PROVE CInv'
  <1> USE PartsStay
  <1> DEFINE u == [pc |-> "spawned", thread |-> streams[slot].thread, text |-> streams[slot].text, slot |-> slot]
  <1>1. streams[slot] \in StreamType /\ streams[slot].pc = "posted" /\ streams[slot].text \in Messages
    BY DEF StartTurn, CInv, StreamsTyped, StreamsLinked
  <1>2. /\ StreamsTyped' /\ \A q \in Slots \ {slot} : streams'[q] = streams[q]
        /\ streams'[slot].pc = "accepted" /\ streams'[slot].text = streams[slot].text
    BY StreamMoves DEF StartTurn, CInv
  <1>3. turns' = turns \cup {u} /\ u \in TurnType /\ u.pc = "spawned" /\ u.text = streams[slot].text /\ u.slot = slot
    BY <1>1 DEF StartTurn, StreamType, TurnType
  <1> HIDE DEF u
  <1>4. TurnsTyped' /\ ThreadsLinked'
    BY <1>3 DEF StartTurn, CInv, TurnsTyped, ThreadsLinked
  <1>5. \A v \in turns : v.pc = "spawned" => v.slot # slot
    BY <1>1, <1>2 DEF CInv, StreamsLinked, Slots, Orphan
  <1>6. \A v \in turns : v.slot # Orphan => v.slot \in Slots
    BY DEF CInv, TurnsTyped, TurnType
  <1>7. StreamsLinked'
    BY <1>1, <1>2, <1>3, <1>5, <1>6 DEF CInv, StreamsLinked
  <1>8. PastTyped'
    BY DEF StartTurn, CInv, PastTyped
  <1> QED BY <1>2, <1>4, <1>7, <1>8 DEF StartTurn, CInv

LEMMA RefuseTurnKeeps == ASSUME CInv, NEW slot \in Slots, RefuseTurn(slot) PROVE CInv'
  <1> USE PartsStay
  <1>1. /\ StreamsTyped' /\ InputTyped' /\ streaming' = FALSE
        /\ \A q \in Slots : streams'[q] = IF q = slot THEN NoStream ELSE streams[q]
        /\ streams[slot].pc = "posted"
    BY GivenBack DEF RefuseTurn
  <1>2. FlagsTyped'
    BY <1>1 DEF RefuseTurn, CInv, FlagsTyped
  <1>3. StreamsLinked'
    BY <1>1 DEF RefuseTurn, CInv, StreamsLinked, TurnsTyped, TurnType, NoStream, server
  <1> QED BY <1>1, <1>2, <1>3 DEF RefuseTurn, CInv, server

LEMMA BeginTurnKeeps == ASSUME CInv, NEW t \in Threads, NEW u, BeginTurn(t, u) PROVE CInv'
  <1> USE PartsStay
  <1> DEFINE v == [u EXCEPT !.pc = "busy", !.thread = t, !.text = None]
             row == [db[t] EXCEPT !.made = TRUE, !.turn = "running", !.said = Append(db[t].said, u.text)]
  <1>1. u \in turns /\ u \in TurnType /\ u.pc = "spawned" /\ u.text \in Messages /\ u.slot \in Slots \cup {Orphan}
    BY DEF BeginTurn, CInv, TurnsTyped, TurnType, StreamsLinked
  <1>2. v \in TurnType /\ v.pc = "busy" /\ v.thread = t
    BY <1>1 DEF TurnType, Tid, MaybeText
  <1>3. turns' = (turns \ {u}) \cup {v}
    BY DEF BeginTurn
  <1>4. row \in Row
    <2>1. Append(db[t].said, u.text) \in Seq(Messages)
      BY <1>1, RowFields, AppendProperties DEF CInv, DbTyped
    <2> HIDE DEF v
    <2>2. db[t] \in Row
      BY DEF CInv, DbTyped
    <2> QED BY <2>1, <2>2 DEF Row
  <1>5. db' = [db EXCEPT ![t] = row]
    BY DEF BeginTurn
  <1> HIDE DEF v, row
  <1>6. DbTyped' /\ TurnsTyped' /\ ThreadsLinked'
    <2>1. DbTyped'
      BY <1>4, <1>5 DEF CInv, DbTyped
    <2>2. TurnsTyped' /\ ThreadsLinked'
      BY <1>2, <1>3 DEF BeginTurn, CInv, TurnsTyped, ThreadsLinked
    <2> QED BY <2>1, <2>2
  <1>7. CASE u.slot = Orphan
    <2>1. UNCHANGED streams
      BY <1>7 DEF BeginTurn
    <2>2. StreamsLinked'
      BY <1>2, <1>3, <2>1 DEF CInv, StreamsLinked
    <2> QED BY <1>6, <2>1, <2>2 DEF BeginTurn, CInv
  <1>8. CASE u.slot # Orphan
    <2> DEFINE s == u.slot
               stream == [streams[s] EXCEPT !.pc = "begun", !.thread = t]
    <2>1. s \in Slots /\ streams[s] \in StreamType /\ streams[s].pc = "accepted" /\ streams[s].text \in Messages
      BY <1>1, <1>8 DEF CInv, StreamsTyped, StreamsLinked
    <2>2. stream \in StreamType /\ stream.text = streams[s].text
      BY <2>1 DEF StreamType, Tid
    <2>3. streams' = [streams EXCEPT ![s] = stream]
      BY <1>8 DEF BeginTurn
    <2> HIDE DEF stream
    <2>4. StreamsTyped' /\ \A q \in Slots : streams'[q] = IF q = s THEN stream ELSE streams[q]
      BY <2>1, <2>2, <2>3, StreamSet DEF CInv
    <2>5. \A w \in turns \ {u} : w.pc = "spawned" => w.slot # s
      BY <1>1, <1>8 DEF CInv, StreamsLinked
    <2>6. \A w \in turns : w.slot # Orphan => w.slot \in Slots
      BY DEF CInv, TurnsTyped, TurnType
    <2>7. StreamsLinked'
      BY <1>2, <1>3, <2>1, <2>2, <2>4, <2>5, <2>6 DEF CInv, StreamsLinked
    <2> QED BY <1>6, <2>4, <2>7 DEF BeginTurn, CInv
  <1> QED BY <1>7, <1>8

LEMMA ReplyKeeps == ASSUME CInv, NEW u, NEW shape \in Shapes \cup {None}, Reply(u, shape) PROVE CInv'
  <1> USE PartsStay
  <1> DEFINE v == [u EXCEPT !.pc = "replied"]
             batches == IF shape = None THEN db[u.thread].batches ELSE Append(db[u.thread].batches, Proposed(shape))
             row == [db[u.thread] EXCEPT !.batches = batches]
  <1>1. u \in turns /\ u \in TurnType /\ u.pc = "busy" /\ u.thread \in Threads
    BY DEF Reply, CInv, TurnsTyped, ThreadsLinked
  <1>2. v \in TurnType /\ v.pc = "replied" /\ v.thread = u.thread
    BY <1>1 DEF TurnType
  <1>3. batches \in Seq(Batch)
    <2>1. shape # None => Proposed(shape) \in Batch
      BY DEF Proposed, Batch, Statuses
    <2> QED BY <1>1, <2>1, RowFields, AppendProperties DEF CInv, DbTyped
  <1>4. turns' = (turns \ {u}) \cup {v} /\ db' = [db EXCEPT ![u.thread] = row]
    BY DEF Reply
  <1> HIDE DEF v, batches
  <1>5. row \in Row
    BY <1>1, <1>3 DEF CInv, DbTyped, Row
  <1> HIDE DEF row
  <1>6. DbTyped' /\ TurnsTyped' /\ ThreadsLinked'
    <2>1. DbTyped'
      BY <1>1, <1>4, <1>5 DEF CInv, DbTyped
    <2>2. TurnsTyped' /\ ThreadsLinked'
      BY <1>1, <1>2, <1>4 DEF Reply, CInv, TurnsTyped, ThreadsLinked
    <2> QED BY <2>1, <2>2
  <1>7. StreamsLinked'
    BY <1>2, <1>4 DEF Reply, CInv, StreamsLinked
  <1> QED BY <1>6, <1>7 DEF Reply, CInv

LEMMA EndTurnKeeps == ASSUME CInv, NEW u, EndTurn(u) PROVE CInv'
  <1> USE PartsStay
  <1> DEFINE row == [db[u.thread] EXCEPT !.turn = "idle"]
  <1>1. u.thread \in Threads /\ turns' = turns \ {u} /\ db' = [db EXCEPT ![u.thread] = row]
    BY DEF EndTurn, CInv, TurnsTyped, ThreadsLinked
  <1>2. row \in Row
    BY <1>1 DEF CInv, DbTyped, Row
  <1> HIDE DEF row
  <1>3. DbTyped' /\ TurnsTyped' /\ ThreadsLinked' /\ StreamsLinked'
    <2>1. DbTyped'
      BY <1>1, <1>2 DEF CInv, DbTyped
    <2>2. TurnsTyped' /\ ThreadsLinked' /\ StreamsLinked'
      BY <1>1 DEF EndTurn, CInv, TurnsTyped, ThreadsLinked, StreamsLinked
    <2> QED BY <2>1, <2>2
  <1> QED BY <1>3 DEF EndTurn, CInv

\* Steps of a stream that start no turn and give nothing back.
LEMMA StreamKeeps ==
  ASSUME CInv, NEW slot \in Slots, StartEvent(slot) \/ StreamEnds(slot) \/ StreamDone(slot)
  PROVE  CInv'
  <1> USE PartsStay
  <1>1. ASSUME streams[slot].pc \in {"begun", "open", "reload"}, UNCHANGED turns,
               \A q \in Slots \ {slot} : streams'[q] = streams[q],
               streams'[slot].pc # "none" => streams'[slot].text \in Messages
        PROVE  StreamsLinked'
    BY <1>1 DEF CInv, StreamsLinked, TurnsTyped, TurnType
  <1>2. streams[slot] \in StreamType /\ (streams[slot].pc # "none" => streams[slot].text \in Messages)
    BY DEF CInv, StreamsTyped, StreamsLinked
  <1>3. CASE StartEvent(slot)
    <2>1. /\ StreamsTyped' /\ \A q \in Slots \ {slot} : streams'[q] = streams[q]
          /\ streams'[slot].pc = "open" /\ streams'[slot].text = streams[slot].text
      BY <1>3, StreamMoves DEF StartEvent, CInv
    <2>2. StreamsLinked'
      BY <1>1, <1>2, <1>3, <2>1 DEF StartEvent, server
    <2>3. ScreenTyped'
      BY <1>2, <1>3 DEF StartEvent, CInv, ScreenTyped, StreamType
    <2> QED BY <1>3, <2>1, <2>2, <2>3 DEF StartEvent, CInv, server
  <1>4. CASE StreamEnds(slot)
    <2> DEFINE snap == IF tid = None THEN None ELSE SnapshotOf(tid)
               stream == [streams[slot] EXCEPT !.pc = "reload", !.snap = snap]
    <2>1. snap \in Snapshot \cup {None}
      BY Snapshots DEF CInv, ScreenTyped, Tid
    <2>2. streams' = [streams EXCEPT ![slot] = stream]
      BY <1>4 DEF StreamEnds
    <2> HIDE DEF snap
    <2>3. stream \in StreamType /\ stream.text = streams[slot].text
      BY <1>2, <2>1 DEF StreamType
    <2> HIDE DEF stream
    <2>4. StreamsTyped' /\ \A q \in Slots : streams'[q] = IF q = slot THEN stream ELSE streams[q]
      BY <2>2, <2>3, StreamSet DEF CInv
    <2>5. StreamsLinked'
      BY <1>1, <1>2, <1>4, <2>3, <2>4 DEF StreamEnds, server
    <2> QED BY <1>4, <2>4, <2>5 DEF StreamEnds, CInv, server
  <1>5. CASE StreamDone(slot)
    <2>1. StreamsTyped' /\ \A q \in Slots : streams'[q] = IF q = slot THEN NoStream ELSE streams[q]
      BY <1>5, Empties, StreamSet DEF StreamDone, CInv
    <2>2. StreamsLinked'
      BY <1>1, <1>5, <2>1 DEF StreamDone, NoStream, server
    <2>3. ScreenTyped'
      <3>1. streams[slot].snap \in Snapshot \cup {None}
        BY <1>2 DEF StreamType
      <3> QED BY <1>5, <3>1 DEF StreamDone, ApplyThread, CInv, ScreenTyped, Snapshot, Tid, screen
    <2>4. FlagsTyped'
      BY <1>5 DEF StreamDone, CInv, FlagsTyped
    <2> QED BY <1>5, <2>1, <2>2, <2>3, <2>4 DEF StreamDone, CInv, server
  <1> QED BY <1>3, <1>4, <1>5

-----------------------------------------------------------------------------
(* accept and reject                                                       *)

Threaded == {"settings", "authoring", "rest", "rest failed", "reject"}

LEMMA TaskThread == ASSUME CInv, task.pc \in Threaded PROVE task.thread \in Threads
  BY DEF CInv, ThreadsLinked, Threaded

\* Steps that change the task, and perhaps a batch.
LEMMA TaskStep ==
  ASSUME CInv, NEW new \in TaskType, task' = new, new.pc \in Threaded => new.thread \in Threads,
         UNCHANGED <<turns, streams>>, DbTyped', ScreenTyped', InputTyped', FlagsTyped',
         UNCHANGED <<fetch, typed, history>>
  PROVE  CInv'
  <1>1. TaskTyped' /\ ThreadsLinked'
    BY DEF CInv, TaskTyped, ThreadsLinked, Threaded
  <1> QED BY <1>1, PartsStay DEF CInv

LEMMA AcceptKeeps == ASSUME CInv, Accept \/ Reject PROVE CInv'
  <1> DEFINE Task(pc, kind) == [NoTask EXCEPT !.pc = pc, !.kind = kind, !.thread = tid, !.queued = queued,
                                              !.streaming = streaming]
  <1>1. /\ Task("settings", "accept") \in TaskType /\ Task("settings", "accept").thread = tid
        /\ Task("reject", "reject") \in TaskType /\ Task("reject", "reject").thread = tid
    BY Empties DEF TaskType, CInv, ScreenTyped, InputTyped, FlagsTyped
  <1>2. tid \in Threads
    BY DEF Accept, Reject, CInv, ScreenTyped, Tid
  <1>3. task' = Task("settings", "accept") \/ task' = Task("reject", "reject")
    BY DEF Accept, Reject
  <1> HIDE DEF Task
  <1>4. FlagsTyped'
    BY DEF Accept, Reject, CInv, FlagsTyped
  <1>5. DbTyped' /\ ScreenTyped' /\ InputTyped' /\ UNCHANGED <<turns, streams>>
        /\ UNCHANGED <<fetch, typed, history>>
    BY PartsStay DEF Accept, Reject, server, CInv
  <1> QED BY <1>1, <1>2, <1>3, <1>4, <1>5, TaskStep

\* Task steps that leave its thread.
LEMMA TaskMoves ==
  ASSUME CInv
  PROVE  /\ [task EXCEPT !.pc = "answered"] \in TaskType
         /\ [task EXCEPT !.pc = "answered", !.finished = TRUE] \in TaskType
         /\ [task EXCEPT !.pc = "answered"].pc = "answered"
         /\ [task EXCEPT !.pc = "answered", !.finished = TRUE].pc = "answered"
         /\ [task EXCEPT !.pc = "authoring"] \in TaskType /\ [task EXCEPT !.pc = "authoring"].thread = task.thread
         /\ [task EXCEPT !.pc = "thrown"] \in TaskType /\ [task EXCEPT !.pc = "thrown"].pc = "thrown"
         /\ \A pc \in {"rest", "rest failed"} : \A t \in Threads :
               [task EXCEPT !.pc = pc, !.thread = t] \in TaskType /\ [task EXCEPT !.pc = pc, !.thread = t].thread = t
         /\ \A snap \in Snapshot \cup {None} :
               [task EXCEPT !.pc = "reloaded", !.snap = snap] \in TaskType
               /\ [task EXCEPT !.pc = "reloaded", !.snap = snap].pc = "reloaded"
  <1>1. task \in TaskType
    BY DEF CInv, TaskTyped
  <1> QED BY <1>1 DEF TaskType, Tid

LEMMA BumpType == ASSUME NEW n \in 0..2 PROVE Bump(n) \in 0..2
  BY DEF Bump

\* Where a batch is read, its counts are counts.
LEMMA Bumped ==
  ASSUME DbTyped, NEW t \in Threads, NEW i
  PROVE  /\ [db EXCEPT ![t].batches[i].settings = Bump(@)] \in [Threads -> Row]
         /\ \A s \in Statuses :
               [Finish(t, i, s) EXCEPT ![t].batches[i].rest = IF task.pc = "rest" THEN Bump(@) ELSE @]
                  \in [Threads -> Row]
  <1>1. ASSUME NEW d \in [Threads -> Row]
        PROVE  /\ [d EXCEPT ![t].batches[i].settings = Bump(@)] \in [Threads -> Row]
               /\ [d EXCEPT ![t].batches[i].rest = IF task.pc = "rest" THEN Bump(@) ELSE @] \in [Threads -> Row]
    <2> DEFINE old == d[t].batches[i]
               n == IF task.pc = "rest" THEN Bump(old.rest) ELSE old.rest
               b == [old EXCEPT !.settings = Bump(old.settings)]
               c == [old EXCEPT !.rest = n]
    <2>1. i \in DOMAIN d[t].batches => old \in Batch
      BY RowFields
    <2>2. i \in DOMAIN d[t].batches => n \in 0..2
      BY <2>1, BumpType DEF Batch
    <2>3. i \in DOMAIN d[t].batches => b \in Batch
      BY <2>1, BumpType DEF Batch
    <2>4. [d EXCEPT ![t].batches[i] = b] \in [Threads -> Row]
      BY <2>3, BatchSet
    <2> HIDE DEF n
    <2>5. i \in DOMAIN d[t].batches => c \in Batch
      BY <2>1, <2>2 DEF Batch
    <2>6. [d EXCEPT ![t].batches[i] = c] \in [Threads -> Row]
      BY <2>5, BatchSet
    <2> QED BY <2>4, <2>6 DEF n
  <1>2. \A s \in Statuses : Finish(t, i, s) \in [Threads -> Row]
    BY FieldSet DEF Finish, DbTyped
  <1> QED BY <1>1, <1>2 DEF DbTyped

\* The server's part of accept and reject.
LEMMA SettleKeeps ==
  ASSUME CInv,
         \/ \E outcome \in {"invalid", "failed", "ok"} : AcceptSettings(outcome)
         \/ \E b \in BOOLEAN : Author(b) \/ AcceptRest(b)
         \/ RejectBatch \/ AcceptThrows \/ Reload
  PROVE  CInv'
  <1> DEFINE t == task.thread
             i == Newest(t)
             done == [task EXCEPT !.pc = "answered", !.finished = TRUE]
  <1> USE PartsStay
  <1>1. CASE \E outcome \in {"invalid", "failed", "ok"} : AcceptSettings(outcome)
    <2> DEFINE applied == [db EXCEPT ![t].batches[i].settings = Bump(@)]
    <2>1. t \in Threads
      BY <1>1, TaskThread DEF AcceptSettings, Threaded
    <2>2. applied \in [Threads -> Row]
      BY <2>1, Bumped DEF CInv
    <2>3. /\ UNCHANGED <<turns, screen, input, streaming, batchBusy, opener, streams, fetch, typed, history>>
          /\ \/ db' \in {db, applied, [applied EXCEPT ![t].batches[i].status = "partial"],
                         [applied EXCEPT ![t].batches[i].status = "accepted"]}
          /\ task' \in {[task EXCEPT !.pc = "answered"], done, [task EXCEPT !.pc = "authoring"]}
      <3> HIDE DEF applied
      <3> QED BY <1>1 DEF AcceptSettings, applied
    <2> HIDE DEF applied
    <2>4. DbTyped'
      <3>1. \A s \in Statuses : [applied EXCEPT ![t].batches[i].status = s] \in [Threads -> Row]
        BY <2>1, <2>2, FieldSet
      <3> HIDE DEF i, t
      <3> QED BY <2>2, <2>3, <3>1 DEF DbTyped, CInv, Statuses
    <2>5. task' \in TaskType /\ (task'.pc \in Threaded => task'.thread \in Threads)
      BY <2>1, <2>3, TaskMoves DEF Threaded
    <2> QED BY <2>3, <2>4, <2>5, TaskStep DEF CInv
  <1>2. CASE \E b \in BOOLEAN : Author(b)
    <2>1. /\ UNCHANGED <<server, screen, input, streaming, batchBusy, opener, streams, fetch, typed, history>>
          /\ \/ task' = [task EXCEPT !.pc = "thrown"]
             \/ tid \in Threads /\ \E pc \in {"rest", "rest failed"} : task' = [task EXCEPT !.pc = pc, !.thread = tid]
      BY <1>2 DEF Author, CInv, ScreenTyped, Tid
    <2>2. ASSUME task' = [task EXCEPT !.pc = "thrown"]
          PROVE  task' \in TaskType /\ task'.pc = "thrown"
      BY <2>2, TaskMoves
    <2>3. ASSUME tid \in Threads, NEW pc \in {"rest", "rest failed"}, task' = [task EXCEPT !.pc = pc, !.thread = tid]
          PROVE  task' \in TaskType /\ task'.thread \in Threads
      BY <2>3, TaskMoves
    <2>4. task' \in TaskType /\ (task'.pc \in Threaded => task'.thread \in Threads)
      BY <2>1, <2>2, <2>3 DEF Threaded
    <2> QED BY <2>1, <2>4, TaskStep DEF CInv, server
  <1>3. CASE \E b \in BOOLEAN : AcceptRest(b)
    <2>1. t \in Threads
      BY <1>3, TaskThread DEF AcceptRest, Threaded
    <2>2. /\ UNCHANGED <<turns, screen, input, streaming, batchBusy, opener, streams, fetch, typed, history>>
          /\ task' = done
          /\ \E s \in Statuses : db' = [Finish(t, i, s) EXCEPT ![t].batches[i].rest = IF task.pc = "rest" THEN Bump(@) ELSE @]
      <3>1. "accepted" \in Statuses /\ "partial" \in Statuses
        BY DEF Statuses
      <3> QED BY <1>3, <3>1 DEF AcceptRest
    <2>3. DbTyped'
      <3>1. PICK s \in Statuses :
                 db' = [Finish(t, i, s) EXCEPT ![t].batches[i].rest = IF task.pc = "rest" THEN Bump(@) ELSE @]
        BY <2>2
      <3> HIDE DEF i, t
      <3>2. [Finish(t, i, s) EXCEPT ![t].batches[i].rest = IF task.pc = "rest" THEN Bump(@) ELSE @]
            \in [Threads -> Row]
        BY <2>1, Bumped DEF CInv
      <3> QED BY <3>1, <3>2 DEF DbTyped
    <2>4. task' \in TaskType /\ task'.pc = "answered"
      BY <2>2, TaskMoves
    <2> QED BY <2>2, <2>3, <2>4, TaskStep DEF CInv, Threaded
  <1>4. CASE RejectBatch
    <2>1. t \in Threads
      BY <1>4, TaskThread DEF RejectBatch, Threaded
    <2>2. DbTyped'
      BY <1>4, <2>1, FieldSet DEF RejectBatch, Finish, CInv, DbTyped, Statuses
    <2>3. task' \in TaskType /\ task'.pc = "answered"
      BY <1>4, TaskMoves DEF RejectBatch
    <2> QED BY <1>4, <2>2, <2>3, TaskStep DEF RejectBatch, CInv, Threaded
  <1>5. CASE AcceptThrows
    <2>1. FlagsTyped'
      BY <1>5 DEF AcceptThrows, CInv, FlagsTyped
    <2>2. task' \in TaskType /\ task'.pc = "none"
      BY <1>5, Empties DEF AcceptThrows, NoTask
    <2> QED BY <1>5, <2>1, <2>2, TaskStep DEF AcceptThrows, CInv, Threaded, server
  <1>6. CASE Reload
    <2> DEFINE snap == IF tid = None THEN None ELSE SnapshotOf(tid)
    <2>1. snap \in Snapshot \cup {None}
      BY Snapshots DEF CInv, ScreenTyped, Tid
    <2>2. task' = [task EXCEPT !.pc = "reloaded", !.snap = snap]
      BY <1>6 DEF Reload
    <2> HIDE DEF snap
    <2>3. task' \in TaskType /\ task'.pc = "reloaded"
      BY <2>1, <2>2, TaskMoves
    <2> QED BY <1>6, <2>3, TaskStep DEF Reload, CInv, Threaded, server
  <1> QED BY <1>1, <1>2, <1>3, <1>4, <1>5, <1>6

\* What is sent or left undone once the thread is shown again.
LEMMA RestTyped ==
  ASSUME CInv, NEW pc \in {"none", "sending"}, Rest(pc)
  PROVE  TaskTyped' /\ task'.pc = pc /\ batchBusy' \in BOOLEAN
  <1>1. [NoTask EXCEPT !.pc = "sending"] \in TaskType /\ [NoTask EXCEPT !.pc = "sending"].pc = "sending"
    BY Empties DEF TaskType, NoTask
  <1>2. NoTask.pc = "none"
    BY DEF NoTask
  <1>3. CASE pc = "none"
    BY <1>2, <1>3, Empties DEF Rest, TaskTyped
  <1>4. CASE pc = "sending"
    <2>1. task' = [NoTask EXCEPT !.pc = "sending"] /\ UNCHANGED batchBusy
      BY <1>4 DEF Rest
    <2> QED BY <1>1, <1>4, <2>1 DEF TaskTyped, CInv, FlagsTyped
  <1> QED BY <1>3, <1>4

LEMMA SendCapturedTyped ==
  ASSUME CInv, NEW text \in Messages, SendCaptured(text), UNCHANGED turns
  PROVE  /\ TaskTyped' /\ ThreadsLinked' /\ StreamsTyped' /\ StreamsLinked'
         /\ streaming' \in BOOLEAN /\ batchBusy' \in BOOLEAN
  <1>1. CASE task.streaming
    <2>1. UNCHANGED <<streaming, streams>> /\ Rest("none")
      BY <1>1 DEF SendCaptured
    <2>2. TaskTyped' /\ task'.pc = "none" /\ batchBusy' \in BOOLEAN
      BY <2>1, RestTyped
    <2> QED BY <2>1, <2>2, PartsStay DEF CInv, ThreadsLinked, FlagsTyped
  <1>2. CASE ~task.streaming
    <2>1. Open("continuation") /\ Send("continuation", text) /\ Rest("sending") /\ "continuation" \in Slots
      BY <1>2 DEF SendCaptured, Slots
    <2>2. TaskTyped' /\ task'.pc = "sending" /\ batchBusy' \in BOOLEAN
      BY <2>1, RestTyped
    <2>3. StreamsTyped' /\ streaming' = TRUE /\ StreamsLinked'
      BY <2>1, SendTyped
    <2> QED BY <2>2, <2>3 DEF CInv, ThreadsLinked
  <1> QED BY <1>1, <1>2

LEMMA ContinueKeeps == ASSUME CInv, Continue \/ Settled PROVE CInv'
  <1> USE PartsStay
  <1>1. CASE Continue
    <2>1. task \in TaskType /\ task.snap \in Snapshot \cup {None} /\ task.queued \in Texts \cup {None}
      BY DEF CInv, TaskTyped, TaskType
    <2>2. ScreenTyped'
      BY <1>1, <2>1 DEF Continue, ApplyThread, CInv, ScreenTyped, Snapshot, Tid, screen
    <2>3. UNCHANGED <<server, fetch, typed, history>>
      BY <1>1 DEF Continue
    <2>4. UNCHANGED turns /\ DbTyped' /\ TurnsTyped' /\ FetchTyped' /\ PastTyped'
      BY <2>3 DEF CInv, server
    <2>5. ASSUME NEW text \in Messages, SendCaptured(text), opener' \in BOOLEAN, InputTyped'
          PROVE  CInv'
      BY <2>2, <2>4, <2>5, SendCapturedTyped DEF CInv, FlagsTyped
    <2>6. CASE task.queued # None /\ FlushQueue /\ UNCHANGED opener
      <3>1. task.queued \in Messages /\ SendCaptured(task.queued)
        BY <2>1, <2>6 DEF FlushQueue, Messages
      <3>2. InputTyped'
        BY <2>6 DEF FlushQueue, CInv, InputTyped
      <3> QED BY <2>5, <2>6, <3>1, <3>2 DEF CInv, FlagsTyped
    <2>7. CASE SendCaptured(Follow) /\ UNCHANGED <<input, opener>>
      BY <2>5, <2>7 DEF CInv, FlagsTyped, Messages
    <2>8. ASSUME Rest("none"), opener' \in BOOLEAN, UNCHANGED <<input, streaming, streams>> PROVE CInv'
      <3>1. TaskTyped' /\ task'.pc = "none" /\ batchBusy' \in BOOLEAN
        BY <2>8, RestTyped
      <3> QED BY <2>2, <2>4, <2>8, <3>1 DEF CInv, FlagsTyped, ThreadsLinked
    <2>9. \/ task.queued # None /\ FlushQueue /\ UNCHANGED opener
          \/ SendCaptured(Follow) /\ UNCHANGED <<input, opener>>
          \/ Rest("none") /\ opener' \in BOOLEAN /\ UNCHANGED <<input, streaming, streams>>
      BY <1>1 DEF Continue, CInv, FlagsTyped
    <2> QED BY <2>6, <2>7, <2>8, <2>9
  <1>2. CASE Settled
    <2>1. FlagsTyped' /\ TaskTyped' /\ ThreadsLinked'
      BY <1>2, Empties DEF Settled, CInv, FlagsTyped, TaskTyped, ThreadsLinked, NoTask, server
    <2> QED BY <1>2, <2>1 DEF Settled, CInv, server
  <1> QED BY <1>1, <1>2

-----------------------------------------------------------------------------
(* Faults                                                                  *)

\* A stream that breaks gives its message back.
LEMMA CutKeeps ==
  ASSUME CInv, NEW slot \in Slots, CutStream(slot) \/ StreamBroken(slot)
  PROVE  CInv'
  <1> USE PartsStay
  <1>1. streams[slot].pc \in {"open", "reload", "accepted", "begun", "broken"} /\ GiveBack(slot, "failed")
    BY DEF CutStream, StreamBroken
  <1>2. /\ StreamsTyped' /\ InputTyped' /\ streaming' = FALSE /\ streams[slot].text \in Messages
        /\ \A q \in Slots : streams'[q] = IF q = slot THEN NoStream ELSE streams[q]
    BY <1>1, GivenBack
  <1>3. FlagsTyped'
    BY <1>2 DEF CutStream, StreamBroken, CInv, FlagsTyped
  <1>4. PastTyped'
    BY <1>2, ChatAssumption DEF CutStream, StreamBroken, Fault, CInv, PastTyped
  <1>5. /\ turns' = {[u EXCEPT !.slot = IF @ = slot THEN Orphan ELSE @] : u \in turns}
           \/ (turns' = turns /\ streams[slot].pc = "broken")
        /\ UNCHANGED <<db, screen, batchBusy, opener, task, fetch, typed>>
    BY DEF CutStream, StreamBroken, server
  <1>6. CASE turns' = turns /\ streams[slot].pc = "broken"
    <2>1. StreamsLinked'
      BY <1>2, <1>6 DEF CInv, StreamsLinked, TurnsTyped, TurnType, NoStream
    <2> QED BY <1>2, <1>3, <1>4, <1>5, <1>6, <2>1 DEF CInv
  <1>7. CASE turns' = {[u EXCEPT !.slot = IF @ = slot THEN Orphan ELSE @] : u \in turns}
    <2> DEFINE Moved(u) == [u EXCEPT !.slot = IF u.slot = slot THEN Orphan ELSE u.slot]
    <2>1. \A u \in turns :
             /\ u \in TurnType /\ Moved(u) \in TurnType
             /\ Moved(u).pc = u.pc /\ Moved(u).text = u.text /\ Moved(u).thread = u.thread
             /\ Moved(u).slot = IF u.slot = slot THEN Orphan ELSE u.slot
      BY DEF CInv, TurnsTyped, TurnType
    <2>2. turns' = {Moved(u) : u \in turns}
      BY <1>7
    <2> HIDE DEF Moved
    <2>3. TurnsTyped'
      BY <2>1, <2>2 DEF TurnsTyped
    <2>4. ThreadsLinked'
      <3>1. \A v \in turns' : v.pc # "spawned" => v.thread \in Threads
        BY <2>1, <2>2 DEF CInv, ThreadsLinked
      <3> QED BY <1>5, <3>1 DEF CInv, ThreadsLinked
    <2>5. StreamsLinked'
      <3>1. \A q \in Slots : streams'[q].pc # "none" => streams'[q].text \in Messages
        BY <1>2 DEF CInv, StreamsLinked, NoStream
      <3>2. ASSUME NEW v \in turns', v.pc = "spawned"
            PROVE  v.text \in Messages /\ (v.slot # Orphan => streams'[v.slot].pc = "accepted")
        <4>1. PICK u \in turns : v = Moved(u)
          BY <2>2
        <4>2. u.pc = "spawned" /\ u.text \in Messages /\ (u.slot # Orphan => streams[u.slot].pc = "accepted")
              /\ u.slot \in Slots \cup {Orphan}
          BY <2>1, <3>2, <4>1 DEF CInv, StreamsLinked, TurnType
        <4> QED BY <1>2, <2>1, <4>1, <4>2
      <3>3. ASSUME NEW v \in turns', NEW w \in turns',
                   v.pc = "spawned", w.pc = "spawned", v.slot = w.slot, v.slot # Orphan
            PROVE  v = w
        <4>1. PICK u \in turns : v = Moved(u)
          BY <2>2
        <4>2. PICK x \in turns : w = Moved(x)
          BY <2>2
        <4>3. u.pc = "spawned" /\ x.pc = "spawned" /\ u.slot = x.slot /\ u.slot # Orphan
          BY <2>1, <3>3, <4>1, <4>2
        <4>4. u = x
          BY <4>3 DEF CInv, StreamsLinked
        <4> QED BY <4>1, <4>2, <4>4
      <3> QED BY <3>1, <3>2, <3>3 DEF StreamsLinked
    <2> QED BY <1>2, <1>3, <1>4, <1>5, <2>3, <2>4, <2>5 DEF CInv
  <1> QED BY <1>5, <1>6, <1>7

LEMMA RestartKeeps == ASSUME CInv, Restart PROVE CInv'
  <1> USE PartsStay
  <1>1. TurnsTyped' /\ turns' = {}
    BY DEF Restart, TurnsTyped
  <1>2. /\ StreamsTyped'
        /\ \A q \in Slots : streams'[q].pc # "none" => streams[q].pc # "none" /\ streams'[q].text = streams[q].text
    <2>1. \A q \in Slots : LET stream == [streams[q] EXCEPT !.pc = "broken"] IN
             /\ streams[q] \in StreamType /\ stream \in StreamType /\ stream.text = streams[q].text
      BY DEF CInv, StreamsTyped, StreamType
    <2> QED BY <2>1 DEF Restart, StreamsTyped
  <1>3. StreamsLinked'
    BY <1>1, <1>2 DEF CInv, StreamsLinked
  <1>4. TaskTyped' /\ ThreadsLinked'
    <2>1. task' = task \/ task' = [task EXCEPT !.pc = "thrown"]
      BY DEF Restart
    <2>2. CASE task' = task
      BY <1>1, <2>2 DEF CInv, TaskTyped, ThreadsLinked
    <2>3. CASE task' = [task EXCEPT !.pc = "thrown"]
      BY <1>1, <2>3, TaskMoves DEF TaskTyped, ThreadsLinked
    <2> QED BY <2>1, <2>2, <2>3
  <1>5. PastTyped'
    <2>1. torn \subseteq {"overlap", "batch", "server"} /\ faults \in 0..MaxFaults
      BY DEF CInv, PastTyped
    <2>2. torn' = torn \cup {"server", "batch"} \/ torn' = torn \cup {"server"}
      BY DEF Restart
    <2>3. torn' \subseteq {"overlap", "batch", "server"}
      BY <2>1, <2>2
    <2>4. faults < MaxFaults /\ faults' = faults + 1
      BY DEF Restart, Fault
    <2>5. faults' \in 0..MaxFaults
      BY <2>1, <2>4, ChatAssumption
    <2>6. UNCHANGED <<typed, cut>>
      BY DEF Restart
    <2> QED BY <2>3, <2>5, <2>6 DEF CInv, PastTyped
  <1> QED BY <1>1, <1>2, <1>3, <1>4, <1>5 DEF Restart, CInv

-----------------------------------------------------------------------------
(* The theorem                                                             *)

LEMMA Starts == Init => CInv
  <1> SUFFICES ASSUME Init PROVE CInv
    OBVIOUS
  <1>1. NewRow \in Row
    BY EmptySeq DEF NewRow, Row
  <1>2. DbTyped /\ TurnsTyped /\ ScreenTyped /\ InputTyped /\ FlagsTyped /\ StreamsTyped /\ TaskTyped /\ FetchTyped
    BY <1>1, Empties DEF Init, DbTyped, TurnsTyped, ScreenTyped, InputTyped, FlagsTyped, StreamsTyped, TaskTyped,
       FetchTyped, Tid
  <1>3. PastTyped
    BY ChatAssumption DEF Init, PastTyped
  <1>4. StreamsLinked /\ ThreadsLinked
    BY DEF Init, StreamsLinked, ThreadsLinked, NoStream, NoTask
  <1> QED BY <1>2, <1>3, <1>4 DEF CInv

LEMMA Keeps == CInv /\ [Next]_vars => CInv'
  <1> SUFFICES ASSUME CInv, [Next]_vars PROVE CInv'
    OBVIOUS
  <1>1. CASE Compose \/ Browse \/ SendOpener
    BY <1>1, ComposeKeeps
  <1>2. CASE Accept \/ Reject
    BY <1>2, AcceptKeeps
  <1>3. CASE Settling
    BY <1>3, SettleKeeps, ContinueKeeps DEF Settling
  <1>4. CASE Work
    BY <1>4, BeginTurnKeeps, ReplyKeeps, EndTurnKeeps DEF Work
  <1>5. ASSUME NEW slot \in Slots, Streaming(slot) \/ CutStream(slot) PROVE CInv'
    BY <1>5, StartTurnKeeps, RefuseTurnKeeps, StreamKeeps, CutKeeps DEF Streaming
  <1>6. CASE Restart
    BY <1>6, RestartKeeps
  <1>7. CASE UNCHANGED vars
    BY <1>7, PartsStay DEF vars, screen, input, history, CInv
  <1> QED BY <1>1, <1>2, <1>3, <1>4, <1>5, <1>6, <1>7 DEF Next

\* Whatever is typed, refused, cut and accepted, the variables keep their types: a hidden
\* message is never given back to the composer or queued (useChatSession.ts, send), and a
\* step of an accept always has its thread.
THEOREM ChatTypes == Spec => []TypeOK
  BY Starts, Keeps, PartsAreTypes, PTL DEF Spec

-----------------------------------------------------------------------------
(* What is typed once is said once                                         *)

\* In the composer, in the queue, or in the queue an accept or reject captured.
Loose(m) == draft = m \/ queued = m \/ task.queued = m

Unsaid == {"posted", "accepted"}

\* A message is in one place at most: loose, or with one stream and the turn it
\* started; and until that turn has begun the agent has not been told.
Once(m) ==
    /\ m \notin typed => ~Loose(m) /\ Said(m) = {} /\ \A a \in Slots : streams[a].text # m
    /\ Loose(m) => Said(m) = {} /\ \A a \in Slots : streams[a].text # m
    /\ draft = m => queued # m /\ task.queued # m
    /\ \A a, b \in Slots : streams[a].text = m /\ streams[b].text = m => a = b
    /\ \A a \in Slots : streams[a].text = m => streams[a].pc # "none"
    /\ \A a \in Slots : streams[a].text = m /\ streams[a].pc \in Unsaid => Said(m) = {}
    /\ \A u \in turns : u.text = m => u.pc = "spawned" /\ u.slot \in Slots /\ streams[u.slot].text = m
    /\ \A x, y \in Said(m) : x = y

SInv == \A m \in Texts \ cut : Once(m)

LEMMA SaidOf ==
  ASSUME NEW m, NEW x
  PROVE  x \in Said(m) <=>
            \E t \in Threads : \E i \in DOMAIN db[t].said : db[t].said[i] = m /\ x = <<t, i>>
  BY DEF Said

LEMMA SaidSame ==
  ASSUME NEW m, \A t \in Threads : db'[t].said = db[t].said
  PROVE  Said(m)' = Said(m)
  BY DEF Said

\* A step by which the message, if it moves, only disappears.
LEMMA OnceStays ==
  ASSUME NEW m \in Texts, Once(m), typed \subseteq typed', Said(m)' = Said(m),
         draft' = m => draft = m, queued' = m => queued = m \/ task.queued = m,
         task'.queued = m => queued = m \/ task.queued = m,
         \A a \in Slots : streams'[a].text = m =>
            /\ streams[a].text = m /\ streams'[a].pc # "none"
            /\ streams'[a].pc \in Unsaid => streams[a].pc \in Unsaid,
         \A u \in turns' : u.text = m => u.pc = "spawned" /\ u.slot \in Slots /\ streams'[u.slot].text = m
  PROVE  Once(m)'
  <1>1. Loose(m)' => Loose(m)
    BY DEF Loose
  <1>2. /\ \A x, y \in Said(m) : x = y
        /\ Loose(m) => Said(m) = {} /\ \A a \in Slots : streams[a].text # m
    BY DEF Once
  <1>3. m \notin typed' => ~Loose(m) /\ Said(m) = {} /\ \A a \in Slots : streams[a].text # m
    BY DEF Once
  <1>4. draft' = m => queued' # m /\ task'.queued # m
    BY DEF Once
  <1>5. \A a, b \in Slots : streams'[a].text = m /\ streams'[b].text = m => a = b
    BY DEF Once
  <1>6. \A a \in Slots : streams'[a].text = m /\ streams'[a].pc \in Unsaid => Said(m) = {}
    BY DEF Once
  <1> QED BY <1>1, <1>2, <1>3, <1>4, <1>5, <1>6 DEF Once

LEMMA NotNone == ASSUME NEW m \in Texts PROVE m # None /\ m # Follow /\ NoStream.text # m /\ NoTask.queued # m
  BY ChatAssumption DEF NoStream, NoTask

\* The rows keep what was said.
LEMMA SaidKept ==
  ASSUME CInv, NEW m, UNCHANGED db PROVE Said(m)' = Said(m)
  BY SaidSame

\* A turn whose message is m has its stream at "accepted" while it is spawned.
LEMMA SpawnedAccepted ==
  ASSUME CInv, NEW m, Once(m), NEW u \in turns, u.text = m
  PROVE  u.pc = "spawned" /\ u.slot \in Slots /\ streams[u.slot].pc = "accepted" /\ streams[u.slot].text = m
  BY DEF Once, CInv, StreamsLinked, Slots, Orphan

\* A message that is sent goes from where it was loose to its stream; another one
\* does not touch it.
LEMMA SendsOnce ==
  ASSUME CInv, NEW m \in Texts, Once(m), NEW slot \in Slots, NEW text, Open(slot), Send(slot, text),
         text = m => Loose(m), ~(text = m /\ Loose(m)'),
         UNCHANGED <<db, turns>>, typed' = typed,
         draft' = m => draft = m, queued' = m => queued = m \/ task.queued = m,
         task'.queued = m => queued = m \/ task.queued = m
  PROVE  Once(m)'
  <1> DEFINE stream == [NoStream EXCEPT !.pc = "posted", !.text = text, !.thread = tid]
  <1>1. streams[slot].pc = "none" /\ streams' = [streams EXCEPT ![slot] = stream]
    BY DEF Open, Send
  <1>2. stream.text = text /\ stream.pc = "posted"
    BY DEF NoStream
  <1> HIDE DEF stream
  <1>3. streams'[slot] = stream /\ \A b \in Slots \ {slot} : streams'[b] = streams[b]
    BY <1>1 DEF CInv, StreamsTyped
  <1>4. Said(m)' = Said(m)
    BY SaidKept
  <1>5. CASE text = m
    <2>1. Loose(m) /\ ~Loose(m)' /\ m \in typed
      BY <1>5 DEF Once
    <2>2. Said(m) = {} /\ (\A b \in Slots : streams[b].text # m) /\ \A u \in turns : u.text # m
      BY <2>1 DEF Once
    <2>3. \A b \in Slots : streams'[b].text = m => b = slot
      BY <1>3, <2>2
    <2>4. draft' # m
      BY <2>1 DEF Loose
    <2> QED BY <1>2, <1>3, <1>4, <2>1, <2>2, <2>3, <2>4 DEF Once
  <1>6. CASE text # m
    <2>1. streams[slot].text # m
      BY <1>1 DEF Once
    <2>2. \A u \in turns' : u.text = m => u.pc = "spawned" /\ u.slot \in Slots /\ streams'[u.slot].text = m
      BY <1>3, <2>1 DEF Once
    <2>3. \A b \in Slots : streams'[b].text = m =>
             /\ streams[b].text = m /\ streams'[b].pc # "none"
             /\ streams'[b].pc \in Unsaid => streams[b].pc \in Unsaid
      BY <1>2, <1>3, <1>6 DEF Once
    <2> QED BY <1>4, <2>2, <2>3, OnceStays
  <1> QED BY <1>5, <1>6

-----------------------------------------------------------------------------

LEMMA ComposeOnce ==
  ASSUME CInv, NEW m \in Texts, Once(m), Compose \/ Browse \/ SendOpener
  PROVE  Once(m)'
  <1> USE NotNone
  <1>1. ASSUME NEW n \in Texts, Type(n) PROVE Once(m)'
    <2>1. Said(m)' = Said(m) /\ typed' = typed \cup {n} /\ draft' = n /\ n \notin typed
          /\ UNCHANGED <<queued, task, streams, turns>>
      BY <1>1, SaidKept DEF Type, server
    <2>2. CASE n = m
      BY <2>1, <2>2 DEF Once, Loose
    <2>3. CASE n # m
      <3>1. \A u \in turns' : u.text = m => u.pc = "spawned" /\ u.slot \in Slots /\ streams'[u.slot].text = m
        BY <2>1 DEF Once
      <3> QED BY <2>1, <2>3, <3>1, OnceStays DEF Once
    <2> QED BY <2>2, <2>3
  <1>2. CASE SubmitDraft
    <2>1. Said(m)' = Said(m) /\ draft' = None /\ draft # None /\ UNCHANGED <<task, turns, typed>>
      BY <1>2, SaidKept DEF SubmitDraft, server
    <2>2. \A u \in turns' : u.text = m => u.pc = "spawned" /\ u.slot \in Slots /\ streams[u.slot].text = m
      BY <2>1 DEF Once
    <2>3. CASE pending
      <3>1. queued' = draft /\ UNCHANGED streams
        BY <1>2, <2>3 DEF SubmitDraft
      <3>2. CASE draft = m
        BY <2>1, <3>1, <3>2 DEF Once, Loose, Unsaid
      <3>3. CASE draft # m
        BY <2>1, <2>2, <3>1, <3>3, OnceStays DEF Once
      <3> QED BY <3>2, <3>3
    <2>4. CASE ~pending
      <3>1. Open("composer") /\ Send("composer", draft) /\ "composer" \in Slots
            /\ UNCHANGED queued
        BY <1>2, <2>4 DEF SubmitDraft, Slots
      <3>2. draft = m => Loose(m) /\ ~Loose(m)'
        BY <2>1, <3>1 DEF Once, Loose
      <3>3. UNCHANGED <<db, turns>>
        BY <1>2 DEF SubmitDraft, server
      <3> QED BY <2>1, <3>1, <3>2, <3>3, SendsOnce
    <2> QED BY <2>3, <2>4
  <1>3. CASE SendOpener
    <2>1. Open("opener") /\ Send("opener", Follow) /\ "opener" \in Slots
          /\ UNCHANGED <<db, turns, draft, queued, task, typed>>
      BY <1>3 DEF SendOpener, server, input, Slots
    <2> QED BY <2>1, SendsOnce
  <1>4. CASE NewThread \/ FetchArrives \/ Poll \/ (\E t \in Threads : OpenThread(t)) \/ ClearQueue
    <2>1. Said(m)' = Said(m) /\ UNCHANGED <<turns, streams, task, typed, draft>> /\ queued' \in {queued, None}
      BY <1>4, SaidKept DEF NewThread, FetchArrives, Poll, OpenThread, ClearQueue, server, input
    <2>2. \A u \in turns' : u.text = m => u.pc = "spawned" /\ u.slot \in Slots /\ streams'[u.slot].text = m
      BY <2>1 DEF Once
    <2> QED BY <2>1, <2>2, OnceStays DEF Once
  <1> QED BY <1>1, <1>2, <1>3, <1>4 DEF Compose, Browse

\* A message that is given back leaves its stream.
LEMMA GivenBackOnce ==
  ASSUME CInv, NEW m \in Texts, Once(m), NEW slot \in Slots, streams[slot].pc # "none",
         NEW reason, GiveBack(slot, reason),
         streams[slot].text = m => streams[slot].pc = "posted",
         UNCHANGED <<db, task>>, typed' = typed,
         \A u \in turns' : u.text = m => u \in turns
  PROVE  Once(m)'
  <1> USE NotNone
  <1>1. /\ streaming' = FALSE /\ streams[slot].text \in Messages
        /\ \A q \in Slots : streams'[q] = IF q = slot THEN NoStream ELSE streams[q]
    BY GivenBack
  <1>2. Said(m)' = Said(m)
    BY SaidKept
  <1>3. \A u \in turns : u.text = m => u.slot \in Slots \ {slot}
    BY SpawnedAccepted
  <1>4. \A u \in turns' : u.text = m => u.pc = "spawned" /\ u.slot \in Slots /\ streams'[u.slot].text = m
    BY <1>1, <1>3 DEF Once
  <1>5. CASE streams[slot].text = m
    <2>1. Said(m) = {} /\ ~Loose(m) /\ m \in typed /\ \A b \in Slots \ {slot} : streams[b].text # m
      BY <1>5 DEF Once, Unsaid
    <2>2. \A b \in Slots : streams'[b].text # m
      BY <1>1, <2>1
    <2>3. ~(draft' = m /\ queued' = m)
      BY <2>1 DEF GiveBack, Loose, input
    <2> QED BY <1>2, <1>4, <2>1, <2>2, <2>3 DEF Once, Loose
  <1>6. CASE streams[slot].text # m
    <2>1. draft' = m => draft = m
      BY <1>6 DEF GiveBack, input
    <2>2. queued' = m => queued = m
      BY <1>6 DEF GiveBack, input
    <2>3. \A b \in Slots : streams'[b].text = m => streams'[b] = streams[b]
      BY <1>1
    <2>4. \A b \in Slots : streams'[b].text = m =>
             /\ streams[b].text = m /\ streams'[b].pc # "none"
             /\ streams'[b].pc \in Unsaid => streams[b].pc \in Unsaid
      BY <2>3 DEF Once
    <2> QED BY <1>2, <1>4, <2>1, <2>2, <2>4, OnceStays
  <1> QED BY <1>5, <1>6

LEMMA RefuseOnce ==
  ASSUME CInv, NEW m \in Texts, Once(m), NEW slot \in Slots, RefuseTurn(slot)
  PROVE  Once(m)'
  <1>1. streams[slot].pc = "posted" /\ GiveBack(slot, Refusal(streams[slot].thread))
        /\ UNCHANGED <<db, turns, task>> /\ typed' = typed
    BY DEF RefuseTurn, server
  <1> QED BY <1>1, GivenBackOnce

LEMMA CutOnce ==
  ASSUME CInv, NEW m \in Texts, Once(m), NEW slot \in Slots, CutStream(slot) \/ StreamBroken(slot), m \notin cut'
  PROVE  Once(m)'
  <1>1. streams[slot].text # m /\ streams[slot].pc # "none" /\ GiveBack(slot, "failed")
        /\ UNCHANGED <<db, task>> /\ typed' = typed
    BY DEF CutStream, StreamBroken, server
  <1>2. \A u \in turns' : u.text = m => u \in turns
    <2>1. CASE turns' = turns
      BY <2>1
    <2>2. CASE turns' = {[u EXCEPT !.slot = IF @ = slot THEN Orphan ELSE @] : u \in turns}
      <3>1. ASSUME NEW v \in turns', v.text = m PROVE v \in turns
        <4>1. PICK u \in turns : v = [u EXCEPT !.slot = IF u.slot = slot THEN Orphan ELSE u.slot]
          BY <2>2
        <4>2. u \in TurnType
          BY DEF CInv, TurnsTyped
        <4>3. u.text = m
          BY <3>1, <4>1, <4>2 DEF TurnType
        <4>4. u.slot # slot
          BY <1>1, <4>3 DEF Once
        <4>5. v = u
          BY <4>1, <4>2, <4>4 DEF TurnType
        <4> QED BY <4>5
      <3> QED BY <3>1
    <2> QED BY <2>1, <2>2 DEF CutStream, StreamBroken, server
  <1> QED BY <1>1, <1>2, GivenBackOnce

LEMMA StartTurnOnce ==
  ASSUME CInv, NEW m \in Texts, Once(m), NEW slot \in Slots, StartTurn(slot)
  PROVE  Once(m)'
  <1> DEFINE v == [pc |-> "spawned", thread |-> streams[slot].thread, text |-> streams[slot].text, slot |-> slot]
  <1>1. /\ \A q \in Slots \ {slot} : streams'[q] = streams[q]
        /\ streams'[slot].pc = "accepted" /\ streams'[slot].text = streams[slot].text
    BY StreamMoves DEF StartTurn, CInv
  <1>2. streams[slot].pc = "posted" /\ turns' = turns \cup {v}
        /\ UNCHANGED <<db, task, draft, queued>> /\ typed' = typed
    BY DEF StartTurn, input
  <1>3. v.pc = "spawned" /\ v.slot = slot /\ v.text = streams[slot].text
    OBVIOUS
  <1> HIDE DEF v
  <1>4. \A u \in turns' : u.text = m => u.pc = "spawned" /\ u.slot \in Slots /\ streams'[u.slot].text = m
    BY <1>1, <1>2, <1>3 DEF Once
  <1>5. \A a \in Slots : streams'[a].text = m =>
             /\ streams[a].text = m /\ streams'[a].pc # "none"
             /\ streams'[a].pc \in Unsaid => streams[a].pc \in Unsaid
    BY <1>1, <1>2 DEF Once, Unsaid
  <1>6. Said(m)' = Said(m)
    BY <1>2, SaidKept
  <1> QED BY <1>2, <1>4, <1>5, <1>6, OnceStays

\* The stream of a message goes on, its turn having begun.
LEMMA StreamOnce ==
  ASSUME CInv, NEW m \in Texts, Once(m), NEW slot \in Slots,
         StartEvent(slot) \/ StreamEnds(slot) \/ StreamDone(slot)
  PROVE  Once(m)'
  <1> USE NotNone
  <1>1. /\ \A q \in Slots \ {slot} : streams'[q] = streams[q]
        /\ \/ streams'[slot].pc \in {"open", "reload"} /\ streams'[slot].text = streams[slot].text
           \/ streams'[slot] = NoStream
    <2>1. streams \in [Slots -> StreamType] /\ streams[slot] \in StreamType
      BY DEF CInv, StreamsTyped
    <2>2. CASE StartEvent(slot)
      BY <2>2, StreamMoves DEF StartEvent, CInv
    <2>3. CASE StreamEnds(slot)
      <3> DEFINE snap == IF tid = None THEN None ELSE SnapshotOf(tid)
                 stream == [streams[slot] EXCEPT !.pc = "reload", !.snap = snap]
      <3>1. streams' = [streams EXCEPT ![slot] = stream]
        BY <2>3 DEF StreamEnds
      <3> HIDE DEF snap
      <3>2. stream.pc = "reload" /\ stream.text = streams[slot].text
        BY <2>1 DEF StreamType
      <3> HIDE DEF stream
      <3> QED BY <2>1, <3>1, <3>2
    <2>4. CASE StreamDone(slot)
      BY <2>1, <2>4 DEF StreamDone
    <2> QED BY <2>2, <2>3, <2>4
  <1>2. streams[slot].pc \in {"begun", "open", "reload"} /\ UNCHANGED <<db, turns, task, draft, queued>>
        /\ typed' = typed
    BY DEF StartEvent, StreamEnds, StreamDone, server, input
  <1>3. \A u \in turns : u.text = m => u.pc = "spawned" /\ u.slot \in Slots \ {slot} /\ streams[u.slot].text = m
    BY <1>2, SpawnedAccepted
  <1>4. \A u \in turns' : u.text = m => u.pc = "spawned" /\ u.slot \in Slots /\ streams'[u.slot].text = m
    BY <1>1, <1>2, <1>3
  <1>5. \A a \in Slots : streams'[a].text = m =>
             /\ streams[a].text = m /\ streams'[a].pc # "none"
             /\ streams'[a].pc \in Unsaid => streams[a].pc \in Unsaid
    BY <1>1, <1>2 DEF Once, Unsaid
  <1>6. Said(m)' = Said(m)
    BY <1>2, SaidKept
  <1> QED BY <1>2, <1>4, <1>5, <1>6, OnceStays

\* A restart ends the turns and leaves the streams broken.
LEMMA RestartOnce ==
  ASSUME CInv, NEW m \in Texts, Once(m), Restart
  PROVE  Once(m)'
  <1>1. \A q \in Slots : LET stream == [streams[q] EXCEPT !.pc = "broken"] IN
           streams[q] \in StreamType /\ stream.text = streams[q].text /\ stream.pc = "broken"
    BY DEF CInv, StreamsTyped, StreamType
  <1>2. \A q \in Slots : streams'[q] = streams[q] \/ (streams'[q].pc = "broken" /\ streams'[q].text = streams[q].text)
    BY <1>1 DEF Restart
  <1>3. turns' = {} /\ typed' = typed /\ UNCHANGED <<db, draft, queued>>
    BY DEF Restart, input
  <1>4. task'.queued = task.queued
    BY DEF Restart, CInv, TaskTyped, TaskType
  <1>5. \A a \in Slots : streams'[a].text = m =>
             /\ streams[a].text = m /\ streams'[a].pc # "none"
             /\ streams'[a].pc \in Unsaid => streams[a].pc \in Unsaid
    BY <1>2 DEF Once, Unsaid
  <1>6. Said(m)' = Said(m)
    BY <1>3, SaidKept
  <1> QED BY <1>3, <1>4, <1>5, <1>6, OnceStays

\* A turn begins: its message is said, for the first time.
LEMMA BeginOnce ==
  ASSUME CInv, NEW m \in Texts, Once(m), NEW t \in Threads, NEW u, BeginTurn(t, u)
  PROVE  Once(m)'
  <1> USE NotNone
  <1> DEFINE v == [u EXCEPT !.pc = "busy", !.thread = t, !.text = None]
             row == [db[t] EXCEPT !.made = TRUE, !.turn = "running", !.said = Append(db[t].said, u.text)]
  <1>1. u \in turns /\ u \in TurnType /\ u.pc = "spawned" /\ u.text \in Messages
    BY DEF BeginTurn, CInv, TurnsTyped, StreamsLinked
  <1>2. v.text = None
    BY <1>1 DEF TurnType
  <1>3. turns' = (turns \ {u}) \cup {v} /\ typed' = typed /\ UNCHANGED <<draft, queued, task>>
    BY DEF BeginTurn, input
  <1>4. db[t] \in Row /\ row.said = Append(db[t].said, u.text) /\ db' = [db EXCEPT ![t] = row]
    BY DEF BeginTurn, CInv, DbTyped, Row
  <1> HIDE DEF v, row
  <1>5. db'[t].said = Append(db[t].said, u.text) /\ \A q \in Threads \ {t} : db'[q] = db[q]
    BY <1>4 DEF CInv, DbTyped
  <1>6. db[t].said \in Seq(Messages)
    BY RowFields DEF CInv, DbTyped
  <1>7. /\ DOMAIN db'[t].said = 1..(Len(db[t].said) + 1) /\ DOMAIN db[t].said = 1..Len(db[t].said)
        /\ Len(db[t].said) \in Nat
        /\ \A i \in 1..Len(db[t].said) : db'[t].said[i] = db[t].said[i]
        /\ db'[t].said[Len(db[t].said) + 1] = u.text
    BY <1>1, <1>5, <1>6, AppendProperties
  <1>8. \A w \in turns' : w.text = m => w \in turns \ {u}
    BY <1>2, <1>3
  <1>9. \A a \in Slots : streams'[a] = streams[a]
                         \/ (a = u.slot /\ streams'[a].pc = "begun" /\ streams'[a].text = streams[a].text)
    <2>1. CASE u.slot = Orphan
      BY <2>1 DEF BeginTurn
    <2>2. CASE u.slot # Orphan
      <3> DEFINE s == u.slot
                 stream == [streams[s] EXCEPT !.pc = "begun", !.thread = t]
      <3>1. s \in Slots /\ streams[s] \in StreamType
        BY <1>1, <2>2 DEF TurnType, CInv, StreamsTyped
      <3>2. stream.pc = "begun" /\ stream.text = streams[s].text
        BY <3>1 DEF StreamType
      <3>3. streams' = [streams EXCEPT ![s] = stream]
        BY <2>2 DEF BeginTurn
      <3> HIDE DEF stream, s
      <3>4. \A a \in Slots : streams'[a] = IF a = s THEN stream ELSE streams[a]
        BY <3>1, <3>3 DEF CInv, StreamsTyped
      <3> QED BY <3>2, <3>4 DEF s
    <2> QED BY <2>1, <2>2
  <1>10. \A a \in Slots : streams'[a].text = streams[a].text
    BY <1>9
  <1>11. \A w \in turns' : w.text = m => w.pc = "spawned" /\ w.slot \in Slots /\ streams'[w.slot].text = m
    BY <1>8, <1>10 DEF Once
  <1>12. \A a \in Slots : streams'[a].text = m =>
             /\ streams[a].text = m /\ streams'[a].pc # "none"
             /\ streams'[a].pc \in Unsaid => streams[a].pc \in Unsaid
    BY <1>9 DEF Once, Unsaid
  <1>13. CASE u.text # m
    <2>1. \A x : x \in Said(m)' <=> x \in Said(m)
      <3>1. ASSUME NEW q \in Threads, NEW i
            PROVE  i \in DOMAIN db'[q].said /\ db'[q].said[i] = m <=> i \in DOMAIN db[q].said /\ db[q].said[i] = m
        <4>1. CASE q = t
          <5>1. i \in DOMAIN db'[t].said => i \in DOMAIN db[t].said \/ i = Len(db[t].said) + 1
            BY <1>7
          <5>2. i \in DOMAIN db[t].said => i \in DOMAIN db'[t].said /\ db'[t].said[i] = db[t].said[i]
            BY <1>7
          <5> QED BY <1>7, <1>13, <4>1, <5>1, <5>2
        <4>2. CASE q # t
          BY <1>5, <4>2
        <4> QED BY <4>1, <4>2
      <3> QED BY <3>1 DEF Said
    <2>2. Said(m)' = Said(m)
      BY <2>1
    <2> QED BY <1>3, <1>11, <1>12, <2>2, OnceStays
  <1>14. CASE u.text = m
    <2>1. u.slot \in Slots /\ streams[u.slot].pc = "accepted" /\ streams[u.slot].text = m
      BY <1>1, <1>14, SpawnedAccepted
    <2>2. Said(m) = {} /\ ~Loose(m) /\ m \in typed
      BY <2>1 DEF Once, Unsaid
    <2>3. \A q \in Threads : \A i \in DOMAIN db[q].said : db[q].said[i] # m
      <3>1. \A q \in Threads : \A i \in DOMAIN db[q].said : db[q].said[i] = m => <<q, i>> \in Said(m)
        BY DEF Said
      <3> QED BY <2>2, <3>1
    <2>4. \A x \in Said(m)' : x = <<t, Len(db[t].said) + 1>>
      <3>1. ASSUME NEW q \in Threads, NEW i \in DOMAIN db'[q].said, db'[q].said[i] = m
            PROVE  q = t /\ i = Len(db[t].said) + 1
        <4>1. CASE q = t
          <5>1. i \in 1..(Len(db[t].said) + 1) /\ i \notin 1..Len(db[t].said)
            BY <1>7, <2>3, <3>1, <4>1
          <5> QED BY <1>7, <4>1, <5>1
        <4>2. CASE q # t
          BY <1>5, <2>3, <3>1, <4>2
        <4> QED BY <4>1, <4>2
      <3> QED BY <3>1 DEF Said
    <2>5. \A a \in Slots : streams'[a].text = m => a = u.slot
      BY <1>10, <2>1 DEF Once
    <2>6. streams'[u.slot].pc = "begun"
      <3>1. u.slot # Orphan
        BY <2>1 DEF Slots, Orphan
      <3>2. streams' = [streams EXCEPT ![u.slot].pc = "begun", ![u.slot].thread = t]
        BY <3>1 DEF BeginTurn
      <3>3. streams \in [Slots -> StreamType] /\ streams[u.slot] \in StreamType
        BY <2>1 DEF CInv, StreamsTyped
      <3>4. streams'[u.slot] = [streams[u.slot] EXCEPT !.pc = "begun", !.thread = t]
        BY <2>1, <3>2, <3>3
      <3> QED BY <3>3, <3>4 DEF StreamType
    <2>7. ~Loose(m)' /\ m \in typed'
      BY <1>3, <2>2 DEF Loose
    <2> QED BY <1>11, <1>12, <2>1, <2>4, <2>5, <2>6, <2>7 DEF Once, Unsaid, Loose
  <1> QED BY <1>13, <1>14

\* The reply and the end of a turn say nothing of the user's.
LEMMA WorkOnce ==
  ASSUME CInv, NEW m \in Texts, Once(m), Work
  PROVE  Once(m)'
  <1>1. ASSUME NEW u \in turns, NEW t \in Threads, BeginTurn(t, u) PROVE Once(m)'
    BY <1>1, BeginOnce
  <1>2. ASSUME NEW u \in turns, (\E shape \in Shapes \cup {None} : Reply(u, shape)) \/ EndTurn(u)
        PROVE  Once(m)'
    <2>1. UNCHANGED <<streams, draft, queued, task>> /\ typed' = typed
      BY <1>2 DEF Reply, EndTurn, input
    <2>2. u \in TurnType /\ u.thread \in Threads /\ u.pc # "spawned"
      BY <1>2 DEF Reply, EndTurn, CInv, TurnsTyped, ThreadsLinked
    <2>3. \A w \in turns' : w.text = m => w.pc = "spawned" /\ w.slot \in Slots /\ streams'[w.slot].text = m
      <3> DEFINE v == [u EXCEPT !.pc = "replied"]
      <3>1. v.text = u.text
        BY <2>2 DEF TurnType
      <3>2. turns' = turns \ {u} \/ turns' = (turns \ {u}) \cup {v}
        BY <1>2 DEF Reply, EndTurn
      <3>3. u.text # m
        BY <2>2 DEF Once
      <3> HIDE DEF v
      <3>4. \A w \in turns' : w.text = m => w \in turns
        BY <3>1, <3>2, <3>3
      <3> QED BY <2>1, <3>4 DEF Once
    <2>4. \A q \in Threads : db'[q].said = db[q].said
      <3>1. \A q \in Threads : db[q] \in Row
        BY DEF CInv, DbTyped
      <3>2. CASE EndTurn(u)
        <4> DEFINE row == [db[u.thread] EXCEPT !.turn = "idle"]
        <4>1. db' = [db EXCEPT ![u.thread] = row]
          BY <3>2 DEF EndTurn
        <4>2. row.said = db[u.thread].said
          BY <2>2, <3>1 DEF Row
        <4> HIDE DEF row
        <4> QED BY <2>2, <4>1, <4>2 DEF CInv, DbTyped
      <3>3. ASSUME NEW shape \in Shapes \cup {None}, Reply(u, shape)
            PROVE  \A q \in Threads : db'[q].said = db[q].said
        <4> DEFINE batches == IF shape = None THEN db[u.thread].batches
                              ELSE Append(db[u.thread].batches, Proposed(shape))
                   row == [db[u.thread] EXCEPT !.batches = batches]
        <4>1. db' = [db EXCEPT ![u.thread] = row]
          BY <3>3 DEF Reply
        <4> HIDE DEF batches
        <4>2. row.said = db[u.thread].said
          BY <2>2, <3>1 DEF Row
        <4> HIDE DEF row
        <4> QED BY <2>2, <4>1, <4>2 DEF CInv, DbTyped
      <3> QED BY <1>2, <3>2, <3>3
    <2> QED BY <2>1, <2>3, <2>4, SaidSame, OnceStays DEF Once
  <1> QED BY <1>1, <1>2 DEF Work

\* A step of an accept or reject that sends nothing.
LEMMA TaskOnce ==
  ASSUME CInv, NEW m \in Texts, Once(m), \A t \in Threads : db'[t].said = db[t].said,
         UNCHANGED <<turns, streams, typed>>, draft' = m => draft = m, queued' = m => queued = m,
         task'.queued = m => queued = m \/ task.queued = m
  PROVE  Once(m)'
  <1>1. Said(m)' = Said(m)
    BY SaidSame
  <1>2. \A u \in turns' : u.text = m => u.pc = "spawned" /\ u.slot \in Slots /\ streams'[u.slot].text = m
    BY DEF Once
  <1>3. \A a \in Slots : streams'[a].text = m =>
             /\ streams[a].text = m /\ streams'[a].pc # "none"
             /\ streams'[a].pc \in Unsaid => streams[a].pc \in Unsaid
    BY DEF Once
  <1> QED BY <1>1, <1>2, <1>3, OnceStays

\* What changes a field of a batch leaves what was said.
LEMMA BatchSaid ==
  ASSUME NEW d \in [Threads -> Row], NEW t \in Threads, NEW b
  PROVE  \A q \in Threads : [d EXCEPT ![t].batches = b][q].said = d[q].said
  <1> DEFINE row == [d[t] EXCEPT !.batches = b]
  <1>1. row.said = d[t].said
    BY DEF Row
  <1> HIDE DEF row
  <1>2. [d EXCEPT ![t] = row][t] = row /\ \A q \in Threads \ {t} : [d EXCEPT ![t] = row][q] = d[q]
    OBVIOUS
  <1>3. [d EXCEPT ![t].batches = b] = [d EXCEPT ![t] = row]
    BY DEF row
  <1> QED BY <1>1, <1>2, <1>3

LEMMA BatchFieldSaid ==
  ASSUME NEW d \in [Threads -> Row], NEW t \in Threads, NEW i, NEW x
  PROVE  /\ \A q \in Threads : [d EXCEPT ![t].batches[i].status = x][q].said = d[q].said
         /\ \A q \in Threads : [d EXCEPT ![t].batches[i].settings = x][q].said = d[q].said
         /\ \A q \in Threads : [d EXCEPT ![t].batches[i].rest = x][q].said = d[q].said
  <1>1. \A b : \A q \in Threads : [d EXCEPT ![t].batches = b][q].said = d[q].said
    BY BatchSaid
  <1>2. /\ [d EXCEPT ![t].batches[i].status = x] = [d EXCEPT ![t].batches = [d[t].batches EXCEPT ![i].status = x]]
        /\ [d EXCEPT ![t].batches[i].settings = x] = [d EXCEPT ![t].batches = [d[t].batches EXCEPT ![i].settings = x]]
        /\ [d EXCEPT ![t].batches[i].rest = x] = [d EXCEPT ![t].batches = [d[t].batches EXCEPT ![i].rest = x]]
    OBVIOUS
  <1> DEFINE b1 == [d[t].batches EXCEPT ![i].status = x]
             b2 == [d[t].batches EXCEPT ![i].settings = x]
             b3 == [d[t].batches EXCEPT ![i].rest = x]
  <1>3. /\ [d EXCEPT ![t].batches[i].status = x] = [d EXCEPT ![t].batches = b1]
        /\ [d EXCEPT ![t].batches[i].settings = x] = [d EXCEPT ![t].batches = b2]
        /\ [d EXCEPT ![t].batches[i].rest = x] = [d EXCEPT ![t].batches = b3]
    BY <1>2
  <1> HIDE DEF b1, b2, b3
  <1> QED BY <1>1, <1>3

LEMMA SettleOnce ==
  ASSUME CInv, NEW m \in Texts, Once(m),
         \/ \E outcome \in {"invalid", "failed", "ok"} : AcceptSettings(outcome)
         \/ \E b \in BOOLEAN : Author(b) \/ AcceptRest(b)
         \/ RejectBatch \/ AcceptThrows \/ Reload \/ Accept \/ Reject \/ Settled
  PROVE  Once(m)'
  <1> USE NotNone
  <1> DEFINE t == task.thread
             i == Newest(t)
  <1>1. task \in TaskType
    BY DEF CInv, TaskTyped
  <1>2. UNCHANGED <<turns, streams, typed, draft, queued>>
    BY DEF AcceptSettings, Author, AcceptRest, RejectBatch, AcceptThrows, Reload, Accept, Reject, Settled,
       server, input
  <1>3. task'.queued = m => queued = m \/ task.queued = m
    BY <1>1 DEF AcceptSettings, Author, AcceptRest, RejectBatch, AcceptThrows, Reload, Accept, Reject, Settled,
       TaskType, NoTask
  <1>4. \A q \in Threads : db'[q].said = db[q].said
    <2>1. CASE \E outcome \in {"invalid", "failed", "ok"} : AcceptSettings(outcome)
      <3> DEFINE applied == [db EXCEPT ![t].batches[i].settings = Bump(@)]
      <3>1. t \in Threads
        BY <2>1, TaskThread DEF AcceptSettings, Threaded
      <3>2. applied \in [Threads -> Row]
        BY <3>1, Bumped DEF CInv
      <3>3. db' \in {db, applied, [applied EXCEPT ![t].batches[i].status = "partial"],
                     [applied EXCEPT ![t].batches[i].status = "accepted"]}
        <4> HIDE DEF applied
        <4> QED BY <2>1 DEF AcceptSettings, applied
      <3>4. \A q \in Threads : applied[q].said = db[q].said
        <4> DEFINE n == Bump(db[t].batches[i].settings)
        <4>1. applied = [db EXCEPT ![t].batches[i].settings = n]
          OBVIOUS
        <4> HIDE DEF n, i, t, applied
        <4> QED BY <3>1, <4>1, BatchFieldSaid DEF CInv, DbTyped
      <3> HIDE DEF applied, i, t
      <3>5. \A s : \A q \in Threads : [applied EXCEPT ![t].batches[i].status = s][q].said = applied[q].said
        BY <3>1, <3>2, BatchFieldSaid
      <3> DEFINE partial == [applied EXCEPT ![t].batches[i].status = "partial"]
                 accepted == [applied EXCEPT ![t].batches[i].status = "accepted"]
      <3>6. db' \in {db, applied, partial, accepted}
        BY <3>3
      <3>7. \A q \in Threads : partial[q].said = db[q].said /\ accepted[q].said = db[q].said
        BY <3>4, <3>5
      <3> HIDE DEF partial, accepted
      <3> QED BY <3>4, <3>6, <3>7
    <2>2. CASE \E b \in BOOLEAN : AcceptRest(b)
      <3> DEFINE n == IF task.pc = "rest" THEN Bump(db[t].batches[i].rest) ELSE db[t].batches[i].rest
      <3>1. t \in Threads
        BY <2>2, TaskThread DEF AcceptRest, Threaded
      <3>2. PICK s \in Statuses :
                 db' = [Finish(t, i, s) EXCEPT ![t].batches[i].rest = IF task.pc = "rest" THEN Bump(@) ELSE @]
        BY <2>2 DEF AcceptRest, Statuses
      <3> DEFINE done == Finish(t, i, s)
                 k == IF task.pc = "rest" THEN Bump(done[t].batches[i].rest) ELSE done[t].batches[i].rest
      <3>3. done \in [Threads -> Row]
        BY <3>1, FieldSet DEF Finish, CInv, DbTyped
      <3>4. db' = [done EXCEPT ![t].batches[i].rest = k]
        BY <3>2
      <3>5. \A q \in Threads : done[q].said = db[q].said
        <4> HIDE DEF i, t
        <4> QED BY <3>1, BatchFieldSaid DEF CInv, DbTyped, Finish
      <3> HIDE DEF done, k, i, t
      <3>6. \A x : \A q \in Threads : [done EXCEPT ![t].batches[i].rest = x][q].said = done[q].said
        BY <3>1, <3>3, BatchFieldSaid
      <3> QED BY <3>4, <3>5, <3>6
    <2>3. CASE RejectBatch
      <3>1. t \in Threads
        BY <2>3, TaskThread DEF RejectBatch, Threaded
      <3>2. db' = [db EXCEPT ![t].batches[i].status = "rejected"]
        BY <2>3 DEF RejectBatch, Finish
      <3> HIDE DEF i, t
      <3>3. \A q \in Threads : [db EXCEPT ![t].batches[i].status = "rejected"][q].said = db[q].said
        BY <3>1, BatchFieldSaid DEF CInv, DbTyped
      <3> QED BY <3>2, <3>3
    <2>4. CASE (\E b \in BOOLEAN : Author(b)) \/ AcceptThrows \/ Reload \/ Accept \/ Reject \/ Settled
      BY <2>4 DEF Author, AcceptThrows, Reload, Accept, Reject, Settled, server
    <2> QED BY <2>1, <2>2, <2>3, <2>4
  <1> QED BY <1>2, <1>3, <1>4, TaskOnce

\* After an accept or a reject the queued message is sent, and is queued no longer.
LEMMA ContinueOnce ==
  ASSUME CInv, NEW m \in Texts, Once(m), Continue
  PROVE  Once(m)'
  <1> USE NotNone
  <1>1. UNCHANGED <<db, turns, typed>>
    BY DEF Continue, server
  <1>2. task.queued \in Texts \cup {None}
    BY DEF CInv, TaskTyped, TaskType
  <1>3. ASSUME NEW pc, Rest(pc) PROVE task'.queued # m
    BY <1>3 DEF Rest, NoTask
  <1>4. ASSUME NEW text, SendCaptured(text), text = m => task.queued = m /\ queued' # m /\ draft' # m,
               draft' = m => draft = m, queued' = m => queued = m
        PROVE  Once(m)'
    <2>1. task'.queued # m
      BY <1>3, <1>4 DEF SendCaptured
    <2>2. CASE task.streaming
      <3>1. UNCHANGED streams
        BY <1>4, <2>2 DEF SendCaptured
      <3> QED BY <1>1, <1>4, <2>1, <3>1, TaskOnce
    <2>3. CASE ~task.streaming
      <3>1. Open("continuation") /\ Send("continuation", text) /\ "continuation" \in Slots
        BY <1>4, <2>3 DEF SendCaptured, Slots
      <3>2. text = m => Loose(m) /\ ~Loose(m)'
        BY <1>4, <2>1 DEF Loose
      <3> QED BY <1>1, <1>4, <2>1, <3>1, <3>2, SendsOnce
    <2> QED BY <2>2, <2>3
  <1>5. CASE FlushQueue
    <2>1. draft' = m => draft = m
      BY <1>5 DEF FlushQueue
    <2>2. task.queued = m => draft # m
      BY DEF Once
    <2> QED BY <1>4, <1>5, <2>1, <2>2 DEF FlushQueue
  <1>6. CASE SendCaptured(Follow) /\ UNCHANGED input
    BY <1>4, <1>6 DEF input
  <1>7. CASE Rest("none") /\ UNCHANGED <<input, streams>>
    BY <1>1, <1>3, <1>7, TaskOnce DEF input
  <1>8. \/ FlushQueue
        \/ SendCaptured(Follow) /\ UNCHANGED input
        \/ Rest("none") /\ UNCHANGED <<input, streams>>
    BY DEF Continue
  <1> QED BY <1>5, <1>6, <1>7, <1>8

-----------------------------------------------------------------------------

LEMMA StartsOnce == Init => SInv
  <1> SUFFICES ASSUME Init, NEW m \in Texts PROVE Once(m)
    BY DEF SInv
  <1>1. Said(m) = {}
    <2>1. \A t \in Threads : db[t].said = <<>>
      BY DEF Init, NewRow
    <2>2. DOMAIN <<>> = {}
      OBVIOUS
    <2> QED BY <2>1, <2>2 DEF Said
  <1> QED BY <1>1, NotNone DEF Init, Once, Loose, Unsaid

LEMMA KeepsOnce == CInv /\ SInv /\ [Next]_vars => SInv'
  <1> SUFFICES ASSUME CInv, SInv, [Next]_vars, NEW m \in Texts, m \notin cut' PROVE Once(m)'
    BY DEF SInv
  <1>1. cut \subseteq cut'
    <2>1. CASE Compose \/ Browse \/ Accept \/ Reject \/ SendOpener
      BY <2>1 DEF Compose, Browse, Accept, Reject, SendOpener, Type, SubmitDraft, ClearQueue, NewThread, OpenThread,
         Poll, FetchArrives, history
    <2>2. CASE Settling
      BY <2>2 DEF Settling, RejectBatch, AcceptThrows, Reload, Continue, Settled, AcceptSettings, Author, AcceptRest,
         history
    <2>3. CASE Work
      BY <2>3 DEF Work, BeginTurn, Reply, EndTurn, history
    <2>4. ASSUME NEW slot \in Slots, Streaming(slot) \/ CutStream(slot) PROVE cut \subseteq cut'
      BY <2>4 DEF Streaming, StartTurn, RefuseTurn, StartEvent, StreamEnds, StreamDone, StreamBroken, CutStream,
         history
    <2>5. CASE Restart \/ UNCHANGED vars
      BY <2>5 DEF Restart, vars
    <2> QED BY <2>1, <2>2, <2>3, <2>4, <2>5 DEF Next
  <1>2. Once(m)
    BY <1>1 DEF SInv
  <1>3. CASE Compose \/ Browse \/ SendOpener
    BY <1>2, <1>3, ComposeOnce
  <1>4. CASE Accept \/ Reject
    BY <1>2, <1>4, SettleOnce
  <1>5. CASE Settling
    BY <1>2, <1>5, SettleOnce, ContinueOnce DEF Settling
  <1>6. CASE Work
    BY <1>2, <1>6, WorkOnce
  <1>7. ASSUME NEW slot \in Slots, Streaming(slot) \/ CutStream(slot) PROVE Once(m)'
    BY <1>2, <1>7, StartTurnOnce, RefuseOnce, StreamOnce, CutOnce DEF Streaming
  <1>8. CASE Restart
    BY <1>2, <1>8, RestartOnce
  <1>9. CASE UNCHANGED vars
    <2>1. UNCHANGED <<db, turns, streams, typed, draft, queued, task>>
      BY <1>9 DEF vars
    <2> QED BY <1>2, <2>1, TaskOnce
  <1> QED BY <1>3, <1>4, <1>5, <1>6, <1>7, <1>8, <1>9 DEF Next

LEMMA OnceIsSentOnce == SInv => SentOnce
  <1> SUFFICES ASSUME NEW m \in Texts, Once(m) PROVE Cardinality(Said(m)) <= 1
    BY DEF SInv, SentOnce
  <1>1. \A x, y \in Said(m) : x = y
    BY DEF Once
  <1>2. CASE Said(m) = {}
    BY <1>2, FS_EmptySet
  <1>3. CASE Said(m) # {}
    <2>1. PICK x : x \in Said(m)
      BY <1>3
    <2>2. Said(m) = {x}
      BY <1>1, <2>1
    <2>3. Cardinality({x}) = 1
      BY FS_Singleton
    <2> QED BY <2>2, <2>3
  <1> QED BY <1>2, <1>3

\* What the user typed once is said to the agent once at most, whatever becomes of it on
\* the way (useChatSession.ts: send, its `catch`, the queue, the continuation after an
\* accept or reject), unless the stream that carried it broke: then it is given back
\* though the turn may have begun.
THEOREM ChatSaysOnce == Spec => []SentOnce
  <1>1. CInv /\ SInv /\ [Next]_vars => (CInv /\ SInv)'
    BY Keeps, KeepsOnce
  <1> QED BY Starts, StartsOnce, <1>1, OnceIsSentOnce, PTL DEF Spec

-----------------------------------------------------------------------------
(* Batches rewritten                                                       *)

\* The rows e are d with the i-th batch of t replaced by b.
Rewrites(d, e, t, i, b) ==
    /\ \A q \in Threads : e[q].made = d[q].made
    /\ \A q \in Threads \ {t} : e[q].batches = d[q].batches
    /\ DOMAIN e[t].batches = DOMAIN d[t].batches /\ e[t].batches[i] = b
    /\ \A j \in DOMAIN d[t].batches \ {i} : e[t].batches[j] = d[t].batches[j]

LEMMA BatchRewrites ==
  ASSUME NEW d \in [Threads -> Row], NEW t \in Threads, NEW i \in DOMAIN d[t].batches, NEW b
  PROVE  Rewrites(d, [d EXCEPT ![t].batches[i] = b], t, i, b)
  <1> DEFINE old == d[t].batches
             new == [old EXCEPT ![i] = b]
             row == [d[t] EXCEPT !.batches = new]
  <1>1. old \in Seq(Batch)
    BY RowFields
  <1>2. DOMAIN new = DOMAIN old /\ new[i] = b /\ \A j \in DOMAIN old \ {i} : new[j] = old[j]
    BY <1>1
  <1> HIDE DEF new
  <1>3. row.batches = new /\ row.made = d[t].made
    BY DEF Row
  <1>4. [d EXCEPT ![t].batches[i] = b] = [d EXCEPT ![t] = row]
    BY DEF new
  <1> HIDE DEF row
  <1>5. [d EXCEPT ![t] = row][t] = row /\ \A q \in Threads \ {t} : [d EXCEPT ![t] = row][q] = d[q]
    OBVIOUS
  <1> QED BY <1>2, <1>3, <1>4, <1>5 DEF Rewrites

LEMMA FieldRewrites ==
  ASSUME NEW d \in [Threads -> Row], NEW t \in Threads, NEW i \in DOMAIN d[t].batches
  PROVE  /\ \A x : Rewrites(d, [d EXCEPT ![t].batches[i].status = x], t, i, [d[t].batches[i] EXCEPT !.status = x])
         /\ \A x : Rewrites(d, [d EXCEPT ![t].batches[i].settings = x], t, i, [d[t].batches[i] EXCEPT !.settings = x])
         /\ \A x : Rewrites(d, [d EXCEPT ![t].batches[i].rest = x], t, i, [d[t].batches[i] EXCEPT !.rest = x])
  <1> DEFINE old == d[t].batches[i]
  <1>1. \A b : Rewrites(d, [d EXCEPT ![t].batches[i] = b], t, i, b)
    BY BatchRewrites
  <1>2. ASSUME NEW x PROVE Rewrites(d, [d EXCEPT ![t].batches[i].status = x], t, i, [old EXCEPT !.status = x])
    <2> DEFINE b == [old EXCEPT !.status = x]
    <2>1. [d EXCEPT ![t].batches[i].status = x] = [d EXCEPT ![t].batches[i] = b]
      OBVIOUS
    <2> HIDE DEF b
    <2>2. Rewrites(d, [d EXCEPT ![t].batches[i] = b], t, i, b)
      BY <1>1
    <2>3. Rewrites(d, [d EXCEPT ![t].batches[i].status = x], t, i, b)
      BY <2>1, <2>2
    <2> QED BY <2>3 DEF b
  <1>3. ASSUME NEW x PROVE Rewrites(d, [d EXCEPT ![t].batches[i].settings = x], t, i, [old EXCEPT !.settings = x])
    <2> DEFINE b == [old EXCEPT !.settings = x]
    <2>1. [d EXCEPT ![t].batches[i].settings = x] = [d EXCEPT ![t].batches[i] = b]
      OBVIOUS
    <2> HIDE DEF b
    <2>2. Rewrites(d, [d EXCEPT ![t].batches[i] = b], t, i, b)
      BY <1>1
    <2>3. Rewrites(d, [d EXCEPT ![t].batches[i].settings = x], t, i, b)
      BY <2>1, <2>2
    <2> QED BY <2>3 DEF b
  <1>4. ASSUME NEW x PROVE Rewrites(d, [d EXCEPT ![t].batches[i].rest = x], t, i, [old EXCEPT !.rest = x])
    <2> DEFINE b == [old EXCEPT !.rest = x]
    <2>1. [d EXCEPT ![t].batches[i].rest = x] = [d EXCEPT ![t].batches[i] = b]
      OBVIOUS
    <2> HIDE DEF b
    <2>2. Rewrites(d, [d EXCEPT ![t].batches[i] = b], t, i, b)
      BY <1>1
    <2>3. Rewrites(d, [d EXCEPT ![t].batches[i].rest = x], t, i, b)
      BY <2>1, <2>2
    <2> QED BY <2>3 DEF b
  <1> QED BY <1>2, <1>3, <1>4

LEMMA RewritesTwice ==
  ASSUME NEW d, NEW e, NEW f, NEW t \in Threads, NEW i, NEW b, NEW c, Rewrites(d, e, t, i, b), Rewrites(e, f, t, i, c)
  PROVE  Rewrites(d, f, t, i, c)
  BY DEF Rewrites

-----------------------------------------------------------------------------
(* The invariant of the batches                                            *)

\* Threads whose row is made, and the new thread.
Made == {t \in Threads : db[t].made} \cup {None}

\* Whatever names a thread names one that is made, and only such a one has batches.
Known ==
    /\ tid \in Made
    /\ \A slot \in Slots : streams[slot].thread \in Made
    /\ \A slot \in Slots : streams[slot].snap # None => streams[slot].snap.thread \in Made
    /\ fetch # None => fetch.thread \in Made
    /\ task.snap # None => task.snap.thread \in Made
    /\ \A u \in turns : u.thread \in Made
    /\ \A t \in Threads : ~db[t].made => DOMAIN db[t].batches = {}

\* One accept or reject at a time, on the thread shown until its later items are asked for.
Steady ==
    /\ ~batchBusy => task.pc = "none"
    /\ task.pc \in {"settings", "authoring"} => task.thread = tid /\ tid # None

\* An accept on t that has applied the settings and not yet the later items.
Halves(t) == task.pc \in {"authoring", "rest", "rest failed"} /\ task.thread = t

Sound(b, halves, batchTorn) ==
    /\ b.rest <= 1 /\ (b.rest = 1 => b.settings >= 1) /\ (b.settings <= 1 \/ batchTorn)
    /\ IsPending(b) => b.rest = 0 /\ IF halves THEN b.settings >= 1 ELSE b.settings = 0 \/ batchTorn

OneTurn    == \A u, v \in turns : u.thread = v.thread /\ u.thread # None => u = v
OnePending == \A t \in Threads : \A i, j \in Pending(db[t].batches) : i = j
TurnsClear == \A u \in turns : u.thread \in Threads /\ u.pc # "replied" => Pending(db[u.thread].batches) = {}
HalfWaits  == \A t \in Threads : Halves(t) => Pending(db[t].batches) # {}
AllSound   == \A t \in Threads : \A i \in DOMAIN db[t].batches :
                 Sound(db[t].batches[i], Halves(t), "batch" \in torn)

\* A thread without overlapping turns has one batch pending at most, none while a turn
\* may propose another, and what was applied of it is what the accept under way has done.
BatchParts == OneTurn /\ OnePending /\ TurnsClear /\ HalfWaits /\ AllSound
BatchInv == "overlap" \notin torn => BatchParts

LEMMA BatchInvIsApplied == BatchInv => AppliedOnce
  BY DEF BatchInv, BatchParts, AppliedOnce, AllSound, Sound

\* The newest pending batch is the pending batch.
LEMMA NewestPending ==
  ASSUME CInv, OnePending, NEW t \in Threads, Pending(db[t].batches) # {}
  PROVE  /\ Newest(t) \in Pending(db[t].batches) /\ Newest(t) \in DOMAIN db[t].batches
         /\ \A j \in Pending(db[t].batches) : j = Newest(t)
         /\ IsPending(db[t].batches[Newest(t)])
  <1>1. PICK i : i \in Pending(db[t].batches)
    OBVIOUS
  <1>2. db[t].batches \in Seq(Batch)
    BY RowFields DEF CInv, DbTyped
  <1>3. i \in Nat
    BY <1>1, <1>2 DEF Pending
  <1>4. \A j \in Pending(db[t].batches) : j = i
    BY <1>1 DEF OnePending
  <1>5. \A j \in Pending(db[t].batches) : j <= i
    BY <1>3, <1>4
  <1>6. Newest(t) \in Pending(db[t].batches)
    BY <1>1, <1>5 DEF Newest
  <1> QED BY <1>4, <1>6 DEF Pending

\* A step that touches no batch, ends no half but by a restart, and starts no turn where a batch is pending.
LEMMA BatchesStay ==
  ASSUME BatchInv, \A t \in Threads : db'[t].batches = db[t].batches,
         torn \subseteq torn', \A t \in Threads : (Halves(t)' <=> Halves(t)) \/ ("batch" \in torn' /\ ~Halves(t)'),
         ("overlap" \notin torn' => OneTurn'),
         \A u \in turns' : u.thread \in Threads /\ u.pc # "replied" => Pending(db[u.thread].batches) = {}
                                \/ \E v \in turns : v.thread = u.thread /\ v.pc # "replied"
  PROVE  BatchInv'
  <1> SUFFICES ASSUME "overlap" \notin torn' PROVE BatchParts'
    BY DEF BatchInv
  <1>1. BatchParts
    BY DEF BatchInv
  <1>2. OnePending' /\ HalfWaits'
    BY <1>1 DEF BatchParts, OnePending, HalfWaits
  <1>3. TurnsClear'
    <2>1. ASSUME NEW u \in turns', u.thread \in Threads, u.pc # "replied" PROVE Pending(db'[u.thread].batches) = {}
      <3>1. Pending(db[u.thread].batches) = {} \/ \E v \in turns : v.thread = u.thread /\ v.pc # "replied"
        BY <2>1
      <3>2. Pending(db[u.thread].batches) = {}
        BY <1>1, <2>1, <3>1 DEF BatchParts, TurnsClear
      <3> QED BY <2>1, <3>2
    <2> QED BY <2>1 DEF TurnsClear
  <1>4. AllSound'
    <2>1. ASSUME NEW t \in Threads, NEW i \in DOMAIN db'[t].batches
          PROVE  Sound(db'[t].batches[i], Halves(t)', "batch" \in torn')
      <3>1. Sound(db[t].batches[i], Halves(t), "batch" \in torn)
        BY <1>1, <2>1 DEF BatchParts, AllSound
      <3>2. db'[t].batches[i] = db[t].batches[i]
        BY <2>1
      <3>3. /\ (Halves(t)' <=> Halves(t)) \/ ("batch" \in torn' /\ ~Halves(t)')
            /\ "batch" \in torn => "batch" \in torn'
        BY <2>1
      <3> HIDE DEF Halves
      <3> QED BY <3>1, <3>2, <3>3 DEF Sound
    <2> QED BY <2>1 DEF AllSound
  <1> QED BY <1>2, <1>3, <1>4 DEF BatchParts

\* The pending batch of the thread of an accept or reject is rewritten.
LEMMA BatchRewritten ==
  ASSUME CInv, BatchInv, NEW t \in Threads, Pending(db[t].batches) # {}, NEW b,
         Rewrites(db, db', t, Newest(t), b), UNCHANGED <<turns, torn>>,
         \A q \in Threads \ {t} : Halves(q)' <=> Halves(q),
         IsPending(b) \/ ~Halves(t)',
         Sound(db[t].batches[Newest(t)], Halves(t), "batch" \in torn) => Sound(b, Halves(t)', "batch" \in torn)
  PROVE  BatchInv'
  <1> SUFFICES ASSUME "overlap" \notin torn PROVE BatchParts'
    BY DEF BatchInv
  <1> DEFINE i == Newest(t)
  <1>1. BatchParts
    BY DEF BatchInv
  <1>2. i \in DOMAIN db[t].batches /\ (\A j \in Pending(db[t].batches) : j = i) /\ IsPending(db[t].batches[i])
    BY <1>1, NewestPending DEF BatchParts
  <1> HIDE DEF i
  <1>3. /\ \A q \in Threads \ {t} : db'[q].batches = db[q].batches
        /\ DOMAIN db'[t].batches = DOMAIN db[t].batches /\ db'[t].batches[i] = b
        /\ \A j \in DOMAIN db[t].batches \ {i} : db'[t].batches[j] = db[t].batches[j]
    BY DEF Rewrites, i
  <1>4. \A j \in DOMAIN db'[t].batches : IsPending(db'[t].batches[j]) => j = i
    BY <1>2, <1>3 DEF Pending
  <1>5. \A j \in Pending(db'[t].batches) : j = i
    BY <1>4 DEF Pending
  <1>6. OnePending'
    BY <1>1, <1>3, <1>5 DEF BatchParts, OnePending
  <1>7. TurnsClear'
    <2>1. ASSUME NEW u \in turns, u.thread \in Threads, u.pc # "replied" PROVE Pending(db'[u.thread].batches) = {}
      <3>1. Pending(db[u.thread].batches) = {}
        BY <1>1, <2>1 DEF BatchParts, TurnsClear
      <3>2. u.thread # t
        BY <3>1
      <3> QED BY <1>3, <2>1, <3>1, <3>2
    <2> QED BY <2>1 DEF TurnsClear
  <1>8. HalfWaits'
    <2>1. ASSUME NEW q \in Threads, Halves(q)' PROVE Pending(db'[q].batches) # {}
      <3>1. CASE q = t
        <4>1. i \in Pending(db'[t].batches)
          BY <1>2, <1>3, <2>1, <3>1 DEF Pending
        <4> QED BY <3>1, <4>1
      <3>2. CASE q # t
        <4>1. Pending(db[q].batches) # {}
          BY <1>1, <2>1, <3>2 DEF BatchParts, HalfWaits
        <4> QED BY <1>3, <3>2, <4>1
      <3> QED BY <3>1, <3>2
    <2> QED BY <2>1 DEF HalfWaits
  <1>9. AllSound'
    <2>1. ASSUME NEW q \in Threads, NEW j \in DOMAIN db'[q].batches
          PROVE  Sound(db'[q].batches[j], Halves(q)', "batch" \in torn)
      <3>1. CASE q # t
        <4>1. Sound(db[q].batches[j], Halves(q), "batch" \in torn) /\ db'[q].batches[j] = db[q].batches[j]
          BY <1>1, <1>3, <2>1, <3>1 DEF BatchParts, AllSound
        <4>2. Halves(q)' <=> Halves(q)
          BY <3>1
        <4> HIDE DEF Halves
        <4> QED BY <4>1, <4>2 DEF Sound
      <3>2. CASE q = t /\ j = i
        <4>1. Sound(db[t].batches[i], Halves(t), "batch" \in torn)
          BY <1>1, <1>2 DEF BatchParts, AllSound
        <4>2. Sound(b, Halves(t)', "batch" \in torn)
          BY <4>1 DEF i
        <4> QED BY <1>3, <3>2, <4>2
      <3>3. CASE q = t /\ j # i
        <4>1. j \in DOMAIN db[t].batches /\ db'[t].batches[j] = db[t].batches[j] /\ ~IsPending(db[t].batches[j])
          BY <1>2, <1>3, <2>1, <3>3 DEF Pending
        <4>2. Sound(db[t].batches[j], Halves(t), "batch" \in torn)
          BY <1>1, <4>1 DEF BatchParts, AllSound
        <4>3. Sound(db[t].batches[j], Halves(t)', "batch" \in torn)
          BY <4>1, <4>2 DEF Sound
        <4> QED BY <3>3, <4>1, <4>3
      <3> QED BY <3>1, <3>2, <3>3
    <2> QED BY <2>1 DEF AllSound
  <1>10. OneTurn'
    BY <1>1 DEF BatchParts, OneTurn
  <1> QED BY <1>6, <1>7, <1>8, <1>9, <1>10 DEF BatchParts

-----------------------------------------------------------------------------
(* Threads are known                                                       *)

KnownStream(s) == s.thread \in Made /\ (s.snap # None => s.snap.thread \in Made)
KnownScreen == tid \in Made
KnownStreams == \A slot \in Slots : KnownStream(streams[slot])
KnownFetch == fetch # None => fetch.thread \in Made
KnownTask == task.snap # None => task.snap.thread \in Made
KnownTurns == \A u \in turns : u.thread \in Made
KnownRows == \A t \in Threads : ~db[t].made => DOMAIN db[t].batches = {}

LEMMA KnownParts ==
  Known <=> KnownScreen /\ KnownStreams /\ KnownFetch /\ KnownTask /\ KnownTurns /\ KnownRows
  BY DEF Known, KnownStream, KnownScreen, KnownStreams, KnownFetch, KnownTask, KnownTurns, KnownRows

LEMMA KnownNext ==
  (KnownScreen /\ KnownStreams /\ KnownFetch /\ KnownTask /\ KnownTurns /\ KnownRows)' => Known'
  BY DEF Known, KnownStream, KnownScreen, KnownStreams, KnownFetch, KnownTask, KnownTurns, KnownRows

LEMMA SnapshotThread == ASSUME NEW t PROVE SnapshotOf(t).thread = t
  BY DEF SnapshotOf

\* What stays stays known.
LEMMA KnownStays ==
  ASSUME Known, Made \subseteq Made'
  PROVE  /\ tid' \in Made \cup {tid} => KnownScreen'
         /\ streams' = streams => KnownStreams'
         /\ fetch' = fetch => KnownFetch'
         /\ task'.snap \in {None, task.snap} => KnownTask'
         /\ turns' = turns => KnownTurns'
         /\ db' = db => KnownRows'
  BY KnownParts DEF KnownStream, KnownScreen, KnownStreams, KnownFetch, KnownTask, KnownTurns, KnownRows

LEMMA StreamSetKnown ==
  ASSUME CInv, Known, UNCHANGED db, NEW slot \in Slots, NEW stream, streams' = [streams EXCEPT ![slot] = stream],
         KnownStream(stream)
  PROVE  KnownStreams'
  <1>1. \A q \in Slots : streams'[q] = IF q = slot THEN stream ELSE streams[q]
    BY DEF CInv, StreamsTyped
  <1>2. \A q \in Slots : KnownStream(streams'[q])
    BY <1>1, KnownParts DEF KnownStreams
  <1> QED BY <1>2 DEF KnownStreams, KnownStream, Made

LEMMA SendKnown ==
  ASSUME CInv, Known, UNCHANGED db, NEW slot \in Slots, NEW text, Send(slot, text)
  PROVE  KnownStreams'
  <1> DEFINE stream == [NoStream EXCEPT !.pc = "posted", !.text = text, !.thread = tid]
  <1>1. stream.thread = tid /\ stream.snap = None
    BY DEF NoStream
  <1>2. streams' = [streams EXCEPT ![slot] = stream]
    BY DEF Send
  <1> HIDE DEF stream
  <1>3. KnownStream(stream)
    BY <1>1, KnownParts DEF KnownStream, KnownScreen
  <1> QED BY <1>2, <1>3, StreamSetKnown

LEMMA NoStreamKnown == KnownStream(NoStream)
  BY DEF KnownStream, NoStream, Made

\* A step of the browser: the rows stay.
LEMMA BrowserKnown ==
  ASSUME CInv, Known, Compose \/ Browse \/ SendOpener \/ Accept \/ Reject
  PROVE  Known'
  <1>1. UNCHANGED <<db, turns>>
    BY DEF Compose, Browse, Type, SubmitDraft, ClearQueue, NewThread, OpenThread, Poll, FetchArrives, SendOpener,
       Accept, Reject, server
  <1>2. Made' = Made
    BY <1>1 DEF Made
  <1>3. KnownTurns' /\ KnownRows'
    BY <1>1, <1>2, KnownStays
  <1>4. CASE Compose \/ SendOpener
    <2>1. UNCHANGED <<tid, fetch, task>>
      BY <1>4 DEF Compose, SendOpener, Type, SubmitDraft, ClearQueue, screen
    <2>2. KnownStreams'
      <3>1. CASE UNCHANGED streams
        BY <1>2, <3>1, KnownStays
      <3>2. ASSUME NEW slot \in Slots, NEW text, Send(slot, text) PROVE KnownStreams'
        BY <1>1, <3>2, SendKnown
      <3> QED BY <1>4, <3>1, <3>2 DEF Compose, SendOpener, Type, SubmitDraft, ClearQueue, Slots
    <2> QED BY <1>2, <1>3, <2>1, <2>2, KnownStays, KnownNext
  <1>5. CASE Browse
    <2>1. UNCHANGED <<streams, task>>
      BY <1>5 DEF Browse, NewThread, OpenThread, Poll, FetchArrives
    <2>2. tid' \in Made \cup {tid}
      BY <1>5, KnownParts DEF Browse, NewThread, OpenThread, Poll, FetchArrives, ApplyThread, KnownFetch, Made, screen
    <2>3. KnownFetch'
      <3>1. CASE fetch' \in {fetch, None}
        BY <1>2, <3>1, KnownStays DEF KnownFetch
      <3>2. ASSUME NEW t \in Made, fetch' = SnapshotOf(t) PROVE KnownFetch'
        BY <1>2, <3>2, SnapshotThread DEF KnownFetch
      <3> QED BY <1>5, <3>1, <3>2, KnownParts DEF Browse, NewThread, OpenThread, Poll, FetchArrives, KnownScreen, Made
    <2> QED BY <1>2, <1>3, <2>1, <2>2, <2>3, KnownStays, KnownNext
  <1>6. CASE Accept \/ Reject
    <2>1. UNCHANGED <<tid, streams, fetch>> /\ task'.snap = None
      BY <1>6 DEF Accept, Reject, screen, NoTask
    <2> QED BY <1>2, <1>3, <2>1, KnownStays, KnownNext
  <1> QED BY <1>4, <1>5, <1>6

LEMMA StreamingKnown ==
  ASSUME CInv, Known, NEW slot \in Slots, Streaming(slot) \/ CutStream(slot)
  PROVE  Known'
  <1>1. UNCHANGED <<db, fetch, task>>
    BY DEF Streaming, StartTurn, RefuseTurn, StartEvent, StreamEnds, StreamDone, StreamBroken, CutStream, server
  <1>2. Made' = Made
    BY <1>1 DEF Made
  <1>3. KnownRows' /\ KnownFetch' /\ KnownTask'
    BY <1>1, <1>2, KnownStays
  <1>4. KnownStream(streams[slot])
    BY KnownParts DEF KnownStreams
  <1>5. streams[slot] \in StreamType
    BY DEF CInv, StreamsTyped
  <1>6. KnownStreams'
    <2>1. ASSUME NEW pc, Move(slot, pc) PROVE KnownStreams'
      <3> DEFINE stream == [streams[slot] EXCEPT !.pc = pc]
      <3>1. stream.thread = streams[slot].thread /\ stream.snap = streams[slot].snap
        BY <1>5 DEF StreamType
      <3>2. streams' = [streams EXCEPT ![slot] = stream]
        BY <2>1 DEF Move
      <3> HIDE DEF stream
      <3>3. KnownStream(stream)
        BY <1>4, <3>1 DEF KnownStream
      <3> QED BY <1>1, <3>2, <3>3, StreamSetKnown
    <2>2. CASE streams' = [streams EXCEPT ![slot] = NoStream]
      BY <1>1, <2>2, NoStreamKnown, StreamSetKnown
    <2>3. CASE StreamEnds(slot)
      <3> DEFINE snap == IF tid = None THEN None ELSE SnapshotOf(tid)
                 stream == [streams[slot] EXCEPT !.pc = "reload", !.snap = snap]
      <3>1. snap # None => snap.thread \in Made
        BY SnapshotThread, KnownParts DEF KnownScreen
      <3>2. streams' = [streams EXCEPT ![slot] = stream]
        BY <2>3 DEF StreamEnds
      <3> HIDE DEF snap
      <3>3. stream.thread = streams[slot].thread /\ stream.snap = snap
        BY <1>5 DEF StreamType
      <3> HIDE DEF stream
      <3>4. KnownStream(stream)
        BY <1>4, <3>1, <3>3 DEF KnownStream
      <3> QED BY <1>1, <3>2, <3>4, StreamSetKnown
    <2> QED BY <2>1, <2>2, <2>3
            DEF Streaming, StartTurn, RefuseTurn, StartEvent, StreamDone, StreamBroken, CutStream, GiveBack
  <1>7. KnownScreen'
    <2>1. tid' \in {tid, streams[slot].thread}
          \/ (streams[slot].snap # None /\ tid' = streams[slot].snap.thread)
      BY DEF Streaming, StartTurn, RefuseTurn, StartEvent, StreamEnds, StreamDone, StreamBroken, CutStream,
         ApplyThread, screen
    <2> QED BY <1>2, <1>4, <2>1, KnownParts DEF KnownStream, KnownScreen
  <1>8. KnownTurns'
    <2>1. CASE StartTurn(slot)
      <3> DEFINE v == [pc |-> "spawned", thread |-> streams[slot].thread, text |-> streams[slot].text, slot |-> slot]
      <3>1. turns' = turns \cup {v} /\ v.thread = streams[slot].thread
        BY <2>1 DEF StartTurn
      <3> HIDE DEF v
      <3> QED BY <1>2, <1>4, <3>1, KnownParts DEF KnownTurns, KnownStream
    <2>2. CASE UNCHANGED turns
      BY <1>2, <2>2, KnownStays
    <2>3. CASE turns' = {[u EXCEPT !.slot = IF @ = slot THEN Orphan ELSE @] : u \in turns}
      <3>1. \A u \in turns : u \in TurnType
        BY DEF CInv, TurnsTyped
      <3>2. \A w \in turns' : \E u \in turns : w.thread = u.thread
        BY <2>3, <3>1 DEF TurnType
      <3> QED BY <1>2, <3>2, KnownParts DEF KnownTurns
    <2> QED BY <2>1, <2>2, <2>3
            DEF Streaming, StartTurn, RefuseTurn, StartEvent, StreamEnds, StreamDone, StreamBroken, CutStream, server
  <1> QED BY <1>3, <1>6, <1>7, <1>8, KnownNext

LEMMA RestartKnown ==
  ASSUME CInv, Known, Restart
  PROVE  Known'
  <1>1. UNCHANGED <<db, tid, fetch>> /\ turns' = {}
    BY DEF Restart, screen
  <1>2. Made' = Made
    BY <1>1 DEF Made
  <1>3. task'.snap = task.snap
    BY DEF Restart, CInv, TaskTyped, TaskType
  <1>4. KnownStreams'
    <2>1. \A q \in Slots : LET stream == [streams[q] EXCEPT !.pc = "broken"] IN
             stream.thread = streams[q].thread /\ stream.snap = streams[q].snap
      BY DEF CInv, StreamsTyped, StreamType
    <2>2. \A q \in Slots : streams'[q].thread = streams[q].thread /\ streams'[q].snap = streams[q].snap
      BY <2>1 DEF Restart
    <2> QED BY <1>2, <2>2, KnownParts DEF KnownStreams, KnownStream
  <1>5. KnownTurns'
    BY <1>1 DEF KnownTurns
  <1> QED BY <1>1, <1>2, <1>3, <1>4, <1>5, KnownStays, KnownNext

LEMMA WorkKnown ==
  ASSUME CInv, Known, Work
  PROVE  Known'
  <1>1. UNCHANGED <<tid, fetch, task>>
    BY DEF Work, BeginTurn, Reply, EndTurn, screen
  <1>2. \A q \in Threads : db[q] \in Row
    BY DEF CInv, DbTyped
  <1>3. ASSUME NEW t \in Threads, NEW u \in turns, BeginTurn(t, u) PROVE Known'
    <2> DEFINE row == [db[t] EXCEPT !.made = TRUE, !.turn = "running", !.said = Append(db[t].said, u.text)]
               v == [u EXCEPT !.pc = "busy", !.thread = t, !.text = None]
    <2>1. row.made = TRUE /\ row.batches = db[t].batches
      BY <1>2 DEF Row
    <2>2. db' = [db EXCEPT ![t] = row]
      BY <1>3 DEF BeginTurn
    <2> HIDE DEF row
    <2>3. db'[t].made = TRUE /\ db'[t].batches = db[t].batches /\ \A q \in Threads \ {t} : db'[q] = db[q]
      BY <2>1, <2>2 DEF CInv, DbTyped
    <2>4. Made \subseteq Made' /\ t \in Made'
      BY <2>3 DEF Made
    <2>5. KnownRows'
      BY <2>3, KnownParts DEF KnownRows
    <2>6. KnownTurns'
      <3>1. v.thread = t
        BY DEF CInv, TurnsTyped, TurnType
      <3>2. turns' = (turns \ {u}) \cup {v}
        BY <1>3 DEF BeginTurn
      <3> HIDE DEF v
      <3> QED BY <2>4, <3>1, <3>2, KnownParts DEF KnownTurns
    <2>7. KnownStreams'
      <3>1. CASE UNCHANGED streams
        BY <2>4, <3>1, KnownStays
      <3>2. CASE u.slot # Orphan
        <4> DEFINE s == u.slot
                   stream == [streams[s] EXCEPT !.pc = "begun", !.thread = t]
        <4>1. s \in Slots /\ streams \in [Slots -> StreamType]
          BY <3>2 DEF CInv, TurnsTyped, TurnType, StreamsTyped
        <4>2. stream.thread = t /\ stream.snap = streams[s].snap
          BY <4>1 DEF StreamType
        <4>3. streams' = [streams EXCEPT ![s] = stream]
          BY <1>3, <3>2 DEF BeginTurn
        <4> HIDE DEF stream, s
        <4>4. \A q \in Slots : streams'[q] = IF q = s THEN stream ELSE streams[q]
          BY <4>1, <4>3
        <4> QED BY <2>4, <4>2, <4>4, KnownParts DEF KnownStreams, KnownStream
      <3> QED BY <1>3, <3>1, <3>2 DEF BeginTurn
    <2> QED BY <1>1, <2>4, <2>5, <2>6, <2>7, KnownStays, KnownNext
  <1>4. ASSUME NEW u \in turns, (\E shape \in Shapes \cup {None} : Reply(u, shape)) \/ EndTurn(u) PROVE Known'
    <2>1. u.thread \in Threads /\ u \in TurnType /\ u.thread \in Made
      BY <1>4, KnownParts DEF Reply, EndTurn, CInv, TurnsTyped, ThreadsLinked, KnownTurns
    <2>2. db[u.thread].made
      BY <2>1, ChatAssumption DEF Made
    <2>3. /\ \A q \in Threads : db'[q].made = db[q].made
          /\ \A q \in Threads \ {u.thread} : db'[q].batches = db[q].batches
      <3>1. ASSUME NEW row, row.made = db[u.thread].made, db' = [db EXCEPT ![u.thread] = row]
            PROVE  /\ \A q \in Threads : db'[q].made = db[q].made
                   /\ \A q \in Threads \ {u.thread} : db'[q].batches = db[q].batches
        BY <2>1, <3>1 DEF CInv, DbTyped
      <3>2. CASE EndTurn(u)
        <4> DEFINE row == [db[u.thread] EXCEPT !.turn = "idle"]
        <4>1. row.made = db[u.thread].made
          BY <1>2, <2>1 DEF Row
        <4>2. db' = [db EXCEPT ![u.thread] = row]
          BY <3>2 DEF EndTurn
        <4> HIDE DEF row
        <4> QED BY <3>1, <4>1, <4>2
      <3>3. ASSUME NEW shape, Reply(u, shape)
            PROVE  /\ \A q \in Threads : db'[q].made = db[q].made
                   /\ \A q \in Threads \ {u.thread} : db'[q].batches = db[q].batches
        <4> DEFINE batches == IF shape = None THEN db[u.thread].batches
                              ELSE Append(db[u.thread].batches, Proposed(shape))
                   row == [db[u.thread] EXCEPT !.batches = batches]
        <4>1. db' = [db EXCEPT ![u.thread] = row]
          BY <3>3 DEF Reply
        <4> HIDE DEF batches
        <4>2. row.made = db[u.thread].made
          BY <1>2, <2>1 DEF Row
        <4> HIDE DEF row
        <4> QED BY <3>1, <4>1, <4>2
      <3> QED BY <1>4, <3>2, <3>3
    <2>4. Made' = Made
      BY <2>3 DEF Made
    <2>5. KnownRows'
      BY <2>2, <2>3, KnownParts DEF KnownRows
    <2>6. KnownTurns'
      <3> DEFINE v == [u EXCEPT !.pc = "replied"]
      <3>1. v.thread = u.thread
        BY <2>1 DEF TurnType
      <3>2. turns' = turns \ {u} \/ turns' = (turns \ {u}) \cup {v}
        BY <1>4 DEF Reply, EndTurn
      <3> HIDE DEF v
      <3> QED BY <2>1, <2>4, <3>1, <3>2, KnownParts DEF KnownTurns
    <2>7. UNCHANGED streams
      BY <1>4 DEF Reply, EndTurn
    <2> QED BY <1>1, <2>4, <2>5, <2>6, <2>7, KnownStays, KnownNext
  <1> QED BY <1>3, <1>4 DEF Work

\* The rows e are d but for the batches of t.
Elsewhere(d, e, t) ==
    /\ \A q \in Threads : e[q].made = d[q].made /\ e[q].turn = d[q].turn
    /\ \A q \in Threads \ {t} : e[q].batches = d[q].batches

LEMMA BatchesElsewhere ==
  ASSUME NEW d \in [Threads -> Row], NEW t \in Threads, NEW i
  PROVE  /\ \A x : Elsewhere(d, [d EXCEPT ![t].batches[i].status = x], t)
         /\ \A x : Elsewhere(d, [d EXCEPT ![t].batches[i].settings = x], t)
         /\ \A x : Elsewhere(d, [d EXCEPT ![t].batches[i].rest = x], t)
  <1>1. ASSUME NEW b PROVE Elsewhere(d, [d EXCEPT ![t].batches = b], t)
    <2> DEFINE row == [d[t] EXCEPT !.batches = b]
    <2>1. row.made = d[t].made /\ row.turn = d[t].turn
      BY DEF Row
    <2> HIDE DEF row
    <2>2. [d EXCEPT ![t] = row][t] = row /\ \A q \in Threads \ {t} : [d EXCEPT ![t] = row][q] = d[q]
      OBVIOUS
    <2>3. [d EXCEPT ![t].batches = b] = [d EXCEPT ![t] = row]
      BY DEF row
    <2> QED BY <2>1, <2>2, <2>3 DEF Elsewhere
  <1>2. ASSUME NEW x
        PROVE  /\ Elsewhere(d, [d EXCEPT ![t].batches[i].status = x], t)
               /\ Elsewhere(d, [d EXCEPT ![t].batches[i].settings = x], t)
               /\ Elsewhere(d, [d EXCEPT ![t].batches[i].rest = x], t)
    <2> DEFINE b1 == [d[t].batches EXCEPT ![i].status = x]
               b2 == [d[t].batches EXCEPT ![i].settings = x]
               b3 == [d[t].batches EXCEPT ![i].rest = x]
    <2>1. /\ [d EXCEPT ![t].batches[i].status = x] = [d EXCEPT ![t].batches = b1]
          /\ [d EXCEPT ![t].batches[i].settings = x] = [d EXCEPT ![t].batches = b2]
          /\ [d EXCEPT ![t].batches[i].rest = x] = [d EXCEPT ![t].batches = b3]
      OBVIOUS
    <2> HIDE DEF b1, b2, b3
    <2> QED BY <1>1, <2>1
  <1> QED BY <1>2

LEMMA ElsewhereTwice ==
  ASSUME NEW d, NEW e, NEW f, NEW t, Elsewhere(d, e, t), Elsewhere(e, f, t) PROVE Elsewhere(d, f, t)
  BY DEF Elsewhere

\* Where an accept or reject writes.
LEMMA SettleElsewhere ==
  ASSUME CInv,
         \/ \E outcome \in {"invalid", "failed", "ok"} : AcceptSettings(outcome)
         \/ \E b \in BOOLEAN : AcceptRest(b)
         \/ RejectBatch
  PROVE  task.thread \in Threads /\ Elsewhere(db, db', task.thread) /\ Pending(db[task.thread].batches) # {}
  <1> DEFINE t == task.thread
             i == Newest(t)
  <1>1. t \in Threads /\ Pending(db[t].batches) # {}
    BY TaskThread DEF AcceptSettings, AcceptRest, RejectBatch, Threaded
  <1>2. Elsewhere(db, db, t)
    BY DEF Elsewhere
  <1>3. CASE \E outcome \in {"invalid", "failed", "ok"} : AcceptSettings(outcome)
    <2> DEFINE n == Bump(db[t].batches[i].settings)
               applied == [db EXCEPT ![t].batches[i].settings = n]
               partial == [applied EXCEPT ![t].batches[i].status = "partial"]
               accepted == [applied EXCEPT ![t].batches[i].status = "accepted"]
    <2>1. db' \in {db, applied, partial, accepted}
      BY <1>3 DEF AcceptSettings
    <2>2. applied \in [Threads -> Row]
      BY <1>1, Bumped DEF CInv
    <2> HIDE DEF n, i, t
    <2>3. Elsewhere(db, applied, t)
      BY <1>1, BatchesElsewhere DEF CInv, DbTyped
    <2> HIDE DEF applied
    <2>4. Elsewhere(applied, partial, t) /\ Elsewhere(applied, accepted, t)
      BY <1>1, <2>2, BatchesElsewhere
    <2> HIDE DEF partial, accepted
    <2>5. Elsewhere(db, partial, t) /\ Elsewhere(db, accepted, t)
      BY <2>3, <2>4, ElsewhereTwice
    <2> QED BY <1>1, <1>2, <2>1, <2>3, <2>5 DEF t
  <1>4. CASE \E b \in BOOLEAN : AcceptRest(b)
    <2>1. PICK s \in Statuses :
               db' = [Finish(t, i, s) EXCEPT ![t].batches[i].rest = IF task.pc = "rest" THEN Bump(@) ELSE @]
      BY <1>4 DEF AcceptRest, Statuses
    <2> DEFINE done == Finish(t, i, s)
               k == IF task.pc = "rest" THEN Bump(done[t].batches[i].rest) ELSE done[t].batches[i].rest
    <2>2. db' = [done EXCEPT ![t].batches[i].rest = k]
      BY <2>1
    <2> HIDE DEF k
    <2>3. done \in [Threads -> Row]
      BY <1>1, FieldSet DEF Finish, CInv, DbTyped
    <2> HIDE DEF i, t
    <2>4. Elsewhere(db, done, t)
      BY <1>1, BatchesElsewhere DEF Finish, CInv, DbTyped
    <2> HIDE DEF done
    <2>5. Elsewhere(done, db', t)
      BY <1>1, <2>2, <2>3, BatchesElsewhere
    <2>6. Elsewhere(db, db', t)
      BY <2>4, <2>5, ElsewhereTwice
    <2> QED BY <1>1, <2>6 DEF t
  <1>5. CASE RejectBatch
    <2>1. db' = [db EXCEPT ![t].batches[i].status = "rejected"]
      BY <1>5 DEF RejectBatch, Finish
    <2> HIDE DEF i, t
    <2>2. Elsewhere(db, db', t)
      BY <1>1, <2>1, BatchesElsewhere DEF CInv, DbTyped
    <2> QED BY <1>1, <2>2 DEF t
  <1> QED BY <1>3, <1>4, <1>5

LEMMA SettlingKnown ==
  ASSUME CInv, Known, Settling
  PROVE  Known'
  <1>1. task \in TaskType
    BY DEF CInv, TaskTyped
  <1>2. CASE \/ \E outcome \in {"invalid", "failed", "ok"} : AcceptSettings(outcome)
             \/ \E b \in BOOLEAN : AcceptRest(b)
             \/ RejectBatch
    <2>1. UNCHANGED <<turns, tid, streams, fetch>> /\ task'.snap = task.snap
      BY <1>1, <1>2 DEF AcceptSettings, AcceptRest, RejectBatch, screen, TaskType
    <2>2. task.thread \in Threads /\ Elsewhere(db, db', task.thread) /\ Pending(db[task.thread].batches) # {}
      BY <1>2, SettleElsewhere
    <2>3. Made' = Made
      BY <2>2 DEF Made, Elsewhere
    <2>4. db[task.thread].made
      BY <2>2, KnownParts DEF KnownRows, Pending
    <2>5. KnownRows'
      BY <2>2, <2>4, KnownParts DEF KnownRows, Elsewhere
    <2> QED BY <2>1, <2>3, <2>5, KnownStays, KnownNext
  <1>3. CASE (\E b \in BOOLEAN : Author(b)) \/ AcceptThrows \/ Settled
    <2>1. UNCHANGED <<db, turns, tid, streams, fetch>> /\ task'.snap \in {None, task.snap}
      <3>1. CASE AcceptThrows \/ Settled
        <4>1. UNCHANGED <<db, turns, tid, streams, fetch>> /\ task' = NoTask
          BY <3>1 DEF AcceptThrows, Settled, server, screen
        <4> QED BY <4>1 DEF NoTask
      <3>2. CASE \E b \in BOOLEAN : Author(b)
        BY <1>1, <3>2 DEF Author, server, screen, TaskType
      <3> QED BY <1>3, <3>1, <3>2
    <2>2. Made' = Made
      BY <2>1 DEF Made
    <2> QED BY <2>1, <2>2, KnownStays, KnownNext
  <1>4. CASE Reload
    <2> DEFINE snap == IF tid = None THEN None ELSE SnapshotOf(tid)
    <2>1. UNCHANGED <<db, turns, tid, streams, fetch>> /\ task' = [task EXCEPT !.pc = "reloaded", !.snap = snap]
      BY <1>4 DEF Reload, server, screen
    <2>2. Made' = Made
      BY <2>1 DEF Made
    <2>3. snap # None => snap.thread \in Made
      BY SnapshotThread, KnownParts DEF KnownScreen
    <2> HIDE DEF snap
    <2>4. task'.snap = snap
      BY <1>1, <2>1 DEF TaskType
    <2>5. KnownTask'
      BY <2>2, <2>3, <2>4 DEF KnownTask
    <2> QED BY <2>1, <2>2, <2>5, KnownStays, KnownNext
  <1>5. CASE Continue
    <2>1. UNCHANGED <<db, turns, fetch>>
      BY <1>5 DEF Continue, server
    <2>2. Made' = Made
      BY <2>1 DEF Made
    <2>3. tid' \in Made
      BY <1>5, KnownParts DEF Continue, ApplyThread, screen, KnownTask, KnownScreen
    <2>4. ASSUME NEW pc, Rest(pc) PROVE task'.snap = None
      BY <2>4 DEF Rest, NoTask
    <2>5. ASSUME NEW text, SendCaptured(text) PROVE KnownStreams' /\ task'.snap = None
      <3>1. task'.snap = None
        BY <2>4, <2>5 DEF SendCaptured
      <3>2. CASE task.streaming
        <4>1. UNCHANGED streams
          BY <2>5, <3>2 DEF SendCaptured
        <4> QED BY <2>2, <3>1, <4>1, KnownStays
      <3>3. CASE ~task.streaming
        <4>1. Send("continuation", text) /\ "continuation" \in Slots
          BY <2>5, <3>3 DEF SendCaptured, Slots
        <4> QED BY <2>1, <3>1, <4>1, SendKnown
      <3> QED BY <3>2, <3>3
    <2>6. \/ \E text : SendCaptured(text)
          \/ Rest("none") /\ UNCHANGED streams
      BY <1>5 DEF Continue, FlushQueue
    <2>7. KnownStreams' /\ task'.snap = None
      BY <2>2, <2>4, <2>5, <2>6, KnownStays
    <2> QED BY <2>1, <2>2, <2>3, <2>7, KnownStays, KnownNext
  <1> QED BY <1>2, <1>3, <1>4, <1>5 DEF Settling

LEMMA StartsKnown == Init => Known
  BY DEF Init, Known, Made, NoStream, NoTask, NewRow

LEMMA KnownKeeps ==
  ASSUME CInv, Known, [Next]_vars
  PROVE  Known'
  <1>1. CASE UNCHANGED vars
    <2>1. UNCHANGED <<db, tid, streams, fetch, task, turns>>
      BY <1>1 DEF vars
    <2> QED BY <2>1 DEF Known, Made
  <1> QED BY <1>1, BrowserKnown, StreamingKnown, RestartKnown, WorkKnown, SettlingKnown DEF Next

-----------------------------------------------------------------------------
(* One accept or reject                                                    *)

Staying == "accept" \notin Switching

LEMMA StartsSteady == Init => Steady
  BY DEF Init, Steady, NoTask

LEMMA SteadyKeeps ==
  ASSUME CInv, Staying, Steady, [Next]_vars
  PROVE  Steady'
  <1>1. task \in TaskType
    BY DEF CInv, TaskTyped
  <1>2. ASSUME UNCHANGED batchBusy, UNCHANGED task, tid' = tid \/ MayShow(tid') PROVE Steady'
    BY <1>2 DEF Steady, MayShow, Staying
  <1>3. CASE Compose \/ Browse \/ SendOpener
    <2>1. UNCHANGED <<batchBusy, task>>
      BY <1>3 DEF Compose, Browse, Type, SubmitDraft, ClearQueue, NewThread, OpenThread, Poll, FetchArrives, SendOpener
    <2>2. tid' = tid \/ MayShow(tid')
      BY <1>3 DEF Compose, Browse, Type, SubmitDraft, ClearQueue, NewThread, OpenThread, Poll, FetchArrives, SendOpener,
         ApplyThread, screen
    <2> QED BY <1>2, <2>1, <2>2
  <1>4. CASE Accept \/ Reject
    <2>1. tid' = tid /\ tid # None /\ batchBusy' /\ task'.thread = tid
      BY <1>4 DEF Accept, Reject, screen, NoTask
    <2> QED BY <2>1 DEF Steady
  <1>5. CASE Work
    BY <1>2, <1>5 DEF Work, BeginTurn, Reply, EndTurn, screen
  <1>6. ASSUME NEW slot \in Slots, Streaming(slot) \/ CutStream(slot) PROVE Steady'
    <2>1. UNCHANGED <<batchBusy, task>>
      BY <1>6 DEF Streaming, StartTurn, RefuseTurn, StartEvent, StreamEnds, StreamDone, StreamBroken, CutStream
    <2>2. tid' = tid \/ MayShow(tid')
      BY <1>6 DEF Streaming, StartTurn, RefuseTurn, StartEvent, StreamEnds, StreamDone, StreamBroken, CutStream,
         ApplyThread, screen
    <2> QED BY <1>2, <2>1, <2>2
  <1>7. CASE Restart
    <2>1. UNCHANGED <<tid, batchBusy>> /\ task' \in {task, [task EXCEPT !.pc = "thrown"]}
      BY <1>7 DEF Restart, screen
    <2>2. task' = task \/ (task'.pc = "thrown" /\ task.pc # "none")
      BY <1>1, <1>7, <2>1 DEF Restart, TaskType
    <2> QED BY <2>1, <2>2 DEF Steady
  <1>8. CASE UNCHANGED vars
    BY <1>2, <1>8 DEF vars
  <1>9. CASE Settling
    <2>1. ASSUME NEW pc \in {"none", "sending"}, Rest(pc), task.pc # "none" PROVE Steady'
      BY <2>1 DEF Rest, NoTask, Steady
    <2>2. CASE Continue
      BY <2>1, <2>2 DEF Continue, FlushQueue, SendCaptured
    <2>3. CASE AcceptThrows \/ Settled
      <3>1. task'.pc = "none"
        <4>1. task' = NoTask
          BY <2>3 DEF AcceptThrows, Settled
        <4> QED BY <4>1 DEF NoTask
      <3> QED BY <3>1 DEF Steady
    <2>4. CASE \E outcome \in {"invalid", "failed", "ok"} : AcceptSettings(outcome)
      <3>1. UNCHANGED <<tid, batchBusy>> /\ task'.thread = task.thread /\ task.pc = "settings"
        BY <1>1, <2>4 DEF AcceptSettings, screen, TaskType
      <3> QED BY <3>1 DEF Steady
    <2>5. CASE (\E b \in BOOLEAN : Author(b) \/ AcceptRest(b)) \/ RejectBatch \/ Reload
      <3>1. UNCHANGED <<tid, batchBusy>> /\ task.pc # "none"
        BY <2>5 DEF Author, AcceptRest, RejectBatch, Reload, screen
      <3>2. task'.pc \in {"thrown", "rest", "rest failed", "answered", "reloaded"}
        BY <1>1, <2>5 DEF Author, AcceptRest, RejectBatch, Reload, TaskType
      <3> QED BY <3>1, <3>2 DEF Steady
    <2> QED BY <1>9, <2>2, <2>3, <2>4, <2>5 DEF Settling
  <1> QED BY <1>3, <1>4, <1>5, <1>6, <1>7, <1>8, <1>9 DEF Next

-----------------------------------------------------------------------------
(* Batches                                                                 *)

LEMMA StartsBatches == Init => BatchInv
  <1> SUFFICES ASSUME Init PROVE BatchParts
    BY DEF BatchInv
  <1>1. \A t \in Threads : db[t].batches = <<>> /\ ~Halves(t)
    BY DEF Init, NewRow, Halves, NoTask
  <1>2. DOMAIN <<>> = {}
    OBVIOUS
  <1>3. \A t \in Threads : Pending(db[t].batches) = {}
    BY <1>1, <1>2 DEF Pending
  <1>4. turns = {}
    BY DEF Init
  <1> QED BY <1>1, <1>2, <1>3, <1>4 DEF BatchParts, OneTurn, OnePending, TurnsClear, HalfWaits, AllSound

\* Steps that leave rows and turns.
LEMMA ScreenBatches ==
  ASSUME BatchInv, UNCHANGED <<db, turns, torn>>,
         "overlap" \notin torn => \A t \in Threads : Halves(t)' <=> Halves(t)
  PROVE  BatchInv'
  <1>1. CASE "overlap" \in torn
    BY <1>1 DEF BatchInv
  <1>2. CASE "overlap" \notin torn
    <2>1. OneTurn'
      BY <1>2 DEF BatchInv, BatchParts, OneTurn
    <2>2. \A t \in Threads : (Halves(t)' <=> Halves(t)) \/ ("batch" \in torn' /\ ~Halves(t)')
      BY <1>2
    <2> HIDE DEF Halves
    <2> QED BY <2>1, <2>2, BatchesStay
  <1> QED BY <1>1, <1>2

LEMMA BrowserBatches ==
  ASSUME CInv, Steady, BatchInv, Compose \/ Browse \/ SendOpener \/ Accept \/ Reject
  PROVE  BatchInv'
  <1>1. UNCHANGED <<db, turns, torn>>
    BY DEF Compose, Browse, Type, SubmitDraft, ClearQueue, NewThread, OpenThread, Poll, FetchArrives, SendOpener,
       Accept, Reject, server, history
  <1>2. CASE UNCHANGED task
    <2>1. \A t \in Threads : Halves(t)' <=> Halves(t)
      BY <1>2 DEF Halves
    <2> QED BY <1>1, <2>1, ScreenBatches
  <1>3. CASE Accept \/ Reject
    <2>1. task.pc = "none" /\ task'.pc \in {"settings", "reject"}
      BY <1>3 DEF Accept, Reject, Steady, NoTask
    <2>2. \A t \in Threads : Halves(t)' <=> Halves(t)
      BY <2>1 DEF Halves
    <2> QED BY <1>1, <2>2, ScreenBatches
  <1> QED BY <1>2, <1>3 DEF Compose, Browse, Type, SubmitDraft, ClearQueue, NewThread, OpenThread, Poll,
            FetchArrives, SendOpener

LEMMA StreamBatches ==
  ASSUME CInv, Known, BatchInv, NEW slot \in Slots, Streaming(slot) \/ CutStream(slot)
  PROVE  BatchInv'
  <1>1. UNCHANGED <<db, task>> /\ torn \subseteq torn'
    BY DEF Streaming, StartTurn, RefuseTurn, StartEvent, StreamEnds, StreamDone, StreamBroken, CutStream, server,
       history
  <1>2. \A t \in Threads : Halves(t)' <=> Halves(t)
    BY <1>1 DEF Halves
  <1>3. CASE UNCHANGED <<turns, torn>>
    BY <1>1, <1>2, <1>3, ScreenBatches
  <1>4. CASE StartTurn(slot)
    <2> DEFINE v == [pc |-> "spawned", thread |-> streams[slot].thread, text |-> streams[slot].text, slot |-> slot]
    <2>1. /\ turns' = turns \cup {v} /\ v.thread = streams[slot].thread
          /\ Refusal(streams[slot].thread) = "no"
      BY <1>4 DEF StartTurn
    <2>2. v.thread # None /\ (\E u \in turns : u.thread = v.thread) => "overlap" \in torn'
      BY <1>4 DEF StartTurn
    <2> HIDE DEF v
    <2>3. "overlap" \notin torn' => OneTurn'
      BY <1>1, <2>1, <2>2 DEF BatchInv, BatchParts, OneTurn
    <2>4. v.thread \in Threads => Pending(db[v.thread].batches) = {}
      BY <2>1, ChatAssumption DEF Refusal
    <2>5. \A u \in turns' : u.thread \in Threads /\ u.pc # "replied" => Pending(db[u.thread].batches) = {}
                                \/ \E w \in turns : w.thread = u.thread /\ w.pc # "replied"
      BY <2>1, <2>4
    <2> HIDE DEF Halves
    <2> QED BY <1>1, <1>2, <2>3, <2>5, BatchesStay
  <1>5. CASE CutStream(slot)
    <2>1. \A u \in turns : u \in TurnType
      BY DEF CInv, TurnsTyped
    <2>2. turns' = {[u EXCEPT !.slot = IF @ = slot THEN Orphan ELSE @] : u \in turns} /\ UNCHANGED torn
      BY <1>5 DEF CutStream
    <2> DEFINE Moved(u) == [u EXCEPT !.slot = IF u.slot = slot THEN Orphan ELSE u.slot]
    <2>3. \A u \in turns : Moved(u).thread = u.thread /\ Moved(u).pc = u.pc
      BY <2>1 DEF TurnType
    <2>4. turns' = {Moved(u) : u \in turns}
      BY <2>2
    <2> HIDE DEF Moved
    <2>5. "overlap" \notin torn' => OneTurn'
      BY <2>2, <2>3, <2>4 DEF BatchInv, BatchParts, OneTurn
    <2>6. \A u \in turns' : \E w \in turns : w.thread = u.thread /\ w.pc = u.pc
      BY <2>3, <2>4
    <2> HIDE DEF Halves
    <2> QED BY <1>1, <1>2, <2>5, <2>6, BatchesStay
  <1> QED BY <1>3, <1>4, <1>5
          DEF Streaming, RefuseTurn, StartEvent, StreamEnds, StreamDone, StreamBroken, server, history

LEMMA RestartBatches ==
  ASSUME CInv, BatchInv, Restart
  PROVE  BatchInv'
  <1>1. turns' = {} /\ UNCHANGED db /\ torn \subseteq torn'
    BY DEF Restart
  <1>2. \A t \in Threads : (Halves(t)' <=> Halves(t)) \/ ("batch" \in torn' /\ ~Halves(t)')
    <2>1. CASE UNCHANGED task
      BY <2>1 DEF Halves
    <2>2. CASE task' = [task EXCEPT !.pc = "thrown"] /\ "batch" \in torn'
      <3>1. task'.pc = "thrown"
        BY <2>2 DEF CInv, TaskTyped, TaskType
      <3> QED BY <2>2, <3>1 DEF Halves
    <2> QED BY <2>1, <2>2 DEF Restart
  <1>3. OneTurn'
    BY <1>1 DEF OneTurn
  <1> HIDE DEF Halves
  <1> QED BY <1>1, <1>2, <1>3, BatchesStay

LEMMA WorkBatches ==
  ASSUME CInv, Known, BatchInv, Work
  PROVE  BatchInv'
  <1>1. UNCHANGED <<task, torn>>
    BY DEF Work, BeginTurn, Reply, EndTurn, history
  <1>2. \A t \in Threads : Halves(t)' <=> Halves(t)
    BY <1>1 DEF Halves
  <1>3. \A q \in Threads : db[q] \in Row
    BY DEF CInv, DbTyped
  <1>4. ASSUME NEW t \in Threads, NEW u \in turns, BeginTurn(t, u) PROVE BatchInv'
    <2> DEFINE row == [db[t] EXCEPT !.made = TRUE, !.turn = "running", !.said = Append(db[t].said, u.text)]
               v == [u EXCEPT !.pc = "busy", !.thread = t, !.text = None]
    <2>1. row.batches = db[t].batches
      BY <1>3 DEF Row
    <2>2. db' = [db EXCEPT ![t] = row]
      BY <1>4 DEF BeginTurn
    <2> HIDE DEF row
    <2>3. \A q \in Threads : db'[q].batches = db[q].batches
      BY <2>1, <2>2 DEF CInv, DbTyped
    <2>4. v.thread = t /\ turns' = (turns \ {u}) \cup {v}
      BY <1>4 DEF BeginTurn, CInv, TurnsTyped, TurnType
    <2>5. u.pc = "spawned" /\ (u.thread = t \/ (u.thread = None /\ ~db[t].made))
      BY <1>4 DEF BeginTurn
    <2>6. ~db[t].made => Pending(db[t].batches) = {} /\ \A w \in turns : w.thread # t
      BY ChatAssumption DEF Known, Made, Pending
    <2> HIDE DEF v
    <2>7. "overlap" \notin torn' => OneTurn'
      BY <1>1, <2>4, <2>5, <2>6 DEF BatchInv, BatchParts, OneTurn
    <2>8. \A w \in turns' : w.thread \in Threads /\ w.pc # "replied" => Pending(db[w.thread].batches) = {}
                                \/ \E x \in turns : x.thread = w.thread /\ x.pc # "replied"
      BY <2>4, <2>5, <2>6
    <2> HIDE DEF Halves
    <2> QED BY <1>1, <1>2, <2>3, <2>7, <2>8, BatchesStay
  <1>5. ASSUME NEW u \in turns, EndTurn(u) PROVE BatchInv'
    <2> DEFINE row == [db[u.thread] EXCEPT !.turn = "idle"]
    <2>1. u.thread \in Threads /\ turns' = turns \ {u} /\ db' = [db EXCEPT ![u.thread] = row]
      BY <1>5 DEF EndTurn, CInv, ThreadsLinked
    <2>2. row.batches = db[u.thread].batches
      BY <1>3, <2>1 DEF Row
    <2> HIDE DEF row
    <2>3. \A q \in Threads : db'[q].batches = db[q].batches
      BY <2>1, <2>2 DEF CInv, DbTyped
    <2>4. "overlap" \notin torn' => OneTurn'
      BY <1>1, <2>1 DEF BatchInv, BatchParts, OneTurn
    <2>5. \A w \in turns' : w \in turns
      BY <2>1
    <2> HIDE DEF Halves
    <2> QED BY <1>1, <1>2, <2>3, <2>4, <2>5, BatchesStay
  <1>6. ASSUME NEW u \in turns, NEW shape \in Shapes \cup {None}, Reply(u, shape) PROVE BatchInv'
    <2> DEFINE t == u.thread
               v == [u EXCEPT !.pc = "replied"]
               batches == IF shape = None THEN db[t].batches ELSE Append(db[t].batches, Proposed(shape))
               row == [db[t] EXCEPT !.batches = batches]
    <2>1. t \in Threads /\ u.pc = "busy" /\ turns' = (turns \ {u}) \cup {v} /\ db' = [db EXCEPT ![t] = row]
      BY <1>6 DEF Reply, CInv, ThreadsLinked
    <2>2. v.thread = t /\ v.pc = "replied"
      BY <2>1 DEF CInv, TurnsTyped, TurnType
    <2> HIDE DEF batches, v
    <2>3. row.batches = batches
      BY <1>3, <2>1 DEF Row
    <2> HIDE DEF row
    <2>4. db'[t].batches = batches /\ \A q \in Threads \ {t} : db'[q].batches = db[q].batches
      BY <2>1, <2>3 DEF CInv, DbTyped
    <2>5. "overlap" \notin torn' => OneTurn'
      BY <1>1, <2>1, <2>2 DEF BatchInv, BatchParts, OneTurn
    <2>6. CASE shape = None
      <3>1. \A q \in Threads : db'[q].batches = db[q].batches
        BY <2>4, <2>6 DEF batches
      <3>2. \A w \in turns' : w.pc # "replied" => w \in turns
        BY <2>1, <2>2
      <3> HIDE DEF Halves, t
      <3> QED BY <1>1, <1>2, <2>5, <3>1, <3>2, BatchesStay
    <2>7. CASE shape # None
      <3> SUFFICES ASSUME "overlap" \notin torn PROVE BatchParts'
        BY <1>1 DEF BatchInv
      <3> DEFINE n == Len(db[t].batches) + 1
      <3>1. BatchParts
        BY DEF BatchInv
      <3>2. Pending(db[t].batches) = {}
        BY <2>1, <3>1 DEF BatchParts, TurnsClear
      <3>3. /\ DOMAIN db'[t].batches = 1..n /\ DOMAIN db[t].batches = 1..Len(db[t].batches)
            /\ Len(db[t].batches) \in Nat
            /\ \A i \in 1..Len(db[t].batches) : db'[t].batches[i] = db[t].batches[i]
            /\ db'[t].batches[n] = Proposed(shape)
        <4>1. db[t].batches \in Seq(Batch) /\ Proposed(shape) \in Batch
          <5>1. db[t].batches \in Seq(Batch)
            BY <2>1, RowFields DEF CInv, DbTyped
          <5>2. Proposed(shape) \in Batch
            BY <2>7 DEF Proposed, Batch, Statuses
          <5> QED BY <5>1, <5>2
        <4> HIDE DEF t
        <4> QED BY <2>4, <2>7, <4>1, AppendProperties DEF batches
      <3> HIDE DEF n
      <3>4. \A i \in DOMAIN db'[t].batches : i = n \/ (i \in DOMAIN db[t].batches /\ db'[t].batches[i] = db[t].batches[i])
        BY <3>3 DEF n
      <3>5. \A i \in Pending(db'[t].batches) : i = n
        BY <3>2, <3>4 DEF Pending
      <3>6. OnePending'
        BY <2>4, <3>1, <3>5 DEF BatchParts, OnePending
      <3>7. TurnsClear'
        <4>1. ASSUME NEW w \in turns', w.thread \in Threads, w.pc # "replied"
              PROVE  Pending(db'[w.thread].batches) = {}
          <5>1. w \in turns /\ w # u
            BY <2>1, <2>2, <4>1
          <5>2. w.thread # t
            BY <2>1, <3>1, <4>1, <5>1, ChatAssumption DEF BatchParts, OneTurn
          <5> QED BY <2>4, <3>1, <4>1, <5>1, <5>2 DEF BatchParts, TurnsClear
        <4> QED BY <4>1 DEF TurnsClear
      <3>8. ~Halves(t) /\ ~Halves(t)'
        <4>1. ~Halves(t)
          BY <2>1, <3>1, <3>2 DEF BatchParts, HalfWaits
        <4> QED BY <1>1, <4>1 DEF Halves
      <3>9. HalfWaits'
        <4>1. ASSUME NEW q \in Threads, Halves(q)' PROVE Pending(db'[q].batches) # {}
          <5>1. q # t /\ Halves(q)
            BY <1>2, <3>8, <4>1
          <5> QED BY <2>4, <3>1, <4>1, <5>1 DEF BatchParts, HalfWaits
        <4> QED BY <4>1 DEF HalfWaits
      <3>10. AllSound'
        <4>1. ASSUME NEW q \in Threads, NEW i \in DOMAIN db'[q].batches
              PROVE  Sound(db'[q].batches[i], Halves(q)', "batch" \in torn')
          <5>1. CASE q # t
            <6>1. Sound(db[q].batches[i], Halves(q), "batch" \in torn) /\ db'[q].batches[i] = db[q].batches[i]
              BY <2>4, <3>1, <4>1, <5>1 DEF BatchParts, AllSound
            <6>2. Halves(q)' <=> Halves(q)
              BY <1>2
            <6> HIDE DEF Halves
            <6> QED BY <1>1, <6>1, <6>2 DEF Sound
          <5>2. CASE q = t /\ i = n
            <6>1. db'[q].batches[i] = Proposed(shape)
              BY <3>3, <5>2
            <6> QED BY <3>8, <5>2, <6>1 DEF Sound, Proposed
          <5>3. CASE q = t /\ i # n
            <6>1. i \in DOMAIN db[t].batches /\ db'[t].batches[i] = db[t].batches[i]
              BY <3>4, <4>1, <5>3
            <6>2. Sound(db[t].batches[i], Halves(t), "batch" \in torn)
              BY <2>1, <3>1, <6>1 DEF BatchParts, AllSound
            <6>3. (Halves(q)' <=> Halves(t)) /\ torn' = torn
              BY <1>1, <3>8, <5>3
            <6> HIDE DEF Halves
            <6> QED BY <5>3, <6>1, <6>2, <6>3 DEF Sound
          <5> QED BY <5>1, <5>2, <5>3
        <4> QED BY <4>1 DEF AllSound
      <3>11. OneTurn'
        BY <1>1, <2>5
      <3> QED BY <3>6, <3>7, <3>9, <3>10, <3>11 DEF BatchParts
    <2> QED BY <2>6, <2>7
  <1> QED BY <1>4, <1>5, <1>6 DEF Work

LEMMA BumpCounts == ASSUME NEW n \in 0..2 PROVE (n = 0 => Bump(n) = 1) /\ Bump(n) >= 1
  BY DEF Bump

\* accept_batch's first request.
LEMMA SettingsBatches ==
  ASSUME CInv, BatchInv, NEW outcome \in {"invalid", "failed", "ok"}, AcceptSettings(outcome)
  PROVE  BatchInv'
  <1> SUFFICES ASSUME "overlap" \notin torn PROVE BatchInv'
    BY DEF AcceptSettings, BatchInv, history
  <1>0. PICK t \in Threads : t = task.thread
    BY TaskThread DEF AcceptSettings, Threaded
  <1> DEFINE i == Newest(t)
             old == db[t].batches[i]
             n == Bump(old.settings)
             applied == [db EXCEPT ![t].batches[i].settings = n]
  <1>1. t \in Threads /\ Pending(db[t].batches) # {} /\ task.pc = "settings"
    BY <1>0 DEF AcceptSettings
  <1>2. OnePending /\ AllSound
    BY DEF BatchInv, BatchParts
  <1>3. i \in DOMAIN db[t].batches /\ IsPending(old)
    BY <1>1, <1>2, NewestPending
  <1>4. UNCHANGED <<turns, torn>> /\ task \in TaskType
    BY DEF AcceptSettings, history, CInv, TaskTyped
  <1>5. \A q \in Threads : ~Halves(q)
    BY <1>1 DEF Halves
  <1>6. old \in Batch
    <2>1. db[t].batches \in Seq(Batch)
      BY <1>1, RowFields DEF CInv, DbTyped
    <2> HIDE DEF i
    <2> QED BY <1>3, <2>1
  <1>7. old.settings \in 0..2 /\ old.rest \in 0..2 /\ n >= 1 /\ (old.settings = 0 => n = 1)
    <2> HIDE DEF old
    <2>1. old.settings \in 0..2 /\ old.rest \in 0..2
      BY <1>6 DEF Batch
    <2> QED BY <2>1, BumpCounts
  <1>8. Sound(old, FALSE, "batch" \in torn)
    <2>1. Sound(old, Halves(t), "batch" \in torn)
      BY <1>1, <1>2, <1>3 DEF AllSound
    <2>2. ~Halves(t)
      BY <1>1, <1>5
    <2> HIDE DEF Halves, old
    <2> QED BY <2>1, <2>2 DEF Sound
  <1>9. CASE task' = [task EXCEPT !.pc = "answered"] /\ UNCHANGED db
    <2>1. task'.pc = "answered"
      BY <1>4, <1>9 DEF TaskType
    <2>2. \A q \in Threads : ~Halves(q)'
      BY <2>1 DEF Halves
    <2> QED BY <1>4, <1>5, <1>9, <2>2, ScreenBatches
  <1>10. /\ Rewrites(db, applied, t, i, [old EXCEPT !.settings = n])
         /\ applied \in [Threads -> Row]
    <2>1. applied \in [Threads -> Row]
      BY <1>1, Bumped DEF CInv
    <2> HIDE DEF n
    <2>2. Rewrites(db, applied, t, i, [old EXCEPT !.settings = n])
      <3> HIDE DEF i
      <3> QED BY <1>1, <1>3, FieldRewrites DEF CInv, DbTyped
    <2> QED BY <2>1, <2>2
  <1>11. CASE task' = [task EXCEPT !.pc = "authoring"] /\ db' = applied
    <2> DEFINE b == [old EXCEPT !.settings = n]
    <2>1. task'.pc = "authoring" /\ task'.thread = t
      BY <1>0, <1>4, <1>11 DEF TaskType
    <2>2. Halves(t)' /\ \A q \in Threads \ {t} : ~Halves(q)'
      BY <2>1 DEF Halves
    <2>3. Rewrites(db, db', t, i, b)
      BY <1>10, <1>11
    <2>4. IsPending(b) /\ b.settings = n /\ b.rest = old.rest
      <3> HIDE DEF old, n
      <3> QED BY <1>3, <1>6 DEF Batch, IsPending
    <2>5. Sound(b, TRUE, "batch" \in torn)
      <3> HIDE DEF b, n, old
      <3> QED BY <1>3, <1>7, <1>8, <2>4 DEF Sound
    <2> HIDE DEF b, n, old, applied
    <2>6. Sound(b, Halves(t)', "batch" \in torn)
      BY <2>2, <2>5 DEF Sound
    <2>7. \A q \in Threads \ {t} : Halves(q)' <=> Halves(q)
      BY <1>5, <2>2
    <2> HIDE DEF Halves
    <2>8. Rewrites(db, db', t, Newest(t), b)
      BY <2>3 DEF i
    <2> QED BY <1>1, <1>4, <2>4, <2>6, <2>7, <2>8, BatchRewritten
  <1>12. ASSUME NEW s \in {"partial", "accepted"}, db' = [applied EXCEPT ![t].batches[i].status = s],
                task' = [task EXCEPT !.pc = "answered", !.finished = TRUE]
         PROVE  BatchInv'
    <2> DEFINE a == [old EXCEPT !.settings = n]
               b == [a EXCEPT !.status = s]
    <2>1. task'.pc = "answered"
      BY <1>4, <1>12 DEF TaskType
    <2>2. \A q \in Threads : ~Halves(q)'
      BY <2>1 DEF Halves
    <2>3. applied[t].batches[i] = a /\ i \in DOMAIN applied[t].batches
      BY <1>3, <1>10 DEF Rewrites
    <2>4. Rewrites(db, db', t, i, b)
      <3> HIDE DEF applied, i, a, old
      <3>1. Rewrites(applied, db', t, i, [a EXCEPT !.status = s])
        BY <1>1, <1>10, <1>12, <2>3, FieldRewrites
      <3> HIDE DEF b
      <3>2. Rewrites(db, applied, t, i, a)
        BY <1>10 DEF a
      <3> QED BY <1>1, <3>1, <3>2, RewritesTwice DEF b
    <2>5. ~IsPending(b) /\ b.settings = n /\ b.rest = old.rest
      <3> HIDE DEF old, n
      <3> QED BY <1>6, <1>12 DEF Batch, IsPending
    <2>6. Sound(b, FALSE, "batch" \in torn)
      <3> HIDE DEF a, b, n, old
      <3> QED BY <1>3, <1>7, <1>8, <2>5 DEF Sound
    <2> HIDE DEF a, b, n, old, applied
    <2>7. Sound(b, Halves(t)', "batch" \in torn)
      BY <1>1, <2>2, <2>6 DEF Sound
    <2>8. (\A q \in Threads \ {t} : Halves(q)' <=> Halves(q)) /\ ~Halves(t)'
      BY <1>1, <1>5, <2>2
    <2> HIDE DEF Halves
    <2>9. Rewrites(db, db', t, Newest(t), b)
      BY <2>4 DEF i
    <2> QED BY <1>1, <1>4, <2>7, <2>8, <2>9, BatchRewritten
  <1>13. \/ task' = [task EXCEPT !.pc = "answered"] /\ UNCHANGED db
         \/ task' = [task EXCEPT !.pc = "authoring"] /\ db' = applied
         \/ \E s \in {"partial", "accepted"} :
               /\ db' = [applied EXCEPT ![t].batches[i].status = s]
               /\ task' = [task EXCEPT !.pc = "answered", !.finished = TRUE]
    <2>1. applied = [db EXCEPT ![t].batches[i].settings = Bump(@)]
      OBVIOUS
    <2> HIDE DEF applied, n, old
    <2> QED BY <1>0, <2>1 DEF AcceptSettings
  <1> HIDE DEF applied, i
  <1> QED BY <1>9, <1>11, <1>12, <1>13

\* A request that finishes the pending batch.
LEMMA FinishBatches ==
  ASSUME CInv, BatchInv, "overlap" \notin torn, NEW t \in Threads, Pending(db[t].batches) # {},
         NEW b, Rewrites(db, db', t, Newest(t), b), UNCHANGED <<turns, torn>>, ~IsPending(b),
         task.thread = t, task'.pc = "answered",
         LET old == db[t].batches[Newest(t)] IN
            Sound(old, Halves(t), "batch" \in torn) =>
               /\ b.settings = old.settings
               /\ b.rest \in {0, 1} /\ (b.rest = 1 => Halves(t))
  PROVE  BatchInv'
  <1> DEFINE i == Newest(t)
             old == db[t].batches[i]
  <1>1. OnePending /\ AllSound
    BY DEF BatchInv, BatchParts
  <1>2. i \in DOMAIN db[t].batches /\ IsPending(old)
    BY <1>1, NewestPending
  <1>3. Sound(old, Halves(t), "batch" \in torn)
    BY <1>1, <1>2 DEF AllSound
  <1>4. b.settings = old.settings /\ b.rest \in {0, 1} /\ (b.rest = 1 => Halves(t))
    BY <1>3
  <1>5. \A q \in Threads : ~Halves(q)'
    BY DEF Halves
  <1>6. \A q \in Threads \ {t} : ~Halves(q)
    BY DEF Halves
  <1> HIDE DEF Halves, old, i
  <1>7. Sound(b, FALSE, "batch" \in torn)
    BY <1>2, <1>3, <1>4 DEF Sound
  <1>8. Sound(b, Halves(t)', "batch" \in torn)
    BY <1>5, <1>7 DEF Sound
  <1> QED BY <1>5, <1>6, <1>8, BatchRewritten DEF i, old

LEMMA SettleBatches ==
  ASSUME CInv, Steady, BatchInv, Settling
  PROVE  BatchInv'
  <1> SUFFICES ASSUME "overlap" \notin torn PROVE BatchInv'
    BY DEF Settling, AcceptSettings, Author, AcceptRest, RejectBatch, AcceptThrows, Reload, Continue, Settled,
       BatchInv, history
  <1>1. task \in TaskType
    BY DEF CInv, TaskTyped
  <1>2. OnePending /\ AllSound /\ HalfWaits
    BY DEF BatchInv, BatchParts
  <1>3. CASE \E outcome \in {"invalid", "failed", "ok"} : AcceptSettings(outcome)
    BY <1>3, SettingsBatches
  <1>4. CASE \E b \in BOOLEAN : Author(b)
    <2>1. UNCHANGED <<db, turns, torn>> /\ task.pc = "authoring"
      BY <1>4 DEF Author, server, history
    <2>2. task.thread = tid /\ tid # None
      BY <2>1 DEF Steady
    <2>3. task'.pc \in {"rest", "rest failed"} /\ task'.thread = task.thread
      BY <1>1, <1>4, <2>2 DEF Author, TaskType
    <2>4. \A q \in Threads : Halves(q)' <=> Halves(q)
      BY <2>1, <2>3 DEF Halves
    <2> QED BY <2>1, <2>4, ScreenBatches
  <1>5. CASE \E ok \in BOOLEAN : AcceptRest(ok)
    <2>0. PICK t \in Threads : t = task.thread
      BY <1>5, TaskThread DEF AcceptRest, Threaded
    <2> DEFINE i == Newest(t)
               old == db[t].batches[i]
    <2>1. t \in Threads /\ Pending(db[t].batches) # {} /\ task.pc \in {"rest", "rest failed"} /\ Halves(t)
      BY <1>5, <2>0 DEF AcceptRest, Halves
    <2>2. PICK s \in {"accepted", "partial"} :
              db' = [Finish(t, i, s) EXCEPT ![t].batches[i].rest = IF task.pc = "rest" THEN Bump(@) ELSE @]
      BY <1>5, <2>0 DEF AcceptRest
    <2>3. UNCHANGED <<turns, torn>> /\ task'.pc = "answered"
      BY <1>1, <1>5 DEF AcceptRest, history, TaskType
    <2> DEFINE done == Finish(t, i, s)
               a == [old EXCEPT !.status = s]
               k == IF task.pc = "rest" THEN Bump(done[t].batches[i].rest) ELSE done[t].batches[i].rest
               b == [a EXCEPT !.rest = k]
    <2>4. i \in DOMAIN db[t].batches
      BY <1>2, <2>1, NewestPending
    <2>5. done \in [Threads -> Row]
      <3> HIDE DEF i
      <3> QED BY <2>1, FieldSet DEF Finish, CInv, DbTyped, Statuses
    <2>6. Rewrites(db, done, t, i, a)
      <3> HIDE DEF i
      <3> QED BY <2>1, <2>4, FieldRewrites DEF Finish, CInv, DbTyped
    <2>7. db' = [done EXCEPT ![t].batches[i].rest = k]
      BY <2>2
    <2> HIDE DEF done
    <2>8. i \in DOMAIN done[t].batches /\ done[t].batches[i] = a
      BY <2>4, <2>6 DEF Rewrites
    <2>9. Rewrites(db, db', t, i, b)
      <3> HIDE DEF i, a, k
      <3>1. Rewrites(done, db', t, i, [a EXCEPT !.rest = k])
        BY <2>1, <2>5, <2>7, <2>8, FieldRewrites
      <3> HIDE DEF b
      <3> QED BY <2>1, <2>6, <3>1, RewritesTwice DEF b
    <2>10. old \in Batch
      <3>1. db[t].batches \in Seq(Batch)
        BY <2>1, RowFields DEF CInv, DbTyped
      <3> HIDE DEF i
      <3> QED BY <2>4, <3>1
    <2> HIDE DEF old
    <2>11. a.settings = old.settings /\ a.rest = old.rest /\ a.status = s /\ a \in Batch
      BY <2>10 DEF Batch, Statuses
    <2> HIDE DEF a
    <2>12. k \in {a.rest, Bump(a.rest)}
      BY <2>8
    <2> HIDE DEF k
    <2>13. b.settings = old.settings /\ b.rest = k /\ ~IsPending(b)
      BY <2>11 DEF Batch, IsPending
    <2>14. IsPending(old) /\ old.rest \in 0..2
      <3>1. old.rest \in 0..2
        BY <2>10 DEF Batch
      <3> QED BY <1>2, <2>1, <3>1, NewestPending DEF old
    <2>15. Sound(old, Halves(t), "batch" \in torn) => b.rest \in {0, 1}
      BY <2>11, <2>12, <2>13, <2>14, BumpCounts DEF Sound
    <2> HIDE DEF b, Halves
    <2> QED BY <2>0, <2>1, <2>3, <2>9, <2>13, <2>15, FinishBatches DEF i, old
  <1>6. CASE RejectBatch
    <2>0. PICK t \in Threads : t = task.thread
      BY <1>6, TaskThread DEF RejectBatch, Threaded
    <2> DEFINE i == Newest(t)
               old == db[t].batches[i]
               b == [old EXCEPT !.status = "rejected"]
    <2>1. t \in Threads /\ Pending(db[t].batches) # {} /\ task.pc = "reject"
      BY <1>6, <2>0 DEF RejectBatch
    <2>2. UNCHANGED <<turns, torn>> /\ task'.pc = "answered" /\ db' = [db EXCEPT ![t].batches[i].status = "rejected"]
      BY <1>1, <1>6, <2>0 DEF RejectBatch, history, TaskType, Finish
    <2>3. i \in DOMAIN db[t].batches /\ IsPending(old)
      BY <1>2, <2>1, NewestPending
    <2>4. Rewrites(db, db', t, i, b)
      <3> HIDE DEF i
      <3> QED BY <2>1, <2>2, <2>3, FieldRewrites DEF CInv, DbTyped
    <2>5. old \in Batch
      <3>1. db[t].batches \in Seq(Batch)
        BY <2>1, RowFields DEF CInv, DbTyped
      <3> HIDE DEF i
      <3> QED BY <2>3, <3>1
    <2> HIDE DEF old
    <2>6. b.settings = old.settings /\ b.rest = old.rest /\ ~IsPending(b)
      BY <2>5 DEF Batch, IsPending
    <2>7. Sound(old, Halves(t), "batch" \in torn) => b.rest = 0
      BY <2>3, <2>6 DEF Sound
    <2>8. UNCHANGED <<turns, torn>> /\ task'.pc = "answered"
      BY <2>2
    <2> HIDE DEF b, Halves
    <2> QED BY <2>0, <2>1, <2>4, <2>6, <2>7, <2>8, FinishBatches DEF i, old
  <1>7. CASE AcceptThrows
    <2>1. UNCHANGED <<db, turns, torn>> /\ task' = NoTask
          /\ (task.pc = "thrown" \/ Pending(db[task.thread].batches) = {})
      BY <1>7 DEF AcceptThrows, server, history
    <2>2. \A q \in Threads : ~Halves(q)
      BY <1>2, <2>1 DEF HalfWaits, Halves
    <2>3. \A q \in Threads : ~Halves(q)'
      BY <2>1 DEF Halves, NoTask
    <2> QED BY <2>1, <2>2, <2>3, ScreenBatches
  <1>8. CASE Reload \/ Continue \/ Settled
    <2>1. UNCHANGED <<db, turns, torn>> /\ task.pc \in {"answered", "reloaded", "sending"}
      BY <1>8 DEF Reload, Continue, Settled, server, history
    <2>2. ASSUME NEW pc \in {"none", "sending"}, Rest(pc) PROVE task'.pc = pc
      BY <2>2 DEF Rest, NoTask
    <2>3. task'.pc \in {"reloaded", "none", "sending"}
      <3>1. CASE Reload
        BY <1>1, <3>1 DEF Reload, TaskType
      <3>2. CASE Continue
        BY <2>2, <3>2 DEF Continue, FlushQueue, SendCaptured
      <3>3. CASE Settled
        <4>1. task' = NoTask
          BY <3>3 DEF Settled
        <4> QED BY <4>1 DEF NoTask
      <3> QED BY <1>8, <3>1, <3>2, <3>3
    <2>4. \A q \in Threads : ~Halves(q) /\ ~Halves(q)'
      BY <2>1, <2>3 DEF Halves
    <2> QED BY <2>1, <2>4, ScreenBatches
  <1> QED BY <1>3, <1>4, <1>5, <1>6, <1>7, <1>8 DEF Settling

LEMMA BatchesKeep ==
  ASSUME CInv, Known, Steady, BatchInv, [Next]_vars
  PROVE  BatchInv'
  <1>1. CASE UNCHANGED vars
    <2>1. UNCHANGED <<db, turns, torn>> /\ \A q \in Threads : Halves(q)' <=> Halves(q)
      BY <1>1 DEF vars, Halves
    <2> QED BY <2>1, ScreenBatches
  <1> QED BY <1>1, BrowserBatches, StreamBatches, RestartBatches, WorkBatches, SettleBatches DEF Next

\* Where the thread shown stays while a change is accepted or rejected (useChatSession.ts
\* reads it from a ref between the two requests), the change is applied once: accept_batch
\* applies no item of a batch twice and the later items never without the settings, unless
\* two turns of the thread overlapped or the server restarted between the two requests.
THEOREM ChatAppliesOnce ==
  ASSUME "accept" \notin Switching
  PROVE  Spec => []AppliedOnce
  <1> DEFINE Inv == CInv /\ Known /\ Steady /\ BatchInv
  <1>1. Init => Inv
    BY Starts, StartsKnown, StartsSteady, StartsBatches
  <1>2. Inv /\ [Next]_vars => Inv'
    BY Keeps, KnownKeeps, SteadyKeeps, BatchesKeep DEF Staying
  <1>3. Inv => AppliedOnce
    BY BatchInvIsApplied
  <1> QED BY <1>1, <1>2, <1>3, PTL DEF Spec

-----------------------------------------------------------------------------
(* An idle thread                                                          *)

IdleApart == "overlap" \notin torn => IdleIsIdle
TurnInv == "overlap" \notin torn => OneTurn /\ IdleIsIdle

LEMMA StartsTurns == Init => TurnInv
  BY DEF Init, TurnInv, OneTurn, IdleIsIdle

\* What begins, replies or ends nothing.
LEMMA TurnsStay ==
  ASSUME TurnInv, torn \subseteq torn', \A t \in Threads : db'[t].turn = db[t].turn, UNCHANGED turns
  PROVE  TurnInv'
  BY DEF TurnInv, OneTurn, IdleIsIdle

LEMMA WorkTurns ==
  ASSUME CInv, Known, TurnInv, Work
  PROVE  TurnInv'
  <1> SUFFICES ASSUME "overlap" \notin torn PROVE TurnInv'
    BY DEF TurnInv, Work, BeginTurn, Reply, EndTurn, history
  <1>1. UNCHANGED torn /\ OneTurn /\ IdleIsIdle
    BY DEF TurnInv, Work, BeginTurn, Reply, EndTurn, history
  <1>2. \A q \in Threads : db[q] \in Row
    BY DEF CInv, DbTyped
  <1>3. ASSUME NEW t \in Threads, NEW u \in turns, BeginTurn(t, u) PROVE TurnInv'
    <2> DEFINE row == [db[t] EXCEPT !.made = TRUE, !.turn = "running", !.said = Append(db[t].said, u.text)]
               v == [u EXCEPT !.pc = "busy", !.thread = t, !.text = None]
    <2>1. row.turn = "running"
      BY <1>2 DEF Row
    <2>2. db' = [db EXCEPT ![t] = row]
      BY <1>3 DEF BeginTurn
    <2> HIDE DEF row
    <2>3. db'[t].turn = "running" /\ \A q \in Threads \ {t} : db'[q].turn = db[q].turn
      BY <2>1, <2>2 DEF CInv, DbTyped
    <2>4. v.thread = t /\ turns' = (turns \ {u}) \cup {v}
      BY <1>3 DEF BeginTurn, CInv, TurnsTyped, TurnType
    <2>5. u.thread = t \/ (u.thread = None /\ ~db[t].made)
      BY <1>3 DEF BeginTurn
    <2>6. ~db[t].made => \A w \in turns : w.thread # t
      BY ChatAssumption DEF Known, Made
    <2> HIDE DEF v
    <2>7. OneTurn'
      BY <1>1, <2>4, <2>5, <2>6 DEF OneTurn
    <2>8. IdleIsIdle'
      <3>1. ASSUME NEW q \in Threads, db'[q].turn = "idle", NEW w \in turns', w.thread = q PROVE w.pc = "spawned"
        <4>1. q # t
          BY <2>3, <3>1
        <4>2. w \in turns /\ db[q].turn = "idle"
          BY <2>3, <2>4, <3>1, <4>1
        <4> QED BY <1>1, <3>1, <4>2 DEF IdleIsIdle
      <3> QED BY <3>1 DEF IdleIsIdle
    <2> QED BY <2>7, <2>8 DEF TurnInv
  <1>4. ASSUME NEW u \in turns, EndTurn(u) PROVE TurnInv'
    <2> DEFINE row == [db[u.thread] EXCEPT !.turn = "idle"]
    <2>1. u.thread \in Threads /\ turns' = turns \ {u} /\ db' = [db EXCEPT ![u.thread] = row]
      BY <1>4 DEF EndTurn, CInv, ThreadsLinked
    <2> HIDE DEF row
    <2>2. \A q \in Threads \ {u.thread} : db'[q].turn = db[q].turn
      BY <2>1 DEF CInv, DbTyped
    <2>3. OneTurn'
      BY <1>1, <2>1 DEF OneTurn
    <2>4. \A w \in turns' : w.thread # u.thread
      BY <1>1, <2>1, ChatAssumption DEF OneTurn
    <2>5. IdleIsIdle'
      BY <1>1, <2>1, <2>2, <2>4 DEF IdleIsIdle
    <2> QED BY <2>3, <2>5 DEF TurnInv
  <1>5. ASSUME NEW u \in turns, NEW shape \in Shapes \cup {None}, Reply(u, shape) PROVE TurnInv'
    <2> DEFINE t == u.thread
               v == [u EXCEPT !.pc = "replied"]
               batches == IF shape = None THEN db[t].batches ELSE Append(db[t].batches, Proposed(shape))
               row == [db[t] EXCEPT !.batches = batches]
    <2>1. t \in Threads /\ u.pc = "busy" /\ turns' = (turns \ {u}) \cup {v} /\ db' = [db EXCEPT ![t] = row]
      BY <1>5 DEF Reply, CInv, ThreadsLinked
    <2>2. v.thread = t
      BY <2>1 DEF CInv, TurnsTyped, TurnType
    <2> HIDE DEF batches, v
    <2>3. row.turn = db[t].turn
      BY <1>2, <2>1 DEF Row
    <2> HIDE DEF row
    <2>4. \A q \in Threads : db'[q].turn = db[q].turn
      BY <2>1, <2>3 DEF CInv, DbTyped
    <2>5. OneTurn'
      BY <1>1, <2>1, <2>2 DEF OneTurn
    <2>6. IdleIsIdle'
      BY <1>1, <2>1, <2>2, <2>4 DEF IdleIsIdle
    <2> QED BY <2>5, <2>6 DEF TurnInv
  <1> QED BY <1>3, <1>4, <1>5 DEF Work

LEMMA StreamTurns ==
  ASSUME CInv, TurnInv, NEW slot \in Slots, Streaming(slot) \/ CutStream(slot)
  PROVE  TurnInv'
  <1>1. UNCHANGED db /\ torn \subseteq torn'
    BY DEF Streaming, StartTurn, RefuseTurn, StartEvent, StreamEnds, StreamDone, StreamBroken, CutStream, server,
       history
  <1>2. CASE UNCHANGED turns
    BY <1>1, <1>2, TurnsStay
  <1>3. CASE StartTurn(slot)
    <2> DEFINE v == [pc |-> "spawned", thread |-> streams[slot].thread, text |-> streams[slot].text, slot |-> slot]
    <2>1. turns' = turns \cup {v} /\ v.pc = "spawned"
      BY <1>3 DEF StartTurn
    <2>2. v.thread # None /\ (\E u \in turns : u.thread = v.thread) => "overlap" \in torn'
      BY <1>3 DEF StartTurn
    <2> HIDE DEF v
    <2> QED BY <1>1, <2>1, <2>2 DEF TurnInv, OneTurn, IdleIsIdle
  <1>4. CASE CutStream(slot)
    <2>1. \A u \in turns : u \in TurnType
      BY DEF CInv, TurnsTyped
    <2> DEFINE Moved(u) == [u EXCEPT !.slot = IF u.slot = slot THEN Orphan ELSE u.slot]
    <2>2. \A u \in turns : Moved(u).thread = u.thread /\ Moved(u).pc = u.pc
      BY <2>1 DEF TurnType
    <2>3. turns' = {Moved(u) : u \in turns}
      BY <1>4 DEF CutStream
    <2> HIDE DEF Moved
    <2> QED BY <1>1, <2>2, <2>3 DEF TurnInv, OneTurn, IdleIsIdle
  <1> QED BY <1>2, <1>3, <1>4
          DEF Streaming, RefuseTurn, StartEvent, StreamEnds, StreamDone, StreamBroken, server

LEMMA TurnsKeep ==
  ASSUME CInv, Known, TurnInv, [Next]_vars
  PROVE  TurnInv'
  <1>1. CASE Compose \/ Browse \/ SendOpener \/ Accept \/ Reject
    <2>1. UNCHANGED <<db, turns, torn>>
      BY <1>1 DEF Compose, Browse, Type, SubmitDraft, ClearQueue, NewThread, OpenThread, Poll, FetchArrives,
         SendOpener, Accept, Reject, server, history
    <2> QED BY <2>1, TurnsStay
  <1>2. CASE Settling
    <2>1. CASE \/ \E outcome \in {"invalid", "failed", "ok"} : AcceptSettings(outcome)
               \/ \E b \in BOOLEAN : AcceptRest(b)
               \/ RejectBatch
      <3>1. \A q \in Threads : db'[q].turn = db[q].turn
        BY <2>1, SettleElsewhere DEF Elsewhere
      <3>2. UNCHANGED <<turns, torn>>
        BY <2>1 DEF AcceptSettings, AcceptRest, RejectBatch, history
      <3> QED BY <3>1, <3>2, TurnsStay
    <2>2. CASE (\E b \in BOOLEAN : Author(b)) \/ AcceptThrows \/ Reload \/ Continue \/ Settled
      <3>1. UNCHANGED <<db, turns, torn>>
        BY <2>2 DEF Author, AcceptThrows, Reload, Continue, Settled, server, history
      <3> QED BY <3>1, TurnsStay
    <2> QED BY <1>2, <2>1, <2>2 DEF Settling
  <1>3. CASE Restart
    <2>1. turns' = {} /\ torn \subseteq torn'
      BY <1>3 DEF Restart
    <2> QED BY <2>1 DEF TurnInv, OneTurn, IdleIsIdle
  <1>4. CASE UNCHANGED vars
    <2>1. UNCHANGED <<db, turns, torn>>
      BY <1>4 DEF vars
    <2> QED BY <2>1, TurnsStay
  <1> QED BY <1>1, <1>2, <1>3, <1>4, WorkTurns, StreamTurns DEF Next

\* chat-tables.sql calls a thread "idle" when the next message may start.  That breaks only
\* after start_turn let two turns of one thread through (README, section 5): as long as it
\* has not, whatever breaks or restarts, no turn that has begun works on an idle thread.
THEOREM ChatIdleApart == Spec => []IdleApart
  <1> DEFINE Inv == CInv /\ Known /\ TurnInv
  <1>1. Init => Inv
    BY Starts, StartsKnown, StartsTurns
  <1>2. Inv /\ [Next]_vars => Inv'
    BY Keeps, KnownKeeps, TurnsKeep
  <1>3. Inv => IdleApart
    BY DEF TurnInv, IdleApart
  <1> QED BY <1>1, <1>2, <1>3, PTL DEF Spec

=============================================================================
