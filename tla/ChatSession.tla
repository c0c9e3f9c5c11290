---------------------------- MODULE ChatSession -----------------------------
(***************************************************************************)
(* The workbench's chat: the browser hook (chat/useChatSession.ts), the    *)
(* handlers it calls (routes/chat.py) and the threads that run the agent's *)
(* turns (chat_agent.py).                                                  *)
(*                                                                         *)
(* One user, one space, one tab.  The hook's functions are asynchronous: a *)
(* function goes on after an `await` with the values it captured when it   *)
(* was called, except for the open thread, which it reads from a ref.  A   *)
(* step is what runs between two awaits; a request and the handler that    *)
(* answers it are one step where the handler writes nothing but its answer.*)
(*                                                                         *)
(* The tail of run_turn is two writes: the assistant's message, with the   *)
(* change batch it proposes, and the thread's status.  The canvas beside   *)
(* the transcript, the deltas of a text and error messages are left out.   *)
(***************************************************************************)
EXTENDS Naturals, Sequences, FiniteSets

CONSTANTS
    Threads,      \* ids of chat_threads rows
    Texts,        \* what the user types, each once
    None,         \* null
    MaxBatches,   \* bound: batches the turns propose
    Switching,    \* {"accept"}: threads are changed while a batch is being accepted
    Faults,       \* what can fail: a stream cut "early" or "late", a "restart"
    MaxFaults     \* bound: faults

Follow == "follow-up"        \* followUpPrompt's hidden message

\* "settings": only settings items; "split": builder items or later ones too.
Shapes   == {"settings", "split"}
Statuses == {"pending", "accepted", "partial", "rejected"}

ASSUME ChatAssumption ==
    /\ None \notin Threads /\ None \notin Texts /\ Follow \notin Texts /\ None # Follow
    /\ MaxBatches \in Nat /\ MaxFaults \in Nat

Messages  == Texts \cup {Follow}
MaybeText == Messages \cup {None}
Tid       == Threads \cup {None}

\* A message's batch; settings and rest count how often its items were applied.
Batch == [status : Statuses, shape : Shapes, settings : 0..2, rest : 0..2]

\* A chat_threads row with its messages.
Row == [made : BOOLEAN, turn : {"idle", "running"}, said : Seq(Messages), batches : Seq(Batch)]

\* What a thread's row looked like when a request read it.
Snapshot == [thread : Threads, turn : {"idle", "running"}, pending : BOOLEAN]

VARIABLES
    db,        \* the catalog: the rows of the threads
    turns,     \* the agent's threads: turns start_turn let through
    tid,       \* threadIdRef
    pending,   \* some message shown has a pending batch
    status,    \* turnStatus
    draft, queued, streaming, batchBusy, opener,
    streams,   \* the `send` under way, from the composer or from a continuation
    task,      \* the accept or reject under way
    fetch,     \* the answer to openThread or to the poll that has not arrived (bound: one)
    typed,     \* history: what the user has typed
    cut,       \* history: texts whose stream broke
    torn,      \* history: "overlap" if two turns of one thread were let through, "batch" if
               \* a request of an accept was lost, "server" if the server restarted
    faults

server == <<db, turns>>
screen == <<tid, pending, status>>
input  == <<draft, queued>>
history == <<cut, torn, faults>>
vars == <<db, turns, tid, pending, status, draft, queued, streaming, batchBusy,
          opener, streams, task, fetch, typed, cut, torn, faults>>

Slots    == {"composer", "continuation", "opener"}
Orphan   == "nobody"         \* the slot of a turn whose stream broke
NoStream == [pc |-> "none", text |-> None, thread |-> None, snap |-> None]
NoTask   == [pc |-> "none", kind |-> None, thread |-> None, queued |-> None,
             streaming |-> FALSE, finished |-> FALSE, snap |-> None]

IsPending(b) == b.status = "pending"
Pending(batches) == {i \in DOMAIN batches : IsPending(batches[i])}

SnapshotOf(t) == [thread |-> t, turn |-> db[t].turn,
                  pending |-> Pending(db[t].batches) # {}]

NewRow == [made |-> FALSE, turn |-> "idle", said |-> <<>>, batches |-> <<>>]

Init ==
    /\ db = [t \in Threads |-> NewRow] /\ turns = {}
    /\ tid = None /\ pending = FALSE /\ status = "idle"
    /\ draft = None /\ queued = None /\ streaming = FALSE /\ batchBusy = FALSE /\ opener = FALSE
    /\ streams = [s \in Slots |-> NoStream] /\ task = NoTask /\ fetch = None
    /\ typed = {} /\ cut = {} /\ torn = {} /\ faults = 0

-----------------------------------------------------------------------------
(* The hook's small functions                                              *)

\* applyThread
ApplyThread(snap) ==
    /\ tid' = snap.thread /\ pending' = snap.pending /\ status' = snap.turn

\* send, past its early returns.
Send(slot, text) ==
    /\ streaming' = TRUE
    /\ streams' = [streams EXCEPT ![slot] = [NoStream EXCEPT !.pc = "posted", !.text = text,
                                                             !.thread = tid]]

Open(slot) == streams[slot].pc = "none"

Move(slot, pc) == streams' = [streams EXCEPT ![slot].pc = pc]

\* Slip: a message refused for a pending batch is queued and returned.
GiveBackTwice(slot, reason) ==
    LET text == streams[slot].text IN
    /\ streaming' = FALSE
    /\ streams' = [streams EXCEPT ![slot] = NoStream]
    /\ IF text = Follow THEN UNCHANGED input
       ELSE /\ draft' = text
            /\ queued' = IF reason = "batch_pending" THEN text ELSE queued

\* The `catch` and `finally` of send: a hidden message is dropped, one refused
\* for a pending batch is queued, any other returns to the composer.
GiveBack(slot, reason) ==
    LET text == streams[slot].text IN
    /\ streaming' = FALSE
    /\ streams' = [streams EXCEPT ![slot] = NoStream]
    /\ IF text = Follow THEN UNCHANGED input
       ELSE IF reason = "batch_pending" THEN queued' = text /\ UNCHANGED draft
       ELSE draft' = text /\ UNCHANGED queued

-----------------------------------------------------------------------------
(* The composer and the thread list                                        *)

Type(m) ==
    /\ m \notin typed /\ draft = None
    /\ typed' = typed \cup {m} /\ draft' = m
    /\ UNCHANGED <<server, screen, queued, streaming, batchBusy, opener, streams, task, fetch,
                   history>>

\* Bound: no turn is asked of a new thread when no id is left for one.
Asked == {slot \in Slots : streams[slot].pc = "posted" /\ streams[slot].thread = None}
Unborn == {u \in turns : u.thread = None}
Room == tid = None => Cardinality({t \in Threads : ~db[t].made})
                        > Cardinality(Asked) + Cardinality(Unborn)

\* The composer's send: while a batch is pending the message waits in the queue.
SubmitDraft ==
    /\ draft # None /\ ~streaming /\ draft' = None
    /\ IF pending
         THEN queued' = draft /\ UNCHANGED <<streaming, streams>>
         ELSE Room /\ Open("composer") /\ Send("composer", draft) /\ UNCHANGED queued
    /\ UNCHANGED <<server, screen, batchBusy, opener, task, fetch, typed, history>>

\* Unless "accept" \in Switching, another thread is shown only once the batch that
\* is being accepted or rejected is settled.
MayShow(t) ==
    "accept" \in Switching \/ task.pc \in {"none", "sending"} \/ t = task.thread

NewThread ==
    /\ MayShow(None)
    /\ tid' = None /\ pending' = FALSE /\ status' = "idle" /\ queued' = None
    /\ UNCHANGED <<server, draft, streaming, batchBusy, opener, streams, task, fetch,
                   typed, history>>

\* openThread, up to its await; the answer is applied whatever happened since.
OpenThread(t) ==
    /\ db[t].made /\ fetch = None /\ fetch' = SnapshotOf(t)
    /\ UNCHANGED <<server, screen, input, streaming, batchBusy, opener, streams, task,
                   typed, history>>

\* reloadOpenThread, called once a second while a turn is shown to run.
Poll ==
    /\ tid # None /\ ~streaming /\ status = "running"
    /\ fetch = None /\ fetch' = SnapshotOf(tid)
    /\ UNCHANGED <<server, screen, input, streaming, batchBusy, opener, streams, task,
                   typed, history>>

FetchArrives ==
    /\ fetch # None /\ MayShow(fetch.thread) /\ ApplyThread(fetch) /\ fetch' = None
    /\ UNCHANGED <<server, input, streaming, batchBusy, opener, streams, task, typed, history>>

-----------------------------------------------------------------------------
(* A turn                                                                  *)

\* start_turn: an open thread that runs a turn or holds a pending batch refuses.
Refusal(t) ==
    IF t = None THEN "no"
    ELSE IF db[t].turn = "running" THEN "turn_running"
    ELSE IF Pending(db[t].batches) # {} THEN "batch_pending"
    ELSE "no"

StartTurn(slot) ==
    LET s == streams[slot] IN
    /\ s.pc = "posted" /\ Refusal(s.thread) = "no"
    /\ turns' = turns \cup {[pc |-> "spawned", thread |-> s.thread, text |-> s.text, slot |-> slot]}
    /\ Move(slot, "accepted")
    /\ torn' = IF s.thread # None /\ \E u \in turns : u.thread = s.thread
                 THEN torn \cup {"overlap"} ELSE torn
    /\ UNCHANGED <<db, screen, input, streaming, batchBusy, opener, task, fetch,
                   typed, cut, faults>>

RefuseTurn(slot) ==
    LET s == streams[slot] IN
    /\ s.pc = "posted" /\ Refusal(s.thread) # "no" /\ GiveBack(slot, Refusal(s.thread))
    /\ UNCHANGED <<server, screen, batchBusy, opener, task, fetch, typed, history>>

\* run_turn up to its first event: the thread's row, the user's message, the status.
BeginTurn(t, u) ==
    /\ u \in turns /\ u.pc = "spawned"
    /\ IF u.thread = None THEN ~db[t].made ELSE t = u.thread
    /\ db' = [db EXCEPT ![t].made = TRUE, ![t].turn = "running",
                        ![t].said = Append(@, u.text)]
    /\ turns' = (turns \ {u}) \cup {[u EXCEPT !.pc = "busy", !.thread = t, !.text = None]}
    /\ streams' = IF u.slot = Orphan THEN streams
                  ELSE [streams EXCEPT ![u.slot].pc = "begun", ![u.slot].thread = t]
    /\ UNCHANGED <<screen, input, streaming, batchBusy, opener, task, fetch, typed, history>>

\* The stream's `start` event.
StartEvent(slot) ==
    /\ streams[slot].pc = "begun" /\ MayShow(streams[slot].thread) /\ tid' = streams[slot].thread /\ Move(slot, "open")
    /\ UNCHANGED <<server, pending, status, input, streaming, batchBusy, opener, task, fetch,
                   typed, history>>

Proposals == Cardinality(UNION {{<<t, i>> : i \in DOMAIN db[t].batches} : t \in Threads})

Proposed(shape) == [status |-> "pending", shape |-> shape, settings |-> 0, rest |-> 0]

\* The assistant's message, with or without a batch.
Reply(u, shape) ==
    /\ u \in turns /\ u.pc = "busy" /\ turns' = (turns \ {u}) \cup {[u EXCEPT !.pc = "replied"]}
    /\ shape # None => Proposals < MaxBatches
    /\ db' = [db EXCEPT ![u.thread].batches = IF shape = None THEN @ ELSE Append(@, Proposed(shape))]
    /\ UNCHANGED <<screen, input, streaming, batchBusy, opener, streams, task, fetch, typed, history>>

\* Slip: the status is set where the turn succeeds only, and this one does not.
EndTurnRunning(u) ==
    /\ u \in turns /\ u.pc = "replied" /\ turns' = turns \ {u}
    /\ UNCHANGED <<db, screen, input, streaming, batchBusy, opener, streams, task, fetch, typed, history>>

\* run_turn's `finally`.
EndTurn(u) ==
    /\ u \in turns /\ u.pc = "replied" /\ turns' = turns \ {u}
    /\ db' = [db EXCEPT ![u.thread].turn = "idle"]
    /\ UNCHANGED <<screen, input, streaming, batchBusy, opener, streams, task, fetch, typed, history>>

\* The stream has ended: send asks for the open thread, which need not be its own.
StreamEnds(slot) ==
    LET s == streams[slot] IN
    /\ s.pc = "open" /\ \A u \in turns : u.slot # slot
    /\ streams' = [streams EXCEPT ![slot].pc = "reload",
                                  ![slot].snap = IF tid = None THEN None ELSE SnapshotOf(tid)]
    /\ UNCHANGED <<server, screen, input, streaming, batchBusy, opener, task, fetch,
                   typed, history>>

StreamDone(slot) ==
    LET s == streams[slot] IN
    /\ s.pc = "reload"
    /\ IF s.snap = None THEN UNCHANGED screen ELSE MayShow(s.snap.thread) /\ ApplyThread(s.snap)
    /\ streams' = [streams EXCEPT ![slot] = NoStream] /\ streaming' = FALSE
    /\ UNCHANGED <<server, input, batchBusy, opener, task, fetch, typed, history>>

-----------------------------------------------------------------------------
(* accept and reject                                                       *)

\* The column's accept button: shown on a pending batch, disabled while one is applied.
Accept ==
    /\ ~batchBusy /\ pending /\ tid # None
    /\ batchBusy' = TRUE
    /\ task' = [NoTask EXCEPT !.pc = "settings", !.kind = "accept", !.thread = tid, !.queued = queued,
                              !.streaming = streaming]
    /\ UNCHANGED <<server, screen, input, streaming, opener, streams, fetch, typed, history>>

Reject ==
    /\ ~batchBusy /\ pending /\ tid # None
    /\ batchBusy' = TRUE
    /\ task' = [NoTask EXCEPT !.pc = "reject", !.kind = "reject", !.thread = tid, !.queued = queued,
                              !.streaming = streaming]
    /\ UNCHANGED <<server, screen, input, streaming, opener, streams, fetch, typed, history>>

\* pending_batch: the newest pending one.
Newest(t) == CHOOSE i \in Pending(db[t].batches) : \A j \in Pending(db[t].batches) : j <= i

Bump(n) == IF n < 2 THEN n + 1 ELSE n

\* _finish_batch
Finish(t, i, s) == [db EXCEPT ![t].batches[i].status = s]

\* accept_batch's phase "settings": a batch of settings only is finished by it, as
\* is one whose settings fail; validation errors apply nothing.
AcceptSettings(outcome) ==
    LET t == task.thread
        i == Newest(t)
        whole == db[t].batches[i].shape = "settings"
        applied == [db EXCEPT ![t].batches[i].settings = Bump(@)] IN
    /\ task.pc = "settings" /\ Pending(db[t].batches) # {}
    /\ CASE outcome = "invalid" -> UNCHANGED db /\ task' = [task EXCEPT !.pc = "answered"]
         [] outcome = "failed" ->
              /\ db' = [applied EXCEPT ![t].batches[i].status = "partial"]
              /\ task' = [task EXCEPT !.pc = "answered", !.finished = TRUE]
         [] outcome = "ok" /\ whole ->
              /\ db' = [applied EXCEPT ![t].batches[i].status = "accepted"]
              /\ task' = [task EXCEPT !.pc = "answered", !.finished = TRUE]
         [] OTHER -> db' = applied /\ task' = [task EXCEPT !.pc = "authoring"]
    /\ UNCHANGED <<turns, screen, input, streaming, batchBusy, opener, streams, fetch,
                   typed, history>>

\* applyChatIntents saves the builder items one by one and stops at the first
\* failure; the next request goes to the thread that is open by then.
Author(failed) ==
    /\ task.pc = "authoring"
    /\ task' = IF tid = None THEN [task EXCEPT !.pc = "thrown"]
               ELSE [task EXCEPT !.pc = IF failed THEN "rest failed" ELSE "rest", !.thread = tid]
    /\ UNCHANGED <<server, screen, input, streaming, batchBusy, opener, streams, fetch,
                   typed, history>>

\* Slip: the rest is applied and the batch stays pending.
AcceptRestOnly(ok) ==
    LET t == task.thread
        i == Newest(t) IN
    /\ task.pc \in {"rest", "rest failed"} /\ Pending(db[t].batches) # {}
    /\ task.pc = "rest failed" => ~ok
    /\ db' = [db EXCEPT ![t].batches[i].rest = IF task.pc = "rest" THEN Bump(@) ELSE @]
    /\ task' = [task EXCEPT !.pc = "answered", !.finished = TRUE]
    /\ UNCHANGED <<turns, screen, input, streaming, batchBusy, opener, streams, fetch,
                   typed, history>>

\* accept_batch's phase "rest", which finishes the batch.
AcceptRest(ok) ==
    LET t == task.thread
        i == Newest(t) IN
    /\ task.pc \in {"rest", "rest failed"} /\ Pending(db[t].batches) # {}
    /\ task.pc = "rest failed" => ~ok
    /\ db' = [Finish(t, i, IF ok THEN "accepted" ELSE "partial")
                EXCEPT ![t].batches[i].rest = IF task.pc = "rest" THEN Bump(@) ELSE @]
    /\ task' = [task EXCEPT !.pc = "answered", !.finished = TRUE]
    /\ UNCHANGED <<turns, screen, input, streaming, batchBusy, opener, streams, fetch,
                   typed, history>>

RejectBatch ==
    LET t == task.thread IN
    /\ task.pc = "reject" /\ Pending(db[t].batches) # {}
    /\ db' = Finish(t, Newest(t), "rejected")
    /\ task' = [task EXCEPT !.pc = "answered"]
    /\ UNCHANGED <<turns, screen, input, streaming, batchBusy, opener, streams, fetch,
                   typed, history>>

\* Slip: no `finally` clears the flag.
AcceptThrowsBusy ==
    /\ \/ task.pc = "thrown"
       \/ task.pc \in {"settings", "rest", "rest failed", "reject"}
          /\ Pending(db[task.thread].batches) = {}
    /\ task' = NoTask
    /\ UNCHANGED <<server, screen, input, streaming, batchBusy, opener, streams, fetch, typed, history>>

\* "no change is waiting", and what else throws: the error is shown.
AcceptThrows ==
    /\ \/ task.pc = "thrown"
       \/ task.pc \in {"settings", "rest", "rest failed", "reject"}
          /\ Pending(db[task.thread].batches) = {}
    /\ task' = NoTask /\ batchBusy' = FALSE
    /\ UNCHANGED <<server, screen, input, streaming, opener, streams, fetch, typed, history>>

\* reloadOpenThread after the last answer.
Reload ==
    /\ task.pc = "answered"
    /\ task' = [task EXCEPT !.pc = "reloaded", !.snap = IF tid = None THEN None ELSE SnapshotOf(tid)]
    /\ UNCHANGED <<server, screen, input, streaming, batchBusy, opener, streams, fetch,
                   typed, history>>

\* What is left of the task once the thread is shown again: the turn it awaits.
Rest(pc) == IF pc = "none" THEN task' = NoTask /\ batchBusy' = FALSE
            ELSE task' = [NoTask EXCEPT !.pc = pc] /\ UNCHANGED batchBusy

\* send as the task captured it: it returns at once if a stream was open then.
SendCaptured(text) ==
    IF task.streaming THEN Rest("none") /\ UNCHANGED <<streaming, streams>>
    ELSE Open("continuation") /\ Send("continuation", text) /\ Rest("sending")

\* flushQueue, with the queue the task captured; a send that is not hidden empties the
\* composer.
FlushQueue ==
    /\ queued' = None /\ SendCaptured(task.queued)
    /\ draft' = IF task.streaming THEN draft ELSE None

\* applyThread, then continueAfter or reject's flushQueue: the queued message goes
\* first, else a finished batch is followed up, at once or when the stream ends.
Continue ==
    /\ task.pc = "reloaded"
    /\ IF task.snap = None THEN UNCHANGED screen ELSE ApplyThread(task.snap)
    /\ CASE task.queued # None /\ (task.kind = "reject" \/ task.finished) ->
              FlushQueue /\ UNCHANGED opener
         [] task.queued = None /\ task.finished /\ ~task.streaming ->
              SendCaptured(Follow) /\ UNCHANGED <<input, opener>>
         [] task.queued = None /\ task.finished /\ task.streaming ->
              opener' = TRUE /\ Rest("none") /\ UNCHANGED <<input, streaming, streams>>
         [] OTHER -> Rest("none") /\ UNCHANGED <<input, opener, streaming, streams>>
    /\ UNCHANGED <<server, fetch, typed, history>>

\* accept's and reject's `finally`, once the turn they sent is over.
Settled ==
    /\ task.pc = "sending" /\ streams["continuation"].pc = "none"
    /\ task' = NoTask /\ batchBusy' = FALSE
    /\ UNCHANGED <<server, screen, input, streaming, opener, streams, fetch, typed, history>>

\* The opener effect.
SendOpener ==
    /\ opener /\ ~streaming /\ Room /\ Open("opener")
    /\ opener' = FALSE /\ Send("opener", Follow)
    /\ UNCHANGED <<server, screen, input, batchBusy, task, fetch, typed, history>>

\* The queue's remove button.
ClearQueue ==
    /\ queued # None /\ queued' = None
    /\ UNCHANGED <<server, screen, draft, streaming, batchBusy, opener, streams, task, fetch,
                   typed, history>>

-----------------------------------------------------------------------------
(* Faults                                                                  *)

Fault(f) == f \in Faults /\ faults < MaxFaults /\ faults' = faults + 1

\* The stream breaks, before or after its first event, or the reload that ends it
\* fails; the turn goes on.  Bound: one such turn at a time.
CutStream(slot) ==
    /\ \/ streams[slot].pc \in {"open", "reload"} /\ Fault("late")
       \/ streams[slot].pc \in {"accepted", "begun"} /\ Fault("early")
    /\ \A u \in turns : u.slot # Orphan
    /\ turns' = {[u EXCEPT !.slot = IF @ = slot THEN Orphan ELSE @] : u \in turns}
    /\ cut' = cut \cup {streams[slot].text} /\ GiveBack(slot, "failed")
    /\ UNCHANGED <<db, screen, batchBusy, opener, task, fetch, typed, torn>>

\* The stream of a server that is gone.
StreamBroken(slot) ==
    /\ streams[slot].pc = "broken"
    /\ cut' = cut \cup {streams[slot].text} /\ GiveBack(slot, "failed")
    /\ UNCHANGED <<server, screen, batchBusy, opener, task, fetch, typed, torn, faults>>

\* The server restarts: its threads and the requests it had are gone, the rows stay.
\* It has some; otherwise nothing changes.
Restart ==
    /\ Fault("restart")
    /\ \/ turns # {}
       \/ \E slot \in Slots : streams[slot].pc \in {"posted", "begun", "open"}
       \/ task.pc \in {"settings", "rest", "rest failed", "reject"}
    /\ turns' = {}
    /\ streams' = [slot \in Slots |->
                     IF streams[slot].pc \in {"posted", "accepted", "begun", "open"}
                       THEN [streams[slot] EXCEPT !.pc = "broken"] ELSE streams[slot]]
    /\ IF task.pc \in {"settings", "rest", "rest failed", "reject"}
         THEN task' = [task EXCEPT !.pc = "thrown"] /\ torn' = torn \cup {"server", "batch"}
         ELSE UNCHANGED task /\ torn' = torn \cup {"server"}
    /\ UNCHANGED <<db, screen, input, streaming, batchBusy, opener, fetch, typed, cut>>

-----------------------------------------------------------------------------
Compose == (\E m \in Texts : Type(m)) \/ SubmitDraft \/ ClearQueue

Browse == NewThread \/ (\E t \in Threads : OpenThread(t)) \/ Poll \/ FetchArrives

Work ==
    \E u \in turns :
       \/ \E t \in Threads : BeginTurn(t, u)
       \/ \E shape \in Shapes \cup {None} : Reply(u, shape)
       \/ EndTurn(u)

Streaming(slot) ==
    \/ StartTurn(slot) \/ RefuseTurn(slot) \/ StartEvent(slot)
    \/ StreamEnds(slot) \/ StreamDone(slot) \/ StreamBroken(slot)

Settling ==
    \/ RejectBatch \/ AcceptThrows \/ Reload \/ Continue \/ Settled
    \/ \E outcome \in {"invalid", "failed", "ok"} : AcceptSettings(outcome)
    \/ \E b \in BOOLEAN : Author(b) \/ AcceptRest(b)

Next ==
    \/ Compose \/ Browse \/ Accept \/ Reject \/ Settling \/ SendOpener
    \/ Work \/ (\E slot \in Slots : Streaming(slot) \/ CutStream(slot)) \/ Restart

Spec == Init /\ [][Next]_vars

\* The agent's turns, the browser's requests and its timers go on; the user need not.
Fairness ==
    /\ SF_vars(Poll) /\ WF_vars(Settling) /\ WF_vars(FetchArrives) /\ WF_vars(Work)
    /\ \A slot \in Slots : WF_vars(Streaming(slot))

FairSpec == Spec /\ Fairness

-----------------------------------------------------------------------------
\* The variables keep their types; no hidden message reaches the composer or the queue.
TypeOK ==
    /\ db \in [Threads -> Row]
    /\ turns \subseteq [pc : {"spawned", "busy", "replied"}, thread : Tid, text : MaybeText,
                        slot : Slots \cup {Orphan}]
    /\ tid \in Tid /\ pending \in BOOLEAN /\ status \in {"idle", "running"}
    /\ draft \in Texts \cup {None} /\ queued \in Texts \cup {None}
    /\ {streaming, batchBusy, opener} \subseteq BOOLEAN
    /\ streams \in [Slots -> [pc : {"none", "posted", "accepted", "begun", "open", "reload", "broken"},
                              text : MaybeText, thread : Tid, snap : Snapshot \cup {None}]]
    /\ task \in [pc : {"none", "settings", "authoring", "rest", "rest failed", "reject", "thrown",
                        "answered", "reloaded", "sending"},
                  kind : {"accept", "reject", None}, thread : Tid, queued : Texts \cup {None},
                  streaming : BOOLEAN, finished : BOOLEAN, snap : Snapshot \cup {None}]
    /\ fetch \in Snapshot \cup {None} /\ typed \subseteq Texts /\ cut \subseteq Messages
    /\ torn \subseteq {"overlap", "batch", "server"} /\ faults \in 0..MaxFaults

\* chat-tables.sql: "running" means that a turn still writes, "idle" that the next
\* message may start.  Two sends can both be let through before either turn says
\* that it runs, and the first to end then declares the thread idle, which breaks
\* this (README, section 5).
IdleIsIdle == \A t \in Threads :
    db[t].turn = "idle" => \A u \in turns : u.thread = t => u.pc = "spawned"

\* A proposed change is applied once: no item of a batch is applied twice, and the
\* later items never without the settings.  Only a restart between the phases of an
\* accept makes the settings be applied again (accept_batch keeps no record of them),
\* and only two turns of one thread at once, of which the second proposes a batch
\* while that of the first is being accepted, mix two batches up (README, section 5).
AppliedOnce == "overlap" \notin torn => \A t \in Threads : \A i \in DOMAIN db[t].batches :
    LET b == db[t].batches[i] IN
    /\ b.rest <= 1
    /\ b.rest = 1 => b.settings >= 1
    /\ b.settings <= 1 \/ "batch" \in torn

Said(m) == UNION {{<<t, i>> : i \in {j \in DOMAIN db[t].said : db[t].said[j] = m}} : t \in Threads}

\* What the user typed once reaches the agent once, on whatever path it waited
\* (composer, queue, a continuation), unless the stream that carried it broke.
SentOnce == \A m \in Texts \ cut : Cardinality(Said(m)) <= 1

\* An accept or a reject ends, its follow-up turn included, and the buttons work again.
BatchSettles == batchBusy ~> ~batchBusy

\* A restart leaves the row of a turn it ended at "running".
Stranded == "server" \in torn /\ \E t \in Threads :
    db[t].turn = "running" /\ \A u \in turns : u.thread # t

\* The poll: a turn shown to run is in the end shown idle, except on a thread whose
\* turn went down with the server, which nothing ever sets idle.
PollSettles == (status = "running") ~> (status = "idle" \/ Stranded)
=============================================================================
