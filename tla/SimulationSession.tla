-------------------------- MODULE SimulationSession -------------------------
(***************************************************************************)
(* Simulated events (simulation.py, routes/simulation.py): sessions whose  *)
(* clock advances by tics, each of which records an emission for every     *)
(* probability that is due and runs the event's sequence for it.           *)
(*                                                                         *)
(* Tics, deletions and clear-error are served by the thread pool, created  *)
(* sessions and names by the event loop itself, which serves nothing else  *)
(* while it waits for a session's lock.  Every request passes through the  *)
(* loop when it comes.  What a run does is RunRow's subject; here it ends  *)
(* with a status, and a step of it may call this server over HTTP.         *)
(***************************************************************************)
EXTENDS Naturals

CONSTANTS
    Sessions,   \* ids of sessions
    Probs,      \* the probabilities of the event
    Priority,   \* their priorities; a lower one comes first
    Homing,     \* those whose run calls this server
    Callers,    \* bound: the requests under way at a time
    None,       \* null
    MaxTic,     \* bound: the tics of a session
    MaxFaults   \* bound: crashes and calls of the catalog that fail

ASSUME SimulationAssumption ==
    /\ MaxTic \in Nat /\ MaxFaults \in Nat /\ Homing \subseteq Probs
    /\ Priority \in [Probs -> Nat] /\ None \notin Callers \cup Sessions

Tics   == 1..MaxTic
Clocks == 0..MaxTic

\* Enabled with a sequence to run or without one, disabled or of another type, deleted.
Events == {"runs", "records", "off", "gone"}

VARIABLES
    event,      \* the catalog's event
    table,      \* its sessions
    emissions,  \* how many rows there are of a probability and a tic, unfinished and over
    lock,       \* who holds the lock of a session
    loop,       \* the request the event loop is blocked in
    calls,      \* the requests under way
    faults

vars == <<event, table, emissions, lock, loop, calls, faults>>

NoCall == [pc |-> "none", kind |-> None, s |-> None, event |-> "gone", tic |-> 0, todo |-> {}, prob |-> None]

Init ==
    /\ event \in {"runs", "records"}
    /\ table = [s \in Sessions |-> [is |-> "free", status |-> "running", tic |-> 0]]
    /\ emissions = [s \in Sessions |-> [t \in Tics |-> [p \in Probs |-> [open |-> 0, over |-> 0]]]]
    /\ lock = [s \in Sessions |-> None] /\ loop = None
    /\ calls = [c \in Callers |-> NoCall] /\ faults = 0

-----------------------------------------------------------------------------
Live(s) == table[s].is = "live"

\* The request is answered.
Return(c) ==
    /\ calls' = [calls EXCEPT ![c] = NoCall]
    /\ lock' = [s \in Sessions |-> IF lock[s] = c THEN None ELSE lock[s]]
    /\ loop' = IF loop = c THEN None ELSE loop

\* events_upsert and delete_event, which takes the sessions and their emissions along.
EditEvent(to) ==
    /\ event # "gone" /\ to # event /\ event' = to /\ loop = None
    /\ IF to = "gone"
         THEN /\ table' = [s \in Sessions |-> IF Live(s) THEN [table[s] EXCEPT !.is = "gone"] ELSE table[s]]
              /\ emissions' = [s \in Sessions |->
                                 [t \in Tics |-> [p \in Probs |-> [open |-> 0, over |-> 0]]]]
         ELSE UNCHANGED <<table, emissions>>
    /\ UNCHANGED <<lock, loop, calls, faults>>

\* create_session, which goes on after its body has come with the event it read.
AskToCreate(c) ==
    /\ calls[c].pc = "none" /\ loop = None /\ event # "gone"
    /\ calls' = [calls EXCEPT ![c] = [NoCall EXCEPT !.pc = "body", !.kind = "create", !.event = event]]
    /\ UNCHANGED <<event, table, emissions, lock, loop, faults>>

CreateSession(c, s) ==
    /\ calls[c].pc = "body" /\ loop = None
    /\ IF calls[c].event = "off" THEN UNCHANGED table
       ELSE table[s].is = "free" /\ table' = [table EXCEPT ![s].is = "live"]
    /\ Return(c) /\ UNCHANGED <<event, emissions, faults>>

\* delete_session takes no lock.
DeleteSession(s) ==
    /\ Live(s) /\ loop = None /\ event \in {"runs", "records"}
    /\ table' = [table EXCEPT ![s].is = "gone"]
    /\ emissions' = [emissions EXCEPT ![s] = [t \in Tics |-> [p \in Probs |-> [open |-> 0, over |-> 0]]]]
    /\ UNCHANGED <<event, lock, loop, calls, faults>>

\* advance_session, clear_session_error or rename_session up to the lock: the event and
\* the session are found.  A name waits for the lock on the loop.
Ask(c, kind, s) ==
    /\ calls[c].pc = "none" /\ loop = None /\ event # "gone" /\ Live(s)
    /\ kind = "tic" => table[s].tic < MaxTic
    /\ calls' = [calls EXCEPT ![c] = [NoCall EXCEPT !.pc = "lock", !.kind = kind, !.s = s, !.event = event]]
    /\ loop' = IF kind = "name" THEN c ELSE loop
    /\ UNCHANGED <<event, table, emissions, lock, faults>>

\* Under the lock: clear_session_error and rename_session.  A row that is gone is not
\* found, and the answer is an error.
Patch(c) ==
    LET s == calls[c].s IN
    /\ calls[c].pc = "lock" /\ calls[c].kind \in {"clear", "name"} /\ lock[s] = None
    /\ table' = IF calls[c].kind = "clear" /\ Live(s) THEN [table EXCEPT ![s].status = "running"] ELSE table
    /\ Return(c) /\ UNCHANGED <<event, emissions, faults>>

-----------------------------------------------------------------------------
(* A tic                                                                   *)

\* Slip: tics of a session are not kept apart.
Unlocked(s) == TRUE

Free(s) == lock[s] = None

\* Slip: the error of a session is not looked at.
AdmittedInError(call) == call.event \in {"runs", "records"} /\ Live(call.s)

\* What _advance_unlocked asks of the event, as the route read it, and of the session.
Admitted(call) == call.event \in {"runs", "records"} /\ Live(call.s) /\ table[call.s].status = "running"

Refuse(c) ==
    /\ calls[c].pc = "lock" /\ calls[c].kind = "tic" /\ Free(calls[c].s) /\ ~Admitted(calls[c])
    /\ Return(c) /\ UNCHANGED <<event, table, emissions, faults>>

\* The next tic begins; which probabilities are due is the schedules' and the dice's.  A
\* world time that cannot be told halts it.  Bound: the last tic.
Begin(c, pc, due) ==
    LET s == calls[c].s IN
    /\ calls[c].pc = "lock" /\ calls[c].kind = "tic" /\ Free(s) /\ Admitted(calls[c])
    /\ table[s].tic < MaxTic /\ (pc = "halt" => due = {})
    /\ lock' = [lock EXCEPT ![s] = c]
    /\ calls' = [calls EXCEPT ![c].pc = pc, ![c].tic = table[s].tic + 1, ![c].todo = due]
    /\ UNCHANGED <<event, table, emissions, loop, faults>>

\* Bound: the clock ran to the last tic while the request waited.
Drop(c) ==
    /\ calls[c].pc = "lock" /\ calls[c].kind = "tic" /\ table[calls[c].s].tic = MaxTic
    /\ Return(c) /\ UNCHANGED <<event, table, emissions, faults>>

\* The next probability: by priority, ties in any order.
IsNext(c, p) == p \in calls[c].todo /\ \A q \in calls[c].todo : Priority[p] <= Priority[q]

\* insert_simulation_emission: the session's row is not asked for.
Insert(c, p, column) ==
    emissions' = [emissions EXCEPT ![calls[c].s][calls[c].tic][p][column] = @ + 1]

\* resolve_weights fails, every weight is 0, the emission is recorded only, or its run
\* follows.
Emit(c, p, outcome) ==
    LET call == calls[c]
        rest == [call EXCEPT !.todo = call.todo \ {p}] IN
    /\ call.pc = "tic" /\ IsNext(c, p)
    /\ \/ outcome = "halt" /\ calls' = [calls EXCEPT ![c] = [call EXCEPT !.pc = "halt"]] /\ UNCHANGED emissions
       \/ outcome = "cancelled" /\ calls' = [calls EXCEPT ![c] = rest] /\ Insert(c, p, "over")
       \/ outcome = "recorded" /\ call.event = "records" /\ calls' = [calls EXCEPT ![c] = rest] /\ Insert(c, p, "over")
       \/ outcome = "run" /\ call.event = "runs" /\ Insert(c, p, "open")
          /\ calls' = [calls EXCEPT ![c] = [rest EXCEPT !.pc = "run", !.prob = p]]
    /\ UNCHANGED <<event, table, lock, loop, faults>>

\* Slip: a call has no timeout.
HearsHome(p, outcome) == p \in Homing => loop = None

\* What a run that calls this server hears: its answer needs the loop, else the call
\* times out.
Hears(p, outcome) == p \in Homing /\ outcome # "error" => loop = None

\* update_simulation_emission_status; the emission may be gone.
Note(c, p) ==
    LET call == calls[c] IN
    emissions' = IF emissions[call.s][call.tic][p].open = 0 THEN emissions
                 ELSE [emissions EXCEPT ![call.s][call.tic][p] = [open |-> @.open - 1, over |-> @.over + 1]]

\* _run_emission: a run that is over or asks a person lets the tic go on, one that fails
\* or waits stops the session.
Run(c, outcome) ==
    LET call == calls[c] IN
    /\ call.pc = "run" /\ Hears(call.prob, outcome) /\ Note(c, call.prob)
    /\ calls' = [calls EXCEPT ![c].pc = IF outcome \in {"inactive", "pending"} THEN "tic" ELSE "halt",
                              ![c].prob = None]
    /\ UNCHANGED <<event, table, lock, loop, faults>>

\* The tic is stored, with its error or without; a session that was deleted is not found.
Store(c, status) ==
    LET s == calls[c].s IN
    /\ table' = IF Live(s) THEN [table EXCEPT ![s] = [is |-> "live", status |-> status, tic |-> calls[c].tic]] ELSE table
    /\ Return(c) /\ UNCHANGED <<event, emissions, faults>>

Commit(c) == calls[c].pc = "tic" /\ calls[c].todo = {} /\ Store(c, "running")
Halt(c)   == calls[c].pc = "halt" /\ Store(c, "error")

-----------------------------------------------------------------------------
\* A call of the catalog fails: the request is answered with an error, and what it had
\* done stays.
Fail(c) ==
    /\ calls[c].pc # "none" /\ faults < MaxFaults /\ faults' = faults + 1
    /\ Return(c) /\ UNCHANGED <<event, table, emissions>>

\* The process ends and starts again: the locks are its memory.
Crash ==
    /\ faults < MaxFaults /\ faults' = faults + 1
    /\ calls' = [c \in Callers |-> NoCall] /\ lock' = [s \in Sessions |-> None] /\ loop' = None
    /\ UNCHANGED <<event, table, emissions>>

-----------------------------------------------------------------------------
Asking(c) == AskToCreate(c) \/ \E s \in Sessions, kind \in {"tic", "clear", "name"} : Ask(c, kind, s)

Going(c) ==
    \/ Patch(c) \/ Refuse(c) \/ Drop(c) \/ Commit(c) \/ Halt(c)
    \/ (\E s \in Sessions : CreateSession(c, s)) \/ (\E due \in SUBSET Probs, pc \in {"tic", "halt"} : Begin(c, pc, due))
    \/ \E p \in Probs, outcome \in {"halt", "cancelled", "recorded", "run"} : Emit(c, p, outcome)
    \/ \E outcome \in {"inactive", "pending", "waiting", "error"} : Run(c, outcome)

Next ==
    \/ (\E c \in Callers : Asking(c) \/ Going(c) \/ Fail(c)) \/ Crash
    \/ (\E s \in Sessions : DeleteSession(s)) \/ (\E to \in Events : EditEvent(to))

Spec == Init /\ [][Next]_vars

\* A request goes on; a call over HTTP times out.
FairSpec == Spec /\ \A c \in Callers : WF_vars(Going(c))

-----------------------------------------------------------------------------
\* The variables keep their types.
TypeOK ==
    /\ event \in Events /\ faults \in 0..MaxFaults
    /\ table \in [Sessions -> [is : {"free", "live", "gone"}, status : {"running", "error"}, tic : Clocks]]
    /\ emissions \in [Sessions -> [Tics -> [Probs -> [open : Nat, over : Nat]]]]
    /\ lock \in [Sessions -> Callers \cup {None}] /\ loop \in Callers \cup {None}
    /\ calls \in [Callers -> [pc : {"none", "body", "lock", "tic", "run", "halt"},
                              kind : {"create", "tic", "clear", "name", None}, s : Sessions \cup {None},
                              event : Events, tic : Clocks, todo : SUBSET Probs, prob : Probs \cup {None}]]

Rows(s, t, p) == emissions[s][t][p].open + emissions[s][t][p].over

\* However requests for tics come together, a probability emits once for a tic, and once
\* more at most for every fault that cut a tic before it was stored; a tic the clock has
\* not come to has no emissions but those of the one under way (advance_session:
\* "Concurrent calls for the same session run one at a time").
TicOnce == \A s \in Sessions, t \in Tics, p \in Probs :
    /\ Rows(s, t, p) <= 1 + faults
    /\ t > table[s].tic + 1 => Rows(s, t, p) = 0

\* The clock moves one tic at a time and never back, and no tic is stored on a session
\* whose error nobody has cleared (SIMULATED-EVENTS.md: "Further tics return `409` until
\* `clear-error`").
ErrorStops ==
    [][\A s \in Sessions :
          /\ table'[s].tic \in {table[s].tic, table[s].tic + 1}
          /\ table[s].status = "error" => table'[s].tic = table[s].tic]_vars

\* The event loop is never blocked for good, though a name waits on it for a tic whose run
\* may wait for an answer of the loop.
LoopGoesOn == loop # None ~> loop = None
=============================================================================
