----------------------------- MODULE ReindexJob ------------------------------
(***************************************************************************)
(* The embedding sweep: the job that runs it periodically or when asked    *)
(* (scheduler.py: EmbeddingReindexJob), its walk over the records whose    *)
(* vector is missing or out of date (embeddings.py: reindex_label), and    *)
(* the writers that put vectors out of date.                               *)
(*                                                                         *)
(* One space with one vectorized label.  A text is the number of its       *)
(* version, a vector the version it was made from.  The job's loop runs on *)
(* the event loop, the sweep in a thread: the statements of the writers    *)
(* fall between any two of the sweep's.                                    *)
(***************************************************************************)
EXTENDS Naturals, FiniteSets

CONSTANTS
    Records,     \* ids, in order
    Blanks,      \* those without a text to embed
    None,        \* null
    PageSize,    \* REINDEX_PAGE_SIZE
    Tolerance,   \* _REINDEX_MAX_CONSECUTIVE_FAILURES
    MaxWrites,   \* bound: the statements that change records
    MaxFailures  \* bound: the calls that fail and the restarts

ASSUME ReindexAssumption ==
    /\ Records \subseteq Nat /\ IsFiniteSet(Records) /\ Blanks \subseteq Records
    /\ PageSize \in Nat \ {0} /\ Tolerance \in Nat \ {0}
    /\ MaxWrites \in Nat /\ MaxFailures \in Nat /\ None \notin Nat

Versions == 0..MaxWrites

VARIABLES
    text, vec, stale,  \* of each record
    pending, wake,     \* EmbeddingReindexJob._pending and _wake
    pc,                \* where the job is
    seen, page,        \* reindex_label's: ids taken, and rows <<id, text>> still to take
    at,                \* the row whose text is being embedded
    streak,            \* consecutive_failures
    writer,            \* what the writer has still to do
    asked,             \* history: a sweep was asked for since the last one began
    writes, failures

vars == <<text, vec, stale, pending, wake, pc, seen, page, at, streak, writer, asked, writes, failures>>

records == <<text, vec, stale>>
job     == <<pending, wake, asked>>
walk    == <<seen, page, at, streak>>

Init ==
    /\ text = [r \in Records |-> 0] /\ vec = [r \in Records |-> None]
    /\ stale = [r \in Records |-> FALSE]
    /\ pending = FALSE /\ wake = FALSE /\ pc = "top" /\ seen = {} /\ page = {} /\ at = None
    /\ streak = 0 /\ writer = "idle" /\ asked = FALSE /\ writes = 0 /\ failures = 0

-----------------------------------------------------------------------------
(* The writers: the route of a query and the executor's query step         *)

\* The statement itself.
Update(r) ==
    /\ writer = "idle" /\ writes < MaxWrites /\ writes' = writes + 1
    /\ text' = [text EXCEPT ![r] = writes + 1] /\ writer' = "mark"
    /\ UNCHANGED <<vec, stale, job, pc, walk, failures>>

\* mark_label_stale: every record of the label that has a vector; only the route asks
\* for a sweep.
MarkStale(next) ==
    /\ writer = "mark" /\ next \in {"idle", "request"} /\ writer' = next
    /\ stale' = [r \in Records |-> stale[r] \/ vec[r] # None]
    /\ UNCHANGED <<text, vec, job, pc, walk, writes, failures>>

\* request_embedding_sweep
RequestSweep ==
    /\ writer = "request" /\ writer' = "idle"
    /\ pending' = TRUE /\ wake' = TRUE /\ asked' = TRUE
    /\ UNCHANGED <<records, pc, walk, writes, failures>>

-----------------------------------------------------------------------------
(* The loop of the job                                                     *)

\* A request that is not served yet is kept by `pending`; the event is cleared before
\* each wait.
Top ==
    /\ pc = "top"
    /\ IF pending THEN /\ pc' = "page" /\ pending' = FALSE /\ asked' = FALSE /\ UNCHANGED wake
       ELSE pc' = "wait" /\ wake' = FALSE /\ UNCHANGED <<pending, asked>>
    /\ UNCHANGED <<records, walk, writer, writes, failures>>

\* The wait ends by the event, or by the interval, which is a request too.
Woken ==
    /\ pc = "wait" /\ pc' = "page" /\ pending' = FALSE /\ asked' = FALSE
    /\ UNCHANGED <<records, wake, walk, writer, writes, failures>>

\* Slip: the request is dropped when the sweep is over.
EndSweepServed ==
    /\ pc' = "top" /\ seen' = {} /\ page' = {} /\ at' = None /\ streak' = 0 /\ pending' = FALSE

EndSweep ==
    /\ pc' = "top" /\ seen' = {} /\ page' = {} /\ at' = None /\ streak' = 0 /\ UNCHANGED pending

-----------------------------------------------------------------------------
(* reindex_label, with only_stale                                          *)

\* _pending_predicate
IsPending(r) == vec[r] = None \/ stale[r]

Pending == {r \in Records : IsPending(r)}

\* Slip: only records without a vector are read.
FirstPageNew == {r \in Pending : vec[r] = None /\ Cardinality({q \in Pending : q < r}) < PageSize}

\* ORDER BY id LIMIT
FirstPage == {r \in Pending : Cardinality({q \in Pending : q < r}) < PageSize}

\* The pages are read from the start; one with nothing new ends the walk.
ReadPage ==
    /\ pc = "page" /\ page = {}
    /\ IF FirstPage \subseteq seen THEN EndSweep
       ELSE /\ page' = {<<r, text[r]>> : r \in FirstPage \ seen} /\ pc' = "embed"
            /\ UNCHANGED <<seen, at, streak, pending>>
    /\ UNCHANGED <<records, wake, asked, writer, writes, failures>>

\* Slip: a row is taken without being remembered.
TakeRowUnseen(row) ==
    /\ page' = page \ {row} /\ seen' = seen

TakeRow(row) == page' = page \ {row} /\ seen' = seen \cup {row[1]}

\* The next row; one without a text is passed over.
NextRow ==
    /\ pc = "embed" /\ at = None
    /\ \/ page = {} /\ pc' = "page" /\ UNCHANGED <<seen, page, at>>
       \/ \E row \in page :
             /\ \A other \in page : row[1] <= other[1]
             /\ TakeRow(row) /\ at' = (IF row[1] \in Blanks THEN None ELSE row) /\ UNCHANGED pc
    /\ UNCHANGED <<records, job, streak, writer, writes, failures>>

\* The vector of the text the page had.
WriteVector ==
    /\ pc = "embed" /\ at # None
    /\ vec' = [vec EXCEPT ![at[1]] = at[2]] /\ stale' = [stale EXCEPT ![at[1]] = FALSE]
    /\ at' = None /\ streak' = 0
    /\ UNCHANGED <<text, job, pc, seen, page, writer, writes, failures>>

TooMany(n) == n >= Tolerance

\* The embedder refuses or is away: the record is marked, and too many in a row end the
\* sweep.
EmbedFails ==
    /\ pc = "embed" /\ at # None /\ failures < MaxFailures /\ failures' = failures + 1
    /\ stale' = [stale EXCEPT ![at[1]] = TRUE]
    /\ IF TooMany(streak + 1) THEN EndSweep
       ELSE at' = None /\ streak' = streak + 1 /\ UNCHANGED <<pc, seen, page, pending>>
    /\ UNCHANGED <<text, vec, wake, asked, writer, writes>>

\* A statement of the sweep fails: what is left of it is dropped.
SweepFails ==
    /\ pc \in {"page", "embed"} /\ failures < MaxFailures /\ failures' = failures + 1 /\ EndSweep
    /\ UNCHANGED <<records, wake, asked, writer, writes>>

\* The process ends and starts again: what was asked of the job is forgotten, what is
\* pending is in the graph.
Restart ==
    /\ failures < MaxFailures /\ failures' = failures + 1 /\ pc' = "top"
    /\ pending' = FALSE /\ wake' = FALSE /\ asked' = FALSE
    /\ seen' = {} /\ page' = {} /\ at' = None /\ streak' = 0 /\ writer' = "idle"
    /\ UNCHANGED <<records, writes>>

-----------------------------------------------------------------------------
Sweep == ReadPage \/ NextRow \/ WriteVector \/ EmbedFails \/ SweepFails

Job == Top \/ Woken \/ Sweep

Marking == (\E next \in {"idle", "request"} : MarkStale(next)) \/ RequestSweep

Next == Job \/ Marking \/ Restart \/ \E r \in Records : Update(r)

Spec == Init /\ [][Next]_vars

\* The interval passes, the sweep goes on and a writer finishes.
FairSpec == Spec /\ WF_vars(Job) /\ WF_vars(Marking)

-----------------------------------------------------------------------------
\* The variables keep their types.
TypeOK ==
    /\ text \in [Records -> Versions] /\ vec \in [Records -> Versions \cup {None}]
    /\ stale \in [Records -> BOOLEAN] /\ {pending, wake, asked} \subseteq BOOLEAN
    /\ pc \in {"top", "wait", "page", "embed"} /\ writer \in {"idle", "mark", "request"}
    /\ seen \subseteq Records /\ page \subseteq Records \X Versions
    /\ at \in (Records \X Versions) \cup {None} /\ streak \in 0..(Tolerance - 1)
    /\ writes \in 0..MaxWrites /\ failures \in 0..MaxFailures

\* A request is never lost: one that comes while a sweep runs leads to another sweep at
\* once (EmbeddingReindexJob: the job does not wait while something was asked of it).
RequestsServed == asked => pending /\ (pc = "wait" => wake)

\* The walk ends: every sweep is over at some time, though records that cannot be embedded
\* stay pending (reindex_label: already-seen ids end the loop).
SweepEnds == pc = "embed" ~> pc = "top"

\* Every record that has a text gets a vector and an out-of-date one is made anew
\* (sweep_stale_embeddings: "Embed the pending records").
PendingIsEmbedded == \A r \in Records \ Blanks : IsPending(r) ~> ~IsPending(r)

\* A mark is removed only with a vector of the record's text, once the writer has marked what
\* it changed: nothing else would say that the vector "no longer describes it"
\* (_pending_predicate).
MarksAreKept == [][\A r \in Records :
    stale[r] /\ ~stale'[r] /\ writer # "mark" => vec'[r] = text'[r]]_vars
=============================================================================
