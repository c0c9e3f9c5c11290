--------------------------- MODULE SimulationProofs --------------------------
(***************************************************************************)
(* Theorems about SimulationSession for any sessions, probabilities,       *)
(* requests and faults: a probability emits once for a tic but for the     *)
(* faults that cut one, and a session with an error stands still.          *)
(***************************************************************************)
EXTENDS SimulationSession, TLAPS

-----------------------------------------------------------------------------
(* What holds between steps                                                *)

Past(c)    == calls[c].pc \in {"lock", "tic", "run", "halt"}
Working(c) == calls[c].pc \in {"tic", "run", "halt"}

\* A request that is past its body is about a session that was made.
Found ==
    \A c \in Callers :
        /\ Past(c) => calls[c].s \in Sessions /\ table[calls[c].s].is # "free"
        /\ calls[c].pc = "run" => calls[c].prob \in Probs

\* A tic under way holds the lock of its session, whose clock is one tic behind and
\* whose error was cleared.
Held ==
    \A c \in Callers : Working(c) =>
        /\ lock[calls[c].s] = c
        /\ calls[c].tic \in Tics /\ calls[c].tic = table[calls[c].s].tic + 1
        /\ Live(calls[c].s) => table[calls[c].s].status = "running"

\* A session that was never made has no emissions, and a tic that is to come has only
\* those of a tic that was cut, fault by fault.
Counted ==
    /\ \A s \in Sessions, t \in Tics, p \in Probs : table[s].is = "free" => Rows(s, t, p) = 0
    /\ \A s \in Sessions, t \in Tics, p \in Probs :
          Live(s) /\ t = table[s].tic + 1 /\ (\A c \in Callers : Working(c) => calls[c].s # s)
          => Rows(s, t, p) <= faults
    /\ \A c \in Callers : Working(c) => \A p \in calls[c].todo :
          Rows(calls[c].s, calls[c].tic, p) <= faults

IInv == TypeOK /\ Found /\ Held /\ Counted /\ TicOnce

-----------------------------------------------------------------------------
(* Emissions                                                               *)

Column == [open : Nat, over : Nat]

LEMMA RowsType ==
  ASSUME TypeOK, NEW s \in Sessions, NEW t \in Tics, NEW p \in Probs
  PROVE  emissions[s][t][p] \in Column /\ Rows(s, t, p) \in Nat
  BY DEF TypeOK, Column, Rows

\* An entry of a table of three keys is replaced.
Put(f, s, t, p, x) == [f EXCEPT ![s][t][p] = x]

\* An emission is one row more, of its session, tic and probability.
LEMMA Inserted ==
  ASSUME TypeOK, NEW c \in Callers, calls[c].s \in Sessions, calls[c].tic \in Tics, NEW p \in Probs,
         NEW column \in {"open", "over"}, Insert(c, p, column)
  PROVE  /\ emissions' \in [Sessions -> [Tics -> [Probs -> Column]]]
         /\ \A s \in Sessions, t \in Tics, q \in Probs :
               Rows(s, t, q)' = IF s = calls[c].s /\ t = calls[c].tic /\ q = p
                                  THEN Rows(s, t, q) + 1 ELSE Rows(s, t, q)
  <1> DEFINE row == emissions[calls[c].s][calls[c].tic][p]
             more == [row EXCEPT ![column] = row[column] + 1]
  <1>1. row \in Column
    BY RowsType
  <1>2. more \in Column /\ more.open + more.over = row.open + row.over + 1
    <2>1. CASE column = "open"
      BY <1>1, <2>1 DEF Column
    <2>2. CASE column = "over"
      BY <1>1, <2>2 DEF Column
    <2> QED BY <2>1, <2>2
  <1>3. emissions' = Put(emissions, calls[c].s, calls[c].tic, p, more)
    BY DEF Insert, Put
  <1>4. emissions \in [Sessions -> [Tics -> [Probs -> Column]]]
    BY DEF TypeOK, Column
  <1> HIDE DEF more
  <1>5. /\ emissions' \in [Sessions -> [Tics -> [Probs -> Column]]]
        /\ \A s \in Sessions, t \in Tics, q \in Probs :
              emissions'[s][t][q] = IF s = calls[c].s /\ t = calls[c].tic /\ q = p
                                      THEN more ELSE emissions[s][t][q]
    <2> DEFINE g == Put(emissions, calls[c].s, calls[c].tic, p, more)
    <2>1. g \in [Sessions -> [Tics -> [Probs -> Column]]]
      BY <1>2, <1>4 DEF Put
    <2>2. ASSUME NEW s \in Sessions, NEW t \in Tics, NEW q \in Probs
          PROVE  g[s][t][q] = IF s = calls[c].s /\ t = calls[c].tic /\ q = p THEN more ELSE emissions[s][t][q]
      BY <1>2, <1>4 DEF Put
    <2> QED BY <1>3, <2>1, <2>2
  <1> QED BY <1>2, <1>5 DEF Rows

\* The status of an emission moves no row.
LEMMA Noted ==
  ASSUME TypeOK, NEW c \in Callers, calls[c].s \in Sessions, calls[c].tic \in Tics, NEW p \in Probs,
         Note(c, p)
  PROVE  /\ emissions' \in [Sessions -> [Tics -> [Probs -> Column]]]
         /\ \A s \in Sessions, t \in Tics, q \in Probs : Rows(s, t, q)' = Rows(s, t, q)
  <1> DEFINE row == emissions[calls[c].s][calls[c].tic][p]
             moved == [open |-> row.open - 1, over |-> row.over + 1]
  <1>1. emissions \in [Sessions -> [Tics -> [Probs -> Column]]]
    BY DEF TypeOK, Column
  <1>2. CASE row.open = 0
    BY <1>1, <1>2 DEF Note, Rows
  <1>3. CASE row.open # 0
    <2>1. row \in Column
      BY RowsType
    <2>2. moved \in Column /\ moved.open + moved.over = row.open + row.over
      BY <1>3, <2>1 DEF Column
    <2>3. emissions' = Put(emissions, calls[c].s, calls[c].tic, p, moved)
      BY <1>1, <1>3, <2>1 DEF Note, Column, Put
    <2> HIDE DEF moved
    <2>4. /\ emissions' \in [Sessions -> [Tics -> [Probs -> Column]]]
          /\ \A s \in Sessions, t \in Tics, q \in Probs :
                emissions'[s][t][q] = IF s = calls[c].s /\ t = calls[c].tic /\ q = p
                                        THEN moved ELSE emissions[s][t][q]
      <3> DEFINE g == Put(emissions, calls[c].s, calls[c].tic, p, moved)
      <3>1. g \in [Sessions -> [Tics -> [Probs -> Column]]]
        BY <1>1, <2>2 DEF Put
      <3>2. ASSUME NEW s \in Sessions, NEW t \in Tics, NEW q \in Probs
            PROVE  g[s][t][q] = IF s = calls[c].s /\ t = calls[c].tic /\ q = p THEN moved ELSE emissions[s][t][q]
        BY <1>1, <2>2 DEF Put
      <3> QED BY <2>3, <3>1, <3>2
    <2> QED BY <2>2, <2>4 DEF Rows
  <1> QED BY <1>2, <1>3

-----------------------------------------------------------------------------
(* Steps                                                                   *)

CallType == [pc : {"none", "body", "lock", "tic", "run", "halt"},
             kind : {"create", "tic", "clear", "name", None}, s : Sessions \cup {None},
             event : Events, tic : Clocks, todo : SUBSET Probs, prob : Probs \cup {None}]

\* Everything but the counts.
Typed == TypeOK /\ Found /\ Held

LEMMA NoCallTyped == NoCall \in CallType
  BY SimulationAssumption DEF NoCall, CallType, Clocks, Events

\* A working request is the only one on its session.
LEMMA Alone ==
  ASSUME Typed, NEW c \in Callers, NEW d \in Callers, Working(c), Working(d), calls[c].s = calls[d].s
  PROVE  c = d
  BY DEF Typed, Held

\* A request that is answered leaves the others and their locks alone.
LEMMA Returned ==
  ASSUME Typed, NEW c \in Callers, Return(c),
         table' \in [Sessions -> [is : {"free", "live", "gone"}, status : {"running", "error"}, tic : Clocks]],
         \A s \in Sessions : (table[s].is # "free" => table'[s].is # "free"),
         \A d \in Callers \ {c} : Working(d) =>
            /\ table'[calls[d].s].tic = table[calls[d].s].tic
            /\ table'[calls[d].s].is = "live" => table'[calls[d].s].status = "running",
         UNCHANGED event, faults' \in 0..MaxFaults,
         emissions' \in [Sessions -> [Tics -> [Probs -> Column]]]
  PROVE  /\ Typed'
         /\ \A d \in Callers : Working(d)' <=> d # c /\ Working(d)
         /\ \A d \in Callers \ {c} : calls'[d] = calls[d]
  <1>1. /\ calls' = [calls EXCEPT ![c] = NoCall]
        /\ lock' = [s \in Sessions |-> IF lock[s] = c THEN None ELSE lock[s]]
        /\ loop' = IF loop = c THEN None ELSE loop
    BY DEF Return
  <1>2. TypeOK'
    <2>2. calls' \in [Callers -> CallType]
      BY <1>1, NoCallTyped DEF Typed, TypeOK, CallType
    <2>3. lock' \in [Sessions -> Callers \cup {None}] /\ loop' \in Callers \cup {None}
      BY <1>1 DEF Typed, TypeOK
    <2> QED BY <2>2, <2>3 DEF Typed, TypeOK, CallType, Column
  <1>3. /\ \A d \in Callers : Working(d)' <=> d # c /\ Working(d)
        /\ \A d \in Callers \ {c} : calls'[d] = calls[d]
        /\ calls'[c] = NoCall
    BY <1>1 DEF Typed, TypeOK, Working, NoCall
  <1>4. Found'
    BY <1>3 DEF Typed, Found, Past, NoCall
  <1>5. Held'
    <2> SUFFICES ASSUME NEW d \in Callers \ {c}, Working(d)
                 PROVE  /\ lock'[calls[d].s] = d
                        /\ calls[d].tic \in Tics /\ calls[d].tic = table'[calls[d].s].tic + 1
                        /\ table'[calls[d].s].is = "live" => table'[calls[d].s].status = "running"
      BY <1>3 DEF Held, Live
    <2>1. calls[d].s \in Sessions /\ lock[calls[d].s] = d /\ calls[d].tic \in Tics
          /\ calls[d].tic = table[calls[d].s].tic + 1
      BY DEF Typed, Held, Found, Working, Past
    <2>2. lock'[calls[d].s] = d
      BY <1>1, <2>1
    <2> QED BY <2>1, <2>2
  <1> QED BY <1>2, <1>3, <1>4, <1>5 DEF Typed

\* What the counts are of, when no tic begins, is stored or emits.
LEMMA CountsKept ==
  ASSUME IInv, TypeOK', faults' >= faults,
         \A s \in Sessions, t \in Tics, p \in Probs : Rows(s, t, p)' \in {0, Rows(s, t, p)},
         \A s \in Sessions : table'[s].tic = table[s].tic,
         \A s \in Sessions : table'[s].is = "live" => table[s].is \in {"free", "live"},
         \A s \in Sessions : table'[s].is = "free" => table[s].is = "free",
         \A d \in Callers : Working(d)' => Working(d) /\ calls'[d] = calls[d],
         \A d \in Callers : Working(d) /\ ~Working(d)' => faults' > faults
  PROVE  TicOnce' /\ Counted'
  <1>1. faults \in Nat /\ faults' \in Nat
    BY SimulationAssumption DEF IInv, TypeOK
  <1>2. \A s \in Sessions, t \in Tics, p \in Probs : Rows(s, t, p) \in Nat
    BY RowsType DEF IInv
  <1>3. TicOnce'
    BY <1>1, <1>2 DEF IInv, TicOnce
  <1>4. ASSUME NEW s \in Sessions, NEW t \in Tics, NEW p \in Probs, table'[s].is = "free"
        PROVE  Rows(s, t, p)' = 0
    BY <1>4 DEF IInv, Counted
  <1>5. ASSUME NEW s \in Sessions, NEW t \in Tics, NEW p \in Probs,
               table'[s].is = "live", t = table'[s].tic + 1,
               \A c \in Callers : Working(c)' => calls'[c].s # s
        PROVE  Rows(s, t, p)' <= faults'
    <2>1. Rows(s, t, p) <= faults'
      <3>1. CASE table[s].is = "free"
        BY <1>1, <3>1 DEF IInv, Counted
      <3>2. CASE Live(s) /\ \E c \in Callers : Working(c) /\ calls[c].s = s
        <4>1. Rows(s, t, p) <= 1 + faults
          BY DEF IInv, TicOnce
        <4>2. faults' > faults
          BY <1>5, <3>2
        <4> QED BY <1>1, <1>2, <4>1, <4>2
      <3>3. CASE Live(s) /\ \A c \in Callers : Working(c) => calls[c].s # s
        <4>1. Rows(s, t, p) <= faults
          BY <1>5, <3>3 DEF IInv, Counted
        <4> QED BY <1>1, <1>2, <4>1
      <3> QED BY <1>5, <3>1, <3>2, <3>3 DEF Live
    <2> QED BY <1>1, <1>2, <2>1
  <1>6. ASSUME NEW c \in Callers, Working(c)', NEW p \in calls'[c].todo
        PROVE  (Rows(calls[c].s, calls[c].tic, p) <= faults)'
    <2>1. /\ Working(c) /\ calls'[c] = calls[c] /\ calls[c].s \in Sessions /\ calls[c].tic \in Tics
          /\ p \in Probs
      BY <1>6 DEF IInv, Found, Held, Past, Working, TypeOK
    <2>2. Rows(calls[c].s, calls[c].tic, p) <= faults
      BY <1>6, <2>1 DEF IInv, Counted
    <2>3. Rows(calls[c].s, calls[c].tic, p)' = emissions'[calls[c].s][calls[c].tic][p].open
                                              + emissions'[calls[c].s][calls[c].tic][p].over
      BY <2>1 DEF Rows
    <2> QED BY <1>1, <1>2, <2>1, <2>2, <2>3 DEF Rows
  <1> QED BY <1>3, <1>4, <1>5, <1>6 DEF Counted, Live, Rows

\* A request comes.
LEMMA AskingKeeps == ASSUME IInv, NEW c \in Callers, Asking(c) PROVE IInv'
  <1>1. PICK call \in CallType :
             /\ calls[c].pc = "none" /\ call.pc \in {"body", "lock"}
             /\ call.pc = "lock" => call.s \in Sessions /\ Live(call.s)
             /\ calls' = [calls EXCEPT ![c] = call] /\ loop' \in Callers \cup {None}
             /\ UNCHANGED <<event, table, emissions, lock, faults>>
    <2>1. CASE AskToCreate(c)
      <3>1. [NoCall EXCEPT !.pc = "body", !.kind = "create", !.event = event] \in CallType
        BY NoCallTyped DEF CallType, IInv, TypeOK
      <3> QED BY <2>1, <3>1 DEF AskToCreate, NoCall, IInv, TypeOK
    <2>2. ASSUME NEW s \in Sessions, NEW kind \in {"tic", "clear", "name"}, Ask(c, kind, s)
          PROVE  \E call \in CallType :
             /\ calls[c].pc = "none" /\ call.pc \in {"body", "lock"}
             /\ call.pc = "lock" => call.s \in Sessions /\ Live(call.s)
             /\ calls' = [calls EXCEPT ![c] = call] /\ loop' \in Callers \cup {None}
             /\ UNCHANGED <<event, table, emissions, lock, faults>>
      <3>1. [NoCall EXCEPT !.pc = "lock", !.kind = kind, !.s = s, !.event = event] \in CallType
        BY NoCallTyped DEF CallType, IInv, TypeOK
      <3> QED BY <2>2, <3>1 DEF Ask, NoCall, IInv, TypeOK
    <2> QED BY <2>1, <2>2 DEF Asking
  <1>2. TypeOK'
    BY <1>1 DEF IInv, TypeOK, CallType
  <1>3. /\ calls'[c] = call /\ \A d \in Callers \ {c} : calls'[d] = calls[d]
        /\ \A d \in Callers : Working(d)' <=> Working(d)
        /\ \A d \in Callers : Working(d) => d # c
    BY <1>1 DEF IInv, TypeOK, Working
  <1>4. Found' /\ Held'
    BY <1>1, <1>3 DEF IInv, Found, Held, Past, Working, Live
  <1>5. faults \in Nat /\ \A s \in Sessions, t \in Tics, p \in Probs : Rows(s, t, p)' = Rows(s, t, p)
    BY <1>1, SimulationAssumption DEF Rows, IInv, TypeOK
  <1>6. TicOnce' /\ Counted'
    BY <1>1, <1>2, <1>3, <1>5, CountsKept DEF Live
  <1> QED BY <1>2, <1>4, <1>6 DEF IInv

\* A request is answered without a tic of its own to store.
LEMMA AnswerKeeps ==
  ASSUME IInv, NEW c \in Callers,
         \/ Refuse(c) \/ Drop(c) \/ Patch(c) \/ Fail(c)
         \/ \E s \in Sessions : CreateSession(c, s)
  PROVE  IInv'
  <1>1. /\ Return(c) /\ UNCHANGED <<event, emissions>>
        /\ faults' \in 0..MaxFaults /\ faults' >= faults
        /\ Working(c) => faults' > faults
    BY SimulationAssumption DEF Refuse, Drop, Patch, Fail, CreateSession, Working, IInv, TypeOK
  <1>2. Typed
    BY DEF Typed, IInv
  <1>3. /\ table' \in [Sessions -> [is : {"free", "live", "gone"}, status : {"running", "error"}, tic : Clocks]]
        /\ \A s \in Sessions :
              /\ table[s].is # "free" => table'[s].is # "free"
              /\ table'[s].tic = table[s].tic
              /\ table'[s].is = "live" => table[s].is \in {"free", "live"}
              /\ table[s].is # "free" => table'[s].is = table[s].is
              /\ table[s].status = "running" => table'[s].status = "running"
    <2>1. CASE Refuse(c) \/ Drop(c) \/ Fail(c)
      BY <2>1 DEF Refuse, Drop, Fail, IInv, TypeOK
    <2>2. CASE Patch(c)
      <3>1. calls[c].s \in Sessions
        BY <2>2 DEF Patch, IInv, Found, Past
      <3> QED BY <2>2, <3>1 DEF Patch, IInv, TypeOK
    <2>3. ASSUME NEW s \in Sessions, CreateSession(c, s)
          PROVE  table' = table \/ (table[s].is = "free" /\ table' = [table EXCEPT ![s].is = "live"])
      BY <2>3 DEF CreateSession
    <2>4. CASE \E s \in Sessions : CreateSession(c, s)
      <3>1. PICK s \in Sessions : table' = table \/ (table[s].is = "free" /\ table' = [table EXCEPT ![s].is = "live"])
        BY <2>3, <2>4
      <3>2. CASE table' = table
        BY <3>2 DEF IInv, TypeOK
      <3>3. CASE table[s].is = "free" /\ table' = [table EXCEPT ![s].is = "live"]
        <4> DEFINE row == [table[s] EXCEPT !.is = "live"]
                   type == [is : {"free", "live", "gone"}, status : {"running", "error"}, tic : Clocks]
        <4>1. table \in [Sessions -> type] /\ table[s] \in type
          BY DEF IInv, TypeOK
        <4>2. row \in type /\ row.is = "live" /\ row.status = table[s].status /\ row.tic = table[s].tic
          BY <4>1
        <4>3. table' = [table EXCEPT ![s] = row]
          BY <3>3
        <4> HIDE DEF row
        <4>4. table' \in [Sessions -> type] /\ \A q \in Sessions : table'[q] = IF q = s THEN row ELSE table[q]
          BY <4>1, <4>2, <4>3
        <4>5. \A q \in Sessions :
                /\ table[q].is # "free" => table'[q].is # "free"
                /\ table'[q].tic = table[q].tic
                /\ table'[q].is = "live" => table[q].is \in {"free", "live"}
                /\ table[q].is # "free" => table'[q].is = table[q].is
                /\ table[q].status = "running" => table'[q].status = "running"
          BY <3>3, <4>1, <4>2, <4>4
        <4> QED BY <4>4, <4>5
      <3> QED BY <3>1, <3>2, <3>3
    <2> QED BY <2>1, <2>2, <2>4
  <1>4. \A d \in Callers : Working(d) => table[calls[d].s].is # "free" /\ calls[d].s \in Sessions
                               /\ (Live(calls[d].s) => table[calls[d].s].status = "running")
    BY DEF IInv, Found, Held, Past, Working
  <1>5. emissions' \in [Sessions -> [Tics -> [Probs -> Column]]]
    BY <1>1 DEF IInv, TypeOK, Column
  <1>6. /\ Typed'
        /\ \A d \in Callers : Working(d)' <=> d # c /\ Working(d)
        /\ \A d \in Callers \ {c} : calls'[d] = calls[d]
    BY <1>1, <1>2, <1>3, <1>4, <1>5, Returned DEF Live
  <1>7. \A s \in Sessions, t \in Tics, p \in Probs : Rows(s, t, p)' = Rows(s, t, p)
    BY <1>1 DEF Rows
  <1>8. TicOnce' /\ Counted'
    BY <1>1, <1>3, <1>6, <1>7, CountsKept DEF Typed
  <1> QED BY <1>6, <1>8 DEF IInv, Typed

\* A tic begins: what it owes was counted before.
LEMMA BeginKeeps ==
  ASSUME IInv, NEW c \in Callers, NEW pc \in {"tic", "halt"}, NEW due \in SUBSET Probs, Begin(c, pc, due)
  PROVE  IInv'
  <1> DEFINE s == calls[c].s
             t == table[s].tic + 1
             call == [calls[c] EXCEPT !.pc = pc, !.tic = t, !.todo = due]
  <1>1. /\ s \in Sessions /\ Live(s) /\ table[s].status = "running" /\ t \in Tics /\ lock[s] = None
        /\ lock' = [lock EXCEPT ![s] = c] /\ calls[c].pc = "lock"
        /\ calls' = [calls EXCEPT ![c].pc = pc, ![c].tic = t, ![c].todo = due]
        /\ UNCHANGED <<event, table, emissions, loop, faults>>
    <2>1. s \in Sessions
      BY DEF Begin, IInv, Found, Past
    <2>2. table[s].tic \in Nat
      BY <2>1, SimulationAssumption DEF IInv, TypeOK, Clocks
    <2> QED BY <2>1, <2>2, SimulationAssumption DEF Begin, Admitted, Free, Tics
  <1>2. /\ calls[c] \in CallType /\ call \in CallType
        /\ call.pc = pc /\ call.tic = t /\ call.todo = due /\ call.s = s
    <2>1. calls[c] \in CallType
      BY DEF IInv, TypeOK, CallType
    <2>2. t \in Clocks
      BY <1>1, SimulationAssumption DEF Tics, Clocks
    <2> QED BY <2>1, <2>2 DEF CallType
  <1>3. calls' = [calls EXCEPT ![c] = call]
    BY <1>1
  <1> HIDE DEF call
  <1>4. /\ calls'[c] = call /\ \A d \in Callers \ {c} : calls'[d] = calls[d]
        /\ calls' \in [Callers -> CallType]
    BY <1>2, <1>3 DEF IInv, TypeOK, CallType
  <1>5. lock'[s] = c /\ (\A q \in Sessions \ {s} : lock'[q] = lock[q])
        /\ lock' \in [Sessions -> Callers \cup {None}]
    BY <1>1 DEF IInv, TypeOK
  <1>6. TypeOK'
    BY <1>1, <1>4, <1>5 DEF IInv, TypeOK, CallType
  <1>7. \A d \in Callers : Working(d) => calls[d].s \in Sessions /\ calls[d].s # s
    BY <1>1, SimulationAssumption DEF IInv, Held, Found, Past, Working
  <1>8. /\ \A d \in Callers : Working(d)' <=> d = c \/ Working(d)
        /\ \A d \in Callers : Working(d) => d # c
    BY <1>1, <1>2, <1>4 DEF Working
  <1>9. Found'
    BY <1>1, <1>2, <1>4 DEF IInv, Found, Past, Live
  <1>10. Held'
    BY <1>1, <1>2, <1>4, <1>5, <1>7, <1>8 DEF IInv, Held, Live
  <1>11. \A q \in Sessions, u \in Tics, p \in Probs : Rows(q, u, p)' = Rows(q, u, p)
    BY <1>1 DEF Rows
  <1>12. TicOnce'
    BY <1>1, <1>11 DEF IInv, TicOnce
  <1>13. ASSUME NEW q \in Sessions, NEW u \in Tics, NEW p \in Probs
         PROVE  /\ table'[q].is = "free" => Rows(q, u, p)' = 0
                /\ /\ table'[q].is = "live" /\ u = table'[q].tic + 1
                   /\ \A d \in Callers : Working(d)' => calls'[d].s # q
                   => Rows(q, u, p)' <= faults'
    <2>1. (\A d \in Callers : Working(d)' => calls'[d].s # q) => \A d \in Callers : Working(d) => calls[d].s # q
      BY <1>4, <1>8
    <2> QED BY <1>1, <1>11, <2>1 DEF IInv, Counted, Live
  <1>14. ASSUME NEW d \in Callers, Working(d)', NEW p \in calls'[d].todo
         PROVE  (Rows(calls[d].s, calls[d].tic, p) <= faults)'
    <2>1. CASE d = c
      <3>1. p \in Probs /\ Rows(s, t, p) <= faults
        BY <1>1, <1>2, <1>4, <1>7, <1>14, <2>1 DEF IInv, Counted
      <3>2. Rows(s, t, p) = emissions[s][t][p].open + emissions[s][t][p].over
        BY DEF Rows
      <3>3. calls'[d].s = s /\ calls'[d].tic = t
        BY <1>2, <1>4, <2>1
      <3> QED BY <1>1, <3>1, <3>2, <3>3 DEF Rows
    <2>2. CASE d # c
      <3>1. Rows(calls[d].s, calls[d].tic, p) <= faults
        BY <1>4, <1>8, <1>14, <2>2 DEF IInv, Counted
      <3> QED BY <1>1, <1>4, <2>2, <3>1 DEF Rows
    <2> QED BY <2>1, <2>2
  <1>15. Counted'
    BY <1>13, <1>14 DEF Counted, Live
  <1> QED BY <1>6, <1>9, <1>10, <1>12, <1>15 DEF IInv

\* A tic goes on: what emits is owed no longer.
LEMMA Proceeds ==
  ASSUME IInv, NEW c \in Callers, Working(c), NEW call \in CallType, call.pc \in {"tic", "run", "halt"},
         call.s = calls[c].s, call.tic = calls[c].tic, call.todo \subseteq calls[c].todo,
         call.pc = "run" => call.prob \in Probs, calls' = [calls EXCEPT ![c] = call],
         UNCHANGED <<event, table, lock, loop, faults>>,
         emissions' \in [Sessions -> [Tics -> [Probs -> Column]]],
         \A s \in Sessions, t \in Tics, q \in Probs :
            \/ Rows(s, t, q)' = Rows(s, t, q)
            \/ /\ s = calls[c].s /\ t = calls[c].tic /\ q \in calls[c].todo \ call.todo
               /\ Rows(s, t, q)' = Rows(s, t, q) + 1
  PROVE  IInv'
  <1>1. /\ calls'[c] = call /\ \A d \in Callers \ {c} : calls'[d] = calls[d]
        /\ calls' \in [Callers -> CallType]
    BY DEF IInv, TypeOK, CallType
  <1>2. TypeOK'
    BY <1>1 DEF IInv, TypeOK, CallType, Column
  <1>3. \A d \in Callers : Working(d)' <=> Working(d)
    BY <1>1 DEF Working
  <1>4. Found' /\ Held'
    BY <1>1, <1>3 DEF IInv, Found, Held, Past, Working, Live
  <1>5. /\ calls[c].s \in Sessions /\ calls[c].tic \in Tics /\ calls[c].tic = table[calls[c].s].tic + 1
        /\ calls[c].todo \subseteq Probs /\ table[calls[c].s].is # "free"
        /\ \A q \in calls[c].todo : Rows(calls[c].s, calls[c].tic, q) <= faults
    BY DEF IInv, Found, Held, Counted, Past, Working, TypeOK
  <1>6. /\ faults \in Nat /\ \A s \in Sessions, t \in Tics, p \in Probs : Rows(s, t, p) \in Nat
        /\ \A s \in Sessions : table[s].tic \in Nat
    BY RowsType, SimulationAssumption DEF IInv, TypeOK, Clocks
  <1>7. TicOnce'
    <2> SUFFICES ASSUME NEW s \in Sessions, NEW t \in Tics, NEW p \in Probs
                 PROVE  Rows(s, t, p)' <= 1 + faults /\ (t > table[s].tic + 1 => Rows(s, t, p)' = 0)
      BY DEF TicOnce
    <2>1. Rows(s, t, p) <= 1 + faults /\ (t > table[s].tic + 1 => Rows(s, t, p) = 0)
      BY DEF IInv, TicOnce
    <2>2. CASE Rows(s, t, p)' = Rows(s, t, p)
      BY <2>1, <2>2
    <2>3. CASE s = calls[c].s /\ t = calls[c].tic /\ p \in calls[c].todo /\ Rows(s, t, p)' = Rows(s, t, p) + 1
      <3>1. Rows(s, t, p) <= faults /\ t = table[s].tic + 1
        BY <1>5, <2>3
      <3> QED BY <1>6, <2>3, <3>1
    <2> QED BY <2>2, <2>3
  <1>8. ASSUME NEW s \in Sessions, NEW t \in Tics, NEW p \in Probs
        PROVE  /\ table[s].is = "free" => Rows(s, t, p)' = 0
               /\ /\ table[s].is = "live" /\ t = table[s].tic + 1
                  /\ \A d \in Callers : Working(d)' => calls'[d].s # s
                  => Rows(s, t, p)' <= faults
    <2>1. CASE s = calls[c].s
      BY <1>1, <1>3, <1>5, <2>1
    <2>2. CASE s # calls[c].s
      <3>1. Rows(s, t, p)' = Rows(s, t, p)
        BY <2>2
      <3>2. (\A d \in Callers : Working(d)' => calls'[d].s # s) => \A d \in Callers : Working(d) => calls[d].s # s
        BY <1>1, <1>3
      <3> QED BY <3>1, <3>2 DEF IInv, Counted, Live
    <2> QED BY <2>1, <2>2
  <1>9. ASSUME NEW d \in Callers, Working(d)', NEW p \in calls'[d].todo
        PROVE  (Rows(calls[d].s, calls[d].tic, p) <= faults)'
    <2>1. /\ calls'[d].s = calls[d].s /\ calls'[d].tic = calls[d].tic /\ p \in calls[d].todo
          /\ calls[d].s \in Sessions /\ calls[d].tic \in Tics /\ p \in Probs /\ Working(d)
      BY <1>1, <1>3, <1>9 DEF IInv, Found, Held, Past, Working, TypeOK
    <2>2. Rows(calls[d].s, calls[d].tic, p) <= faults
      BY <2>1 DEF IInv, Counted
    <2>3. emissions'[calls[d].s][calls[d].tic][p].open + emissions'[calls[d].s][calls[d].tic][p].over
          = Rows(calls[d].s, calls[d].tic, p)
      <3>1. ~(calls[d].s = calls[c].s /\ calls[d].tic = calls[c].tic /\ p \in calls[c].todo \ call.todo)
        <4>1. calls[d].s = calls[c].s => d = c
          BY <2>1, Alone DEF IInv, Typed
        <4> QED BY <1>1, <1>9, <4>1
      <3> QED BY <2>1, <3>1 DEF Rows
    <2> QED BY <2>1, <2>2, <2>3 DEF Rows
  <1>10. Counted'
    BY <1>8, <1>9 DEF Counted, Live
  <1> QED BY <1>2, <1>4, <1>7, <1>10 DEF IInv

LEMMA EmitKeeps ==
  ASSUME IInv, NEW c \in Callers, NEW p \in Probs, NEW outcome, Emit(c, p, outcome)
  PROVE  IInv'
  <1> DEFINE rest == [calls[c] EXCEPT !.todo = calls[c].todo \ {p}]
  <1>1. /\ calls[c] \in CallType /\ calls[c].pc = "tic" /\ p \in calls[c].todo /\ Working(c)
        /\ calls[c].s \in Sessions /\ calls[c].tic \in Tics
        /\ UNCHANGED <<event, table, lock, loop, faults>>
    BY DEF Emit, IsNext, IInv, TypeOK, CallType, Working, Found, Held, Past
  <1>2. /\ rest \in CallType /\ rest.pc = "tic" /\ rest.s = calls[c].s /\ rest.tic = calls[c].tic
        /\ rest.todo = calls[c].todo \ {p}
    BY <1>1 DEF CallType
  <1>3. CASE calls' = [calls EXCEPT ![c] = [calls[c] EXCEPT !.pc = "halt"]] /\ UNCHANGED emissions
    <2>1. [calls[c] EXCEPT !.pc = "halt"] \in CallType
      BY <1>1 DEF CallType
    <2>2. emissions' \in [Sessions -> [Tics -> [Probs -> Column]]]
      BY <1>3 DEF IInv, TypeOK, Column
    <2>3. \A s \in Sessions, t \in Tics, q \in Probs : Rows(s, t, q)' = Rows(s, t, q)
      BY <1>3 DEF Rows
    <2> DEFINE call == [calls[c] EXCEPT !.pc = "halt"]
    <2>4. call.pc = "halt" /\ call.s = calls[c].s /\ call.tic = calls[c].tic /\ call.todo = calls[c].todo
      BY <1>1 DEF CallType
    <2> HIDE DEF call
    <2>5. calls' = [calls EXCEPT ![c] = call] /\ call \in CallType
      BY <1>3, <2>1 DEF call
    <2> QED BY <1>1, <2>2, <2>3, <2>4, <2>5, Proceeds
  <1>4. ASSUME NEW call \in CallType, call.pc \in {"tic", "run"}, call.pc = "run" => call.prob \in Probs,
               call.s = rest.s, call.tic = rest.tic, call.todo = rest.todo,
               calls' = [calls EXCEPT ![c] = call], NEW column \in {"open", "over"}, Insert(c, p, column)
        PROVE  IInv'
    <2>1. /\ emissions' \in [Sessions -> [Tics -> [Probs -> Column]]]
          /\ \A s \in Sessions, t \in Tics, q \in Probs :
                Rows(s, t, q)' = IF s = calls[c].s /\ t = calls[c].tic /\ q = p
                                   THEN Rows(s, t, q) + 1 ELSE Rows(s, t, q)
      BY <1>1, <1>4, Inserted DEF IInv
    <2>2. p \in calls[c].todo \ call.todo
      BY <1>1, <1>2, <1>4
    <2>3. \A s \in Sessions, t \in Tics, q \in Probs :
            \/ Rows(s, t, q)' = Rows(s, t, q)
            \/ /\ s = calls[c].s /\ t = calls[c].tic /\ q \in calls[c].todo \ call.todo
               /\ Rows(s, t, q)' = Rows(s, t, q) + 1
      BY <2>1, <2>2
    <2>4. call.s = calls[c].s /\ call.tic = calls[c].tic /\ call.todo \subseteq calls[c].todo
          /\ call.pc \in {"tic", "run", "halt"}
      BY <1>2, <1>4
    <2> HIDE DEF rest
    <2> QED BY <1>1, <1>4, <2>1, <2>3, <2>4, Proceeds
  <1>5. CASE calls' = [calls EXCEPT ![c] = rest] /\ Insert(c, p, "over")
    <2> HIDE DEF rest
    <2> QED BY <1>2, <1>4, <1>5
  <1>6. CASE calls' = [calls EXCEPT ![c] = [rest EXCEPT !.pc = "run", !.prob = p]] /\ Insert(c, p, "open")
    <2> DEFINE call == [rest EXCEPT !.pc = "run", !.prob = p]
    <2> HIDE DEF rest
    <2>1. /\ call \in CallType /\ call.pc = "run" /\ call.prob = p /\ call.s = rest.s /\ call.tic = rest.tic
          /\ call.todo = rest.todo
      BY <1>2 DEF CallType
    <2>2. calls' = [calls EXCEPT ![c] = call]
      BY <1>6
    <2> HIDE DEF call
    <2> QED BY <1>4, <1>6, <2>1, <2>2
  <1> QED BY <1>3, <1>5, <1>6 DEF Emit

LEMMA RunKeeps == ASSUME IInv, NEW c \in Callers, NEW outcome, Run(c, outcome) PROVE IInv'
  <1> DEFINE pc == IF outcome \in {"inactive", "pending"} THEN "tic" ELSE "halt"
             call == [calls[c] EXCEPT !.pc = pc, !.prob = None]
  <1>1. /\ calls[c] \in CallType /\ calls[c].pc = "run" /\ Working(c) /\ calls[c].prob \in Probs
        /\ calls[c].s \in Sessions /\ calls[c].tic \in Tics
        /\ UNCHANGED <<event, table, lock, loop, faults>> /\ Note(c, calls[c].prob)
        /\ calls' = [calls EXCEPT ![c].pc = pc, ![c].prob = None]
    BY DEF Run, IInv, TypeOK, CallType, Working, Found, Held, Past
  <1>2. /\ call \in CallType /\ call.pc \in {"tic", "halt"} /\ call.s = calls[c].s /\ call.tic = calls[c].tic
        /\ call.todo = calls[c].todo
    BY <1>1 DEF CallType
  <1>3. calls' = [calls EXCEPT ![c] = call]
    BY <1>1
  <1> HIDE DEF call
  <1>4. /\ emissions' \in [Sessions -> [Tics -> [Probs -> Column]]]
        /\ \A s \in Sessions, t \in Tics, q \in Probs : Rows(s, t, q)' = Rows(s, t, q)
    BY <1>1, Noted DEF IInv
  <1>5. call.pc \in {"tic", "run", "halt"} /\ call.todo \subseteq calls[c].todo /\ (call.pc = "run" => call.prob \in Probs)
    BY <1>2
  <1>6. \A s \in Sessions, t \in Tics, q \in Probs :
           \/ Rows(s, t, q)' = Rows(s, t, q)
           \/ /\ s = calls[c].s /\ t = calls[c].tic /\ q \in calls[c].todo \ call.todo
              /\ Rows(s, t, q)' = Rows(s, t, q) + 1
    BY <1>4
  <1> QED BY <1>1, <1>2, <1>3, <1>4, <1>5, <1>6, Proceeds

\* A tic is stored: the clock moves to it, and the tic after it has no emissions.
LEMMA StoreKeeps ==
  ASSUME IInv, NEW c \in Callers, Commit(c) \/ Halt(c)
  PROVE  IInv'
  <1> DEFINE s == calls[c].s
             type == [is : {"free", "live", "gone"}, status : {"running", "error"}, tic : Clocks]
  <1>1. /\ s \in Sessions /\ Working(c) /\ lock[s] = c /\ table[s].is # "free"
        /\ calls[c].tic = table[s].tic + 1 /\ calls[c].tic \in Clocks
    BY SimulationAssumption DEF Commit, Halt, IInv, Found, Held, Past, Working, Tics, Clocks
  <1>2. PICK status \in {"running", "error"} :
             /\ table' = IF Live(s) THEN [table EXCEPT ![s] = [is |-> "live", status |-> status, tic |-> calls[c].tic]] ELSE table
             /\ Return(c) /\ UNCHANGED <<event, emissions, faults>>
    BY DEF Commit, Halt, Store
  <1>3. /\ table' \in [Sessions -> type]
        /\ \A q \in Sessions : table'[q].is = table[q].is
        /\ \A q \in Sessions \ {s} : table'[q] = table[q]
        /\ table'[s].tic \in {table[s].tic, table[s].tic + 1}
        /\ Live(s) => table'[s].tic = table[s].tic + 1
    <2>1. table \in [Sessions -> type]
      BY DEF IInv, TypeOK
    <2>2. CASE Live(s)
      <3> DEFINE row == [is |-> "live", status |-> status, tic |-> calls[c].tic]
      <3>1. row \in type /\ row.is = table[s].is /\ row.tic = table[s].tic + 1
        BY <1>1, <1>2, <2>2 DEF Live
      <3>2. table' = [table EXCEPT ![s] = row]
        BY <1>2, <2>2
      <3> HIDE DEF row
      <3> QED BY <1>1, <2>1, <3>1, <3>2
    <2>3. CASE ~Live(s)
      BY <1>2, <2>1, <2>3
    <2> QED BY <2>2, <2>3
  <1>4. \A d \in Callers \ {c} : Working(d) => calls[d].s \in Sessions /\ calls[d].s # s
    BY <1>1, Alone DEF IInv, Typed, Found, Past, Working
  <1>5. emissions' \in [Sessions -> [Tics -> [Probs -> Column]]]
    BY <1>2 DEF IInv, TypeOK, Column
  <1>6. \A d \in Callers \ {c} : Working(d) =>
            /\ table'[calls[d].s].tic = table[calls[d].s].tic
            /\ table'[calls[d].s].is = "live" => table'[calls[d].s].status = "running"
    BY <1>3, <1>4 DEF IInv, Held, Live
  <1>7. faults' \in 0..MaxFaults /\ UNCHANGED event /\ Typed
        /\ \A q \in Sessions : table[q].is # "free" => table'[q].is # "free"
    BY <1>2, <1>3 DEF IInv, TypeOK, Typed
  <1>8. /\ Typed'
        /\ \A d \in Callers : Working(d)' <=> d # c /\ Working(d)
        /\ \A d \in Callers \ {c} : calls'[d] = calls[d]
    BY <1>2, <1>3, <1>5, <1>6, <1>7, Returned
  <1>9. \A q \in Sessions, t \in Tics, p \in Probs : Rows(q, t, p)' = Rows(q, t, p) /\ Rows(q, t, p) \in Nat
    BY <1>2, RowsType DEF Rows, IInv
  <1>10. faults \in Nat /\ \A q \in Sessions : table[q].tic \in Nat
    BY SimulationAssumption DEF IInv, TypeOK, Clocks
  <1>11. TicOnce'
    <2> SUFFICES ASSUME NEW q \in Sessions, NEW t \in Tics, NEW p \in Probs
                 PROVE  Rows(q, t, p)' <= 1 + faults /\ (t > table'[q].tic + 1 => Rows(q, t, p)' = 0)
      BY <1>2 DEF TicOnce
    <2>1. Rows(q, t, p) <= 1 + faults /\ (t > table[q].tic + 1 => Rows(q, t, p) = 0)
      BY DEF IInv, TicOnce
    <2>2. t \in Nat /\ table'[q].tic >= table[q].tic /\ table'[q].tic \in Nat
      BY <1>3, <1>10, SimulationAssumption DEF Tics
    <2> QED BY <1>9, <1>10, <2>1, <2>2
  <1>12. ASSUME NEW q \in Sessions, NEW t \in Tics, NEW p \in Probs
         PROVE  /\ table'[q].is = "free" => Rows(q, t, p)' = 0
                /\ /\ table'[q].is = "live" /\ t = table'[q].tic + 1
                   /\ \A d \in Callers : Working(d)' => calls'[d].s # q
                   => Rows(q, t, p)' <= faults
    <2>1. table'[q].is = "free" => Rows(q, t, p)' = 0
      BY <1>3, <1>9 DEF IInv, Counted
    <2>2. CASE q = s
      <3> SUFFICES ASSUME table'[q].is = "live", t = table'[q].tic + 1
                   PROVE  Rows(q, t, p)' <= faults
        BY <2>1
      <3>1. t = table[s].tic + 2
        BY <1>3, <1>10, <2>2 DEF Live
      <3>2. Rows(q, t, p) = 0
        BY <1>10, <2>2, <3>1 DEF IInv, TicOnce
      <3> QED BY <1>9, <1>10, <3>2
    <2>3. CASE q # s
      <3>1. (\A d \in Callers : Working(d)' => calls'[d].s # q) => \A d \in Callers : Working(d) => calls[d].s # q
        BY <1>8, <2>3
      <3>2. /\ Live(q) /\ t = table[q].tic + 1 /\ (\A d \in Callers : Working(d) => calls[d].s # q)
            => Rows(q, t, p) <= faults
        BY DEF IInv, Counted
      <3> QED BY <1>3, <1>9, <2>1, <2>3, <3>1, <3>2 DEF Live
    <2> QED BY <2>2, <2>3
  <1>13. ASSUME NEW d \in Callers, Working(d)', NEW p \in calls'[d].todo
         PROVE  (Rows(calls[d].s, calls[d].tic, p) <= faults)'
    <2>1. Rows(calls[d].s, calls[d].tic, p) <= faults
      BY <1>8, <1>13 DEF IInv, Counted
    <2> QED BY <1>2, <1>8, <1>13, <2>1 DEF Rows
  <1>14. Counted'
    BY <1>2, <1>12, <1>13 DEF Counted, Live
  <1> QED BY <1>8, <1>11, <1>14 DEF IInv, Typed

\* The process ends: what its tics still owed is owed to the fault.
LEMMA CrashKeeps == ASSUME IInv, Crash PROVE IInv'
  <1>1. /\ calls' = [c \in Callers |-> NoCall] /\ lock' = [s \in Sessions |-> None] /\ loop' = None
        /\ faults' \in 0..MaxFaults /\ faults' > faults /\ UNCHANGED <<event, table, emissions>>
    BY SimulationAssumption DEF Crash, IInv, TypeOK
  <1>2. TypeOK'
    BY <1>1, NoCallTyped DEF IInv, TypeOK, CallType
  <1>3. \A c \in Callers : calls'[c].pc = "none" /\ ~Working(c)' /\ ~Past(c)'
    BY <1>1 DEF NoCall, Working, Past
  <1>4. Found' /\ Held'
    BY <1>3 DEF Found, Held
  <1>5. \A s \in Sessions, t \in Tics, p \in Probs : Rows(s, t, p)' = Rows(s, t, p)
    BY <1>1 DEF Rows
  <1>6. faults' >= faults
    BY <1>1, SimulationAssumption DEF IInv, TypeOK
  <1>7. TicOnce' /\ Counted'
    BY <1>1, <1>2, <1>3, <1>5, <1>6, CountsKept DEF IInv, TypeOK
  <1> QED BY <1>2, <1>4, <1>7 DEF IInv

\* Sessions are deleted, one or with their event, and their emissions with them.
LEMMA DeleteKeeps ==
  ASSUME IInv, (\E s \in Sessions : DeleteSession(s)) \/ (\E to \in Events : EditEvent(to))
  PROVE  IInv'
  <1> DEFINE empty == [t \in Tics |-> [p \in Probs |-> [open |-> 0, over |-> 0]]]
             type == [is : {"free", "live", "gone"}, status : {"running", "error"}, tic : Clocks]
  <1>1. empty \in [Tics -> [Probs -> Column]]
    BY DEF Column
  <1>2. table \in [Sessions -> type] /\ emissions \in [Sessions -> [Tics -> [Probs -> Column]]]
    BY DEF IInv, TypeOK, Column
  <1>3. /\ UNCHANGED <<lock, loop, calls, faults>> /\ event' \in Events
        /\ table' \in [Sessions -> type]
        /\ \A q \in Sessions :
              /\ table'[q].tic = table[q].tic /\ table'[q].status = table[q].status
              /\ table'[q].is = table[q].is \/ (table[q].is = "live" /\ table'[q].is = "gone")
        /\ emissions' \in [Sessions -> [Tics -> [Probs -> Column]]]
        /\ \A q \in Sessions : emissions'[q] = emissions[q] \/ emissions'[q] = empty
    <2>1. ASSUME NEW s \in Sessions, DeleteSession(s)
          PROVE  /\ table' = [table EXCEPT ![s].is = "gone"] /\ emissions' = [emissions EXCEPT ![s] = empty]
                 /\ table[s].is = "live" /\ UNCHANGED <<event, lock, loop, calls, faults>>
      BY <2>1 DEF DeleteSession, Live
    <2>2. CASE \E s \in Sessions : DeleteSession(s)
      <3>1. PICK s \in Sessions : DeleteSession(s)
        BY <2>2
      <3> DEFINE row == [table[s] EXCEPT !.is = "gone"]
      <3>2. row \in type /\ row.is = "gone" /\ row.tic = table[s].tic /\ row.status = table[s].status
        BY <1>2
      <3>3. table' = [table EXCEPT ![s] = row]
        BY <2>1, <3>1
      <3> HIDE DEF row, empty
      <3>4. /\ table' \in [Sessions -> type]
            /\ \A q \in Sessions : table'[q] = IF q = s THEN row ELSE table[q]
        BY <1>2, <3>2, <3>3
      <3>5. /\ emissions' \in [Sessions -> [Tics -> [Probs -> Column]]]
            /\ \A q \in Sessions : emissions'[q] = IF q = s THEN empty ELSE emissions[q]
        BY <1>1, <1>2, <2>1, <3>1
      <3> QED BY <2>1, <3>1, <3>2, <3>4, <3>5 DEF IInv, TypeOK
    <2>3. ASSUME NEW to \in Events, EditEvent(to), to # "gone"
          PROVE  UNCHANGED <<table, emissions, lock, loop, calls, faults>> /\ event' = to
      BY <2>3 DEF EditEvent
    <2>4. ASSUME NEW to \in Events, EditEvent(to), to = "gone"
          PROVE  /\ UNCHANGED <<lock, loop, calls, faults>> /\ event' = to
                 /\ table' = [s \in Sessions |-> IF Live(s) THEN [table[s] EXCEPT !.is = "gone"] ELSE table[s]]
                 /\ emissions' = [s \in Sessions |-> empty]
      BY <2>4 DEF EditEvent
    <2>5. CASE \E to \in Events : EditEvent(to)
      <3>1. PICK to \in Events : EditEvent(to)
        BY <2>5
      <3>2. CASE to # "gone"
        BY <1>2, <2>3, <3>1, <3>2
      <3>3. CASE to = "gone"
        <4>1. \A q \in Sessions :
                 LET row == [table[q] EXCEPT !.is = "gone"] IN
                 row \in type /\ row.is = "gone" /\ row.tic = table[q].tic /\ row.status = table[q].status
          BY <1>2
        <4>2. /\ table' \in [Sessions -> type]
              /\ \A q \in Sessions :
                    /\ table'[q].tic = table[q].tic /\ table'[q].status = table[q].status
                    /\ table'[q].is = table[q].is \/ (table[q].is = "live" /\ table'[q].is = "gone")
          BY <1>2, <2>4, <3>1, <3>3, <4>1 DEF Live
        <4> HIDE DEF empty
        <4>3. /\ emissions' \in [Sessions -> [Tics -> [Probs -> Column]]]
              /\ \A q \in Sessions : emissions'[q] = empty
          BY <1>1, <2>4, <3>1, <3>3
        <4> QED BY <2>4, <3>1, <3>3, <4>2, <4>3
      <3> QED BY <3>2, <3>3
    <2> QED BY <2>2, <2>5
  <1>4. TypeOK'
    BY <1>3 DEF IInv, TypeOK, Column
  <1>5. \A d \in Callers : (Working(d)' <=> Working(d)) /\ (Past(d)' <=> Past(d))
    BY <1>3 DEF Working, Past
  <1>6. Found' /\ Held'
    <2>1. Found'
      BY <1>3, <1>5 DEF IInv, Found
    <2>2. \A d \in Callers : Working(d) => calls[d].s \in Sessions
      BY DEF IInv, Found, Past, Working
    <2>3. ASSUME NEW d \in Callers, Working(d)
          PROVE  /\ lock'[calls[d].s] = d
                 /\ calls[d].tic \in Tics /\ calls[d].tic = table'[calls[d].s].tic + 1
                 /\ table'[calls[d].s].is = "live" => table'[calls[d].s].status = "running"
      <3>1. /\ lock[calls[d].s] = d
            /\ calls[d].tic \in Tics /\ calls[d].tic = table[calls[d].s].tic + 1
            /\ table[calls[d].s].is = "live" => table[calls[d].s].status = "running"
        BY <2>3 DEF IInv, Held, Live
      <3> QED BY <1>3, <2>2, <2>3, <3>1
    <2>4. Held'
      BY <1>3, <1>5, <2>3 DEF Held, Live
    <2> QED BY <2>1, <2>4
  <1>7. ASSUME NEW q \in Sessions, NEW t \in Tics, NEW p \in Probs
        PROVE  Rows(q, t, p)' \in {0, Rows(q, t, p)}
    <2>1. CASE emissions'[q] = emissions[q]
      BY <2>1 DEF Rows
    <2>2. CASE emissions'[q] = empty
      BY <2>2 DEF Rows
    <2> QED BY <1>3, <2>1, <2>2
  <1>8. faults' >= faults
    BY <1>3, SimulationAssumption DEF IInv, TypeOK
  <1>9. TicOnce' /\ Counted'
    BY <1>3, <1>4, <1>5, <1>7, <1>8, CountsKept
  <1> QED BY <1>4, <1>6, <1>9 DEF IInv

-----------------------------------------------------------------------------
(* Theorems                                                                *)

LEMMA Starts == Init => IInv
  <1> SUFFICES ASSUME Init PROVE IInv
    OBVIOUS
  <1>1. TypeOK
    BY NoCallTyped, SimulationAssumption DEF Init, TypeOK, CallType, Events, Clocks
  <1>2. \A c \in Callers : ~Working(c) /\ ~Past(c) /\ calls[c].pc = "none"
    BY DEF Init, NoCall, Working, Past
  <1>3. \A s \in Sessions, t \in Tics, p \in Probs : Rows(s, t, p) = 0
    BY DEF Init, Rows
  <1>4. Found /\ Held /\ Counted /\ TicOnce
    BY <1>2, <1>3, SimulationAssumption DEF Init, Found, Held, Counted, TicOnce
  <1> QED BY <1>1, <1>4 DEF IInv

LEMMA Keeps == IInv /\ [Next]_vars => IInv'
  <1> SUFFICES ASSUME IInv, [Next]_vars PROVE IInv'
    OBVIOUS
  <1>1. ASSUME NEW c \in Callers, Asking(c) PROVE IInv'
    BY <1>1, AskingKeeps
  <1>2. ASSUME NEW c \in Callers, Going(c) PROVE IInv'
    BY <1>2, AnswerKeeps, BeginKeeps, EmitKeeps, RunKeeps, StoreKeeps DEF Going
  <1>3. ASSUME NEW c \in Callers, Fail(c) PROVE IInv'
    BY <1>3, AnswerKeeps
  <1>4. CASE UNCHANGED vars
    BY <1>4 DEF vars, IInv, TypeOK, Found, Held, Counted, TicOnce, Rows, Past, Working, Live
  <1> QED BY <1>1, <1>2, <1>3, <1>4, CrashKeeps, DeleteKeeps DEF Next

\* The variables keep their types, for any sessions, probabilities, requests and faults.
THEOREM SimulationTypes == Spec => []TypeOK
  <1>1. IInv => TypeOK
    BY DEF IInv
  <1> QED BY <1>1, Starts, Keeps, PTL DEF Spec

\* However many requests for tics come together, and whatever fails in them, a probability
\* emits once for a tic and once more for a fault (advance_session, _advance_unlocked).
THEOREM SimulationTicsOnce == Spec => []TicOnce
  <1>1. IInv => TicOnce
    BY DEF IInv
  <1> QED BY <1>1, Starts, Keeps, PTL DEF Spec

\* The clock under a step.
ClockStep ==
    \A s \in Sessions :
        /\ table'[s].tic \in {table[s].tic, table[s].tic + 1}
        /\ table[s].status = "error" => table'[s].tic = table[s].tic

LEMMA ClockSteps == IInv /\ [Next]_vars => ClockStep
  <1> SUFFICES ASSUME IInv, [Next]_vars PROVE ClockStep
    OBVIOUS
  <1> DEFINE type == [is : {"free", "live", "gone"}, status : {"running", "error"}, tic : Clocks]
  <1>1. table \in [Sessions -> type]
    BY DEF IInv, TypeOK
  <1>2. CASE UNCHANGED table
    BY <1>2 DEF ClockStep
  <1>3. ASSUME NEW q \in Sessions, NEW row, row.tic = table[q].tic, table' = [table EXCEPT ![q] = row]
        PROVE  ClockStep
    BY <1>1, <1>3 DEF ClockStep
  <1>4. ASSUME NEW c \in Callers, Asking(c) \/ Fail(c) PROVE UNCHANGED table
    BY <1>4 DEF Asking, AskToCreate, Ask, Fail
  <1>5. ASSUME NEW c \in Callers, Going(c) PROVE ClockStep
    <2>1. CASE Patch(c)
      <3>1. calls[c].s \in Sessions
        BY <2>1 DEF Patch, IInv, Found, Past
      <3> DEFINE row == [table[calls[c].s] EXCEPT !.status = "running"]
      <3>2. UNCHANGED table \/ table' = [table EXCEPT ![calls[c].s] = row]
        BY <2>1 DEF Patch
      <3>3. row.tic = table[calls[c].s].tic
        BY <1>1, <3>1
      <3> HIDE DEF row
      <3> QED BY <1>2, <1>3, <3>1, <3>2, <3>3
    <2>2. ASSUME NEW s \in Sessions, CreateSession(c, s) PROVE ClockStep
      <3> DEFINE row == [table[s] EXCEPT !.is = "live"]
      <3>1. UNCHANGED table \/ table' = [table EXCEPT ![s] = row]
        BY <2>2 DEF CreateSession
      <3>2. row.tic = table[s].tic
        BY <1>1
      <3> HIDE DEF row
      <3> QED BY <1>2, <1>3, <3>1, <3>2
    <2>3. CASE Commit(c) \/ Halt(c)
      <3> DEFINE s == calls[c].s
      <3>1. /\ s \in Sessions /\ calls[c].tic = table[s].tic + 1
            /\ Live(s) => table[s].status = "running"
        BY <2>3 DEF Commit, Halt, IInv, Found, Held, Past, Working
      <3>2. PICK status \in {"running", "error"} :
               table' = IF Live(s) THEN [table EXCEPT ![s] = [is |-> "live", status |-> status, tic |-> calls[c].tic]] ELSE table
        BY <2>3 DEF Commit, Halt, Store
      <3>3. CASE Live(s)
        <4>1. \A q \in Sessions :
                 IF q = s THEN table'[q].tic = table[s].tic + 1 /\ table[s].status = "running"
                 ELSE table'[q] = table[q]
          BY <1>1, <3>1, <3>2, <3>3
        <4> QED BY <4>1 DEF ClockStep
      <3>4. CASE ~Live(s)
        BY <1>2, <3>2, <3>4
      <3> QED BY <3>3, <3>4
    <2>4. CASE \/ Refuse(c) \/ Drop(c)
               \/ \E due \in SUBSET Probs, pc \in {"tic", "halt"} : Begin(c, pc, due)
               \/ \E p \in Probs, outcome \in {"halt", "cancelled", "recorded", "run"} : Emit(c, p, outcome)
               \/ \E outcome \in {"inactive", "pending", "waiting", "error"} : Run(c, outcome)
      BY <1>2, <2>4 DEF Refuse, Drop, Begin, Emit, Run
    <2> QED BY <1>5, <2>1, <2>2, <2>3, <2>4 DEF Going
  <1>6. ASSUME NEW s \in Sessions, DeleteSession(s) PROVE ClockStep
    <2> DEFINE row == [table[s] EXCEPT !.is = "gone"]
    <2>1. table' = [table EXCEPT ![s] = row]
      BY <1>6 DEF DeleteSession
    <2>2. row.tic = table[s].tic
      BY <1>1
    <2> HIDE DEF row
    <2> QED BY <1>3, <2>1, <2>2
  <1>7. ASSUME NEW to \in Events, EditEvent(to) PROVE ClockStep
    <2>1. UNCHANGED table \/ table' = [s \in Sessions |-> IF Live(s) THEN [table[s] EXCEPT !.is = "gone"] ELSE table[s]]
      BY <1>7 DEF EditEvent
    <2>2. \A s \in Sessions : [table[s] EXCEPT !.is = "gone"].tic = table[s].tic
      BY <1>1
    <2>3. UNCHANGED table \/ \A s \in Sessions : table'[s].tic = table[s].tic
      BY <2>1, <2>2
    <2> QED BY <1>2, <2>3 DEF ClockStep
  <1>8. CASE Crash \/ UNCHANGED vars
    BY <1>2, <1>8 DEF Crash, vars
  <1> QED BY <1>2, <1>4, <1>5, <1>6, <1>7, <1>8 DEF Next

\* Whatever requests come together, a session with an error stands still until somebody
\* clears it, and no clock goes back or over a tic (_advance_unlocked, clear_session_error).
THEOREM SimulationErrorStops == Spec => ErrorStops
  <1>1. IInv /\ [Next]_vars => [ClockStep]_vars
    BY ClockSteps
  <1>2. [ClockStep]_vars => [\A s \in Sessions :
          /\ table'[s].tic \in {table[s].tic, table[s].tic + 1}
          /\ table[s].status = "error" => table'[s].tic = table[s].tic]_vars
    BY DEF ClockStep
  <1> QED BY <1>1, <1>2, Starts, Keeps, PTL DEF Spec, ErrorStops

=============================================================================
