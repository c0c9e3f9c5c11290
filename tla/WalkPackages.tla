---------------------------- MODULE WalkPackages ----------------------------
(***************************************************************************)
(* Builds packages for StepWalk from step graphs: what execution_compose   *)
(* would hand to the executor for a sequence drawn with these transitions. *)
(***************************************************************************)
EXTENDS Naturals, Sequences, FiniteSets, SequencesExt

\* No loop: the type `dag`.  `s` stands in the fields nobody reads.
Dag(s) == [type |-> "dag", entry |-> s, tail |-> s, body |-> {}, count |-> 0,
           max |-> 1, delay |-> FALSE, source |-> s]

\* The routes of step s: its unconditional targets are always among the passing
\* ones, each conditional one may be.  next[s] lists the targets in order.
RoutesOf(next, cond, kind, loop, s) ==
    LET isBack(t) == loop.type # "dag" /\ s = loop.tail /\ t = loop.entry
        always == {t \in ToSet(next[s]) : <<s, t>> \notin cond}
    IN  {[plain |-> SelectSeq(next[s],
                      LAMBDA t : t \in P /\ kind[t] # "join" /\ ~isBack(t)),
          joins |-> {t \in P : kind[t] = "join"},
          back |-> \E t \in P : isBack(t)] :
            P \in {Q \in SUBSET ToSet(next[s]) : always \subseteq Q}}

Compose(steps, first, kind, next, cond, loop) ==
    [first |-> first, kind |-> kind, next |-> [s \in steps |-> ToSet(next[s])],
     routes |-> [s \in steps |-> RoutesOf(next, cond, kind, loop, s)],
     asks |-> {}, mints |-> {}, tries |-> [s \in steps |-> 1],
     backoff |-> {}, loop |-> loop]
=============================================================================
