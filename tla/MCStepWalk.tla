----------------------------- MODULE MCStepWalk -----------------------------
(* Families of packages and bounds for checking StepWalk on five steps.    *)
EXTENDS StepWalk, WalkPackages

Five == 1..5

-----------------------------------------------------------------------------
(* Without a loop rule: every graph on five steps whose transitions lead   *)
(* from a lower to a higher step, all steps reachable from step 1; and the *)
(* same with one transition 4 -> 2 that points back.                       *)

Forward == {e \in Five \X Five : e[1] < e[2]}

Graphs == {F \in SUBSET Forward : \A s \in 2..5 : \E e \in F : e[2] = s}

Order(E, s) == SelectSeq(<<1, 2, 3, 4, 5>>, LAMBDA t : <<s, t>> \in E)

KindOf(joins) == [s \in Five |-> IF s \in joins THEN "join" ELSE "query"]

DagPackage(E, cond, joins) ==
    Compose(Five, 1, KindOf(joins), [s \in Five |-> Order(E, s)], cond, Dag(1))

JoinSets == {{}, {4}, {5}, {3, 5}, {4, 5}}

\* Each graph with all its transitions conditional and with none of them.
PackagesOn(graphs) ==
    {p \in UNION {{DagPackage(E, {}, J), DagPackage(E, E, J)} :
                     <<E, J>> \in graphs \X JoinSets} : JoinPolicy(p)}

JoinGraphs == PackagesOn(Graphs)

DagGraphs == JoinGraphs \cup PackagesOn({E \cup {<<4, 2>>} : E \in Graphs})

-----------------------------------------------------------------------------
(* Loops: 1, the body 2 3 4 closed by 4 -> 2, and 5 after it.              *)

Loop(type, count, delay, source) ==
    [type |-> type, entry |-> 2, tail |-> 4, body |-> {2, 3, 4},
     count |-> count, max |-> 3, delay |-> delay, source |-> source]

Chain == <<<<2>>, <<3>>, <<4>>, <<2, 5>>, <<>>>>

Body(k2, k3, k4) == <<"query", k2, k3, k4, "query">>

\* The body a chain of calls, with a create step, a form and a retried call.
ChainLoops(minting, asking) ==
    {[Compose(Five, 1, Body("query", "http", k4), Chain, cond, Loop(type, 2, delay, src))
        EXCEPT !.mints = minting, !.asks = asking, !.tries = [s \in Five |-> 2],
               !.backoff = backoff] :
        k4 \in {"wait", "operation"}, cond \in {{}, {<<4, 2>>, <<4, 5>>}},
        type \in {"for", "for_while", "for_each"}, delay \in BOOLEAN,
        src \in {1, 2}, backoff \in {{}, {3}}}

CreateLoops == ChainLoops({2, 5}, {})
FormLoops   == ChainLoops({}, {3})
ChainPackages == CreateLoops \cup FormLoops

\* The body's entry is a wait STEP and the loop pauses between passes.
DelayedWaitLoops ==
    {Compose(Five, 1, Body("wait", "query", "query"), Chain, {}, Loop("for", 2, TRUE, 1))}

=============================================================================
