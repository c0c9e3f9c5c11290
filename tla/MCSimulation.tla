---------------------------- MODULE MCSimulation ----------------------------
(* Two probabilities of different priorities.                              *)
EXTENDS SimulationSession

Ordered == [p \in Probs |-> IF p \in Homing THEN 1 ELSE 2]

=============================================================================
