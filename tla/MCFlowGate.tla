----------------------------- MODULE MCFlowGate ----------------------------
(* FlowGate on small sets, for TLC. *)
EXTENDS FlowGate, TLC

CONSTANTS flowA, flowB, flowC, progP

\* Nothing tells the flows apart but where they go.
Symmetry == Permutations(Keys \ (Forwarder \cup Blocked))
=============================================================================
