--------------------------- MODULE MCStrictQueue ---------------------------
(* StrictQueue on small sets, for TLC. *)
EXTENDS StrictQueue, TLC

CONSTANTS launchA, launchB, progA

\* Both launches are of one program, and the rules ask about it.
OneProgram == [l \in Launches |-> progA]
AskAll == [x \in Programs |-> "ask"]

\* Nothing tells the launches apart.
Symmetry == Permutations(Launches)
=============================================================================
