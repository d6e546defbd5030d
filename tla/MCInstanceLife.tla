--------------------------- MODULE MCInstanceLife ---------------------------
(* InstanceLife on small sets, for TLC. *)
EXTENDS InstanceLife

CONSTANTS a, b, c
=============================================================================
