---------------------------- MODULE MCClipStore ----------------------------
(* ClipStore on small sets, for TLC. *)
EXTENDS ClipStore

CONSTANTS text
=============================================================================
