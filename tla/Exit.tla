-------------------------------- MODULE Exit --------------------------------
(***************************************************************************)
(* What a container's instance promises about its way out, with nothing of *)
(* how its keeper does it (docs/LEAK-MODEL.md, "Смена сети на ходу"): it   *)
(* is bound to one network at a time; it is bound to another only without  *)
(* a way out; and after that a way out opens only in an epoch begun since, *)
(* so that no socket of the network before can be in it.                   *)
(***************************************************************************)
EXTENDS Naturals

CONSTANTS Networks,   \* the networks an instance may be bound to
          Offline     \* the one of them that has no way out

VARIABLES bound,      \* the network it is bound to
          way,        \* whether it has a way out
          epoch,      \* the number of the epoch its way out lets through
          clean       \* whether its programs are all in that epoch

xvars == <<bound, way, epoch, clean>>

Init == /\ bound \in Networks
        /\ way = (bound # Offline)
        /\ epoch = 1
        /\ clean = TRUE

\* The way out is closed and the instance bound to a network in one step:
\* there is no state with the old way out and the new binding.
Rebind == /\ bound' \in Networks
          /\ ~way'
          /\ ~clean'
          /\ UNCHANGED epoch

\* A new epoch is being made: nothing opens until one is whole.
Begin == /\ ~way
         /\ ~clean'
         /\ UNCHANGED <<bound, way, epoch>>

\* The next epoch: whole, or left with programs or sockets unaccounted for.
Renew == /\ ~way
         /\ ~clean
         /\ epoch' = epoch + 1
         /\ clean' \in BOOLEAN
         /\ UNCHANGED <<bound, way>>

Open == /\ ~way
        /\ clean = TRUE
        /\ bound # Offline
        /\ way'
        /\ UNCHANGED <<bound, epoch, clean>>

Close == /\ way
         /\ ~way'
         /\ UNCHANGED <<bound, epoch, clean>>

Next == Rebind \/ Begin \/ Renew \/ Open \/ Close

Spec == Init /\ [][Next]_xvars
=============================================================================
