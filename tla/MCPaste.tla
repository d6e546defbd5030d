------------------------------ MODULE MCPaste ------------------------------
\* Two instances with a launch in each.  Nothing tells the two apart: whatever
\* exchanges the instances and their launches together is a symmetry.
EXTENDS Paste, TLC
CONSTANTS l1, l2, i1, i2
MCInstanceOf == l1 :> i1 @@ l2 :> i2
MCExchanges  == {f \in Permutations(Launches \cup Instances) :
                   \A l \in Launches : f[l] \in Launches /\ MCInstanceOf[f[l]] = f[MCInstanceOf[l]]}
=============================================================================
