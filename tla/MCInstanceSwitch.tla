-------------------------- MODULE MCInstanceSwitch --------------------------
(* InstanceSwitch on small sets, for TLC. *)
EXTENDS InstanceSwitch, TLC

CONSTANTS nl, de, f1, f2, a, b

\* A switch the static rules refuse: out of a locked zone.
MCBarred == {<<de, nl>>}

\* Nothing tells one fingerprint from another, nor, where no switch is barred,
\* one zone from another.
MCSymmetry == Permutations(Fingerprints) \cup Permutations(Zones)
=============================================================================
