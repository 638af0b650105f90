----------------------------- MODULE MCObjectCache -----------------------------
(* TLC instance of ObjectCache: model values come from the cfg files. *)
EXTENDS ObjectCache, TLC

CONSTANTS k1, k2, k3, a1, a2

MCKeys == {k1, k2, k3}
MCActors == {a1, a2}
Symmetry == Permutations(MCKeys) \cup Permutations(MCActors)
================================================================================
