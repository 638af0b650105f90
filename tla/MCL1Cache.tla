------------------------------- MODULE MCL1Cache -------------------------------
(* TLC instance of L1Cache: model values come from the cfg files. *)
EXTENDS L1Cache, TLC

CONSTANTS k1, k2, k3

MCKeys == {k1, k2, k3}
Symmetry == Permutations(MCKeys)
================================================================================
