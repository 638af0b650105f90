----------------------------- MODULE MCL1OnlyMode ------------------------------
(* TLC instance of L1OnlyMode: model values come from the cfg files. *)
EXTENDS L1OnlyMode

CONSTANTS k1, k2, a1, a2

MCKeys == {k1, k2}
MCActors == {a1, a2}
================================================================================
