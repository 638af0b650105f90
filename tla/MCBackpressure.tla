---------------------------- MODULE MCBackpressure -----------------------------
(* TLC instance of Backpressure: model values come from the cfg files. *)
EXTENDS Backpressure

CONSTANTS r1, r2, r3, r4

MCRequests == {r1, r2, r3, r4}
================================================================================
