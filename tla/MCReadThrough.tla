---------------------------- MODULE MCReadThrough ------------------------------
(* TLC instance of ReadThrough: two tasks in one process, one in another. *)
EXTENDS ReadThrough, TLC

CONSTANTS p1, p2, c1, c2, c3

MCProcs == {p1, p2}
MCCalls == {c1, c2, c3}
MCCalls2 == {c1, c3}
MCProcOf == (c1 :> p1) @@ (c2 :> p1) @@ (c3 :> p2)
MCProcOf2 == (c1 :> p1) @@ (c3 :> p2)
Symmetry == Permutations({c1, c2})
================================================================================
