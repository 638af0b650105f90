----------------------------- MODULE MCFileBackend -----------------------------
(* TLC instance of FileBackend: two threads, of one process or of two. *)
EXTENDS FileBackend, TLC

CONSTANTS k1, k2, a1, a2, p1, p2

MCKeys == {k1, k2}
MCActors == {a1, a2}
MCProcs == {p1, p2}
MCPlacements == {(a1 :> p1) @@ (a2 :> p1), (a1 :> p1) @@ (a2 :> p2)}
Symmetry == Permutations(MCKeys)
================================================================================
