---- MODULE MCStaleRefresh ----
(* Two refreshes in one process and one in another, of one key; the storage *)
(* cap is 4 and a ttl below, at half and at the cap is asked for.           *)
EXTENDS StaleRefresh, TLC

CONSTANTS p1, p2, k1, j1, j2, j3

MCProcOf == (j1 :> p1) @@ (j2 :> p1) @@ (j3 :> p2)
Request(ttl, stale, default, async) ==
    [ttl |-> ttl, stale |-> stale, default |-> default, capable |-> TRUE, async |-> async]
MCRequests ==
    (p1 :> {Request(1, 3, FALSE, TRUE), Request(3, None, TRUE, FALSE)}) @@
    (p2 :> {Request(1, 3, FALSE, TRUE), Request(4, None, TRUE, TRUE)})
====
