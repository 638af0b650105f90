------------------------------ MODULE LossyCache -------------------------------
(***************************************************************************)
(* What every in-process cache of cachekit promises its callers: it may    *)
(* forget any entry at any time, but what it still holds under a key is    *)
(* the value of the latest write of that key.  Forgotten or invalidated    *)
(* entries never come back by themselves.                                  *)
(***************************************************************************)
EXTENDS Naturals

CONSTANTS Keys, Absent

VARIABLES
    content,  \* content[k]: the write whose value is held under k, or Absent
    latest    \* latest[k]: how many writes and invalidations k has seen

lossyVars == <<content, latest>>

(* Every key but those of S keeps its value or loses it. *)
KeepsOrLoses(S) == \A k \in Keys \ S : content'[k] \in {content[k], Absent}

Init ==
    /\ content = [k \in Keys |-> Absent]
    /\ latest = [k \in Keys |-> 0]

(* A write of k: the value is held, or (too large) nothing is held any more. *)
Write(k) ==
    /\ latest' = [latest EXCEPT ![k] = @ + 1]
    /\ DOMAIN content' = Keys
    /\ content'[k] \in {latest[k] + 1, Absent}
    /\ KeepsOrLoses({k})

(* An invalidation of the keys of S. *)
Invalidate(S) ==
    /\ latest' = [k \in Keys |-> IF k \in S THEN latest[k] + 1 ELSE latest[k]]
    /\ DOMAIN content' = Keys
    /\ \A k \in S : content'[k] = Absent
    /\ KeepsOrLoses(S)

(* Expiry and eviction. *)
Lose ==
    /\ DOMAIN content' = Keys
    /\ KeepsOrLoses({})
    /\ UNCHANGED latest

Next ==
    \/ \E k \in Keys : Write(k)
    \/ \E S \in SUBSET Keys : Invalidate(S)
    \/ Lose

Spec == Init /\ [][Next]_lossyVars
================================================================================
