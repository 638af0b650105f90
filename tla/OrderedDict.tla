------------------------------ MODULE OrderedDict ------------------------------
(***************************************************************************)
(* The order of a collections.OrderedDict, as the two in-memory caches use *)
(* it: the sequence of its keys, the least recently used first.            *)
(***************************************************************************)
EXTENDS Integers, Sequences, FiniteSets

(* p lists the numbers of S in ascending order. *)
Ascending(p, S) ==
    /\ p \in [1..Cardinality(S) -> S]
    /\ \A m, n \in DOMAIN p : m < n => p[m] < p[n]

(* del d[k], for every key of S that is there: the others keep their order. *)
Without(s, S) ==
    LET kept  == {i \in DOMAIN s : s[i] \notin S}
        place == CHOOSE p \in [1..Cardinality(kept) -> kept] : Ascending(p, kept)
    IN  [n \in 1..Cardinality(kept) |-> s[place[n]]]

(* move_to_end(k), and the place a new key gets *)
MoveToEnd(s, k) == Append(Without(s, {k}), k)

(* j was used less recently than i. *)
Precedes(s, j, i) == \E m, n \in DOMAIN s : m < n /\ s[m] = j /\ s[n] = i
================================================================================
