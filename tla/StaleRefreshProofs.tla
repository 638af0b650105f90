-------------------------- MODULE StaleRefreshProofs ---------------------------
(***************************************************************************)
(* Proofs about StaleRefresh, for any finite sets of calls and keys, any   *)
(* processes, any accepted settings and any number of slots, cancellations *)
(* and forks.                                                              *)
(***************************************************************************)
EXTENDS StaleRefresh, FiniteSetTheorems, TLAPS

Phases == {"idle", "read", "checked", "scheduled", "leasing", "running", "storing", "leaving"}

JobStates ==
    [phase : Phases, key : Keys \cup {None}, found : Entries \cup {None},
     background : BOOLEAN, leased : BOOLEAN, expired : BOOLEAN]

Settings ==
    [ttl : Nat, stale : Nat \cup {None}, default : BOOLEAN, capable : BOOLEAN, async : BOOLEAN]

(* What never changes. *)
SetupOK ==
    /\ config \in [Procs -> Settings]
    /\ \A p \in Procs : Accepted(config[p])
    /\ limit \in Nat \ {0}

(* Which flags go with which phase of a call. *)
JobsInShape ==
    \A j \in Jobs :
        /\ job[j].phase # "idle" => job[j].key \in Keys
        /\ job[j].background =>
             job[j].phase \in {"scheduled", "leasing", "running", "storing", "leaving"}
        /\ job[j].phase \in {"scheduled", "leasing"} => job[j].background
        /\ job[j].leased =>
             job[j].background /\ job[j].phase \in {"running", "storing", "leaving"}
        /\ job[j].expired => job[j].leased

(* A process that is past the fork check owns what it claimed: a child      *)
(* starts without any of it.                                                *)
NoneInherited ==
    \A j \in Jobs : (job[j].background \/ job[j].phase = "checked") => ProcOf[j] \notin forked

(* Only threads can come between the two halves of _l2_swr_try_begin. *)
OnlyThreadsRace ==
    \A j \in Jobs : job[j].phase = "checked" => ~IsAsync(ProcOf[j])

(* Under an event loop every refresh has its key in _l2_swr_inflight, and   *)
(* so has every refresh that was cancelled too early; only a task can be.   *)
InflightCovers ==
    /\ \A j \in Jobs : job[j].background /\ IsAsync(ProcOf[j]) => job[j].key \in inflight[ProcOf[j]]
    /\ \A p \in Procs : IsAsync(p) => lost[p] \subseteq inflight[p]
    /\ \A j \in Jobs : job[j].background => job[j].key \notin lost[ProcOf[j]]
    /\ \A p \in Procs : ~IsAsync(p) => lost[p] = {}

(* The server's record of a lease and the refresh's belief about it agree   *)
(* until the lease times out.                                               *)
LeaseKnown ==
    /\ \A j \in Jobs : job[j].leased /\ ~job[j].expired => lease[job[j].key] = j
    /\ \A k \in Keys : lease[k] \in Jobs =>
         /\ job[lease[k]].leased /\ ~job[lease[k]].expired
         /\ job[lease[k]].key = k

(* The part of the invariant about the scheduler's two shared variables. *)
SchedInv ==
    /\ NoneInherited /\ OnlyThreadsRace
    /\ InflightCovers /\ AtMostOnePerKey /\ SlotsAccounted

IInv ==
    /\ TypeOK /\ SetupOK /\ job \in [Jobs -> JobStates]
    /\ JobsInShape /\ SchedInv /\ LeaseKnown
--------------------------------------------------------------------------------
(* The refreshes of a process, and the keys lost in it, can be counted. *)
LEMMA Countable ==
    ASSUME NEW p \in Procs, TypeOK
    PROVE  /\ IsFiniteSet(Claimed(p)) /\ Cardinality(Claimed(p)) \in Nat
           /\ IsFiniteSet(lost[p]) /\ Cardinality(lost[p]) \in Nat
<1>1. Claimed(p) \in SUBSET Jobs /\ lost[p] \in SUBSET Keys
  BY DEF Claimed, TypeOK
<1> QED
  BY <1>1, FS_Subset, FS_CardinalityType, StaleRefreshAssumption

(* The same after a step. *)
LEMMA CountableNext ==
    ASSUME NEW p \in Procs, TypeOK'
    PROVE  /\ IsFiniteSet(Claimed(p)') /\ Cardinality(Claimed(p)') \in Nat
           /\ IsFiniteSet(lost'[p]) /\ Cardinality(lost'[p]) \in Nat
<1>1. Claimed(p)' \in SUBSET Jobs /\ lost'[p] \in SUBSET Keys
  BY DEF Claimed, TypeOK
<1> QED
  BY <1>1, FS_Subset, FS_CardinalityType, StaleRefreshAssumption

(* A step that leaves the scheduler and every refresh's key alone. *)
LEMMA QuietSched ==
    ASSUME IInv, UNCHANGED <<setup, sched>>,
           \A i \in Jobs :
               /\ job'[i].background = job[i].background
               /\ job[i].background => job'[i].key = job[i].key
               /\ job'[i].phase = "checked" => job[i].phase = "checked"
    PROVE  SchedInv'
<1>1. \A p \in Procs : Claimed(p)' = Claimed(p)
  BY DEF Claimed
<1>2. NoneInherited' /\ OnlyThreadsRace'
  BY StaleRefreshAssumption DEF IInv, SchedInv, NoneInherited, OnlyThreadsRace, IsAsync, sched, setup
<1>3. InflightCovers'
  BY StaleRefreshAssumption DEF IInv, SchedInv, InflightCovers, sched, setup, IsAsync
<1>4. AtMostOnePerKey'
  BY StaleRefreshAssumption DEF IInv, SchedInv, AtMostOnePerKey, sched, setup, IsAsync
<1>5. SlotsAccounted'
  BY <1>1 DEF IInv, SchedInv, SlotsAccounted, sched, setup
<1> QED
  BY <1>2, <1>3, <1>4, <1>5 DEF SchedInv

(* _l2_swr_end: one refresh fewer, its key and its permit given back. *)
LEMMA EndSched ==
    ASSUME IInv, NEW j \in Jobs, job[j].background, End(j), UNCHANGED setup
    PROVE  SchedInv' /\ slots' \in [Procs -> 0..limit]
<1> DEFINE q == ProcOf[j]
<1>1. q \in Procs /\ q \notin forked /\ job[j].key \in Keys
  BY StaleRefreshAssumption DEF IInv, SchedInv, NoneInherited, JobsInShape
<1>2. /\ \A i \in Jobs : i # j => job'[i] = job[i]
      /\ ~job'[j].background /\ job'[j].phase = "idle"
      /\ UNCHANGED <<forked, lost, config, limit>>
      /\ \A p \in Procs : p # q => slots'[p] = slots[p] /\ inflight'[p] = inflight[p]
      /\ slots'[q] = slots[q] + 1 /\ inflight'[q] = inflight[q] \ {job[j].key}
  BY <1>1 DEF IInv, TypeOK, End, Drop, Nothing, setup
<1>3. \A p \in Procs : p # q => Claimed(p)' = Claimed(p)
  BY <1>2 DEF Claimed
<1>4. Claimed(q)' = Claimed(q) \ {j} /\ j \in Claimed(q)
  BY <1>2 DEF Claimed
<1>5. Cardinality(Claimed(q)') = Cardinality(Claimed(q)) - 1
  <2>1. IsFiniteSet(Claimed(q))
    BY <1>1, Countable DEF IInv
  <2> QED
    BY <1>4, <2>1, FS_RemoveElement
<1>6. Cardinality(Claimed(q)') \in Nat
  <2>1. IsFiniteSet(Claimed(q)')
    BY <1>1, <1>4, Countable, FS_RemoveElement DEF IInv
  <2> QED
    BY <2>1, FS_CardinalityType
<1>7. slots[q] \in 0..limit /\ limit \in Nat
      /\ slots[q] + Cardinality(Claimed(q)) + Cardinality(lost[q]) = limit
  BY <1>1 DEF IInv, SchedInv, SlotsAccounted, TypeOK, SetupOK
<1>8. Cardinality(lost[q]) \in Nat /\ Cardinality(Claimed(q)) \in Nat
  BY <1>1, Countable DEF IInv
<1>9. slots'[q] + Cardinality(Claimed(q)') + Cardinality(lost[q]) = limit /\ slots'[q] \in 0..limit
  BY <1>2, <1>5, <1>6, <1>7, <1>8
<1>10. SlotsAccounted'
  BY <1>2, <1>3, <1>9 DEF IInv, SchedInv, SlotsAccounted
<1>11. NoneInherited' /\ OnlyThreadsRace'
  BY <1>2 DEF IInv, SchedInv, NoneInherited, OnlyThreadsRace, IsAsync, setup
<1>12. AtMostOnePerKey'
  BY <1>2 DEF IInv, SchedInv, AtMostOnePerKey, IsAsync
<1>13. InflightCovers'
  <2>1. \A i \in Jobs : job'[i].background => i # j /\ job'[i] = job[i] /\ ProcOf[i] \in Procs
    BY <1>2, StaleRefreshAssumption
  <2>2. \A i \in Jobs : i # j /\ job[i].background /\ IsAsync(ProcOf[i]) /\ ProcOf[i] = q =>
          job[i].key # job[j].key
    BY DEF IInv, SchedInv, AtMostOnePerKey
  <2>3. \A p \in Procs : IsAsync(p)' = IsAsync(p)
    BY <1>2 DEF IsAsync
  <2>4. \A i \in Jobs : (job'[i].background /\ IsAsync(ProcOf[i])') =>
           job'[i].key \in inflight'[ProcOf[i]]
    BY <1>2, <2>1, <2>2, <2>3 DEF IInv, SchedInv, InflightCovers
  <2>5. \A p \in Procs : IsAsync(p)' => lost'[p] \subseteq inflight'[p]
    BY <1>1, <1>2, <2>3 DEF IInv, SchedInv, InflightCovers
  <2>6. \A i \in Jobs : job'[i].background => job'[i].key \notin lost'[ProcOf[i]]
    BY <1>2, <2>1 DEF IInv, SchedInv, InflightCovers
  <2> QED
    BY <1>2, <2>3, <2>4, <2>5, <2>6 DEF IInv, SchedInv, InflightCovers
<1>14. slots' \in [Procs -> 0..limit]
  BY <1>9 DEF IInv, TypeOK, End
<1> QED
  BY <1>10, <1>11, <1>12, <1>13, <1>14 DEF SchedInv

(* The fork check at the head of _l2_swr_try_begin: whatever the process   *)
(* inherited is dropped, and nothing it claimed itself is.                 *)
LEMMA StartOverSched ==
    ASSUME IInv, NEW q \in Procs, NEW keys \in SUBSET Keys, NEW n \in Nat,
           StartOver(q, keys, n), SlotsSeen(q) >= n
    PROVE  /\ \A p \in Procs : p # q => /\ slots'[p] = slots[p] /\ inflight'[p] = inflight[p]
                                        /\ lost'[p] = lost[p]
           /\ forked' = forked \ {q}
           /\ inflight'[q] = InflightSeen(q) \cup keys
           /\ slots'[q] + n + Cardinality(Claimed(q)) + Cardinality(lost'[q]) = limit
           /\ inflight' \in [Procs -> SUBSET Keys] /\ lost' \in [Procs -> SUBSET Keys]
           /\ slots' \in [Procs -> 0..limit]
           /\ lost'[q] = (IF q \in forked THEN {} ELSE lost[q])
           /\ q \in forked => Claimed(q) = {}
<1>1. /\ slots \in [Procs -> 0..limit] /\ inflight \in [Procs -> SUBSET Keys]
      /\ lost \in [Procs -> SUBSET Keys] /\ limit \in Nat
  BY DEF IInv, TypeOK, SetupOK
<1>2. /\ \A p \in Procs : p # q => /\ slots'[p] = slots[p] /\ inflight'[p] = inflight[p]
                                   /\ lost'[p] = lost[p]
      /\ forked' = forked \ {q}
      /\ inflight'[q] = InflightSeen(q) \cup keys
      /\ inflight' \in [Procs -> SUBSET Keys] /\ lost' \in [Procs -> SUBSET Keys]
      /\ lost'[q] = (IF q \in forked THEN {} ELSE lost[q])
  BY <1>1 DEF StartOver, InflightSeen
<1>3. slots' \in [Procs -> 0..limit] /\ slots'[q] = SlotsSeen(q) - n
  BY <1>1 DEF StartOver, SlotsSeen
<1>4. q \in forked => Claimed(q) = {}
  BY DEF IInv, SchedInv, NoneInherited, Claimed
<1>5. Cardinality(Claimed(q)) \in Nat /\ Cardinality(lost[q]) \in Nat
  BY Countable DEF IInv
<1>6. CASE q \in forked
  <2>1. Cardinality(Claimed(q)) = 0 /\ Cardinality(lost'[q]) = 0
    BY <1>2, <1>4, <1>6, FS_EmptySet
  <2> QED
    BY <1>1, <1>2, <1>3, <1>4, <1>6, <2>1 DEF SlotsSeen
<1>7. CASE q \notin forked
  <2>1. slots[q] + Cardinality(Claimed(q)) + Cardinality(lost[q]) = limit
    BY <1>7 DEF IInv, SchedInv, SlotsAccounted
  <2>2. slots[q] \in Nat /\ slots'[q] = slots[q] - n
    BY <1>1, <1>3, <1>7 DEF SlotsSeen
  <2>3. slots'[q] + n + Cardinality(Claimed(q)) + Cardinality(lost'[q]) = limit
    BY <1>1, <1>2, <1>5, <1>7, <2>1, <2>2
  <2> QED
    BY <1>2, <1>3, <1>4, <2>3
<1> QED
  BY <1>6, <1>7

(* Refused, or about to race for a permit: nothing is claimed. *)
LEMMA NotClaimedSched ==
    ASSUME IInv, NEW j \in Jobs, job[j].phase = "read", StartOver(ProcOf[j], {}, 0),
           UNCHANGED setup,
           \A i \in Jobs : i # j => job'[i] = job[i],
           ~job'[j].background, job'[j].phase = "checked" => ~IsAsync(ProcOf[j])
    PROVE  SchedInv'
<1> DEFINE q == ProcOf[j]
<1>1. q \in Procs /\ ~job[j].background /\ limit \in Nat
  BY StaleRefreshAssumption DEF IInv, JobsInShape, SetupOK
<1>2. SlotsSeen(q) >= 0
  BY <1>1 DEF SlotsSeen, IInv, TypeOK
<1>3. /\ \A p \in Procs : p # q => /\ slots'[p] = slots[p] /\ inflight'[p] = inflight[p]
                                   /\ lost'[p] = lost[p]
      /\ forked' = forked \ {q}
      /\ inflight'[q] = InflightSeen(q) \cup {}
      /\ slots'[q] + 0 + Cardinality(Claimed(q)) + Cardinality(lost'[q]) = limit
      /\ slots' \in [Procs -> 0..limit]
      /\ lost'[q] = (IF q \in forked THEN {} ELSE lost[q])
      /\ q \in forked => Claimed(q) = {}
  <2>1. {} \in SUBSET Keys /\ 0 \in Nat /\ StartOver(q, {}, 0)
    OBVIOUS
  <2> QED
    BY <1>1, <1>2, <2>1, StartOverSched
<1>4. \A p \in Procs : Claimed(p)' = Claimed(p)
  BY <1>1 DEF Claimed
<1>5. /\ \A i \in Jobs : job'[i].background => job'[i] = job[i] /\ job[i].background
      /\ \A i \in Jobs : job'[i].background /\ ProcOf[i] = q => q \notin forked
      /\ \A p \in Procs : IsAsync(p)' = IsAsync(p)
      /\ limit' = limit
  BY <1>1, <1>3 DEF Claimed, IsAsync, setup
<1>6. NoneInherited' /\ OnlyThreadsRace'
  BY <1>1, <1>3 DEF IInv, SchedInv, NoneInherited, OnlyThreadsRace, IsAsync, setup
<1>7. AtMostOnePerKey'
  BY <1>5, StaleRefreshAssumption DEF IInv, SchedInv, AtMostOnePerKey
<1>8. SlotsAccounted'
  <2>1. slots'[q] + Cardinality(Claimed(q)) + Cardinality(lost'[q]) = limit
    BY <1>1, <1>3
  <2> QED
    BY <1>3, <1>4, <1>5, <2>1 DEF IInv, SchedInv, SlotsAccounted
<1>9. InflightCovers'
  <2>1. \A i \in Jobs : (job'[i].background /\ IsAsync(ProcOf[i])') =>
           job'[i].key \in inflight'[ProcOf[i]]
    BY <1>1, <1>3, <1>5, StaleRefreshAssumption DEF IInv, SchedInv, InflightCovers, InflightSeen
  <2>2. \A p \in Procs : IsAsync(p)' => lost'[p] \subseteq inflight'[p]
    BY <1>1, <1>3, <1>5 DEF IInv, SchedInv, InflightCovers, InflightSeen
  <2>3. \A i \in Jobs : job'[i].background => job'[i].key \notin lost'[ProcOf[i]]
    BY <1>1, <1>3, <1>5, StaleRefreshAssumption DEF IInv, SchedInv, InflightCovers
  <2>4. \A p \in Procs : ~IsAsync(p)' => lost'[p] = {}
    BY <1>1, <1>3, <1>5 DEF IInv, SchedInv, InflightCovers
  <2> QED
    BY <2>1, <2>2, <2>3, <2>4 DEF InflightCovers
<1> QED
  BY <1>6, <1>7, <1>8, <1>9 DEF SchedInv

(* A refresh takes a permit and puts its key in flight.  Under an event    *)
(* loop the key was not there.                                             *)
LEMMA ClaimSched ==
    ASSUME IInv, NEW j \in Jobs, NEW q \in Procs, q = ProcOf[j],
           ~job[j].background, job[j].key \in Keys,
           job'[j].background, job'[j].key = job[j].key, job'[j].phase # "checked",
           \A i \in Jobs : i # j => job'[i] = job[i],
           UNCHANGED setup,
           \A p \in Procs : p # q => /\ slots'[p] = slots[p] /\ inflight'[p] = inflight[p]
                                     /\ lost'[p] = lost[p],
           forked' = forked \ {q},
           inflight'[q] = InflightSeen(q) \cup {job[j].key},
           slots' \in [Procs -> 0..limit],
           slots'[q] + 1 + Cardinality(Claimed(q)) + Cardinality(lost'[q]) = limit,
           Cardinality(lost'[q]) \in Nat,
           lost'[q] = (IF q \in forked THEN {} ELSE lost[q]),
           q \in forked => Claimed(q) = {},
           IsAsync(q) => job[j].key \notin InflightSeen(q)
    PROVE  SchedInv'
<1>1. limit \in Nat
  BY DEF IInv, SetupOK
<1>2. \A p \in Procs : p # q => Claimed(p)' = Claimed(p)
  BY DEF Claimed
<1>3. Claimed(q)' = Claimed(q) \cup {j} /\ j \notin Claimed(q)
  BY DEF Claimed
<1>4. Cardinality(Claimed(q)') = Cardinality(Claimed(q)) + 1 /\ Cardinality(Claimed(q)) \in Nat
  <2>1. IsFiniteSet(Claimed(q)) /\ Cardinality(Claimed(q)) \in Nat
    BY Countable DEF IInv
  <2>2. Cardinality(Claimed(q) \cup {j}) =
          IF j \in Claimed(q) THEN Cardinality(Claimed(q)) ELSE Cardinality(Claimed(q)) + 1
    BY <2>1, FS_AddElement
  <2> QED
    BY <1>3, <2>1, <2>2
<1>5. /\ \A p \in Procs : IsAsync(p)' = IsAsync(p)
      /\ limit' = limit
  BY DEF IsAsync, setup
<1>6. \A i \in Jobs : job'[i].background /\ i # j =>
        job'[i] = job[i] /\ job[i].background /\ (ProcOf[i] = q => q \notin forked)
  BY DEF Claimed
<1>7. NoneInherited' /\ OnlyThreadsRace'
  BY DEF IInv, SchedInv, NoneInherited, OnlyThreadsRace, IsAsync, setup
<1>8. SlotsAccounted'
  <2>1. slots'[q] \in Nat
    BY <1>1
  <2>2. slots'[q] + Cardinality(Claimed(q)') + Cardinality(lost'[q]) = limit
    BY <1>1, <1>4, <2>1
  <2> QED
    BY <1>2, <1>5, <2>2 DEF IInv, SchedInv, SlotsAccounted
<1>9. AtMostOnePerKey'
  <2>1. \A i \in Jobs : (i # j /\ job'[i].background /\ ProcOf[i] = q /\ IsAsync(q)) =>
          job'[i].key # job'[j].key
    BY <1>6 DEF IInv, SchedInv, InflightCovers, InflightSeen
  <2>2. \A i, h \in Jobs : (i # h /\ i # j /\ h # j /\ ProcOf[i] = ProcOf[h] /\ IsAsync(ProcOf[i])
          /\ job'[i].background /\ job'[h].background) => job'[i].key # job'[h].key
    BY <1>6 DEF IInv, SchedInv, AtMostOnePerKey
  <2> QED
    BY <1>5, <2>1, <2>2, StaleRefreshAssumption DEF AtMostOnePerKey
<1>10. InflightCovers'
  <2>1. \A i \in Jobs : (job'[i].background /\ IsAsync(ProcOf[i])') =>
           job'[i].key \in inflight'[ProcOf[i]]
    BY <1>5, <1>6, StaleRefreshAssumption DEF IInv, SchedInv, InflightCovers, InflightSeen
  <2>2. \A p \in Procs : IsAsync(p)' => lost'[p] \subseteq inflight'[p]
    BY <1>5 DEF IInv, SchedInv, InflightCovers, InflightSeen
  <2>3. \A i \in Jobs : job'[i].background => job'[i].key \notin lost'[ProcOf[i]]
    <3>1. job'[j].key \notin lost'[q]
      BY DEF IInv, SchedInv, InflightCovers, InflightSeen
    <3> QED
      BY <1>6, <3>1, StaleRefreshAssumption DEF IInv, SchedInv, InflightCovers
  <2>4. \A p \in Procs : ~IsAsync(p)' => lost'[p] = {}
    BY <1>5 DEF IInv, SchedInv, InflightCovers
  <2> QED
    BY <2>1, <2>2, <2>3, <2>4 DEF InflightCovers
<1> QED
  BY <1>7, <1>8, <1>9, <1>10 DEF SchedInv

(* A task cancelled before its first step: its key and its permit are lost. *)
LEMMA CancelEarlySched ==
    ASSUME IInv, NEW j \in Jobs, CancelEarly(j)
    PROVE  SchedInv' /\ lost' \in [Procs -> SUBSET Keys]
<1> DEFINE q == ProcOf[j]
           k == job[j].key
<1>1. q \in Procs /\ job[j].background /\ k \in Keys /\ IsAsync(q)
  BY StaleRefreshAssumption DEF IInv, JobsInShape, CancelEarly, InPhase
<1>2. /\ \A i \in Jobs : i # j => job'[i] = job[i]
      /\ ~job'[j].background /\ job'[j].phase = "idle"
      /\ UNCHANGED <<forked, slots, inflight, config, limit>>
      /\ \A p \in Procs : p # q => lost'[p] = lost[p]
      /\ lost'[q] = lost[q] \cup {k}
      /\ lost' \in [Procs -> SUBSET Keys]
  BY <1>1 DEF IInv, TypeOK, CancelEarly, Drop, Nothing, setup
<1>3. q \notin forked /\ k \notin lost[q] /\ k \in inflight[q]
  BY <1>1 DEF IInv, SchedInv, NoneInherited, InflightCovers
<1>4. \A p \in Procs : p # q => Claimed(p)' = Claimed(p)
  BY <1>2 DEF Claimed
<1>5. Claimed(q)' = Claimed(q) \ {j} /\ j \in Claimed(q)
  BY <1>1, <1>2 DEF Claimed
<1>6. /\ IsFiniteSet(Claimed(q)) /\ Cardinality(Claimed(q)) \in Nat
      /\ IsFiniteSet(lost[q]) /\ Cardinality(lost[q]) \in Nat
  BY <1>1, Countable DEF IInv
<1>7. Cardinality(Claimed(q)') = Cardinality(Claimed(q)) - 1
  BY <1>5, <1>6, FS_RemoveElement
<1>8. Cardinality(lost'[q]) = Cardinality(lost[q]) + 1
  <2>1. Cardinality(lost[q] \cup {k}) =
          IF k \in lost[q] THEN Cardinality(lost[q]) ELSE Cardinality(lost[q]) + 1
    BY <1>6, FS_AddElement
  <2> QED
    BY <1>2, <1>3, <2>1
<1>9. SlotsAccounted'
  <2>1. slots[q] + Cardinality(Claimed(q)) + Cardinality(lost[q]) = limit /\ slots[q] \in Nat
    BY <1>1, <1>3 DEF IInv, SchedInv, SlotsAccounted, TypeOK, SetupOK
  <2>2. slots[q] + Cardinality(Claimed(q)') + Cardinality(lost'[q]) = limit
    BY <1>6, <1>7, <1>8, <2>1
  <2> QED
    BY <1>2, <1>4, <2>2 DEF IInv, SchedInv, SlotsAccounted
<1>10. NoneInherited' /\ OnlyThreadsRace'
  BY <1>2 DEF IInv, SchedInv, NoneInherited, OnlyThreadsRace, IsAsync, setup
<1>11. AtMostOnePerKey'
  BY <1>2 DEF IInv, SchedInv, AtMostOnePerKey, IsAsync
<1>12. InflightCovers'
  <2>1. \A p \in Procs : IsAsync(p)' = IsAsync(p)
    BY <1>2 DEF IsAsync
  <2>2. \A i \in Jobs : job'[i].background => i # j /\ job'[i] = job[i] /\ ProcOf[i] \in Procs
    BY <1>2, StaleRefreshAssumption
  <2>3. \A i \in Jobs : (job'[i].background /\ IsAsync(ProcOf[i])') =>
           job'[i].key \in inflight'[ProcOf[i]]
    BY <1>2, <2>1, <2>2 DEF IInv, SchedInv, InflightCovers
  <2>4. \A p \in Procs : IsAsync(p)' => lost'[p] \subseteq inflight'[p]
    BY <1>2, <1>3, <2>1 DEF IInv, SchedInv, InflightCovers
  <2>5. \A i \in Jobs : i # j /\ job[i].background /\ ProcOf[i] = q => job[i].key # k
    BY <1>1 DEF IInv, SchedInv, AtMostOnePerKey
  <2>6. \A i \in Jobs : job'[i].background => job'[i].key \notin lost'[ProcOf[i]]
    BY <1>2, <2>2, <2>5 DEF IInv, SchedInv, InflightCovers
  <2>7. \A p \in Procs : ~IsAsync(p)' => lost'[p] = {}
    BY <1>1, <1>2, <2>1 DEF IInv, SchedInv, InflightCovers
  <2> QED
    BY <2>3, <2>4, <2>6, <2>7 DEF InflightCovers
<1> QED
  BY <1>2, <1>9, <1>10, <1>11, <1>12 DEF SchedInv

(* A fork: the child has none of its parent's calls. *)
LEMMA ForkSched ==
    ASSUME IInv, NEW q \in Procs, Fork(q)
    PROVE  SchedInv'
<1>1. /\ \A i \in Jobs : ProcOf[i] # q => job'[i] = job[i]
      /\ \A i \in Jobs : ProcOf[i] = q => ~job'[i].background /\ job'[i].phase = "idle"
      /\ UNCHANGED <<slots, inflight, lost, config, limit>>
      /\ forked' = forked \cup {q}
  BY DEF Fork, setup, Nothing
<1>2. \A p \in Procs : p # q => Claimed(p)' = Claimed(p)
  BY <1>1 DEF Claimed
<1>3. SlotsAccounted'
  BY <1>1, <1>2 DEF IInv, SchedInv, SlotsAccounted
<1>4. NoneInherited' /\ OnlyThreadsRace'
  BY <1>1 DEF IInv, SchedInv, NoneInherited, OnlyThreadsRace, IsAsync, setup
<1>5. AtMostOnePerKey'
  BY <1>1 DEF IInv, SchedInv, AtMostOnePerKey, IsAsync
<1>6. InflightCovers'
  BY <1>1 DEF IInv, SchedInv, InflightCovers, IsAsync
<1> QED
  BY <1>3, <1>4, <1>5, <1>6 DEF SchedInv
--------------------------------------------------------------------------------
(* A step that leaves the leases alone, or leaves one behind for nobody. *)
LEMMA LeaseQuiet ==
    ASSUME IInv,
           \A i \in Jobs : /\ job'[i].leased = job[i].leased
                           /\ job[i].leased => /\ job'[i].key = job[i].key
                                               /\ job'[i].expired = job[i].expired,
           \A k \in Keys : lease'[k] = lease[k] \/ (lease[k] = None /\ lease'[k] = "orphan")
    PROVE  LeaseKnown'
<1>1. \A i \in Jobs : job[i].leased => job[i].key \in Keys
  BY DEF IInv, JobsInShape
<1>2. \A i \in Jobs : job'[i].leased /\ ~job'[i].expired => lease'[job'[i].key] = i
  BY <1>1, StaleRefreshAssumption DEF IInv, LeaseKnown
<1>3. \A k \in Keys : lease'[k] \in Jobs =>
         /\ job'[lease'[k]].leased /\ ~job'[lease'[k]].expired
         /\ job'[lease'[k]].key = k
  BY StaleRefreshAssumption DEF IInv, LeaseKnown
<1> QED
  BY <1>2, <1>3 DEF LeaseKnown

(* The invariant from its parts. *)
LEMMA Compose ==
    ASSUME IInv, UNCHANGED setup,
           server' \in [Keys -> Entries \cup {None}],
           lease' \in [Keys -> Jobs \cup {"orphan", None}],
           job' \in [Jobs -> JobStates],
           inflight' \in [Procs -> SUBSET Keys], lost' \in [Procs -> SUBSET Keys],
           slots' \in [Procs -> 0..limit],
           forked' \subseteq Procs,
           late' \subseteq [key : Keys, entry : Entries],
           JobsInShape', SchedInv', LeaseKnown'
    PROVE  IInv'
<1>1. SetupOK'
  BY DEF IInv, SetupOK, setup, Accepted
<1>2. \A i \in Jobs : job'[i] \in JobStates
  OBVIOUS
<1>3. TypeOK'
  BY <1>2 DEF TypeOK, JobStates, Phases, setup
<1> QED
  BY <1>1, <1>3 DEF IInv

(* A step of one call that claims nothing and gives nothing back. *)
LEMMA QuietStep ==
    ASSUME IInv, NEW j \in Jobs, UNCHANGED <<setup, sched>>,
           NEW r \in JobStates, job' = [job EXCEPT ![j] = r],
           server' \in [Keys -> Entries \cup {None}],
           lease' \in [Keys -> Jobs \cup {"orphan", None}],
           late' \subseteq [key : Keys, entry : Entries],
           \A k \in Keys : lease'[k] = lease[k] \/ (lease[k] = None /\ lease'[k] = "orphan"),
           r.background = job[j].background, r.leased = job[j].leased,
           r.expired = job[j].expired,
           r.background => r.key = job[j].key,
           r.phase # "checked",
           r.phase # "idle" => r.key \in Keys,
           r.background => r.phase \in {"scheduled", "leasing", "running", "storing", "leaving"},
           r.phase \in {"scheduled", "leasing"} => r.background,
           r.leased => r.phase \in {"running", "storing", "leaving"}
    PROVE  IInv'
<1>1. /\ job' \in [Jobs -> JobStates] /\ job'[j] = r
      /\ \A i \in Jobs : i # j => job'[i] = job[i]
  BY DEF IInv
<1>2. JobsInShape'
  BY <1>1 DEF IInv, JobsInShape
<1>3. SchedInv'
  BY <1>1, QuietSched
<1>4. job[j].leased => job[j].background
  BY DEF IInv, JobsInShape
<1>5. LeaseKnown'
  BY <1>1, <1>4, LeaseQuiet
<1>6. /\ inflight' \in [Procs -> SUBSET Keys] /\ lost' \in [Procs -> SUBSET Keys]
      /\ slots' \in [Procs -> 0..limit] /\ forked' \subseteq Procs
  BY DEF sched, IInv, TypeOK
<1> QED
  BY <1>1, <1>2, <1>3, <1>5, <1>6, Compose

(* A call that only moves on. *)
LEMMA GotoStep ==
    ASSUME IInv, NEW j \in Jobs, UNCHANGED <<setup, sched>>,
           NEW ph \in {"leasing", "running", "storing", "leaving"}, Goto(j, ph),
           server' \in [Keys -> Entries \cup {None}],
           lease' \in [Keys -> Jobs \cup {"orphan", None}],
           late' \subseteq [key : Keys, entry : Entries],
           \A k \in Keys : lease'[k] = lease[k] \/ (lease[k] = None /\ lease'[k] = "orphan"),
           job[j].phase # "idle",
           ph = "leasing" => job[j].background /\ ~job[j].leased
    PROVE  IInv'
<1> DEFINE r == [job[j] EXCEPT !.phase = ph]
<1>1. job[j] \in JobStates /\ job[j].key \in Keys
  BY DEF IInv, JobsInShape
<1>2. /\ r \in JobStates /\ r.phase = ph /\ r.key = job[j].key
      /\ r.background = job[j].background /\ r.leased = job[j].leased
      /\ r.expired = job[j].expired
  BY <1>1 DEF JobStates, Phases
<1>3. job' = [job EXCEPT ![j] = r]
  BY DEF Goto, IInv
<1> HIDE DEF r
<1> QED
  BY <1>1, <1>2, <1>3, QuietStep

(* A call that returns, having claimed nothing. *)
LEMMA DropStep ==
    ASSUME IInv, NEW j \in Jobs, UNCHANGED <<setup, sched, remote, late>>, Drop(j),
           ~job[j].background
    PROVE  IInv'
<1>1. /\ Nothing \in JobStates /\ Nothing.phase = "idle" /\ ~Nothing.background
      /\ ~Nothing.leased /\ ~Nothing.expired
  BY DEF Nothing, JobStates, Phases
<1>2. job' = [job EXCEPT ![j] = Nothing]
  BY DEF Drop
<1>3. ~job[j].leased /\ ~job[j].expired
  BY DEF IInv, JobsInShape
<1>4. /\ job[j].background = FALSE /\ job[j].leased = FALSE /\ job[j].expired = FALSE
      /\ Nothing.background = FALSE /\ Nothing.leased = FALSE /\ Nothing.expired = FALSE
  BY <1>3 DEF IInv, JobStates, Nothing
<1>5. /\ server' \in [Keys -> Entries \cup {None}]
      /\ lease' \in [Keys -> Jobs \cup {"orphan", None}]
      /\ late' \subseteq [key : Keys, entry : Entries] /\ UNCHANGED <<setup, sched>>
      /\ \A k \in Keys : lease'[k] = lease[k]
  BY DEF IInv, TypeOK, remote
<1> HIDE DEF Nothing
<1> QED
  BY <1>1, <1>2, <1>4, <1>5, QuietStep

(* The call goes to the server ... *)
LEMMA ReadInv ==
    ASSUME IInv, NEW j \in Jobs, NEW k \in Keys, Read(j, k)
    PROVE  IInv'
<1>1. PICK found \in Fetched(k) :
         job' = [job EXCEPT ![j] = [Nothing EXCEPT !.phase = "read", !.key = k, !.found = found]]
  BY DEF Read
<1> DEFINE r == [Nothing EXCEPT !.phase = "read", !.key = k, !.found = found]
<1>2. found \in Entries \cup {None}
  BY DEF Fetched, IInv, TypeOK
<1>3. /\ r \in JobStates /\ r.phase = "read" /\ r.key = k
      /\ r.background = FALSE /\ r.leased = FALSE /\ r.expired = FALSE
  BY <1>2 DEF JobStates, Phases, Nothing
<1>4. job[j].background = FALSE /\ job[j].leased = FALSE /\ job[j].expired = FALSE
  BY DEF IInv, JobsInShape, JobStates, Read, InPhase
<1>5. /\ server' \in [Keys -> Entries \cup {None}]
      /\ lease' \in [Keys -> Jobs \cup {"orphan", None}]
      /\ late' \subseteq [key : Keys, entry : Entries] /\ UNCHANGED <<setup, sched>>
      /\ \A kk \in Keys : lease'[kk] = lease[kk]
  BY DEF IInv, TypeOK, remote, Read
<1>6. job' = [job EXCEPT ![j] = r]
  BY <1>1
<1> HIDE DEF r
<1> QED
  BY <1>3, <1>4, <1>5, <1>6, QuietStep

(* ... and what it does by itself until a claim, after one, and at its end. *)
LEMMA QuietActionsInv ==
    ASSUME IInv, NEW j \in Jobs,
           \/ ServeFresh(j) \/ Missed(j) \/ Start(j) \/ RunFunc(j) \/ FuncFails(j) \/ WriteL2(j)
    PROVE  IInv'
<1>0. /\ server \in [Keys -> Entries \cup {None}]
      /\ lease \in [Keys -> Jobs \cup {"orphan", None}]
      /\ late \subseteq [key : Keys, entry : Entries]
  BY DEF IInv, TypeOK
<1>1. CASE ServeFresh(j)
  <2>1. ~job[j].background
    BY <1>1 DEF ServeFresh, InPhase, IInv, JobsInShape
  <2> QED
    BY <1>1, <2>1, DropStep DEF ServeFresh
<1>2. CASE Missed(j)
  BY <1>0, <1>2, GotoStep DEF Missed, InPhase, remote
<1>3. CASE Start(j)
  <2>1. job[j].background /\ ~job[j].leased /\ job[j].phase = "scheduled"
    BY <1>3 DEF Start, InPhase, IInv, JobsInShape
  <2> QED
    BY <1>0, <1>3, <2>1, GotoStep DEF Start, remote
<1>4. CASE RunFunc(j)
  BY <1>0, <1>4, GotoStep DEF RunFunc, InPhase, remote
<1>5. CASE FuncFails(j)
  BY <1>0, <1>5, GotoStep DEF FuncFails, InPhase, remote
<1>6. CASE WriteL2(j)
  <2>1. server' \in [Keys -> Entries \cup {None}]
    <3>1. job[j].key \in Keys /\ Fresh(SwrActive(ProcOf[j])) \in Entries
      BY <1>6 DEF WriteL2, InPhase, IInv, JobsInShape, Fresh, SwrActive, Entries
    <3> QED
      BY <1>0, <1>6, <3>1 DEF WriteL2, Attempt, Written
  <2> QED
    BY <1>0, <1>6, <2>1, GotoStep DEF WriteL2, InPhase
<1> QED
  BY <1>1, <1>2, <1>3, <1>4, <1>5, <1>6

(* A cancelled task leaves in order. *)
LEMMA CancelInv ==
    ASSUME IInv, NEW j \in Jobs, Cancel(j)
    PROVE  IInv'
<1>0. /\ server \in [Keys -> Entries \cup {None}]
      /\ lease \in [Keys -> Jobs \cup {"orphan", None}]
      /\ late \subseteq [key : Keys, entry : Entries]
      /\ job[j].key \in Keys /\ job[j].phase # "idle"
  BY DEF IInv, TypeOK, JobsInShape, Cancel
<1>1. Written(j)[job[j].key] \in Entries
  BY <1>0 DEF Written, Fresh, SwrActive, Entries
<1>2. late' \subseteq [key : Keys, entry : Entries]
  BY <1>0, <1>1 DEF Cancel
<1>3. /\ lease' \in [Keys -> Jobs \cup {"orphan", None}]
      /\ \A k \in Keys : lease'[k] = lease[k] \/ (lease[k] = None /\ lease'[k] = "orphan")
  BY <1>0 DEF Cancel
<1> QED
  BY <1>0, <1>2, <1>3, GotoStep DEF Cancel
--------------------------------------------------------------------------------
(* What a call that ends leaves: the lease it gave back, or did not have. *)
LEMMA EndInv ==
    ASSUME IInv, NEW j \in Jobs, job[j].background, End(j), UNCHANGED <<setup, server, late>>,
           lease' \in [Keys -> Jobs \cup {"orphan", None}],
           \A k \in Keys : lease'[k] # j /\ (lease'[k] = lease[k] \/ lease'[k] \notin Jobs),
           \A k \in Keys : lease[k] \in Jobs /\ lease[k] # j => lease'[k] = lease[k]
    PROVE  IInv'
<1>1. /\ Nothing \in JobStates /\ Nothing.phase = "idle" /\ Nothing.background = FALSE
      /\ Nothing.leased = FALSE /\ Nothing.expired = FALSE
  BY DEF Nothing, JobStates, Phases
<1>2. /\ job' \in [Jobs -> JobStates] /\ job'[j] = Nothing
      /\ \A i \in Jobs : i # j => job'[i] = job[i]
  BY <1>1 DEF End, Drop, IInv
<1>3. SchedInv' /\ slots' \in [Procs -> 0..limit]
  BY EndSched
<1>4. /\ inflight' \in [Procs -> SUBSET Keys] /\ lost' \in [Procs -> SUBSET Keys]
      /\ forked' \subseteq Procs /\ server' \in [Keys -> Entries \cup {None}]
      /\ late' \subseteq [key : Keys, entry : Entries]
  BY DEF End, IInv, TypeOK
<1>5. JobsInShape'
  BY <1>1, <1>2 DEF IInv, JobsInShape
<1>6. LeaseKnown'
  <2>1. \A i \in Jobs : job'[i].leased => i # j /\ job'[i] = job[i] /\ job[i].key \in Keys
    BY <1>1, <1>2 DEF IInv, JobsInShape
  <2>2. \A i \in Jobs : job'[i].leased /\ ~job'[i].expired => lease'[job'[i].key] = i
    BY <2>1 DEF IInv, LeaseKnown
  <2>3. \A k \in Keys : lease'[k] \in Jobs =>
         /\ job'[lease'[k]].leased /\ ~job'[lease'[k]].expired
         /\ job'[lease'[k]].key = k
    BY <1>2 DEF IInv, LeaseKnown
  <2> QED
    BY <2>2, <2>3 DEF LeaseKnown
<1> QED
  BY <1>2, <1>3, <1>4, <1>5, <1>6, Compose

(* A job that is not leased is known to no lease. *)
LEMMA NotHolder ==
    ASSUME IInv, NEW j \in Jobs, ~job[j].leased, NEW k \in Keys
    PROVE  lease[k] # j
BY DEF IInv, LeaseKnown

(* The refresh cannot be scheduled, or the server does not grant its lease. *)
LEMMA GivenUpInv ==
    ASSUME IInv, NEW j \in Jobs, CannotSchedule(j) \/ LeaseDenied(j)
    PROVE  IInv'
<1>0. /\ lease \in [Keys -> Jobs \cup {"orphan", None}]
      /\ job[j].background /\ ~job[j].leased /\ job[j].key \in Keys /\ End(j)
      /\ UNCHANGED <<setup, server, late>>
  BY DEF IInv, TypeOK, JobsInShape, CannotSchedule, LeaseDenied, InPhase, remote
<1>1. \A k \in Keys : lease[k] # j
  BY <1>0, NotHolder
<1>2. CASE CannotSchedule(j)
  BY <1>0, <1>1, <1>2, EndInv DEF CannotSchedule, remote
<1>3. CASE LeaseDenied(j)
  <2>1. /\ lease' \in [Keys -> Jobs \cup {"orphan", None}]
        /\ \A k \in Keys : lease'[k] = lease[k] \/ (lease[k] = None /\ lease'[k] = "orphan")
    BY <1>0, <1>3 DEF LeaseDenied
  <2> QED
    BY <1>0, <1>1, <2>1, EndInv, StaleRefreshAssumption
<1> QED
  BY <1>2, <1>3

(* A refresh, or a foreground call, is done; a refresh gives back no lease  *)
(* but its own.                                                             *)
LEMMA LeaveInv ==
    ASSUME IInv, NEW j \in Jobs, Leave(j)
    PROVE  IInv'
<1>0. /\ lease \in [Keys -> Jobs \cup {"orphan", None}]
      /\ job[j].leased => job[j].background
      /\ job[j].key \in Keys
      /\ UNCHANGED <<setup, server, late>>
  BY DEF IInv, TypeOK, JobsInShape, Leave, InPhase
<1>1. \A k \in Keys : lease[k] = j => job[j].leased /\ job[j].key = k
  BY DEF IInv, LeaseKnown
<1>2. CASE ~job[j].background
  <2>1. Drop(j) /\ UNCHANGED <<setup, sched, remote, late>>
    BY <1>0, <1>2 DEF Leave, remote
  <2> QED
    BY <1>2, <2>1, DropStep
<1>3. CASE job[j].background
  <2>1. /\ lease' \in [Keys -> Jobs \cup {"orphan", None}]
        /\ \A k \in Keys : lease'[k] # j /\ (lease'[k] = lease[k] \/ lease'[k] \notin Jobs)
        /\ \A k \in Keys : lease[k] \in Jobs /\ lease[k] # j => lease'[k] = lease[k]
    <3>1. CASE job[j].leased /\ lease[job[j].key] = j
      BY <1>0, <1>1, <3>1, StaleRefreshAssumption DEF Leave, GiveBack
    <3>2. CASE ~job[j].leased \/ lease[job[j].key] # j
      BY <1>0, <1>1, <3>2, StaleRefreshAssumption DEF Leave, GiveBack
    <3> QED
      BY <3>1, <3>2
  <2>2. End(j)
    BY <1>3 DEF Leave
  <2> QED
    BY <1>0, <1>3, <2>1, <2>2, EndInv
<1> QED
  BY <1>2, <1>3

(* The server grants the lease of a key nobody has. *)
LEMMA LeaseGrantedInv ==
    ASSUME IInv, NEW j \in Jobs, LeaseGranted(j)
    PROVE  IInv'
<1> DEFINE r == [job[j] EXCEPT !.phase = "running", !.leased = TRUE]
           k == job[j].key
<1>0. /\ lease \in [Keys -> Jobs \cup {"orphan", None}] /\ lease[k] = None
      /\ job[j].background /\ ~job[j].leased /\ ~job[j].expired /\ k \in Keys
      /\ job[j] \in JobStates /\ job \in [Jobs -> JobStates]
      /\ UNCHANGED <<setup, server, sched, late>>
      /\ lease' = [lease EXCEPT ![k] = j]
  BY DEF IInv, TypeOK, JobsInShape, LeaseGranted, InPhase
<1>1. /\ r \in JobStates /\ r.phase = "running" /\ r.leased = TRUE
      /\ r.key = k /\ r.background = job[j].background /\ r.expired = job[j].expired
  BY <1>0 DEF JobStates, Phases
<1>2. job' = [job EXCEPT ![j] = r]
  BY <1>0 DEF LeaseGranted
<1>3. /\ job' \in [Jobs -> JobStates] /\ job'[j] = r
      /\ \A i \in Jobs : i # j => job'[i] = job[i]
  BY <1>0, <1>1, <1>2
<1> HIDE DEF r
<1>4. SchedInv'
  BY <1>0, <1>1, <1>3, QuietSched
<1>5. JobsInShape'
  BY <1>0, <1>1, <1>3 DEF IInv, JobsInShape
<1>6. LeaseKnown'
  <2>1. \A i \in Jobs : job[i].leased => job[i].key \in Keys
    BY DEF IInv, JobsInShape
  <2>2. \A i \in Jobs : job[i].leased /\ ~job[i].expired => job[i].key # k
    BY <1>0, StaleRefreshAssumption DEF IInv, LeaseKnown
  <2>3. \A i \in Jobs : job'[i].leased /\ ~job'[i].expired => lease'[job'[i].key] = i
    BY <1>0, <1>1, <1>3, <2>1, <2>2 DEF IInv, LeaseKnown
  <2>4. \A kk \in Keys : lease[kk] # j
    BY <1>0, NotHolder
  <2>5. \A kk \in Keys : lease'[kk] \in Jobs =>
         /\ job'[lease'[kk]].leased /\ ~job'[lease'[kk]].expired
         /\ job'[lease'[kk]].key = kk
    BY <1>0, <1>1, <1>3, <2>4 DEF IInv, LeaseKnown
  <2> QED
    BY <2>3, <2>5 DEF LeaseKnown
<1>7. /\ inflight' \in [Procs -> SUBSET Keys] /\ lost' \in [Procs -> SUBSET Keys]
      /\ slots' \in [Procs -> 0..limit] /\ forked' \subseteq Procs
      /\ server' \in [Keys -> Entries \cup {None}]
      /\ lease' \in [Keys -> Jobs \cup {"orphan", None}]
      /\ late' \subseteq [key : Keys, entry : Entries]
  BY <1>0 DEF sched, IInv, TypeOK
<1> QED
  BY <1>0, <1>3, <1>4, <1>5, <1>6, <1>7, Compose

(* The server drops a lease: its holder, if there is one, has outlived it. *)
LEMMA LeaseExpiresInv ==
    ASSUME IInv, NEW k \in Keys, LeaseExpires(k)
    PROVE  IInv'
<1>0. /\ lease \in [Keys -> Jobs \cup {"orphan", None}]
      /\ job \in [Jobs -> JobStates]
      /\ UNCHANGED <<setup, server, sched, late>>
      /\ lease' = [lease EXCEPT ![k] = None]
  BY DEF IInv, TypeOK, LeaseExpires
<1>1. \A i \in Jobs :
        /\ job'[i] \in JobStates
        /\ job'[i].phase = job[i].phase /\ job'[i].key = job[i].key
        /\ job'[i].background = job[i].background /\ job'[i].leased = job[i].leased
        /\ job'[i].expired = (IF lease[k] = i THEN TRUE ELSE job[i].expired)
  BY <1>0, ZenonT(40) DEF LeaseExpires, JobStates
<1>2. job' \in [Jobs -> JobStates]
  BY <1>1 DEF LeaseExpires
<1>3. SchedInv'
  BY <1>0, <1>1, QuietSched
<1>4. JobsInShape'
  <2>1. lease[k] \in Jobs => job[lease[k]].leased
    BY DEF IInv, LeaseKnown
  <2> QED
    BY <1>1, <2>1 DEF IInv, JobsInShape
<1>5. LeaseKnown'
  <2>1. \A i \in Jobs : job[i].leased => job[i].key \in Keys
    BY DEF IInv, JobsInShape
  <2>2. \A i \in Jobs : job'[i].leased /\ ~job'[i].expired => lease'[job'[i].key] = i
    <3> TAKE i \in Jobs
    <3> HAVE job'[i].leased /\ ~job'[i].expired
    <3>1. job[i].leased /\ lease[k] # i /\ job'[i].expired = job[i].expired
      BY <1>1
    <3>2. job[i].key \in Keys /\ lease[job[i].key] = i /\ job'[i].key = job[i].key
      BY <1>1, <2>1, <3>1 DEF IInv, LeaseKnown
    <3> QED
      BY <1>0, <3>1, <3>2
  <2>3. \A kk \in Keys : lease'[kk] \in Jobs => kk # k /\ lease'[kk] = lease[kk]
    BY <1>0, StaleRefreshAssumption
  <2>4. \A kk \in Keys : lease'[kk] \in Jobs =>
         /\ job'[lease'[kk]].leased /\ ~job'[lease'[kk]].expired
         /\ job'[lease'[kk]].key = kk
    <3> TAKE kk \in Keys
    <3> HAVE lease'[kk] \in Jobs
    <3>1. kk # k /\ lease[kk] = lease'[kk] /\ lease[kk] \in Jobs
      BY <2>3
    <3>2. job[lease[kk]].leased /\ ~job[lease[kk]].expired /\ job[lease[kk]].key = kk
      BY <3>1 DEF IInv, LeaseKnown
    <3>3. lease[k] # lease[kk]
      BY <3>1, <3>2 DEF IInv, LeaseKnown
    <3> QED
      BY <1>1, <3>1, <3>2, <3>3
  <2> QED
    BY <2>2, <2>4 DEF LeaseKnown
<1>6. /\ inflight' \in [Procs -> SUBSET Keys] /\ lost' \in [Procs -> SUBSET Keys]
      /\ slots' \in [Procs -> 0..limit] /\ forked' \subseteq Procs
      /\ server' \in [Keys -> Entries \cup {None}]
      /\ lease' \in [Keys -> Jobs \cup {"orphan", None}]
      /\ late' \subseteq [key : Keys, entry : Entries]
  BY <1>0 DEF sched, IInv, TypeOK
<1> QED
  BY <1>0, <1>2, <1>3, <1>4, <1>5, <1>6, Compose
--------------------------------------------------------------------------------
(* What a claim, a check or a refusal does to the call and to the leases. *)
LEMMA BeginInv ==
    ASSUME IInv, NEW j \in Jobs, job[j].phase \in {"read", "checked"},
           UNCHANGED <<setup, remote, late>>,
           NEW r \in JobStates, job' = [job EXCEPT ![j] = r],
           ~r.leased, ~r.expired,
           r.phase # "idle" => r.key \in Keys,
           r.phase \in {"idle", "checked", "scheduled"},
           r.background <=> r.phase = "scheduled",
           inflight' \in [Procs -> SUBSET Keys], lost' \in [Procs -> SUBSET Keys],
           slots' \in [Procs -> 0..limit], forked' \subseteq Procs,
           SchedInv'
    PROVE  IInv'
<1>1. /\ job' \in [Jobs -> JobStates] /\ job'[j] = r
      /\ \A i \in Jobs : i # j => job'[i] = job[i]
  BY DEF IInv
<1>2. JobsInShape'
  BY <1>1 DEF IInv, JobsInShape
<1>3. job[j].leased = FALSE /\ r.leased = FALSE
  BY DEF IInv, JobsInShape, JobStates
<1>4. LeaseKnown'
  BY <1>1, <1>3, LeaseQuiet DEF remote
<1>5. /\ server' \in [Keys -> Entries \cup {None}]
      /\ lease' \in [Keys -> Jobs \cup {"orphan", None}]
      /\ late' \subseteq [key : Keys, entry : Entries]
  BY DEF remote, IInv, TypeOK
<1> QED
  BY <1>1, <1>2, <1>4, <1>5, Compose

(* No refresh begins: one is under way or there is no slot. *)
LEMMA RefusedInv ==
    ASSUME IInv, NEW j \in Jobs, Refused(j)
    PROVE  IInv'
<1> DEFINE q == ProcOf[j]
<1>1. /\ job[j].phase = "read" /\ StartOver(q, {}, 0) /\ Drop(j) /\ q \in Procs
      /\ UNCHANGED <<setup, remote, late>> /\ {} \in SUBSET Keys /\ 0 \in Nat
  BY StaleRefreshAssumption DEF Refused, StaleHit, InPhase
<1>2. SlotsSeen(q) >= 0
  BY <1>1 DEF SlotsSeen, IInv, TypeOK, SetupOK
<1>3. /\ inflight' \in [Procs -> SUBSET Keys] /\ lost' \in [Procs -> SUBSET Keys]
      /\ slots' \in [Procs -> 0..limit] /\ forked' = forked \ {q}
  BY <1>1, <1>2, StartOverSched
<1>4. forked' \subseteq Procs
  BY <1>3 DEF IInv, TypeOK
<1>5. /\ Nothing \in JobStates /\ Nothing.phase = "idle" /\ ~Nothing.background
      /\ ~Nothing.leased /\ ~Nothing.expired
  BY DEF Nothing, JobStates, Phases
<1>6. job' = [job EXCEPT ![j] = Nothing]
  BY <1>1 DEF Drop
<1> HIDE DEF Nothing
<1>7. SchedInv'
  <2>1. job'[j] = Nothing /\ \A i \in Jobs : i # j => job'[i] = job[i]
    BY <1>6 DEF IInv
  <2> QED
    BY <1>1, <1>5, <2>1, NotClaimedSched
<1> QED
  BY <1>1, <1>3, <1>4, <1>5, <1>6, <1>7, BeginInv

(* A thread is past the in-flight check. *)
LEMMA CheckInv ==
    ASSUME IInv, NEW j \in Jobs, Check(j)
    PROVE  IInv'
<1> DEFINE q == ProcOf[j]
           r == [job[j] EXCEPT !.phase = "checked", !.found = None]
<1>1. /\ job[j].phase = "read" /\ StartOver(q, {}, 0) /\ q \in Procs
      /\ UNCHANGED <<setup, remote, late>> /\ {} \in SUBSET Keys /\ 0 \in Nat
      /\ ~IsAsync(q)
  BY StaleRefreshAssumption DEF Check, StaleHit, InPhase
<1>2. SlotsSeen(q) >= 0
  BY <1>1 DEF SlotsSeen, IInv, TypeOK, SetupOK
<1>3. /\ inflight' \in [Procs -> SUBSET Keys] /\ lost' \in [Procs -> SUBSET Keys]
      /\ slots' \in [Procs -> 0..limit] /\ forked' = forked \ {q}
  BY <1>1, <1>2, StartOverSched
<1>4. forked' \subseteq Procs
  BY <1>3 DEF IInv, TypeOK
<1>5. /\ job[j] \in JobStates /\ job[j].key \in Keys
      /\ ~job[j].background /\ ~job[j].leased /\ ~job[j].expired
  BY <1>1 DEF IInv, JobsInShape
<1>6. /\ r \in JobStates /\ r.phase = "checked" /\ r.key = job[j].key
      /\ ~r.background /\ ~r.leased /\ ~r.expired
  BY <1>5 DEF JobStates, Phases
<1>7. job' = [job EXCEPT ![j] = r]
  BY DEF Check, IInv
<1> HIDE DEF r
<1>8. SchedInv'
  <2>1. job'[j] = r /\ \A i \in Jobs : i # j => job'[i] = job[i]
    BY <1>7 DEF IInv
  <2> QED
    BY <1>1, <1>6, <2>1, NotClaimedSched
<1> QED
  BY <1>1, <1>3, <1>4, <1>5, <1>6, <1>7, <1>8, BeginInv

(* The record of a call that has claimed. *)
LEMMA ClaimedRecord ==
    ASSUME IInv, NEW j \in Jobs, job[j].phase \in {"read", "checked"},
           NEW r, r = [job[j] EXCEPT !.phase = "scheduled", !.background = TRUE, !.found = None]
    PROVE  /\ r \in JobStates /\ r.phase = "scheduled" /\ r.key = job[j].key /\ r.key \in Keys
           /\ r.background /\ ~r.leased /\ ~r.expired
<1>1. /\ job[j] \in JobStates /\ job[j].key \in Keys
      /\ ~job[j].background /\ ~job[j].leased /\ ~job[j].expired
  BY DEF IInv, JobsInShape
<1> QED
  BY <1>1 DEF JobStates, Phases

(* A task claims a key that is not in flight, and a slot. *)
LEMMA ClaimInv ==
    ASSUME IInv, NEW j \in Jobs, Claim(j)
    PROVE  IInv'
<1> DEFINE q == ProcOf[j]
           k == job[j].key
           r == [job[j] EXCEPT !.phase = "scheduled", !.background = TRUE, !.found = None]
<1>1. /\ job[j].phase = "read" /\ StartOver(q, {k}, 1) /\ q \in Procs
      /\ UNCHANGED <<setup, remote, late>> /\ 1 \in Nat
      /\ IsAsync(q) /\ k \notin InflightSeen(q)
  BY StaleRefreshAssumption DEF Claim, StaleHit, InPhase
<1>2. SlotsSeen(q) >= 1
  BY <1>1 DEF Claim, SlotsSeen, IInv, TypeOK, SetupOK
<1>3. /\ r \in JobStates /\ r.phase = "scheduled" /\ r.key = k /\ r.key \in Keys
      /\ r.background /\ ~r.leased /\ ~r.expired
  BY <1>1, ClaimedRecord
<1>4. {k} \in SUBSET Keys
  BY <1>3
<1>5. /\ \A p \in Procs : p # q => /\ slots'[p] = slots[p] /\ inflight'[p] = inflight[p]
                                   /\ lost'[p] = lost[p]
      /\ forked' = forked \ {q}
      /\ inflight'[q] = InflightSeen(q) \cup {k}
      /\ slots'[q] + 1 + Cardinality(Claimed(q)) + Cardinality(lost'[q]) = limit
      /\ inflight' \in [Procs -> SUBSET Keys] /\ lost' \in [Procs -> SUBSET Keys]
      /\ slots' \in [Procs -> 0..limit]
      /\ lost'[q] = (IF q \in forked THEN {} ELSE lost[q])
      /\ q \in forked => Claimed(q) = {}
  BY <1>1, <1>2, <1>4, StartOverSched
<1>6. forked' \subseteq Procs
  BY <1>5 DEF IInv, TypeOK
<1>7. job' = [job EXCEPT ![j] = r]
  BY DEF Claim, IInv
<1> HIDE DEF r
<1>8. SchedInv'
  <2>1. job'[j] = r /\ \A i \in Jobs : i # j => job'[i] = job[i]
    BY <1>7 DEF IInv
  <2>2. ~job[j].background
    BY <1>1 DEF IInv, JobsInShape
  <2>3. Cardinality(lost'[q]) \in Nat
    BY <1>1, <1>5, FS_Subset, FS_CardinalityType, StaleRefreshAssumption
  <2> QED
    BY <1>1, <1>3, <1>5, <2>1, <2>2, <2>3, ClaimSched
<1> QED
  BY <1>1, <1>3, <1>5, <1>6, <1>7, <1>8, BeginInv

(* A thread past the check gets a slot, or none is left. *)
LEMMA ClaimCheckedInv ==
    ASSUME IInv, NEW j \in Jobs, ClaimChecked(j)
    PROVE  IInv'
<1> DEFINE q == ProcOf[j]
           k == job[j].key
           r == [job[j] EXCEPT !.phase = "scheduled", !.background = TRUE, !.found = None]
<1>1. /\ job[j].phase = "checked" /\ q \in Procs /\ q \notin forked
      /\ UNCHANGED <<setup, remote, late, forked, lost>>
      /\ ~job[j].background /\ limit \in Nat
  BY StaleRefreshAssumption
     DEF ClaimChecked, InPhase, IInv, SchedInv, NoneInherited, JobsInShape, SetupOK
<1>2. CASE slots[q] = 0 /\ Drop(j) /\ UNCHANGED <<inflight, slots>>
  BY <1>1, <1>2, DropStep DEF sched
<1>3. CASE /\ slots[q] > 0
           /\ slots' = [slots EXCEPT ![q] = @ - 1]
           /\ inflight' = [inflight EXCEPT ![q] = @ \cup {k}]
           /\ job' = [job EXCEPT ![j].phase = "scheduled", ![j].background = TRUE, ![j].found = None]
  <2>1. /\ r \in JobStates /\ r.phase = "scheduled" /\ r.key = k /\ r.key \in Keys
        /\ r.background /\ ~r.leased /\ ~r.expired
    BY <1>1, ClaimedRecord
  <2>2. job' = [job EXCEPT ![j] = r]
    BY <1>3 DEF IInv
  <2> HIDE DEF r
  <2>3. /\ inflight' \in [Procs -> SUBSET Keys] /\ lost' \in [Procs -> SUBSET Keys]
        /\ slots' \in [Procs -> 0..limit] /\ forked' \subseteq Procs
        /\ \A p \in Procs : p # q => /\ slots'[p] = slots[p] /\ inflight'[p] = inflight[p]
                                     /\ lost'[p] = lost[p]
        /\ inflight'[q] = inflight[q] \cup {k}
        /\ slots'[q] = slots[q] - 1 /\ slots[q] \in Nat
    BY <1>1, <1>3, <2>1 DEF IInv, TypeOK
  <2>4. /\ slots[q] + Cardinality(Claimed(q)) + Cardinality(lost[q]) = limit
        /\ Cardinality(Claimed(q)) \in Nat /\ Cardinality(lost[q]) \in Nat
    BY <1>1, Countable DEF IInv, SchedInv, SlotsAccounted
  <2>5. slots'[q] + 1 + Cardinality(Claimed(q)) + Cardinality(lost'[q]) = limit
    BY <1>1, <2>3, <2>4
  <2>6. job'[j] = r /\ \A i \in Jobs : i # j => job'[i] = job[i]
    BY <2>2 DEF IInv
  <2>7. ~IsAsync(q)
    BY <1>1 DEF IInv, SchedInv, OnlyThreadsRace
  <2>8. SchedInv'
    BY <1>1, <2>1, <2>3, <2>4, <2>5, <2>6, <2>7, ClaimSched DEF InflightSeen
  <2> QED
    BY <1>1, <2>1, <2>2, <2>3, <2>8, BeginInv
<1> QED
  BY <1>2, <1>3 DEF ClaimChecked

(* A task cancelled too early. *)
LEMMA CancelEarlyInv ==
    ASSUME IInv, NEW j \in Jobs, CancelEarly(j)
    PROVE  IInv'
<1>1. SchedInv' /\ lost' \in [Procs -> SUBSET Keys]
  BY CancelEarlySched
<1>2. /\ Nothing \in JobStates /\ Nothing.phase = "idle" /\ Nothing.background = FALSE
      /\ Nothing.leased = FALSE /\ Nothing.expired = FALSE
  BY DEF Nothing, JobStates, Phases
<1>3. /\ job' \in [Jobs -> JobStates] /\ job'[j] = Nothing
      /\ \A i \in Jobs : i # j => job'[i] = job[i]
  BY <1>2 DEF CancelEarly, Drop, IInv
<1>4. job[j].leased = FALSE
  BY DEF CancelEarly, InPhase, IInv, JobsInShape, JobStates
<1>5. JobsInShape'
  BY <1>2, <1>3 DEF IInv, JobsInShape
<1>6. LeaseKnown'
  BY <1>2, <1>3, <1>4, LeaseQuiet DEF CancelEarly, remote
<1>7. /\ inflight' \in [Procs -> SUBSET Keys] /\ slots' \in [Procs -> 0..limit]
      /\ forked' \subseteq Procs /\ server' \in [Keys -> Entries \cup {None}]
      /\ lease' \in [Keys -> Jobs \cup {"orphan", None}]
      /\ late' \subseteq [key : Keys, entry : Entries] /\ UNCHANGED setup
  BY DEF CancelEarly, remote, IInv, TypeOK
<1> QED
  BY <1>1, <1>3, <1>5, <1>6, <1>7, Compose

(* A fork, seen from the child: the leases of its parent are nobody's. *)
LEMMA ForkInv ==
    ASSUME IInv, NEW q \in Procs, Fork(q)
    PROVE  IInv'
<1>1. SchedInv'
  BY ForkSched
<1>2. /\ Nothing \in JobStates /\ Nothing.phase = "idle" /\ Nothing.background = FALSE
      /\ Nothing.leased = FALSE /\ Nothing.expired = FALSE
  BY DEF Nothing, JobStates, Phases
<1>3. /\ job' \in [Jobs -> JobStates]
      /\ \A i \in Jobs : job'[i] = IF ProcOf[i] = q THEN Nothing ELSE job[i]
      /\ lease' \in [Keys -> Jobs \cup {"orphan", None}]
      /\ \A k \in Keys : lease'[k] =
           IF lease[k] \in Jobs /\ ProcOf[lease[k]] = q THEN "orphan" ELSE lease[k]
  BY <1>2 DEF Fork, IInv, TypeOK
<1> HIDE DEF Nothing
<1>4. JobsInShape'
  BY <1>2, <1>3 DEF IInv, JobsInShape
<1>5. LeaseKnown'
  <2>1. \A i \in Jobs : job'[i].leased => ProcOf[i] # q /\ job'[i] = job[i] /\ job[i].key \in Keys
    BY <1>2, <1>3 DEF IInv, JobsInShape
  <2>2. \A i \in Jobs : job'[i].leased /\ ~job'[i].expired => lease'[job'[i].key] = i
    BY <1>3, <2>1 DEF IInv, LeaseKnown
  <2>3. \A k \in Keys : lease'[k] \in Jobs =>
         lease'[k] = lease[k] /\ job'[lease[k]] = job[lease[k]]
    BY <1>3, StaleRefreshAssumption
  <2>4. \A k \in Keys : lease'[k] \in Jobs =>
         /\ job'[lease'[k]].leased /\ ~job'[lease'[k]].expired
         /\ job'[lease'[k]].key = k
    BY <2>3 DEF IInv, LeaseKnown
  <2> QED
    BY <2>2, <2>4 DEF LeaseKnown
<1>6. /\ inflight' \in [Procs -> SUBSET Keys] /\ slots' \in [Procs -> 0..limit]
      /\ lost' \in [Procs -> SUBSET Keys]
      /\ forked' \subseteq Procs /\ server' \in [Keys -> Entries \cup {None}]
      /\ late' \subseteq [key : Keys, entry : Entries] /\ UNCHANGED setup
  BY DEF Fork, IInv, TypeOK
<1> QED
  BY <1>1, <1>3, <1>4, <1>5, <1>6, Compose

(* What the server, or a write nobody waits for, does to the entries. *)
LEMMA ServerInv ==
    ASSUME IInv, \/ \E k \in Keys : GoStale(k) \/ Gone(k)
                 \/ \E w \in late : LateWrite(w)
    PROVE  IInv'
<1>1. /\ UNCHANGED <<setup, lease, job, sched>> /\ late' \subseteq late
  BY DEF GoStale, Gone, LateWrite
<1>2. server' \in [Keys -> Entries \cup {None}]
  <2>0. server \in [Keys -> Entries \cup {None}] /\ late \subseteq [key : Keys, entry : Entries]
    BY DEF IInv, TypeOK
  <2>1. ASSUME NEW k \in Keys, GoStale(k) PROVE server' \in [Keys -> Entries \cup {None}]
    <3>1. server[k] \in Entries
      BY <2>0, <2>1 DEF GoStale
    <3>2. [server[k] EXCEPT !.stale = TRUE] \in Entries
      BY <3>1 DEF Entries
    <3>3. server' = [server EXCEPT ![k] = [server[k] EXCEPT !.stale = TRUE]]
      BY <2>0, <2>1 DEF GoStale
    <3> QED
      BY <2>0, <3>2, <3>3
  <2>2. ASSUME NEW k \in Keys, Gone(k) PROVE server' \in [Keys -> Entries \cup {None}]
    BY <2>0, <2>2 DEF Gone
  <2>3. ASSUME NEW w \in late, LateWrite(w) PROVE server' \in [Keys -> Entries \cup {None}]
    BY <2>0, <2>3 DEF LateWrite, Attempt
  <2> QED
    BY <2>1, <2>2, <2>3
<1>3. SchedInv'
  BY <1>1, QuietSched
<1>4. LeaseKnown' /\ JobsInShape'
  BY <1>1 DEF IInv, LeaseKnown, JobsInShape
<1>5. /\ inflight' \in [Procs -> SUBSET Keys] /\ slots' \in [Procs -> 0..limit]
      /\ lost' \in [Procs -> SUBSET Keys] /\ forked' \subseteq Procs
      /\ lease' \in [Keys -> Jobs \cup {"orphan", None}] /\ job' \in [Jobs -> JobStates]
      /\ late' \subseteq [key : Keys, entry : Entries] /\ UNCHANGED setup
  BY <1>1 DEF sched, IInv, TypeOK
<1> QED
  BY <1>2, <1>3, <1>4, <1>5, Compose
--------------------------------------------------------------------------------
(* Nothing is scheduled yet. *)
LEMMA InitInv == ASSUME Init PROVE IInv
<1>1. /\ Nothing \in JobStates /\ Nothing.phase = "idle" /\ Nothing.background = FALSE
      /\ Nothing.leased = FALSE /\ Nothing.expired = FALSE
  BY DEF Nothing, JobStates, Phases
<1>2. job \in [Jobs -> JobStates] /\ \A j \in Jobs : job[j] = Nothing
  BY <1>1 DEF Init
<1>3. SetupOK
  <2>1. config \in [Procs -> UNION {Requests[p] : p \in Procs}]
        /\ \A p \in Procs : config[p] \in Requests[p] /\ Accepted(config[p])
    BY DEF Init
  <2>2. \A p \in Procs : config[p] \in Settings
    BY <2>1, StaleRefreshAssumption DEF Settings
  <2>3. limit \in Nat \ {0}
    BY StaleRefreshAssumption DEF Init
  <2> QED
    BY <2>1, <2>2, <2>3 DEF SetupOK
<1> HIDE DEF Nothing
<1>4. TypeOK
  <2>1. slots \in [Procs -> 0..limit]
    BY <1>3 DEF Init, SetupOK
  <2>2. \A j \in Jobs :
         /\ job[j].phase \in {"idle", "read", "checked", "scheduled", "leasing", "running",
                              "storing", "leaving"}
         /\ job[j].key \in Keys \cup {None}
         /\ job[j].found \in Entries \cup {None}
         /\ {job[j].background, job[j].leased, job[j].expired} \subseteq BOOLEAN
    BY <1>2 DEF JobStates, Phases
  <2> QED
    BY <2>1, <2>2 DEF Init, TypeOK
<1>5. JobsInShape
  BY <1>1, <1>2 DEF JobsInShape
<1>6. NoneInherited /\ OnlyThreadsRace /\ AtMostOnePerKey /\ InflightCovers
  BY <1>1, <1>2
     DEF Init, NoneInherited, OnlyThreadsRace, AtMostOnePerKey, InflightCovers
<1>7. SlotsAccounted
  <2>1. \A p \in Procs : Claimed(p) = {}
    BY <1>1, <1>2 DEF Claimed
  <2>2. \A p \in Procs : Cardinality(Claimed(p)) = 0 /\ Cardinality(lost[p]) = 0
    BY <2>1, FS_EmptySet DEF Init
  <2> QED
    BY <1>3, <2>2 DEF Init, SlotsAccounted, SetupOK
<1>8. LeaseKnown
  BY <1>1, <1>2, StaleRefreshAssumption DEF Init, LeaseKnown
<1> QED
  BY <1>2, <1>3, <1>4, <1>5, <1>6, <1>7, <1>8 DEF IInv, SchedInv

(* Every step of a call, a task, a thread, the server or a fork. *)
LEMMA StepInv == ASSUME IInv, [Next]_vars PROVE IInv'
<1>1. CASE UNCHANGED vars
  <2>1. UNCHANGED <<setup, remote, job, sched, late>>
    BY <1>1 DEF vars
  <2>2. SchedInv'
    BY <2>1, QuietSched
  <2>3. LeaseKnown' /\ JobsInShape'
    BY <2>1 DEF IInv, LeaseKnown, JobsInShape, remote
  <2>4. /\ inflight' \in [Procs -> SUBSET Keys] /\ slots' \in [Procs -> 0..limit]
        /\ lost' \in [Procs -> SUBSET Keys] /\ forked' \subseteq Procs
        /\ lease' \in [Keys -> Jobs \cup {"orphan", None}] /\ job' \in [Jobs -> JobStates]
        /\ server' \in [Keys -> Entries \cup {None}]
        /\ late' \subseteq [key : Keys, entry : Entries] /\ UNCHANGED setup
    BY <2>1 DEF sched, remote, IInv, TypeOK
  <2> QED
    BY <2>2, <2>3, <2>4, Compose
<1>2. CASE \E k \in Keys : GoStale(k) \/ Gone(k) \/ LeaseExpires(k)
  BY <1>2, ServerInv, LeaseExpiresInv
<1>3. CASE \E j \in Jobs, k \in Keys : Read(j, k)
  BY <1>3, ReadInv
<1>4. ASSUME NEW j \in Jobs, Step(j)
      PROVE  IInv'
  BY <1>4, QuietActionsInv, RefusedInv, ClaimInv, CheckInv, ClaimCheckedInv, LeaseGrantedInv,
     GivenUpInv, LeaveInv DEF Step
<1>5. ASSUME NEW j \in Jobs, CannotSchedule(j) \/ FuncFails(j) \/ Cancel(j) \/ CancelEarly(j)
      PROVE  IInv'
  BY <1>5, GivenUpInv, QuietActionsInv, CancelInv, CancelEarlyInv
<1>6. CASE \E w \in late : LateWrite(w)
  BY <1>6, ServerInv
<1>7. CASE \E p \in Procs : Fork(p)
  BY <1>7, ForkInv
<1> QED
  BY <1>1, <1>2, <1>3, <1>4, <1>5, <1>6, <1>7 DEF Next

(* The refreshes of all processes together keep IInv. *)
THEOREM InductiveInvariant == Spec => []IInv
<1>1. Init => IInv
  BY InitInv
<1>2. IInv /\ [Next]_vars => IInv'
  BY StepInv
<1> QED
  BY <1>1, <1>2, PTL DEF Spec
--------------------------------------------------------------------------------
(* A window in use fits under the storage cap: what _stale_ttl computes for *)
(* any accepted settings, the preset's default at and around the cap        *)
(* included (wrapper.py:702-706).                                           *)
LEMMA AcceptedFits ==
    ASSUME NEW r \in Settings, Accepted(r), StaleWindow(r) > 0
    PROVE  r.ttl > 0 /\ r.capable /\ r.ttl + StaleWindow(r) <= Cap
<1>1. Cap \in Nat /\ None \notin Nat /\ r.ttl \in Nat /\ r.stale \in Nat \cup {None}
  BY StaleRefreshAssumption DEF Settings
<1>2. CASE r.stale # None
  <2>1. StaleWindow(r) = r.stale
    BY <1>2 DEF StaleWindow
  <2> QED
    BY <1>1, <1>2, <2>1 DEF Accepted
<1>3. CASE r.stale = None /\ r.default /\ r.ttl > 0 /\ r.capable
  <2>1. StaleWindow(r) = IF r.ttl < Cap THEN Least(r.ttl, Cap - r.ttl) ELSE 0
    BY <1>3 DEF StaleWindow
  <2> QED
    BY <1>1, <1>3, <2>1 DEF Least
<1>4. CASE r.stale = None /\ ~(r.default /\ r.ttl > 0 /\ r.capable)
  <2>1. StaleWindow(r) = 0
    BY <1>4 DEF StaleWindow
  <2> QED
    BY <2>1
<1> QED
  BY <1>2, <1>3, <1>4

(* Every permit of _l2_swr_slots is free, owned by a refresh under way or   *)
(* lost with a task cancelled before its first step, and every window in    *)
(* use fits: for any number of slots, calls, processes, cancellations and   *)
(* forks (wrapper.py:702-757).                                              *)
THEOREM RefreshesAreAccounted == Spec => []RefreshesAccounted
<1>1. IInv => RefreshesAccounted
  <2> SUFFICES ASSUME IInv PROVE RefreshesAccounted
    OBVIOUS
  <2>1. WindowFits
    BY AcceptedFits DEF IInv, SetupOK, WindowFits, SwrActive
  <2> QED
    BY <2>1 DEF IInv, SchedInv, RefreshesAccounted
<1> QED
  BY <1>1, InductiveInvariant, PTL

(* "at most one per key" (wrapper.py:811) holds in every event loop: a key  *)
(* stays in _l2_swr_inflight as long as its refresh, or a lost one, has it. *)
THEOREM OneRefreshPerKey == Spec => []AtMostOnePerKey
<1>1. IInv => AtMostOnePerKey
  BY DEF IInv, SchedInv
<1> QED
  BY <1>1, InductiveInvariant, PTL

(* The lease is single flight across clients (wrapper.py:712-715): the      *)
(* server knows one holder, a refresh that has not outlived its lease is    *)
(* it, and nobody else's release touches it.                                *)
THEOREM LeaseIsExclusive == Spec => []LeaseExclusive
<1>1. IInv => LeaseExclusive
  BY DEF IInv, LeaseKnown, LeaseExclusive
<1> QED
  BY <1>1, InductiveInvariant, PTL
================================================================================
