--------------------------- MODULE ReliabilityProofs ----------------------------
(***************************************************************************)
(* Proofs about the components of reliability/: CircuitBreaker, for any    *)
(* set of users, any configuration and any of its uses; Backpressure, for  *)
(* any finite set of requests and any limits; and AsyncMetrics, for any    *)
(* finite set of threads and any sizes of its queue, batches and pool.     *)
(***************************************************************************)
EXTENDS CircuitBreaker, Backpressure, AsyncMetrics, FiniteSetTheorems, SequenceTheorems, TLAPS

(* The breaker.  The invariant ties its two HALF_OPEN counters to what they *)
(* stand for: the attempts of a cycle to the trials in flight, the          *)
(* successes of a cycle to those really seen since testing began.           *)
TrialsCounted ==
    /\ IsFiniteSet(trials)
    /\ state = "HALF_OPEN" => Cardinality(trials) <= attempts

IInv ==
    /\ TypeOK
    /\ permits <= attempts
    /\ TrialsCounted
    /\ state = "HALF_OPEN" => successes <= wins
--------------------------------------------------------------------------------
(* A saturating counter stays in its range. *)
LEMMA AtMostRange ==
    ASSUME NEW n \in Nat, NEW limit \in Nat
    PROVE  /\ AtMost(n, limit) \in 0..limit
           /\ n <= limit => AtMost(n, limit) = n
           /\ n >= limit => AtMost(n, limit) = limit
  BY DEF AtMost

(* A new breaker is closed and has counted nothing. *)
LEMMA InitInv == ASSUME Init PROVE IInv
  BY ConfigAssumption, FS_EmptySet DEF Init, IInv, TypeOK, TrialsCounted

(* A call that ends leaves no more trials than before. *)
LEMMA ReturnCounts ==
    ASSUME IInv, NEW u, Return(u)
    PROVE  /\ IsFiniteSet(trials') /\ Cardinality(trials') \in Nat
           /\ Cardinality(trials) \in Nat
           /\ Cardinality(trials') <= Cardinality(trials)
           /\ calling' \subseteq Users /\ trials' \subseteq calling'
           /\ healthy' \in BOOLEAN /\ setup' = setup
<1>1. trials' \in SUBSET trials
  BY DEF Return
<1>2. IsFiniteSet(trials') /\ Cardinality(trials') <= Cardinality(trials)
  BY <1>1, FS_Subset DEF IInv, TrialsCounted
<1>3. Cardinality(trials) \in Nat /\ Cardinality(trials') \in Nat
  BY <1>2, FS_CardinalityType DEF IInv, TrialsCounted
<1> QED
  BY <1>2, <1>3 DEF Return, env, IInv, TypeOK

(* Admission: a trial is counted before it is let through. *)
LEMMA AdmitInv ==
    ASSUME IInv, NEW u \in Users, Admit(u)
    PROVE  IInv'
<1>1. calling' \subseteq Users /\ u \in calling' /\ calling \subseteq calling'
      /\ healthy' = healthy /\ setup' = setup
  BY DEF Admit, env, IInv, TypeOK
<1>2. CASE UNCHANGED <<breaker, trials, wins>>
  BY <1>1, <1>2 DEF IInv, TypeOK, TrialsCounted, breaker
<1>3. CASE StartTrials(u)
  <2>1. IsFiniteSet(trials') /\ Cardinality(trials') = 1
    BY <1>3, FS_Singleton DEF StartTrials
  <2> QED
    BY <1>1, <1>3, <2>1, ConfigAssumption
       DEF IInv, TypeOK, TrialsCounted, StartTrials, AllowHalfOpen
<1>4. CASE AdmitTrial(u)
  <2>1. u \notin trials /\ trials' = trials \cup {u} /\ IsFiniteSet(trials)
    BY <1>4 DEF AdmitTrial, Admit, IInv, TypeOK, TrialsCounted
  <2>2. IsFiniteSet(trials') /\ Cardinality(trials') = Cardinality(trials) + 1
    BY <2>1, FS_AddElement
  <2>3. Cardinality(trials) \in Nat
    BY <2>1, FS_CardinalityType
  <2> QED
    BY <1>1, <1>4, <2>1, <2>2, <2>3, ConfigAssumption
       DEF IInv, TypeOK, TrialsCounted, AdmitTrial, AllowHalfOpen
<1> QED
  BY <1>2, <1>3, <1>4 DEF Admit, AdmitNormally, AllowedByState

(* Recording a success. *)
LEMMA SucceedInv ==
    ASSUME IInv, NEW u \in Users, Succeed(u)
    PROVE  IInv'
<1>1. /\ IsFiniteSet(trials') /\ Cardinality(trials') \in Nat
      /\ Cardinality(trials) \in Nat
      /\ Cardinality(trials') <= Cardinality(trials)
      /\ calling' \subseteq Users /\ trials' \subseteq calling'
      /\ healthy' \in BOOLEAN /\ setup' = setup
  BY ReturnCounts DEF Succeed
<1>2. /\ wins' \in 0..SuccessThreshold
      /\ wins < SuccessThreshold => wins' = wins + 1
      /\ wins = SuccessThreshold => wins' = SuccessThreshold
  BY ConfigAssumption DEF Succeed, AtMost, IInv, TypeOK
<1>3. OnSuccess
  BY DEF Succeed
<1>4. CASE state # "HALF_OPEN" /\ UNCHANGED breaker
  BY <1>1, <1>2, <1>4, ConfigAssumption DEF IInv, TypeOK, TrialsCounted, breaker
<1>5. CASE /\ state = "HALF_OPEN"
           /\ successes + 1 < SuccessThreshold
           /\ successes' = successes + 1
           /\ permits' = IF permits = 0 THEN 0 ELSE permits - 1
           /\ UNCHANGED <<state, failures, elapsed, attempts>>
  BY <1>1, <1>2, <1>5, ConfigAssumption DEF IInv, TypeOK, TrialsCounted
<1>6. CASE TransitionToClosed /\ UNCHANGED elapsed
  BY <1>1, <1>2, <1>6, ConfigAssumption
     DEF IInv, TypeOK, TrialsCounted, TransitionToClosed
<1> QED
  BY <1>3, <1>4, <1>5, <1>6 DEF OnSuccess

(* A recorded failure keeps the breaker's counters in range, and never      *)
(* leads into HALF_OPEN.                                                    *)
LEMMA OnFailureCounts ==
    ASSUME IInv, OnFailure
    PROVE  /\ state' \in {"CLOSED", "OPEN"}
           /\ failures' \in 0..FailureThreshold
           /\ state' = "CLOSED" => failures' < FailureThreshold
           /\ successes' \in 0..(SuccessThreshold - 1)
           /\ elapsed' \in 0..(Timeout + 1)
           /\ permits' \in 0..HalfOpenRequests /\ attempts' \in 0..HalfOpenRequests
           /\ permits' <= attempts'
<1>1. failures' \in 0..FailureThreshold /\ elapsed' = 0
  BY AtMostRange, ConfigAssumption DEF OnFailure, IInv, TypeOK
<1> QED
  BY <1>1, ConfigAssumption DEF OnFailure, TransitionToOpen, IInv, TypeOK

(* Recording a failure, of a call or of the sync decorator's rejection. *)
LEMMA FailInv ==
    ASSUME IInv, NEW u \in Users, Fail(u) \/ Rejected(u)
    PROVE  IInv'
<1>1. OnFailure /\ wins' = 0
  BY DEF Fail, Rejected
<1>2. /\ IsFiniteSet(trials') /\ calling' \subseteq Users /\ trials' \subseteq calling'
      /\ healthy' \in BOOLEAN /\ setup' = setup
  BY ReturnCounts DEF Fail, Rejected, env, IInv, TypeOK, TrialsCounted
<1> QED
  BY <1>1, <1>2, OnFailureCounts, ConfigAssumption DEF IInv, TypeOK, TrialsCounted

(* Every step of the breaker and of its users preserves the invariant. *)
LEMMA StepInv == ASSUME IInv, [Next]_vars PROVE IInv'
<1>1. CASE UNCHANGED vars
  BY <1>1 DEF vars, breaker, env, IInv, TypeOK, TrialsCounted
<1>2. CASE Tick
  BY <1>2, ConfigAssumption DEF Tick, env, IInv, TypeOK, TrialsCounted
<1>3. ASSUME NEW u \in Users, FailExcluded(u)
      PROVE  IInv'
  <2>1. /\ IsFiniteSet(trials') /\ Cardinality(trials') \in Nat
        /\ Cardinality(trials) \in Nat
        /\ Cardinality(trials') <= Cardinality(trials)
        /\ calling' \subseteq Users /\ trials' \subseteq calling'
        /\ healthy' \in BOOLEAN /\ setup' = setup
    BY <1>3, ReturnCounts DEF FailExcluded
  <2>2. UNCHANGED <<breaker, wins>>
    BY <1>3 DEF FailExcluded
  <2> QED
    BY <2>1, <2>2 DEF breaker, IInv, TypeOK, TrialsCounted
<1>4. CASE Reset
  BY <1>4, ConfigAssumption
     DEF Reset, TransitionToClosed, env, IInv, TypeOK, TrialsCounted
<1>5. CASE BackendChanges
  BY <1>5 DEF BackendChanges, breaker, IInv, TypeOK, TrialsCounted
<1> QED
  BY <1>1, <1>2, <1>3, <1>4, <1>5, AdmitInv, SucceedInv, FailInv DEF Next

(* IInv is an invariant of the breaker. *)
THEOREM InductiveInvariant == Spec => []IInv
<1>1. Init => IInv
  BY InitInv
<1>2. IInv /\ [Next]_vars => IInv'
  BY StepInv
<1> QED
  BY <1>1, <1>2, PTL DEF Spec

(* The breaker's counters keep their ranges, whatever late results arrive:  *)
(* a CLOSED circuit has counted fewer failures than open it                 *)
(* (circuit_breaker.py:291-353).                                            *)
THEOREM TypeCorrect == Spec => []TypeOK
<1>1. IInv => TypeOK
  BY DEF IInv
<1> QED
  BY <1>1, InductiveInvariant, PTL

(* However many threads find the timeout over at once, at most              *)
(* half_open_requests of them test the backend                              *)
(* (circuit_breaker.py:245-247, 268-289).                                   *)
THEOREM TrialsAreLimited == Spec => []TrialsLimited
<1>1. IInv => TrialsLimited
  <2>1. ASSUME IInv PROVE Cardinality(trials) \in Nat
    BY <2>1, FS_CardinalityType DEF IInv, TrialsCounted
  <2> QED
    BY <2>1, ConfigAssumption DEF IInv, TypeOK, TrialsCounted, TrialsLimited
<1> QED
  BY <1>1, InductiveInvariant, PTL

(* Short of reset(), a circuit under test closes only after                 *)
(* success_threshold successes without a failure since testing began        *)
(* (circuit_breaker.py:36, 291-299).                                        *)
THEOREM ClosingIsEarned == Spec => ClosesOnlyOnSuccesses
<1>1. ASSUME IInv, [Next]_vars, state = "HALF_OPEN", state' = "CLOSED"
      PROVE  Reset \/ wins' >= SuccessThreshold
  <2>1. ASSUME NEW u \in Users, Succeed(u)
        PROVE  wins' >= SuccessThreshold
    <3>1. successes + 1 >= SuccessThreshold
      BY <1>1, <2>1 DEF Succeed, OnSuccess, breaker
    <3>2. wins + 1 >= SuccessThreshold
      BY <1>1, <3>1, ConfigAssumption DEF IInv, TypeOK
    <3> QED
      BY <1>1, <2>1, <3>2, ConfigAssumption DEF Succeed, AtMost, IInv, TypeOK
  <2>2. ASSUME NEW u \in Users, Admit(u) PROVE FALSE
    BY <1>1, <2>2 DEF Admit, AdmitNormally, StartTrials, AdmitTrial, AllowedByState, breaker
  <2>3. ASSUME NEW u \in Users, Fail(u) \/ Rejected(u) PROVE FALSE
    BY <1>1, <2>3 DEF Fail, Rejected, OnFailure
  <2>4. ASSUME NEW u \in Users, FailExcluded(u) PROVE FALSE
    BY <1>1, <2>4 DEF FailExcluded, breaker
  <2>5. ~Tick /\ ~BackendChanges /\ ~UNCHANGED vars
    BY <1>1 DEF Tick, BackendChanges, vars, env, breaker
  <2> QED
    BY <1>1, <2>1, <2>2, <2>3, <2>4, <2>5 DEF Next
<1>2. IInv /\ [Next]_vars =>
        [state = "HALF_OPEN" /\ state' = "CLOSED" => Reset \/ wins' >= SuccessThreshold]_vars
  BY <1>1
<1> QED
  BY <1>2, InductiveInvariant, PTL DEF Spec, ClosesOnlyOnSuccesses
--------------------------------------------------------------------------------
(* The controller.  Its counters are exact up to what interrupts strand,    *)
(* and that can only make it believe it is fuller than it is.               *)
ControllerIInv ==
    /\ ControllerTypeOK
    /\ depth <= QueueSize
    /\ QueueDepthExact
    /\ PermitsConserved
--------------------------------------------------------------------------------
(* Any set of requests is finite and so has a cardinality. *)
LEMMA InFinite ==
    ASSUME NEW P
    PROVE  IsFiniteSet(In(P)) /\ Cardinality(In(P)) \in Nat
<1>1. In(P) \in SUBSET Requests
  BY DEF In
<1> QED
  BY <1>1, FS_Subset, FS_CardinalityType, ControllerAssumption

One(b) == IF b THEN 1 ELSE 0

(* What one request changing phase does to the number of requests in P. *)
LEMMA MoveCounts ==
    ASSUME ControllerTypeOK, NEW r \in Requests, NEW p \in Phases, Enter(r, p), NEW P
    PROVE  Cardinality(In(P)') = Cardinality(In(P)) - One(phase[r] \in P) + One(p \in P)
<1>1. phase' = [phase EXCEPT ![r] = p] /\ phase \in [Requests -> Phases]
  BY DEF Enter, ControllerTypeOK
<1>2. r \in In(P) <=> phase[r] \in P
  BY DEF In
<1>3. IsFiniteSet(In(P)) /\ Cardinality(In(P)) \in Nat
  BY InFinite
<1>4. CASE p \in P
  <2>1. In(P)' = In(P) \cup {r}
    BY <1>1, <1>4 DEF In
  <2>2. Cardinality(In(P) \cup {r}) =
          IF r \in In(P) THEN Cardinality(In(P)) ELSE Cardinality(In(P)) + 1
    BY <1>3, FS_AddElement
  <2> QED
    BY <2>1, <2>2, <1>2, <1>3, <1>4 DEF One
<1>5. CASE p \notin P
  <2>1. In(P)' = In(P) \ {r}
    BY <1>1, <1>5 DEF In
  <2>2. Cardinality(In(P) \ {r}) =
          IF r \in In(P) THEN Cardinality(In(P)) - 1 ELSE Cardinality(In(P))
    BY <1>3, FS_RemoveElement
  <2> QED
    BY <2>1, <2>2, <1>2, <1>3, <1>5 DEF One
<1> QED
  BY <1>4, <1>5

(* The same for the two sets the controller counts. *)
LEMMA CountsMove ==
    ASSUME ControllerTypeOK, NEW r \in Requests, NEW p \in Phases, Enter(r, p)
    PROVE  /\ Cardinality(Queued) \in Nat /\ Cardinality(Holding) \in Nat
           /\ Cardinality(Queued') \in Nat /\ Cardinality(Holding') \in Nat
           /\ phase' \in [Requests -> Phases]
           /\ Cardinality(Queued') = Cardinality(Queued)
                - One(phase[r] \in {"waiting", "granted", "refused"})
                + One(p \in {"waiting", "granted", "refused"})
           /\ Cardinality(Holding') = Cardinality(Holding)
                - One(phase[r] \in {"granted", "running"})
                + One(p \in {"granted", "running"})
<1>1. /\ Cardinality(Queued) \in Nat /\ Cardinality(Holding) \in Nat
  BY InFinite DEF Queued, Holding
<1>2. phase' \in [Requests -> Phases]
  BY DEF Enter, ControllerTypeOK
<1>3. Cardinality(Queued') = Cardinality(Queued)
                - One(phase[r] \in {"waiting", "granted", "refused"})
                + One(p \in {"waiting", "granted", "refused"})
  BY MoveCounts DEF Queued
<1>4. Cardinality(Holding') = Cardinality(Holding)
                - One(phase[r] \in {"granted", "running"})
                + One(p \in {"granted", "running"})
  BY MoveCounts DEF Holding
<1>5. IsFiniteSet(Queued') /\ IsFiniteSet(Holding')
  <2>1. Queued' \in SUBSET Requests /\ Holding' \in SUBSET Requests
    BY DEF Queued, Holding, In
  <2> QED
    BY <2>1, FS_Subset, ControllerAssumption
<1>6. Cardinality(Queued') \in Nat /\ Cardinality(Holding') \in Nat
  BY <1>5, FS_CardinalityType
<1> QED
  BY <1>1, <1>2, <1>3, <1>4, <1>6

(* A fresh controller. *)
LEMMA ControllerInitInv == ASSUME ControllerInit PROVE ControllerIInv
<1>1. Queued = {} /\ Holding = {}
  BY DEF ControllerInit, Queued, Holding, In
<1>2. Cardinality(Queued) = 0 /\ Cardinality(Holding) = 0
  BY <1>1, FS_EmptySet
<1>3. ControllerTypeOK
  BY ControllerAssumption DEF ControllerInit, ControllerTypeOK, Phases
<1> QED
  BY <1>2, <1>3, ControllerAssumption
     DEF ControllerInit, ControllerIInv, QueueDepthExact, PermitsConserved

(* Every step of acquire() keeps the counters in line with the requests. *)
LEMMA ControllerStepInv == ASSUME ControllerIInv, [ControllerNext]_controller PROVE ControllerIInv'
<1> USE DEF ControllerIInv, QueueDepthExact, PermitsConserved
<1>1. CASE UNCHANGED controller
  BY <1>1 DEF controller, ControllerTypeOK, Queued, Holding, In
<1>2. ASSUME NEW r \in Requests, Join(r)
      PROVE  ControllerIInv'
  BY <1>2, CountsMove, ControllerAssumption DEF Join, One, Phases, ControllerTypeOK
<1>3. ASSUME NEW r \in Requests, Grant(r)
      PROVE  ControllerIInv'
  BY <1>3, CountsMove, ControllerAssumption DEF Grant, One, Phases, ControllerTypeOK
<1>4. ASSUME NEW r \in Requests, TimeOut(r)
      PROVE  ControllerIInv'
  BY <1>4, CountsMove, ControllerAssumption DEF TimeOut, One, Phases, ControllerTypeOK
<1>5. ASSUME NEW r \in Requests, CleanUp(r)
      PROVE  ControllerIInv'
  BY <1>5, CountsMove, ControllerAssumption DEF CleanUp, One, Phases, ControllerTypeOK
<1>6. ASSUME NEW r \in Requests, LeaveQueue(r)
      PROVE  ControllerIInv'
  <2>1. /\ phase[r] = "granted" /\ Enter(r, "running") /\ depth' = depth - 1
        /\ UNCHANGED <<free, stranded>>
    BY <1>6 DEF LeaveQueue
  <2>2. /\ Cardinality(Queued) \in Nat /\ Cardinality(Queued') = Cardinality(Queued) - 1
        /\ Cardinality(Queued') \in Nat /\ Cardinality(Holding') = Cardinality(Holding)
        /\ phase' \in [Requests -> Phases]
    BY <2>1, CountsMove DEF One, Phases
  <2> QED
    BY <2>1, <2>2, ControllerAssumption DEF ControllerTypeOK
<1>7. ASSUME NEW r \in Requests, Finish(r)
      PROVE  ControllerIInv'
  BY <1>7, CountsMove, ControllerAssumption DEF Finish, One, Phases, ControllerTypeOK
<1>8. ASSUME NEW r \in Requests, Interrupt(r)
      PROVE  ControllerIInv'
  <2>1. /\ phase[r] \in {"waiting", "granted"} /\ Enter(r, "idle") /\ depth' = depth
        /\ stranded' \in [places : Nat, permits : Nat]
        /\ stranded'.places = stranded.places + 1
        /\ free' + stranded'.permits =
             free + stranded.permits + One(phase[r] \in {"granted", "running"})
        /\ free' \in Nat
    BY <1>8 DEF Interrupt, ControllerTypeOK, One
  <2>2. ControllerTypeOK' /\ QueueDepthExact'
    BY <2>1, CountsMove DEF One, Phases, ControllerTypeOK
  <2>3. PermitsConserved'
    <3>1. Cardinality(Holding') = Cardinality(Holding) - One(phase[r] \in {"granted", "running"})
      BY <2>1, CountsMove DEF One, Phases
    <3>2. /\ Cardinality(Holding) \in Nat /\ One(phase[r] \in {"granted", "running"}) \in Nat
          /\ free \in Nat /\ stranded.permits \in Nat /\ stranded'.permits \in Nat
      BY <2>1, CountsMove DEF One, Phases, ControllerTypeOK
    <3> QED
      BY <2>1, <3>1, <3>2, ControllerAssumption
  <2> QED
    BY <2>1, <2>2, <2>3
<1> QED
  BY <1>1, <1>2, <1>3, <1>4, <1>5, <1>6, <1>7, <1>8 DEF ControllerNext

(* ControllerIInv is an invariant of acquire(), interrupted or not. *)
THEOREM ControllerInductive == ControllerSpec => []ControllerIInv
<1>1. ControllerInit => ControllerIInv
  BY ControllerInitInv
<1>2. ControllerIInv /\ [ControllerNext]_controller => ControllerIInv'
  BY ControllerStepInv
<1> QED
  BY <1>1, <1>2, PTL DEF ControllerSpec

(* Neither counter of the controller ever goes below zero                  *)
(* (load_control.py:131-186).                                              *)
THEOREM ControllerTypeCorrect == ControllerSpec => []ControllerTypeOK
<1>1. ControllerIInv => ControllerTypeOK
  BY DEF ControllerIInv
<1> QED
  BY <1>1, ControllerInductive, PTL

(* "After 100 concurrent + 1000 queued, new requests rejected"             *)
(* (load_control.py:78), for any limits and any number of requests, even   *)
(* if interrupts make the controller lose count.                           *)
THEOREM LoadIsBounded == ControllerSpec => []LoadBounded
<1>1. ControllerIInv => LoadBounded
  <2>1. Cardinality(Queued) \in Nat /\ Cardinality(Holding) \in Nat
    BY InFinite DEF Queued, Holding
  <2> QED
    BY <2>1, ControllerAssumption
       DEF ControllerIInv, QueueDepthExact, PermitsConserved, LoadBounded, ControllerTypeOK
<1> QED
  BY <1>1, ControllerInductive, PTL

(* _queue_depth counts the requests that wait, whether they are granted a  *)
(* permit, time out or fail, and those interrupted (load_control.py:148-182). *)
THEOREM DepthIsExact == ControllerSpec => []QueueDepthExact
<1>1. ControllerIInv => QueueDepthExact
  BY DEF ControllerIInv
<1> QED
  BY <1>1, ControllerInductive, PTL

(* No permit is made, and none lost but by interrupts                      *)
(* (load_control.py:163-186).                                              *)
THEOREM PermitsAreConserved == ControllerSpec => []PermitsConserved
<1>1. ControllerIInv => PermitsConserved
  BY DEF ControllerIInv
<1> QED
  BY <1>1, ControllerInductive, PTL

(* acquire() returns places and permits exactly once on every exit, and the *)
(* load stays within both limits (load_control.py:148-186).                 *)
THEOREM CapacityIsAccounted == ControllerSpec => []CapacityAccounted
<1>1. ControllerTypeOK /\ QueueDepthExact /\ PermitsConserved /\ LoadBounded => CapacityAccounted
  BY DEF CapacityAccounted
<1> QED
  BY <1>1, ControllerTypeCorrect, DepthIsExact, PermitsAreConserved, LoadIsBounded, PTL
--------------------------------------------------------------------------------
(* The metrics collector. *)

(* How many places of s hold an element of B. *)
Hits(s, B) == Cardinality({i \in DOMAIN s : s[i] \in B})

(* A number, and zero if s meets B nowhere. *)
LEMMA HitsNat ==
    ASSUME NEW S, NEW s \in Seq(S), NEW B
    PROVE  /\ IsFiniteSet({i \in DOMAIN s : s[i] \in B})
           /\ Hits(s, B) \in Nat
           /\ Hits(s, B) = 0 <=> \A i \in DOMAIN s : s[i] \notin B
<1> DEFINE H == {i \in DOMAIN s : s[i] \in B}
<1>1. Len(s) \in Nat /\ DOMAIN s = 1 .. Len(s)
  OBVIOUS
<1>2. IsFiniteSet(1 .. Len(s))
  BY <1>1, FS_Interval
<1>3. H \in SUBSET (1 .. Len(s))
  BY <1>1
<1>4. IsFiniteSet(H)
  BY <1>2, <1>3, FS_Subset
<1>5. Cardinality(H) \in Nat /\ (Cardinality(H) = 0 <=> H = {})
  BY <1>4, FS_CardinalityType, FS_EmptySet
<1> QED
  BY <1>4, <1>5 DEF Hits

(* The empty sequence has no places. *)
LEMMA HitsEmpty == ASSUME NEW B PROVE Hits(<<>>, B) = 0
<1>1. {i \in DOMAIN <<>> : <<>>[i] \in B} = {}
  OBVIOUS
<1> QED
  BY <1>1, FS_EmptySet DEF Hits

(* An element more at the end ... *)
LEMMA HitsAppend ==
    ASSUME NEW S, NEW s \in Seq(S), NEW x \in S, NEW B
    PROVE  Hits(Append(s, x), B) = Hits(s, B) + One(x \in B)
<1> DEFINE a == Append(s, x)
           n == Len(s) + 1
           H == {i \in DOMAIN s : s[i] \in B}
           A == {i \in DOMAIN a : a[i] \in B}
<1>1. /\ Len(s) \in Nat /\ DOMAIN s = 1 .. Len(s) /\ DOMAIN a = 1 .. n
      /\ \A i \in 1 .. Len(s) : a[i] = s[i]
      /\ a[n] = x
  BY AppendProperties, LenProperties
<1>2. IsFiniteSet(H) /\ Cardinality(H) \in Nat
  BY HitsNat, FS_CardinalityType
<1> HIDE DEF a
<1>3. n \notin H
  BY <1>1
<1>4. /\ x \in B => A = H \cup {n}
      /\ x \notin B => A = H
  BY <1>1
<1>5. Hits(a, B) = Cardinality(A) /\ Hits(s, B) = Cardinality(H)
  BY DEF Hits
<1> HIDE DEF A, H, n
<1>6. Cardinality(H \cup {n}) = Cardinality(H) + 1
  BY <1>2, <1>3, FS_AddElement
<1>7. /\ x \in B => Cardinality(A) = Cardinality(H) + 1
      /\ x \notin B => Cardinality(A) = Cardinality(H)
  BY <1>4, <1>6
<1>8. Hits(a, B) = Hits(s, B) + One(x \in B)
  BY <1>2, <1>5, <1>7 DEF One
<1> QED
  BY <1>8 DEF a

(* ... one less there ... *)
LEMMA HitsFront ==
    ASSUME NEW S, NEW s \in Seq(S), s # <<>>, NEW B
    PROVE  /\ Front(s) \in Seq(S) /\ Last(s) \in S /\ Len(Front(s)) = Len(s) - 1
           /\ Hits(s, B) = Hits(Front(s), B) + One(Last(s) \in B)
<1>1. Len(s) \in Nat \ {0} /\ DOMAIN s = 1 .. Len(s) /\ \A i \in 1 .. Len(s) : s[i] \in S
  BY EmptySeq, LenProperties
<1>2. /\ Front(s) \in Seq(S) /\ Len(Front(s)) = Len(s) - 1
      /\ \A i \in 1 .. Len(s) - 1 : Front(s)[i] = s[i]
  BY <1>1, SubSeqProperties DEF Front
<1>3. Last(s) \in S /\ Last(s) = s[Len(s)]
  BY <1>1 DEF Last
<1> DEFINE a == Append(Front(s), Last(s))
<1>4. /\ a \in Seq(S) /\ Len(a) = Len(s) - 1 + 1
      /\ \A i \in 1 .. Len(s) - 1 : a[i] = s[i]
      /\ a[Len(s) - 1 + 1] = s[Len(s)]
  BY <1>2, <1>3, AppendProperties
<1> HIDE DEF a
<1>5. Len(a) = Len(s) /\ \A i \in 1 .. Len(a) : a[i] = s[i]
  BY <1>1, <1>4
<1>6. a = s
  BY <1>4, <1>5, SeqEqual
<1>7. Hits(a, B) = Hits(Front(s), B) + One(Last(s) \in B)
  BY <1>2, <1>3, HitsAppend DEF a
<1> QED
  BY <1>2, <1>3, <1>6, <1>7

(* ... and one less at the beginning. *)
LEMMA HitsTail ==
    ASSUME NEW S, NEW s \in Seq(S), s # <<>>, NEW B
    PROVE  /\ Tail(s) \in Seq(S) /\ Head(s) \in S /\ Len(Tail(s)) = Len(s) - 1
           /\ Hits(s, B) = Hits(Tail(s), B) + One(Head(s) \in B)
<1> DEFINE t == Tail(s)
           T == {i \in DOMAIN t : t[i] \in B}
           H == {i \in DOMAIN s : s[i] \in B}
<1>1. /\ Len(s) \in Nat \ {0} /\ DOMAIN s = 1 .. Len(s) /\ Head(s) = s[1] /\ Head(s) \in S
      /\ t \in Seq(S) /\ Len(t) = Len(s) - 1
      /\ \A i \in 1 .. Len(s) - 1 : t[i] = s[i + 1]
  BY EmptySeq, LenProperties, HeadTailProperties
<1>2. DOMAIN t = 1 .. Len(s) - 1
  BY <1>1, LenProperties
<1>3. IsFiniteSet(T) /\ IsFiniteSet(H) /\ Cardinality(H) \in Nat /\ Cardinality(T) \in Nat
  BY <1>1, HitsNat, FS_CardinalityType
<1> HIDE DEF t
<1> DEFINE f == [i \in T |-> i + 1]
<1>4. f \in Bijection(T, H \ {1})
  <2>1. f \in [T -> H \ {1}]
    BY <1>1, <1>2
  <2>2. \A i, j \in T : f[i] = f[j] => i = j
    BY <1>2
  <2>3. \A k \in H \ {1} : \E i \in T : f[i] = k
    <3> SUFFICES ASSUME NEW k \in H \ {1} PROVE \E i \in T : f[i] = k
      OBVIOUS
    <3>1. k - 1 \in T
      BY <1>1, <1>2
    <3> QED
      BY <3>1
  <2> HIDE DEF f
  <2> QED
    BY <2>1, <2>2, <2>3 DEF Bijection, Injection, Surjection, IsInjective
<1>5. Cardinality(H \ {1}) = Cardinality(T)
  BY <1>3, <1>4, FS_Bijection DEF ExistsBijection
<1>6. Cardinality(H \ {1}) = IF 1 \in H THEN Cardinality(H) - 1 ELSE Cardinality(H)
  BY <1>3, FS_RemoveElement
<1>7. 1 \in H <=> Head(s) \in B
  BY <1>1
<1>8. Hits(t, B) = Cardinality(T) /\ Hits(s, B) = Cardinality(H)
  BY DEF Hits
<1> HIDE DEF T, H
<1> QED
  BY <1>1, <1>3, <1>5, <1>6, <1>7, <1>8 DEF One, t

(* Where s has its elements decides. *)
LEMMA HitsSame ==
    ASSUME NEW s, NEW B, NEW C, \A i \in DOMAIN s : s[i] \in B <=> s[i] \in C
    PROVE  Hits(s, B) = Hits(s, C)
<1>1. {i \in DOMAIN s : s[i] \in B} = {i \in DOMAIN s : s[i] \in C}
  OBVIOUS
<1> QED
  BY <1>1 DEF Hits

--------------------------------------------------------------------------------
Early == {"toAsync", "init", "create", "start", "toSync", "stop", "branch"}
WithDict == {"put", "full"}
CallType ==
    [phase : Early \cup WithDict \cup {"idle"}, metric : Metrics \cup {None},
     dict : Dicts \cup {0}, seen : Nat]
WorkerPhases == {"top", "get", "late", "group", "dead"}
FlushPlaces == {"none", "try", "handler", "force", "final"}
WorkerType ==
    [phase : WorkerPhases, batch : Seq(Dicts), done : Nat, groups : [Metrics -> 0 .. 2],
     at : FlushPlaces]
Fates == {"direct", "raised", "queued", "dropped"}

(* The dicts that were filled in at least once: no other is anywhere. *)
Filled == {b \in Dicts : dict[b] # None}

CollectorShape ==
    /\ mode \in {"sync", "async"} /\ stopped \in BOOLEAN \cup {None} /\ queues \in Nat
    /\ queue = None \/ queue \in Seq(Filled)
    /\ Len(Waiting) <= MaxQueueSize
    /\ orphans \in Seq(Filled)
    /\ pool \in Seq(Filled) /\ Len(pool) <= PoolSize
    /\ dict \in [Dicts -> Metrics \cup {None}]
    /\ call \in [Threads -> CallType]
    /\ worker \in Seq(WorkerType)
    /\ counted \in [Metrics -> 0 .. 2]
    /\ fate \in [Metrics -> Fates \cup {None}]
    /\ dropped \in Nat /\ refusals \in 0 .. MaxRefusals

(* Only a refusal keeps a batch that is full. *)
WorkerFits(r, filled, n) ==
    /\ r.batch \in Seq(filled)
    /\ r.done <= Len(r.batch) /\ Len(r.batch) <= BatchSize + n
    /\ r.phase # "group" => r.done = 0 /\ Len(r.batch) < BatchSize + n
BatchesOK == \A w \in DOMAIN worker : WorkerFits(worker[w], Filled, refusals)

(* What a call has in hand in its phases; no two record the same metric. *)
CallsOK ==
    \A t \in Threads :
        /\ call[t].phase = "idle" => call[t] = Idle
        /\ call[t].phase # "idle" => call[t].metric \in Metrics /\ fate[call[t].metric] = None
        /\ call[t].phase \in WithDict => call[t].dict \in Filled /\ queue # None
        /\ call[t].phase \notin WithDict => call[t].dict = 0
        /\ \A u \in Threads \ {t} : call[u].metric = call[t].metric => call[t].metric = None

(* The dict that a metric may be given is new until its call has one. *)
Taken(b) == fate[b] # None \/ \E t \in Threads : call[t].metric = b /\ call[t].phase \in WithDict
OnlyTaken == \A b \in Filled : Taken(b)

(* A second worker comes only after a second queue. *)
WorkersOK ==
    /\ queue = None <=> queues = 0
    /\ queues = 0 => worker = <<>> /\ \A t \in Threads : call[t].phase # "start"
    /\ queues <= 1 =>
         /\ Len(worker) <= 1
         /\ \A t \in Threads : call[t].phase = "start" =>
              worker = <<>> /\ \A u \in Threads \ {t} : call[u].phase # "start"

Drops == Cardinality({m \in Metrics : fate[m] = "dropped"})

DropsShow ==
    /\ dropped <= Drops /\ (Drops > 0 => dropped > 0)
    /\ \A t \in Threads : call[t].seen <= Drops

(* All this holds whatever fails and however many queues there are ... *)
CollectorFrame ==
    CollectorShape /\ BatchesOK /\ CallsOK /\ OnlyTaken /\ WorkersOK /\ DropsShow

(* ... and this until a flush fails or a queue is replaced: a dict is where *)
(* it is said to be, and in one place ...                                   *)
Holders(b) == {t \in Threads : call[t].dict = b}
Load(b) == Hits(pool, {b}) + Hits(Waiting, {b}) + Hits(Pending, {b}) + Cardinality(Holders(b))
OneEach == \A b \in Dicts : Load(b) <= 1

(* ... so that it still describes what its call filled in ... *)
InHand == \A t \in Threads : call[t].phase \in WithDict => dict[call[t].dict] = call[t].metric

(* ... and every metric is in one place. *)
Of(m) == {b \in Dicts : dict[b] = m}
Trace(m) == counted[m] + First.groups[m] + Hits(Waiting, Of(m)) + Hits(Pending, Of(m))
Traced == \A m \in Metrics : Trace(m) = One(fate[m] \in {"direct", "queued"})
Exact == OneEach /\ InHand /\ Traced

CollectorInv == CollectorFrame /\ (Intact => Exact)
--------------------------------------------------------------------------------
(* What the constants are, once for all. *)
LEMMA DictsFacts ==
    /\ IsFiniteSet(Threads) /\ Cardinality(Threads) \in Nat
    /\ Dicts = Metrics /\ Dicts \subseteq Nat /\ 0 \notin Dicts /\ None \notin Seq(Dicts)
    /\ MaxQueueSize \in Nat \ {0} /\ BatchSize \in Nat \ {0} /\ PoolSize \in Nat /\ MaxRefusals \in Nat
    /\ None \notin Metrics /\ None \notin Fates
<1>1. IsFiniteSet(Threads) /\ Cardinality(Threads) \in Nat
  BY AsyncMetricsAssumption, FS_CardinalityType
<1>2. Dicts = Metrics /\ Dicts \subseteq Nat /\ 0 \notin Dicts
  BY AsyncMetricsAssumption DEF Dicts, Metrics
<1>3. None \notin Seq(Dicts)
  <2>1. ASSUME None \in Seq(Dicts) PROVE FALSE
    BY <1>2, <2>1, SeqMonotonic, AsyncMetricsAssumption
  <2> QED
    BY <2>1
<1> QED
  BY <1>1, <1>2, <1>3, AsyncMetricsAssumption DEF Metrics, Fates

LEMMA Limits ==
    /\ MaxQueueSize \in Nat \ {0} /\ BatchSize \in Nat \ {0} /\ PoolSize \in Nat /\ MaxRefusals \in Nat
  BY AsyncMetricsAssumption

(* A sequence of dicts that were filled in. *)
LEMMA FilledSeq ==
    /\ None \notin Seq(Filled) /\ <<>> \in Seq(Filled) /\ Len(<<>>) = 0
    /\ \A s \in Seq(Filled) : s \in Seq(Dicts)
    /\ Filled \subseteq Dicts
<1>1. Filled \subseteq Dicts
  BY DEF Filled
<1>2. \A s \in Seq(Filled) : s \in Seq(Dicts)
  BY <1>1, SeqMonotonic
<1> QED
  BY <1>1, <1>2, DictsFacts, EmptySeq

LEMMA FilledSame == ASSUME UNCHANGED dict PROVE Filled' = Filled
  BY DEF Filled

(* The forms that a worker's record takes. *)
LEMMA WorkerForms ==
    ASSUME NEW r \in WorkerType, NEW ph \in WorkerPhases, NEW at \in FlushPlaces
    PROVE  /\ [r EXCEPT !.phase = ph] \in WorkerType
           /\ [r EXCEPT !.phase = ph].phase = ph /\ [r EXCEPT !.phase = ph].batch = r.batch
           /\ [r EXCEPT !.phase = ph].done = r.done /\ [r EXCEPT !.phase = ph].groups = r.groups
           /\ Flushing(r, at) \in WorkerType
           /\ Flushing(r, at).phase = "group" /\ Flushing(r, at).batch = r.batch
           /\ Flushing(r, at).done = r.done /\ Flushing(r, at).groups = r.groups
  BY DEF WorkerType, WorkerPhases, FlushPlaces, Flushing

LEMMA RestingForm ==
    ASSUME NEW ph
    PROVE  /\ Resting(ph).phase = ph /\ Resting(ph).batch = <<>> /\ Resting(ph).done = 0
           /\ Resting(ph).groups = NoGroups
           /\ NoGroups \in [Metrics -> 0 .. 2] /\ \A m \in Metrics : NoGroups[m] = 0
           /\ ph \in WorkerPhases => Resting(ph) \in WorkerType
           /\ \A n \in Nat : WorkerFits(Resting(ph), Filled, n)
<1>1. NoGroups \in [Metrics -> 0 .. 2] /\ \A m \in Metrics : NoGroups[m] = 0
  BY DEF NoGroups
<1>2. <<>> \in Seq(Dicts) /\ <<>> \in Seq(Filled) /\ Len(<<>>) = 0
  BY EmptySeq
<1>3. /\ Resting(ph).phase = ph /\ Resting(ph).batch = <<>> /\ Resting(ph).done = 0
      /\ Resting(ph).groups = NoGroups
  BY DEF Resting
<1>4. ph \in WorkerPhases => Resting(ph) \in WorkerType
  BY <1>1, <1>2 DEF Resting, WorkerType, FlushPlaces
<1>5. \A n \in Nat : WorkerFits(Resting(ph), Filled, n)
  BY <1>2, <1>3, DictsFacts DEF WorkerFits
<1> QED
  BY <1>1, <1>3, <1>4, <1>5

(* A worker's record is replaced by r. *)
LEMMA WorkerMoves ==
    ASSUME CollectorShape, NEW w \in DOMAIN worker, NEW r \in WorkerType, Becomes(w, r)
    PROVE  /\ worker' \in Seq(WorkerType) /\ Len(worker') = Len(worker)
           /\ DOMAIN worker' = DOMAIN worker /\ DOMAIN worker = 1 .. Len(worker)
           /\ worker' # <<>> /\ worker # <<>> /\ Len(worker) \in Nat
           /\ \A v \in DOMAIN worker : worker'[v] = IF v = w THEN r ELSE worker[v]
<1>1. worker \in Seq(WorkerType) /\ Len(worker) \in Nat /\ DOMAIN worker = 1 .. Len(worker)
  BY LenProperties DEF CollectorShape
<1>2. worker' = [worker EXCEPT ![w] = r]
  BY DEF Becomes
<1>3. /\ worker' \in Seq(WorkerType) /\ Len(worker') = Len(worker)
      /\ \A v \in 1 .. Len(worker) : worker'[v] = IF v = w THEN r ELSE worker[v]
  BY <1>1, <1>2, ExceptSeq
<1>4. DOMAIN worker' = 1 .. Len(worker)
  BY <1>3, LenProperties
<1>5. Len(worker) # 0 /\ Len(<<>>) = 0
  BY <1>1, EmptySeq
<1> QED
  BY <1>1, <1>3, <1>4, <1>5

(* A thread's call goes on as x. *)
LEMMA CallMoves ==
    ASSUME CollectorShape, NEW t \in Threads, NEW x \in CallType, call' = [call EXCEPT ![t] = x]
    PROVE  /\ call' \in [Threads -> CallType]
           /\ \A u \in Threads : call'[u] = IF u = t THEN x ELSE call[u]
  BY DEF CollectorShape

(* A thread with no call under way. *)
LEMMA IdleTyped ==
    /\ Idle \in CallType
    /\ Idle.phase = "idle" /\ Idle.metric = None /\ Idle.dict = 0 /\ Idle.seen = 0
    /\ "idle" \notin WithDict /\ "idle" # "start" /\ "start" \notin WithDict
  BY DEF Idle, CallType, WithDict

(* A call goes on with a metric of its own. *)
LEMMA CallsGoOn ==
    ASSUME CollectorFrame, NEW t \in Threads, NEW x \in CallType, call' = [call EXCEPT ![t] = x],
           UNCHANGED fate, queue # None => queue' # None, Filled \subseteq Filled',
           x.phase # "idle", x.metric \in Metrics, fate[x.metric] = None,
           \A u \in Threads \ {t} : call[u].metric # x.metric,
           x.phase \in WithDict => x.dict \in Filled' /\ queue' # None,
           x.phase \notin WithDict => x.dict = 0
    PROVE  CallsOK'
<1>1. \A u \in Threads : call'[u] = IF u = t THEN x ELSE call[u]
  BY CallMoves DEF CollectorFrame
<1>2. ASSUME NEW u \in Threads
      PROVE  /\ call'[u].phase = "idle" => call'[u] = Idle
             /\ call'[u].phase # "idle" => call'[u].metric \in Metrics /\ fate'[call'[u].metric] = None
             /\ call'[u].phase \in WithDict => call'[u].dict \in Filled' /\ queue' # None
             /\ call'[u].phase \notin WithDict => call'[u].dict = 0
  <2>1. CASE u = t
    BY <1>1, <2>1
  <2>2. CASE u # t
    BY <1>1, <2>2 DEF CollectorFrame, CallsOK
  <2> QED
    BY <2>1, <2>2
<1>3. ASSUME NEW u \in Threads, NEW v \in Threads \ {u}, call'[v].metric = call'[u].metric
      PROVE  call'[u].metric = None
  BY <1>1, <1>3 DEF CollectorFrame, CallsOK
<1> QED
  BY <1>2, <1>3 DEF CallsOK

(* ... and keeps what it has. *)
LEMMA TakenKept ==
    ASSUME CollectorFrame, NEW t \in Threads, NEW x \in CallType, call' = [call EXCEPT ![t] = x],
           UNCHANGED fate,
           call[t].phase \in WithDict => x.phase \in WithDict /\ x.metric = call[t].metric
    PROVE  \A b \in Dicts : Taken(b) => Taken(b)'
<1>1. \A u \in Threads : call'[u] = IF u = t THEN x ELSE call[u]
  BY CallMoves DEF CollectorFrame
<1> SUFFICES ASSUME NEW b \in Dicts, Taken(b) PROVE Taken(b)'
  OBVIOUS
<1>2. CASE fate[b] # None
  BY <1>2 DEF Taken
<1>3. ASSUME NEW u \in Threads, call[u].metric = b, call[u].phase \in WithDict PROVE Taken(b)'
  <2>1. call'[u].metric = b /\ call'[u].phase \in WithDict
    BY <1>1, <1>3
  <2> QED
    BY <2>1 DEF Taken
<1> QED
  BY <1>2, <1>3 DEF Taken

(* No thread but one about to start a worker changes what is said of them. *)
LEMMA WorkersKept ==
    ASSUME CollectorFrame, UNCHANGED queues, queue = None <=> queue' = None,
           Len(worker') = Len(worker), worker = <<>> => worker' = <<>>,
           \A t \in Threads : call'[t].phase = "start" => call[t].phase = "start"
    PROVE  WorkersOK'
  BY DEF CollectorFrame, WorkersOK

(* The drops are finite. *)
LEMMA DropsNat == Drops \in Nat /\ IsFiniteSet({m \in Metrics : fate[m] = "dropped"})
<1>1. IsFiniteSet(Metrics)
  BY FS_Interval, AsyncMetricsAssumption DEF Metrics
<1>2. {m \in Metrics : fate[m] = "dropped"} \in SUBSET Metrics
  OBVIOUS
<1> QED
  BY <1>1, <1>2, FS_Subset, FS_CardinalityType DEF Drops

(* The drops so far, when a call has ended. *)
LEMMA DropsEnd ==
    ASSUME NEW n \in Metrics, NEW how, fate[n] = None,
           \A m \in Metrics : fate'[m] = IF m = n THEN how ELSE fate[m]
    PROVE  Drops' = Drops + One(how = "dropped")
<1> DEFINE D == {m \in Metrics : fate[m] = "dropped"}
           E == {m \in Metrics : fate'[m] = "dropped"}
<1>1. IsFiniteSet(D) /\ Cardinality(D) \in Nat
  BY DropsNat DEF Drops
<1>2. n \notin D
  BY DictsFacts DEF Fates
<1>3. (how = "dropped" => E = D \cup {n}) /\ (how # "dropped" => E = D)
  BY <1>2
<1>4. Drops = Cardinality(D) /\ Drops' = Cardinality(E)
  BY DEF Drops
<1> HIDE DEF D, E
<1>5. Cardinality(D \cup {n}) = Cardinality(D) + 1
  BY <1>1, <1>2, FS_AddElement
<1>6. /\ how = "dropped" => Cardinality(E) = Cardinality(D) + 1
      /\ how # "dropped" => Cardinality(E) = Cardinality(D)
  BY <1>3, <1>5
<1> QED
  BY <1>1, <1>4, <1>6 DEF One

(* ... when none has ended. *)
LEMMA DropsSame == ASSUME UNCHANGED fate PROVE Drops' = Drops
  BY DEF Drops

(* No call ends, and none is dropped. *)
LEMMA DropsKept ==
    ASSUME CollectorFrame, UNCHANGED <<dropped, fate>>, NEW t \in Threads, NEW x \in CallType,
           call' = [call EXCEPT ![t] = x], x.seen \in {0, call[t].seen, dropped}
    PROVE  DropsShow'
<1>1. \A u \in Threads : call'[u] = IF u = t THEN x ELSE call[u]
  BY CallMoves DEF CollectorFrame
<1>2. Drops' = Drops /\ Drops \in Nat
  BY DropsSame, DropsNat
<1> QED
  BY <1>1, <1>2 DEF CollectorFrame, DropsShow

(* A call ends. *)
LEMMA CallEnds ==
    ASSUME CollectorFrame, NEW t \in Threads, NEW how \in Fates, call[t].phase # "idle", End(t, how),
           UNCHANGED dict, queue # None => queue' # None
    PROVE  /\ call' \in [Threads -> CallType] /\ fate' \in [Metrics -> Fates \cup {None}]
           /\ CallsOK' /\ OnlyTaken'
           /\ call[t].metric \in Metrics /\ fate[call[t].metric] = None
           /\ \A m \in Metrics : fate'[m] = IF m = call[t].metric THEN how ELSE fate[m]
           /\ \A u \in Threads : call'[u] = IF u = t THEN Idle ELSE call[u]
<1>1. call[t].metric \in Metrics /\ fate[call[t].metric] = None
  BY DEF CollectorFrame, CallsOK
<1>2. /\ fate' \in [Metrics -> Fates \cup {None}]
      /\ \A m \in Metrics : fate'[m] = IF m = call[t].metric THEN how ELSE fate[m]
  BY <1>1 DEF CollectorFrame, CollectorShape, End
<1>3. call' \in [Threads -> CallType] /\ \A u \in Threads : call'[u] = IF u = t THEN Idle ELSE call[u]
  BY CallMoves, IdleTyped DEF CollectorFrame, End
<1>4. Filled' = Filled
  BY FilledSame
<1>5. ASSUME NEW u \in Threads
      PROVE  /\ call'[u].phase = "idle" => call'[u] = Idle
             /\ call'[u].phase # "idle" => call'[u].metric \in Metrics /\ fate'[call'[u].metric] = None
             /\ call'[u].phase \in WithDict => call'[u].dict \in Filled' /\ queue' # None
             /\ call'[u].phase \notin WithDict => call'[u].dict = 0
  <2>1. CASE u = t
    BY <1>3, <2>1, IdleTyped
  <2>2. CASE u # t
    <3>1. call[u].metric = call[t].metric => call[t].metric = None
      BY <2>2 DEF CollectorFrame, CallsOK
    <3>2. call[u].metric # call[t].metric
      BY <1>1, <3>1, DictsFacts
    <3>3. call'[u] = call[u]
      BY <1>3, <2>2
    <3>4. call[u].phase # "idle" => call[u].metric \in Metrics /\ fate'[call[u].metric] = None
      BY <1>2, <3>2 DEF CollectorFrame, CallsOK
    <3> QED
      BY <1>4, <3>3, <3>4 DEF CollectorFrame, CallsOK
  <2> QED
    BY <2>1, <2>2
<1>6. ASSUME NEW u \in Threads, NEW v \in Threads \ {u}, call'[v].metric = call'[u].metric
      PROVE  call'[u].metric = None
  BY <1>3, <1>6, IdleTyped DEF CollectorFrame, CallsOK
<1>7. CallsOK'
  BY <1>5, <1>6 DEF CallsOK
<1>8. OnlyTaken'
  <2> SUFFICES ASSUME NEW b \in Filled' PROVE Taken(b)'
    BY DEF OnlyTaken
  <2>1. b \in Filled /\ b \in Metrics /\ Taken(b)
    BY <1>4, DictsFacts, FilledSeq DEF CollectorFrame, OnlyTaken
  <2>2. CASE b = call[t].metric
    <3>1. fate'[b] # None
      BY <1>2, <2>1, <2>2, DictsFacts
    <3> QED
      BY <3>1 DEF Taken
  <2>3. CASE fate[b] # None
    <3>1. fate'[b] # None
      BY <1>2, <2>1, <2>3, DictsFacts
    <3> QED
      BY <3>1 DEF Taken
  <2>4. ASSUME NEW u \in Threads, call[u].metric = b, call[u].phase \in WithDict, b # call[t].metric
        PROVE  Taken(b)'
    <3>1. call'[u] = call[u]
      BY <1>3, <2>4
    <3> QED
      BY <2>4, <3>1 DEF Taken
  <2> QED
    BY <2>1, <2>2, <2>3, <2>4 DEF Taken
<1> QED
  BY <1>1, <1>2, <1>3, <1>7, <1>8

(* ... without a drop. *)
LEMMA EndsUndropped ==
    ASSUME CollectorFrame, NEW t \in Threads, NEW how \in Fates, how # "dropped",
           call[t].phase # "idle", End(t, how), UNCHANGED <<dropped, dict>>,
           queue # None => queue' # None
    PROVE  DropsShow'
<1>1. /\ call[t].metric \in Metrics /\ fate[call[t].metric] = None
      /\ \A m \in Metrics : fate'[m] = IF m = call[t].metric THEN how ELSE fate[m]
      /\ \A u \in Threads : call'[u] = IF u = t THEN Idle ELSE call[u]
  BY CallEnds
<1>2. Drops' = Drops + One(how = "dropped") /\ Drops \in Nat
  BY <1>1, DropsEnd, DropsNat
<1>3. Drops' = Drops
  BY <1>2 DEF One
<1> QED
  BY <1>1, <1>2, <1>3, IdleTyped DEF CollectorFrame, DropsShow

(* The places of dicts that stay as they are are typed as they were. *)
LEMMA ShapeKept ==
    ASSUME CollectorShape, UNCHANGED <<queue, queues, orphans, pool, dict, worker, refusals>>,
           mode' \in {"sync", "async"}, stopped' \in BOOLEAN \cup {None},
           call' \in [Threads -> CallType], counted' \in [Metrics -> 0 .. 2],
           fate' \in [Metrics -> Fates \cup {None}], dropped' \in Nat
    PROVE  CollectorShape' /\ (BatchesOK => BatchesOK')
<1>1. Filled' = Filled /\ Waiting' = Waiting
  BY FilledSame DEF Waiting
<1>2. CollectorShape'
  BY <1>1 DEF CollectorShape
<1>3. BatchesOK => BatchesOK'
  BY <1>1 DEF BatchesOK
<1> QED
  BY <1>2, <1>3
--------------------------------------------------------------------------------
(* A new collector is empty, in either mode. *)
LEMMA FrameStarts == ASSUME CollectorInit PROVE CollectorFrame
<1>1. /\ <<>> \in Seq(Filled) /\ <<>> \in Seq(WorkerType) /\ Len(<<>>) = 0 /\ Filled = {}
      /\ DOMAIN <<>> = {}
  BY EmptySeq DEF CollectorInit, Filled
<1>2. /\ worker \in Seq(WorkerType) /\ Len(worker) <= 1
      /\ queues \in {0, 1} /\ (queue = None <=> queues = 0) /\ (queues = 0 => worker = <<>>)
      /\ queue = None \/ queue = <<>>
      /\ mode \in {"sync", "async"} /\ stopped \in BOOLEAN \cup {None}
      /\ \A w \in DOMAIN worker : worker[w] = Resting("top")
  <2>1. CASE mode = "sync" /\ queue = None /\ queues = 0 /\ stopped = None /\ worker = <<>>
    BY <1>1, <2>1
  <2>2. CASE mode = "async" /\ queue = <<>> /\ queues = 1 /\ stopped = FALSE /\ worker = <<Resting("top")>>
    <3>1. Resting("top") \in WorkerType
      BY RestingForm DEF WorkerPhases
    <3> DEFINE r == Resting("top")
    <3> HIDE DEF r
    <3>2. <<r>> \in Seq(WorkerType) /\ Len(<<r>>) = 1 /\ \A w \in DOMAIN <<r>> : <<r>>[w] = r
      BY <3>1 DEF r
    <3>3. queue # None
      BY <1>1, <2>2, FilledSeq
    <3>4. worker = <<r>> /\ stopped \in BOOLEAN /\ mode = "async" /\ queue = <<>> /\ queues = 1
      BY <2>2 DEF r
    <3>5. worker \in Seq(WorkerType) /\ Len(worker) = 1 /\ \A w \in DOMAIN worker : worker[w] = r
      BY <3>2, <3>4
    <3> QED
      BY <3>3, <3>4, <3>5 DEF r
  <2> QED
    BY <2>1, <2>2 DEF CollectorInit
<1>3. CollectorShape
  <2>1. Len(Waiting) = 0
    BY <1>1, <1>2 DEF Waiting
  <2>2. call \in [Threads -> CallType]
    BY IdleTyped DEF CollectorInit
  <2>3. counted \in [Metrics -> 0 .. 2]
    BY DEF CollectorInit, NoGroups
  <2>4. dict \in [Dicts -> Metrics \cup {None}] /\ fate \in [Metrics -> Fates \cup {None}]
    BY DEF CollectorInit
  <2>5. dropped \in Nat /\ refusals \in 0 .. MaxRefusals /\ pool = <<>> /\ orphans = <<>>
    BY DictsFacts DEF CollectorInit
  <2>6. /\ queue = None \/ queue \in Seq(Filled)
        /\ orphans \in Seq(Filled) /\ pool \in Seq(Filled) /\ Len(pool) <= PoolSize
        /\ Len(Waiting) <= MaxQueueSize /\ queues \in Nat
    <3>1. (queue = None \/ queue = <<>>) /\ queues \in {0, 1}
      BY <1>2
    <3>2. <<>> \in Seq(Filled) /\ Len(<<>>) = 0
      BY <1>1
    <3>3. Len(pool) = 0 /\ orphans \in Seq(Filled) /\ pool \in Seq(Filled)
      BY <2>5, <3>2
    <3>4. queue = None \/ queue \in Seq(Filled)
      BY <3>1, <3>2, Zenon
    <3>5. Len(pool) <= PoolSize /\ Len(Waiting) <= MaxQueueSize
      BY <2>1, <3>3, Limits
    <3> QED
      BY <3>1, <3>3, <3>4, <3>5
  <2>7. mode \in {"sync", "async"} /\ stopped \in BOOLEAN \cup {None} /\ worker \in Seq(WorkerType)
    BY <1>2
  <2>8. dropped \in Nat /\ refusals \in 0 .. MaxRefusals
    BY <2>5
  <2> QED
    BY <2>2, <2>3, <2>4, <2>6, <2>7, <2>8 DEF CollectorShape
<1>4. BatchesOK
  BY <1>2, RestingForm DEF CollectorInit, BatchesOK
<1>5. CallsOK
  BY IdleTyped DEF CollectorInit, CallsOK
<1>6. OnlyTaken
  BY <1>1 DEF OnlyTaken
<1>7. WorkersOK
  BY <1>2, IdleTyped DEF CollectorInit, WorkersOK
<1>8. Drops = 0
  <2>1. {m \in Metrics : fate[m] = "dropped"} = {}
    BY DictsFacts DEF CollectorInit, Fates
  <2> QED
    BY <2>1, FS_EmptySet DEF Drops
<1>9. DropsShow
  BY <1>8, IdleTyped DEF CollectorInit, DropsShow
<1> QED
  BY <1>3, <1>4, <1>5, <1>6, <1>7, <1>9 DEF CollectorFrame

(* record_* begins, with a change of mode to make or without: a call with a *)
(* metric that nobody has.                                                  *)
LEMMA RecordFrame ==
    ASSUME CollectorFrame, NEW t \in Threads, NEW m \in Metrics, Record(t, m) \/ CheckMode(t, m)
    PROVE  CollectorFrame' /\ \E x \in CallType :
             call' = [call EXCEPT ![t] = x] /\ x.dict = 0 /\ x.phase \notin WithDict
<1>1. PICK ph \in {"branch", "toAsync", "toSync"} : New(t, m) /\ Begin(t, m, ph)
  BY DEF Record, CheckMode
<1>2. UNCHANGED <<mode, queue, queues, orphans, stopped, pool, dict, worker, counted, dropped, fate, refusals>>
  BY DEF Record, CheckMode, workers
<1> DEFINE x == [Idle EXCEPT !.phase = ph, !.metric = m]
<1>3. /\ x \in CallType /\ x.phase = ph /\ x.metric = m /\ x.dict = 0 /\ x.seen = 0
      /\ x.phase \notin WithDict /\ x.phase # "start" /\ x.phase # "idle"
  BY DEF Idle, CallType, Early, WithDict
<1>4. call' = [call EXCEPT ![t] = x]
  BY <1>1 DEF Begin
<1>5. fate[m] = None /\ (\A u \in Threads : call[u].metric # m) /\ call[t] = Idle
  BY <1>1 DEF New, Begun
<1> HIDE DEF x
<1>6. call' \in [Threads -> CallType] /\ \A u \in Threads : call'[u] = IF u = t THEN x ELSE call[u]
  BY <1>3, <1>4, CallMoves DEF CollectorFrame
<1>7. CallsOK'
  <2>1. Filled \subseteq Filled'
    BY <1>2, FilledSame
  <2> QED
    BY <1>2, <1>3, <1>4, <1>5, <2>1, CallsGoOn
<1>8. OnlyTaken'
  <2>1. Filled' = Filled /\ Filled \subseteq Dicts
    BY <1>2, FilledSame, FilledSeq
  <2>2. \A b \in Dicts : Taken(b) => Taken(b)'
    BY <1>2, <1>3, <1>4, <1>5, IdleTyped, TakenKept
  <2> QED
    BY <2>1, <2>2 DEF CollectorFrame, OnlyTaken
<1>9. WorkersOK'
  BY <1>2, <1>3, <1>6, WorkersKept
<1>10. DropsShow'
  BY <1>2, <1>3, <1>4, DropsKept
<1>11. CollectorShape' /\ BatchesOK'
  <2>1. /\ mode' \in {"sync", "async"} /\ stopped' \in BOOLEAN \cup {None}
        /\ counted' \in [Metrics -> 0 .. 2] /\ fate' \in [Metrics -> Fates \cup {None}] /\ dropped' \in Nat
    BY <1>2 DEF CollectorFrame, CollectorShape
  <2> QED
    BY <1>2, <1>6, <2>1, ShapeKept DEF CollectorFrame
<1> QED
  BY <1>3, <1>4, <1>7, <1>8, <1>9, <1>10, <1>11 DEF CollectorFrame

(* A call goes on before it has a dict. *)
LEMMA EarlyCall ==
    ASSUME CollectorFrame, NEW t \in Threads, NEW ph \in Early, call[t].phase \in Early, GoOn(t, ph),
           UNCHANGED <<dict, fate, dropped>>, queue # None => queue' # None
    PROVE  /\ call' \in [Threads -> CallType] /\ CallsOK' /\ OnlyTaken' /\ DropsShow'
           /\ \A u \in Threads : u # t => call'[u] = call[u]
           /\ call'[t].phase = ph
           /\ \E x \in CallType : call' = [call EXCEPT ![t] = x] /\ x.dict = 0 /\ x.phase \notin WithDict
<1> DEFINE x == [call[t] EXCEPT !.phase = ph]
<1>1. /\ call[t] \in CallType /\ call[t].phase \notin WithDict /\ call[t].phase # "idle"
      /\ ph \notin WithDict /\ ph # "idle"
  BY DEF CollectorFrame, CollectorShape, Early, WithDict
<1>2. call[t].dict = 0 /\ call[t].metric \in Metrics /\ fate[call[t].metric] = None
  BY <1>1 DEF CollectorFrame, CallsOK
<1>3. x \in CallType /\ x.phase = ph /\ x.metric = call[t].metric /\ x.dict = 0 /\ x.seen = call[t].seen
  BY <1>1, <1>2 DEF CallType
<1>4. call' = [call EXCEPT ![t] = x]
  BY DEF GoOn
<1>5. \A u \in Threads \ {t} : call[u].metric # x.metric
  BY <1>2, <1>3, DictsFacts DEF CollectorFrame, CallsOK
<1> HIDE DEF x
<1>6. call' \in [Threads -> CallType] /\ \A u \in Threads : call'[u] = IF u = t THEN x ELSE call[u]
  BY <1>3, <1>4, CallMoves DEF CollectorFrame
<1>7. CallsOK'
  <2>1. Filled \subseteq Filled'
    BY FilledSame
  <2> QED
    BY <1>1, <1>2, <1>3, <1>4, <1>5, <2>1, CallsGoOn
<1>8. OnlyTaken'
  <2>1. Filled' = Filled /\ Filled \subseteq Dicts
    BY FilledSame, FilledSeq
  <2>2. \A b \in Dicts : Taken(b) => Taken(b)'
    BY <1>1, <1>3, <1>4, TakenKept
  <2> QED
    BY <2>1, <2>2 DEF CollectorFrame, OnlyTaken
<1>9. DropsShow'
  BY <1>3, <1>4, DropsKept
<1> QED
  BY <1>1, <1>3, <1>4, <1>6, <1>7, <1>8, <1>9

(* The mode changes, the worker is told to stop, or there is a queue to be  *)
(* seen or none.                                                            *)
LEMMA SwitchFrame ==
    ASSUME CollectorFrame, NEW t \in Threads,
           SwitchToAsync(t) \/ SwitchToSync(t) \/ Stop(t) \/ InitAsync(t)
    PROVE  CollectorFrame' /\ \E x \in CallType :
             call' = [call EXCEPT ![t] = x] /\ x.dict = 0 /\ x.phase \notin WithDict
<1>1. PICK ph \in {"init", "stop", "branch", "create"} : GoOn(t, ph)
  BY DEF SwitchToAsync, SwitchToSync, Stop, InitAsync
<1>2. /\ UNCHANGED <<queue, queues, orphans, pool, dict, worker, counted, dropped, fate, refusals>>
      /\ call[t].phase \in Early /\ ph \in Early /\ ph # "start"
  BY <1>1 DEF SwitchToAsync, SwitchToSync, Stop, InitAsync, workers, Early
<1>3. mode' \in {"sync", "async"} /\ stopped' \in BOOLEAN \cup {None}
  BY DEF SwitchToAsync, SwitchToSync, Stop, InitAsync, CollectorFrame, CollectorShape
<1>4. /\ call' \in [Threads -> CallType] /\ CallsOK' /\ OnlyTaken' /\ DropsShow'
      /\ \A u \in Threads : u # t => call'[u] = call[u]
      /\ call'[t].phase = ph
      /\ \E x \in CallType : call' = [call EXCEPT ![t] = x] /\ x.dict = 0 /\ x.phase \notin WithDict
  BY <1>1, <1>2, EarlyCall
<1>5. WorkersOK'
  BY <1>2, <1>4, WorkersKept
<1>6. CollectorShape' /\ BatchesOK'
  <2>1. counted' \in [Metrics -> 0 .. 2] /\ fate' \in [Metrics -> Fates \cup {None}] /\ dropped' \in Nat
    BY <1>2 DEF CollectorFrame, CollectorShape
  <2> QED
    BY <1>2, <1>3, <1>4, <2>1, ShapeKept DEF CollectorFrame
<1> QED
  BY <1>4, <1>5, <1>6 DEF CollectorFrame

(* A queue is made, the first or another. *)
LEMMA NewQueueFrame ==
    ASSUME CollectorFrame, NEW t \in Threads, NewQueue(t)
    PROVE  CollectorFrame' /\ \E x \in CallType :
             call' = [call EXCEPT ![t] = x] /\ x.dict = 0 /\ x.phase \notin WithDict
<1>1. /\ UNCHANGED <<mode, stopped, pool, dict, worker, counted, dropped, fate, refusals>>
      /\ call[t].phase = "create" /\ call[t].phase \in Early /\ "start" \in Early /\ GoOn(t, "start")
      /\ queue' = <<>> /\ queues' = queues + 1 /\ orphans' = orphans \o Waiting
  BY DEF NewQueue, workers, Early
<1>2. queue' \in Seq(Filled) /\ queue' # None /\ Len(queue') = 0
  BY <1>1, FilledSeq
<1>3. /\ call' \in [Threads -> CallType] /\ CallsOK' /\ OnlyTaken' /\ DropsShow'
      /\ \A u \in Threads : u # t => call'[u] = call[u]
      /\ call'[t].phase = "start"
      /\ \E x \in CallType : call' = [call EXCEPT ![t] = x] /\ x.dict = 0 /\ x.phase \notin WithDict
  BY <1>1, <1>2, EarlyCall
<1>4. queues \in Nat
  BY DEF CollectorFrame, CollectorShape
<1>5. WorkersOK'
  <2>1. CASE queues = 0
    BY <1>1, <1>2, <1>3, <2>1, EmptySeq DEF CollectorFrame, WorkersOK
  <2>2. CASE queues # 0
    BY <1>1, <1>2, <1>4, <2>2 DEF WorkersOK
  <2> QED
    BY <2>1, <2>2
<1>6. Filled' = Filled
  BY <1>1, FilledSame
<1>7. orphans' \in Seq(Filled)
  <2>1. orphans \in Seq(Filled) /\ Waiting \in Seq(Filled)
    BY FilledSeq DEF CollectorFrame, CollectorShape, Waiting
  <2> QED
    BY <1>1, <2>1, ConcatProperties
<1>8. CollectorShape'
  <2>1. Len(Waiting') <= MaxQueueSize
    BY <1>2, DictsFacts DEF Waiting
  <2> QED
    BY <1>1, <1>2, <1>3, <1>4, <1>6, <1>7, <2>1 DEF CollectorFrame, CollectorShape
<1>9. BatchesOK'
  BY <1>1, <1>6 DEF CollectorFrame, BatchesOK
<1> QED
  BY <1>3, <1>5, <1>8, <1>9 DEF CollectorFrame

(* A worker is started, the first or another. *)
LEMMA StartWorkerFrame ==
    ASSUME CollectorFrame, NEW t \in Threads, StartWorker(t)
    PROVE  CollectorFrame' /\ \E x \in CallType :
             call' = [call EXCEPT ![t] = x] /\ x.dict = 0 /\ x.phase \notin WithDict
<1>1. /\ UNCHANGED <<mode, queue, queues, orphans, pool, dict, counted, dropped, fate, refusals>>
      /\ call[t].phase = "start" /\ call[t].phase \in Early /\ "branch" \in Early /\ GoOn(t, "branch")
      /\ stopped' = FALSE /\ worker' = Append(worker, Resting("top"))
  BY DEF StartWorker, Early
<1>2. Resting("top") \in WorkerType /\ WorkerFits(Resting("top"), Filled, refusals)
  BY RestingForm DEF WorkerPhases, CollectorFrame, CollectorShape
<1>3. /\ worker \in Seq(WorkerType) /\ Len(worker) \in Nat /\ DOMAIN worker = 1 .. Len(worker)
      /\ queues \in Nat
  BY LenProperties DEF CollectorFrame, CollectorShape
<1> DEFINE r == Resting("top")
<1> HIDE DEF r
<1>4. /\ worker' \in Seq(WorkerType) /\ Len(worker') = Len(worker) + 1
      /\ \A w \in 1 .. Len(worker) : worker'[w] = worker[w]
      /\ worker'[Len(worker) + 1] = r
      /\ DOMAIN worker' = 1 .. Len(worker) + 1
  <2>1. r \in WorkerType /\ worker' = Append(worker, r)
    BY <1>1, <1>2 DEF r
  <2>2. worker' \in Seq(WorkerType) /\ Len(worker') = Len(worker) + 1
        /\ (\A w \in 1 .. Len(worker) : worker'[w] = worker[w])
        /\ worker'[Len(worker) + 1] = r
    BY <1>3, <2>1, AppendProperties
  <2> QED
    BY <2>2, LenProperties
<1>5. /\ call' \in [Threads -> CallType] /\ CallsOK' /\ OnlyTaken' /\ DropsShow'
      /\ \A u \in Threads : u # t => call'[u] = call[u]
      /\ call'[t].phase = "branch"
      /\ \E x \in CallType : call' = [call EXCEPT ![t] = x] /\ x.dict = 0 /\ x.phase \notin WithDict
  BY <1>1, EarlyCall
<1>6. WorkersOK'
  <2>1. queues # 0
    BY <1>1 DEF CollectorFrame, WorkersOK
  <2>2. CASE queues <= 1
    <3>1. worker = <<>> /\ \A u \in Threads \ {t} : call[u].phase # "start"
      BY <1>1, <2>2 DEF CollectorFrame, WorkersOK
    <3>2. Len(worker') = 1
      BY <1>4, <3>1, EmptySeq
    <3>3. \A u \in Threads : call'[u].phase # "start"
      BY <1>5, <3>1
    <3> QED
      BY <1>1, <2>1, <3>2, <3>3 DEF CollectorFrame, WorkersOK
  <2>3. CASE ~(queues <= 1)
    BY <1>1, <1>3, <2>1, <2>3 DEF CollectorFrame, WorkersOK
  <2> QED
    BY <2>2, <2>3
<1>7. Filled' = Filled /\ Waiting' = Waiting
  BY <1>1, FilledSame DEF Waiting
<1>8. CollectorShape'
  BY <1>1, <1>4, <1>5, <1>7 DEF CollectorFrame, CollectorShape
<1>9. BatchesOK'
  <2> SUFFICES ASSUME NEW w \in DOMAIN worker' PROVE WorkerFits(worker'[w], Filled, refusals)
    BY <1>1, <1>7 DEF BatchesOK
  <2>1. CASE w = Len(worker) + 1
    BY <1>2, <1>4, <2>1 DEF r
  <2>2. CASE w \in 1 .. Len(worker)
    BY <1>3, <1>4, <2>2 DEF CollectorFrame, BatchesOK
  <2> QED
    BY <1>3, <1>4, <2>1, <2>2
<1> QED
  BY <1>5, <1>6, <1>8, <1>9 DEF CollectorFrame

(* A call ends while every place of dicts stays as it is. *)
LEMMA EndFrame ==
    ASSUME CollectorFrame, NEW t \in Threads, RecordSync(t) \/ RecordSyncFails(t) \/ AssertFails(t)
    PROVE  CollectorFrame'
<1>1. PICK how \in {"direct", "raised"} : End(t, how)
  BY DEF RecordSync, RecordSyncFails, AssertFails
<1>2. /\ UNCHANGED <<mode, queue, queues, orphans, stopped, pool, dict, worker, dropped, refusals>>
      /\ call[t].phase # "idle" /\ how \in Fates /\ how # "dropped"
  BY <1>1 DEF RecordSync, RecordSyncFails, AssertFails, workers, Fates
<1>3. /\ call' \in [Threads -> CallType] /\ fate' \in [Metrics -> Fates \cup {None}]
      /\ CallsOK' /\ OnlyTaken' /\ call[t].metric \in Metrics
      /\ \A u \in Threads : call'[u] = IF u = t THEN Idle ELSE call[u]
  BY <1>1, <1>2, CallEnds
<1>4. DropsShow'
  BY <1>1, <1>2, EndsUndropped
<1>5. counted' \in [Metrics -> 0 .. 2]
  <2>1. counted \in [Metrics -> 0 .. 2]
    BY DEF CollectorFrame, CollectorShape
  <2>2. counted' = counted \/ counted' = [counted EXCEPT ![call[t].metric] = Least2(@ + 1)]
    BY DEF RecordSync, RecordSyncFails, AssertFails, workers
  <2> QED
    BY <1>3, <2>1, <2>2 DEF Least2
<1>6. WorkersOK'
  BY <1>2, <1>3, IdleTyped, WorkersKept
<1>7. CollectorShape' /\ BatchesOK'
  <2>1. mode' \in {"sync", "async"} /\ stopped' \in BOOLEAN \cup {None} /\ dropped' \in Nat
    BY <1>2 DEF CollectorFrame, CollectorShape
  <2> QED
    BY <1>2, <1>3, <1>5, <2>1, ShapeKept DEF CollectorFrame
<1> QED
  BY <1>3, <1>4, <1>6, <1>7 DEF CollectorFrame

(* queue.Full: the count of drops is read. *)
LEMMA FullFrame ==
    ASSUME CollectorFrame, NEW t \in Threads, Full(t)
    PROVE  CollectorFrame' /\ \E x \in CallType :
             /\ call' = [call EXCEPT ![t] = x] /\ call[t].phase \in WithDict
             /\ x.dict = call[t].dict /\ x.metric = call[t].metric
<1> DEFINE x == [call[t] EXCEPT !.phase = "full", !.seen = dropped]
<1>1. /\ call[t] \in CallType /\ call[t].phase = "put" /\ "put" \in WithDict /\ "full" \in WithDict
      /\ dropped \in Nat
  BY DEF Full, CollectorFrame, CollectorShape, WithDict
<1>2. call[t].dict \in Filled /\ call[t].metric \in Metrics /\ fate[call[t].metric] = None /\ queue # None
  BY <1>1 DEF CollectorFrame, CallsOK
<1>3. x \in CallType /\ x.phase = "full" /\ x.metric = call[t].metric
      /\ x.dict = call[t].dict /\ x.seen = dropped
  BY <1>1, <1>2 DEF CallType, WithDict
<1>4. /\ call' = [call EXCEPT ![t] = x]
      /\ UNCHANGED <<mode, queue, queues, orphans, stopped, pool, dict, worker, counted, dropped, fate,
                     refusals>>
  BY DEF Full, workers
<1>5. \A u \in Threads \ {t} : call[u].metric # x.metric
  BY <1>2, <1>3, DictsFacts DEF CollectorFrame, CallsOK
<1> HIDE DEF x
<1>6. call' \in [Threads -> CallType] /\ \A u \in Threads : call'[u] = IF u = t THEN x ELSE call[u]
  BY <1>3, <1>4, CallMoves DEF CollectorFrame
<1>7. Filled' = Filled /\ Filled \subseteq Dicts
  BY <1>4, FilledSame, FilledSeq
<1>8. CallsOK'
  BY <1>1, <1>2, <1>3, <1>4, <1>5, <1>7, CallsGoOn
<1>9. OnlyTaken'
  <2>1. \A b \in Dicts : Taken(b) => Taken(b)'
    BY <1>1, <1>3, <1>4, TakenKept
  <2> QED
    BY <1>7, <2>1 DEF CollectorFrame, OnlyTaken
<1>10. DropsShow'
  BY <1>3, <1>4, DropsKept
<1>11. WorkersOK'
  BY <1>3, <1>4, <1>6, WorkersKept
<1>12. CollectorShape' /\ BatchesOK'
  <2>1. /\ mode' \in {"sync", "async"} /\ stopped' \in BOOLEAN \cup {None} /\ dropped' \in Nat
        /\ counted' \in [Metrics -> 0 .. 2] /\ fate' \in [Metrics -> Fates \cup {None}]
    BY <1>4 DEF CollectorFrame, CollectorShape
  <2> QED
    BY <1>4, <1>6, <2>1, ShapeKept DEF CollectorFrame
<1> QED
  BY <1>1, <1>3, <1>4, <1>8, <1>9, <1>10, <1>11, <1>12 DEF CollectorFrame

(* put_nowait, on the queue or on one that was replaced. *)
LEMMA PutFrame == ASSUME CollectorFrame, NEW t \in Threads, Put(t) PROVE CollectorFrame'
<1>1. /\ UNCHANGED <<mode, queues, stopped, pool, dict, worker, counted, dropped, refusals>>
      /\ call[t].phase = "put" /\ End(t, "queued") /\ "queued" \in Fates /\ Enqueued(call[t].dict)
      /\ call[t].phase \in WithDict
  BY DEF Put, workers, Fates, WithDict
<1>2. call[t].dict \in Filled /\ queue \in Seq(Filled) /\ queue # None /\ Len(queue) \in Nat
  <2>1. call[t].dict \in Filled /\ queue # None
    BY <1>1 DEF CollectorFrame, CallsOK
  <2>2. queue \in Seq(Filled)
    BY <2>1 DEF CollectorFrame, CollectorShape
  <2> QED
    BY <2>1, <2>2, LenProperties
<1>3. /\ queue' \in Seq(Filled) /\ Len(queue') <= MaxQueueSize /\ queue' # None
      /\ orphans' \in Seq(Filled)
  <2>0. orphans \in Seq(Filled) /\ Waiting = queue /\ Len(Waiting) <= MaxQueueSize
    BY <1>2 DEF CollectorFrame, CollectorShape, Waiting
  <2>1. CASE Len(queue) < MaxQueueSize /\ queue' = Append(queue, call[t].dict) /\ UNCHANGED orphans
    <3>1. Append(queue, call[t].dict) \in Seq(Filled) /\ Len(Append(queue, call[t].dict)) = Len(queue) + 1
      BY <1>2, AppendProperties
    <3>2. queue' # None
      BY <2>1, <3>1, FilledSeq
    <3> QED
      BY <1>2, <2>0, <2>1, <3>1, <3>2, Limits
  <2>2. CASE orphans' = Append(orphans, call[t].dict) /\ UNCHANGED queue
    <3>1. Append(orphans, call[t].dict) \in Seq(Filled)
      BY <1>2, <2>0, AppendProperties
    <3> QED
      BY <1>2, <2>0, <2>2, <3>1
  <2> QED
    BY <1>1, <2>1, <2>2 DEF Enqueued
<1>4. /\ call' \in [Threads -> CallType] /\ fate' \in [Metrics -> Fates \cup {None}]
      /\ CallsOK' /\ OnlyTaken'
      /\ \A u \in Threads : call'[u] = IF u = t THEN Idle ELSE call[u]
  BY <1>1, <1>3, CallEnds
<1>5. DropsShow'
  BY <1>1, <1>3, EndsUndropped
<1>6. WorkersOK'
  BY <1>1, <1>2, <1>3, <1>4, IdleTyped, WorkersKept
<1>7. Filled' = Filled
  BY <1>1, FilledSame
<1>8. CollectorShape'
  <2>1. Len(Waiting') <= MaxQueueSize
    BY <1>3 DEF Waiting
  <2> QED
    BY <1>1, <1>3, <1>4, <1>7, <2>1 DEF CollectorFrame, CollectorShape
<1>9. BatchesOK'
  BY <1>1, <1>7 DEF CollectorFrame, BatchesOK
<1> QED
  BY <1>4, <1>5, <1>6, <1>8, <1>9 DEF CollectorFrame

(* _return_to_pool adds a dict to the pool or lets it go. *)
LEMMA PooledTyped ==
    ASSUME CollectorShape, NEW d \in Filled
    PROVE  Pooled(d) \in Seq(Filled) /\ Len(Pooled(d)) <= PoolSize
<1>1. pool \in Seq(Filled) /\ Len(pool) \in Nat /\ Len(pool) <= PoolSize
  BY LenProperties DEF CollectorShape
<1>2. Append(pool, d) \in Seq(Filled) /\ Len(Append(pool, d)) = Len(pool) + 1
  BY <1>1, AppendProperties
<1> QED
  BY <1>1, <1>2, DictsFacts DEF Pooled

(* The count of drops is written: at most one more than there were. *)
LEMMA DropFrame == ASSUME CollectorFrame, NEW t \in Threads, Drop(t) PROVE CollectorFrame'
<1>1. /\ UNCHANGED <<mode, queue, queues, orphans, stopped, dict, worker, counted, refusals>>
      /\ call[t].phase = "full" /\ End(t, "dropped") /\ "dropped" \in Fates
      /\ pool' = Pooled(call[t].dict) /\ dropped' = call[t].seen + 1
      /\ call[t].phase \in WithDict
  BY DEF Drop, workers, Fates, WithDict
<1>2. call[t].dict \in Filled
  BY <1>1 DEF CollectorFrame, CallsOK
<1>3. call[t].seen \in Nat /\ call[t].seen <= Drops
  BY DEF CollectorFrame, CollectorShape, DropsShow, CallType
<1>4. /\ call' \in [Threads -> CallType] /\ fate' \in [Metrics -> Fates \cup {None}]
      /\ CallsOK' /\ OnlyTaken' /\ call[t].metric \in Metrics /\ fate[call[t].metric] = None
      /\ \A m \in Metrics : fate'[m] = IF m = call[t].metric THEN "dropped" ELSE fate[m]
      /\ \A u \in Threads : call'[u] = IF u = t THEN Idle ELSE call[u]
  BY <1>1, CallEnds
<1>5. Drops' = Drops + 1 /\ Drops \in Nat
  <2>1. Drops' = Drops + One("dropped" = "dropped")
    BY <1>4, DropsEnd
  <2> QED
    BY <2>1, DropsNat DEF One
<1>6. dropped' \in Nat /\ dropped' <= Drops' /\ dropped' > 0
  BY <1>1, <1>3, <1>5
<1>7. DropsShow'
  <2>1. \A u \in Threads : call[u].seen \in Nat /\ call[u].seen <= Drops
    BY DEF CollectorFrame, DropsShow, CollectorShape, CallType
  <2>2. \A u \in Threads : call'[u].seen <= Drops'
    BY <1>4, <1>5, <2>1, IdleTyped
  <2> QED
    BY <1>6, <2>2 DEF DropsShow
<1>8. pool' \in Seq(Filled) /\ Len(pool') <= PoolSize
  BY <1>1, <1>2, PooledTyped DEF CollectorFrame
<1>9. Filled' = Filled /\ Waiting' = Waiting
  BY <1>1, FilledSame DEF Waiting
<1>10. CollectorShape'
  BY <1>1, <1>4, <1>6, <1>8, <1>9 DEF CollectorFrame, CollectorShape
<1>11. BatchesOK'
  BY <1>1, <1>9 DEF CollectorFrame, BatchesOK
<1>12. WorkersOK'
  BY <1>1, <1>4, IdleTyped, WorkersKept
<1> QED
  BY <1>4, <1>7, <1>10, <1>11, <1>12 DEF CollectorFrame

(* The pool when a caller has been given a dict. *)
Rest == IF pool # <<>> THEN Front(pool) ELSE pool
Given(t) == IF pool # <<>> THEN Last(pool) ELSE call[t].metric

(* A caller fills in a dict. *)
LEMMA FillFrame ==
    ASSUME CollectorFrame, NEW t \in Threads, Fill(t)
    PROVE  /\ CollectorFrame'
           /\ Given(t) \in Dicts /\ pool' = Rest
           /\ \A c \in Dicts : dict'[c] = IF c = Given(t) THEN call[t].metric ELSE dict[c]
           /\ call[t].dict = 0 /\ call[t].metric \in Metrics
           /\ \E x \in CallType : /\ call' = [call EXCEPT ![t] = x]
                                  /\ x.dict = Given(t) /\ x.metric = call[t].metric
<1> DEFINE b == Given(t)
           x == [call[t] EXCEPT !.phase = "put", !.dict = b]
<1>1. /\ UNCHANGED <<mode, queue, queues, orphans, stopped, worker, counted, dropped, fate, refusals>>
      /\ call[t].phase = "branch" /\ queue # None /\ pool' = Rest
      /\ dict' = [dict EXCEPT ![b] = call[t].metric] /\ call' = [call EXCEPT ![t] = x]
      /\ "put" \in WithDict /\ "branch" \notin WithDict
  BY DEF Fill, Rest, Given, workers, WithDict
<1>2. /\ call[t] \in CallType /\ call[t].dict = 0
      /\ call[t].metric \in Metrics /\ fate[call[t].metric] = None
  BY <1>1 DEF CollectorFrame, CollectorShape, CallsOK
<1>3. /\ pool \in Seq(Filled) /\ Len(pool) <= PoolSize /\ Len(pool) \in Nat
  BY LenProperties DEF CollectorFrame, CollectorShape
<1>4. /\ b \in Dicts /\ (b \in Filled \/ b = call[t].metric)
      /\ Rest \in Seq(Filled) /\ Len(Rest) <= PoolSize
  <2>1. CASE pool # <<>>
    <3>1. Front(pool) \in Seq(Filled) /\ Last(pool) \in Filled /\ Len(Front(pool)) = Len(pool) - 1
      BY <1>3, <2>1, HitsFront
    <3>2. Last(pool) \in Dicts
      BY <3>1, FilledSeq
    <3>3. b = Last(pool) /\ Rest = Front(pool)
      BY <2>1 DEF Given, Rest
    <3> QED
      BY <1>3, <3>1, <3>2, <3>3, Limits
  <2>2. CASE pool = <<>>
    BY <1>2, <1>3, <2>2, DictsFacts DEF Given, Rest
  <2> QED
    BY <2>1, <2>2
<1> HIDE DEF b
<1>5. x \in CallType /\ x.phase = "put" /\ x.metric = call[t].metric /\ x.dict = b /\ x.seen = call[t].seen
  BY <1>2, <1>4 DEF CallType, WithDict
<1>6. \A u \in Threads \ {t} : call[u].metric # x.metric
  BY <1>2, <1>5, DictsFacts DEF CollectorFrame, CallsOK
<1> HIDE DEF x
<1>7. call' \in [Threads -> CallType] /\ \A u \in Threads : call'[u] = IF u = t THEN x ELSE call[u]
  BY <1>1, <1>5, CallMoves DEF CollectorFrame
<1>8. /\ dict' \in [Dicts -> Metrics \cup {None}]
      /\ \A c \in Dicts : dict'[c] = IF c = b THEN call[t].metric ELSE dict[c]
  BY <1>1, <1>2, <1>4 DEF CollectorFrame, CollectorShape
<1>9. Filled' = Filled \cup {b} /\ Filled \subseteq Filled' /\ b \in Filled'
  <2>1. call[t].metric # None
    BY <1>2, DictsFacts
  <2>2. Filled' = {c \in Dicts : dict'[c] # None}
    BY DEF Filled
  <2>3. Filled' = Filled \cup {b}
    BY <1>4, <1>8, <2>1, <2>2 DEF Filled
  <2> QED
    BY <2>3
<1>10. \A s \in Seq(Filled) : s \in Seq(Filled')
  BY <1>9, SeqMonotonic
<1>11. CallsOK'
  <2>1. /\ UNCHANGED fate /\ queue' # None
        /\ x.phase # "idle" /\ x.phase \in WithDict /\ x.dict \in Filled'
        /\ x.metric \in Metrics /\ fate[x.metric] = None
    BY <1>1, <1>2, <1>5, <1>9
  <2> QED
    BY <1>1, <1>5, <1>6, <1>9, <2>1, CallsGoOn
<1>12. OnlyTaken'
  <2>1. \A c \in Dicts : Taken(c) => Taken(c)'
    BY <1>1, <1>5, TakenKept
  <2>2. Taken(call[t].metric)'
    BY <1>1, <1>5, <1>7 DEF Taken
  <2>3. ASSUME NEW c \in Filled' PROVE Taken(c)'
    <3>1. CASE c \in Filled
      BY <2>1, <3>1, FilledSeq DEF CollectorFrame, OnlyTaken
    <3>2. CASE c \notin Filled
      <4>1. c = call[t].metric
        BY <1>4, <1>9, <3>2
      <4>2. c = x.metric /\ call'[t] = x
        BY <1>5, <1>7, <4>1
      <4> QED
        BY <1>1, <1>5, <4>2 DEF Taken
    <3> QED
      BY <3>1, <3>2
  <2> QED
    BY <2>3 DEF OnlyTaken
<1>13. DropsShow'
  BY <1>1, <1>5, DropsKept
<1>14. WorkersOK'
  BY <1>1, <1>5, <1>7, WorkersKept
<1>15. CollectorShape'
  <2>1. Waiting' = Waiting /\ orphans \in Seq(Filled) /\ queue \in Seq(Filled)
    BY <1>1 DEF Waiting, CollectorFrame, CollectorShape
  <2>2. orphans' \in Seq(Filled') /\ queue' \in Seq(Filled') /\ pool' \in Seq(Filled')
    BY <1>1, <1>4, <1>10, <2>1
  <2> QED
    BY <1>1, <1>4, <1>7, <1>8, <2>1, <2>2 DEF CollectorFrame, CollectorShape
<1>16. BatchesOK'
  BY <1>1, <1>10 DEF CollectorFrame, BatchesOK, WorkerFits
<1> QED
  BY <1>1, <1>2, <1>4, <1>5, <1>8, <1>11, <1>12, <1>13, <1>14, <1>15, <1>16 DEF CollectorFrame, b

(* shutdown only sets the event. *)
LEMMA ShutdownFrame ==
    ASSUME CollectorFrame, Shutdown \/ UNCHANGED collector PROVE CollectorFrame'
<1>1. /\ UNCHANGED <<mode, queue, queues, orphans, pool, dict, call, worker, counted, dropped, fate,
                     refusals>>
      /\ stopped' = TRUE \/ stopped' = stopped
  BY DEF Shutdown, workers, collector
<1>2. CollectorShape' /\ BatchesOK'
  <2>1. stopped' \in BOOLEAN \cup {None}
    BY <1>1 DEF CollectorFrame, CollectorShape
  <2>2. /\ mode' \in {"sync", "async"} /\ counted' \in [Metrics -> 0 .. 2] /\ dropped' \in Nat
        /\ fate' \in [Metrics -> Fates \cup {None}] /\ call' \in [Threads -> CallType]
    BY <1>1 DEF CollectorFrame, CollectorShape
  <2> QED
    BY <1>1, <2>1, <2>2, ShapeKept DEF CollectorFrame
<1>3. CallsOK' /\ OnlyTaken'
  <2>1. Filled' = Filled
    BY <1>1, FilledSame
  <2> QED
    BY <1>1, <2>1 DEF CollectorFrame, CallsOK, OnlyTaken, Taken
<1>4. WorkersOK'
  BY <1>1, WorkersKept
<1>5. DropsShow'
  BY <1>1, DropsSame DEF CollectorFrame, DropsShow
<1> QED
  BY <1>2, <1>3, <1>4, <1>5 DEF CollectorFrame

(* A worker steps. *)
LEMMA WorkerFrame ==
    ASSUME CollectorFrame, NEW w \in DOMAIN worker, NEW r \in WorkerType, Becomes(w, r),
           UNCHANGED callers, UNCHANGED dict,
           refusals' \in 0 .. MaxRefusals, refusals <= refusals',
           WorkerFits(r, Filled, refusals'),
           queue' = None \/ queue' \in Seq(Filled), queue = None <=> queue' = None,
           Len(Waiting') <= MaxQueueSize,
           orphans' \in Seq(Filled), pool' \in Seq(Filled), Len(pool') <= PoolSize,
           counted' \in [Metrics -> 0 .. 2]
    PROVE  CollectorFrame'
<1>1. UNCHANGED <<mode, queues, stopped, call, dropped, fate>>
  BY DEF callers
<1>2. Filled' = Filled
  BY FilledSame
<1>3. /\ worker' \in Seq(WorkerType) /\ Len(worker') = Len(worker) /\ DOMAIN worker' = DOMAIN worker
      /\ worker # <<>>
      /\ \A v \in DOMAIN worker : worker'[v] = IF v = w THEN r ELSE worker[v]
  BY WorkerMoves DEF CollectorFrame
<1>4. CollectorShape'
  BY <1>1, <1>2, <1>3 DEF CollectorFrame, CollectorShape
<1>5. BatchesOK'
  <2> SUFFICES ASSUME NEW v \in DOMAIN worker PROVE WorkerFits(worker'[v], Filled, refusals')
    BY <1>2, <1>3 DEF BatchesOK
  <2>1. CASE v = w
    BY <1>3, <2>1
  <2>2. CASE v # w
    <3>1. worker'[v] = worker[v] /\ WorkerFits(worker[v], Filled, refusals)
      BY <1>3, <2>2 DEF CollectorFrame, BatchesOK
    <3>2. refusals \in Nat /\ refusals' \in Nat /\ Len(worker[v].batch) \in Nat
      BY <3>1, LenProperties DEF CollectorFrame, CollectorShape, WorkerFits
    <3> QED
      BY <3>1, <3>2, Limits DEF WorkerFits
  <2> QED
    BY <2>1, <2>2
<1>6. CallsOK' /\ OnlyTaken'
  BY <1>1, <1>2 DEF CollectorFrame, CallsOK, OnlyTaken, Taken
<1>7. WorkersOK'
  BY <1>1, <1>3, WorkersKept
<1>8. DropsShow'
  BY <1>1, DropsSame DEF CollectorFrame, DropsShow
<1> QED
  BY <1>4, <1>5, <1>6, <1>7, <1>8 DEF CollectorFrame

(* What a worker has. *)
LEMMA WorkerHas ==
    ASSUME CollectorFrame, NEW w \in DOMAIN worker
    PROVE  /\ worker[w] \in WorkerType /\ WorkerFits(worker[w], Filled, refusals)
           /\ worker[w].batch \in Seq(Dicts) /\ worker[w].batch \in Seq(Filled)
           /\ Len(worker[w].batch) \in Nat /\ worker[w].done \in Nat /\ refusals \in Nat
           /\ queue # None /\ queue \in Seq(Filled) /\ Waiting = queue
<1>1. worker \in Seq(WorkerType) /\ DOMAIN worker = 1 .. Len(worker) /\ Len(worker) \in Nat
  BY LenProperties DEF CollectorFrame, CollectorShape
<1>2. worker[w] \in WorkerType
  BY <1>1, ElementOfSeq
<1>3. WorkerFits(worker[w], Filled, refusals) /\ refusals \in Nat
  BY DEF CollectorFrame, CollectorShape, BatchesOK
<1>4. worker[w].batch \in Seq(Dicts) /\ worker[w].done \in Nat
  BY <1>2 DEF WorkerType
<1>5. Len(worker[w].batch) \in Nat /\ worker[w].batch \in Seq(Filled)
  BY <1>3, <1>4, LenProperties DEF WorkerFits
<1>6. worker # <<>>
  BY <1>1, EmptySeq
<1>7. queue # None
  BY <1>6 DEF CollectorFrame, WorkersOK
<1>8. queue \in Seq(Filled) /\ Waiting = queue
  BY <1>7 DEF CollectorFrame, CollectorShape, Waiting
<1> QED
  BY <1>2, <1>3, <1>4, <1>5, <1>7, <1>8

(* The worker's steps from phase to phase keep its batch. *)
LEMMA PhaseFrame ==
    ASSUME CollectorFrame, NEW w, Loop(w) \/ TimeOutGet(w) \/ EndOfIteration(w)
    PROVE  /\ CollectorFrame' /\ w \in DOMAIN worker
           /\ UNCHANGED <<queue, pool, dict, counted, call, fate>>
           /\ \E r \in WorkerType : /\ Becomes(w, r) /\ r.batch = worker[w].batch
                                    /\ r.done = worker[w].done /\ r.groups = worker[w].groups
<1>1. /\ UNCHANGED <<queue, orphans, pool, dict, counted, refusals>> /\ UNCHANGED callers
      /\ w \in DOMAIN worker /\ worker[w].phase # "group"
  BY DEF Loop, TimeOutGet, EndOfIteration, At
<1>2. /\ worker[w] \in WorkerType /\ WorkerFits(worker[w], Filled, refusals)
      /\ Len(worker[w].batch) \in Nat
  BY <1>1, WorkerHas
<1>3. PICK r \in WorkerType :
        /\ Becomes(w, r) /\ r.batch = worker[w].batch
        /\ r.done = worker[w].done /\ r.groups = worker[w].groups
  <2> DEFINE Same(r) == /\ r.batch = worker[w].batch
                        /\ r.done = worker[w].done /\ r.groups = worker[w].groups
  <2>1. \A p \in WorkerPhases : Moved(w, p) \in WorkerType /\ Same(Moved(w, p))
    <3> SUFFICES ASSUME NEW p \in WorkerPhases PROVE Moved(w, p) \in WorkerType /\ Same(Moved(w, p))
      OBVIOUS
    <3>1. "none" \in FlushPlaces
      BY DEF FlushPlaces
    <3> QED
      BY <1>2, <3>1, WorkerForms DEF Moved
  <2>2. \A a \in FlushPlaces : Flushing(worker[w], a) \in WorkerType /\ Same(Flushing(worker[w], a))
    <3>1. "top" \in WorkerPhases
      BY DEF WorkerPhases
    <3> QED
      BY <1>2, <3>1, WorkerForms
  <2>3. \/ \E p \in WorkerPhases : Becomes(w, Moved(w, p))
        \/ \E a \in FlushPlaces : Becomes(w, Flushing(worker[w], a))
    <3>1. {"get", "dead", "late", "top"} \subseteq WorkerPhases /\ {"final", "handler", "force"} \subseteq FlushPlaces
      BY DEF WorkerPhases, FlushPlaces
    <3>2. CASE Loop(w)
      BY <3>1, <3>2 DEF Loop
    <3>3. CASE TimeOutGet(w)
      BY <3>1, <3>3 DEF TimeOutGet
    <3>4. CASE EndOfIteration(w)
      BY <3>1, <3>4 DEF EndOfIteration
    <3> QED
      BY <3>2, <3>3, <3>4
  <2> QED
    BY <2>1, <2>2, <2>3
<1>4. WorkerFits(r, Filled, refusals')
  BY <1>1, <1>2, <1>3, Limits DEF WorkerFits
<1>5. /\ queue' = None \/ queue' \in Seq(Filled)
      /\ Len(Waiting') <= MaxQueueSize /\ orphans' \in Seq(Filled) /\ pool' \in Seq(Filled)
      /\ Len(pool') <= PoolSize /\ counted' \in [Metrics -> 0 .. 2]
      /\ refusals' \in 0 .. MaxRefusals /\ refusals <= refusals'
  <2>1. Waiting' = Waiting
    BY <1>1 DEF Waiting
  <2> QED
    BY <1>1, <2>1 DEF CollectorFrame, CollectorShape
<1>6. CollectorFrame'
  BY <1>1, <1>3, <1>4, <1>5, WorkerFrame
<1>7. UNCHANGED <<call, fate>>
  BY <1>1 DEF callers
<1> QED
  BY <1>1, <1>3, <1>6, <1>7

(* get moves a dict to the batch. *)
LEMMA GetFrame ==
    ASSUME CollectorFrame, NEW w, NEW b, Get(w, b)
    PROVE  /\ CollectorFrame' /\ w \in DOMAIN worker /\ worker[w].done = 0 /\ b \in Dicts
           /\ UNCHANGED <<pool, dict, counted, call, fate>>
           /\ \E r \in WorkerType : /\ Becomes(w, r) /\ r.batch = Append(worker[w].batch, b)
                                    /\ r.done = 0 /\ r.groups = worker[w].groups
<1>1. /\ UNCHANGED <<pool, dict, counted, refusals>> /\ UNCHANGED callers
      /\ w \in DOMAIN worker /\ worker[w].phase = "get" /\ Dequeued(b)
  BY DEF Get, At
<1>2. /\ worker[w] \in WorkerType /\ WorkerFits(worker[w], Filled, refusals)
      /\ worker[w].batch \in Seq(Filled) /\ Len(worker[w].batch) \in Nat /\ refusals \in Nat
      /\ queue \in Seq(Filled) /\ Waiting = queue /\ queue # None
  BY <1>1, WorkerHas
<1>3. worker[w].done = 0 /\ Len(worker[w].batch) < BatchSize + refusals
  BY <1>1, <1>2 DEF WorkerFits
<1>4. /\ b \in Filled /\ queue' \in Seq(Filled) /\ orphans' \in Seq(Filled)
      /\ Len(queue') <= MaxQueueSize
  <2>1. orphans \in Seq(Filled) /\ Len(queue) <= MaxQueueSize /\ Len(queue) \in Nat
    BY <1>2, LenProperties DEF CollectorFrame, CollectorShape
  <2>2. CASE queue # <<>> /\ b = Head(queue) /\ queue' = Tail(queue) /\ UNCHANGED orphans
    <3>1. Head(queue) \in Filled /\ Tail(queue) \in Seq(Filled) /\ Len(Tail(queue)) = Len(queue) - 1
      BY <1>2, <2>2, HeadTailProperties
    <3>2. Len(queue') <= MaxQueueSize
      BY <2>1, <2>2, <3>1, Limits
    <3> QED
      BY <2>1, <2>2, <3>1, <3>2
  <2>3. CASE orphans # <<>> /\ b = Head(orphans) /\ orphans' = Tail(orphans) /\ UNCHANGED queue
    <3>1. Head(orphans) \in Filled /\ Tail(orphans) \in Seq(Filled)
      BY <2>1, <2>3, HeadTailProperties
    <3> QED
      BY <1>2, <2>1, <2>3, <3>1
  <2> QED
    BY <1>1, <2>2, <2>3 DEF Dequeued
<1> DEFINE batch == Append(worker[w].batch, b)
           more == [worker[w] EXCEPT !.batch = Append(@, b)]
<1>5. batch \in Seq(Filled) /\ Len(batch) = Len(worker[w].batch) + 1
  BY <1>2, <1>4, AppendProperties
<1>6. batch \in Seq(Dicts) /\ b \in Dicts
  BY <1>4, <1>5, FilledSeq
<1>7. more = [worker[w] EXCEPT !.batch = batch]
  OBVIOUS
<1>8. Becomes(w, IF Len(more.batch) >= BatchSize THEN Flushing(more, "try") ELSE [more EXCEPT !.phase = "late"])
  BY DEF Get
<1> HIDE DEF batch, more
<1>9. more \in WorkerType /\ more.batch = batch /\ more.done = worker[w].done /\ more.groups = worker[w].groups
  BY <1>2, <1>6, <1>7 DEF WorkerType
<1>10. "try" \in FlushPlaces /\ "late" \in WorkerPhases
  BY DEF FlushPlaces, WorkerPhases
<1>11. PICK r \in WorkerType :
         /\ Becomes(w, r) /\ r.batch = batch /\ r.done = 0 /\ r.groups = worker[w].groups
         /\ r.phase = "group" \/ Len(batch) < BatchSize
  <2>1. CASE Len(batch) >= BatchSize
    <3>1. Becomes(w, Flushing(more, "try"))
      BY <1>8, <1>9, <2>1
    <3>2. /\ Flushing(more, "try") \in WorkerType /\ Flushing(more, "try").batch = more.batch
          /\ Flushing(more, "try").done = more.done /\ Flushing(more, "try").groups = more.groups
          /\ Flushing(more, "try").phase = "group"
      BY <1>9, <1>10, WorkerForms
    <3> QED
      BY <1>3, <1>9, <3>1, <3>2
  <2>2. CASE ~(Len(batch) >= BatchSize)
    <3> DEFINE l == [more EXCEPT !.phase = "late"]
    <3>1. Becomes(w, l)
      BY <1>8, <1>9, <2>2
    <3>2. /\ l \in WorkerType /\ l.batch = more.batch /\ l.done = more.done /\ l.groups = more.groups
      BY <1>9, <1>10, WorkerForms
    <3>3. Len(batch) < BatchSize
      BY <1>2, <1>5, <2>2, Limits
    <3> HIDE DEF l
    <3> QED
      BY <1>3, <1>9, <3>1, <3>2, <3>3
  <2> QED
    BY <2>1, <2>2
<1>12. WorkerFits(r, Filled, refusals')
  <2>1. r.batch \in Seq(Filled)
    BY <1>5, <1>11
  <2>2. /\ Len(r.batch) = Len(batch) /\ r.done = 0 /\ Len(batch) <= BatchSize + refusals
        /\ r.phase # "group" => Len(batch) < BatchSize + refusals
    BY <1>2, <1>3, <1>5, <1>11, Limits
  <2> QED
    BY <1>1, <1>2, <1>5, <2>1, <2>2 DEF WorkerFits
<1>13. /\ Len(Waiting') <= MaxQueueSize /\ queue' # None
       /\ pool' \in Seq(Filled) /\ Len(pool') <= PoolSize /\ counted' \in [Metrics -> 0 .. 2]
       /\ refusals' \in 0 .. MaxRefusals /\ refusals <= refusals'
  <2>1. queue' # None
    BY <1>4, FilledSeq
  <2>2. Waiting' = queue'
    BY <2>1 DEF Waiting
  <2> QED
    BY <1>1, <1>4, <2>1, <2>2 DEF CollectorFrame, CollectorShape
<1>14. CollectorFrame'
  BY <1>1, <1>2, <1>4, <1>11, <1>12, <1>13, WorkerFrame
<1>15. UNCHANGED <<call, fate>>
  BY <1>1 DEF callers
<1> QED
  BY <1>1, <1>3, <1>6, <1>11, <1>14, <1>15 DEF batch

(* _flush_batch moves a dict from the batch to the pool, or lets it go, and *)
(* its metric to the groups.                                                *)
LEMMA GroupFrame ==
    ASSUME CollectorFrame, NEW w, Group(w)
    PROVE  LET d == worker[w].batch[worker[w].done + 1]
           IN  /\ CollectorFrame' /\ w \in DOMAIN worker
               /\ d \in Filled /\ dict[d] \in Metrics
               /\ worker[w].done < Len(worker[w].batch) /\ pool' = Pooled(d)
               /\ UNCHANGED <<queue, dict, counted, call, fate>>
               /\ \E r \in WorkerType :
                    /\ Becomes(w, r) /\ r.batch = worker[w].batch /\ r.done = worker[w].done + 1
                    /\ \A m \in Metrics :
                         r.groups[m] = IF m = dict[d] THEN Least2(worker[w].groups[m] + 1)
                                       ELSE worker[w].groups[m]
<1> DEFINE k == worker[w].done + 1
           d == worker[w].batch[k]
           n == dict[d]
           g == [worker[w].groups EXCEPT ![n] = Least2(@ + 1)]
           r == [worker[w] EXCEPT !.done = k, !.groups = g]
<1>1. /\ UNCHANGED <<queue, orphans, dict, counted, refusals>> /\ UNCHANGED callers
      /\ w \in DOMAIN worker /\ worker[w].phase = "group" /\ worker[w].done < Len(worker[w].batch)
      /\ pool' = Pooled(d)
  BY DEF Group, At
<1>2. /\ worker[w] \in WorkerType /\ WorkerFits(worker[w], Filled, refusals)
      /\ worker[w].batch \in Seq(Filled) /\ Len(worker[w].batch) \in Nat /\ worker[w].done \in Nat
      /\ refusals \in Nat
  BY <1>1, WorkerHas
<1>3. k \in Nat /\ k \in 1 .. Len(worker[w].batch)
  BY <1>1, <1>2
<1>4. Becomes(w, r)
  <2>1. [worker[w] EXCEPT !.done = @ + 1, !.groups[dict[d]] = Least2(@ + 1)] = r
    BY <1>2 DEF WorkerType
  <2> QED
    BY <2>1 DEF Group
<1> HIDE DEF k
<1>5. d \in Filled
  BY <1>2, <1>3, ElementOfSeq
<1> HIDE DEF d
<1>6. n \in Metrics
  BY <1>5 DEF CollectorFrame, CollectorShape, Filled
<1> HIDE DEF n
<1>7. worker[w].groups \in [Metrics -> 0 .. 2]
  BY <1>2 DEF WorkerType
<1>8. /\ g \in [Metrics -> 0 .. 2]
      /\ \A m \in Metrics : g[m] = IF m = n THEN Least2(worker[w].groups[m] + 1) ELSE worker[w].groups[m]
  BY <1>6, <1>7 DEF Least2
<1> HIDE DEF g
<1>9. r \in WorkerType /\ r.batch = worker[w].batch /\ r.done = k /\ r.groups = g /\ r.phase = worker[w].phase
  BY <1>2, <1>3, <1>8 DEF WorkerType
<1> HIDE DEF r
<1>10. WorkerFits(r, Filled, refusals')
  BY <1>1, <1>2, <1>3, <1>9 DEF WorkerFits
<1>11. /\ queue' = None \/ queue' \in Seq(Filled)
       /\ Len(Waiting') <= MaxQueueSize /\ orphans' \in Seq(Filled)
       /\ counted' \in [Metrics -> 0 .. 2]
       /\ refusals' \in 0 .. MaxRefusals /\ refusals <= refusals'
  <2>1. Waiting' = Waiting
    BY <1>1 DEF Waiting
  <2> QED
    BY <1>1, <2>1 DEF CollectorFrame, CollectorShape
<1>12. pool' \in Seq(Filled) /\ Len(pool') <= PoolSize
  BY <1>1, <1>5, PooledTyped DEF CollectorFrame
<1>13. CollectorFrame'
  BY <1>1, <1>4, <1>9, <1>10, <1>11, <1>12, WorkerFrame
<1>14. UNCHANGED <<call, fate>>
  BY <1>1 DEF callers
<1> QED
  BY <1>1, <1>4, <1>5, <1>6, <1>8, <1>9, <1>13, <1>14 DEF n, d, k

(* What Prometheus has been told of stays within the model's count. *)
LEMMA ToldTyped ==
    ASSUME CollectorFrame, NEW w \in DOMAIN worker, NEW ms
    PROVE  Told(w, ms) \in [Metrics -> 0 .. 2] /\ worker[w].groups \in [Metrics -> 0 .. 2]
<1>1. worker[w].groups \in [Metrics -> 0 .. 2] /\ counted \in [Metrics -> 0 .. 2]
  BY WorkerHas DEF WorkerType, CollectorFrame, CollectorShape
<1>2. \A m \in Metrics : /\ Least2(counted[m] + worker[w].groups[m]) \in 0 .. 2
                         /\ counted[m] \in 0 .. 2
  BY <1>1 DEF Least2
<1> QED
  BY <1>1, <1>2 DEF Told

(* _update_prometheus_metrics counts what has been grouped; a failure keeps *)
(* the batch, with room for as many more as there were failures.            *)
LEMMA UpdateFrame ==
    ASSUME CollectorFrame, NEW w, Update(w) \/ \E ms \in SUBSET Metrics : UpdateFails(w, ms)
    PROVE  CollectorFrame'
<1>1. /\ UNCHANGED <<queue, orphans, pool, dict>> /\ UNCHANGED callers /\ w \in DOMAIN worker
      /\ worker[w].phase = "group"
      /\ \E ms \in SUBSET Metrics : counted' = Told(w, ms)
  BY DEF Update, UpdateFails, At
<1>2. /\ worker[w] \in WorkerType /\ WorkerFits(worker[w], Filled, refusals)
      /\ worker[w].batch \in Seq(Filled) /\ worker[w].batch \in Seq(Dicts)
      /\ Len(worker[w].batch) \in Nat /\ refusals \in Nat
  BY <1>1, WorkerHas
<1>3. /\ refusals' \in 0 .. MaxRefusals /\ refusals <= refusals'
      /\ refusals' = refusals \/ refusals' = refusals + 1
  BY <1>2, Limits DEF Update, UpdateFails, CollectorFrame, CollectorShape
<1> DEFINE kept == [Resting("late") EXCEPT !.batch = worker[w].batch]
<1>4. /\ kept \in WorkerType /\ kept.phase = "late" /\ kept.batch = worker[w].batch /\ kept.done = 0
  BY <1>2, RestingForm DEF Resting, WorkerType, WorkerPhases, FlushPlaces
<1>5. \A p \in {"dead", "top", "late"} :
        Resting(p) \in WorkerType /\ WorkerFits(Resting(p), Filled, refusals')
  BY <1>3, RestingForm DEF WorkerPhases
<1>6. refusals' = refusals + 1 => WorkerFits(kept, Filled, refusals')
  <2> HIDE DEF kept
  <2>1. worker[w].done <= Len(worker[w].batch) /\ Len(worker[w].batch) <= BatchSize + refusals
    BY <1>2 DEF WorkerFits
  <2> QED
    BY <1>2, <1>4, <2>1, Limits DEF WorkerFits
<1>7. \/ \E p \in {"dead", "top", "late"} : Becomes(w, Resting(p))
      \/ Becomes(w, kept) /\ refusals' = refusals + 1
  <2>1. CASE Update(w)
    <3>1. AfterFlush(worker[w].at) \in {"dead", "top", "late"}
      BY DEF AfterFlush
    <3> QED
      BY <2>1, <3>1 DEF Update
  <2>2. CASE \E ms \in SUBSET Metrics : UpdateFails(w, ms)
    BY <2>2 DEF UpdateFails
  <2> QED
    BY <2>1, <2>2
<1> HIDE DEF kept
<1>8. PICK r \in WorkerType : Becomes(w, r) /\ WorkerFits(r, Filled, refusals')
  BY <1>4, <1>5, <1>6, <1>7
<1>9. counted' \in [Metrics -> 0 .. 2]
  BY <1>1, ToldTyped
<1>10. /\ queue' = None \/ queue' \in Seq(Filled)
       /\ Len(Waiting') <= MaxQueueSize /\ orphans' \in Seq(Filled)
       /\ pool' \in Seq(Filled) /\ Len(pool') <= PoolSize
  <2>1. Waiting' = Waiting
    BY <1>1 DEF Waiting
  <2> QED
    BY <1>1, <2>1 DEF CollectorFrame, CollectorShape
<1> QED
  BY <1>1, <1>3, <1>8, <1>9, <1>10, WorkerFrame

(* Every step keeps the frame. *)
LEMMA FrameSteps == ASSUME CollectorFrame, [CollectorNext]_collector PROVE CollectorFrame'
<1>1. ASSUME NEW t \in Threads, NEW m \in Metrics, Record(t, m) \/ CheckMode(t, m)
      PROVE  CollectorFrame'
  BY <1>1, RecordFrame
<1>2. ASSUME NEW t \in Threads, Caller(t) PROVE CollectorFrame'
  BY <1>2, SwitchFrame, NewQueueFrame, StartWorkerFrame, EndFrame, FillFrame, PutFrame, FullFrame, DropFrame
  DEF Caller
<1>3. CASE Shutdown \/ UNCHANGED collector
  BY <1>3, ShutdownFrame
<1>4. ASSUME NEW w, Worker(w) PROVE CollectorFrame'
  BY <1>4, PhaseFrame, GetFrame, GroupFrame, UpdateFrame DEF Worker
<1>5. ASSUME NEW w, NEW ms \in SUBSET Metrics, UpdateFails(w, ms) PROVE CollectorFrame'
  BY <1>5, UpdateFrame
<1> QED
  BY <1>1, <1>2, <1>3, <1>4, <1>5 DEF CollectorNext

--------------------------------------------------------------------------------
(* While nothing was refused and no queue replaced. *)
Sound == CollectorFrame /\ Intact /\ Exact

(* There is one worker then, or none. *)
LEMMA OneWorker ==
    ASSUME CollectorFrame, Intact, NEW w \in DOMAIN worker
    PROVE  First = worker[w]
<1>1. queues <= 1 /\ queues \in Nat
  BY DEF Intact, Replaced, CollectorFrame, CollectorShape
<1>2. Len(worker) <= 1 /\ worker \in Seq(WorkerType)
  BY <1>1 DEF CollectorFrame, CollectorShape, WorkersOK
<1>3. DOMAIN worker = 1 .. Len(worker) /\ Len(worker) \in Nat
  BY <1>2, LenProperties
<1>4. w = 1 /\ worker # <<>>
  BY <1>2, <1>3, EmptySeq
<1> QED
  BY <1>4 DEF First

LEMMA OneWorkerMoves ==
    ASSUME CollectorFrame, CollectorFrame', Intact', NEW w \in DOMAIN worker, NEW r \in WorkerType,
           Becomes(w, r)
    PROVE  First' = r
<1>1. queues' <= 1 /\ queues' \in Nat
  BY DEF Intact, Replaced, CollectorFrame, CollectorShape
<1>2. Len(worker') <= 1
  BY <1>1 DEF CollectorFrame, WorkersOK
<1>3. /\ Len(worker') = Len(worker) /\ DOMAIN worker = 1 .. Len(worker) /\ Len(worker) \in Nat
      /\ worker' # <<>> /\ worker'[w] = r
  BY WorkerMoves DEF CollectorFrame
<1>4. w = 1
  BY <1>2, <1>3
<1> QED
  BY <1>3, <1>4 DEF First

(* Where dicts are. *)
LEMMA PlacesTyped ==
    ASSUME CollectorFrame
    PROVE  /\ Waiting \in Seq(Dicts) /\ Len(Waiting) <= MaxQueueSize /\ pool \in Seq(Dicts)
           /\ Waiting \in Seq(Filled) /\ pool \in Seq(Filled) /\ First.batch \in Seq(Filled)
           /\ First.batch \in Seq(Dicts) /\ Pending \in Seq(Dicts)
           /\ First.groups \in [Metrics -> 0 .. 2]
           /\ First.done \in Nat /\ First.done <= Len(First.batch)
           /\ First.done = 0 => Pending = First.batch
           /\ First.done = Len(First.batch) => Pending = <<>>
           /\ First.done < Len(First.batch) =>
                /\ Pending # <<>> /\ Head(Pending) = First.batch[First.done + 1]
                /\ Tail(Pending) = SubSeq(First.batch, First.done + 2, Len(First.batch))
<1> DEFINE s == First.batch
           d == First.done
<1>1. /\ s \in Seq(Dicts) /\ s \in Seq(Filled) /\ d \in Nat /\ d <= Len(s) /\ Len(s) \in Nat
      /\ First.groups \in [Metrics -> 0 .. 2]
  <2>1. CASE worker = <<>>
    <3>1. First = Resting("none")
      BY <2>1 DEF First
    <3>2. First.batch = <<>> /\ First.done = 0 /\ First.groups \in [Metrics -> 0 .. 2]
      BY <3>1, RestingForm
    <3>3. <<>> \in Seq(Dicts) /\ <<>> \in Seq(Filled) /\ Len(<<>>) = 0
      BY EmptySeq
    <3> QED
      BY <3>2, <3>3
  <2>2. CASE worker # <<>>
    <3>1. worker \in Seq(WorkerType) /\ Len(worker) \in Nat \ {0} /\ DOMAIN worker = 1 .. Len(worker)
      BY <2>2, EmptySeq, LenProperties DEF CollectorFrame, CollectorShape
    <3>2. 1 \in DOMAIN worker /\ First = worker[1]
      BY <2>2, <3>1 DEF First
    <3>3. /\ First \in WorkerType /\ WorkerFits(First, Filled, refusals) /\ First.batch \in Seq(Dicts)
          /\ First.batch \in Seq(Filled) /\ Len(First.batch) \in Nat /\ First.done \in Nat
      BY <3>2, WorkerHas
    <3> QED
      BY <3>3 DEF WorkerFits, WorkerType
  <2> QED
    BY <2>1, <2>2
<1>2. /\ Waiting \in Seq(Dicts) /\ Len(Waiting) <= MaxQueueSize /\ pool \in Seq(Dicts)
      /\ Waiting \in Seq(Filled) /\ pool \in Seq(Filled)
  BY FilledSeq DEF CollectorFrame, CollectorShape, Waiting
<1> HIDE DEF s, d
<1>3. Pending = SubSeq(s, d + 1, Len(s))
  BY DEF Pending, s, d
<1>4. Pending \in Seq(Dicts) /\ Len(Pending) = Len(s) - d
  <2>1. \A i \in d + 1 .. Len(s) : s[i] \in Dicts
    BY <1>1, ElementOfSeq
  <2>2. /\ SubSeq(s, d + 1, Len(s)) \in Seq(Dicts)
        /\ Len(SubSeq(s, d + 1, Len(s))) = IF d + 1 <= Len(s) THEN Len(s) - (d + 1) + 1 ELSE 0
    BY <1>1, <2>1, SubSeqProperties
  <2> QED
    BY <1>1, <1>3, <2>2
<1>5. d = 0 => Pending = s
  BY <1>1, <1>3, SubSeqFull
<1>6. d = Len(s) => Pending = <<>>
  BY <1>1, <1>3, SubSeqEmpty
<1>7. d < Len(s) => /\ Pending # <<>> /\ Head(Pending) = s[d + 1]
                    /\ Tail(Pending) = SubSeq(s, d + 2, Len(s))
  <2> SUFFICES ASSUME d < Len(s)
               PROVE  /\ Pending # <<>> /\ Head(Pending) = s[d + 1]
                      /\ Tail(Pending) = SubSeq(s, d + 2, Len(s))
    OBVIOUS
  <2>1. Len(Pending) > 0 /\ Len(<<>>) = 0
    BY <1>1, <1>4, EmptySeq
  <2>2. d + 1 \in 1 .. Len(s) /\ Len(s) \in d + 1 .. Len(s) /\ d + 1 + 1 = d + 2
    BY <1>1
  <2>3. /\ Head(SubSeq(s, d + 1, Len(s))) = s[d + 1]
        /\ Tail(SubSeq(s, d + 1, Len(s))) = SubSeq(s, d + 1 + 1, Len(s))
    <3> DEFINE e == d + 1
    <3>1. s \in Seq(Dicts) /\ e \in 1 .. Len(s) /\ Len(s) \in e .. Len(s)
      BY <1>1, <2>2
    <3> HIDE DEF e
    <3>2. Head(SubSeq(s, e, Len(s))) = s[e] /\ Tail(SubSeq(s, e, Len(s))) = SubSeq(s, e + 1, Len(s))
      BY <3>1, HeadTailOfSubSeq
    <3> QED
      BY <3>2 DEF e
  <2>4. Head(Pending) = s[d + 1] /\ Tail(Pending) = SubSeq(s, d + 1 + 1, Len(s))
    BY <1>3, <2>3
  <2>5. SubSeq(s, d + 1 + 1, Len(s)) = SubSeq(s, d + 2, Len(s))
    BY <2>2
  <2>6. Pending # <<>>
    BY <2>1
  <2> QED
    BY <2>4, <2>5, <2>6
<1> QED
  BY <1>1, <1>2, <1>4, <1>5, <1>6, <1>7 DEF s, d

(* Who holds which dict, when a thread's call goes on as x. *)
LEMMA HoldersMove ==
    ASSUME CollectorFrame, NEW t \in Threads, NEW x \in CallType, call' = [call EXCEPT ![t] = x],
           NEW b \in Dicts
    PROVE  /\ Cardinality(Holders(b)) \in Nat /\ Cardinality(Holders(b)') \in Nat
           /\ Cardinality(Holders(b)') =
                Cardinality(Holders(b)) - One(call[t].dict = b) + One(x.dict = b)
<1> DEFINE H == Holders(b)
           N == {u \in Threads : call'[u].dict = b}
<1>1. H \in SUBSET Threads /\ N \in SUBSET Threads /\ Holders(b)' = N
  BY DEF Holders
<1>2. IsFiniteSet(H) /\ IsFiniteSet(N) /\ Cardinality(H) \in Nat /\ Cardinality(N) \in Nat
  BY <1>1, DictsFacts, FS_Subset, FS_CardinalityType
<1>3. (t \in H <=> call[t].dict = b) /\ (t \in N <=> x.dict = b) /\ N \ {t} = H \ {t}
  BY CallMoves DEF CollectorFrame, Holders
<1> HIDE DEF H, N
<1>4. /\ Cardinality(H \ {t}) = IF t \in H THEN Cardinality(H) - 1 ELSE Cardinality(H)
      /\ Cardinality(N \ {t}) = IF t \in N THEN Cardinality(N) - 1 ELSE Cardinality(N)
  BY <1>2, FS_RemoveElement
<1>5. Cardinality(N \ {t}) = Cardinality(H \ {t})
  BY <1>3
<1>6. Cardinality(N) = Cardinality(H) - One(t \in H) + One(t \in N)
  BY <1>2, <1>4, <1>5 DEF One
<1>7. One(t \in H) = One(call[t].dict = b) /\ One(t \in N) = One(x.dict = b)
  BY <1>3 DEF One
<1> QED
  BY <1>1, <1>2, <1>6, <1>7 DEF H

(* A call that takes no new dict adds no holder. *)
LEMMA HoldersShrink ==
    ASSUME CollectorFrame, NEW t \in Threads, NEW x \in CallType, call' = [call EXCEPT ![t] = x],
           x.dict \in {0, call[t].dict}, NEW b \in Dicts
    PROVE  /\ Cardinality(Holders(b)) \in Nat /\ Cardinality(Holders(b)') \in Nat
           /\ Cardinality(Holders(b)') <= Cardinality(Holders(b))
<1>1. Holders(b)' \in SUBSET Holders(b) /\ Holders(b) \in SUBSET Threads
  BY CallMoves, DictsFacts DEF CollectorFrame, Holders
<1>2. IsFiniteSet(Holders(b)) /\ IsFiniteSet(Holders(b)')
  BY <1>1, DictsFacts, FS_Subset
<1> QED
  BY <1>1, <1>2, FS_Subset, FS_CardinalityType

(* Nothing moves but calls. *)
DictsRest == UNCHANGED <<pool, dict>> /\ Waiting' = Waiting /\ Pending' = Pending
             /\ First.groups' = First.groups

(* Then nothing that is counted changes. *)
LEMMA RestKeeps ==
    ASSUME DictsRest
    PROVE  /\ \A b \in Dicts : /\ Hits(pool, {b})' = Hits(pool, {b})
                               /\ Hits(Waiting, {b})' = Hits(Waiting, {b})
                               /\ Hits(Pending, {b})' = Hits(Pending, {b})
           /\ \A m \in Metrics : /\ Hits(Waiting, Of(m))' = Hits(Waiting, Of(m))
                                 /\ Hits(Pending, Of(m))' = Hits(Pending, Of(m))
                                 /\ counted'[m] = counted[m] => Trace(m)' = Trace(m)
<1>1. \A m \in Metrics : Of(m)' = Of(m)
  BY DEF DictsRest, Of
<1>2. \A b \in Dicts : /\ Hits(pool, {b})' = Hits(pool, {b})
                       /\ Hits(Waiting, {b})' = Hits(Waiting, {b})
                       /\ Hits(Pending, {b})' = Hits(Pending, {b})
  BY DEF DictsRest, Hits
<1>3. \A m \in Metrics : /\ Hits(Waiting, Of(m))' = Hits(Waiting, Of(m))
                         /\ Hits(Pending, Of(m))' = Hits(Pending, Of(m))
  BY <1>1 DEF DictsRest, Hits
<1>4. \A m \in Metrics : counted'[m] = counted[m] => Trace(m)' = Trace(m)
  BY <1>3 DEF DictsRest, Trace
<1> QED
  BY <1>2, <1>3, <1>4

(* How many places hold a dict, or dicts of a metric. *)
LEMMA LoadNat ==
    ASSUME CollectorFrame, NEW B
    PROVE  /\ Hits(pool, B) \in Nat /\ Hits(Waiting, B) \in Nat /\ Hits(Pending, B) \in Nat
           /\ \A b \in Dicts : Cardinality(Holders(b)) \in Nat
<1>1. pool \in Seq(Dicts) /\ Waiting \in Seq(Dicts) /\ Pending \in Seq(Dicts)
  BY PlacesTyped
<1>2. \A b \in Dicts : Cardinality(Holders(b)) \in Nat
  <2> SUFFICES ASSUME NEW b \in Dicts PROVE Cardinality(Holders(b)) \in Nat
    OBVIOUS
  <2>1. Holders(b) \in SUBSET Threads
    BY DEF Holders
  <2> QED
    BY <2>1, DictsFacts, FS_Subset, FS_CardinalityType
<1> QED
  BY <1>1, <1>2, HitsNat

(* A call that keeps its dict, or gives it up, while nothing else moves. *)
LEMMA RestCall ==
    ASSUME Sound, DictsRest, NEW t \in Threads, NEW x \in CallType,
           call' = [call EXCEPT ![t] = x],
           x.dict \in {0, call[t].dict},
           x.phase \in WithDict =>
               /\ call[t].phase \in WithDict
               /\ x.dict = call[t].dict /\ x.metric = call[t].metric
    PROVE  OneEach' /\ InHand'
<1>1. OneEach'
  <2> SUFFICES ASSUME NEW b \in Dicts PROVE Load(b)' <= 1
    BY DEF OneEach
  <2>1. Load(b) <= 1
    BY DEF Sound, Exact, OneEach
  <2>2. /\ Hits(pool, {b}) \in Nat /\ Hits(Waiting, {b}) \in Nat /\ Hits(Pending, {b}) \in Nat
    BY LoadNat DEF Sound
  <2>3. /\ Cardinality(Holders(b)) \in Nat /\ Cardinality(Holders(b)') \in Nat
        /\ Cardinality(Holders(b)') <= Cardinality(Holders(b))
    BY HoldersShrink DEF Sound
  <2>4. /\ Hits(pool, {b})' = Hits(pool, {b})
        /\ Hits(Waiting, {b})' = Hits(Waiting, {b})
        /\ Hits(Pending, {b})' = Hits(Pending, {b})
    BY RestKeeps
  <2>5. Load(b)' = Hits(pool, {b}) + Hits(Waiting, {b}) + Hits(Pending, {b}) + Cardinality(Holders(b)')
    BY <2>4 DEF Load
  <2> QED
    BY <2>1, <2>2, <2>3, <2>5 DEF Load
<1>2. InHand'
  <2>1. \A u \in Threads : call'[u] = IF u = t THEN x ELSE call[u]
    BY CallMoves DEF Sound, CollectorFrame
  <2> QED
    BY <2>1 DEF Sound, Exact, InHand, DictsRest
<1> QED
  BY <1>1, <1>2

(* ... and no call ends. *)
LEMMA RestTraced ==
    ASSUME Sound, DictsRest, UNCHANGED <<counted, fate>>
    PROVE  Traced'
<1>1. \A m \in Metrics : Trace(m)' = Trace(m)
  BY RestKeeps
<1> QED
  BY <1>1 DEF Sound, Exact, Traced

(* The trace of a metric is nothing until its call ends. *)
LEMMA TraceNat ==
    ASSUME Sound, NEW m \in Metrics
    PROVE  /\ counted[m] \in 0 .. 2 /\ First.groups[m] \in 0 .. 2
           /\ Hits(Waiting, Of(m)) \in Nat /\ Hits(Pending, Of(m)) \in Nat
           /\ Trace(m) \in {0, 1}
           /\ fate[m] = None => Trace(m) = 0
<1>1. Hits(Waiting, Of(m)) \in Nat /\ Hits(Pending, Of(m)) \in Nat
  BY LoadNat DEF Sound
<1>2. counted[m] \in 0 .. 2 /\ First.groups[m] \in 0 .. 2
  BY PlacesTyped DEF Sound, CollectorFrame, CollectorShape
<1>3. Trace(m) = One(fate[m] \in {"direct", "queued"})
  BY DEF Sound, Exact, Traced
<1>4. /\ One(fate[m] \in {"direct", "queued"}) \in {0, 1}
      /\ fate[m] = None => One(fate[m] \in {"direct", "queued"}) = 0
  BY DictsFacts DEF One, Fates
<1> QED
  BY <1>1, <1>2, <1>3, <1>4
--------------------------------------------------------------------------------
(* A new collector holds nothing. *)
LEMMA ExactStarts == ASSUME CollectorInit, CollectorFrame PROVE Exact
<1>1. First.batch = <<>> /\ First.done = 0 /\ First.groups = NoGroups
  <2>1. worker = <<>> \/ worker = <<Resting("top")>>
    BY DEF CollectorInit
  <2>2. CASE worker = <<>>
    BY <2>2, RestingForm DEF First
  <2>3. CASE worker = <<Resting("top")>>
    <3> DEFINE r == Resting("top")
    <3>1. r.batch = <<>> /\ r.done = 0 /\ r.groups = NoGroups /\ worker = <<r>>
      BY <2>3, RestingForm
    <3> HIDE DEF r
    <3>2. worker # <<>> /\ worker[1] = r
      BY <3>1
    <3> QED
      BY <3>1, <3>2 DEF First
  <2> QED
    BY <2>1, <2>2, <2>3
<1>2. pool = <<>> /\ Waiting = <<>> /\ Pending = <<>>
  BY <1>1, PlacesTyped DEF CollectorInit, Waiting
<1>3. OneEach
  <2> SUFFICES ASSUME NEW b \in Dicts PROVE Load(b) <= 1
    BY DEF OneEach
  <2>1. Holders(b) = {}
    BY IdleTyped, DictsFacts DEF CollectorInit, Holders
  <2> QED
    BY <1>2, <2>1, HitsEmpty, FS_EmptySet DEF Load
<1>4. InHand
  BY IdleTyped DEF CollectorInit, InHand
<1>5. Traced
  <2> SUFFICES ASSUME NEW m \in Metrics PROVE Trace(m) = One(fate[m] \in {"direct", "queued"})
    BY DEF Traced
  <2>1. fate[m] \notin {"direct", "queued"} /\ counted[m] = 0 /\ First.groups[m] = 0
    BY <1>1, RestingForm, DictsFacts DEF CollectorInit, Fates, NoGroups
  <2> QED
    BY <1>2, <2>1, HitsEmpty DEF Trace, One
<1> QED
  BY <1>3, <1>4, <1>5 DEF Exact

(* A call that has no dict goes on, and one that has keeps it. *)
LEMMA EarlyExact ==
    ASSUME Sound, DictsRest, NEW t \in Threads, UNCHANGED <<counted, fate>>,
           \E x \in CallType : call' = [call EXCEPT ![t] = x] /\ x.dict = 0 /\ x.phase \notin WithDict
    PROVE  Exact'
<1>1. OneEach' /\ InHand'
  BY RestCall
<1> QED
  BY <1>1, RestTraced DEF Exact

(* record_* and the steps of a change of mode leave the dicts where they are. *)
LEMMA SwitchExact ==
    ASSUME Sound, NEW t \in Threads,
           \/ \E m \in Metrics : Record(t, m) \/ CheckMode(t, m)
           \/ SwitchToAsync(t) \/ SwitchToSync(t) \/ Stop(t) \/ InitAsync(t)
    PROVE  Exact'
<1>1. UNCHANGED <<queue, pool, dict, worker, counted, fate>>
  BY DEF Record, CheckMode, SwitchToAsync, SwitchToSync, Stop, InitAsync, workers
<1>2. DictsRest
  BY <1>1 DEF DictsRest, Waiting, Pending, First
<1>3. \E x \in CallType : call' = [call EXCEPT ![t] = x] /\ x.dict = 0 /\ x.phase \notin WithDict
  BY RecordFrame, SwitchFrame DEF Sound
<1> QED
  BY <1>1, <1>2, <1>3, EarlyExact

(* The first queue is as empty as none was ... *)
LEMMA NewQueueExact ==
    ASSUME Sound, Intact', NEW t \in Threads, NewQueue(t) PROVE Exact'
<1>1. UNCHANGED <<pool, dict, worker, counted, fate>> /\ queue' = <<>> /\ queues' = queues + 1
  BY DEF NewQueue, workers
<1>2. queue = None
  <2>1. queues \in Nat /\ queues' <= 1
    BY <1>1 DEF Sound, CollectorFrame, CollectorShape, Intact, Replaced
  <2>2. queues = 0
    BY <1>1, <2>1
  <2> QED
    BY <2>2 DEF Sound, CollectorFrame, WorkersOK
<1>3. DictsRest
  BY <1>1, <1>2 DEF DictsRest, Waiting, Pending, First
<1>4. \E x \in CallType : call' = [call EXCEPT ![t] = x] /\ x.dict = 0 /\ x.phase \notin WithDict
  BY NewQueueFrame DEF Sound
<1> QED
  BY <1>1, <1>3, <1>4, EarlyExact

(* ... and the first worker as idle as none was. *)
LEMMA StartWorkerExact ==
    ASSUME Sound, NEW t \in Threads, StartWorker(t) PROVE Exact'
<1>1. /\ UNCHANGED <<queue, pool, dict, counted, fate>> /\ call[t].phase = "start"
      /\ worker' = Append(worker, Resting("top"))
  BY DEF StartWorker
<1>2. worker = <<>>
  <2>1. queues <= 1
    BY DEF Sound, CollectorFrame, CollectorShape, Intact, Replaced
  <2> QED
    BY <1>1, <2>1 DEF Sound, CollectorFrame, WorkersOK
<1>3. First = Resting("none") /\ First' = Resting("top")
  <2> DEFINE r == Resting("top")
  <2> HIDE DEF r
  <2>1. worker' = <<r>>
    BY <1>1, <1>2 DEF r
  <2>2. worker' # <<>> /\ worker'[1] = r
    BY <2>1
  <2> QED
    BY <1>2, <2>2 DEF First, r
<1>4. /\ First'.batch = First.batch /\ First'.done = First.done /\ First'.groups = First.groups
  BY <1>3, RestingForm
<1>5. DictsRest
  BY <1>1, <1>4 DEF DictsRest, Waiting, Pending
<1>6. \E x \in CallType : call' = [call EXCEPT ![t] = x] /\ x.dict = 0 /\ x.phase \notin WithDict
  BY StartWorkerFrame DEF Sound
<1> QED
  BY <1>1, <1>5, <1>6, EarlyExact

(* _record_*_sync counts a metric that has left no trace yet. *)
LEMMA RecordSyncExact == ASSUME Sound, NEW t \in Threads, RecordSync(t) PROVE Exact'
<1> DEFINE n == call[t].metric
<1>1. /\ call[t].phase # "idle" /\ End(t, "direct") /\ "direct" \in Fates
      /\ UNCHANGED <<queue, pool, dict, worker>>
  BY DEF RecordSync, Fates
<1>2. /\ n \in Metrics /\ fate[n] = None
      /\ \A m \in Metrics : fate'[m] = IF m = n THEN "direct" ELSE fate[m]
  BY <1>1, CallEnds DEF Sound
<1>3. DictsRest
  BY <1>1 DEF DictsRest, Waiting, Pending, First
<1>4. OneEach' /\ InHand'
  BY <1>1, <1>3, IdleTyped, RestCall DEF End
<1>5. \A m \in Metrics : counted'[m] = IF m = n THEN Least2(counted[m] + 1) ELSE counted[m]
  BY <1>2 DEF RecordSync, Sound, CollectorFrame, CollectorShape
<1> HIDE DEF n
<1>6. Traced'
  <2> SUFFICES ASSUME NEW m \in Metrics
               PROVE  Trace(m)' = One(fate'[m] \in {"direct", "queued"})
    BY DEF Traced
  <2>1. CASE m = n
    <3>1. /\ counted[m] = 0 /\ First.groups[m] = 0
          /\ Hits(Waiting, Of(m)) = 0 /\ Hits(Pending, Of(m)) = 0
      <4>1. /\ counted[m] \in 0 .. 2 /\ First.groups[m] \in 0 .. 2
            /\ Hits(Waiting, Of(m)) \in Nat /\ Hits(Pending, Of(m)) \in Nat
            /\ Trace(m) = 0
        BY <1>2, <2>1, TraceNat
      <4> QED
        BY <4>1 DEF Trace
    <3>2. Hits(Waiting, Of(m))' = 0 /\ Hits(Pending, Of(m))' = 0
      BY <1>3, <3>1, RestKeeps
    <3>3. counted'[m] = 1 /\ First'.groups[m] = 0
      BY <1>3, <1>5, <2>1, <3>1 DEF Least2, DictsRest
    <3> QED
      BY <1>2, <2>1, <3>2, <3>3 DEF Trace, One
  <2>2. CASE m # n
    <3>1. Trace(m)' = Trace(m)
      BY <1>3, <1>5, <2>2, RestKeeps
    <3>2. fate'[m] = fate[m]
      BY <1>2, <2>2
    <3>3. Trace(m) = One(fate[m] \in {"direct", "queued"})
      BY DEF Sound, Exact, Traced
    <3> QED
      BY <3>1, <3>2, <3>3
  <2> QED
    BY <2>1, <2>2
<1> QED
  BY <1>4, <1>6 DEF Exact

(* A refused metric leaves none. *)
LEMMA RaisedExact ==
    ASSUME Sound, NEW t \in Threads, RecordSyncFails(t) \/ AssertFails(t) PROVE Exact'
<1>1. /\ call[t].phase # "idle" /\ End(t, "raised") /\ "raised" \in Fates
      /\ UNCHANGED <<queue, pool, dict, worker, counted>>
  BY DEF RecordSyncFails, AssertFails, workers, Fates
<1>2. /\ call[t].metric \in Metrics /\ fate[call[t].metric] = None
      /\ \A m \in Metrics : fate'[m] = IF m = call[t].metric THEN "raised" ELSE fate[m]
  BY <1>1, CallEnds DEF Sound
<1>3. DictsRest
  BY <1>1 DEF DictsRest, Waiting, Pending, First
<1>4. OneEach' /\ InHand'
  BY <1>1, <1>3, IdleTyped, RestCall DEF End
<1>5. \A m \in Metrics : Trace(m)' = Trace(m)
  BY <1>1, <1>3, RestKeeps
<1>6. \A m \in Metrics :
        One(fate'[m] \in {"direct", "queued"}) = One(fate[m] \in {"direct", "queued"})
  BY <1>2, DictsFacts DEF Fates, One
<1>7. Traced'
  BY <1>5, <1>6 DEF Sound, Exact, Traced
<1> QED
  BY <1>4, <1>7 DEF Exact

(* queue.Full: the caller keeps the dict. *)
LEMMA FullExact == ASSUME Sound, NEW t \in Threads, Full(t) PROVE Exact'
<1>1. UNCHANGED <<queue, pool, dict, worker, counted, fate>>
  BY DEF Full, workers
<1>2. DictsRest
  BY <1>1 DEF DictsRest, Waiting, Pending, First
<1>3. \E x \in CallType : /\ call' = [call EXCEPT ![t] = x] /\ call[t].phase \in WithDict
                          /\ x.dict = call[t].dict /\ x.metric = call[t].metric
  BY FullFrame DEF Sound
<1>4. OneEach' /\ InHand'
  BY <1>2, <1>3, RestCall
<1> QED
  BY <1>1, <1>2, <1>4, RestTraced DEF Exact

(* put_nowait moves a dict from the caller to the queue, and its metric     *)
(* with it.                                                                 *)
LEMMA PutExact == ASSUME Sound, CollectorFrame', NEW t \in Threads, Put(t) PROVE Exact'
<1> DEFINE n == call[t].metric
           d == call[t].dict
<1>1. /\ call[t].phase = "put" /\ call[t].phase \in WithDict /\ End(t, "queued") /\ "queued" \in Fates
      /\ UNCHANGED <<pool, dict, worker, counted>>
      /\ queue' = Append(queue, d)
  BY DEF Put, Enqueued, Fates, workers, WithDict, Sound, Intact
<1>2. d \in Dicts /\ queue # None /\ dict[d] = n
  BY <1>1, FilledSeq DEF Sound, CollectorFrame, CallsOK, Exact, InHand
<1>3. queue' # None
  <2>1. queues' = queues /\ queues # 0
    BY <1>2 DEF Put, Sound, CollectorFrame, WorkersOK
  <2> QED
    BY <2>1 DEF CollectorFrame, WorkersOK
<1>4. /\ n \in Metrics /\ fate[n] = None
      /\ \A m \in Metrics : fate'[m] = IF m = n THEN "queued" ELSE fate[m]
      /\ \A u \in Threads : call'[u] = IF u = t THEN Idle ELSE call[u]
  BY <1>1, <1>3, CallEnds DEF Sound
<1>5. Waiting = queue /\ Waiting \in Seq(Dicts) /\ Pending' = Pending /\ First' = First
  BY <1>1, <1>2, PlacesTyped DEF Sound, Waiting, Pending, First
<1> HIDE DEF d, n
<1>6. Waiting' = Append(Waiting, d)
  BY <1>1, <1>3, <1>5 DEF Waiting
<1>7. \A B : Hits(Append(Waiting, d), B) = Hits(Waiting, B) + One(d \in B)
  BY <1>2, <1>5, HitsAppend
<1>8. OneEach'
  <2> SUFFICES ASSUME NEW b \in Dicts PROVE Load(b)' <= 1
    BY DEF OneEach
  <2>1. Load(b) <= 1
    BY DEF Sound, Exact, OneEach
  <2>2. /\ Hits(pool, {b}) \in Nat /\ Hits(Waiting, {b}) \in Nat /\ Hits(Pending, {b}) \in Nat
    BY LoadNat DEF Sound
  <2>3. /\ Cardinality(Holders(b)) \in Nat /\ Cardinality(Holders(b)') \in Nat
        /\ Cardinality(Holders(b)') = Cardinality(Holders(b)) - One(d = b) + One(Idle.dict = b)
    BY <1>1, IdleTyped, HoldersMove DEF Sound, End, d
  <2>4. One(d \in {b}) = One(d = b) /\ One(Idle.dict = b) = 0 /\ One(d = b) \in {0, 1}
    BY IdleTyped, DictsFacts DEF One
  <2>5. /\ Hits(pool, {b})' = Hits(pool, {b}) /\ Hits(Pending, {b})' = Hits(Pending, {b})
        /\ Hits(Waiting, {b})' = Hits(Waiting, {b}) + One(d = b)
    <3>1. Hits(Waiting, {b})' = Hits(Append(Waiting, d), {b})
      BY <1>6 DEF Hits
    <3> QED
      BY <1>1, <1>5, <1>7, <2>4, <3>1 DEF Hits
  <2> QED
    BY <2>1, <2>2, <2>3, <2>4, <2>5 DEF Load
<1>9. InHand'
  BY <1>1, <1>4, IdleTyped DEF Sound, Exact, InHand
<1>10. Traced'
  <2> SUFFICES ASSUME NEW m \in Metrics
               PROVE  Trace(m)' = One(fate'[m] \in {"direct", "queued"})
    BY DEF Traced
  <2>1. Of(m)' = Of(m) /\ (d \in Of(m) <=> m = n)
    BY <1>1, <1>2 DEF Of
  <2>2. Hits(Pending, Of(m))' = Hits(Pending, Of(m))
    BY <1>5, <2>1 DEF Hits
  <2>3. Hits(Waiting, Of(m))' = Hits(Waiting, Of(m)) + One(d \in Of(m))
    <3>1. Hits(Waiting, Of(m))' = Hits(Append(Waiting, d), Of(m))
      BY <1>6, <2>1 DEF Hits
    <3> QED
      BY <1>7, <3>1
  <2>4. /\ counted[m] \in 0 .. 2 /\ First.groups[m] \in 0 .. 2
        /\ Hits(Waiting, Of(m)) \in Nat /\ Hits(Pending, Of(m)) \in Nat
        /\ fate[m] = None => Trace(m) = 0
    BY TraceNat
  <2>5. CASE m = n
    <3>1. One(d \in Of(m)) = 1
      BY <2>1, <2>5 DEF One
    <3>2. Trace(m)' = 1
      <4>1. Trace(m) = 0
        BY <1>4, <2>4, <2>5
      <4>2. Hits(Waiting, Of(m))' = Hits(Waiting, Of(m)) + 1
        BY <2>3, <3>1
      <4>3. counted'[m] = counted[m] /\ First'.groups[m] = First.groups[m]
        BY <1>1, <1>5
      <4>4. Trace(m)' = Trace(m) + 1
        BY <2>2, <2>4, <4>2, <4>3 DEF Trace
      <4> QED
        BY <4>1, <4>4
    <3> QED
      BY <1>4, <2>5, <3>2 DEF One
  <2>6. CASE m # n
    <3>1. One(d \in Of(m)) = 0
      BY <2>1, <2>6 DEF One
    <3>2. Trace(m)' = Trace(m)
      BY <1>1, <1>5, <2>2, <2>3, <2>4, <3>1 DEF Trace
    <3>3. fate'[m] = fate[m]
      BY <1>4, <2>6
    <3>4. Trace(m) = One(fate[m] \in {"direct", "queued"})
      BY DEF Sound, Exact, Traced
    <3> QED
      BY <3>2, <3>3, <3>4
  <2> QED
    BY <2>5, <2>6
<1> QED
  BY <1>8, <1>9, <1>10 DEF Exact

(* _return_to_pool adds at most one place. *)
LEMMA PooledHits ==
    ASSUME CollectorFrame, NEW d \in Dicts, NEW b \in Dicts
    PROVE  /\ Hits(Pooled(d), {b}) \in Nat
           /\ Hits(Pooled(d), {b}) <= Hits(pool, {b}) + One(d = b)
<1>1. pool \in Seq(Dicts)
  BY PlacesTyped
<1>2. Hits(pool, {b}) \in Nat
  BY <1>1, HitsNat
<1>3. One(d \in {b}) = One(d = b) /\ One(d = b) \in {0, 1}
  BY DEF One
<1>4. CASE Len(pool) < PoolSize
  <2>1. Pooled(d) = Append(pool, d)
    BY <1>4 DEF Pooled
  <2>2. Hits(Append(pool, d), {b}) = Hits(pool, {b}) + One(d \in {b})
    BY <1>1, HitsAppend
  <2> QED
    BY <1>2, <1>3, <2>1, <2>2
<1>5. CASE ~(Len(pool) < PoolSize)
  BY <1>2, <1>3, <1>5 DEF Pooled
<1> QED
  BY <1>4, <1>5

(* A dropped metric's dict goes back. *)
LEMMA DropExact == ASSUME Sound, NEW t \in Threads, Drop(t) PROVE Exact'
<1> DEFINE n == call[t].metric
           d == call[t].dict
<1>1. /\ call[t].phase = "full" /\ call[t].phase \in WithDict /\ End(t, "dropped") /\ "dropped" \in Fates
      /\ pool' = Pooled(d) /\ UNCHANGED <<queue, dict, worker, counted>>
  BY DEF Drop, Fates, workers, WithDict
<1>2. d \in Dicts
  BY <1>1, FilledSeq DEF Sound, CollectorFrame, CallsOK
<1>3. /\ n \in Metrics /\ fate[n] = None
      /\ \A m \in Metrics : fate'[m] = IF m = n THEN "dropped" ELSE fate[m]
      /\ \A u \in Threads : call'[u] = IF u = t THEN Idle ELSE call[u]
  BY <1>1, CallEnds DEF Sound
<1> HIDE DEF d, n
<1>4. Waiting' = Waiting /\ Pending' = Pending /\ First' = First
  BY <1>1 DEF Waiting, Pending, First
<1>5. OneEach'
  <2> SUFFICES ASSUME NEW b \in Dicts PROVE Load(b)' <= 1
    BY DEF OneEach
  <2>1. Load(b) <= 1
    BY DEF Sound, Exact, OneEach
  <2>2. /\ Hits(pool, {b}) \in Nat /\ Hits(Waiting, {b}) \in Nat /\ Hits(Pending, {b}) \in Nat
    BY LoadNat DEF Sound
  <2>3. /\ Cardinality(Holders(b)) \in Nat /\ Cardinality(Holders(b)') \in Nat
        /\ Cardinality(Holders(b)') = Cardinality(Holders(b)) - One(d = b) + One(Idle.dict = b)
    BY <1>1, IdleTyped, HoldersMove DEF Sound, End, d
  <2>4. One(Idle.dict = b) = 0 /\ One(d = b) \in {0, 1}
    BY IdleTyped, DictsFacts DEF One
  <2>5. Hits(Waiting, {b})' = Hits(Waiting, {b}) /\ Hits(Pending, {b})' = Hits(Pending, {b})
    BY <1>4 DEF Hits
  <2>6. Hits(pool, {b})' \in Nat /\ Hits(pool, {b})' <= Hits(pool, {b}) + One(d = b)
    <3>1. Hits(pool, {b})' = Hits(Pooled(d), {b})
      BY <1>1 DEF Hits
    <3> QED
      BY <1>2, <3>1, PooledHits DEF Sound
  <2> QED
    BY <2>1, <2>2, <2>3, <2>4, <2>5, <2>6 DEF Load
<1>6. InHand'
  BY <1>1, <1>3, IdleTyped DEF Sound, Exact, InHand
<1>7. Traced'
  <2> SUFFICES ASSUME NEW m \in Metrics
               PROVE  Trace(m)' = One(fate'[m] \in {"direct", "queued"})
    BY DEF Traced
  <2>1. Of(m)' = Of(m)
    BY <1>1 DEF Of
  <2>2. Hits(Waiting, Of(m))' = Hits(Waiting, Of(m)) /\ Hits(Pending, Of(m))' = Hits(Pending, Of(m))
    BY <1>4, <2>1 DEF Hits
  <2>3. Trace(m)' = Trace(m)
    BY <1>1, <1>4, <2>2 DEF Trace
  <2>4. Trace(m) = One(fate[m] \in {"direct", "queued"})
    BY DEF Sound, Exact, Traced
  <2>5. One(fate'[m] \in {"direct", "queued"}) = One(fate[m] \in {"direct", "queued"})
    BY <1>3, DictsFacts DEF Fates, One
  <2> QED
    BY <2>3, <2>4, <2>5
<1> QED
  BY <1>5, <1>6, <1>7 DEF Exact

(* What is left of a sequence is part of it. *)
LEMMA SuffixElements ==
    ASSUME NEW S, NEW s \in Seq(S), NEW d \in Nat, d <= Len(s),
           NEW i \in DOMAIN SubSeq(s, d + 1, Len(s))
    PROVE  \E k \in DOMAIN s : SubSeq(s, d + 1, Len(s))[i] = s[k]
<1> DEFINE r == SubSeq(s, d + 1, Len(s))
<1>1. Len(s) \in Nat /\ DOMAIN s = 1 .. Len(s) /\ \A k \in 1 .. Len(s) : s[k] \in S
  BY LenProperties
<1>2. d + 1 \in Int /\ Len(s) \in Int /\ \A k \in d + 1 .. Len(s) : s[k] \in S
  BY <1>1
<1>3. /\ r \in Seq(S)
      /\ Len(r) = IF d + 1 <= Len(s) THEN Len(s) - (d + 1) + 1 ELSE 0
      /\ \A k \in 1 .. Len(s) - (d + 1) + 1 : r[k] = s[d + 1 + k - 1]
  BY <1>2, SubSeqProperties
<1> HIDE DEF r
<1>4. i \in 1 .. Len(r)
  BY <1>3, LenProperties DEF r
<1>5. i \in 1 .. Len(s) - (d + 1) + 1 /\ d + 1 + i - 1 \in 1 .. Len(s)
  <2> DEFINE n == Len(s)
             k == Len(r)
  <2>1. n \in Nat /\ d \in Nat /\ d <= n
    BY <1>1
  <2>2. k = IF d + 1 <= n THEN n - (d + 1) + 1 ELSE 0
    BY <1>3
  <2>3. i \in 1 .. k
    BY <1>4
  <2> HIDE DEF n, k
  <2>4. i \in 1 .. n - (d + 1) + 1 /\ d + 1 + i - 1 \in 1 .. n
    BY <2>1, <2>2, <2>3
  <2> QED
    BY <2>4 DEF n
<1>6. r[i] = s[d + 1 + i - 1]
  BY <1>3, <1>5
<1> QED
  BY <1>1, <1>5, <1>6 DEF r

(* What a caller is given is nowhere else: it is the last of the pool, or a *)
(* new dict.                                                                *)
LEMMA GivenIsFree ==
    ASSUME Sound, NEW t \in Threads, call[t].phase = "branch"
    PROVE  /\ Hits(Rest, {Given(t)}) = 0
           /\ Hits(Waiting, {Given(t)}) = 0 /\ Hits(Pending, {Given(t)}) = 0
           /\ Holders(Given(t)) = {}
           /\ \A c \in Dicts : Hits(Rest, {c}) \in Nat /\ Hits(Rest, {c}) <= Hits(pool, {c})
<1> DEFINE b == Given(t)
<1>1. pool \in Seq(Dicts) /\ Waiting \in Seq(Dicts) /\ Pending \in Seq(Dicts)
  BY PlacesTyped DEF Sound
<1>2. CASE pool # <<>>
  <2> DEFINE p == Front(pool)
  <2>1. p \in Seq(Dicts) /\ b \in Dicts /\ b = Last(pool) /\ Rest = p
    BY <1>1, <1>2, HitsFront DEF Given, Rest
  <2>2. \A B : Hits(pool, B) = Hits(p, B) + One(Last(pool) \in B)
    BY <1>1, <1>2, HitsFront
  <2>3. \A B : Hits(p, B) \in Nat /\ Hits(pool, B) \in Nat
    BY <1>1, <2>1, HitsNat
  <2>4. \A c \in Dicts : One(Last(pool) \in {c}) \in {0, 1}
    BY DEF One
  <2>5. One(Last(pool) \in {b}) = 1
    BY <2>1 DEF One
  <2> HIDE DEF p, b
  <2>6. Hits(pool, {b}) = Hits(p, {b}) + 1
    BY <2>2, <2>5
  <2>7. /\ Hits(p, {b}) = 0 /\ Hits(Waiting, {b}) = 0 /\ Hits(Pending, {b}) = 0
        /\ Cardinality(Holders(b)) = 0
    <3>1. Hits(Waiting, {b}) \in Nat /\ Hits(Pending, {b}) \in Nat /\ Cardinality(Holders(b)) \in Nat
      BY <2>1, LoadNat DEF Sound
    <3>2. Load(b) <= 1
      BY <2>1 DEF Sound, Exact, OneEach
    <3> QED
      BY <2>3, <2>6, <3>1, <3>2 DEF Load
  <2>8. Holders(b) = {}
    <3>1. Holders(b) \in SUBSET Threads
      BY DEF Holders
    <3>2. IsFiniteSet(Holders(b))
      BY <3>1, DictsFacts, FS_Subset
    <3> QED
      BY <2>7, <3>2, FS_EmptySet
  <2>9. \A c \in Dicts : Hits(p, {c}) \in Nat /\ Hits(p, {c}) <= Hits(pool, {c})
    BY <2>2, <2>3, <2>4
  <2> QED
    BY <2>1, <2>7, <2>8, <2>9 DEF b
<1>3. CASE pool = <<>>
  <2>1. b \notin Filled
    <3>1. /\ b = call[t].metric /\ b \in Metrics /\ fate[b] = None /\ b # None
          /\ \A u \in Threads \ {t} : call[u].metric # b
      BY <1>3, DictsFacts DEF Given, Sound, CollectorFrame, CallsOK
    <3>2. ~Taken(b)
      BY <3>1 DEF Taken, WithDict
    <3> QED
      BY <3>2 DEF Sound, CollectorFrame, OnlyTaken
  <2>2. Waiting \in Seq(Filled) /\ First.batch \in Seq(Filled)
        /\ First.done \in Nat /\ First.done <= Len(First.batch)
    BY PlacesTyped DEF Sound
  <2> HIDE DEF b
  <2>3. Hits(pool, {b}) = 0 /\ Rest = pool
    BY <1>3, HitsEmpty DEF Rest
  <2>4. Hits(Waiting, {b}) = 0
    <3>1. \A i \in DOMAIN Waiting : Waiting[i] \notin {b}
      BY <2>1, <2>2
    <3> QED
      BY <2>2, <3>1, HitsNat
  <2>5. Hits(Pending, {b}) = 0
    <3>1. \A i \in DOMAIN First.batch : First.batch[i] # b
      BY <2>1, <2>2
    <3>2. \A i \in DOMAIN Pending : Pending[i] \notin {b}
      <4> SUFFICES ASSUME NEW i \in DOMAIN Pending PROVE Pending[i] # b
        OBVIOUS
      <4>1. \E k \in DOMAIN First.batch : Pending[i] = First.batch[k]
        BY <2>2, SuffixElements DEF Pending
      <4> QED
        BY <3>1, <4>1
    <3> QED
      BY <1>1, <3>2, HitsNat
  <2>6. Holders(b) = {}
    <3>1. \A u \in Threads : call[u].dict \in Filled \cup {0}
      BY DEF Sound, CollectorFrame, CallsOK
    <3>2. b # 0
      <4>1. b \in Metrics
        BY <1>3 DEF b, Given, Sound, CollectorFrame, CallsOK
      <4> QED
        BY <4>1, DictsFacts
    <3> QED
      BY <2>1, <3>1, <3>2 DEF Holders
  <2>7. \A c \in Dicts : Hits(pool, {c}) \in Nat
    BY <1>1, HitsNat
  <2> QED
    BY <2>3, <2>4, <2>5, <2>6, <2>7 DEF b
<1> QED
  BY <1>2, <1>3

(* A caller fills in a dict that nobody else looks at. *)
LEMMA FillExact == ASSUME Sound, NEW t \in Threads, Fill(t) PROVE Exact'
<1> DEFINE b == Given(t)
<1>1. /\ UNCHANGED <<queue, worker, counted, fate>> /\ call[t].phase = "branch"
  BY DEF Fill, workers
<1>2. /\ b \in Dicts /\ pool' = Rest /\ call[t].dict = 0 /\ call[t].metric \in Metrics
      /\ \A c \in Dicts : dict'[c] = IF c = b THEN call[t].metric ELSE dict[c]
  BY FillFrame DEF Sound
<1>3. PICK x \in CallType : call' = [call EXCEPT ![t] = x] /\ x.dict = b /\ x.metric = call[t].metric
  BY FillFrame DEF Sound
<1>4. /\ Hits(Rest, {b}) = 0 /\ Hits(Waiting, {b}) = 0 /\ Hits(Pending, {b}) = 0
      /\ Holders(b) = {}
      /\ \A c \in Dicts : Hits(Rest, {c}) \in Nat /\ Hits(Rest, {c}) <= Hits(pool, {c})
  BY <1>1, GivenIsFree
<1> HIDE DEF b
<1>5. \A u \in Threads : call'[u] = IF u = t THEN x ELSE call[u]
  BY <1>3, CallMoves DEF Sound, CollectorFrame
<1>6. Waiting' = Waiting /\ Pending' = Pending /\ First' = First
  BY <1>1 DEF Waiting, Pending, First
<1>7. OneEach'
  <2> SUFFICES ASSUME NEW c \in Dicts PROVE Load(c)' <= 1
    BY DEF OneEach
  <2>1. Load(c) <= 1
    BY DEF Sound, Exact, OneEach
  <2>2. /\ Hits(pool, {c}) \in Nat /\ Hits(Waiting, {c}) \in Nat /\ Hits(Pending, {c}) \in Nat
    BY LoadNat DEF Sound
  <2>3. /\ Cardinality(Holders(c)) \in Nat /\ Cardinality(Holders(c)') \in Nat
        /\ Cardinality(Holders(c)') =
             Cardinality(Holders(c)) - One(call[t].dict = c) + One(x.dict = c)
    BY <1>3, HoldersMove DEF Sound
  <2>4. One(call[t].dict = c) = 0 /\ (c = b => One(x.dict = c) = 1) /\ (c # b => One(x.dict = c) = 0)
    BY <1>2, <1>3, DictsFacts DEF One
  <2>5. Hits(pool, {c})' = Hits(Rest, {c})
    BY <1>2 DEF Hits
  <2>6. Hits(Waiting, {c})' = Hits(Waiting, {c}) /\ Hits(Pending, {c})' = Hits(Pending, {c})
    BY <1>6 DEF Hits
  <2>7. CASE c = b
    <3>1. /\ Hits(Rest, {c}) = 0 /\ Hits(Waiting, {c}) = 0 /\ Hits(Pending, {c}) = 0
          /\ Cardinality(Holders(c)) = 0
      BY <1>4, <2>7, FS_EmptySet
    <3>2. Cardinality(Holders(c)') = 1
      BY <2>3, <2>4, <2>7, <3>1
    <3> QED
      BY <2>5, <2>6, <3>1, <3>2 DEF Load
  <2>8. CASE c # b
    <3>1. Cardinality(Holders(c)') = Cardinality(Holders(c))
      BY <2>3, <2>4, <2>8
    <3>2. Hits(Rest, {c}) \in Nat /\ Hits(Rest, {c}) <= Hits(pool, {c})
      BY <1>4
    <3> QED
      BY <2>1, <2>2, <2>3, <2>5, <2>6, <3>1, <3>2 DEF Load
  <2> QED
    BY <2>7, <2>8
<1>8. InHand'
  <2> SUFFICES ASSUME NEW u \in Threads, call'[u].phase \in WithDict
               PROVE  dict'[call'[u].dict] = call'[u].metric
    BY DEF InHand
  <2>1. CASE u = t
    BY <1>2, <1>3, <1>5, <2>1
  <2>2. CASE u # t
    <3>1. call'[u] = call[u] /\ call[u].phase \in WithDict
      BY <1>5, <2>2
    <3>2. call[u].dict \in Dicts /\ dict[call[u].dict] = call[u].metric
      BY <3>1, FilledSeq DEF Sound, CollectorFrame, CallsOK, Exact, InHand
    <3>3. call[u].dict # b
      BY <1>4 DEF Holders
    <3> QED
      BY <1>2, <3>1, <3>2, <3>3
  <2> QED
    BY <2>1, <2>2
<1>9. Traced'
  <2> SUFFICES ASSUME NEW m \in Metrics
               PROVE  Trace(m)' = One(fate'[m] \in {"direct", "queued"})
    BY DEF Traced
  <2>1. Waiting \in Seq(Dicts) /\ Pending \in Seq(Dicts)
    BY PlacesTyped DEF Sound
  <2>2. /\ \A i \in DOMAIN Waiting : Waiting[i] \in Dicts /\ Waiting[i] # b
        /\ \A i \in DOMAIN Pending : Pending[i] \in Dicts /\ Pending[i] # b
    <3>1. /\ \A i \in DOMAIN Waiting : Waiting[i] \notin {b}
          /\ \A i \in DOMAIN Pending : Pending[i] \notin {b}
      BY <1>4, <2>1, HitsNat
    <3> QED
      BY <2>1, <3>1
  <2>3. Of(m)' = {c \in Dicts : dict'[c] = m}
    BY DEF Of
  <2>4. /\ \A i \in DOMAIN Waiting : Waiting[i] \in Of(m)' <=> Waiting[i] \in Of(m)
        /\ \A i \in DOMAIN Pending : Pending[i] \in Of(m)' <=> Pending[i] \in Of(m)
    BY <1>2, <2>2, <2>3 DEF Of
  <2>5. Hits(Waiting, Of(m)') = Hits(Waiting, Of(m)) /\ Hits(Pending, Of(m)') = Hits(Pending, Of(m))
    BY <2>4, HitsSame
  <2>6. /\ Hits(Waiting, Of(m))' = Hits(Waiting, Of(m)')
        /\ Hits(Pending, Of(m))' = Hits(Pending, Of(m)')
    BY <1>6 DEF Hits
  <2>7. Trace(m)' = Trace(m)
    BY <1>1, <1>6, <2>5, <2>6 DEF Trace
  <2> QED
    BY <1>1, <2>7 DEF Sound, Exact, Traced
<1> QED
  BY <1>7, <1>8, <1>9 DEF Exact

--------------------------------------------------------------------------------
(* The callers, while a worker steps. *)
LEMMA CallersExact ==
    ASSUME Sound, UNCHANGED <<call, dict>>
    PROVE  InHand' /\ \A b \in Dicts : Cardinality(Holders(b))' = Cardinality(Holders(b))
  BY DEF Sound, Exact, InHand, Holders

(* Nothing moves at all. *)
LEMMA RestExact ==
    ASSUME Sound, DictsRest, UNCHANGED <<call, counted, fate>> PROVE Exact'
<1>1. InHand' /\ \A b \in Dicts : Cardinality(Holders(b))' = Cardinality(Holders(b))
  BY CallersExact DEF DictsRest
<1>2. OneEach'
  <2>1. \A b \in Dicts : Load(b)' = Load(b)
    BY <1>1, RestKeeps DEF Load
  <2> QED
    BY <2>1 DEF Sound, Exact, OneEach
<1> QED
  BY <1>1, <1>2, RestTraced DEF Exact

LEMMA ShutdownExact ==
    ASSUME Sound, Shutdown \/ UNCHANGED collector PROVE Exact'
<1>1. UNCHANGED <<queue, pool, dict, call, worker, counted, fate>>
  BY DEF Shutdown, workers, collector
<1>2. DictsRest
  BY <1>1 DEF DictsRest, Waiting, Pending, First
<1> QED
  BY <1>1, <1>2, RestExact

(* The worker's steps from phase to phase. *)
LEMMA PhaseExact ==
    ASSUME Sound, CollectorFrame', Intact', NEW w, Loop(w) \/ TimeOutGet(w) \/ EndOfIteration(w)
    PROVE  Exact'
<1>1. w \in DOMAIN worker /\ UNCHANGED <<queue, pool, dict, counted, call, fate>>
  BY PhaseFrame DEF Sound
<1>2. PICK r \in WorkerType : /\ Becomes(w, r) /\ r.batch = worker[w].batch
                              /\ r.done = worker[w].done /\ r.groups = worker[w].groups
  BY PhaseFrame DEF Sound
<1>3. First = worker[w] /\ First' = r
  BY <1>1, <1>2, OneWorker, OneWorkerMoves DEF Sound
<1>4. DictsRest
  BY <1>1, <1>2, <1>3 DEF DictsRest, Waiting, Pending
<1> QED
  BY <1>1, <1>4, RestExact

(* get moves a dict from the queue to the batch. *)
LEMMA GetExact ==
    ASSUME Sound, CollectorFrame', Intact', NEW w, NEW d, Get(w, d)
    PROVE  Exact'
<1>1. /\ w \in DOMAIN worker /\ worker[w].done = 0 /\ d \in Dicts
      /\ UNCHANGED <<pool, dict, counted, call, fate>>
  BY GetFrame DEF Sound
<1>2. PICK r \in WorkerType : /\ Becomes(w, r) /\ r.batch = Append(worker[w].batch, d)
                              /\ r.done = 0 /\ r.groups = worker[w].groups
  BY GetFrame DEF Sound
<1>3. First = worker[w] /\ First' = r
  BY <1>1, <1>2, OneWorker, OneWorkerMoves DEF Sound
<1>4. queue # <<>> /\ d = Head(queue) /\ queue' = Tail(queue)
  BY DEF Get, Dequeued, Sound, Intact
<1>5. Waiting \in Seq(Dicts) /\ Waiting = queue /\ First.batch \in Seq(Dicts) /\ Pending = First.batch
  BY <1>1, <1>3, PlacesTyped, WorkerHas DEF Sound
<1>6. /\ Tail(Waiting) \in Seq(Dicts)
      /\ \A B : Hits(Waiting, B) = Hits(Tail(Waiting), B) + One(d \in B)
  BY <1>4, <1>5, HitsTail
<1> DEFINE batch == Append(First.batch, d)
<1>7. batch \in Seq(Dicts) /\ \A B : Hits(batch, B) = Hits(First.batch, B) + One(d \in B)
  BY <1>1, <1>5, AppendProperties, HitsAppend
<1>8. Waiting' = Tail(Waiting) /\ Pending' = batch
  <2>1. SubSeq(batch, 1, Len(batch)) = batch
    BY <1>7, SubSeqFull
  <2>2. First'.batch = batch /\ First'.done = 0
    BY <1>2, <1>3
  <2>3. Pending' = batch
    BY <2>1, <2>2 DEF Pending
  <2>4. queue' # None
    BY <1>4, <1>5, <1>6, DictsFacts
  <2> QED
    BY <1>4, <1>5, <2>3, <2>4 DEF Waiting
<1> HIDE DEF batch
<1>9. \A B : /\ Hits(Waiting, B) \in Nat /\ Hits(Pending, B) \in Nat
             /\ Hits(Waiting', B) \in Nat /\ Hits(Pending', B) \in Nat
             /\ Hits(Waiting', B) + Hits(Pending', B) = Hits(Waiting, B) + Hits(Pending, B)
  <2> SUFFICES ASSUME NEW B
               PROVE  /\ Hits(Waiting, B) \in Nat /\ Hits(First.batch, B) \in Nat
                      /\ Hits(Tail(Waiting), B) \in Nat /\ Hits(batch, B) \in Nat
                      /\ Hits(Tail(Waiting), B) + Hits(batch, B) = Hits(Waiting, B) + Hits(First.batch, B)
    BY <1>5, <1>8
  <2>1. /\ Hits(Waiting, B) \in Nat /\ Hits(First.batch, B) \in Nat
        /\ Hits(Tail(Waiting), B) \in Nat /\ Hits(batch, B) \in Nat
    BY <1>5, <1>6, <1>7, HitsNat
  <2>2. One(d \in B) \in {0, 1}
    BY DEF One
  <2>3. /\ Hits(Waiting, B) = Hits(Tail(Waiting), B) + One(d \in B)
        /\ Hits(batch, B) = Hits(First.batch, B) + One(d \in B)
    BY <1>6, <1>7
  <2> QED
    BY <2>1, <2>2, <2>3
<1>10. InHand' /\ \A b \in Dicts : Cardinality(Holders(b))' = Cardinality(Holders(b))
  BY <1>1, CallersExact
<1>11. OneEach'
  <2> SUFFICES ASSUME NEW b \in Dicts PROVE Load(b)' <= 1
    BY DEF OneEach
  <2>1. Load(b) <= 1
    BY DEF Sound, Exact, OneEach
  <2>2. Hits(pool, {b}) \in Nat /\ Cardinality(Holders(b)) \in Nat
    BY LoadNat DEF Sound
  <2>3. /\ Hits(pool, {b})' = Hits(pool, {b})
        /\ Hits(Waiting, {b})' = Hits(Waiting', {b}) /\ Hits(Pending, {b})' = Hits(Pending', {b})
    BY <1>1 DEF Hits
  <2>4. Cardinality(Holders(b))' = Cardinality(Holders(b))
    BY <1>10
  <2>5. /\ Hits(Waiting, {b}) \in Nat /\ Hits(Pending, {b}) \in Nat
        /\ Hits(Waiting', {b}) \in Nat /\ Hits(Pending', {b}) \in Nat
        /\ Hits(Waiting', {b}) + Hits(Pending', {b}) = Hits(Waiting, {b}) + Hits(Pending, {b})
    BY <1>9
  <2>6. Load(b)' = Hits(pool, {b}) + Hits(Waiting', {b}) + Hits(Pending', {b}) + Cardinality(Holders(b))
    BY <2>3, <2>4 DEF Load
  <2> QED
    BY <2>1, <2>2, <2>5, <2>6 DEF Load
<1>12. Traced'
  <2> SUFFICES ASSUME NEW m \in Metrics
               PROVE  Trace(m)' = One(fate'[m] \in {"direct", "queued"})
    BY DEF Traced
  <2>1. Of(m)' = Of(m)
    BY <1>1 DEF Of
  <2>2. /\ Hits(Waiting, Of(m))' = Hits(Waiting', Of(m))
        /\ Hits(Pending, Of(m))' = Hits(Pending', Of(m))
    BY <2>1 DEF Hits
  <2>3. /\ Hits(Waiting, Of(m)) \in Nat /\ Hits(Pending, Of(m)) \in Nat
        /\ Hits(Waiting', Of(m)) \in Nat /\ Hits(Pending', Of(m)) \in Nat
        /\ Hits(Waiting', Of(m)) + Hits(Pending', Of(m)) = Hits(Waiting, Of(m)) + Hits(Pending, Of(m))
    BY <1>9
  <2>4. /\ counted'[m] = counted[m] /\ First'.groups[m] = First.groups[m]
        /\ counted[m] \in Nat /\ First.groups[m] \in Nat
    BY <1>1, <1>2, <1>3, TraceNat
  <2>5. Trace(m)' = Trace(m)
    BY <2>2, <2>3, <2>4 DEF Trace
  <2> QED
    BY <1>1, <2>5 DEF Sound, Exact, Traced
<1> QED
  BY <1>10, <1>11, <1>12 DEF Exact

(* _flush_batch moves a dict from the batch to the pool, or lets it go, and *)
(* its metric to the groups.                                                *)
LEMMA GroupExact ==
    ASSUME Sound, CollectorFrame', Intact', NEW w, Group(w)
    PROVE  Exact'
<1> DEFINE d == worker[w].batch[worker[w].done + 1]
           n == dict[d]
<1>1. /\ w \in DOMAIN worker /\ d \in Dicts /\ n \in Metrics
      /\ worker[w].done < Len(worker[w].batch) /\ pool' = Pooled(d)
      /\ UNCHANGED <<queue, dict, counted, call, fate>>
  BY GroupFrame, FilledSeq DEF Sound
<1>2. PICK r \in WorkerType :
        /\ Becomes(w, r) /\ r.batch = worker[w].batch /\ r.done = worker[w].done + 1
        /\ \A m \in Metrics : r.groups[m] = IF m = n THEN Least2(worker[w].groups[m] + 1)
                                            ELSE worker[w].groups[m]
  BY GroupFrame DEF Sound
<1>3. First = worker[w] /\ First' = r
  BY <1>1, <1>2, OneWorker, OneWorkerMoves DEF Sound
<1>4. /\ First.done \in Nat /\ Waiting \in Seq(Dicts) /\ Pending \in Seq(Dicts)
      /\ Pending # <<>> /\ Head(Pending) = d
      /\ Tail(Pending) = SubSeq(First.batch, First.done + 2, Len(First.batch))
  BY <1>1, <1>3, PlacesTyped DEF Sound
<1>5. Waiting' = Waiting /\ Pending' = Tail(Pending)
  <2>1. First.done + 1 + 1 = First.done + 2
    BY <1>4
  <2>2. First'.batch = First.batch /\ First'.done = First.done + 1
    BY <1>2, <1>3
  <2> QED
    BY <1>1, <1>4, <2>1, <2>2 DEF Waiting, Pending
<1>6. /\ Tail(Pending) \in Seq(Dicts)
      /\ \A B : Hits(Pending, B) = Hits(Tail(Pending), B) + One(d \in B)
  BY <1>4, HitsTail
<1> HIDE DEF d
<1>7. InHand' /\ \A b \in Dicts : Cardinality(Holders(b))' = Cardinality(Holders(b))
  BY <1>1, CallersExact
<1>8. OneEach'
  <2> SUFFICES ASSUME NEW b \in Dicts PROVE Load(b)' <= 1
    BY DEF OneEach
  <2>1. Load(b) <= 1
    BY DEF Sound, Exact, OneEach
  <2>2. /\ Hits(pool, {b}) \in Nat /\ Hits(Waiting, {b}) \in Nat /\ Cardinality(Holders(b)) \in Nat
    BY LoadNat DEF Sound
  <2>3. /\ Hits(pool, {b})' = Hits(Pooled(d), {b}) /\ Hits(Waiting, {b})' = Hits(Waiting, {b})
        /\ Hits(Pending, {b})' = Hits(Tail(Pending), {b})
    BY <1>1, <1>5 DEF Hits
  <2>4. Cardinality(Holders(b))' = Cardinality(Holders(b))
    BY <1>7
  <2>5. /\ Hits(Pooled(d), {b}) \in Nat /\ Hits(Pooled(d), {b}) <= Hits(pool, {b}) + One(d = b)
        /\ Hits(Tail(Pending), {b}) \in Nat
    BY <1>1, <1>6, PooledHits, HitsNat DEF Sound
  <2>6. One(d \in {b}) = One(d = b) /\ One(d = b) \in {0, 1}
    BY DEF One
  <2>7. Hits(Pending, {b}) = Hits(Tail(Pending), {b}) + One(d = b)
    BY <1>6, <2>6
  <2>8. Load(b)' = Hits(Pooled(d), {b}) + Hits(Waiting, {b}) + Hits(Tail(Pending), {b})
                     + Cardinality(Holders(b))
    BY <2>3, <2>4 DEF Load
  <2> QED
    BY <2>1, <2>2, <2>5, <2>6, <2>7, <2>8 DEF Load
<1>9. Traced'
  <2> SUFFICES ASSUME NEW m \in Metrics
               PROVE  Trace(m)' = One(fate'[m] \in {"direct", "queued"})
    BY DEF Traced
  <2>1. Of(m)' = Of(m) /\ (d \in Of(m) <=> m = n)
    BY <1>1 DEF Of
  <2>2. /\ Hits(Waiting, Of(m))' = Hits(Waiting, Of(m))
        /\ Hits(Pending, Of(m))' = Hits(Tail(Pending), Of(m))
    BY <1>5, <2>1 DEF Hits
  <2>3. Hits(Pending, Of(m)) = Hits(Tail(Pending), Of(m)) + One(d \in Of(m))
        /\ Hits(Tail(Pending), Of(m)) \in Nat
    BY <1>6, HitsNat
  <2>4. /\ counted[m] \in 0 .. 2 /\ First.groups[m] \in 0 .. 2
        /\ Hits(Waiting, Of(m)) \in Nat /\ Trace(m) \in {0, 1}
    BY TraceNat
  <2>5. Trace(m) = counted[m] + First.groups[m] + Hits(Waiting, Of(m)) + Hits(Pending, Of(m))
    BY DEF Trace
  <2>6. Trace(m)' = counted[m] + r.groups[m] + Hits(Waiting, Of(m)) + Hits(Tail(Pending), Of(m))
    BY <1>1, <1>3, <2>2 DEF Trace
  <2>7. Trace(m)' = Trace(m)
    <3>1. CASE m = n
      <4>1. One(d \in Of(m)) = 1
        BY <2>1, <3>1 DEF One
      <4>2. Hits(Pending, Of(m)) = Hits(Tail(Pending), Of(m)) + 1
        BY <2>3, <4>1
      <4>3. First.groups[m] = 0
        BY <2>3, <2>4, <2>5, <4>2
      <4>4. r.groups[m] = 1
        BY <1>2, <1>3, <3>1, <4>3 DEF Least2
      <4> QED
        BY <2>3, <2>4, <2>5, <2>6, <4>2, <4>3, <4>4
    <3>2. CASE m # n
      <4>1. One(d \in Of(m)) = 0
        BY <2>1, <3>2 DEF One
      <4>2. Hits(Pending, Of(m)) = Hits(Tail(Pending), Of(m)) + 0
        BY <2>3, <4>1
      <4>3. r.groups[m] = First.groups[m]
        BY <1>2, <1>3, <3>2
      <4> QED
        BY <2>3, <2>4, <2>5, <2>6, <4>2, <4>3
    <3> QED
      BY <3>1, <3>2
  <2> QED
    BY <1>1, <2>7 DEF Sound, Exact, Traced
<1> QED
  BY <1>7, <1>8, <1>9 DEF Exact

(* _update_prometheus_metrics counts what has been grouped. *)
LEMMA UpdateExact ==
    ASSUME Sound, CollectorFrame', Intact', NEW w, Update(w)
    PROVE  Exact'
<1> DEFINE r == Resting(AfterFlush(worker[w].at))
<1>1. /\ UNCHANGED <<queue, pool, dict, call, fate>>
      /\ w \in DOMAIN worker /\ worker[w].done = Len(worker[w].batch)
      /\ counted' = Told(w, Metrics) /\ Becomes(w, r)
  BY DEF Update, callers, At
<1>2. /\ r \in WorkerType /\ r.batch = <<>> /\ r.done = 0 /\ \A m \in Metrics : r.groups[m] = 0
  <2>1. AfterFlush(worker[w].at) \in WorkerPhases
    BY DEF AfterFlush, WorkerPhases
  <2> QED
    BY <2>1, RestingForm
<1> HIDE DEF r
<1>3. First = worker[w] /\ First' = r
  BY <1>1, <1>2, OneWorker, OneWorkerMoves DEF Sound
<1>4. Pending = <<>>
  BY <1>1, <1>3, PlacesTyped DEF Sound
<1>5. Waiting' = Waiting /\ Pending' = Pending
  <2>1. First'.done = 0 /\ First'.batch = <<>> /\ Len(<<>>) = 0
    BY <1>2, <1>3, EmptySeq
  <2>2. SubSeq(<<>>, 0 + 1, Len(<<>>)) = <<>>
    BY EmptySeq, SubSeqEmpty
  <2>3. Pending' = SubSeq(<<>>, 0 + 1, Len(<<>>))
    BY <2>1 DEF Pending
  <2> QED
    BY <1>1, <1>4, <2>2, <2>3 DEF Waiting
<1>6. \A m \in Metrics : counted'[m] = Least2(counted[m] + First.groups[m])
  BY <1>1, <1>3 DEF Told
<1>7. InHand' /\ \A b \in Dicts : Cardinality(Holders(b))' = Cardinality(Holders(b))
  BY <1>1, CallersExact
<1>8. OneEach'
  <2>1. \A b \in Dicts : /\ Hits(pool, {b})' = Hits(pool, {b})
                         /\ Hits(Waiting, {b})' = Hits(Waiting, {b})
                         /\ Hits(Pending, {b})' = Hits(Pending, {b})
    BY <1>1, <1>5 DEF Hits
  <2>2. \A b \in Dicts : Load(b)' = Load(b)
    BY <1>7, <2>1 DEF Load
  <2> QED
    BY <2>2 DEF Sound, Exact, OneEach
<1>9. Traced'
  <2> SUFFICES ASSUME NEW m \in Metrics
               PROVE  Trace(m)' = One(fate'[m] \in {"direct", "queued"})
    BY DEF Traced
  <2>1. Of(m)' = Of(m)
    BY <1>1 DEF Of
  <2>2. /\ Hits(Waiting, Of(m))' = Hits(Waiting, Of(m))
        /\ Hits(Pending, Of(m))' = Hits(Pending, Of(m))
    BY <1>5, <2>1 DEF Hits
  <2>3. /\ counted[m] \in 0 .. 2 /\ First.groups[m] \in 0 .. 2
        /\ Hits(Waiting, Of(m)) \in Nat /\ Hits(Pending, Of(m)) \in Nat
        /\ Trace(m) \in {0, 1}
    BY TraceNat
  <2>4. Trace(m) = counted[m] + First.groups[m] + Hits(Waiting, Of(m)) + Hits(Pending, Of(m))
    BY DEF Trace
  <2>5. counted'[m] = counted[m] + First.groups[m]
    BY <1>6, <2>3, <2>4 DEF Least2
  <2>6. Trace(m)' = counted'[m] + r.groups[m] + Hits(Waiting, Of(m)) + Hits(Pending, Of(m))
    BY <1>3, <2>2 DEF Trace
  <2>7. Trace(m)' = Trace(m)
    BY <1>2, <2>3, <2>4, <2>5, <2>6
  <2> QED
    BY <1>1, <2>7 DEF Sound, Exact, Traced
<1> QED
  BY <1>7, <1>8, <1>9 DEF Exact

(* A refusal and a second queue are for ever. *)
LEMMA IntactBefore ==
    ASSUME CollectorFrame, [CollectorNext]_collector, Intact' PROVE Intact
<1>1. refusals \in Nat /\ queues \in Nat
  BY DEF CollectorFrame, CollectorShape
<1>2. (refusals' = refusals \/ refusals' = refusals + 1) /\ (queues' = queues \/ queues' = queues + 1)
  <2>1. ASSUME NEW t \in Threads, NEW m \in Metrics, Record(t, m) \/ CheckMode(t, m)
        PROVE  UNCHANGED <<refusals, queues>>
    BY <2>1 DEF Record, CheckMode, workers
  <2>2. ASSUME NEW t \in Threads, Caller(t)
        PROVE  UNCHANGED refusals /\ (queues' = queues \/ queues' = queues + 1)
    BY <2>2 DEF Caller, SwitchToAsync, SwitchToSync, Stop, InitAsync, NewQueue, StartWorker, RecordSync,
                RecordSyncFails, AssertFails, Fill, Put, Full, Drop, workers
  <2>3. CASE Shutdown
    BY <2>3 DEF Shutdown, workers
  <2>4. ASSUME NEW w, Worker(w) PROVE UNCHANGED <<refusals, queues>>
    BY <2>4 DEF Worker, Loop, TimeOutGet, EndOfIteration, Group, Update, Get, callers
  <2>5. ASSUME NEW w, NEW ms, UpdateFails(w, ms) PROVE refusals' = refusals + 1 /\ UNCHANGED queues
    BY <2>5 DEF UpdateFails, callers
  <2>6. CASE UNCHANGED collector
    BY <2>6 DEF collector
  <2> QED
    BY <2>1, <2>2, <2>3, <2>4, <2>5, <2>6 DEF CollectorNext
<1> QED
  BY <1>1, <1>2 DEF Intact, Replaced

(* Every step keeps the invariant. *)
LEMMA CollectorSteps == ASSUME CollectorInv, [CollectorNext]_collector PROVE CollectorInv'
<1>1. CollectorFrame /\ CollectorFrame'
  BY FrameSteps DEF CollectorInv
<1> SUFFICES ASSUME Intact' PROVE Exact'
  BY <1>1 DEF CollectorInv
<1>2. Sound
  BY <1>1, IntactBefore DEF CollectorInv, Sound
<1>3. ASSUME NEW t \in Threads, NEW m \in Metrics, Record(t, m) \/ CheckMode(t, m)
      PROVE  Exact'
  BY <1>2, <1>3, SwitchExact
<1>4. ASSUME NEW t \in Threads, Caller(t) PROVE Exact'
  BY <1>1, <1>2, <1>4, SwitchExact, NewQueueExact, StartWorkerExact, RecordSyncExact, RaisedExact,
     FillExact, PutExact, FullExact, DropExact
  DEF Caller
<1>5. CASE Shutdown \/ UNCHANGED collector
  BY <1>2, <1>5, ShutdownExact
<1>6. ASSUME NEW w, Worker(w) PROVE Exact'
  BY <1>1, <1>2, <1>6, PhaseExact, GetExact, GroupExact, UpdateExact DEF Worker
<1>7. ASSUME NEW w, NEW ms, UpdateFails(w, ms) PROVE FALSE
  <2>1. refusals \in Nat /\ refusals' = refusals + 1 /\ refusals' = 0
    BY <1>1, <1>7 DEF UpdateFails, CollectorFrame, CollectorShape, Intact
  <2> QED
    BY <2>1
<1> QED
  BY <1>3, <1>4, <1>5, <1>6, <1>7 DEF CollectorNext

(* Every reachable state of the collector, for any threads, any sizes of    *)
(* queue, batch and pool, and any number of metrics, changes of mode and    *)
(* refused updates: places and counters keep within their limits and a drop *)
(* shows, with two queues as well; a second worker comes only after a       *)
(* second queue; and until a flush fails or a queue is replaced, dicts are  *)
(* in one place each and describe what their call filled in, and metrics    *)
(* leave one trace (async_metrics.py:222-305, 410-472, 540-570).            *)
THEOREM CollectorInductive == CollectorSpec => []CollectorInv
<1>1. CollectorInit => CollectorInv
  BY FrameStarts, ExactStarts DEF CollectorInv
<1>2. CollectorInv /\ [CollectorNext]_collector => CollectorInv'
  BY CollectorSteps
<1> QED
  BY <1>1, <1>2, PTL DEF CollectorSpec

(* The pool gives out a dict to one caller at a time and takes it back only *)
(* when nobody has it, until a flush fails or a queue is replaced           *)
(* (async_metrics.py:459-472).                                              *)
THEOREM DictsAreNotShared == CollectorSpec => []NoDictShared
<1>1. CollectorInv => NoDictShared
  <2> SUFFICES ASSUME CollectorInv, Intact, NEW b \in Dicts
               PROVE  Seen(b, pool) + Seen(b, Waiting) + Seen(b, Pending)
                        + Cardinality({t \in Threads : call[t].dict = b}) <= 1
    BY DEF NoDictShared
  <2>1. \A s : Seen(b, s) = Hits(s, {b})
    <3> SUFFICES ASSUME NEW s PROVE Seen(b, s) = Hits(s, {b})
      OBVIOUS
    <3>1. {i \in DOMAIN s : s[i] = b} = {i \in DOMAIN s : s[i] \in {b}}
      OBVIOUS
    <3> QED
      BY <3>1 DEF Seen, Hits
  <2>2. Load(b) <= 1
    BY DEF CollectorInv, Exact, OneEach
  <2> QED
    BY <2>1, <2>2 DEF Load, Holders
<1> QED
  BY <1>1, CollectorInductive, PTL

(* Until a flush fails or two threads that change the mode together have    *)
(* replaced a queue, no metric vanishes without a trace, or is counted      *)
(* twice; an overflow always shows in the counter of dropped metrics        *)
(* (async_metrics.py:222-305, 390, 418-424, 540-570).                       *)
THEOREM MetricsAreAccounted == CollectorSpec => []MetricsAccounted
<1>1. CollectorInv => CollectorTypeOK
  <2> SUFFICES ASSUME CollectorInv PROVE CollectorTypeOK
    OBVIOUS
  <2>1. /\ Waiting \in Seq(Dicts) /\ Len(Waiting) <= MaxQueueSize
        /\ pool \in Seq(Dicts) /\ Len(pool) <= PoolSize
    BY PlacesTyped DEF CollectorInv, CollectorFrame, CollectorShape
  <2>2. ToSet(Waiting) \subseteq Dicts /\ ToSet(pool) \subseteq Dicts
    BY <2>1 DEF ToSet
  <2>3. \A t \in Threads :
          /\ call[t].phase \in {"idle", "toAsync", "init", "create", "start", "toSync", "stop",
                                "branch", "put", "full"}
          /\ call[t].metric \in Metrics \cup {None}
          /\ call[t].dict \in Dicts \cup {0}
    BY DEF CollectorInv, CollectorFrame, CollectorShape, CallType, Early, WithDict
  <2>4. \A w \in DOMAIN worker :
          /\ worker[w].phase \in {"top", "get", "late", "group", "dead"}
          /\ Len(worker[w].batch) <= BatchSize + refusals /\ worker[w].done <= Len(worker[w].batch)
    BY WorkerHas DEF CollectorInv, WorkerType, WorkerPhases, WorkerFits
  <2>5. fate \in [Metrics -> {None, "direct", "raised", "queued", "dropped"}]
    <3>1. Fates \cup {None} = {None, "direct", "raised", "queued", "dropped"}
      BY DEF Fates
    <3> QED
      BY <3>1 DEF CollectorInv, CollectorFrame, CollectorShape
  <2>6. /\ mode \in {"sync", "async"} /\ stopped \in BOOLEAN \cup {None}
        /\ dict \in [Dicts -> Metrics \cup {None}] /\ counted \in [Metrics -> 0 .. 2]
    BY DEF CollectorInv, CollectorFrame, CollectorShape
  <2> QED
    BY <2>1, <2>2, <2>3, <2>4, <2>5, <2>6 DEF CollectorTypeOK
<1>2. CollectorInv => Conserved
  <2> SUFFICES ASSUME CollectorInv, Intact, NEW m \in Metrics
               PROVE  counted[m] + First.groups[m]
                        + Cardinality({i \in DOMAIN Waiting : dict[Waiting[i]] = m})
                        + Cardinality({i \in DOMAIN Pending : dict[Pending[i]] = m})
                      = IF fate[m] \in {"direct", "queued"} THEN 1 ELSE 0
    BY DEF Conserved
  <2>1. Waiting \in Seq(Dicts) /\ Pending \in Seq(Dicts)
    BY PlacesTyped DEF CollectorInv
  <2>2. /\ \A i \in DOMAIN Waiting : Waiting[i] \in Dicts
        /\ \A i \in DOMAIN Pending : Pending[i] \in Dicts
    BY <2>1
  <2>3. {i \in DOMAIN Waiting : dict[Waiting[i]] = m} = {i \in DOMAIN Waiting : Waiting[i] \in Of(m)}
    BY <2>2 DEF Of
  <2>4. {i \in DOMAIN Pending : dict[Pending[i]] = m} = {i \in DOMAIN Pending : Pending[i] \in Of(m)}
    BY <2>2 DEF Of
  <2>5. Trace(m) = One(fate[m] \in {"direct", "queued"})
    BY DEF CollectorInv, Exact, Traced
  <2> QED
    BY <2>3, <2>4, <2>5 DEF Trace, Hits, One
<1>3. CollectorInv => OverflowShows
  BY DEF CollectorInv, CollectorFrame, DropsShow, Drops, OverflowShows
<1> QED
  BY <1>1, <1>2, <1>3, CollectorInductive, PTL DEF MetricsAccounted

================================================================================
