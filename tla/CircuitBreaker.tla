----------------------------- MODULE CircuitBreaker ----------------------------
(***************************************************************************)
(* reliability/circuit_breaker.py, and its two kinds of users: code that   *)
(* guards each call with should_attempt_call(), and the decorators, which  *)
(* guard with FeatureOrchestrator.should_allow_request().  Each breaker    *)
(* method holds one RLock, so it is one action; a user's call runs between *)
(* the guard and the recording of its outcome, and other users' calls      *)
(* interleave there.                                                       *)
(*                                                                         *)
(* time.time() - _last_failure_time is a timer that saturates just above   *)
(* the timeout, and _failure_count saturates at the threshold: the code    *)
(* only compares them with those values.                                   *)
(***************************************************************************)
EXTENDS Naturals, FiniteSets

CONSTANTS
    Users,             \* concurrent callers
    FailureThreshold,  \* failure_threshold
    SuccessThreshold,  \* success_threshold
    Timeout,           \* timeout_seconds
    HalfOpenRequests,  \* half_open_requests
    Setups             \* the uses of the breaker that are considered

(* Who asks, and whether some backend errors have an excluded type. *)
SetupType == [guard : {"breaker", "sync_decorator", "async_decorator"}, excludes : BOOLEAN]

(* CircuitBreakerConfig.__post_init__ *)
ASSUME ConfigAssumption ==
    /\ FailureThreshold \in Nat \ {0}
    /\ SuccessThreshold \in Nat \ {0}
    /\ Timeout \in Nat
    /\ HalfOpenRequests \in Nat \ {0}
    /\ Setups \subseteq SetupType

VARIABLES
    state,      \* _state
    failures,   \* _failure_count
    successes,  \* _success_count
    elapsed,    \* time since _last_failure_time
    permits,    \* _half_open_permits
    attempts,   \* _half_open_total_attempts
    calling,    \* users between guard and outcome
    trials,     \* ghost: those of them admitted in the current HALF_OPEN cycle
    wins,       \* ghost: successes since the last failure or start of testing
    healthy,    \* environment: the backend answers
    setup       \* how this breaker is used; never changes

breaker == <<state, failures, successes, elapsed, permits, attempts>>
env == <<healthy, setup>>
vars == <<breaker, calling, trials, wins, env>>

AtMost(n, limit) == IF n < limit THEN n ELSE limit

TimedOut == elapsed > Timeout
--------------------------------------------------------------------------------
Init ==
    /\ state = "CLOSED"
    /\ failures = 0
    /\ successes = 0
    /\ elapsed = Timeout + 1     \* _last_failure_time = 0.0
    /\ permits = 0
    /\ attempts = 0
    /\ calling = {}
    /\ trials = {}
    /\ wins = 0
    /\ healthy = TRUE
    /\ setup \in Setups

Tick ==
    /\ elapsed <= Timeout
    /\ elapsed' = elapsed + 1
    /\ UNCHANGED <<state, failures, successes, permits, attempts, calling, trials,
                   wins, env>>

TransitionToClosed ==
    /\ state' = "CLOSED"
    /\ failures' = 0
    /\ successes' = 0
    /\ permits' = 0
    /\ attempts' = 0

TransitionToOpen ==
    /\ state' = "OPEN"
    /\ successes' = 0
    /\ UNCHANGED <<permits, attempts>>

(* _allow_half_open_request, given how many were admitted in this cycle. *)
AllowHalfOpen(sofar, used) ==
    /\ sofar < HalfOpenRequests
    /\ permits' = used + 1
    /\ attempts' = sofar + 1

(* Mutant: the admission is checked but not counted. *)
AdmitTrialUncounted(u) ==
    /\ state = "HALF_OPEN"
    /\ attempts < HalfOpenRequests
    /\ permits' = permits + 1
    /\ trials' = trials \cup {u}
    /\ UNCHANGED <<state, failures, successes, elapsed, attempts, wins>>

AdmitTrial(u) ==
    /\ state = "HALF_OPEN"
    /\ AllowHalfOpen(attempts, permits)
    /\ trials' = trials \cup {u}
    /\ UNCHANGED <<state, failures, successes, elapsed, wins>>

(* Mutant: a new cycle goes on counting where the last one stopped. *)
StartTrialsKeepsCount(u) ==
    /\ state = "OPEN" /\ TimedOut
    /\ state' = "HALF_OPEN"
    /\ successes' = 0
    /\ AllowHalfOpen(attempts, permits)
    /\ trials' = {u}
    /\ wins' = 0
    /\ UNCHANGED <<failures, elapsed>>

(* OPEN -> HALF_OPEN, in the request that finds the timeout over. *)
StartTrials(u) ==
    /\ state = "OPEN" /\ TimedOut
    /\ state' = "HALF_OPEN"
    /\ successes' = 0
    /\ AllowHalfOpen(0, 0)
    /\ trials' = {u}
    /\ wins' = 0
    /\ UNCHANGED <<failures, elapsed>>

AdmitNormally == state = "CLOSED" /\ UNCHANGED <<breaker, trials, wins>>

(* should_allow_request() only looks at the state. *)
AllowedByState == state # "OPEN" /\ UNCHANGED <<breaker, trials, wins>>

(* A call gets past the guard; should_attempt_call() is _allow_request().   *)
Admit(u) ==
    /\ u \notin calling
    /\ \/ setup.guard = "breaker" /\ (AdmitNormally \/ StartTrials(u) \/ AdmitTrial(u))
       \/ setup.guard # "breaker" /\ AllowedByState
    /\ calling' = calling \cup {u}
    /\ UNCHANGED env

(* Mutant: a success while testing closes the circuit at once. *)
OnSuccessTooSoon ==
    IF state = "HALF_OPEN"
    THEN TransitionToClosed /\ UNCHANGED elapsed
    ELSE UNCHANGED breaker

OnSuccess ==
    \/ state # "HALF_OPEN" /\ UNCHANGED breaker
    \/ /\ state = "HALF_OPEN"
       /\ successes + 1 < SuccessThreshold
       /\ successes' = successes + 1
       /\ permits' = IF permits = 0 THEN 0 ELSE permits - 1
       /\ UNCHANGED <<state, failures, elapsed, attempts>>
    \/ /\ state = "HALF_OPEN"
       /\ successes + 1 >= SuccessThreshold
       /\ TransitionToClosed
       /\ UNCHANGED elapsed

(* _on_failure of an error that counts. *)
OnFailure ==
    /\ failures' = AtMost(failures + 1, FailureThreshold)
    /\ elapsed' = 0
    /\ \/ /\ state = "CLOSED" /\ failures' >= FailureThreshold
          /\ TransitionToOpen
       \/ /\ state = "HALF_OPEN"
          /\ state' = "OPEN"
          /\ successes' = 0
          /\ permits' = IF permits = 0 THEN 0 ELSE permits - 1
          /\ UNCHANGED attempts
       \/ /\ state = "OPEN" \/ (state = "CLOSED" /\ failures' < FailureThreshold)
          /\ UNCHANGED <<state, successes, permits, attempts>>

Return(u) ==
    /\ u \in calling
    /\ calling' = calling \ {u}
    /\ trials' = trials \ {u}
    /\ UNCHANGED env

Succeed(u) ==
    /\ healthy
    /\ Return(u)
    /\ OnSuccess
    /\ wins' = AtMost(wins + 1, SuccessThreshold)

Fail(u) ==
    /\ ~healthy
    /\ Return(u)
    /\ OnFailure
    /\ wins' = 0

(* An error of an excluded type: _on_failure returns at once. *)
FailExcluded(u) ==
    /\ setup.excludes
    /\ Return(u)
    /\ UNCHANGED <<breaker, wins>>

(* The sync decorator turns its own rejection into a recorded failure, and  *)
(* then calls the function without the cache.  Other rejections change      *)
(* nothing.                                                                 *)
Rejected(u) ==
    /\ setup.guard = "sync_decorator" /\ state = "OPEN"
    /\ u \notin calling
    /\ OnFailure
    /\ wins' = 0
    /\ UNCHANGED <<calling, trials, env>>

Reset ==
    /\ TransitionToClosed
    /\ UNCHANGED <<elapsed, calling, trials, wins, env>>

BackendChanges ==
    /\ healthy' = ~healthy
    /\ UNCHANGED <<breaker, calling, trials, wins, setup>>

Next ==
    \/ Tick
    \/ \E u \in Users : Admit(u) \/ Succeed(u) \/ Fail(u) \/ FailExcluded(u) \/ Rejected(u)
    \/ Reset
    \/ BackendChanges

Spec == Init /\ [][Next]_vars

(* Time passes, users keep calling, and each call of a backend that answers *)
(* (or refuses) comes back.                                                 *)
FairSpec ==
    /\ Spec
    /\ WF_vars(Tick)
    /\ \A u \in Users : WF_vars(Admit(u)) /\ WF_vars(Succeed(u) \/ Fail(u))
--------------------------------------------------------------------------------
(* The breaker's variables have their types and its counters their ranges:  *)
(* a CLOSED circuit has counted fewer failures than would have opened it,   *)
(* a HALF_OPEN one fewer successes than would have closed it, whatever late *)
(* results arrived in between (circuit_breaker.py:291-353).                 *)
TypeOK ==
    /\ state \in {"CLOSED", "OPEN", "HALF_OPEN"}
    /\ failures \in 0..FailureThreshold
    /\ successes \in 0..(SuccessThreshold - 1)
    /\ elapsed \in 0..(Timeout + 1)
    /\ permits \in 0..HalfOpenRequests
    /\ attempts \in 0..HalfOpenRequests
    /\ calling \subseteq Users
    /\ trials \subseteq calling
    /\ wins \in 0..SuccessThreshold
    /\ healthy \in BOOLEAN
    /\ setup \in Setups
    /\ state = "CLOSED" => failures < FailureThreshold

(* "Multiple threads could see the timeout has expired [...] when we only   *)
(* want one" (circuit_breaker.py:245-247): however many users ask at once,  *)
(* at most half_open_requests of them are testing the backend.              *)
TrialsLimited ==
    setup.guard = "breaker" /\ state = "HALF_OPEN" =>
        Cardinality(trials) <= HalfOpenRequests

(* "HALF_OPEN -> CLOSED: After success_threshold successful requests"       *)
(* (circuit_breaker.py:36): short of reset(), a circuit under test closes   *)
(* only after that many successes without a failure since testing began,    *)
(* however results of earlier cycles trickle in.                            *)
ClosesOnlyOnSuccesses ==
    [][state = "HALF_OPEN" /\ state' = "CLOSED" =>
         Reset \/ wins' >= SuccessThreshold]_vars

(* "OPEN -> HALF_OPEN: After timeout_seconds have elapsed" and "HALF_OPEN   *)
(* -> CLOSED: After success_threshold successful requests"                  *)
(* (circuit_breaker.py:35-36): once the backend is and stays healthy, users *)
(* who keep calling get the circuit closed again.                           *)
RecoversWhenHealthy == <>[]healthy => []<>(state = "CLOSED")

(* The same of a breaker that is guarded by should_attempt_call(), excludes *)
(* no errors (so that every trial ends in a recorded result) and admits as  *)
(* many trials as it requires successes (circuit_breaker.py:268-330).       *)
RecoversUnderTrials ==
    /\ setup = [guard |-> "breaker", excludes |-> FALSE]
    /\ HalfOpenRequests >= SuccessThreshold
    => RecoversWhenHealthy
================================================================================
