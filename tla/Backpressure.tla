------------------------------ MODULE Backpressure -----------------------------
(***************************************************************************)
(* reliability/load_control.py, BackpressureController.acquire(): a        *)
(* bounded waiting room in front of a semaphore.  _queue_depth is guarded  *)
(* by a lock; between its updates, the waits on the semaphore and the      *)
(* protected operation, requests interleave.  The number of rejections, a  *)
(* metric, is left out.                                                    *)
(***************************************************************************)
EXTENDS Integers, FiniteSets

CONSTANTS
    Requests,       \* concurrent users of the controller
    MaxConcurrent,  \* max_concurrent
    QueueSize       \* queue_size

ASSUME ControllerAssumption ==
    /\ IsFiniteSet(Requests)
    /\ MaxConcurrent \in Nat
    /\ QueueSize \in Nat

VARIABLES
    phase,    \* phase[r]: where request r is in acquire()
    depth,    \* _queue_depth
    free,     \* free permits of _semaphore
    stranded  \* ghost: places and permits that interrupted requests left taken

controller == <<phase, depth, free, stranded>>

(* waiting: counted in, blocked on the semaphore.  granted: has a permit,   *)
(* still counted in.  refused: timed out, still counted in.  running: in    *)
(* the with block.                                                          *)
Phases == {"idle", "waiting", "granted", "refused", "running"}

In(P) == {r \in Requests : phase[r] \in P}

Queued == In({"waiting", "granted", "refused"})
Holding == In({"granted", "running"})

Enter(r, p) == phase' = [phase EXCEPT ![r] = p]
--------------------------------------------------------------------------------
ControllerInit ==
    /\ phase = [r \in Requests |-> "idle"]
    /\ depth = 0
    /\ free = MaxConcurrent
    /\ stranded = [places |-> 0, permits |-> 0]

(* Phase 1.  When the queue is full the request is rejected and nothing     *)
(* changes.                                                                 *)
Join(r) ==
    /\ phase[r] = "idle"
    /\ depth < QueueSize
    /\ depth' = depth + 1
    /\ Enter(r, "waiting")
    /\ UNCHANGED <<free, stranded>>

(* Phase 2: the semaphore grants a permit ... *)
Grant(r) ==
    /\ phase[r] = "waiting"
    /\ free > 0
    /\ free' = free - 1
    /\ Enter(r, "granted")
    /\ UNCHANGED <<depth, stranded>>

(* Mutant: the wait has no timeout. *)
TimeOutNever(r) == FALSE

(* ... or the wait times out and BackendError is raised. *)
TimeOut(r) ==
    /\ phase[r] = "waiting"
    /\ Enter(r, "refused")
    /\ UNCHANGED <<depth, free, stranded>>

(* Mutant: a request that timed out is never counted out. *)
CleanUpForgets(r) ==
    /\ phase[r] = "refused"
    /\ Enter(r, "idle")
    /\ UNCHANGED <<depth, free, stranded>>

(* except Exception, not acquired *)
CleanUp(r) ==
    /\ phase[r] = "refused"
    /\ depth' = depth - 1
    /\ Enter(r, "idle")
    /\ UNCHANGED <<free, stranded>>

LeaveQueue(r) ==
    /\ phase[r] = "granted"
    /\ depth' = depth - 1
    /\ Enter(r, "running")
    /\ UNCHANGED <<free, stranded>>

(* Mutant: the permit is released twice, by except and by finally. *)
FinishTwice(r) ==
    /\ phase[r] = "running"
    /\ free' = free + 2
    /\ Enter(r, "idle")
    /\ UNCHANGED <<depth, stranded>>

(* The operation returns or raises; finally releases the permit. *)
Finish(r) ==
    /\ phase[r] = "running"
    /\ free' = free + 1
    /\ Enter(r, "idle")
    /\ UNCHANGED <<depth, stranded>>

(* KeyboardInterrupt is not an Exception: no handler counts the request     *)
(* out, and finally releases the permit only if `acquired` is already set.  *)
Interrupt(r) ==
    /\ \/ /\ phase[r] = "waiting"
          /\ free' = free
          /\ stranded' = [stranded EXCEPT !.places = @ + 1]
       \/ /\ phase[r] = "granted"
          /\ free' = free
          /\ stranded' = [places |-> stranded.places + 1, permits |-> stranded.permits + 1]
       \/ /\ phase[r] = "granted"
          /\ free' = free + 1
          /\ stranded' = [stranded EXCEPT !.places = @ + 1]
    /\ Enter(r, "idle")
    /\ UNCHANGED depth

ControllerNext ==
    \E r \in Requests :
        \/ Join(r)
        \/ Grant(r)
        \/ TimeOut(r)
        \/ CleanUp(r)
        \/ LeaveQueue(r)
        \/ Finish(r)
        \/ Interrupt(r)

ControllerSpec == ControllerInit /\ [][ControllerNext]_controller

(* The wait is bounded by its timeout, threads are scheduled and the        *)
(* protected operation returns or raises.                                   *)
FairControllerSpec ==
    /\ ControllerSpec
    /\ \A r \in Requests :
         /\ WF_controller(TimeOut(r))
         /\ WF_controller(CleanUp(r))
         /\ WF_controller(LeaveQueue(r))
         /\ WF_controller(Finish(r))
--------------------------------------------------------------------------------
(* The state is well formed, and neither counter ever goes below zero, even *)
(* when interrupts make them drift (load_control.py:122-129).               *)
ControllerTypeOK ==
    /\ phase \in [Requests -> Phases]
    /\ depth \in Nat
    /\ free \in Nat
    /\ stranded \in [places : Nat, permits : Nat]

(* "The finally block ensures resources are always cleaned up"              *)
(* (load_control.py:139): _queue_depth is the number of requests between    *)
(* joining and either running or being refused, so only an interrupt, which *)
(* is not an Exception, can leave a place taken for good.                   *)
QueueDepthExact == depth = Cardinality(Queued) + stranded.places

(* Permits are neither lost nor made: free ones and held ones add up to     *)
(* max_concurrent, however requests end, but for those of requests that     *)
(* were interrupted before `acquired` was set (load_control.py:163-186).    *)
PermitsConserved == free + Cardinality(Holding) + stranded.permits = MaxConcurrent

(* "After 100 concurrent + 1000 queued, new requests rejected"              *)
(* (load_control.py:78): never more than max_concurrent operations run and  *)
(* never more than queue_size requests wait, even if interrupts make the    *)
(* controller lose count.                                                   *)
LoadBounded ==
    /\ Cardinality(Holding) <= MaxConcurrent
    /\ Cardinality(Queued) <= QueueSize

(* Places and permits are returned exactly once on every exit of acquire(), *)
(* and the load therefore stays within both limits (load_control.py:148-186).*)
CapacityAccounted == ControllerTypeOK /\ QueueDepthExact /\ PermitsConserved /\ LoadBounded

(* No request waits forever: it runs or is refused, and ends.               *)
EveryRequestEnds == \A r \in Requests : phase[r] # "idle" ~> phase[r] = "idle"

(* A full waiting room empties: rejection is never permanent, unless every  *)
(* place was left taken by an interrupted request (load_control.py:148).    *)
AdmitsAgain == []<>(depth < QueueSize \/ stranded.places = QueueSize)
================================================================================
