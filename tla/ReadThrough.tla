------------------------------ MODULE ReadThrough ------------------------------
(***************************************************************************)
(* decorators/wrapper.py, async_wrapper with a backend: one cached call    *)
(* (one cache key) made concurrently by several tasks of several           *)
(* processes.  A process has its own L1; the backend (L2) and its lock are *)
(* shared.  A task is interrupted only where it awaits: the L2 reads and   *)
(* writes and the lock run in a thread pool, so their effect and the       *)
(* resumption of the task are two steps.                                   *)
(*                                                                         *)
(* The decorated function returns what the data behind it says at some     *)
(* moment of its run; a value is the version of that data.  L1 and L2 are  *)
(* single slots that may lose their value at any time (LossyCache).        *)
(*                                                                         *)
(* A hit that the server calls stale is served at once, and a background   *)
(* task computes and stores the value anew.  The task that was answered    *)
(* stands for the background task from then on: its outcome is set, and it *)
(* goes on from phase to phase.  How revalidations are scheduled is        *)
(* StaleRefresh's subject; here they are writers among others.             *)
(* Metrics, logging, tracing and serialization are left out.               *)
(***************************************************************************)
EXTENDS Integers, FiniteSets

CONSTANTS
    Procs,       \* processes (pods)
    Calls,       \* tasks that call the decorated function
    ProcOf,      \* the process of each task
    None,
    Ttl,         \* ttl
    TtlBuffer,   \* ttl_buffer_seconds of L1
    Faults,      \* what may go wrong, a subset of FaultKinds
    MaxTime,     \* bound on the clock
    MaxVersion   \* bound on the versions of the data

(* open: the circuit breaker is OPEN.  read, write, delete: that backend    *)
(* operation fails.  lock: taking the lock fails with an error of redis or  *)
(* httpx, which the backend wraps in a BackendError; lock_plain: it fails   *)
(* with a BackendError that wraps nothing.  wait: blocking_timeout passes.  *)
(* lease: the lock expires while held.  release: releasing it fails.        *)
(* func: the decorated function raises a BackendError of its own.           *)
(* crash: a process dies and is restarted.  stale: an L2 stale window is    *)
(* configured and the server may find a hit to be in it.                    *)
FaultKinds == {"open", "read", "write", "delete", "lock", "lock_plain", "wait",
               "lease", "release", "func", "crash", "stale"}

ASSUME ReadThroughAssumption ==
    /\ ProcOf \in [Calls -> Procs]
    /\ None \notin Calls /\ "orphan" \notin Calls /\ None # "orphan"
    /\ Ttl \in Nat /\ TtlBuffer \in Nat /\ TtlBuffer < Ttl
    /\ Faults \subseteq FaultKinds
    /\ MaxTime \in Nat /\ MaxVersion \in Nat

VARIABLES
    l1,       \* l1[p]: the entry of the key in p's L1, or None
    l2,       \* the entry of the key in the backend, or None
    lock,     \* the task that holds the lock, "orphan", or None
    call,     \* call[c]: where task c is
    tracked,  \* the processes whose _cached_keys has the key
    now,      \* the clock
    data,     \* the current version of the data
    floor     \* ghost: version at p's last invalidation with no call in flight

caches == <<l1, l2, tracked>>
vars == <<caches, lock, call, now, data, floor>>

Phases == {"idle", "reading", "read", "locking", "rechecking", "rechecked", "leasing",
           "computing", "computed", "written", "releasing"}

(* How the lock went: not asked yet or given up on, held, or waited for in  *)
(* vain.  The last two run inside the async with block.                     *)
LockStates == {"none", "held", "waived"}

(* How the last call of the task ended, or "none" before it has. *)
Outcomes == {"none", "value", "func_error", "cache_error"}

(* The entry and version fields are what the task has in hand; misread (a   *)
(* ghost) counts errors of the function that were taken for the lock's.     *)
Idle(outcome, runs, misread) ==
    [phase |-> "idle", entry |-> None, version |-> 0, locked |-> "none",
     runs |-> runs, outcome |-> outcome, misread |-> misread]

InPhase(c, p) == call[c].phase = p
Enter(c, p) == call' = [call EXCEPT ![c].phase = p]

(* The caller has its value; what goes on is a revalidation. *)
Answered(c) == call[c].outcome # "none"

Revalidating(p) == \E c \in Calls :
    /\ ProcOf[c] = p /\ Answered(c)
    /\ call[c].phase \in {"leasing", "computing", "computed", "written"}

L2Live == l2 # None /\ now < l2.expires
L1Live(p) == l1[p] # None /\ now < l1[p].expires
--------------------------------------------------------------------------------
Init ==
    /\ l1 = [p \in Procs |-> None]
    /\ l2 = None
    /\ lock = None
    /\ call = [c \in Calls |-> Idle("none", 0, 0)]
    /\ tracked = {}
    /\ now = 0
    /\ data = 0
    /\ floor = [p \in Procs |-> 0]

Tick ==
    /\ now < MaxTime
    /\ now' = now + 1
    /\ UNCHANGED <<caches, lock, call, data, floor>>

(* The application changes what the function computes from. *)
ChangeData ==
    /\ data < MaxVersion
    /\ data' = data + 1
    /\ UNCHANGED <<caches, lock, call, now, floor>>

(* Either tier may drop its value: L1 evicts, the server evicts. *)
LoseL1(p) ==
    /\ l1[p] # None
    /\ l1' = [l1 EXCEPT ![p] = None]
    /\ UNCHANGED <<l2, lock, call, tracked, now, data, floor>>

LoseL2 ==
    /\ l2 # None
    /\ l2' = None
    /\ UNCHANGED <<l1, lock, call, tracked, now, data, floor>>
--------------------------------------------------------------------------------
(* A call begins.  The breaker and L1 are consulted without an await.       *)
Begin(c) ==
    LET p == ProcOf[c]
    IN  /\ InPhase(c, "idle")
        /\ \/ /\ "open" \in Faults
              /\ call' = [call EXCEPT ![c] = Idle("cache_error", 0, 0)]
              /\ UNCHANGED l1
           \/ /\ L1Live(p)
              /\ call' = [call EXCEPT ![c] = Idle("value", 0, 0)]
              /\ UNCHANGED l1
           \/ /\ ~L1Live(p)
              /\ l1' = [l1 EXCEPT ![p] = None]
              /\ call' = [call EXCEPT ![c] = [Idle("none", 0, 0) EXCEPT !.phase = "reading"]]
        /\ UNCHANGED <<l2, lock, tracked, now, data, floor>>

(* What a read of the backend finds; an error reads as a miss.              *)
Found == {IF L2Live THEN l2 ELSE None} \cup {None : f \in Faults \cap {"read"}}

(* get_cached_value_async, in the thread pool. *)
ReadL2(c) ==
    /\ InPhase(c, "reading") \/ InPhase(c, "rechecking")
    /\ \E e \in Found :
         call' = [call EXCEPT ![c].entry = e,
                              ![c].phase = IF @ = "reading" THEN "read" ELSE "rechecked"]
    /\ UNCHANGED <<caches, lock, now, data, floor>>

(* _l1_cache.put(..., redis_ttl=ttl): the full ttl, less L1's buffer.  The  *)
(* entry remembers (ghosts) when the L2 entry it mirrors expires, and       *)
(* whether a call or a revalidation put it there.                           *)
PutL1(p, version, l2expires, by) ==
    l1' = [l1 EXCEPT ![p] = [version |-> version, expires |-> now + Ttl - TtlBuffer,
                             source |-> l2expires, by |-> by]]

(* Mutant: an L2 hit fills L1 but the key is not tracked. *)
BackfillUntracked(c) ==
    /\ PutL1(ProcOf[c], call[c].entry.version, call[c].entry.expires, "call")
    /\ UNCHANGED tracked

(* An L2 hit is mirrored in L1 and the key is tracked. *)
Backfill(c) ==
    /\ PutL1(ProcOf[c], call[c].entry.version, call[c].entry.expires, "call")
    /\ tracked' = tracked \cup {ProcOf[c]}

(* A stale hit goes into L1 under no circumstances.  A revalidation starts, *)
(* unless one is under way, no slot is free or it cannot be scheduled.      *)
ServeStale(c) ==
    /\ "stale" \in Faults
    /\ \/ call' = [call EXCEPT ![c] = Idle("value", 0, 0)]
       \/ /\ ~Revalidating(ProcOf[c])
          /\ call' = [call EXCEPT ![c] = [Idle("value", 0, 0) EXCEPT !.phase = "leasing"]]
    /\ UNCHANGED <<l1, tracked>>

(* Leaving the async with block: the lock goes back first. *)
Leave(c, outcome, runs) ==
    call' = [call EXCEPT ![c] =
        IF call[c].locked = "held"
        THEN [Idle(outcome, runs, @.misread) EXCEPT !.phase = "releasing", !.locked = "held"]
        ELSE Idle(outcome, runs, @.misread)]

(* Back from the first read: serve the value, or go for the lock.           *)
AfterRead(c) ==
    /\ InPhase(c, "read")
    /\ \/ /\ call[c].entry # None
          /\ Backfill(c)
          /\ Leave(c, "value", call[c].runs)
       \/ /\ call[c].entry # None
          /\ ServeStale(c)
       \/ /\ call[c].entry = None
          /\ Enter(c, "locking")
          /\ UNCHANGED <<l1, tracked>>
    /\ UNCHANGED <<l2, lock, now, data, floor>>

(* acquire_lock: the lock is free. *)
TakeLock(c) ==
    /\ InPhase(c, "locking")
    /\ lock = None
    /\ lock' = c
    /\ call' = [call EXCEPT ![c].phase = "rechecking", ![c].locked = "held"]
    /\ UNCHANGED <<caches, now, data, floor>>

(* Mutant: a waiter does not give up. *)
GiveUpWaitingNever(c) == FALSE

(* The wait times out: the cache is checked again all the same. *)
GiveUpWaiting(c) ==
    /\ "wait" \in Faults
    /\ InPhase(c, "locking")
    /\ lock # None
    /\ call' = [call EXCEPT ![c].phase = "rechecking", ![c].locked = "waived"]
    /\ UNCHANGED <<caches, lock, now, data, floor>>

(* Taking the lock raises.  The wrapper takes a BackendError that wraps     *)
(* another exception for an error of the function, and raises that one;     *)
(* otherwise it goes on without the lock.                                   *)
LockFails(c) ==
    /\ InPhase(c, "locking")
    /\ \/ "lock" \in Faults /\ call' = [call EXCEPT ![c] = Idle("cache_error", @.runs, 0)]
       \/ "lock_plain" \in Faults /\ Enter(c, "computing")
    /\ UNCHANGED <<caches, lock, now, data, floor>>

(* Mutant: whoever gets the lock computes at once. *)
AfterRecheckIgnored(c) ==
    /\ InPhase(c, "rechecked")
    /\ Enter(c, "computing")
    /\ UNCHANGED <<caches, lock, now, data, floor>>

(* Back from the double check, inside the async with block. *)
AfterRecheck(c) ==
    /\ InPhase(c, "rechecked")
    /\ \/ /\ call[c].entry # None
          /\ Backfill(c)
          /\ Leave(c, "value", call[c].runs)
       \/ /\ call[c].entry = None
          /\ Enter(c, "computing")
          /\ UNCHANGED <<l1, tracked>>
    /\ UNCHANGED <<l2, lock, now, data, floor>>

(* A revalidation asks for the same lock without waiting: whoever finds it  *)
(* taken, or cannot take it, leaves the value as it is.                     *)
Lease(c) ==
    /\ InPhase(c, "leasing")
    /\ \/ /\ lock = None
          /\ lock' = c
          /\ call' = [call EXCEPT ![c].phase = "computing", ![c].locked = "held"]
       \/ /\ lock # None \/ Faults \cap {"lock", "lock_plain"} # {}
          /\ call' = [call EXCEPT ![c] = Idle("value", 0, 0)]
          /\ UNCHANGED lock
    /\ UNCHANGED <<caches, now, data, floor>>

(* The function runs, and sees the data as it is at this moment. *)
RunFunc(c) ==
    /\ InPhase(c, "computing")
    /\ call' = [call EXCEPT ![c].phase = "computed", ![c].version = data,
                            ![c].runs = @ + 1]
    /\ UNCHANGED <<caches, lock, now, data, floor>>

(* The function raises. *)
FuncRaises(c) ==
    /\ InPhase(c, "computing")
    /\ Leave(c, "func_error", call[c].runs + 1)
    /\ UNCHANGED <<caches, lock, now, data, floor>>

(* The function raises a BackendError: inside the async with block that is  *)
(* taken for a failure of the lock, and the function runs a second time.    *)
(* In a revalidation it is an error like any other.                         *)
FuncRaisesBackendError(c) ==
    /\ "func" \in Faults
    /\ InPhase(c, "computing")
    /\ ~Answered(c)
    /\ CASE call[c].locked = "held" ->
              call' = [call EXCEPT ![c].phase = "releasing", ![c].outcome = "none",
                                   ![c].runs = @ + 1, ![c].misread = 1]
         [] call[c].locked = "waived" ->
              call' = [call EXCEPT ![c].locked = "none", ![c].runs = @ + 1,
                                   ![c].misread = 1]
         [] OTHER -> call' = [call EXCEPT ![c] = Idle("func_error", @.runs + 1, @.misread)]
    /\ UNCHANGED <<caches, lock, now, data, floor>>

(* The result cannot be serialized: it is returned, and cached nowhere. *)
CannotSerialize(c) ==
    /\ InPhase(c, "computed")
    /\ Leave(c, "value", call[c].runs)
    /\ UNCHANGED <<caches, lock, now, data, floor>>

(* set_async, in the thread pool; a failure is logged and forgotten.        *)
WriteL2(c) ==
    /\ InPhase(c, "computed")
    /\ \/ /\ l2' = [version |-> call[c].version, expires |-> now + Ttl]
          /\ call' = [call EXCEPT ![c].phase = "written", ![c].entry = l2']
       \/ /\ "write" \in Faults
          /\ call' = [call EXCEPT ![c].phase = "written", ![c].entry = None]
          /\ UNCHANGED l2
    /\ UNCHANGED <<l1, lock, tracked, now, data, floor>>

(* _put_l1, whether or not L2 took the value, and _cached_keys.add, which a *)
(* revalidation does not do.                                                *)
AfterWrite(c) ==
    /\ InPhase(c, "written")
    /\ PutL1(ProcOf[c], call[c].version,
             IF call[c].entry = None THEN now + Ttl ELSE call[c].entry.expires,
             IF Answered(c) THEN "refresh" ELSE "call")
    /\ tracked' = IF Answered(c) THEN tracked ELSE tracked \cup {ProcOf[c]}
    /\ Leave(c, "value", call[c].runs)
    /\ UNCHANGED <<l2, lock, now, data, floor>>

(* Mutant: a failing release reaches the wrapper, which then goes on as if  *)
(* it had not got the lock.                                                 *)
ReleaseRaises(c) ==
    /\ InPhase(c, "releasing")
    /\ \/ /\ lock' = IF lock = c THEN None ELSE lock
          /\ call' = [call EXCEPT ![c] = Idle(@.outcome, @.runs, @.misread)]
       \/ /\ "release" \in Faults
          /\ call' = [call EXCEPT ![c].phase = "computing", ![c].locked = "none"]
          /\ UNCHANGED lock
    /\ UNCHANGED <<caches, now, data, floor>>

(* The lock is released if it is still ours; an error is only logged, and   *)
(* then the lease is what ends it.                                          *)
Release(c) ==
    /\ InPhase(c, "releasing")
    /\ \/ lock' = IF lock = c THEN None ELSE lock
       \/ "release" \in Faults /\ lock' = IF lock = c THEN "orphan" ELSE lock
    /\ call' = [call EXCEPT ![c] = IF @.outcome = "none"
                                   THEN [@ EXCEPT !.phase = "computing", !.locked = "none"]
                                   ELSE Idle(@.outcome, @.runs, @.misread)]
    /\ UNCHANGED <<caches, now, data, floor>>

(* The server drops the lock after lock_timeout. *)
LeaseExpires ==
    /\ lock = "orphan" \/ ("lease" \in Faults /\ lock # None)
    /\ lock' = None
    /\ UNCHANGED <<caches, call, now, data, floor>>

(* A process dies and comes back: its tasks, its L1 and its tracking are    *)
(* gone, and its lock has nobody left to release it.                        *)
Crash(p) ==
    LET dead == {c \in Calls : ProcOf[c] = p}
    IN  /\ "crash" \in Faults
        /\ call' = [c \in Calls |-> IF c \in dead THEN Idle("none", 0, 0) ELSE call[c]]
        /\ l1' = [l1 EXCEPT ![p] = None]
        /\ tracked' = tracked \ {p}
        /\ lock' = IF lock \in dead THEN "orphan" ELSE lock
        /\ UNCHANGED <<l2, now, data, floor>>
--------------------------------------------------------------------------------
NoneInFlight == \A c \in Calls : InPhase(c, "idle")

(* Both tiers of the invalidating process lose the key, unless the L2       *)
(* delete fails.  ainvalidate_cache awaits nothing until all this is done.  *)
Erase(p, reached) ==
    /\ l1' = [l1 EXCEPT ![p] = None]
    /\ l2' = IF reached THEN None ELSE l2
    /\ floor' = IF reached /\ NoneInFlight THEN [floor EXCEPT ![p] = data] ELSE floor

DeleteOutcomes == {TRUE} \cup {FALSE : f \in Faults \cap {"delete"}}

(* Mutant: the invalidation only reaches the backend. *)
InvalidateL2Only(p) ==
    /\ l2' = None
    /\ floor' = IF NoneInFlight THEN [floor EXCEPT ![p] = data] ELSE floor
    /\ UNCHANGED <<l1, tracked, lock, call, now, data>>

(* ainvalidate_cache(args): the key of these arguments. *)
Invalidate(p) ==
    /\ \E reached \in DeleteOutcomes : Erase(p, reached)
    /\ tracked' = tracked \ {p}
    /\ UNCHANGED <<lock, call, now, data>>

(* ainvalidate_cache(): the tracked keys, one of which may be this one.  A  *)
(* key whose L2 delete fails stays tracked.                                 *)
InvalidateTracked(p) ==
    /\ p \in tracked
    /\ \E reached \in DeleteOutcomes :
         /\ Erase(p, reached)
         /\ tracked' = IF reached THEN tracked \ {p} ELSE tracked
    /\ UNCHANGED <<lock, call, now, data>>
--------------------------------------------------------------------------------
(* The steps of a call under way. *)
Advance(c) ==
    \/ ReadL2(c)
    \/ AfterRead(c)
    \/ TakeLock(c)
    \/ GiveUpWaiting(c)
    \/ AfterRecheck(c)
    \/ Lease(c)
    \/ RunFunc(c)
    \/ FuncRaises(c)
    \/ FuncRaisesBackendError(c)
    \/ CannotSerialize(c)
    \/ WriteL2(c)
    \/ AfterWrite(c)
    \/ Release(c)

Next ==
    \/ Tick
    \/ ChangeData
    \/ LoseL2
    \/ LeaseExpires
    \/ \E c \in Calls : Begin(c) \/ Advance(c) \/ LockFails(c)
    \/ \E p \in Procs : LoseL1(p) \/ Crash(p) \/ Invalidate(p) \/ InvalidateTracked(p)

Spec == Init /\ [][Next]_vars

(* The event loop resumes tasks, the thread pool runs, the function returns *)
(* or raises, and the server's clock runs leases out.  Nothing makes a lock *)
(* fail: a waiter gets it or times out.                                     *)
FairSpec ==
    /\ Spec
    /\ WF_vars(LeaseExpires)
    /\ \A c \in Calls : WF_vars(Advance(c))
--------------------------------------------------------------------------------
L1Entry == [version : Nat, expires : Nat, source : Nat, by : {"call", "refresh"}]
L2Entry == [version : Nat, expires : Nat]
CallType == [phase : Phases, entry : L2Entry \cup {None}, version : Nat,
             locked : LockStates, runs : 0..2, outcome : Outcomes, misread : 0..1]

(* The state is well formed, and only the task that was granted the lock    *)
(* can be found holding it.                                                 *)
TypeOK ==
    /\ l1 \in [Procs -> L1Entry \cup {None}]
    /\ l2 \in L2Entry \cup {None}
    /\ lock \in Calls \cup {"orphan", None}
    /\ call \in [Calls -> CallType]
    /\ tracked \subseteq Procs
    /\ now \in Nat /\ data \in Nat
    /\ floor \in [Procs -> Nat]
    /\ lock \in Calls => call[lock].locked = "held"

(* "With locking, only one pod calls the function; others wait for the      *)
(* cache result" (docs/features/distributed-locking.md:11): as long as      *)
(* nothing times out or fails, no computed value ever replaces a live one,  *)
(* because whoever gets the lock looks again first (wrapper.py:1717-1735).  *)
HerdComputesOnce == [][\A c \in Calls : WriteL2(c) => ~L2Live]_vars

(* However a call gets its value, and whatever the lock does to it (wait    *)
(* timed out, lease expired, release failed), the function runs at most     *)
(* once for it, and once more only if it raised a BackendError of its own   *)
(* that was taken for one of the lock (wrapper.py:1775-1850,                *)
(* redis/provider.py:381-392).                                              *)
RunsOncePerCall == \A c \in Calls : call[c].runs <= 1 + call[c].misread

(* "Redis is down? No problem! Function executes normally, just without     *)
(* caching" (docs/getting-started.md:340-341): the only errors a caller     *)
(* sees are the function's own.                                             *)
OnlyFuncErrors == \A c \in Calls : call[c].outcome # "cache_error"

(* Whole-function invalidation "clears every cached entry this process has  *)
(* written" (docs/features/l1-invalidation.md:181).  That is true of what    *)
(* calls put in L1, also after an invalidation whose L2 delete failed: it   *)
(* is tracked (wrapper.py:1652, 1733, 1761, 1794, 1876).  It is not true of *)
(* what a revalidation puts there (wrapper.py:768), which is tracked only   *)
(* if a call has tracked the key and no invalidation come between.          *)
L1Tracked == \A p \in Procs : l1[p] # None /\ l1[p].by = "call" => p \in tracked

(* What the sentence claims: violated, by a process whose only call of the  *)
(* key so far was a stale hit.                                              *)
AllTracked == \A p \in Procs : l1[p] # None => p \in tracked

(* An invalidation made while no call is in flight sticks: its process and  *)
(* the backend never again hold a value older than it, whatever other       *)
(* processes still have in their L1 (docs/features/l1-invalidation.md:177). *)
InvalidationSticks ==
    \A p \in Procs : /\ l1[p] # None => l1[p].version >= floor[p]
                     /\ l2 # None => l2.version >= floor[p]

(* "Respects Redis TTL (entries expire at Redis TTL time)"                  *)
(* (l1_cache.py:41): no L1 entry outlives the L2 entry it mirrors.          *)
RespectsRedisTtl == \A p \in Procs : l1[p] # None => l1[p].expires <= l1[p].source

(* No call hangs, even if the process that holds the lock dies: it waits    *)
(* for the lock no longer than blocking_timeout (wrapper.py:1705-1716).     *)
EveryCallEnds == \A c \in Calls : ~InPhase(c, "idle") ~> InPhase(c, "idle")
================================================================================
