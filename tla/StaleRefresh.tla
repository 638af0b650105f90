----------------------------- MODULE StaleRefresh ------------------------------
(***************************************************************************)
(* Stale-while-revalidate over the CachekitIO backend: decorators/         *)
(* wrapper.py:668-850 and the reads and invalidations around it, with      *)
(* backends/cachekitio/backend.py as the channel to the server.  The       *)
(* server keeps an entry for a window past its fresh ttl and labels reads  *)
(* in it stale; a stale hit is served at once and the function is run      *)
(* again in the background, by a task (async) or a daemon thread (sync).   *)
(*                                                                         *)
(* A job is one call of the decorated function together with the           *)
(* background refresh it may leave behind.  L2 operations run in a thread  *)
(* pool or over HTTP, so their effect and the return to the caller are two *)
(* steps.  Left out, because they are ReadThrough's subject: the values,   *)
(* L1 (a call it serves takes no step here), and the lock of the miss path.*)
(***************************************************************************)
EXTENDS Naturals, FiniteSets

CONSTANTS
    Procs, Keys, Jobs, None,
    ProcOf,       \* the process of each job
    Requests,     \* Requests[p]: the ttl and stale_ttl settings p may ask for
    Limits,       \* values of _L2_SWR_MAX_CONCURRENT_REFRESHES
    Cap,          \* _max_total_ttl
    MaxCancels    \* bound on cancellations and forks

ASSUME StaleRefreshAssumption ==
    /\ ProcOf \in [Jobs -> Procs]
    /\ IsFiniteSet(Jobs) /\ IsFiniteSet(Keys)
    /\ None \notin Jobs /\ "orphan" \notin Jobs /\ None # "orphan"
    /\ None \notin Keys /\ None \notin Nat
    /\ None \notin [stale : BOOLEAN, window : BOOLEAN]
    /\ \A p \in Procs :
         Requests[p] \subseteq [ttl : Nat, stale : Nat \cup {None}, default : BOOLEAN,
                              capable : BOOLEAN, async : BOOLEAN]
    /\ Limits \subseteq Nat \ {0}
    /\ Cap \in Nat /\ MaxCancels \in Nat

VARIABLES
    config,    \* config[p]: how p decorates the function; never changes
    limit,     \* the number of refresh slots; never changes
    server,    \* server[k]: the entry at the server, or None
    lease,     \* lease[k]: the job whose lock id the server knows, "orphan" or None
    job,       \* job[j]: where job j is
    inflight,  \* inflight[p]: _l2_swr_inflight
    slots,     \* slots[p]: free permits of _l2_swr_slots
    forked,    \* processes whose _l2_swr_pid is their parent's
    late,      \* writes still running in the thread pool of a cancelled task
    lost,      \* ghost: keys of refreshes that were cancelled before they began
    cancels    \* cancellations and forks so far

setup == <<config, limit>>
remote == <<server, lease>>
sched == <<inflight, slots, forked, lost>>
vars == <<setup, remote, job, sched, late, cancels>>
--------------------------------------------------------------------------------
Least(a, b) == IF a < b THEN a ELSE b

(* _stale_ttl: what was asked for, or the preset's default: as long as the  *)
(* ttl, within the storage cap.  0 stands for None, no SWR.                 *)
StaleWindow(r) ==
    CASE r.stale # None -> r.stale
      [] r.stale = None /\ r.default /\ r.ttl > 0 /\ r.capable ->
           IF r.ttl < Cap THEN Least(r.ttl, Cap - r.ttl) ELSE 0
      [] OTHER -> 0

(* ConfigurationError otherwise: an explicit window needs a ttl, room under *)
(* the cap and a backend that reports freshness.                            *)
Accepted(r) ==
    r.stale \in Nat \ {0} => r.ttl > 0 /\ r.ttl + r.stale <= Cap /\ r.capable

SwrActive(p) == StaleWindow(config[p]) > 0
IsAsync(p) == config[p].async

(* What the server keeps of a set with these headers ... *)
Fresh(window) == [stale |-> FALSE, window |-> window]

(* ... and whether it labels a read of it stale. *)
IsStale(e) == e.stale

(* A request that changes something at the server takes effect or not: a    *)
(* refusal, a lost connection and a timeout all raise, and a lost answer    *)
(* looks the same.                                                          *)
Attempt(before, after) == {before, after}

(* get_with_freshness: the entry; an error (not a 404) is logged by the     *)
(* handler and reads as a miss.                                             *)
Fetched(k) == {server[k], None}

Nothing == [phase |-> "idle", key |-> None, found |-> None,
            background |-> FALSE, leased |-> FALSE, expired |-> FALSE]

InPhase(j, ph) == job[j].phase = ph
Drop(j) == job' = [job EXCEPT ![j] = Nothing]
Goto(j, ph) == job' = [job EXCEPT ![j].phase = ph]

(* Refreshes that own a slot: from the claim to _l2_swr_end. *)
Claimed(p) == {j \in Jobs : ProcOf[j] = p /\ job[j].background}
--------------------------------------------------------------------------------
Init ==
    /\ config \in {c \in [Procs -> UNION {Requests[p] : p \in Procs}] :
                     \A p \in Procs : c[p] \in Requests[p] /\ Accepted(c[p])}
    /\ limit \in Limits
    /\ server = [k \in Keys |-> None]
    /\ lease = [k \in Keys |-> None]
    /\ job = [j \in Jobs |-> Nothing]
    /\ inflight = [p \in Procs |-> {}]
    /\ slots = [p \in Procs |-> limit]
    /\ forked = {}
    /\ late = {}
    /\ lost = [p \in Procs |-> {}]
    /\ cancels = 0

(* The server: a fresh entry with a window turns stale, and any entry may   *)
(* go: at evict_at, under pressure, or because a client invalidates it.     *)
GoStale(k) ==
    /\ server[k] # None /\ ~server[k].stale /\ server[k].window
    /\ server' = [server EXCEPT ![k].stale = TRUE]
    /\ UNCHANGED <<setup, lease, job, sched, late, cancels>>

Gone(k) ==
    /\ server[k] # None
    /\ server' = [server EXCEPT ![k] = None]
    /\ UNCHANGED <<setup, lease, job, sched, late, cancels>>

(* The server drops a lock after its timeout_ms, held or not. *)
LeaseExpires(k) ==
    /\ lease[k] # None
    /\ lease' = [lease EXCEPT ![k] = None]
    /\ job' = [j \in Jobs |-> IF lease[k] = j THEN [job[j] EXCEPT !.expired = TRUE] ELSE job[j]]
    /\ UNCHANGED <<setup, server, sched, late, cancels>>
--------------------------------------------------------------------------------
(* A call that L1 does not serve asks the server, in the thread pool if it  *)
(* is async.  A read of an entry without a window is never stale.           *)
Read(j, k) ==
    /\ InPhase(j, "idle")
    /\ \E found \in Fetched(k) :
         job' = [job EXCEPT ![j] = [Nothing EXCEPT !.phase = "read", !.key = k, !.found = found]]
    /\ UNCHANGED <<setup, remote, sched, late, cancels>>

(* A fresh hit is returned (and goes to L1, in the async decorator). *)
ServeFresh(j) ==
    /\ InPhase(j, "read") /\ job[j].found # None
    /\ ~(SwrActive(ProcOf[j]) /\ IsStale(job[j].found))
    /\ Drop(j)
    /\ UNCHANGED <<setup, remote, sched, late, cancels>>

(* A miss: the function is called in the foreground. *)
Missed(j) ==
    /\ InPhase(j, "read") /\ job[j].found = None
    /\ Goto(j, "running")
    /\ UNCHANGED <<setup, remote, sched, late, cancels>>
--------------------------------------------------------------------------------
(* A process that finds itself forked starts over: what the scheduler state *)
(* of p is when _l2_swr_try_begin looks at it.                              *)
InflightSeen(p) == IF p \in forked THEN {} ELSE inflight[p]
SlotsSeen(p) == IF p \in forked THEN limit ELSE slots[p]

(* Mutant: a child keeps what it inherited. *)
StartOverNever(p, keys, n) ==
    /\ inflight' = [inflight EXCEPT ![p] = @ \cup keys]
    /\ slots' = [slots EXCEPT ![p] = @ - n]
    /\ forked' = forked \ {p}
    /\ UNCHANGED lost

StartOver(p, keys, n) ==
    /\ inflight' = [inflight EXCEPT ![p] = InflightSeen(p) \cup keys]
    /\ slots' = [slots EXCEPT ![p] = SlotsSeen(p) - n]
    /\ forked' = forked \ {p}
    /\ lost' = IF p \in forked THEN [lost EXCEPT ![p] = {}] ELSE lost

(* The stale value has been returned; the first half of                     *)
(* _l2_swr_try_begin.  Under an event loop nothing comes between its halves *)
(* (TRUE below); threads may all get past the check.                        *)
StaleHit(j) == InPhase(j, "read") /\ job[j].found # None /\ SwrActive(ProcOf[j]) /\ IsStale(job[j].found)

Refused(j) ==
    LET p == ProcOf[j]
    IN  /\ StaleHit(j)
        /\ job[j].key \in InflightSeen(p) \/ (IsAsync(p) /\ SlotsSeen(p) = 0)
        /\ StartOver(p, {}, 0)
        /\ Drop(j)
        /\ UNCHANGED <<setup, remote, late, cancels>>

(* Mutant: a key that is being refreshed is claimed again. *)
ClaimAgain(j) ==
    LET p == ProcOf[j]
    IN  /\ StaleHit(j) /\ IsAsync(p) /\ SlotsSeen(p) > 0
        /\ StartOver(p, {job[j].key}, 1)
        /\ job' = [job EXCEPT ![j].phase = "scheduled", ![j].background = TRUE, ![j].found = None]
        /\ UNCHANGED <<setup, remote, late, cancels>>

(* The whole of _l2_swr_try_begin and create_task, in an event loop. *)
Claim(j) ==
    LET p == ProcOf[j]
    IN  /\ StaleHit(j) /\ IsAsync(p)
        /\ job[j].key \notin InflightSeen(p) /\ SlotsSeen(p) > 0
        /\ StartOver(p, {job[j].key}, 1)
        /\ job' = [job EXCEPT ![j].phase = "scheduled", ![j].background = TRUE, ![j].found = None]
        /\ UNCHANGED <<setup, remote, late, cancels>>

(* The two halves in a thread. *)
Check(j) ==
    LET p == ProcOf[j]
    IN  /\ StaleHit(j) /\ ~IsAsync(p) /\ job[j].key \notin InflightSeen(p)
        /\ StartOver(p, {}, 0)
        /\ job' = [job EXCEPT ![j].phase = "checked", ![j].found = None]
        /\ UNCHANGED <<setup, remote, late, cancels>>

ClaimChecked(j) ==
    LET p == ProcOf[j]
    IN  /\ InPhase(j, "checked")
        /\ \/ /\ slots[p] > 0
              /\ slots' = [slots EXCEPT ![p] = @ - 1]
              /\ inflight' = [inflight EXCEPT ![p] = @ \cup {job[j].key}]
              /\ job' = [job EXCEPT ![j].phase = "scheduled", ![j].background = TRUE, ![j].found = None]
           \/ slots[p] = 0 /\ Drop(j) /\ UNCHANGED <<inflight, slots>>
        /\ UNCHANGED <<setup, remote, forked, lost, late, cancels>>

(* _l2_swr_end *)
End(j) ==
    LET p == ProcOf[j]
    IN  /\ inflight' = [inflight EXCEPT ![p] = @ \ {job[j].key}]
        /\ slots' = [slots EXCEPT ![p] = @ + 1]
        /\ UNCHANGED <<forked, lost>>
        /\ Drop(j)

(* Mutant: a refresh that cannot be scheduled keeps its slot. *)
CannotScheduleLeaks(j) ==
    /\ InPhase(j, "scheduled")
    /\ Drop(j)
    /\ UNCHANGED <<setup, remote, sched, late, cancels>>

(* The arguments cannot be copied, or no thread can be started. *)
CannotSchedule(j) ==
    /\ InPhase(j, "scheduled")
    /\ End(j)
    /\ UNCHANGED <<setup, remote, late, cancels>>

(* The task or thread begins; a task asks for the lease first. *)
Start(j) ==
    /\ InPhase(j, "scheduled")
    /\ Goto(j, IF IsAsync(ProcOf[j]) THEN "leasing" ELSE "running")
    /\ UNCHANGED <<setup, remote, sched, late, cancels>>
--------------------------------------------------------------------------------
(* _try_acquire_lock, one attempt: the server grants the lock ... *)
LeaseGranted(j) ==
    /\ InPhase(j, "leasing") /\ lease[job[j].key] = None
    /\ lease' = [lease EXCEPT ![job[j].key] = j]
    /\ job' = [job EXCEPT ![j].phase = "running", ![j].leased = TRUE]
    /\ UNCHANGED <<setup, server, sched, late, cancels>>

(* ... or does not, or is not reached, or refuses the request (which        *)
(* raises); or it grants the lock and the answer is lost or malformed.  In  *)
(* each case the refresh ends, and in the last nobody can release the lock. *)
LeaseDenied(j) ==
    /\ InPhase(j, "leasing")
    /\ lease' \in {lease} \cup
         {[lease EXCEPT ![k] = "orphan"] : k \in {k \in {job[j].key} : lease[k] = None}}
    /\ End(j)
    /\ UNCHANGED <<setup, server, late, cancels>>

(* Mutant: the lock is deleted without saying whose it is. *)
GiveBackAny(j) ==
    LET k == job[j].key
    IN  lease' \in {[lease EXCEPT ![k] = None]} \cup
          {[lease EXCEPT ![kk] = "orphan"] : kk \in {kk \in {k} : lease[kk] = j}}

(* _release_lock with the lock id: best effort, and a no-op at the server   *)
(* if the lease has expired or is another's.                                *)
GiveBack(j) ==
    LET k == job[j].key
    IN  IF lease[k] = j
        THEN lease' \in {[lease EXCEPT ![k] = None], [lease EXCEPT ![k] = "orphan"]}
        ELSE UNCHANGED lease

(* Leaving acquire_lock, then _l2_swr_end; a foreground call just returns. *)
Leave(j) ==
    /\ InPhase(j, "leaving")
    /\ IF job[j].leased THEN GiveBack(j) ELSE UNCHANGED lease
    /\ IF job[j].background THEN End(j) ELSE Drop(j) /\ UNCHANGED sched
    /\ UNCHANGED <<setup, server, late, cancels>>

(* The function runs to its end. *)
RunFunc(j) ==
    /\ InPhase(j, "running")
    /\ Goto(j, "storing")
    /\ UNCHANGED <<setup, remote, sched, late, cancels>>

(* It raises, or its result cannot be serialized: a refresh is given up in  *)
(* silence, a caller gets the error or the uncached value.                  *)
FuncFails(j) ==
    /\ InPhase(j, "running")
    /\ Goto(j, "leaving")
    /\ UNCHANGED <<setup, remote, sched, late, cancels>>

Written(j) ==
    [server EXCEPT ![job[j].key] = Fresh(SwrActive(ProcOf[j]))]

(* handler.set with ttl and stale_ttl; a failure is logged and returns      *)
(* False, which nobody looks at; _put_l1 follows.                           *)
WriteL2(j) ==
    /\ InPhase(j, "storing")
    /\ server' \in Attempt(server, Written(j))
    /\ Goto(j, "leaving")
    /\ UNCHANGED <<setup, lease, sched, late, cancels>>
--------------------------------------------------------------------------------
(* A task is cancelled where it awaits.  The block around it is left in     *)
(* order; a request for the lease may still be granted, and a write in the  *)
(* thread pool goes on.                                                     *)
Cancel(j) ==
    LET k == job[j].key
    IN  /\ cancels < MaxCancels /\ IsAsync(ProcOf[j]) /\ job[j].background
        /\ job[j].phase \in {"leasing", "running", "storing"}
        /\ cancels' = cancels + 1
        /\ lease' \in {lease} \cup
             {[lease EXCEPT ![k] = "orphan"] : x \in {x \in {j} : InPhase(x, "leasing") /\ lease[k] = None}}
        /\ late' = late \cup {[key |-> k, entry |-> Written(x)[k]] :
                              x \in {x \in {j} : InPhase(x, "storing")}}
        /\ Goto(j, "leaving")
        /\ UNCHANGED <<setup, server, sched>>

(* The abandoned write lands, or fails. *)
LateWrite(w) ==
    /\ server' \in Attempt(server, [server EXCEPT ![w.key] = w.entry])
    /\ late' = late \ {w}
    /\ UNCHANGED <<setup, lease, job, sched, cancels>>

(* ... or before its first step: its finally never runs. *)
CancelEarly(j) ==
    LET p == ProcOf[j]
    IN  /\ cancels < MaxCancels /\ IsAsync(p) /\ InPhase(j, "scheduled")
        /\ cancels' = cancels + 1
        /\ lost' = [lost EXCEPT ![p] = @ \cup {job[j].key}]
        /\ Drop(j)
        /\ UNCHANGED <<setup, remote, inflight, slots, forked, late>>

(* We follow the child: the threads and tasks of its parent are not there,  *)
(* but its scheduler state is, until it notices.                            *)
Fork(p) ==
    LET gone == {j \in Jobs : ProcOf[j] = p}
    IN  /\ cancels < MaxCancels /\ p \notin forked
        /\ cancels' = cancels + 1
        /\ forked' = forked \cup {p}
        /\ job' = [j \in Jobs |-> IF j \in gone THEN Nothing ELSE job[j]]
        /\ lease' = [k \in Keys |-> IF lease[k] \in gone THEN "orphan" ELSE lease[k]]
        /\ UNCHANGED <<setup, server, inflight, slots, lost, late>>
--------------------------------------------------------------------------------
(* The steps a job takes by itself, once begun. *)
Step(j) ==
    \/ ServeFresh(j) \/ Missed(j) \/ Refused(j) \/ Claim(j)
    \/ Check(j) \/ ClaimChecked(j) \/ Start(j)
    \/ LeaseGranted(j) \/ LeaseDenied(j)
    \/ RunFunc(j) \/ WriteL2(j) \/ Leave(j)

Next ==
    \/ \E k \in Keys : GoStale(k) \/ Gone(k) \/ LeaseExpires(k)
    \/ \E j \in Jobs, k \in Keys : Read(j, k)
    \/ \E j \in Jobs : Step(j) \/ CannotSchedule(j) \/ FuncFails(j) \/ Cancel(j) \/ CancelEarly(j)
    \/ \E w \in late : LateWrite(w)
    \/ \E p \in Procs : Fork(p)

Spec == Init /\ [][Next]_vars

(* The event loop and the threads run what is ready, and a function returns *)
(* or raises.  Nothing is assumed of calls, the server, failures or         *)
(* cancellation.                                                            *)
FairSpec == Spec /\ \A j \in Jobs : WF_vars(Step(j))
--------------------------------------------------------------------------------
Entries == [stale : BOOLEAN, window : BOOLEAN]

(* The state space; slots of the bounded semaphore stay within its bound,   *)
(* and a process owns the slots of no more refreshes than there are.        *)
TypeOK ==
    /\ server \in [Keys -> Entries \cup {None}]
    /\ lease \in [Keys -> Jobs \cup {"orphan", None}]
    /\ \A j \in Jobs :
         /\ job[j].phase \in {"idle", "read", "checked", "scheduled", "leasing", "running",
                              "storing", "leaving"}
         /\ job[j].key \in Keys \cup {None}
         /\ job[j].found \in Entries \cup {None}
         /\ {job[j].background, job[j].leased, job[j].expired} \subseteq BOOLEAN
    /\ inflight \in [Procs -> SUBSET Keys] /\ lost \in [Procs -> SUBSET Keys]
    /\ slots \in [Procs -> 0..limit]
    /\ forked \subseteq Procs
    /\ late \subseteq [key : Keys, entry : Entries]

(* _l2_swr_slots (wrapper.py:718, 747-757): every permit is free, owned by  *)
(* a refresh under way, or was lost with a task cancelled before its first  *)
(* step (whose finally never runs); nothing else leaks or returns one, in   *)
(* threads that race past the in-flight check too.  A forked child is       *)
(* judged once it has replaced what it inherited.                           *)
SlotsAccounted ==
    \A p \in Procs \ forked :
        slots[p] + Cardinality(Claimed(p)) + Cardinality(lost[p]) = limit

(* _l2_swr_schedule (wrapper.py:811) "at most one per key": in an event     *)
(* loop no two revalidations of a key are scheduled or running in one       *)
(* process, across cancellation, failures to schedule, and forks.           *)
AtMostOnePerKey ==
    \A i, j \in Jobs :
        (i # j /\ ProcOf[i] = ProcOf[j] /\ IsAsync(ProcOf[i])
           /\ job[i].background /\ job[j].background) => job[i].key # job[j].key

(* wrapper.py:712-715 and cachekitio acquire_lock: the lease is single      *)
(* flight across clients.  Of the refreshes of a key that hold a lease that *)
(* has not timed out there is at most one: a slow refresh that outlives its *)
(* lease must not, on leaving, release the lease of the one after it.       *)
LeaseExclusive ==
    \A i, j \in Jobs :
        (i # j /\ job[i].leased /\ job[j].leased /\ ~job[i].expired /\ ~job[j].expired)
            => job[i].key # job[j].key

(* wrapper.py:702-706: a stale window that is in use starts where freshness *)
(* ends and stays, with the ttl, under the server's storage cap, at the cap *)
(* and for the preset's default too; the backend can tell stale from fresh. *)
WindowFits ==
    \A p \in Procs : SwrActive(p) =>
        /\ config[p].ttl > 0 /\ config[p].capable
        /\ config[p].ttl + StaleWindow(config[p]) <= Cap

(* The permits of _l2_swr_slots add up and the windows in use fit, in       *)
(* every process and after every failure, cancellation and fork             *)
(* (wrapper.py:702-757).                                                    *)
RefreshesAccounted == TypeOK /\ WindowFits /\ SlotsAccounted

(* wrapper.py:818-819 "the key never becomes permanently unrevalidatable":  *)
(* a key in _l2_swr_inflight leaves it again, whatever is cancelled or      *)
(* fails; a forked child clears it at its next stale hit.  The exception is *)
(* the task that was cancelled before its first step.                       *)
NeverUnrevalidatable ==
    \A p \in Procs, k \in Keys :
        []<>(k \notin inflight[p] \/ p \in forked \/ k \in lost[p])
================================================================================
