------------------------------ MODULE L1OnlyMode -------------------------------
(***************************************************************************)
(* decorators/wrapper.py with backend=None: a decorated function cached in *)
(* an ObjectCache, with background refresh, refresh slots, the set of      *)
(* tracked keys and invalidation.  The refreshes of a sync function run on *)
(* daemon threads, those of an async function as tasks of one event loop.  *)
(*                                                                         *)
(* An actor is one call of the decorated function together with the        *)
(* background refresh it may leave behind: the caller gets the stale value *)
(* back as soon as the refresh is scheduled, and comes back as another     *)
(* actor.  Function results are abstracted to their size.                  *)
(***************************************************************************)
EXTENDS ObjectCache

CONSTANTS
    MaxSlots,   \* _L1_SWR_MAX_CONCURRENT_REFRESHES
    Kinds,      \* the kinds of functions considered, "sync" and "async"
    Faults      \* what may befall a refresh, a subset of FaultKinds

(* early_cancel: a task is cancelled before its first step (the event loop *)
(* closes right after it was created).  exit: func raises SystemExit on    *)
(* the refresh thread.  fork: the process continues as a forked child.     *)
FaultKinds == {"early_cancel", "exit", "fork"}

ASSUME ModeAssumption ==
    /\ MaxSlots \in Nat \ {0}
    /\ Kinds \subseteq {"sync", "async"}
    /\ Faults \subseteq FaultKinds
    /\ None \notin TokenType

VARIABLES
    call,      \* call[a]: where actor a is, and the key of its call
    slots,     \* free permits of _l1_swr_slots
    tracked,   \* _cached_keys
    inv,       \* the invalidate_cache() in progress
    inherited, \* _l1_swr_pid is still the parent's: forked, no refresh since
    kind,      \* inspect.iscoroutinefunction(func); never changes
    lost       \* ghost: slots and refreshes of tasks and threads cut short

rest == <<inherited, kind, lost>>
modeVars == <<call, slots, tracked, inv, rest>>
allVars == <<vars, modeVars>>

Phases == {"idle", "flagged", "reserved", "scheduled", "refreshing",
           "abandoning", "cancelling", "releasing",
           "computing", "stored"}

(* A refresh in one of these phases holds a slot. *)
SlotPhases == {"reserved", "scheduled", "refreshing", "abandoning", "releasing"}

InPhase(a, p) == call[a].phase = p

Enter(a, p) == call' = [call EXCEPT ![a].phase = p]

IsAsync == kind = "async"

IdleInv == [phase |-> "idle", todo |-> {}, key |-> None]
--------------------------------------------------------------------------------
ModeInit ==
    /\ Init
    /\ call = [a \in Actors |-> [phase |-> "idle", key |-> None]]
    /\ slots = MaxSlots
    /\ tracked = {}
    /\ inv = IdleInv
    /\ inherited = FALSE
    /\ kind \in Kinds
    /\ lost = [slots |-> 0, refreshes |-> {}]

ModeTick == Tick /\ UNCHANGED modeVars

(* The lookup of the wrapper: a miss goes on to run the function. *)
Lookup(a, k) ==
    /\ InPhase(a, "idle")
    /\ \/ /\ ServeFresh(k)
          /\ UNCHANGED call
       \/ /\ ServeStale(a, k)
          /\ call' = [call EXCEPT ![a] = [phase |-> "flagged", key |-> k]]
       \/ /\ ExpireOnRead(k) \/ (k \notin Live(oc) /\ UNCHANGED vars)
          /\ call' = [call EXCEPT ![a] = [phase |-> "computing", key |-> k]]
    /\ UNCHANGED <<slots, tracked, inv, rest>>

SkipRefresh(a) == Enter(a, "cancelling") /\ UNCHANGED vars

(* Mutant: a forked child goes on counting with the parent's semaphore. *)
AcquireInherited(a) ==
    /\ InPhase(a, "flagged")
    /\ inherited' = FALSE
    /\ lost' = IF inherited THEN [lost EXCEPT !.slots = 0] ELSE lost
    /\ \/ slots = 0 /\ UNCHANGED slots /\ SkipRefresh(a)
       \/ slots > 0 /\ slots' = slots - 1 /\ Enter(a, "reserved") /\ UNCHANGED vars
    /\ UNCHANGED <<tracked, inv, kind>>

(* _l1_swr_acquire, up to the copy: reset after a fork, then take a slot.   *)
Acquire(a) ==
    LET free == IF inherited THEN MaxSlots ELSE slots
    IN  /\ InPhase(a, "flagged")
        /\ inherited' = FALSE
        /\ lost' = IF inherited THEN [lost EXCEPT !.slots = 0] ELSE lost
        /\ \/ /\ free = 0
              /\ slots' = free
              /\ SkipRefresh(a)
           \/ /\ free > 0
              /\ slots' = free - 1
              /\ Enter(a, "reserved")
              /\ UNCHANGED vars
        /\ UNCHANGED <<tracked, inv, kind>>

(* The arguments are copied and the thread or task is created. *)
Schedule(a) ==
    /\ InPhase(a, "reserved")
    /\ Enter(a, "scheduled")
    /\ UNCHANGED <<vars, slots, tracked, inv, rest>>

(* deepcopy raises, or (sync only, same handling) the thread cannot start. *)
ScheduleFails(a) ==
    /\ InPhase(a, "reserved")
    /\ Enter(a, "abandoning")
    /\ UNCHANGED <<vars, slots, tracked, inv, rest>>

(* The first of the two clean-up calls: _l1_swr_slots.release(). *)
GiveUpSlot(a) ==
    /\ InPhase(a, "abandoning")
    /\ slots' = slots + 1
    /\ Enter(a, "cancelling")
    /\ UNCHANGED <<vars, tracked, inv, rest>>

(* The second: cancel_refresh. *)
GiveUpMark(a) ==
    /\ InPhase(a, "cancelling")
    /\ CancelRefresh(a)
    /\ Enter(a, "idle")
    /\ UNCHANGED <<slots, tracked, inv, rest>>

(* The refresh thread or task takes its first step and enters the try. *)
StartRefresh(a) ==
    /\ InPhase(a, "scheduled")
    /\ Enter(a, "refreshing")
    /\ UNCHANGED <<vars, slots, tracked, inv, rest>>

(* Mutant: a refresh whose function raises leaves the key flagged. *)
RefreshFailsForgotten(a) ==
    /\ InPhase(a, "refreshing")
    /\ tokens' = [tokens EXCEPT ![a] = None]
    /\ Enter(a, "releasing")
    /\ UNCHANGED <<oc, generation, now, epoch, slots, tracked, inv, rest>>

(* func raises (or the running task is cancelled): cancel_refresh. *)
RefreshFails(a) ==
    /\ InPhase(a, "refreshing")
    /\ CancelRefresh(a)
    /\ Enter(a, "releasing")
    /\ UNCHANGED <<slots, tracked, inv, rest>>

RefreshLands(a, size) ==
    /\ InPhase(a, "refreshing")
    /\ CompleteRefresh(a, size)
    /\ Enter(a, "releasing")
    /\ UNCHANGED <<slots, tracked, inv, rest>>

(* The finally block.  A BoundedSemaphore raises when released too often.  *)
ReleaseSlot(a) ==
    /\ InPhase(a, "releasing")
    /\ slots' = slots + 1
    /\ Enter(a, "idle")
    /\ UNCHANGED <<vars, tracked, inv, rest>>

(* The refreshes these actors have in flight. *)
Refreshes(A) == {<<tokens[a].key, tokens[a].version>> : a \in {b \in A : tokens[b] # None}}

(* A task cancelled before its first step never enters the try block: the  *)
(* slot is not released and the refresh is neither completed nor cancelled. *)
EarlyCancel(a) ==
    /\ "early_cancel" \in Faults /\ IsAsync
    /\ InPhase(a, "scheduled")
    /\ tokens' = [tokens EXCEPT ![a] = None]
    /\ lost' = [slots |-> lost.slots + 1, refreshes |-> lost.refreshes \cup Refreshes({a})]
    /\ Enter(a, "idle")
    /\ UNCHANGED <<oc, generation, now, epoch, slots, tracked, inv, inherited, kind>>

(* _l1_swr_refresh_sync catches Exception only; finally still runs. *)
RefreshExits(a) ==
    /\ "exit" \in Faults /\ ~IsAsync
    /\ InPhase(a, "refreshing")
    /\ tokens' = [tokens EXCEPT ![a] = None]
    /\ lost' = [lost EXCEPT !.refreshes = @ \cup Refreshes({a})]
    /\ Enter(a, "releasing")
    /\ UNCHANGED <<oc, generation, now, epoch, slots, tracked, inv, inherited, kind>>

(* os.fork() between two calls: the child inherits the cache, its markers   *)
(* and the semaphore, but none of the threads.                              *)
Fork ==
    /\ "fork" \in Faults
    /\ ~inherited
    /\ inherited' = TRUE
    /\ tokens' = [a \in Actors |-> None]
    /\ lost' = [lost EXCEPT !.refreshes = @ \cup Refreshes(Actors)]
    /\ call' = [a \in Actors |-> [phase |-> "idle", key |-> None]]
    /\ inv' = IdleInv
    /\ UNCHANGED <<oc, generation, now, epoch, slots, tracked, kind>>
--------------------------------------------------------------------------------
(* The miss path: the function raises, or returns and its result is stored. *)
FuncRaises(a) ==
    /\ InPhase(a, "computing")
    /\ Enter(a, "idle")
    /\ UNCHANGED <<vars, slots, tracked, inv, rest>>

(* Mutant: a stored key is never tracked. *)
StoreUntracked(a, size) ==
    /\ InPhase(a, "computing")
    /\ Put(call[a].key, size)
    /\ Enter(a, "idle")
    /\ UNCHANGED <<slots, tracked, inv, rest>>

(* Without an await between them, put() and the tracking are one step of    *)
(* the event loop; two threads can interleave there.                        *)
Store(a, size) ==
    /\ InPhase(a, "computing")
    /\ Put(call[a].key, size)
    /\ IF IsAsync
       THEN tracked' = tracked \cup {call[a].key} /\ Enter(a, "idle")
       ELSE UNCHANGED tracked /\ Enter(a, "stored")
    /\ UNCHANGED <<slots, inv, rest>>

Track(a) ==
    /\ InPhase(a, "stored")
    /\ tracked' = tracked \cup {call[a].key}
    /\ Enter(a, "idle")
    /\ UNCHANGED <<vars, slots, inv, rest>>
--------------------------------------------------------------------------------
(* invalidate_cache(args): one key, a delete and a discard. *)
InvalidateKey(k) ==
    /\ inv.phase = "idle"
    /\ Delete(k)
    /\ IF IsAsync
       THEN tracked' = tracked \ {k} /\ UNCHANGED inv
       ELSE inv' = [phase |-> "discard", todo |-> {}, key |-> k] /\ UNCHANGED tracked
    /\ UNCHANGED <<call, slots, rest>>

(* invalidate_cache() on a parameterised function: a snapshot of the        *)
(* tracked keys, then delete and discard each.  ainvalidate_cache() never   *)
(* awaits in this mode, so there the whole loop is one step.                *)
InvalidateAll ==
    /\ inv.phase = "idle"
    /\ tracked # {}
    /\ IF IsAsync
       THEN /\ \A k \in tracked : epoch[k] < MaxGeneration
            /\ oc' = Remove(oc, tracked)
            /\ epoch' = [k \in Keys |-> epoch[k] + (IF k \in tracked THEN 1 ELSE 0)]
            /\ tracked' = {}
            /\ UNCHANGED <<generation, now, tokens, inv>>
       ELSE /\ inv' = [phase |-> "loop", todo |-> tracked, key |-> None]
            /\ UNCHANGED <<vars, tracked>>
    /\ UNCHANGED <<call, slots, rest>>

DeleteNext(k) ==
    /\ inv.phase = "loop"
    /\ k \in inv.todo
    /\ Delete(k)
    /\ inv' = [phase |-> "discard", todo |-> inv.todo \ {k}, key |-> k]
    /\ UNCHANGED <<call, slots, tracked, rest>>

Discard ==
    /\ inv.phase = "discard"
    /\ tracked' = tracked \ {inv.key}
    /\ inv' = IF inv.todo = {} THEN IdleInv
              ELSE [inv EXCEPT !.phase = "loop", !.key = None]
    /\ UNCHANGED <<vars, call, slots, rest>>
--------------------------------------------------------------------------------
(* The steps of a refresh once it has been flagged. *)
RefreshStep(a) ==
    \/ Acquire(a)
    \/ Schedule(a)
    \/ ScheduleFails(a)
    \/ GiveUpSlot(a)
    \/ GiveUpMark(a)
    \/ StartRefresh(a)
    \/ RefreshFails(a)
    \/ \E size \in Sizes : RefreshLands(a, size)
    \/ ReleaseSlot(a)

(* The steps of a call that missed. *)
MissStep(a) ==
    \/ FuncRaises(a)
    \/ \E size \in Sizes : Store(a, size)
    \/ Track(a)

ModeNext ==
    \/ ModeTick
    \/ \E a \in Actors :
         \/ \E k \in Keys : Lookup(a, k)
         \/ RefreshStep(a)
         \/ MissStep(a)
         \/ EarlyCancel(a)
         \/ RefreshExits(a)
    \/ Fork
    \/ \E k \in Keys : InvalidateKey(k) \/ DeleteNext(k)
    \/ InvalidateAll
    \/ Discard

ModeSpec == ModeInit /\ [][ModeNext]_allVars

(* A flagged refresh runs on: the OS schedules its thread, the loop its     *)
(* task, and the function it calls returns or raises.                       *)
FairModeSpec == ModeSpec /\ \A a \in Actors : WF_allVars(RefreshStep(a))
--------------------------------------------------------------------------------
(* The call state is well formed, and a refresh holds a token exactly while *)
(* it has not been completed or cancelled.                                  *)
ModeTypeOK ==
    /\ TypeOK
    /\ call \in [Actors -> [phase : Phases, key : Keys \cup {None}]]
    /\ slots \in 0..MaxSlots
    /\ tracked \subseteq Keys
    /\ inv \in [phase : {"idle", "loop", "discard"}, todo : SUBSET Keys,
                key : Keys \cup {None}]
    /\ inherited \in BOOLEAN
    /\ kind \in Kinds
    /\ lost \in [slots : Nat, refreshes : SUBSET (Keys \X Nat)]
    /\ \A a \in Actors :
         tokens[a] # None <=> call[a].phase \in
            {"flagged", "reserved", "scheduled", "refreshing", "abandoning", "cancelling"}

(* "Only ever scheduled with a slot held via _l1_swr_acquire; releases it"  *)
(* (wrapper.py:937): the free slots and the refreshes that hold one always  *)
(* add up, so the bounded semaphore is never over-released and no slot      *)
(* leaks, whichever way the refresh ends; only a task cancelled before its  *)
(* first step takes its slot with it.                                       *)
SlotsConserved ==
    \/ inherited
    \/ slots + Cardinality({a \in Actors : call[a].phase \in SlotPhases}) + lost.slots = MaxSlots

(* "The caller MUST finish the cycle with complete_refresh or               *)
(* cancel_refresh, otherwise no further refresh is ever flagged for that    *)
(* key" (object_cache.py:195-197): some actor still holds the token of      *)
(* every marker, through every failure path of the wrapper, unless its task *)
(* or thread was cut short by what the wrapper does not catch.              *)
EveryMarkerOwned ==
    \A k \in DOMAIN oc.marks :
        <<k, oc.marks[k]>> \in Refreshes(Actors) \cup lost.refreshes

(* What a refresh takes, its slot and the in-flight marker of its key, is   *)
(* given back exactly once whichever of its exits it leaves by              *)
(* (wrapper.py:894-965).                                                    *)
RefreshesAccounted == ModeTypeOK /\ SlotsConserved /\ EveryMarkerOwned

(* "Tracking actual keys is simple and correct" (wrapper.py:875): every     *)
(* live entry of an async function is tracked, so an ainvalidate_cache()    *)
(* without arguments reaches it.  (Threads may store between the delete and *)
(* the discard of an invalidate_cache(), so of sync functions it is not     *)
(* true.)                                                                   *)
LiveKeysTracked == IsAsync => Live(oc) \subseteq tracked

(* A refresh in flight always ends and lets the next one be flagged: no     *)
(* marker stays forever, whether the refresh lands, fails, finds no slot    *)
(* or cannot be started (wrapper.py:894-965), unless its task or thread was *)
(* cut short.                                                               *)
RefreshesEnd ==
    \A k \in Keys : k \in DOMAIN oc.marks ~>
        k \notin DOMAIN oc.marks \/ <<k, oc.marks[k]>> \in lost.refreshes
================================================================================
