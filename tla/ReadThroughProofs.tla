--------------------------- MODULE ReadThroughProofs ---------------------------
(***************************************************************************)
(* Proofs about ReadThrough for any processes, tasks, lifetimes, bounds    *)
(* and any set of faults.                                                  *)
(*                                                                         *)
(* The inductive invariant says of each call, by the phase it is in, how   *)
(* often the function can have run, that what it holds in hand is not      *)
(* older than any invalidation made while nothing was in flight and, when  *)
(* nothing can go wrong, that it computes only while it holds the lock and *)
(* L2 has no live value.                                                   *)
(***************************************************************************)
EXTENDS ReadThrough, TLAPS

Early == {"reading", "read", "locking", "rechecking", "rechecked"}

(* How often the function can have run.  Only a BackendError of its own     *)
(* that was misread makes it run again.                                     *)
RunsSoFar(d) ==
    /\ d.phase \in {"idle", "reading", "read", "locking", "leasing"} => d.locked = "none"
    /\ d.phase \in Early \cup {"leasing"} => d.runs = 0
    /\ d.phase = "computing" => d.runs <= 1 /\ (d.locked # "none" => d.runs = 0)
    /\ d.phase = "releasing" /\ d.outcome = "none" => d.runs <= 1 /\ d.misread = 1
    /\ d.misread = 0 => d.runs <= 1 /\ (d.phase = "computing" => d.runs = 0)
    /\ d.misread = 1 \/ d.phase = "leasing" => Faults # {}

(* What the call holds in hand is at least as recent as f requires. *)
FreshInHand(d, f) ==
    /\ d.phase \in {"read", "rechecked"} /\ d.entry # None =>
         \A p \in Procs : d.entry.version >= f[p]
    /\ d.phase \in {"computed", "written"} => \A p \in Procs : d.version >= f[p]

(* Whoever is about to compute or store has the lock, and has seen that L2 *)
(* holds nothing.                                                          *)
ComputesAlone(c, d, l, live) ==
    /\ d.locked = "held" => l = c
    /\ d.phase \in {"rechecking", "rechecked", "computing", "computed"} => d.locked = "held"
    /\ d.phase \in {"computing", "computed"} \/ (d.phase = "rechecked" /\ d.entry = None)
         => ~live

HerdInv ==
    /\ lock # "orphan"
    /\ \A c \in Calls : ComputesAlone(c, call[c], lock, L2Live)

IInv ==
    /\ TypeOK
    /\ \A c \in Calls : RunsSoFar(call[c]) /\ FreshInHand(call[c], floor)
    /\ \A p \in Procs : floor[p] <= data
    /\ InvalidationSticks
    /\ L1Tracked
    /\ Faults = {} => HerdInv
--------------------------------------------------------------------------------
(* What a step of call c has to show of c's new record and of the lock ... *)
Moved(c) ==
    /\ call' = [call EXCEPT ![c] = call'[c]]
    /\ call'[c] \in CallType
    /\ RunsSoFar(call'[c])
    /\ FreshInHand(call'[c], floor)
    /\ lock' \in {lock, c, "orphan", None}
    /\ lock' = c => call'[c].locked = "held"
    /\ Faults = {} => /\ lock' # "orphan"
                      /\ lock' = lock \/ lock \in {None, c}
                      /\ ComputesAlone(c, call'[c], lock', L2Live')

(* ... and of the tiers. *)
TiersFresh(c) ==
    /\ l1' \in [Procs -> L1Entry \cup {None}]
    /\ l2' \in L2Entry \cup {None}
    /\ tracked' \subseteq Procs
    /\ \A p \in Procs : l1'[p] # None =>
         l1'[p].version >= floor[p] /\ (l1'[p].by = "call" => p \in tracked')
    /\ \A p \in Procs : l2' # None => l2'.version >= floor[p]
    /\ Faults = {} => (L2Live' => L2Live \/ lock = c)

(* Then the invariant holds after the step. *)
LEMMA CallMoves ==
    ASSUME IInv, NEW c \in Calls, Moved(c), TiersFresh(c), UNCHANGED <<now, data, floor>>
    PROVE  IInv'
<1>1. TypeOK'
  BY ReadThroughAssumption DEF IInv, TypeOK, Moved, TiersFresh
<1>2. \A e \in Calls : RunsSoFar(call'[e]) /\ FreshInHand(call'[e], floor')
  BY DEF IInv, TypeOK, Moved
<1>3. /\ InvalidationSticks' /\ L1Tracked'
      /\ \A p \in Procs : floor'[p] <= data'
  BY DEF IInv, InvalidationSticks, L1Tracked, TiersFresh
<1>4. ASSUME Faults = {}
      PROVE  HerdInv'
  <2>1. ASSUME NEW e \in Calls, e # c
        PROVE  ComputesAlone(e, call'[e], lock', L2Live')
    <3>1. call'[e] = call[e] /\ ComputesAlone(e, call[e], lock, L2Live)
      BY <1>4, <2>1 DEF IInv, TypeOK, HerdInv, Moved
    <3>2. lock = e => lock' = e
      BY <1>4, <2>1, ReadThroughAssumption DEF Moved
    <3>3. L2Live' => L2Live \/ lock = c
      BY <1>4 DEF TiersFresh
    <3> QED
      BY <2>1, <3>1, <3>2, <3>3 DEF ComputesAlone
  <2> QED
    BY <1>4, <2>1 DEF HerdInv, Moved
<1> QED
  BY <1>1, <1>2, <1>3, <1>4 DEF IInv

(* A step of a call that leaves the tiers alone. *)
LEMMA CallMovesOnly ==
    ASSUME IInv, NEW c \in Calls, Moved(c), UNCHANGED <<caches, now, data, floor>>
    PROVE  IInv'
<1>1. TiersFresh(c)
  BY DEF IInv, TypeOK, InvalidationSticks, L1Tracked, L2Live, caches, TiersFresh
<1> QED
  BY <1>1, CallMoves DEF caches

(* What is known of a call before its step. *)
LEMMA CallBefore ==
    ASSUME IInv, NEW c \in Calls
    PROVE  /\ call \in [Calls -> CallType] /\ call[c] \in CallType
           /\ RunsSoFar(call[c]) /\ FreshInHand(call[c], floor)
           /\ lock \in Calls \cup {"orphan", None}
           /\ lock = c => call[c].locked = "held"
           /\ Faults = {} => lock # "orphan" /\ ComputesAlone(c, call[c], lock, L2Live)
  BY DEF IInv, TypeOK, HerdInv

(* A call's record, field by field. *)
Rec(p, e, v, l, n, o, m) ==
    [phase |-> p, entry |-> e, version |-> v, locked |-> l, runs |-> n, outcome |-> o,
     misread |-> m]

(* A record of typed fields is a call's record. *)
LEMMA RecTyped ==
    ASSUME NEW p \in Phases, NEW e \in L2Entry \cup {None}, NEW v \in Nat,
           NEW l \in LockStates, NEW n \in 0..2, NEW o \in Outcomes, NEW m \in 0..1
    PROVE  Rec(p, e, v, l, n, o, m) \in CallType
  BY DEF Rec, CallType

(* The fields of a call's record have their types. *)
LEMMA CallFields ==
    ASSUME IInv, NEW c \in Calls
    PROVE  /\ call[c].entry \in L2Entry \cup {None} /\ call[c].version \in Nat
           /\ call[c].locked \in LockStates /\ call[c].runs \in 0..2
           /\ call[c].outcome \in Outcomes /\ call[c].misread \in 0..1
  BY CallBefore DEF CallType

(* An idle call is no concern of the invariant. *)
LEMMA IdleOK ==
    ASSUME NEW o \in Outcomes, NEW n \in 0..2, NEW m \in 0..1,
           m = 0 => n <= 1, m = 1 => Faults # {}
    PROVE  /\ Idle(o, n, m) \in CallType
           /\ Idle(o, n, m).phase = "idle" /\ Idle(o, n, m).locked = "none"
           /\ RunsSoFar(Idle(o, n, m))
           /\ \A f : FreshInHand(Idle(o, n, m), f)
           /\ \A c, l, live : ComputesAlone(c, Idle(o, n, m), l, live)
  BY DEF Idle, CallType, Phases, LockStates, Outcomes, RunsSoFar, FreshInHand, Early,
         ComputesAlone
--------------------------------------------------------------------------------
(* A read of L2 brings nothing older than what L2 holds. *)
LEMMA ReadL2Inv ==
    ASSUME IInv, NEW c \in Calls, ReadL2(c)
    PROVE  IInv'
<1>1. PICK e \in Found :
        call' = [call EXCEPT ![c].entry = e,
                             ![c].phase = IF @ = "reading" THEN "read" ELSE "rechecked"]
  BY DEF ReadL2
<1>2. /\ e \in L2Entry \cup {None}
      /\ e # None => \A p \in Procs : e.version >= floor[p]
      /\ Faults = {} /\ e = None => ~L2Live
  BY DEF Found, L2Live, IInv, TypeOK, InvalidationSticks
<1>3. /\ call'[c] = [call[c] EXCEPT !.entry = e,
                       !.phase = IF @ = "reading" THEN "read" ELSE "rechecked"]
      /\ call' = [call EXCEPT ![c] = call'[c]]
  BY <1>1, CallBefore
<1>4. lock' = lock /\ L2Live' = L2Live /\ call[c].phase \in {"reading", "rechecking"}
  BY DEF ReadL2, InPhase, caches, L2Live
<1>5. Moved(c)
  BY <1>2, <1>3, <1>4, CallBefore, ZenonT(40)
     DEF Moved, CallType, RunsSoFar, FreshInHand, ComputesAlone, Early, Phases
<1> QED
  BY <1>5, CallMovesOnly DEF ReadL2

(* Taking the lock, or giving up on it. *)
LEMMA LockingInv ==
    ASSUME IInv, NEW c \in Calls, TakeLock(c) \/ GiveUpWaiting(c) \/ LockFails(c)
    PROVE  IInv'
<1> USE DEF InPhase
<1>1. L2Live' = L2Live /\ call[c].phase = "locking" /\ UNCHANGED <<caches, now, data, floor>>
  BY DEF TakeLock, GiveUpWaiting, LockFails, caches, L2Live
<1>2. CASE TakeLock(c)
  <2>1. /\ call'[c] = [call[c] EXCEPT !.phase = "rechecking", !.locked = "held"]
        /\ call' = [call EXCEPT ![c] = call'[c]]
    BY <1>2, CallBefore DEF TakeLock
  <2>2. Moved(c)
    BY <1>1, <1>2, <2>1, CallBefore, ReadThroughAssumption
       DEF TakeLock, Moved, CallType, RunsSoFar, FreshInHand, ComputesAlone, Early, Phases,
           LockStates
  <2> QED
    BY <1>1, <2>2, CallMovesOnly
<1>3. CASE GiveUpWaiting(c)
  <2>1. /\ call'[c] = [call[c] EXCEPT !.phase = "rechecking", !.locked = "waived"]
        /\ call' = [call EXCEPT ![c] = call'[c]]
    BY <1>3, CallBefore DEF GiveUpWaiting
  <2>2. Moved(c)
    BY <1>1, <1>3, <2>1, CallBefore
       DEF GiveUpWaiting, Moved, CallType, RunsSoFar, FreshInHand, ComputesAlone, Early, Phases,
           LockStates
  <2> QED
    BY <1>1, <2>2, CallMovesOnly
<1>4. CASE LockFails(c) /\ call' = [call EXCEPT ![c] = Idle("cache_error", @.runs, 0)]
  <2>1. /\ call'[c] = Idle("cache_error", call[c].runs, 0)
        /\ call' = [call EXCEPT ![c] = call'[c]]
    BY <1>4, CallBefore
  <2>2. call[c].runs = 0 /\ lock # c
    BY <1>1, CallBefore DEF RunsSoFar, Early
  <2>3. Moved(c)
    BY <1>4, <2>1, <2>2, CallBefore, IdleOK DEF LockFails, Moved, Outcomes
  <2> QED
    BY <1>1, <2>3, CallMovesOnly
<1>5. CASE LockFails(c) /\ Faults # {} /\ Enter(c, "computing")
  <2>1. /\ call'[c] = [call[c] EXCEPT !.phase = "computing"]
        /\ call' = [call EXCEPT ![c] = call'[c]]
    BY <1>5, CallBefore DEF Enter
  <2>2. Moved(c)
    BY <1>1, <1>5, <2>1, CallBefore
       DEF LockFails, Moved, CallType, RunsSoFar, FreshInHand, Early, Phases
  <2> QED
    BY <1>1, <2>2, CallMovesOnly
<1> QED
  BY <1>2, <1>3, <1>4, <1>5 DEF LockFails

(* Leaving the async with block. *)
LEMMA LeaveMoves ==
    ASSUME IInv, NEW c \in Calls, NEW o \in Outcomes \ {"none"}, NEW n \in 0..2,
           call[c].misread = 0 => n <= 1, Leave(c, o, n), lock' = lock
    PROVE  Moved(c)
<1>1. CASE call[c].locked = "held"
  <2>1. /\ call'[c] = [Idle(o, n, call[c].misread) EXCEPT !.phase = "releasing", !.locked = "held"]
        /\ call' = [call EXCEPT ![c] = call'[c]]
    BY <1>1, CallBefore DEF Leave
  <2>2. call'[c] = Rec("releasing", None, 0, "held", n, o, call[c].misread)
    BY <2>1 DEF Idle, Rec
  <2>3. call'[c] \in CallType
    <3>1. /\ "releasing" \in Phases /\ None \in L2Entry \cup {None} /\ 0 \in Nat
          /\ "held" \in LockStates /\ o \in Outcomes /\ call[c].misread \in 0..1
      BY CallFields DEF Phases, LockStates
    <3> QED
      BY <2>2, <3>1, RecTyped
  <2>4. /\ call'[c].phase = "releasing" /\ call'[c].locked = "held"
        /\ call'[c].runs = n /\ call'[c].outcome = o /\ call'[c].misread = call[c].misread
    BY <2>2 DEF Rec
  <2> QED
    BY <1>1, <2>1, <2>3, <2>4, CallBefore
       DEF Moved, RunsSoFar, FreshInHand, ComputesAlone, Early
<1>2. CASE call[c].locked # "held"
  <2>1. call'[c] = Idle(o, n, call[c].misread) /\ call' = [call EXCEPT ![c] = call'[c]]
    BY <1>2, CallBefore DEF Leave
  <2>2. lock # c /\ call[c].misread \in 0..1 /\ (call[c].misread = 1 => Faults # {})
    BY <1>2, CallBefore, CallFields DEF RunsSoFar
  <2> QED
    BY <2>1, <2>2, CallBefore, IdleOK DEF Moved
<1> QED
  BY <1>1, <1>2

(* A value put in L1 is fresh, and its key is tracked, if a call put it. *)
LEMMA PutFresh ==
    ASSUME IInv, NEW c \in Calls, NEW v \in Nat, NEW x \in Nat, NEW by \in {"call", "refresh"},
           \A p \in Procs : v >= floor[p],
           PutL1(ProcOf[c], v, x, by),
           tracked' = IF by = "call" THEN tracked \cup {ProcOf[c]} ELSE tracked,
           UNCHANGED <<l2, now>>
    PROVE  TiersFresh(c)
<1>1. now + Ttl - TtlBuffer \in Nat /\ ProcOf[c] \in Procs
  BY ReadThroughAssumption DEF IInv, TypeOK
<1>2. l1' = [l1 EXCEPT ![ProcOf[c]] =
               [version |-> v, expires |-> now + Ttl - TtlBuffer, source |-> x, by |-> by]]
  BY DEF PutL1
<1>3. l1' \in [Procs -> L1Entry \cup {None}] /\ tracked' \subseteq Procs
  BY <1>1, <1>2 DEF IInv, TypeOK, L1Entry
<1>4. ASSUME NEW p \in Procs, l1'[p] # None
      PROVE  l1'[p].version >= floor[p] /\ (l1'[p].by = "call" => p \in tracked')
  <2>1. CASE p = ProcOf[c]
    BY <1>1, <1>2, <2>1 DEF IInv, TypeOK
  <2>2. CASE p # ProcOf[c]
    BY <1>1, <1>2, <1>4, <2>2 DEF IInv, TypeOK, InvalidationSticks, L1Tracked
  <2> QED
    BY <2>1, <2>2
<1> QED
  BY <1>3, <1>4 DEF TiersFresh, IInv, TypeOK, InvalidationSticks, L2Live

(* A stale hit is served; a revalidation may follow. *)
LEMMA ServeStaleInv ==
    ASSUME IInv, NEW c \in Calls, ServeStale(c), call[c].phase = "read",
           UNCHANGED <<l2, lock, now, data, floor>>
    PROVE  IInv'
<1>1. Faults # {} /\ UNCHANGED caches
  BY DEF ServeStale, caches
<1>2. lock # c
  BY CallBefore DEF RunsSoFar
<1>3. CASE call' = [call EXCEPT ![c] = Idle("value", 0, 0)]
  <2>1. call'[c] = Idle("value", 0, 0) /\ call' = [call EXCEPT ![c] = call'[c]]
    BY <1>3, CallBefore
  <2>2. Moved(c)
    BY <1>1, <1>2, <2>1, CallBefore, IdleOK DEF Moved, Outcomes
  <2> QED
    BY <1>1, <2>2, CallMovesOnly
<1>4. CASE call' = [call EXCEPT ![c] = [Idle("value", 0, 0) EXCEPT !.phase = "leasing"]]
  <2>1. call'[c] = Rec("leasing", None, 0, "none", 0, "value", 0)
    BY <1>4, CallBefore DEF Idle, Rec
  <2>2. call' = [call EXCEPT ![c] = call'[c]]
    BY <1>4, CallBefore
  <2>3. call'[c] \in CallType
    BY <2>1, RecTyped DEF Phases, LockStates, Outcomes
  <2>4. /\ call'[c].phase = "leasing" /\ call'[c].locked = "none" /\ call'[c].runs = 0
        /\ call'[c].misread = 0
    BY <2>1 DEF Rec
  <2>5. Moved(c)
    BY <1>1, <1>2, <2>2, <2>3, <2>4, CallBefore DEF Moved, RunsSoFar, FreshInHand, Early
  <2> QED
    BY <1>1, <2>5, CallMovesOnly
<1> QED
  BY <1>3, <1>4 DEF ServeStale

(* A revalidation takes the lock, or ends. *)
LEMMA LeaseInv ==
    ASSUME IInv, NEW c \in Calls, Lease(c)
    PROVE  IInv'
<1>1. /\ call[c].phase = "leasing" /\ UNCHANGED <<caches, now, data, floor>>
      /\ Faults # {} /\ lock # c
  BY CallBefore DEF Lease, InPhase, RunsSoFar
<1>2. CASE /\ lock = None /\ lock' = c
           /\ call' = [call EXCEPT ![c].phase = "computing", ![c].locked = "held"]
  <2>1. /\ call'[c] = [call[c] EXCEPT !.phase = "computing", !.locked = "held"]
        /\ call' = [call EXCEPT ![c] = call'[c]]
    BY <1>2, CallBefore
  <2>2. Moved(c)
    BY <1>1, <1>2, <2>1, CallBefore
       DEF Moved, CallType, RunsSoFar, FreshInHand, Early, Phases, LockStates
  <2> QED
    BY <1>1, <2>2, CallMovesOnly
<1>3. CASE call' = [call EXCEPT ![c] = Idle("value", 0, 0)] /\ UNCHANGED lock
  <2>1. call'[c] = Idle("value", 0, 0) /\ call' = [call EXCEPT ![c] = call'[c]]
    BY <1>3, CallBefore
  <2>2. Moved(c)
    BY <1>1, <1>3, <2>1, CallBefore, IdleOK DEF Moved, Outcomes
  <2> QED
    BY <1>1, <2>2, CallMovesOnly
<1> QED
  BY <1>2, <1>3 DEF Lease

(* Back from a read of L2: a hit is mirrored in L1, a miss goes on. *)
LEMMA AfterReadsInv ==
    ASSUME IInv, NEW c \in Calls, AfterRead(c) \/ AfterRecheck(c)
    PROVE  IInv'
<1>1. /\ call[c].phase \in {"read", "rechecked"} /\ lock' = lock
      /\ UNCHANGED <<l2, now, data, floor>>
  BY DEF AfterRead, AfterRecheck, InPhase
<1>2. CASE call[c].entry # None /\ Backfill(c) /\ Leave(c, "value", call[c].runs)
  <2>1. /\ call[c].entry.version \in Nat /\ call[c].entry.expires \in Nat
        /\ \A p \in Procs : call[c].entry.version >= floor[p]
        /\ call[c].runs = 0
    BY <1>1, <1>2, CallBefore DEF CallType, L2Entry, FreshInHand, RunsSoFar, Early
  <2>2. TiersFresh(c)
    BY <1>1, <1>2, <2>1, PutFresh DEF Backfill
  <2>3. Moved(c)
    BY <1>1, <1>2, <2>1, LeaveMoves DEF Outcomes
  <2> QED
    BY <1>1, <2>2, <2>3, CallMoves
<1>3. CASE call[c].phase = "read" /\ ServeStale(c)
  BY <1>1, <1>3, ServeStaleInv
<1>4. CASE /\ call[c].entry = None /\ UNCHANGED <<l1, tracked>>
           /\ \/ call[c].phase = "read" /\ Enter(c, "locking")
              \/ call[c].phase = "rechecked" /\ Enter(c, "computing")
  <2>1. /\ call' = [call EXCEPT ![c] = call'[c]]
        /\ \/ call[c].phase = "read" /\ call'[c] = [call[c] EXCEPT !.phase = "locking"]
           \/ call[c].phase = "rechecked" /\ call'[c] = [call[c] EXCEPT !.phase = "computing"]
    BY <1>4, CallBefore DEF Enter
  <2>2. L2Live' = L2Live
    BY <1>1 DEF L2Live
  <2>3. Moved(c)
    BY <1>1, <1>4, <2>1, <2>2, CallBefore
       DEF Moved, CallType, RunsSoFar, FreshInHand, ComputesAlone, Early, Phases
  <2> QED
    BY <1>1, <1>4, <2>3, CallMovesOnly DEF caches
<1> QED
  BY <1>1, <1>2, <1>3, <1>4 DEF AfterRead, AfterRecheck, InPhase

(* The function returns or raises. *)
LEMMA FuncInv ==
    ASSUME IInv, NEW c \in Calls,
           \/ RunFunc(c) \/ FuncRaises(c) \/ FuncRaisesBackendError(c) \/ CannotSerialize(c)
    PROVE  IInv'
<1>1. UNCHANGED <<caches, lock, now, data, floor>> /\ L2Live' = L2Live
  BY DEF RunFunc, FuncRaises, FuncRaisesBackendError, CannotSerialize, caches, L2Live
<1>2. CASE RunFunc(c)
  <2>1. /\ call'[c] = [call[c] EXCEPT !.phase = "computed", !.version = data,
                                      !.runs = call[c].runs + 1]
        /\ call' = [call EXCEPT ![c] = call'[c]]
        /\ call[c].phase = "computing"
    BY <1>2, CallBefore DEF RunFunc, InPhase
  <2>2. data \in Nat /\ floor \in [Procs -> Nat] /\ \A p \in Procs : data >= floor[p]
    BY DEF IInv, TypeOK
  <2>3. call'[c] = Rec("computed", call[c].entry, data, call[c].locked, call[c].runs + 1,
                       call[c].outcome, call[c].misread)
    BY <2>1, CallBefore DEF CallType, Rec
  <2>4. call[c].runs + 1 \in 0..2 /\ (call[c].misread = 0 => call[c].runs + 1 <= 1)
    BY <2>1, CallBefore DEF CallType, RunsSoFar
  <2>5. call'[c] \in CallType
    <3>1. "computed" \in Phases
      BY DEF Phases
    <3> QED
      BY <2>2, <2>3, <2>4, <3>1, CallFields DEF Rec, CallType
  <2>6. /\ call'[c].phase = "computed" /\ call'[c].locked = call[c].locked
        /\ call'[c].runs = call[c].runs + 1 /\ call'[c].version = data
        /\ call'[c].misread = call[c].misread
    BY <2>3 DEF Rec
  <2>7. Moved(c)
    BY <1>1, <2>1, <2>2, <2>4, <2>5, <2>6, CallBefore
       DEF Moved, RunsSoFar, FreshInHand, ComputesAlone, Early
  <2> QED
    BY <1>1, <2>7, CallMovesOnly
<1>3. CASE FuncRaises(c)
  <2>1. call[c].phase = "computing" /\ Leave(c, "func_error", call[c].runs + 1)
    BY <1>3 DEF FuncRaises, InPhase
  <2>2. call[c].runs + 1 \in 0..2 /\ (call[c].misread = 0 => call[c].runs + 1 <= 1)
    BY <2>1, CallBefore DEF CallType, RunsSoFar
  <2>3. Moved(c)
    BY <1>1, <2>1, <2>2, LeaveMoves DEF Outcomes
  <2> QED
    BY <1>1, <2>3, CallMovesOnly
<1>4. CASE CannotSerialize(c)
  <2>1. call[c].runs \in 0..2 /\ (call[c].misread = 0 => call[c].runs <= 1)
    BY CallBefore DEF CallType, RunsSoFar
  <2>2. Moved(c)
    BY <1>1, <1>4, <2>1, LeaveMoves DEF CannotSerialize, Outcomes
  <2> QED
    BY <1>1, <2>2, CallMovesOnly
<1>5. CASE FuncRaisesBackendError(c)
  <2>1. "func" \in Faults /\ call[c].phase = "computing" /\ Faults # {}
    BY <1>5 DEF FuncRaisesBackendError, InPhase
  <2>2. CASE call[c].locked = "held"
    <3>1. /\ call'[c] = [call[c] EXCEPT !.phase = "releasing", !.outcome = "none",
                                        !.runs = call[c].runs + 1, !.misread = 1]
          /\ call' = [call EXCEPT ![c] = call'[c]]
      BY <1>5, <2>2, CallBefore DEF FuncRaisesBackendError
    <3>2. call'[c] = Rec("releasing", call[c].entry, call[c].version, "held",
                         call[c].runs + 1, "none", 1)
      BY <2>2, <3>1, CallBefore DEF CallType, Rec
    <3>3. call[c].runs = 0
      BY <2>1, <2>2, CallBefore DEF RunsSoFar
    <3>4. call'[c] \in CallType
      BY <3>2, <3>3, CallFields, RecTyped DEF Phases, LockStates, Outcomes
    <3>5. /\ call'[c].phase = "releasing" /\ call'[c].locked = "held" /\ call'[c].runs = 1
          /\ call'[c].misread = 1
      BY <3>2, <3>3 DEF Rec
    <3>6. Moved(c)
      BY <1>1, <2>1, <2>2, <3>1, <3>4, <3>5, CallBefore
         DEF Moved, RunsSoFar, FreshInHand, Early
    <3> QED
      BY <1>1, <3>6, CallMovesOnly
  <2>3. CASE call[c].locked = "waived"
    <3>1. /\ call'[c] = [call[c] EXCEPT !.locked = "none", !.runs = call[c].runs + 1,
                                        !.misread = 1]
          /\ call' = [call EXCEPT ![c] = call'[c]]
      BY <1>5, <2>3, CallBefore DEF FuncRaisesBackendError
    <3>2. call[c].runs = 0 /\ lock # c
      BY <2>1, <2>3, CallBefore DEF RunsSoFar
    <3>3. call'[c] = Rec(call[c].phase, call[c].entry, call[c].version, "none",
                         call[c].runs + 1, call[c].outcome, 1)
      BY <3>1, CallBefore DEF CallType, Rec
    <3>4. call'[c] \in CallType
      <4>1. /\ call[c].phase \in Phases /\ "none" \in LockStates
            /\ call[c].runs + 1 \in 0..2 /\ 1 \in 0..1
        BY <2>1, <3>2 DEF Phases, LockStates
      <4> QED
        BY <3>3, <4>1, CallFields DEF Rec, CallType
    <3>5. /\ call'[c].phase = "computing" /\ call'[c].locked = "none" /\ call'[c].runs = 1
          /\ call'[c].misread = 1
      BY <2>1, <3>2, <3>3 DEF Rec
    <3>6. Moved(c)
      BY <1>1, <2>1, <3>1, <3>2, <3>4, <3>5, CallBefore
         DEF Moved, RunsSoFar, FreshInHand, Early
    <3> QED
      BY <1>1, <3>6, CallMovesOnly
  <2>4. CASE call[c].locked \notin {"held", "waived"}
    <3>1. /\ call'[c] = Idle("func_error", call[c].runs + 1, call[c].misread)
          /\ call' = [call EXCEPT ![c] = call'[c]]
      BY <1>5, <2>4, CallBefore DEF FuncRaisesBackendError
    <3>2. /\ call[c].runs + 1 \in 0..2 /\ lock # c /\ call[c].misread \in 0..1
          /\ call[c].misread = 0 => call[c].runs + 1 <= 1
      BY <2>1, <2>4, CallBefore, CallFields DEF RunsSoFar
    <3>3. Moved(c)
      BY <1>1, <2>1, <3>1, <3>2, CallBefore, IdleOK DEF Moved, Outcomes
    <3> QED
      BY <1>1, <3>3, CallMovesOnly
  <2> QED
    BY <2>2, <2>3, <2>4
<1> QED
  BY <1>2, <1>3, <1>4, <1>5

(* The write to L2 brings it a fresh value, by the one who has the lock. *)
LEMMA WriteL2Inv ==
    ASSUME IInv, NEW c \in Calls, WriteL2(c)
    PROVE  IInv'
<1>1. /\ call[c].phase = "computed" /\ UNCHANGED <<l1, lock, tracked, now, data, floor>>
      /\ \A p \in Procs : call[c].version >= floor[p]
      /\ Faults = {} => lock = c
  BY CallBefore DEF WriteL2, InPhase, FreshInHand, ComputesAlone
<1>2. PICK e \in L2Entry \cup {None} :
        /\ call' = [call EXCEPT ![c].phase = "written", ![c].entry = e]
        /\ l2' = e \/ l2' = l2
        /\ l2' = e /\ e # None => e.version = call[c].version
  <2>1. now + Ttl \in Nat /\ call[c].version \in Nat
    BY CallFields, ReadThroughAssumption DEF IInv, TypeOK
  <2>2. CASE /\ l2' = [version |-> call[c].version, expires |-> now + Ttl]
             /\ call' = [call EXCEPT ![c].phase = "written", ![c].entry = l2']
    <3>1. l2' \in L2Entry /\ l2'.version = call[c].version
      BY <2>1, <2>2 DEF L2Entry
    <3> QED
      BY <2>2, <3>1
  <2>3. CASE /\ call' = [call EXCEPT ![c].phase = "written", ![c].entry = None]
             /\ UNCHANGED l2
    BY <2>3
  <2> QED
    BY <2>2, <2>3 DEF WriteL2
<1>3. /\ call'[c] = [call[c] EXCEPT !.phase = "written", !.entry = e]
      /\ call' = [call EXCEPT ![c] = call'[c]]
  BY <1>2, CallBefore
<1>4. Moved(c)
  BY <1>1, <1>3, CallBefore, ZenonT(40)
     DEF Moved, CallType, RunsSoFar, FreshInHand, ComputesAlone, Early, Phases
<1>5. TiersFresh(c)
  BY <1>1, <1>2 DEF TiersFresh, IInv, TypeOK, InvalidationSticks, L1Tracked
<1> QED
  BY <1>1, <1>4, <1>5, CallMoves

(* Then L1 gets it too. *)
LEMMA AfterWriteInv ==
    ASSUME IInv, NEW c \in Calls, AfterWrite(c)
    PROVE  IInv'
<1> DEFINE x == IF call[c].entry = None THEN now + Ttl ELSE call[c].entry.expires
<1> DEFINE by == IF Answered(c) THEN "refresh" ELSE "call"
<1>1. /\ call[c].phase = "written" /\ UNCHANGED <<l2, lock, now, data, floor>>
      /\ PutL1(ProcOf[c], call[c].version, x, by)
      /\ tracked' = IF by = "call" THEN tracked \cup {ProcOf[c]} ELSE tracked
      /\ Leave(c, "value", call[c].runs)
  BY DEF AfterWrite, InPhase
<1>2. /\ x \in Nat /\ call[c].version \in Nat /\ call[c].runs \in 0..2
      /\ \A p \in Procs : call[c].version >= floor[p]
      /\ call[c].misread = 0 => call[c].runs <= 1
  BY <1>1, CallBefore, CallFields, ReadThroughAssumption
     DEF FreshInHand, RunsSoFar, IInv, TypeOK, L2Entry
<1>5. by \in {"call", "refresh"}
  OBVIOUS
<1> HIDE DEF x, by
<1>3. TiersFresh(c)
  BY <1>1, <1>2, <1>5, PutFresh
<1>4. Moved(c)
  BY <1>1, <1>2, LeaveMoves DEF Outcomes
<1> QED
  BY <1>1, <1>3, <1>4, CallMoves

(* The lock goes back, or is left to its lease. *)
LEMMA ReleaseInv ==
    ASSUME IInv, NEW c \in Calls, Release(c)
    PROVE  IInv'
<1>1. /\ call[c].phase = "releasing" /\ UNCHANGED <<caches, now, data, floor>>
      /\ lock' \in {IF lock = c THEN None ELSE lock, IF lock = c THEN "orphan" ELSE lock}
      /\ Faults = {} => lock' = IF lock = c THEN None ELSE lock
  BY DEF Release, InPhase
<1>2. lock' # c /\ lock' \in {lock, None, "orphan"}
  BY <1>1, ReadThroughAssumption
<1>3. CASE call[c].outcome = "none"
  <2>1. /\ call'[c] = [call[c] EXCEPT !.phase = "computing", !.locked = "none"]
        /\ call' = [call EXCEPT ![c] = call'[c]]
    BY <1>3, CallBefore DEF Release
  <2>2. Faults # {} /\ call[c].misread = 1
    BY <1>1, <1>3, CallBefore DEF RunsSoFar
  <2>3. call'[c] = Rec("computing", call[c].entry, call[c].version, "none", call[c].runs,
                       call[c].outcome, call[c].misread)
    BY <2>1, CallBefore DEF CallType, Rec
  <2>4. "computing" \in Phases /\ "none" \in LockStates
    BY DEF Phases, LockStates
  <2>5. call'[c] \in CallType
    BY <2>3, <2>4, CallFields DEF Rec, CallType
  <2>6. /\ call'[c].phase = "computing" /\ call'[c].locked = "none"
        /\ call'[c].runs = call[c].runs /\ call'[c].misread = 1
    BY <2>2, <2>3 DEF Rec
  <2>7. Moved(c)
    BY <1>1, <1>2, <1>3, <2>1, <2>2, <2>5, <2>6, CallBefore
       DEF Moved, RunsSoFar, FreshInHand, Early
  <2> QED
    BY <1>1, <2>7, CallMovesOnly
<1>4. CASE call[c].outcome # "none"
  <2>1. /\ call'[c] = Idle(call[c].outcome, call[c].runs, call[c].misread)
        /\ call' = [call EXCEPT ![c] = call'[c]]
    BY <1>4, CallBefore DEF Release
  <2>2. (call[c].misread = 0 => call[c].runs <= 1) /\ (call[c].misread = 1 => Faults # {})
    BY CallBefore DEF RunsSoFar
  <2>3. Faults = {} => lock' # "orphan"
    BY <1>1, CallBefore, ReadThroughAssumption
  <2>4. Moved(c)
    BY <1>1, <1>2, <2>1, <2>2, <2>3, CallFields, IdleOK DEF Moved
  <2> QED
    BY <1>1, <2>4, CallMovesOnly
<1> QED
  BY <1>3, <1>4

(* A call begins; L1 answers, or has nothing to answer with. *)
LEMMA BeginInv ==
    ASSUME IInv, NEW c \in Calls, Begin(c)
    PROVE  IInv'
<1>1. call[c].phase = "idle" /\ UNCHANGED <<l2, lock, tracked, now, data, floor>>
  BY DEF Begin, InPhase
<1>2. l1' \in {l1, [l1 EXCEPT ![ProcOf[c]] = None]}
  BY DEF Begin
<1>3. TiersFresh(c)
  BY <1>1, <1>2 DEF TiersFresh, IInv, TypeOK, InvalidationSticks, L1Tracked, L2Live
<1>4. lock # c
  BY <1>1, CallBefore DEF RunsSoFar
<1>5. CASE \E o \in {"cache_error", "value"} : call' = [call EXCEPT ![c] = Idle(o, 0, 0)]
  <2>1. PICK o \in {"cache_error", "value"} : call' = [call EXCEPT ![c] = Idle(o, 0, 0)]
    BY <1>5
  <2>2. call'[c] = Idle(o, 0, 0) /\ call' = [call EXCEPT ![c] = call'[c]]
    BY <2>1, CallBefore
  <2>3. Moved(c)
    BY <1>1, <1>4, <2>2, CallBefore, IdleOK DEF Moved, Outcomes
  <2> QED
    BY <1>1, <1>3, <2>3, CallMoves
<1>6. CASE call' = [call EXCEPT ![c] = [Idle("none", 0, 0) EXCEPT !.phase = "reading"]]
  <2>1. call'[c] = Rec("reading", None, 0, "none", 0, "none", 0)
    BY <1>6, CallBefore DEF Idle, Rec
  <2>2. call' = [call EXCEPT ![c] = call'[c]]
    BY <1>6, CallBefore
  <2>3. call'[c] \in CallType
    <3>1. /\ "reading" \in Phases /\ None \in L2Entry \cup {None} /\ 0 \in Nat /\ 0 \in 0..2
          /\ "none" \in LockStates /\ "none" \in Outcomes /\ 0 \in 0..1
      BY DEF Phases, LockStates, Outcomes
    <3> QED
      BY <2>1, <3>1, RecTyped
  <2>4. /\ call'[c].phase = "reading" /\ call'[c].locked = "none" /\ call'[c].runs = 0
        /\ call'[c].misread = 0
    BY <2>1 DEF Rec
  <2>5. Moved(c)
    BY <1>1, <1>4, <2>2, <2>3, <2>4, CallBefore
       DEF Moved, RunsSoFar, FreshInHand, ComputesAlone, Early
  <2> QED
    BY <1>1, <1>3, <2>5, CallMoves
<1> QED
  BY <1>5, <1>6 DEF Begin
--------------------------------------------------------------------------------
(* The clock, the data and the tiers' own losses only make things fresher. *)
LEMMA EnvironmentInv ==
    ASSUME IInv, Tick \/ ChangeData \/ LoseL2 \/ \E p \in Procs : LoseL1(p)
    PROVE  IInv'
<1>1. UNCHANGED <<lock, call, tracked, floor>>
  BY DEF Tick, ChangeData, LoseL2, LoseL1, caches
<1>2. /\ l2' \in {l2, None}
      /\ l1' = l1 \/ \E p \in Procs : l1' = [l1 EXCEPT ![p] = None]
      /\ now' \in {now, now + 1} /\ data' \in {data, data + 1}
  BY DEF Tick, ChangeData, LoseL2, LoseL1, caches
<1>3. TypeOK'
  BY <1>1, <1>2 DEF IInv, TypeOK
<1>4. InvalidationSticks' /\ L1Tracked' /\ \A p \in Procs : floor'[p] <= data'
  BY <1>1, <1>2 DEF IInv, TypeOK, InvalidationSticks, L1Tracked
<1>5. \A c \in Calls : RunsSoFar(call'[c]) /\ FreshInHand(call'[c], floor')
  BY <1>1 DEF IInv
<1>6. L2Live' => L2Live
  BY <1>2 DEF L2Live, IInv, TypeOK, L2Entry
<1>7. Faults = {} => HerdInv'
  BY <1>1, <1>6 DEF IInv, HerdInv, ComputesAlone
<1> QED
  BY <1>3, <1>4, <1>5, <1>7 DEF IInv

(* The lease of a lock ends while its holder may still run. *)
LEMMA LeaseExpiresInv ==
    ASSUME IInv, LeaseExpires
    PROVE  IInv'
<1>1. lock' = None /\ UNCHANGED <<caches, call, now, data, floor>> /\ Faults # {}
  BY DEF IInv, HerdInv, LeaseExpires
<1>2. TypeOK'
  BY <1>1, ReadThroughAssumption DEF IInv, TypeOK, caches
<1> QED
  BY <1>1, <1>2 DEF IInv, InvalidationSticks, L1Tracked, caches

(* A process dies with its calls, its L1 and its tracking. *)
LEMMA CrashInv ==
    ASSUME IInv, NEW p \in Procs, Crash(p)
    PROVE  IInv'
<1> DEFINE dead == {c \in Calls : ProcOf[c] = p}
<1>1. /\ Faults # {} /\ UNCHANGED <<l2, now, data, floor>>
      /\ call' = [c \in Calls |-> IF c \in dead THEN Idle("none", 0, 0) ELSE call[c]]
      /\ l1' = [l1 EXCEPT ![p] = None] /\ tracked' = tracked \ {p}
      /\ lock' = IF lock \in dead THEN "orphan" ELSE lock
  BY DEF Crash
<1>2. Idle("none", 0, 0) \in CallType /\ RunsSoFar(Idle("none", 0, 0))
      /\ FreshInHand(Idle("none", 0, 0), floor)
  BY IdleOK DEF Outcomes
<1>3. \A c \in Calls : /\ call'[c] \in CallType /\ RunsSoFar(call'[c])
                       /\ FreshInHand(call'[c], floor)
  BY <1>1, <1>2, CallBefore
<1>4. lock' \in Calls => lock' = lock /\ lock \notin dead
  BY <1>1, ReadThroughAssumption
<1>5. TypeOK'
  BY <1>1, <1>3, <1>4 DEF IInv, TypeOK
<1>6. InvalidationSticks' /\ L1Tracked'
  BY <1>1 DEF IInv, TypeOK, InvalidationSticks, L1Tracked
<1> QED
  BY <1>1, <1>3, <1>5, <1>6 DEF IInv

(* An invalidation empties both tiers, or keeps the key tracked. *)
LEMMA EraseInv ==
    ASSUME IInv, NEW p \in Procs, NEW reached \in BOOLEAN, Erase(p, reached),
           tracked' \in {tracked, tracked \ {p}}, UNCHANGED <<lock, call, now, data>>
    PROVE  IInv'
<1>1. /\ l1' = [l1 EXCEPT ![p] = None] /\ l2' = IF reached THEN None ELSE l2
      /\ floor' = IF reached /\ NoneInFlight THEN [floor EXCEPT ![p] = data] ELSE floor
  BY DEF Erase
<1>2. TypeOK'
  BY <1>1 DEF IInv, TypeOK
<1>3. /\ \A q \in Procs : floor'[q] <= data'
      /\ \A q \in Procs \ {p} : floor'[q] = floor[q] /\ l1'[q] = l1[q]
      /\ l1'[p] = None /\ (floor' = floor \/ l2' = None)
  BY <1>1 DEF IInv, TypeOK
<1>4. InvalidationSticks' /\ L1Tracked'
  BY <1>1, <1>3 DEF IInv, InvalidationSticks, L1Tracked
<1>5. ASSUME NEW c \in Calls
      PROVE  RunsSoFar(call'[c]) /\ FreshInHand(call'[c], floor')
  <2>1. CASE NoneInFlight
    BY <2>1, CallBefore DEF NoneInFlight, InPhase, FreshInHand
  <2>2. CASE ~NoneInFlight
    BY <1>1, <2>2, CallBefore
  <2> QED
    BY <2>1, <2>2
<1>6. L2Live' => L2Live
  BY <1>1 DEF L2Live
<1>7. Faults = {} => HerdInv'
  BY <1>6 DEF IInv, HerdInv, ComputesAlone
<1> QED
  BY <1>2, <1>3, <1>4, <1>5, <1>7 DEF IInv
--------------------------------------------------------------------------------
(* The invariant holds at first. *)
LEMMA InitInv == Init => IInv
<1> SUFFICES ASSUME Init PROVE IInv
  OBVIOUS
<1>1. /\ Idle("none", 0, 0) \in CallType /\ RunsSoFar(Idle("none", 0, 0))
      /\ \A f : FreshInHand(Idle("none", 0, 0), f)
      /\ \A c, l, live : ComputesAlone(c, Idle("none", 0, 0), l, live)
  BY IdleOK DEF Outcomes
<1>2. \A c \in Calls : call[c] = Idle("none", 0, 0)
  BY DEF Init
<1>3. TypeOK
  BY <1>1, ReadThroughAssumption DEF Init, TypeOK
<1>4. HerdInv
  BY <1>1, <1>2, ReadThroughAssumption DEF Init, HerdInv
<1>5. InvalidationSticks /\ L1Tracked /\ \A p \in Procs : floor[p] <= data
  BY DEF Init, InvalidationSticks, L1Tracked
<1> QED
  BY <1>1, <1>2, <1>3, <1>4, <1>5 DEF IInv

(* Every step keeps it. *)
LEMMA StepInv == IInv /\ [Next]_vars => IInv'
<1> SUFFICES ASSUME IInv, [Next]_vars PROVE IInv'
  OBVIOUS
<1>1. CASE UNCHANGED vars
  BY <1>1 DEF vars, caches, IInv, TypeOK, InvalidationSticks, L1Tracked, HerdInv, L2Live
<1>2. CASE Tick \/ ChangeData \/ LoseL2 \/ \E p \in Procs : LoseL1(p)
  BY <1>2, EnvironmentInv
<1>3. CASE LeaseExpires
  BY <1>3, LeaseExpiresInv
<1>4. CASE \E c \in Calls : Begin(c)
  BY <1>4, BeginInv
<1>5. CASE \E c \in Calls : Advance(c) \/ LockFails(c)
  BY <1>5, ReadL2Inv, AfterReadsInv, LockingInv, LeaseInv, FuncInv, WriteL2Inv, AfterWriteInv, ReleaseInv
     DEF Advance
<1>6. CASE \E p \in Procs : Crash(p)
  BY <1>6, CrashInv
<1>7. ASSUME NEW p \in Procs, Invalidate(p) \/ InvalidateTracked(p)
      PROVE  IInv'
  <2>1. PICK reached \in BOOLEAN :
          Erase(p, reached) /\ tracked' \in {tracked, tracked \ {p}}
    BY <1>7 DEF Invalidate, InvalidateTracked, DeleteOutcomes
  <2>2. UNCHANGED <<lock, call, now, data>>
    BY <1>7 DEF Invalidate, InvalidateTracked
  <2> QED
    BY <2>1, <2>2, EraseInv
<1> QED
  BY <1>1, <1>2, <1>3, <1>4, <1>5, <1>6, <1>7 DEF Next

(* The invariant holds throughout, whatever fails (wrapper.py:1495-1911). *)
THEOREM InductiveInvariant == Spec => []IInv
  BY InitInv, StepInv, PTL DEF Spec

(* The state is well formed, and the lock is only ever held by a task that *)
(* was granted it (wrapper.py:1705-1716).                                  *)
THEOREM TypeCorrect == Spec => []TypeOK
<1>1. IInv => TypeOK
  BY DEF IInv
<1> QED
  BY <1>1, InductiveInvariant, PTL

(* An invalidation made while no call is in flight sticks, whatever fails  *)
(* (wrapper.py:1978-2035).                                                 *)
THEOREM InvalidationsStick == Spec => []InvalidationSticks
<1>1. IInv => InvalidationSticks
  BY DEF IInv
<1> QED
  BY <1>1, InductiveInvariant, PTL

(* Whatever a call put in L1 is tracked for invalidation, whatever fails;  *)
(* what a revalidation put there need not be (wrapper.py:768, 1645-1652).  *)
THEOREM L1IsTracked == Spec => []L1Tracked
<1>1. IInv => L1Tracked
  BY DEF IInv
<1> QED
  BY <1>1, InductiveInvariant, PTL

(* Unless a BackendError of the function is misread, it runs at most once  *)
(* for a call, whatever the lock and the backend do (wrapper.py:1775-1850). *)
THEOREM RunsOnce == Spec => []RunsOncePerCall
<1>1. IInv => RunsOncePerCall
  <2>1. ASSUME IInv, NEW c \in Calls
        PROVE  call[c].runs <= 1 + call[c].misread
    BY <2>1, CallBefore, CallFields DEF RunsSoFar
  <2> QED
    BY <2>1 DEF RunsOncePerCall
<1> QED
  BY <1>1, InductiveInvariant, PTL

(* While nothing fails or times out, no computed value replaces a live one *)
(* in L2, however many processes and tasks there are.                      *)
THEOREM HerdIsSpared ==
    ASSUME Faults = {}
    PROVE  Spec => HerdComputesOnce
<1>1. IInv => [\A c \in Calls : WriteL2(c) => ~L2Live]_vars
  BY DEF IInv, HerdInv, ComputesAlone, WriteL2, InPhase
<1> QED
  BY <1>1, InductiveInvariant, PTL DEF HerdComputesOnce
================================================================================
