----------------------------- MODULE L1CacheProofs -----------------------------
(***************************************************************************)
(* Proofs about L1Cache for any number of keys, any budget and any sizes:  *)
(* what its byte counter says, which entries an eviction takes, and that   *)
(* it only ever serves the latest value put under a key, unless that put   *)
(* was skipped because its lifetime was too short.                         *)
(*                                                                         *)
(* Entries leave in two ways only, by _remove_entry and by the walk of     *)
(* _evict_for_space, and both are sums over sets of keys.  The invariant   *)
(* says of the counter what the code maintains: it never exceeds the sum   *)
(* of the sizes held, and equals it until a replaced entry was counted out *)
(* twice.                                                                  *)
(***************************************************************************)
EXTENDS L1Cache, DataTheorems

(* The sizes of the entries of a store, and their total. *)
Sz(st) == [k \in DOMAIN st |-> st[k].size]

Total(st) == SumFunctionOnSet(Sz(st), DOMAIN st)

Stored(st, ord) ==
    /\ DOMAIN st \subseteq Keys
    /\ st \in [DOMAIN st -> EntryType]
    /\ OnceEach(ord, DOMAIN st)

Counted(st, mem, dbl) ==
    /\ mem \in Int
    /\ mem <= Total(st)
    /\ mem <= MaxMemory
    /\ ~dbl => mem = Total(st)

(* The inductive invariant. *)
IInv ==
    /\ Stored(store, order)
    /\ Counted(store, memory, doubled)
    /\ now \in Nat
    /\ epoch \in [Keys -> Nat]
    /\ doubled \in BOOLEAN
    /\ skipped \subseteq Keys
    /\ \A k \in DOMAIN store \ skipped : store[k].asOf = epoch[k]
--------------------------------------------------------------------------------
(* A store is finite and its sizes are natural numbers. *)
LEMMA StoredFinite ==
    ASSUME NEW st, NEW ord, Stored(st, ord)
    PROVE  /\ IsFiniteSet(DOMAIN st) /\ Len(ord) \in Nat
           /\ \A k \in DOMAIN st : Sz(st)[k] = st[k].size /\ Sz(st)[k] \in Nat
           /\ Total(st) \in Nat
           /\ \A T \in SUBSET DOMAIN st : SumFunctionOnSet(Sz(st), T) \in Nat
<1>1. IsFiniteSet(DOMAIN st) /\ Len(ord) \in Nat
  BY OnceFinite DEF Stored
<1>2. \A k \in DOMAIN st : Sz(st)[k] = st[k].size /\ Sz(st)[k] \in Nat
  BY DEF Stored, Sz, EntryType
<1> QED
  BY <1>1, <1>2, SumNat DEF Total

(* The total of what is kept, if the keys of T go. *)
LEMMA TotalSplits ==
    ASSUME NEW st, NEW ord, Stored(st, ord), NEW T \in SUBSET DOMAIN st,
           NEW r, DOMAIN r = DOMAIN st \ T, \A k \in DOMAIN r : r[k] = st[k]
    PROVE  Total(st) = SumFunctionOnSet(Sz(st), T) + Total(r)
<1>1. IsFiniteSet(DOMAIN st) /\ \A k \in DOMAIN st : Sz(st)[k] \in Int
  BY StoredFinite
<1>2. Total(st) = SumFunctionOnSet(Sz(st), T) + SumFunctionOnSet(Sz(st), DOMAIN st \ T)
  BY <1>1, SumSplit DEF Total
<1>3. SumFunctionOnSet(Sz(r), DOMAIN r) = SumFunctionOnSet(Sz(st), DOMAIN r)
  <2>1. IsFiniteSet(DOMAIN r) /\ \A k \in DOMAIN r : Sz(st)[k] \in Int
    BY <1>1, FS_Subset
  <2>2. \A k \in DOMAIN r : Sz(r)[k] = Sz(st)[k]
    BY DEF Sz
  <2> QED
    BY <2>1, <2>2, SumCongruence
<1> QED
  BY <1>2, <1>3 DEF Total

(* _remove_entry keeps counter and entries in step. *)
LEMMA RemoveKeeps ==
    ASSUME IInv, NEW S, RemoveEntries(S)
    PROVE  /\ Stored(store', order') /\ Counted(store', memory', doubled')
           /\ DOMAIN store' = DOMAIN store \ S
           /\ \A k \in DOMAIN store' : store'[k] = store[k]
           /\ doubled' = doubled
<1> DEFINE T == S \cap DOMAIN store
<1>1. /\ store' = [k \in DOMAIN store \ S |-> store[k]] /\ order' = Without(order, S)
      /\ memory' = memory - SumFunctionOnSet(Sz(store), T) /\ doubled' = doubled
  BY DEF RemoveEntries, Restrict, Live, SizeOf, Sz
<1>2. DOMAIN store' = DOMAIN store \ S /\ \A k \in DOMAIN store' : store'[k] = store[k]
  BY <1>1
<1>3. Stored(store, order) /\ Counted(store, memory, doubled)
  BY DEF IInv
<1>4. Stored(store', order')
  <2>1. OnceEach(order', DOMAIN store \ S)
    BY <1>1, <1>3, WithoutKeepsOrder DEF Stored
  <2> QED
    BY <1>1, <1>2, <1>3, <2>1 DEF Stored
<1>5. Total(store) = SumFunctionOnSet(Sz(store), T) + Total(store')
  <2>1. DOMAIN store' = DOMAIN store \ T /\ T \in SUBSET DOMAIN store
    BY <1>2
  <2> QED
    BY <1>2, <1>3, <2>1, TotalSplits
<1>6. /\ Total(store) \in Nat /\ Total(store') \in Nat
      /\ SumFunctionOnSet(Sz(store), T) \in Nat
  BY <1>3, <1>4, StoredFinite
<1>7. Counted(store', memory', doubled')
  BY <1>1, <1>3, <1>5, <1>6, L1Assumption DEF Counted
<1> QED
  BY <1>1, <1>2, <1>4, <1>7

(* The keys _evict_for_space takes are the first of the order, and when it *)
(* stops the new value fits or nothing is left to take.                    *)
LEMMA VictimsFit ==
    ASSUME IInv, NEW before \in Int, NEW needed \in Nat, NEW n, n = Victims(before, needed)
    PROVE  /\ n \in 0..Len(order)
           /\ {order[i] : i \in 1..n} \in SUBSET DOMAIN store
           /\ \/ before - SumFunctionOnSet(Sz(store), {order[i] : i \in 1..n}) + needed <= MaxMemory
              \/ {order[i] : i \in 1..n} = DOMAIN store
<1> DEFINE Freed(m) == SumFunctionOnSet(Sz(store), {order[i] : i \in 1..m})
           W == {m \in 0..Len(order) : before - Freed(m) + needed <= MaxMemory} \cup {Len(order)}
<1>1. n = Min(W)
  BY DEF Victims, SizeOf, Sz, Live
<1>2. Len(order) \in Nat /\ OnceEach(order, DOMAIN store)
  BY StoredFinite DEF IInv, Stored
<1>3. W \in SUBSET (0..Len(order)) /\ Len(order) \in W
  BY <1>2
<1> HIDE DEF W
<1>4. n \in W /\ n \in 0..Len(order)
  BY <1>1, <1>2, <1>3, MinInRange
<1>5. DOMAIN order = 1..Len(order) /\ {order[i] : i \in DOMAIN order} = DOMAIN store
  BY <1>2 DEF OnceEach
<1>6. {order[i] : i \in 1..n} \in SUBSET DOMAIN store
  BY <1>2, <1>4, <1>5
<1>7. n = Len(order) => {order[i] : i \in 1..n} = DOMAIN store
  BY <1>5
<1>8. n = Len(order) \/ before - Freed(n) + needed <= MaxMemory
  BY <1>4 DEF W
<1> QED
  BY <1>4, <1>6, <1>7, <1>8

(* What one put makes of the store: the new entry, and the others less the *)
(* victims.                                                                *)
LEMMA StoreKeeps ==
    ASSUME IInv, NEW k \in Keys, NEW size \in Nat, size <= MaxMemory, NEW expiry \in Nat,
           StoreEntry(k, size, expiry)
    PROVE  /\ Stored(store', order') /\ Counted(store', memory', doubled')
           /\ doubled' \in BOOLEAN
           /\ k \in DOMAIN store' /\ store'[k].asOf = epoch[k] + 1
           /\ \A x \in DOMAIN store' \ {k} : x \in DOMAIN store /\ store'[x] = store[x]
           /\ order'[Len(order')] = k
           /\ \A j \in DOMAIN store \ (DOMAIN store' \cup {k}), i \in DOMAIN store' \ {k} :
                Precedes(order, j, i)
<1> DEFINE old == IF k \in DOMAIN store THEN store[k].size ELSE 0
           before == memory - old
           n == Victims(before, size)
           V == {order[i] : i \in 1..n}
           new == [expires |-> expiry, size |-> size, asOf |-> epoch[k] + 1]
           rest == [x \in DOMAIN store \ (V \cup {k}) |-> store[x]]
           sumV == SumFunctionOnSet(Sz(store), V)
           extra == IF k \in DOMAIN store \ V THEN old ELSE 0
<1>1. /\ store' = [x \in (DOMAIN store \ V) \cup {k} |-> IF x = k THEN new ELSE store[x]]
      /\ order' = Append(Without(order, V \cup {k}), k)
      /\ memory' = before - sumV + size
      /\ doubled' = (doubled \/ k \in DOMAIN store \cap V)
  BY DEF StoreEntry, Live, SizeOf, Sz
<1>2. /\ Stored(store, order) /\ Counted(store, memory, doubled) /\ doubled \in BOOLEAN
      /\ epoch[k] \in Nat
  BY DEF IInv
<1>3. /\ IsFiniteSet(DOMAIN store) /\ Len(order) \in Nat /\ Total(store) \in Nat
      /\ \A x \in DOMAIN store : Sz(store)[x] = store[x].size /\ Sz(store)[x] \in Nat
      /\ \A T \in SUBSET DOMAIN store : SumFunctionOnSet(Sz(store), T) \in Nat
  BY <1>2, StoredFinite
<1>4. old \in Nat /\ before \in Int /\ memory \in Int /\ new \in EntryType
  BY <1>2, <1>3 DEF Counted, EntryType
<1>5. /\ n \in 0..Len(order) /\ V \in SUBSET DOMAIN store
      /\ before - sumV + size <= MaxMemory \/ V = DOMAIN store
  BY <1>4, VictimsFit
<1> HIDE DEF n, new
<1>6. sumV \in Nat
  BY <1>3, <1>5
<1>7. Stored(store', order')
  <2>1. OnceEach(Without(order, V \cup {k}), DOMAIN store \ (V \cup {k}))
    BY <1>2, WithoutKeepsOrder DEF Stored
  <2>2. OnceEach(order', (DOMAIN store \ (V \cup {k})) \cup {k})
    BY <1>1, <2>1, AppendOnce
  <2>3. DOMAIN store' = (DOMAIN store \ (V \cup {k})) \cup {k}
    BY <1>1
  <2>4. store' \in [DOMAIN store' -> EntryType]
    BY <1>1, <1>2, <1>4 DEF Stored
  <2>5. DOMAIN store' \subseteq Keys
    BY <1>2, <2>3 DEF Stored
  <2> QED
    BY <2>2, <2>3, <2>4, <2>5 DEF Stored
<1>8. Total(store') = size + Total(rest)
  <2>1. /\ k \in DOMAIN store' /\ {k} \in SUBSET DOMAIN store' /\ DOMAIN rest = DOMAIN store' \ {k}
        /\ \A x \in DOMAIN rest : rest[x] = store'[x]
    BY <1>1
  <2>2. Total(store') = SumFunctionOnSet(Sz(store'), {k}) + Total(rest)
    <3> HIDE DEF rest
    <3> QED
      BY <1>7, <2>1, TotalSplits
  <2>3. Sz(store')[k] = size
    BY <1>1 DEF Sz, new
  <2>4. SumFunctionOnSet(Sz(store'), {k}) = size
    <3> DEFINE f == Sz(store')
    <3>1. IsFiniteSet({k}) /\ f[k] = size /\ {k} \ {k} = {}
      BY <2>3, FS_Singleton
    <3> HIDE DEF f
    <3>2. \A x \in {k} : f[x] \in Int
      BY <3>1
    <3>3. SumFunctionOnSet(f, {k}) = f[k] + SumFunctionOnSet(f, {k} \ {k})
      BY <3>1, <3>2, SumRemove
    <3>4. SumFunctionOnSet(f, {}) = 0
      BY <3>1, <3>2, SumType
    <3> QED
      BY <3>1, <3>3, <3>4 DEF f
  <2> QED
    BY <2>2, <2>4
<1>9. Total(rest) \in Nat
  <2>1. rest \in [DOMAIN rest -> EntryType] /\ IsFiniteSet(DOMAIN rest)
    BY <1>2, <1>3, FS_Subset DEF Stored
  <2>2. \A x \in DOMAIN rest : Sz(rest)[x] \in Nat
    BY <2>1 DEF Sz, EntryType
  <2> QED
    BY <2>1, <2>2, SumNat DEF Total
<1>10. Total(store) = sumV + extra + Total(rest)
  <2>1. CASE k \in DOMAIN store \ V
    <3>1. /\ V \cup {k} \in SUBSET DOMAIN store /\ DOMAIN rest = DOMAIN store \ (V \cup {k})
          /\ \A x \in DOMAIN rest : rest[x] = store[x]
      BY <1>5, <2>1
    <3>2. Total(store) = SumFunctionOnSet(Sz(store), V \cup {k}) + Total(rest)
      <4> HIDE DEF rest
      <4> QED
        BY <1>2, <3>1, TotalSplits
    <3>3. SumFunctionOnSet(Sz(store), V \cup {k}) = old + sumV
      <4>1. (V \cup {k}) \ {k} = V
        BY <2>1
      <4> HIDE DEF V
      <4>2. IsFiniteSet(V \cup {k})
        BY <1>3, <3>1, FS_Subset
      <4>3. \A x \in V \cup {k} : Sz(store)[x] \in Int
        BY <1>3, <3>1
      <4>4. SumFunctionOnSet(Sz(store), V \cup {k})
              = Sz(store)[k] + SumFunctionOnSet(Sz(store), (V \cup {k}) \ {k})
        BY <4>2, <4>3, SumRemove
      <4> QED
        BY <1>3, <2>1, <4>1, <4>4
    <3> QED
      BY <1>4, <1>6, <1>9, <2>1, <3>2, <3>3
  <2>2. CASE k \notin DOMAIN store \ V
    <3>1. /\ DOMAIN rest = DOMAIN store \ V
          /\ \A x \in DOMAIN rest : rest[x] = store[x]
      BY <1>5, <2>2
    <3>2. Total(store) = sumV + Total(rest)
      <4> HIDE DEF rest, V
      <4> QED
        BY <1>2, <1>5, <3>1, TotalSplits
    <3>3. extra = 0
      BY <2>2
    <3> QED
      BY <1>6, <3>2, <3>3
  <2> QED
    BY <2>1, <2>2
<1>11. Counted(store', memory', doubled')
  <2>1. memory <= Total(store) /\ (~doubled => memory = Total(store)) /\ MaxMemory \in Nat
    BY <1>2, L1Assumption DEF Counted
  <2>2. extra \in Nat /\ extra <= old
    BY <1>4
  <2>3. ~doubled' => ~doubled /\ extra = old
    BY <1>1
  <2>4. V = DOMAIN store => sumV = Total(store)
    BY DEF Total
  <2> HIDE DEF old, sumV, extra, rest, V
  <2>5. memory' = memory - old - sumV + size
    BY <1>1, <1>4, <1>6
  <2>6. /\ memory \in Int /\ old \in Nat /\ sumV \in Nat /\ Total(rest) \in Nat
        /\ Total(store) = sumV + extra + Total(rest) /\ Total(store') = size + Total(rest)
    BY <1>4, <1>6, <1>8, <1>9, <1>10
  <2>7. memory' \in Int /\ memory' <= Total(store')
    <3> HIDE DEF before
    <3> QED
      BY <2>1, <2>2, <2>5, <2>6
  <2>8. ~doubled' => memory' = Total(store')
    <3> HIDE DEF before
    <3> QED
      BY <2>1, <2>3, <2>5, <2>6
  <2>9. memory' <= MaxMemory
    BY <1>1, <1>3, <1>4, <1>5, <1>6, <2>1, <2>4
  <2> QED
    BY <2>7, <2>8, <2>9 DEF Counted
<1>12. /\ doubled' \in BOOLEAN
       /\ k \in DOMAIN store' /\ store'[k].asOf = epoch[k] + 1
       /\ \A x \in DOMAIN store' \ {k} : x \in DOMAIN store /\ store'[x] = store[x]
  BY <1>1, <1>2 DEF new
<1>13. order'[Len(order')] = k
  <2>1. Without(order, V \cup {k}) \in Seq(DOMAIN store \ (V \cup {k}))
    BY <1>2, WithoutKeepsOrder DEF Stored, OnceEach
  <2> QED
    BY <1>1, <2>1
<1>14. ASSUME NEW j \in DOMAIN store \ (DOMAIN store' \cup {k}), NEW i \in DOMAIN store' \ {k}
       PROVE  Precedes(order, j, i)
  <2>1. j \in V /\ i \in DOMAIN store \ V
    BY <1>1
  <2>2. OnceEach(order, DOMAIN store)
    BY <1>2 DEF Stored
  <2> QED
    BY <1>5, <2>1, <2>2, OldestFirst
<1> QED
  BY <1>7, <1>11, <1>12, <1>13, <1>14
--------------------------------------------------------------------------------
(* Removals: a key that starts a new epoch is no longer held. *)
LEMMA RemoveStep ==
    ASSUME IInv, NEW S, NEW B, RemoveEntries(S), UNCHANGED now,
           epoch' = [k \in Keys |-> IF k \in B THEN epoch[k] + 1 ELSE epoch[k]],
           B \subseteq S, skipped' = skipped \ B
    PROVE  IInv'
<1>1. /\ Stored(store', order') /\ Counted(store', memory', doubled')
      /\ DOMAIN store' = DOMAIN store \ S /\ doubled' = doubled
      /\ \A k \in DOMAIN store' : store'[k] = store[k]
  BY RemoveKeeps
<1>2. DOMAIN store' \subseteq Keys
  BY <1>1 DEF Stored
<1>3. \A k \in DOMAIN store' \ skipped' : store'[k].asOf = epoch'[k]
  BY <1>1, <1>2 DEF IInv
<1> QED
  BY <1>1, <1>3 DEF IInv

(* The removal of expired entries starts no epoch. *)
LEMMA ExpiryStep ==
    ASSUME IInv, NEW S, RemoveEntries(S), UNCHANGED <<now, epoch, skipped>>
    PROVE  IInv'
<1> DEFINE B == {}
<1>1. /\ epoch' = [k \in Keys |-> IF k \in B THEN epoch[k] + 1 ELSE epoch[k]] /\ B \subseteq S
      /\ skipped' = skipped \ B
  BY DEF IInv
<1> HIDE DEF B
<1> QED
  BY <1>1, RemoveStep

(* A put: skipped for its lifetime, declined for its size, or stored. *)
LEMMA PutCases ==
    ASSUME IInv, NEW k \in Keys, NEW size \in Sizes, NEW ttl \in Ttls, Put(k, size, ttl),
           NEW expiry, expiry = now + ttl - TtlBuffer
    PROVE  /\ UNCHANGED now /\ size \in Nat
           /\ epoch' = [x \in Keys |-> IF x \in {k} THEN epoch[x] + 1 ELSE epoch[x]]
           /\ \/ /\ UNCHANGED <<store, order, memory, doubled>>
                 /\ skipped' = skipped \cup {k}
              \/ /\ expiry \in Nat /\ skipped' = skipped \ {k}
                 /\ RemoveEntries({k}) \/ (size <= MaxMemory /\ StoreEntry(k, size, expiry))
<1>1. /\ UNCHANGED now /\ size \in Nat
      /\ epoch' = [x \in Keys |-> IF x \in {k} THEN epoch[x] + 1 ELSE epoch[x]]
  BY L1Assumption DEF Put, Bump
<1>2. CASE expiry <= now /\ SkipShortLived(k)
  BY <1>1, <1>2 DEF SkipShortLived
<1>3. CASE /\ expiry > now /\ skipped' = skipped \ {k}
           /\ DropOversized(k) \/ (size <= MaxMemory /\ StoreEntry(k, size, expiry))
  <2>1. expiry \in Nat
    BY <1>3, L1Assumption DEF IInv
  <2> QED
    BY <1>1, <1>3, <2>1 DEF DropOversized
<1> QED
  BY <1>2, <1>3 DEF Put

(* A skipped put leaves an old value, which its key is marked for. *)
LEMMA PutStep ==
    ASSUME IInv, NEW k \in Keys, NEW size \in Sizes, NEW ttl \in Ttls, Put(k, size, ttl)
    PROVE  IInv'
<1> DEFINE expiry == now + ttl - TtlBuffer
<1> HIDE DEF expiry
<1>1. /\ UNCHANGED now /\ size \in Nat
      /\ epoch' = [x \in Keys |-> IF x \in {k} THEN epoch[x] + 1 ELSE epoch[x]]
      /\ \/ /\ UNCHANGED <<store, order, memory, doubled>>
            /\ skipped' = skipped \cup {k}
         \/ /\ expiry \in Nat /\ skipped' = skipped \ {k}
            /\ RemoveEntries({k}) \/ (size <= MaxMemory /\ StoreEntry(k, size, expiry))
  BY PutCases DEF expiry
<1>2. CASE /\ UNCHANGED <<store, order, memory, doubled>>
           /\ skipped' = skipped \cup {k}
  <2>1. DOMAIN store \subseteq Keys
    BY DEF IInv, Stored
  <2>2. \A x \in DOMAIN store' \ skipped' : store'[x].asOf = epoch'[x]
    BY <1>1, <1>2, <2>1 DEF IInv
  <2> QED
    BY <1>1, <1>2, <2>2 DEF IInv
<1>3. CASE RemoveEntries({k}) /\ skipped' = skipped \ {k}
  BY <1>1, <1>3, RemoveStep
<1>4. CASE /\ expiry \in Nat /\ skipped' = skipped \ {k}
           /\ size <= MaxMemory /\ StoreEntry(k, size, expiry)
  <2>1. /\ Stored(store', order') /\ Counted(store', memory', doubled')
        /\ doubled' \in BOOLEAN
        /\ k \in DOMAIN store' /\ store'[k].asOf = epoch[k] + 1
        /\ \A x \in DOMAIN store' \ {k} : x \in DOMAIN store /\ store'[x] = store[x]
    BY <1>1, <1>4, StoreKeeps
  <2>2. DOMAIN store' \subseteq Keys /\ DOMAIN store \subseteq Keys
    BY <2>1 DEF Stored, IInv
  <2>3. \A x \in DOMAIN store' \ skipped' : store'[x].asOf = epoch'[x]
    BY <1>1, <1>4, <2>1, <2>2 DEF IInv
  <2> QED
    BY <1>1, <1>4, <2>1, <2>3 DEF IInv
<1> QED
  BY <1>1, <1>2, <1>3, <1>4

(* A read removes an expired entry or makes a live one the most recent. *)
LEMMA GetStep ==
    ASSUME IInv, NEW k \in Keys, Get(k)
    PROVE  IInv'
<1>1. UNCHANGED <<now, epoch, skipped>> /\ k \in DOMAIN store
  BY DEF Get, Live
<1>2. CASE RemoveEntries({k})
  BY <1>1, <1>2, ExpiryStep
<1>3. CASE order' = MoveToEnd(order, k) /\ UNCHANGED <<store, memory, doubled>>
  <2>1. OnceEach(order', DOMAIN store)
    BY <1>1, <1>3, MoveOnce DEF IInv, Stored
  <2> QED
    BY <1>1, <1>3, <2>1 DEF IInv, Stored
<1> QED
  BY <1>2, <1>3 DEF Get

(* clear() starts over: also the counter is right again. *)
LEMMA ClearStep ==
    ASSUME IInv, Clear
    PROVE  IInv'
<1>1. /\ DOMAIN store' = {} /\ store' = [k \in {} |-> store'[k]] /\ order' = <<>>
      /\ memory' = 0 /\ doubled' = FALSE /\ skipped' = {} /\ UNCHANGED now
      /\ epoch' = [k \in Keys |-> epoch[k] + 1]
  BY DEF Clear, Bump
<1>2. Stored(store', order')
  BY <1>1 DEF Stored, OnceEach
<1>3. SumFunctionOnSet(Sz(store'), {}) = 0
  BY FS_EmptySet, SumType
<1>4. Counted(store', memory', doubled')
  BY <1>1, <1>3, L1Assumption DEF Counted, Total
<1>5. epoch' \in [Keys -> Nat] /\ now' \in Nat
  BY <1>1 DEF IInv
<1>6. doubled' \in BOOLEAN
  BY <1>1
<1> QED
  BY <1>1, <1>2, <1>4, <1>5, <1>6 DEF IInv

(* The invariant is kept by every step of the cache. *)
LEMMA StepInv == ASSUME IInv, [Next]_vars PROVE IInv'
<1>1. CASE UNCHANGED vars
  BY <1>1 DEF vars, IInv
<1>2. CASE Tick
  BY <1>2 DEF Tick, IInv
<1>3. CASE Clear
  BY <1>3, ClearStep
<1>4. ASSUME NEW k \in Keys, Get(k) \/ Invalidate(k)
      PROVE  IInv'
  <2>1. CASE Invalidate(k)
    BY <2>1, RemoveStep DEF Invalidate, Bump
  <2> QED
    BY <1>4, <2>1, GetStep
<1>5. ASSUME NEW k \in Keys, NEW size \in Sizes, NEW ttl \in Ttls, Put(k, size, ttl)
      PROVE  IInv'
  BY <1>5, PutStep
<1>6. ASSUME NEW when \in 0..MaxTime, CleanupExpired(when)
      PROVE  IInv'
  BY <1>6, ExpiryStep DEF CleanupExpired
<1> QED
  BY <1>1, <1>2, <1>3, <1>4, <1>5, <1>6 DEF Next

(* An empty cache. *)
LEMMA InitInv == ASSUME Init PROVE IInv
<1>1. /\ DOMAIN store = {} /\ store = [k \in {} |-> store[k]] /\ order = <<>>
      /\ memory = 0 /\ doubled = FALSE /\ skipped = {} /\ now = 0
      /\ epoch = [k \in Keys |-> 0]
  BY DEF Init
<1>2. Stored(store, order)
  BY <1>1 DEF Stored, OnceEach
<1>3. SumFunctionOnSet(Sz(store), {}) = 0
  BY FS_EmptySet, SumType
<1>4. Counted(store, memory, doubled)
  BY <1>1, <1>3, L1Assumption DEF Counted, Total
<1> QED
  BY <1>1, <1>2, <1>4 DEF IInv

(* The inductive invariant of L1Cache holds in every reachable state. *)
THEOREM InductiveInvariant == Spec => []IInv
<1>1. Init => IInv
  BY InitInv
<1>2. IInv /\ [Next]_vars => IInv'
  BY StepInv
<1> QED
  BY <1>1, <1>2, PTL DEF Spec

(* The counter of _current_memory_bytes never claims more than is held nor *)
(* more than the budget, and is exact until a put evicts the very entry it *)
(* replaces (l1_cache.py:208-261).                                         *)
THEOREM BytesAreAccounted == Spec => []BytesAccounted
<1>1. IInv => BytesAccounted
  <2> SUFFICES ASSUME IInv PROVE BytesAccounted
    OBVIOUS
  <2>1. Stored(store, order) /\ Counted(store, memory, doubled)
    BY DEF IInv
  <2>2. DOMAIN SizeOf = DOMAIN store /\ SizeOf = Sz(store)
    BY DEF SizeOf, Sz, Live
  <2>3. SumFunction(SizeOf) = Total(store)
    BY <2>2 DEF SumFunction, Total
  <2>4. /\ order \in Seq(DOMAIN store) /\ {order[i] : i \in DOMAIN order} = DOMAIN store
        /\ Len(order) = Cardinality(DOMAIN store)
    BY <2>1, OnceFinite DEF Stored, OnceEach
  <2>5. order \in Seq(Keys)
    BY <2>1, <2>4 DEF Stored
  <2>6. TypeOK
    BY <2>1, <2>4, <2>5 DEF TypeOK, Live, IInv, Stored, Counted
  <2> QED
    BY <2>1, <2>3, <2>6 DEF BytesAccounted, AccountingExact, CounterNeverOverclaims, Counted
<1> QED
  BY <1>1, InductiveInvariant, PTL

(* A put that has to make room takes the least recently used entries, and  *)
(* leaves its own value the most recent (l1_cache.py:208-261).             *)
THEOREM EvictionIsFair == Spec => RecentSurvive
<1>1. ASSUME IInv, NEW k \in Keys, NEW size \in Sizes, NEW ttl \in Ttls,
             Put(k, size, ttl), size <= MaxMemory, ttl > TtlBuffer
      PROVE  /\ order'[Len(order')] = k
             /\ \A j \in Live \ (DOMAIN store' \cup {k}), i \in DOMAIN store' \ {k} :
                  Precedes(order, j, i)
  <2> DEFINE expiry == now + ttl - TtlBuffer
  <2>1. size \in Nat /\ expiry > now
    BY <1>1, L1Assumption DEF IInv
  <2>2. expiry \in Nat
    BY <1>1, <2>1, L1Assumption DEF IInv
  <2>3. StoreEntry(k, size, expiry)
    BY <1>1, <2>1, L1Assumption DEF Put, IInv
  <2> HIDE DEF expiry
  <2> QED
    BY <1>1, <2>1, <2>2, <2>3, StoreKeeps DEF Live
<1>2. IInv /\ [Next]_vars =>
        [\A k \in Keys, size \in Sizes, ttl \in Ttls :
           Put(k, size, ttl) /\ size <= MaxMemory /\ ttl > TtlBuffer =>
             /\ order'[Len(order')] = k
             /\ \A j \in Live \ (DOMAIN store' \cup {k}), i \in DOMAIN store' \ {k} :
                  Precedes(order, j, i)]_vars
  BY <1>1
<1> QED
  BY <1>2, InductiveInvariant, PTL DEF Spec, RecentSurvive
--------------------------------------------------------------------------------
(* Refinement.  But for skipped puts, what is held under a key is of the   *)
(* key's current epoch, so a step is described by the epochs it starts and *)
(* the keys it adds.                                                       *)
LEMMA HeldIsLatest ==
    ASSUME IInv
    PROVE  Held = [k \in Keys |-> IF k \in DOMAIN store \ skipped THEN epoch[k] ELSE Absent]
BY DEF IInv, Held, Live

LEMMA HeldIsLatestNext ==
    ASSUME IInv'
    PROVE  Held' = [k \in Keys |-> IF k \in DOMAIN store' \ skipped' THEN epoch'[k] ELSE Absent]
BY DEF IInv, Held, Live

(* A step that starts the epochs of B, holding none of their keys after it. *)
LEMMA RemovalSimulates ==
    ASSUME IInv, IInv', DOMAIN store' \subseteq DOMAIN store, NEW B \in SUBSET Keys,
           B \cap DOMAIN store' = {}, skipped' = skipped \ B,
           epoch' = [k \in Keys |-> IF k \in B THEN epoch[k] + 1 ELSE epoch[k]]
    PROVE  Lossy!Invalidate(B)
<1>1. Held = [k \in Keys |-> IF k \in DOMAIN store \ skipped THEN epoch[k] ELSE Absent]
  BY HeldIsLatest
<1>2. Held' = [k \in Keys |-> IF k \in DOMAIN store' \ skipped' THEN epoch'[k] ELSE Absent]
  BY HeldIsLatestNext
<1>3. (\A k \in B : Held'[k] = Absent) /\ \A k \in Keys \ B : Held'[k] \in {Held[k], Absent}
  BY <1>1, <1>2
<1> QED
  BY <1>2, <1>3 DEF Lossy!Invalidate, Lossy!KeepsOrLoses

(* A step that starts no epoch and adds no key loses entries at most. *)
LEMMA LossSimulates ==
    ASSUME IInv, IInv', DOMAIN store' \subseteq DOMAIN store, UNCHANGED <<epoch, skipped>>
    PROVE  Lossy!Lose
<1>1. Held = [k \in Keys |-> IF k \in DOMAIN store \ skipped THEN epoch[k] ELSE Absent]
  BY HeldIsLatest
<1>2. Held' = [k \in Keys |-> IF k \in DOMAIN store' \ skipped THEN epoch[k] ELSE Absent]
  BY HeldIsLatestNext
<1>3. \A k \in Keys : Held'[k] \in {Held[k], Absent}
  BY <1>1, <1>2
<1> QED
  BY <1>2, <1>3 DEF Lossy!Lose, Lossy!KeepsOrLoses

(* put writes its key, whether the value is stored, too large or skipped. *)
LEMMA PutSimulates ==
    ASSUME IInv, IInv', NEW k \in Keys, NEW size \in Sizes, NEW ttl \in Ttls, Put(k, size, ttl)
    PROVE  Lossy!Write(k)
<1> DEFINE expiry == now + ttl - TtlBuffer
<1> HIDE DEF expiry
<1>1. /\ size \in Nat
      /\ epoch' = [x \in Keys |-> IF x \in {k} THEN epoch[x] + 1 ELSE epoch[x]]
      /\ \/ /\ UNCHANGED <<store, order, memory, doubled>>
            /\ skipped' = skipped \cup {k}
         \/ /\ expiry \in Nat /\ skipped' = skipped \ {k}
            /\ RemoveEntries({k}) \/ (size <= MaxMemory /\ StoreEntry(k, size, expiry))
  BY PutCases DEF expiry
<1>2. epoch \in [Keys -> Nat]
  BY DEF IInv
<1>3. /\ DOMAIN store' \subseteq DOMAIN store \cup {k}
      /\ skipped' \ {k} = skipped \ {k}
  BY <1>1, RemoveKeeps, StoreKeeps
<1>4. Held = [x \in Keys |-> IF x \in DOMAIN store \ skipped THEN epoch[x] ELSE Absent]
  BY HeldIsLatest
<1>5. Held' = [x \in Keys |-> IF x \in DOMAIN store' \ skipped' THEN epoch'[x] ELSE Absent]
  BY HeldIsLatestNext
<1>6. Held'[k] \in {epoch[k] + 1, Absent} /\ \A x \in Keys \ {k} : Held'[x] \in {Held[x], Absent}
  <2>1. \A x \in Keys \ {k} : epoch'[x] = epoch[x] /\ (x \in skipped' <=> x \in skipped)
    BY <1>1
  <2> QED
    BY <1>1, <1>3, <1>4, <1>5, <2>1
<1>7. epoch' = [epoch EXCEPT ![k] = @ + 1]
  BY <1>1, <1>2
<1> QED
  BY <1>5, <1>6, <1>7 DEF Lossy!Write, Lossy!KeepsOrLoses

(* Every step of L1Cache is a step of the abstract cache or stutters. *)
LEMMA StepSimulates ==
    ASSUME IInv, IInv', [Next]_vars
    PROVE  [Lossy!Next]_<<Held, epoch>>
<1>1. CASE UNCHANGED vars \/ Tick
  BY <1>1 DEF vars, Tick, Held, Live
<1>2. CASE Clear
  <2>1. /\ DOMAIN store' = {}
        /\ epoch' = [k \in Keys |-> IF k \in Keys THEN epoch[k] + 1 ELSE epoch[k]]
        /\ skipped' = skipped \ Keys
    BY <1>2 DEF Clear, Bump, IInv
  <2>2. Lossy!Invalidate(Keys)
    BY <2>1, RemovalSimulates
  <2> QED
    BY <2>2 DEF Lossy!Next
<1>3. ASSUME NEW k \in Keys, Invalidate(k)
      PROVE  Lossy!Next
  <2>1. /\ RemoveEntries({k}) /\ skipped' = skipped \ {k}
        /\ epoch' = [x \in Keys |-> IF x \in {k} THEN epoch[x] + 1 ELSE epoch[x]]
    BY <1>3 DEF Invalidate, Bump
  <2>2. DOMAIN store' = DOMAIN store \ {k}
    BY <2>1, RemoveKeeps
  <2>3. Lossy!Invalidate({k})
    BY <2>1, <2>2, RemovalSimulates
  <2> QED
    BY <2>3 DEF Lossy!Next
<1>4. ASSUME NEW k \in Keys, Get(k)
      PROVE  Lossy!Next
  <2>1. DOMAIN store' \subseteq DOMAIN store /\ UNCHANGED <<epoch, skipped>>
    BY <1>4, RemoveKeeps DEF Get
  <2> QED
    BY <2>1, LossSimulates DEF Lossy!Next
<1>5. ASSUME NEW when \in 0..MaxTime, CleanupExpired(when)
      PROVE  Lossy!Next
  <2>1. DOMAIN store' \subseteq DOMAIN store /\ UNCHANGED <<epoch, skipped>>
    BY <1>5, RemoveKeeps DEF CleanupExpired
  <2> QED
    BY <2>1, LossSimulates DEF Lossy!Next
<1>6. ASSUME NEW k \in Keys, NEW size \in Sizes, NEW ttl \in Ttls, Put(k, size, ttl)
      PROVE  Lossy!Next
  BY <1>6, PutSimulates DEF Lossy!Next
<1> QED
  BY <1>1, <1>2, <1>3, <1>4, <1>5, <1>6 DEF Next

(* L1Cache implements the abstract cache: what it serves under a key is    *)
(* the latest value put there, also when that value was too large to hold  *)
(* (l1_cache.py:191-206), unless the latest put was skipped for its        *)
(* lifetime (l1_cache.py:182-186).                                         *)
THEOREM ImplementsLossy == Spec => ImplementsLossyCache
<1>1. Init => Lossy!Init
  BY DEF Init, Lossy!Init, Held, Live
<1>2. IInv /\ IInv' /\ [Next]_vars => [Lossy!Next]_<<Held, epoch>>
  BY StepSimulates
<1> QED
  BY <1>1, <1>2, InductiveInvariant, PTL DEF Spec, ImplementsLossyCache, Lossy!Spec, Lossy!lossyVars
================================================================================
