------------------------------ MODULE ObjectCache ------------------------------
(***************************************************************************)
(* cachekit/object_cache.py: the thread-safe in-memory object cache with   *)
(* TTL, LRU eviction, an entry bound, a byte bound and stale-while-        *)
(* revalidate (SWR).  Every public method holds one RLock for its whole    *)
(* body, so each method is one action.  The cached object is abstracted to *)
(* its estimated size and to where it came from; the lifetime counters     *)
(* _hits and _misses are left out.                                         *)
(*                                                                         *)
(* Actors are the threads and tasks that use the cache.  An actor told     *)
(* needs_refresh holds a token (key, version) until it calls               *)
(* complete_refresh or cancel_refresh, the contract of get_with_swr.       *)
(***************************************************************************)
EXTENDS OrderedDict, Functions, FiniteSetsExt

CONSTANTS
    Keys,          \* cache keys
    Actors,        \* threads / tasks calling the cache
    None,          \* Python's None
    MaxEntries,    \* max_entries, or None
    MaxBytes,      \* max_size_bytes, or None
    Sizes,         \* what _estimate_object_size may return for a value
    Ttl,           \* the ttl every call passes
    Thresholds,    \* floor(ttl * swr_threshold_ratio * jitter), jitter in [0.9, 1.1]
    MaxTime,       \* bound: the clock stops here
    MaxGeneration  \* bound on _generation and on the ghost epochs

(* The constructor raises unless at least one bound is set and each bound  *)
(* that is set is at least 1 (object_cache.py:126-133).                    *)
ASSUME BoundsAssumption ==
    /\ MaxEntries # None \/ MaxBytes # None
    /\ MaxEntries # None => MaxEntries \in Nat \ {0}
    /\ MaxBytes # None => MaxBytes \in Nat \ {0}

ASSUME ParameterAssumption ==
    /\ Sizes \subseteq Nat
    /\ Ttl \in Nat \ {0}
    /\ Thresholds \subseteq Nat
    /\ MaxTime \in Nat
    /\ MaxGeneration \in Nat

VARIABLES
    oc,          \* the cache: store, its LRU order, _current_size_bytes, _refreshing
    generation,  \* _generation
    now,         \* time.monotonic()
    tokens,      \* tokens[a]: the refresh actor a has to finish, or None
    epoch        \* ghost: stores and invalidations of each key so far

vars == <<oc, generation, now, tokens, epoch>>

--------------------------------------------------------------------------------
(* _Entry.  asOf is a ghost: the epoch of the key that the value belongs   *)
(* to, the one put() started or the one in which its refresh began.        *)
EntryType == [expires : Nat, cached : Nat, size : Nat, gen : Nat, asOf : Nat]

TokenType == [key : Keys, version : Nat, epoch : Nat]

With(f, k, v) == [x \in DOMAIN f \cup {k} |-> IF x = k THEN v ELSE f[x]]

Live(c) == DOMAIN c.store

IsExpired(c, k) == now >= c.store[k].expires

Cache(store, order, bytes, marks) ==
    [store |-> store, order |-> order, bytes |-> bytes, marks |-> marks]

EmptyCache == Cache(<<>>, <<>>, 0, <<>>)

Touch(c, k) == Cache(c.store, MoveToEnd(c.order, k), c.bytes, c.marks)

SizeOf(c) == [k \in Live(c) |-> c.store[k].size]

(* Mutant: the removal forgets the in-flight refresh marker. *)
RemoveKeepsMarks(c, S) ==
    Cache(Restrict(c.store, Live(c) \ S),
          Without(c.order, S),
          c.bytes - SumFunctionOnSet(SizeOf(c), S \cap Live(c)),
          c.marks)

(* _remove, applied to every key of S that is present *)
Remove(c, S) ==
    Cache(Restrict(c.store, Live(c) \ S),
          Without(c.order, S),
          c.bytes - SumFunctionOnSet(SizeOf(c), S \cap Live(c)),
          Restrict(c.marks, DOMAIN c.marks \ S))

(* _evict's over_bounds() *)
OverBounds(c, extraBytes, needSlot) ==
    \/ needSlot /\ MaxEntries # None /\ Cardinality(Live(c)) >= MaxEntries
    \/ MaxBytes # None /\ c.bytes + extraBytes > MaxBytes

(* Mutant: eviction starts at the most recently used end. *)
Newest(c, n) == {c.order[i] : i \in (Len(c.order) - n + 1)..Len(c.order)}

(* next(iter(self._store)), n times *)
Oldest(c, n) == {c.order[i] : i \in 1..n}

(* _evict: nothing unless a bound is exceeded; then sweep what has expired, *)
(* then drop least recently used entries, as few as make the write fit.     *)
Evict(c, extraBytes, needSlot) ==
    LET swept   == Remove(c, {k \in Live(c) : IsExpired(c, k)})
        n       == Len(swept.order)
        Fits(i) == ~OverBounds(Remove(swept, Oldest(swept, i)), extraBytes, needSlot)
        victims == Min({i \in 0..n : Fits(i)} \cup {n})
    IN  IF OverBounds(c, extraBytes, needSlot)
        THEN Remove(swept, Oldest(swept, victims))
        ELSE c

(* size = _estimate_object_size(value) if byte-bounded else 0 *)
Charged(size) == IF MaxBytes # None THEN size ELSE 0

TooLarge(size) == MaxBytes # None /\ size > MaxBytes

Bump(k) == epoch' = [epoch EXCEPT ![k] = @ + 1]
--------------------------------------------------------------------------------
Init ==
    /\ oc = EmptyCache
    /\ generation = 0
    /\ now = 0
    /\ tokens = [a \in Actors |-> None]
    /\ epoch = [k \in Keys |-> 0]

Tick ==
    /\ now < MaxTime
    /\ now' = now + 1
    /\ UNCHANGED <<oc, generation, tokens, epoch>>

(* Both reads start the same way: an absent key changes nothing, an        *)
(* expired entry is removed on the spot, a live one becomes most recent.    *)
Hit(k) == k \in Live(oc) /\ ~IsExpired(oc, k)

ExpireOnRead(k) ==
    /\ k \in Live(oc) /\ IsExpired(oc, k)
    /\ oc' = Remove(oc, {k})
    /\ UNCHANGED <<generation, now, tokens, epoch>>

Get(k) ==
    \/ ExpireOnRead(k)
    \/ /\ Hit(k)
       /\ oc' = Touch(oc, k)
       /\ UNCHANGED <<generation, now, tokens, epoch>>

(* Mutant: a second reader may be told to refresh too. *)
NeedsRefreshAgain(k, threshold) == now - oc.store[k].cached > threshold

(* Past the (jittered) threshold and nobody refreshing the key yet. *)
NeedsRefresh(k, threshold) ==
    /\ now - oc.store[k].cached > threshold
    /\ k \notin DOMAIN oc.marks

FlagRefresh(a, k) ==
    /\ oc' = Cache(oc.store, MoveToEnd(oc.order, k), oc.bytes,
                   With(oc.marks, k, oc.store[k].gen))
    /\ tokens' = [tokens EXCEPT ![a] =
                    [key |-> k, version |-> oc.store[k].gen, epoch |-> epoch[k]]]
    /\ UNCHANGED <<generation, now, epoch>>

(* A hit that is served without starting a refresh: the value is fresh     *)
(* enough, or another refresh of the key is in flight.                      *)
ServeFresh(k) ==
    /\ Hit(k)
    /\ \E t \in Thresholds : ~NeedsRefresh(k, t)
    /\ oc' = Touch(oc, k)
    /\ UNCHANGED <<generation, now, tokens, epoch>>

(* A hit that is served with needs_refresh = True. *)
ServeStale(a, k) ==
    /\ Hit(k)
    /\ tokens[a] = None
    /\ \E t \in Thresholds : NeedsRefresh(k, t)
    /\ FlagRefresh(a, k)

GetWithSwr(a, k) == ExpireOnRead(k) \/ ServeFresh(k) \/ ServeStale(a, k)

(* Drop the in-flight marker, but only if this refresh owns it. *)
ReleaseMark(c, k, version) ==
    IF k \in DOMAIN c.marks /\ c.marks[k] = version
    THEN Cache(c.store, c.order, c.bytes, Restrict(c.marks, DOMAIN c.marks \ {k}))
    ELSE c

(* Mutant: a refresh lands on whatever is stored under the key. *)
AnyEntry(c, k, version) == k \in Live(c)

(* The refresh may land: the very entry it was started against is live. *)
SameEntry(c, k, version) == k \in Live(c) /\ c.store[k].gen = version

(* The refreshed value replaces the old one in place: same generation. *)
Renewed(c, k, size, began) ==
    With(c.store, k, [expires |-> now + Ttl, cached |-> now, size |-> Charged(size),
                      gen |-> c.store[k].gen, asOf |-> began])

(* Mutant: nobody makes room for a refreshed value that grew. *)
LandUnbounded(c, k, size, began) ==
    Cache(Renewed(c, k, size, began), MoveToEnd(c.order, k),
          c.bytes + Charged(size) - c.store[k].size, c.marks)

(* It becomes the most recently used, and others make room if it grew. *)
Land(c, k, size, began) ==
    Evict(Cache(Renewed(c, k, size, began), MoveToEnd(c.order, k),
                c.bytes + Charged(size) - c.store[k].size, c.marks), 0, FALSE)

CompleteRefresh(a, size) ==
    LET k == tokens[a].key
        version == tokens[a].version
        c == ReleaseMark(oc, k, version)
    IN  /\ tokens[a] # None
        /\ oc' = IF ~SameEntry(c, k, version) THEN c
                 ELSE IF TooLarge(size) THEN Remove(c, {k})
                 ELSE Land(c, k, size, tokens[a].epoch)
        /\ tokens' = [tokens EXCEPT ![a] = None]
        /\ UNCHANGED <<generation, now, epoch>>

CancelRefresh(a) ==
    /\ tokens[a] # None
    /\ oc' = ReleaseMark(oc, tokens[a].key, tokens[a].version)
    /\ tokens' = [tokens EXCEPT ![a] = None]
    /\ UNCHANGED <<generation, now, epoch>>

NewEntry(k, size, gen) ==
    [expires |-> now + Ttl, cached |-> now, size |-> size, gen |-> gen,
     asOf |-> epoch[k] + 1]

Insert(c, k, size) ==
    Cache(With(c.store, k, NewEntry(k, size, generation + 1)), Append(c.order, k),
          c.bytes + size, c.marks)

(* A ttl below 1 or not finite raises before anything changes. *)
Put(k, size) ==
    /\ epoch[k] < MaxGeneration
    /\ Bump(k)
    /\ \/ /\ TooLarge(size)
          /\ oc' = Remove(oc, {k})
          /\ UNCHANGED generation
       \/ /\ ~TooLarge(size)
          /\ oc' = Insert(Evict(Remove(oc, {k}), Charged(size), TRUE), k, Charged(size))
          /\ generation' = generation + 1
    /\ UNCHANGED <<now, tokens>>

Delete(k) ==
    /\ epoch[k] < MaxGeneration
    /\ Bump(k)
    /\ oc' = Remove(oc, {k})
    /\ UNCHANGED <<generation, now, tokens>>

Clear ==
    /\ \A k \in Keys : epoch[k] < MaxGeneration
    /\ epoch' = [k \in Keys |-> epoch[k] + 1]
    /\ oc' = EmptyCache
    /\ UNCHANGED <<generation, now, tokens>>

Next ==
    \/ Tick
    \/ Clear
    \/ \E k \in Keys :
         \/ Get(k)
         \/ Delete(k)
         \/ \E size \in Sizes : Put(k, size)
         \/ \E a \in Actors : GetWithSwr(a, k)
    \/ \E a \in Actors :
         \/ CancelRefresh(a)
         \/ \E size \in Sizes : CompleteRefresh(a, size)

Spec == Init /\ [][Next]_vars
--------------------------------------------------------------------------------
(* The LRU order lists each stored key once. *)
OrderListsLive ==
    /\ oc.order \in Seq(Keys)
    /\ {oc.order[i] : i \in DOMAIN oc.order} = Live(oc)
    /\ Len(oc.order) = Cardinality(Live(oc))

(* The dictionaries, counters and tokens have their types. *)
StateTyped ==
    /\ Live(oc) \subseteq Keys
    /\ oc.store \in [Live(oc) -> EntryType]
    /\ DOMAIN oc.marks \subseteq Keys
    /\ oc.marks \in [DOMAIN oc.marks -> Nat]
    /\ generation \in Nat
    /\ now \in Nat
    /\ tokens \in [Actors -> TokenType \cup {None}]
    /\ epoch \in [Keys -> Nat]

(* The state is well formed, and the OrderedDict's order lists exactly the  *)
(* stored keys (object_cache.py:138-154).                                   *)
TypeOK == StateTyped /\ OrderListsLive /\ oc.bytes \in Int

(* _current_size_bytes is exactly the total of the stored entries' sizes    *)
(* after any sequence of stores, evictions, expiries and in-place           *)
(* refreshes, whichever of them removed an entry (object_cache.py:426-438). *)
AccountingExact == oc.bytes = SumFunction(SizeOf(oc))

(* Neither bound is ever exceeded, in particular not by a refreshed value   *)
(* that outgrew the one it replaced (object_cache.py:440-471).              *)
WithinBounds ==
    /\ MaxEntries # None => Cardinality(Live(oc)) <= MaxEntries
    /\ MaxBytes # None => SumFunction(SizeOf(oc)) <= MaxBytes

(* Dictionaries, order and byte counter agree after any mix of operations,  *)
(* and so the bounds, which _evict enforces on the counter, hold of what is *)
(* really stored (object_cache.py:426-471).                                 *)
BytesAccounted == TypeOK /\ AccountingExact /\ WithinBounds

(* "A present marker always equals the live entry's generation"             *)
(* (object_cache.py:150-152): no marker outlives its entry, none survives   *)
(* onto the entry that replaced it.                                         *)
MarkerMatchesLiveEntry ==
    \A k \in DOMAIN oc.marks : k \in Live(oc) /\ oc.marks[k] = oc.store[k].gen

(* A refresh that finishes late never resurrects or overwrites: since the   *)
(* live value was stored, or since the refresh that produced it began, the  *)
(* key has been neither stored nor invalidated (object_cache.py:79-87).     *)
NoResurrection == \A k \in Live(oc) : oc.store[k].asOf = epoch[k]

(* Readers racing past the threshold start one refresh, not several: no two *)
(* actors ever hold a token for the entry that is live now, so a refresh    *)
(* can never be beaten by an older one (object_cache.py:144-152).           *)
SingleRefreshPerEntry ==
    \A a, b \in Actors :
        /\ a # b
        /\ tokens[a] # None
        /\ tokens[b] # None
        /\ tokens[a].key = tokens[b].key
        => tokens[a].version # tokens[b].version

(* A refresh that lands keeps its own entry: making room for a value that   *)
(* grew evicts others, never the entry just refreshed, and that entry is    *)
(* then the most recently used one (object_cache.py:281-290).               *)
LandedRefreshSurvives ==
    [][\A a \in Actors, size \in Sizes :
         /\ CompleteRefresh(a, size)
         /\ ~TooLarge(size)
         /\ SameEntry(oc, tokens[a].key, tokens[a].version)
         => /\ tokens[a].key \in DOMAIN oc'.store
            /\ oc'.store[tokens[a].key].expires = now + Ttl
            /\ oc'.order[Len(oc'.order)] = tokens[a].key]_vars

(* A store that has to make room takes expired entries first, and then the  *)
(* least recently used ones: a fresh entry is only evicted if everything    *)
(* that stays is fresh and was used more recently (object_cache.py:69-71).  *)
EvictsOnlyOldest ==
    [][\A k \in Keys, size \in Sizes :
         Put(k, size) =>
           \A j \in Live(oc) \ (DOMAIN oc'.store \cup {k}) :
             IsExpired(oc, j) \/ \A i \in DOMAIN oc'.store \ {k} :
                                  ~IsExpired(oc, i) /\ Precedes(oc.order, j, i)]_vars

(* Making room for a new value costs expired entries and then those used    *)
(* least recently; making room for one that grew in a refresh never costs   *)
(* that one (object_cache.py:281-290, 440-471).                             *)
EvictionKeepsRecent == EvictsOnlyOldest /\ LandedRefreshSurvives

(* The refinement mapping: which write each held value belongs to. *)
Held == [k \in Keys |-> IF k \in Live(oc) THEN oc.store[k].asOf ELSE None]

Lossy == INSTANCE LossyCache WITH Absent <- None, content <- Held, latest <- epoch

(* The cache is a LossyCache: whatever mix of stores, reads, refreshes,     *)
(* evictions, expiries and invalidations, it only ever holds the value of   *)
(* the latest write of a key, or nothing (object_cache.py:66-90).           *)
ImplementsLossyCache == Lossy!Spec
================================================================================
