------------------------------- MODULE L1Cache ---------------------------------
(***************************************************************************)
(* cachekit/l1_cache.py, class L1Cache: the in-memory cache of serialized  *)
(* bytes in front of a backend.  Every method holds one RLock around the   *)
(* state it touches, so each is one action.  A value is abstracted to its  *)
(* length; the hit, miss and eviction counters are left out.               *)
(***************************************************************************)
EXTENDS OrderedDict, Functions, FiniteSetsExt

CONSTANTS
    Keys,        \* cache keys
    Absent,      \* no entry
    MaxMemory,   \* max_memory_bytes
    Sizes,       \* lengths of the values put
    Ttls,        \* redis_ttl of the puts; expires_at - now in its other form
    TtlBuffer,   \* ttl_buffer_seconds
    MaxTime,     \* bound on the clock
    MaxWrites    \* bound on the writes and invalidations of a key

ASSUME L1Assumption ==
    /\ MaxMemory \in Nat \ {0}
    /\ Sizes \subseteq Nat
    /\ Ttls \subseteq Nat
    /\ TtlBuffer \in Nat

VARIABLES
    store,    \* _cache: key -> CacheEntry
    order,    \* its keys, least recently used first
    memory,   \* _current_memory_bytes
    now,      \* time.time()
    epoch,    \* ghost: writes and invalidations of each key so far
    doubled,  \* ghost: an entry was counted out twice since the last clear()
    skipped   \* ghost: keys whose last put was not taken, for its lifetime

vars == <<store, order, memory, now, epoch, doubled, skipped>>

(* CacheEntry.  asOf is a ghost: the write the value comes from. *)
EntryType == [expires : Nat, size : Nat, asOf : Nat]

Live == DOMAIN store

IsExpired(k) == now >= store[k].expires

SizeOf == [k \in Live |-> store[k].size]

Bump(S) == epoch' = [k \in Keys |-> IF k \in S THEN epoch[k] + 1 ELSE epoch[k]]

(* Mutant: the entry goes but its bytes stay accounted. *)
RemoveUnaccounted(S) ==
    /\ store' = Restrict(store, Live \ S)
    /\ order' = Without(order, S)
    /\ UNCHANGED <<memory, doubled>>

(* _remove_entry, for every key of S that is present *)
RemoveEntries(S) ==
    /\ store' = Restrict(store, Live \ S)
    /\ order' = Without(order, S)
    /\ memory' = memory - SumFunctionOnSet(SizeOf, S \cap Live)
    /\ UNCHANGED doubled
--------------------------------------------------------------------------------
Init ==
    /\ store = <<>>
    /\ order = <<>>
    /\ memory = 0
    /\ now = 0
    /\ epoch = [k \in Keys |-> 0]
    /\ doubled = FALSE
    /\ skipped = {}

Tick ==
    /\ now < MaxTime
    /\ now' = now + 1
    /\ UNCHANGED <<store, order, memory, epoch, doubled, skipped>>

(* A miss changes nothing, an expired entry is removed, a hit is touched. *)
Get(k) ==
    /\ k \in Live
    /\ \/ IsExpired(k) /\ RemoveEntries({k})
       \/ /\ ~IsExpired(k)
          /\ order' = MoveToEnd(order, k)
          /\ UNCHANGED <<store, memory, doubled>>
    /\ UNCHANGED <<now, epoch, skipped>>

(* _evict_for_space: how many of the oldest entries go, when the counter    *)
(* stands at `before`.  The loop walks the entries in LRU order, counts     *)
(* each one out and stops as soon as the new value fits.                    *)
Victims(before, needed) ==
    LET Freed(n) == SumFunctionOnSet(SizeOf, {order[i] : i \in 1..n})
    IN  Min({n \in 0..Len(order) : before - Freed(n) + needed <= MaxMemory}
            \cup {Len(order)})

(* Mutant: a replaced value keeps its old place in the LRU order. *)
StoreInPlace(k, size, expiry) ==
    LET before  == memory - (IF k \in Live THEN store[k].size ELSE 0)
        victims == {order[i] : i \in 1..Victims(before, size)}
        kept    == Live \ victims
    IN  /\ store' = [x \in kept \cup {k} |->
                       IF x = k THEN [expires |-> expiry, size |-> size, asOf |-> epoch[k] + 1]
                       ELSE store[x]]
        /\ order' = IF k \in kept THEN Without(order, victims)
                    ELSE Append(Without(order, victims), k)
        /\ memory' = before - SumFunctionOnSet(SizeOf, victims) + size
        /\ doubled' = (doubled \/ k \in Live \cap victims)

(* The value is stored.  An existing entry of the key is first subtracted   *)
(* from the counter but left in place, so the eviction loop may walk over   *)
(* it and subtract it again.                                                *)
StoreEntry(k, size, expiry) ==
    LET before  == memory - (IF k \in Live THEN store[k].size ELSE 0)
        n       == Victims(before, size)
        victims == {order[i] : i \in 1..n}
        kept    == Live \ victims
    IN  /\ store' = [x \in kept \cup {k} |->
                       IF x = k THEN [expires |-> expiry, size |-> size, asOf |-> epoch[k] + 1]
                       ELSE store[x]]
        /\ order' = Append(Without(order, victims \cup {k}), k)
        /\ memory' = before - SumFunctionOnSet(SizeOf, victims) + size
        /\ doubled' = (doubled \/ k \in Live \cap victims)

(* Mutant: an oversized value is not stored, but the old one stays. *)
DropOversizedKeepsOld(k) == UNCHANGED <<store, order, memory, doubled>>

(* A value that can never fit is not stored, and replaces the old one by    *)
(* nothing.                                                                 *)
DropOversized(k) == RemoveEntries({k})

(* The buffer uses up the lifetime: put returns before it touches anything, *)
(* and an older value of the key goes on being served until it expires.     *)
SkipShortLived(k) ==
    /\ UNCHANGED <<store, order, memory, doubled>>
    /\ skipped' = skipped \cup {k}

Put(k, size, ttl) ==
    LET expiry == now + ttl - TtlBuffer
    IN  /\ epoch[k] < MaxWrites
        /\ \/ expiry <= now /\ SkipShortLived(k)
           \/ /\ expiry > now
              /\ \/ size > MaxMemory /\ DropOversized(k)
                 \/ size <= MaxMemory /\ StoreEntry(k, size, expiry)
              /\ skipped' = skipped \ {k}
        /\ Bump({k})
        /\ UNCHANGED now

Invalidate(k) ==
    /\ epoch[k] < MaxWrites
    /\ RemoveEntries({k})
    /\ skipped' = skipped \ {k}
    /\ Bump({k})
    /\ UNCHANGED now

Clear ==
    /\ \A k \in Keys : epoch[k] < MaxWrites
    /\ store' = <<>>
    /\ order' = <<>>
    /\ memory' = 0
    /\ doubled' = FALSE
    /\ skipped' = {}
    /\ Bump(Keys)
    /\ UNCHANGED now

(* cleanup_expired, run by the manager's background thread.  It reads the   *)
(* clock before it takes the lock: `when` may be in the past.               *)
CleanupExpired(when) ==
    /\ when <= now
    /\ LET expired == {k \in Live : when >= store[k].expires}
       IN  expired # {} /\ RemoveEntries(expired)
    /\ UNCHANGED <<now, epoch, skipped>>

Next ==
    \/ Tick
    \/ Clear
    \/ \E k \in Keys :
         \/ Get(k)
         \/ Invalidate(k)
         \/ \E size \in Sizes, ttl \in Ttls : Put(k, size, ttl)
    \/ \E when \in 0..MaxTime : CleanupExpired(when)

Spec == Init /\ [][Next]_vars
--------------------------------------------------------------------------------
(* The state is well formed, and the order lists the stored keys.           *)
TypeOK ==
    /\ Live \subseteq Keys
    /\ store \in [Live -> EntryType]
    /\ order \in Seq(Keys)
    /\ {order[i] : i \in DOMAIN order} = Live
    /\ Len(order) = Cardinality(Live)
    /\ memory \in Int
    /\ now \in Nat
    /\ epoch \in [Keys -> Nat]
    /\ doubled \in BOOLEAN
    /\ skipped \subseteq Keys

(* "Memory bounded" (l1_cache.py:42): the bytes really held never exceed    *)
(* max_memory_bytes.                                                        *)
MemoryBounded == SumFunction(SizeOf) <= MaxMemory

(* _current_memory_bytes is the total size of the entries: each of the ways *)
(* an entry leaves (read after expiry, eviction, invalidation, cleanup)     *)
(* subtracts it exactly once (l1_cache.py:225-261), and only a put that     *)
(* evicts the very entry it replaces makes the two differ.                  *)
AccountingExact == doubled \/ memory = SumFunction(SizeOf)

(* Even when replaced entries are counted out twice, the counter never      *)
(* claims more than is held, so no store is ever refused or evicts for      *)
(* bytes that are not there; and it never exceeds the budget.               *)
CounterNeverOverclaims == memory <= SumFunction(SizeOf) /\ memory <= MaxMemory

(* Entries, LRU order and byte counter agree, but for entries counted out   *)
(* twice, after which the counter errs on one side only                     *)
(* (l1_cache.py:208-261).                                                   *)
BytesAccounted == TypeOK /\ AccountingExact /\ CounterNeverOverclaims

(* "LRU eviction when memory limit reached" (l1_cache.py:43): a store only  *)
(* pushes out an entry if everything that stays was used more recently,     *)
(* and never the value it stores.                                           *)
RecentSurvive ==
    [][\A k \in Keys, size \in Sizes, ttl \in Ttls :
         Put(k, size, ttl) /\ size <= MaxMemory /\ ttl > TtlBuffer =>
           /\ order'[Len(order')] = k
           /\ \A j \in Live \ (DOMAIN store' \cup {k}), i \in DOMAIN store' \ {k} :
                Precedes(order, j, i)]_vars

(* The refinement mapping: which write each held value belongs to.  A value *)
(* that outlived a skipped put of its key is served, but promised nothing.  *)
Held == [k \in Keys |-> IF k \in Live \ skipped THEN store[k].asOf ELSE Absent]

Lossy == INSTANCE LossyCache WITH content <- Held, latest <- epoch

(* What L1 holds under a key is the latest value put there, unless that put *)
(* was skipped because the buffer used up its lifetime (l1_cache.py:182-186 *)
(* leaves the older value in place).  Nothing else leaves an older value    *)
(* behind: not eviction, expiry or clean-up, and a value too large for L1   *)
(* makes it stop serving the smaller one it replaces (l1_cache.py:191-206). *)
ImplementsLossyCache == Lossy!Spec
================================================================================
