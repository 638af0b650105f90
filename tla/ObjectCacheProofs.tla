--------------------------- MODULE ObjectCacheProofs ---------------------------
(***************************************************************************)
(* Proofs about ObjectCache, and about the decorator's L1-only mode that   *)
(* runs on it, for any number of keys, actors, slots and entries, any      *)
(* bounds and any interleaving of their steps.                             *)
(*                                                                         *)
(* The cache is changed by three kinds of steps only: removals (which drop *)
(* an entry together with its marker), an insertion under a generation     *)
(* never used before, and in-place changes of one entry that keep its      *)
(* generation.  Shrinks captures the first kind and all that _evict does.  *)
(* CacheInv is the inductive invariant, stated for any cache value so that *)
(* it can be carried through the intermediate caches of one method.        *)
(***************************************************************************)
EXTENDS L1OnlyMode, DataTheorems

(* d is c without some entries and without their markers. *)
Shrinks(c, d) ==
    /\ DOMAIN d.store \subseteq DOMAIN c.store
    /\ d.store = [k \in DOMAIN d.store |-> c.store[k]]
    /\ DOMAIN d.marks \subseteq DOMAIN c.marks
    /\ d.marks = [k \in DOMAIN d.marks |-> c.marks[k]]
    /\ \A k \in DOMAIN c.store \cap DOMAIN c.marks :
         k \in DOMAIN d.store <=> k \in DOMAIN d.marks

CacheTyped(c) ==
    /\ DOMAIN c.store \subseteq Keys
    /\ c.store \in [DOMAIN c.store -> EntryType]
    /\ DOMAIN c.marks \subseteq Keys
    /\ c.marks \in [DOMAIN c.marks -> Nat]

(* A token of the live entry of its key: its refresh may still land. *)
Current(c, t) == t.key \in DOMAIN c.store /\ c.store[t.key].gen = t.version

(* Every entry is of the current epoch of its key and of a generation      *)
(* already allocated, every marker is the live entry's, and a token of a   *)
(* live entry was taken in the current epoch and still has its marker.     *)
CacheInv(c, g, ep, T) ==
    /\ CacheTyped(c)
    /\ \A k \in DOMAIN c.store : c.store[k].gen <= g /\ c.store[k].asOf = ep[k]
    /\ \A k \in DOMAIN c.marks : k \in DOMAIN c.store /\ c.marks[k] = c.store[k].gen
    /\ \A a \in Actors : T[a] # None /\ Current(c, T[a]) =>
         T[a].epoch = ep[T[a].key] /\ T[a].key \in DOMAIN c.marks

(* Generations are never reused, so a token never becomes current again. *)
TokenInv(g, T) == \A a \in Actors : T[a] # None => T[a].version <= g

IInv ==
    /\ StateTyped
    /\ CacheInv(oc, generation, epoch, tokens)
    /\ TokenInv(generation, tokens)
    /\ SingleRefreshPerEntry
--------------------------------------------------------------------------------
(* _remove, applied to any set of keys, only shrinks the cache. *)
LEMMA RemoveShrinks ==
    ASSUME NEW c, NEW S
    PROVE  Shrinks(c, Remove(c, S)) /\ DOMAIN Remove(c, S).store \cap S = {}
<1>1. /\ Remove(c, S).store = [x \in DOMAIN c.store \ S |-> c.store[x]]
      /\ Remove(c, S).marks = [x \in DOMAIN c.marks \ S |-> c.marks[x]]
  BY DEF Remove, Restrict, Live, Cache
<1> QED
  BY <1>1 DEF Shrinks

(* Shrinking twice is shrinking, if every marker has its entry. *)
LEMMA ShrinksTransitive ==
    ASSUME NEW c, NEW d, NEW e, Shrinks(c, d), Shrinks(d, e)
    PROVE  Shrinks(c, e)
<1>1. /\ DOMAIN e.store \subseteq DOMAIN c.store
      /\ DOMAIN e.marks \subseteq DOMAIN c.marks
  BY DEF Shrinks
<1>2. e.store = [k \in DOMAIN e.store |-> c.store[k]]
  BY DEF Shrinks
<1>3. e.marks = [k \in DOMAIN e.marks |-> c.marks[k]]
  BY DEF Shrinks
<1>4. ASSUME NEW k \in DOMAIN c.store \cap DOMAIN c.marks
      PROVE  k \in DOMAIN e.store <=> k \in DOMAIN e.marks
  BY DEF Shrinks
<1> QED
  BY <1>1, <1>2, <1>3, <1>4 DEF Shrinks

(* _evict only removes entries, expired and least recently used ones. *)
LEMMA EvictShrinks ==
    ASSUME NEW c, NEW x, NEW needSlot,
           c.store = [k \in DOMAIN c.store |-> c.store[k]],
           c.marks = [k \in DOMAIN c.marks |-> c.marks[k]]
    PROVE  Shrinks(c, Evict(c, x, needSlot))
<1>1. Shrinks(c, c)
  BY DEF Shrinks
<1>2. ASSUME NEW S, NEW R
      PROVE  Shrinks(c, Remove(Remove(c, S), R))
  BY RemoveShrinks, ShrinksTransitive
<1>3. \/ Evict(c, x, needSlot) = c
      \/ \E S, R : Evict(c, x, needSlot) = Remove(Remove(c, S), R)
  BY DEF Evict
<1> QED
  BY <1>1, <1>2, <1>3

(* Losing entries never breaks the invariant. *)
LEMMA ShrinkKeepsInv ==
    ASSUME NEW c, NEW d, NEW g, NEW ep, NEW T,
           CacheInv(c, g, ep, T), Shrinks(c, d)
    PROVE  CacheInv(d, g, ep, T)
<1>1. CacheTyped(d)
  BY DEF CacheInv, CacheTyped, Shrinks
<1>2. \A k \in DOMAIN d.store : d.store[k] = c.store[k] /\ k \in DOMAIN c.store
  BY DEF Shrinks
<1>3. \A k \in DOMAIN d.marks : d.marks[k] = c.marks[k] /\ k \in DOMAIN c.marks
  BY DEF Shrinks
<1>4. \A k \in DOMAIN d.store : d.store[k].gen <= g /\ d.store[k].asOf = ep[k]
  BY <1>2 DEF CacheInv
<1>5. \A k \in DOMAIN d.marks : k \in DOMAIN d.store /\ d.marks[k] = d.store[k].gen
  BY <1>2, <1>3 DEF CacheInv, Shrinks
<1>6. ASSUME NEW a \in Actors, T[a] # None, Current(d, T[a])
      PROVE  T[a].epoch = ep[T[a].key] /\ T[a].key \in DOMAIN d.marks
  <2>1. Current(c, T[a])
    BY <1>2, <1>6 DEF Current
  <2>2. T[a].epoch = ep[T[a].key] /\ T[a].key \in DOMAIN c.marks
    BY <1>6, <2>1 DEF CacheInv
  <2> QED
    BY <1>6, <2>1, <2>2 DEF Shrinks, Current
<1> QED
  BY <1>1, <1>4, <1>5, <1>6 DEF CacheInv

(* The in-place steps, touching an entry or releasing a marker, keep it too. *)
LEMMA TouchKeepsInv ==
    ASSUME NEW k, IInv
    PROVE  CacheInv(Touch(oc, k), generation, epoch, tokens)
<1>1. Touch(oc, k).store = oc.store /\ Touch(oc, k).marks = oc.marks
  BY DEF Touch, Cache
<1> QED
  BY <1>1 DEF IInv, CacheInv, CacheTyped, Current

(* Giving up a refresh's marker: no other token is current for the key. *)
LEMMA ReleaseKeepsInv ==
    ASSUME IInv, NEW a \in Actors, tokens[a] # None
    PROVE  /\ CacheInv(ReleaseMark(oc, tokens[a].key, tokens[a].version), generation,
                       epoch, [tokens EXCEPT ![a] = None])
           /\ ReleaseMark(oc, tokens[a].key, tokens[a].version).store = oc.store
<1> DEFINE k == tokens[a].key
           v == tokens[a].version
           d == ReleaseMark(oc, k, v)
           T == [tokens EXCEPT ![a] = None]
<1>1. /\ tokens \in [Actors -> TokenType \cup {None}]
      /\ tokens[a] \in TokenType
      /\ CacheInv(oc, generation, epoch, tokens)
  BY DEF IInv, StateTyped
<1>2. d.store = oc.store
  BY DEF ReleaseMark, Cache
<1>3. /\ d.marks = [x \in DOMAIN d.marks |-> oc.marks[x]]
      /\ DOMAIN d.marks \subseteq DOMAIN oc.marks
      /\ \A x \in DOMAIN oc.marks \ DOMAIN d.marks : x = k /\ oc.marks[k] = v
  <2>1. oc.marks = [x \in DOMAIN oc.marks |-> oc.marks[x]]
    BY <1>1 DEF CacheInv, CacheTyped
  <2>2. CASE k \in DOMAIN oc.marks /\ oc.marks[k] = v
    BY <2>2 DEF ReleaseMark, Cache, Restrict
  <2>3. CASE ~(k \in DOMAIN oc.marks /\ oc.marks[k] = v)
    BY <2>1, <2>3 DEF ReleaseMark
  <2> QED
    BY <2>2, <2>3
<1>4. CacheTyped(d)
  BY <1>1, <1>2, <1>3 DEF CacheInv, CacheTyped
<1>5. \A x \in DOMAIN d.marks : x \in DOMAIN d.store /\ d.marks[x] = d.store[x].gen
  BY <1>1, <1>2, <1>3 DEF CacheInv
<1>6. ASSUME NEW b \in Actors, T[b] # None, Current(d, T[b])
      PROVE  T[b].epoch = epoch[T[b].key] /\ T[b].key \in DOMAIN d.marks
  <2>1. b # a /\ T[b] = tokens[b]
    BY <1>1, <1>6
  <2>2. /\ Current(oc, tokens[b])
        /\ tokens[b].epoch = epoch[tokens[b].key]
        /\ tokens[b].key \in DOMAIN oc.marks
    BY <1>1, <1>2, <1>6, <2>1 DEF CacheInv, Current
  <2>3. ~(tokens[b].key = k /\ tokens[b].version = v)
    BY <1>6, <2>1 DEF IInv, SingleRefreshPerEntry
  <2>4. oc.marks[tokens[b].key] = tokens[b].version
    BY <1>1, <2>2 DEF CacheInv, Current
  <2> QED
    BY <1>3, <2>1, <2>2, <2>3, <2>4
<1>7. \A x \in DOMAIN d.store : d.store[x].gen <= generation /\ d.store[x].asOf = epoch[x]
  BY <1>1, <1>2 DEF CacheInv
<1> QED
  BY <1>2, <1>4, <1>5, <1>6, <1>7 DEF CacheInv

(* The initial cache satisfies the invariant. *)
LEMMA InitInv == ASSUME Init PROVE IInv
<1>1. DOMAIN oc.store = {} /\ DOMAIN oc.marks = {}
  BY DEF Init, EmptyCache, Cache
<1>2. oc.store = [k \in {} |-> oc.store[k]] /\ oc.marks = [k \in {} |-> oc.marks[k]]
  BY DEF Init, EmptyCache, Cache
<1>3. StateTyped
  BY <1>1, <1>2 DEF Init, StateTyped, Live
<1>4. CacheInv(oc, generation, epoch, tokens)
  BY <1>1, <1>2 DEF CacheInv, CacheTyped, Current
<1> QED
  BY <1>3, <1>4 DEF Init, IInv, TokenInv, SingleRefreshPerEntry

--------------------------------------------------------------------------------
(* One step of each kind keeps the invariant.  A step that only removes    *)
(* entries, touches one or lets time pass leaves everything else alone.    *)
LEMMA QuietStep ==
    ASSUME IInv, UNCHANGED <<generation, tokens, epoch>>, now' \in Nat,
           CacheInv(oc', generation, epoch, tokens)
    PROVE  IInv'
<1>1. CacheInv(oc', generation', epoch', tokens')
  OBVIOUS
<1>2. StateTyped'
  BY <1>1 DEF IInv, StateTyped, CacheInv, CacheTyped, Live
<1>3. TokenInv(generation', tokens') /\ SingleRefreshPerEntry'
  BY DEF IInv, TokenInv, SingleRefreshPerEntry
<1> QED
  BY <1>1, <1>2, <1>3 DEF IInv

(* Lazy expiry and LRU touch, the reads that start no refresh. *)
LEMMA ReadStep ==
    ASSUME IInv, NEW k \in Keys, Get(k) \/ ServeFresh(k) \/ ExpireOnRead(k)
    PROVE  IInv'
<1>1. UNCHANGED <<generation, now, tokens, epoch>>
  BY DEF Get, ServeFresh, ExpireOnRead
<1>2. oc' = Remove(oc, {k}) \/ oc' = Touch(oc, k)
  BY DEF Get, ServeFresh, ExpireOnRead
<1>3. CacheInv(oc', generation, epoch, tokens)
  BY <1>2, RemoveShrinks, ShrinkKeepsInv, TouchKeepsInv DEF IInv
<1>4. now' \in Nat
  BY <1>1 DEF IInv, StateTyped
<1> QED
  BY <1>1, <1>3, <1>4, QuietStep

(* Flagging a refresh: no token of this entry is outstanding, because the  *)
(* key has no marker.                                                      *)
LEMMA ServeStaleStep ==
    ASSUME IInv, NEW a \in Actors, NEW k \in Keys, ServeStale(a, k)
    PROVE  IInv'
<1> DEFINE t == [key |-> k, version |-> oc.store[k].gen, epoch |-> epoch[k]]
<1>1. /\ k \in DOMAIN oc.store
      /\ k \notin DOMAIN oc.marks
      /\ tokens[a] = None
      /\ tokens' = [tokens EXCEPT ![a] = t]
      /\ UNCHANGED <<generation, now, epoch>>
  BY DEF ServeStale, Hit, Live, NeedsRefresh, FlagRefresh
<1>2. /\ oc'.store = oc.store
      /\ oc'.marks = [x \in DOMAIN oc.marks \cup {k} |->
                         IF x = k THEN oc.store[k].gen ELSE oc.marks[x]]
  BY DEF ServeStale, FlagRefresh, Cache, With
<1>3. /\ tokens \in [Actors -> TokenType \cup {None}]
      /\ CacheInv(oc, generation, epoch, tokens)
      /\ CacheTyped(oc)
      /\ generation \in Nat /\ epoch \in [Keys -> Nat] /\ now \in Nat
  BY DEF IInv, StateTyped, CacheInv
<1>4. oc.store[k].gen \in Nat /\ oc.store[k].gen <= generation /\ t \in TokenType
  BY <1>1, <1>3 DEF CacheTyped, EntryType, CacheInv, TokenType
<1>5. tokens' \in [Actors -> TokenType \cup {None}]
  BY <1>1, <1>3, <1>4
<1>6. CacheTyped(oc')
  BY <1>2, <1>3, <1>4 DEF CacheTyped
<1>7. \A x \in DOMAIN oc'.marks : x \in DOMAIN oc'.store /\ oc'.marks[x] = oc'.store[x].gen
  BY <1>1, <1>2, <1>3 DEF CacheInv
<1>8. ASSUME NEW b \in Actors, tokens'[b] # None, Current(oc', tokens'[b])
      PROVE  tokens'[b].epoch = epoch[tokens'[b].key] /\ tokens'[b].key \in DOMAIN oc'.marks
  <2>1. CASE b = a
    BY <1>1, <1>2, <1>3, <2>1
  <2>2. CASE b # a
    BY <1>1, <1>2, <1>3, <1>8, <2>2 DEF CacheInv, Current
  <2> QED
    BY <2>1, <2>2
<1>9. CacheInv(oc', generation', epoch', tokens')
  BY <1>1, <1>2, <1>3, <1>6, <1>7, <1>8 DEF CacheInv
<1>10. TokenInv(generation', tokens')
  BY <1>1, <1>3, <1>4 DEF IInv, TokenInv
<1>11. \A b \in Actors : tokens[b] # None /\ tokens[b].key = k => tokens[b].version # oc.store[k].gen
  BY <1>1, <1>3 DEF CacheInv, Current
<1>12. SingleRefreshPerEntry'
  BY <1>1, <1>3, <1>11 DEF IInv, SingleRefreshPerEntry
<1>13. StateTyped'
  BY <1>1, <1>3, <1>5, <1>6 DEF StateTyped, CacheTyped, Live
<1> QED
  BY <1>9, <1>10, <1>12, <1>13 DEF IInv

(* A token that is dropped leaves the facts about the others as they were. *)
LEMMA TokenDropped ==
    ASSUME IInv, NEW a \in Actors, tokens' = [tokens EXCEPT ![a] = None],
           UNCHANGED <<generation, now, epoch>>,
           CacheInv(oc', generation, epoch, tokens')
    PROVE  IInv'
<1>1. tokens \in [Actors -> TokenType \cup {None}]
  BY DEF IInv, StateTyped
<1>2. TokenInv(generation', tokens') /\ SingleRefreshPerEntry'
  BY <1>1 DEF IInv, TokenInv, SingleRefreshPerEntry
<1>3. StateTyped'
  BY <1>1 DEF IInv, StateTyped, CacheInv, CacheTyped, Live
<1> QED
  BY <1>2, <1>3 DEF IInv

(* cancel_refresh *)
LEMMA CancelStep ==
    ASSUME IInv, NEW a \in Actors, CancelRefresh(a)
    PROVE  IInv'
BY ReleaseKeepsInv, TokenDropped DEF CancelRefresh

(* complete_refresh lands on the very entry it was started against: the    *)
(* refreshed value is of the current epoch because the token is.           *)
LEMMA CompleteStep ==
    ASSUME IInv, NEW a \in Actors, NEW size \in Sizes, CompleteRefresh(a, size)
    PROVE  IInv'
<1> DEFINE k == tokens[a].key
           v == tokens[a].version
           c == ReleaseMark(oc, k, v)
           T == [tokens EXCEPT ![a] = None]
           new == [expires |-> now + Ttl, cached |-> now, size |-> Charged(size),
                   gen |-> c.store[k].gen, asOf |-> tokens[a].epoch]
<1>1. /\ tokens[a] # None
      /\ tokens' = T
      /\ UNCHANGED <<generation, now, epoch>>
      /\ oc' = IF ~SameEntry(c, k, v) THEN c
               ELSE IF TooLarge(size) THEN Remove(c, {k})
               ELSE Land(c, k, size, tokens[a].epoch)
  BY DEF CompleteRefresh
<1>2. CacheInv(c, generation, epoch, T) /\ c.store = oc.store
  BY <1>1, ReleaseKeepsInv
<1>3. tokens[a] \in TokenType /\ now \in Nat /\ epoch \in [Keys -> Nat]
  BY <1>1 DEF IInv, StateTyped
<1>4. CASE ~SameEntry(c, k, v)
  BY <1>1, <1>2, <1>4, TokenDropped
<1>5. CASE SameEntry(c, k, v) /\ TooLarge(size)
  <2>1. oc' = Remove(c, {k})
    BY <1>1, <1>5
  <2>2. CacheInv(Remove(c, {k}), generation, epoch, T)
    BY <1>2, RemoveShrinks, ShrinkKeepsInv
  <2> QED
    BY <1>1, <2>1, <2>2, TokenDropped
<1>6. CASE SameEntry(c, k, v) /\ ~TooLarge(size)
  <2>1. k \in DOMAIN c.store /\ c.store[k].gen = v
    BY <1>6 DEF SameEntry, Live
  <2>2. tokens[a].epoch = epoch[k]
    BY <1>1, <1>2, <2>1 DEF IInv, CacheInv, Current
  <2>3. PICK e : /\ e.store = [x \in DOMAIN c.store |-> IF x = k THEN new ELSE c.store[x]]
                 /\ e.marks = c.marks
                 /\ Land(c, k, size, tokens[a].epoch) = Evict(e, 0, FALSE)
    <3> WITNESS Cache(Renewed(c, k, size, tokens[a].epoch), MoveToEnd(c.order, k),
                      c.bytes + Charged(size) - c.store[k].size, c.marks)
    <3> QED
      BY <2>1 DEF Land, Cache, Renewed, With
  <2>4. new \in EntryType
    <3>1. c.store[k].gen \in Nat
      BY <1>2, <2>1 DEF CacheInv, CacheTyped, EntryType
    <3>2. Charged(size) \in Nat
      BY ParameterAssumption DEF Charged
    <3> QED
      BY <1>3, <3>1, <3>2, ParameterAssumption DEF EntryType, TokenType
  <2>5. CacheTyped(e)
    BY <1>2, <2>3, <2>4 DEF CacheInv, CacheTyped
  <2>6. \A x \in DOMAIN e.store : e.store[x].gen = c.store[x].gen /\ x \in DOMAIN c.store
    <3> HIDE DEF c
    <3> QED
      BY <2>3
  <2>7. \A x \in DOMAIN e.store : e.store[x].asOf = epoch[x]
    BY <1>2, <2>2, <2>3 DEF CacheInv
  <2>8. CacheInv(e, generation, epoch, T)
    <3>1. \A b \in Actors : Current(e, T[b]) <=> Current(c, T[b])
      BY <2>3, <2>6 DEF Current
    <3> QED
      BY <1>2, <2>3, <2>5, <2>6, <2>7, <3>1 DEF CacheInv
  <2>9. Shrinks(e, Evict(e, 0, FALSE))
    BY <2>5, EvictShrinks DEF CacheTyped
  <2>10. CacheInv(Evict(e, 0, FALSE), generation, epoch, T)
    BY <2>8, <2>9, ShrinkKeepsInv
  <2>11. oc' = Evict(e, 0, FALSE)
    BY <1>1, <1>6, <2>3
  <2> QED
    BY <1>1, <2>10, <2>11, TokenDropped
<1> QED
  BY <1>4, <1>5, <1>6

(* A key that is not held may start a new epoch. *)
LEMMA NewEpoch ==
    ASSUME NEW c, NEW g, NEW ep, NEW T, NEW ep2, NEW S,
           CacheInv(c, g, ep, T), DOMAIN c.store \cap S = {},
           \A x \in Keys \ S : ep2[x] = ep[x]
    PROVE  CacheInv(c, g, ep2, T)
BY DEF CacheInv, CacheTyped, Current

(* put and delete: the key's old entry goes, with its marker. *)
LEMMA RemovedThenEvicted ==
    ASSUME IInv, NEW k \in Keys, NEW x, NEW e \in {Remove(oc, {k}), Evict(Remove(oc, {k}), x, TRUE)}
    PROVE  /\ CacheInv(e, generation, epoch, tokens)
           /\ k \notin DOMAIN e.store
           /\ Shrinks(oc, e)
<1> DEFINE c == Remove(oc, {k})
<1>1. /\ Shrinks(oc, c)
      /\ k \notin DOMAIN c.store
  BY RemoveShrinks
<1>2. CacheInv(c, generation, epoch, tokens)
  BY <1>1, ShrinkKeepsInv DEF IInv
<1> HIDE DEF c
<1>3. Shrinks(c, Evict(c, x, TRUE))
  <2>1. /\ c.store = [y \in DOMAIN c.store |-> c.store[y]]
        /\ c.marks = [y \in DOMAIN c.marks |-> c.marks[y]]
    BY <1>2 DEF CacheInv, CacheTyped
  <2> QED
    BY <2>1, EvictShrinks
<1>4. Shrinks(oc, Evict(c, x, TRUE)) /\ k \notin DOMAIN Evict(c, x, TRUE).store
  <2>1. Shrinks(oc, Evict(c, x, TRUE))
    BY <1>1, <1>3, ShrinksTransitive
  <2> QED
    BY <1>1, <1>3, <2>1 DEF Shrinks
<1>5. CacheInv(Evict(c, x, TRUE), generation, epoch, tokens)
  BY <1>2, <1>3, ShrinkKeepsInv
<1> QED
  BY <1>1, <1>2, <1>4, <1>5 DEF c

(* Invalidating the keys of S, one or all of them. *)
LEMMA InvalidateStep ==
    ASSUME IInv, NEW S, UNCHANGED <<generation, now, tokens>>,
           epoch' \in [Keys -> Nat],
           \A x \in Keys \ S : epoch'[x] = epoch[x],
           CacheInv(oc', generation, epoch, tokens), DOMAIN oc'.store \cap S = {}
    PROVE  IInv'
<1>1. CacheInv(oc', generation, epoch', tokens)
  BY NewEpoch
<1>2. StateTyped'
  BY <1>1 DEF IInv, StateTyped, CacheInv, CacheTyped, Live
<1>3. TokenInv(generation', tokens') /\ SingleRefreshPerEntry'
  BY DEF IInv, TokenInv, SingleRefreshPerEntry
<1> QED
  BY <1>1, <1>2, <1>3 DEF IInv

(* delete is the invalidation of one key. *)
LEMMA DeleteStep ==
    ASSUME IInv, NEW k \in Keys, Delete(k)
    PROVE  IInv'
<1>1. /\ UNCHANGED <<generation, now, tokens>>
      /\ epoch' = [epoch EXCEPT ![k] = @ + 1]
      /\ oc' = Remove(oc, {k})
  BY DEF Delete, Bump
<1>2. epoch' \in [Keys -> Nat] /\ \A x \in Keys \ {k} : epoch'[x] = epoch[x]
  BY <1>1 DEF IInv, StateTyped
<1>3. CacheInv(oc', generation, epoch, tokens) /\ DOMAIN oc'.store \cap {k} = {}
  BY <1>1, RemoveShrinks, ShrinkKeepsInv DEF IInv
<1> QED
  BY <1>1, <1>2, <1>3, InvalidateStep

(* clear is the invalidation of every key. *)
LEMMA ClearStep ==
    ASSUME IInv, Clear
    PROVE  IInv'
<1>1. /\ UNCHANGED <<generation, now, tokens>>
      /\ epoch' = [k \in Keys |-> epoch[k] + 1]
      /\ oc' = EmptyCache
  BY DEF Clear
<1>2. epoch' \in [Keys -> Nat]
  BY <1>1 DEF IInv, StateTyped
<1>3. /\ DOMAIN oc'.store = {} /\ DOMAIN oc'.marks = {}
      /\ oc'.store = [x \in {} |-> oc'.store[x]]
      /\ oc'.marks = [x \in {} |-> oc'.marks[x]]
  BY <1>1 DEF EmptyCache, Cache
<1>4. CacheInv(oc', generation, epoch, tokens) /\ DOMAIN oc'.store \cap Keys = {}
  BY <1>3 DEF CacheInv, CacheTyped, Current
<1> QED
  BY <1>1, <1>2, <1>4, InvalidateStep

(* put: the new entry's generation is larger than that of every token, so  *)
(* no outstanding refresh is current for it.                               *)
LEMMA PutStep ==
    ASSUME IInv, NEW k \in Keys, NEW size \in Sizes, Put(k, size)
    PROVE  IInv'
<1>1. /\ UNCHANGED <<now, tokens>>
      /\ epoch' = [epoch EXCEPT ![k] = @ + 1]
  BY DEF Put, Bump
<1>2. /\ epoch' \in [Keys -> Nat] /\ epoch'[k] = epoch[k] + 1 /\ epoch[k] \in Nat
      /\ \A x \in Keys \ {k} : epoch'[x] = epoch[x]
      /\ generation \in Nat /\ now \in Nat
      /\ tokens \in [Actors -> TokenType \cup {None}]
  BY <1>1 DEF IInv, StateTyped
<1>3. CASE oc' = Remove(oc, {k}) /\ UNCHANGED generation
  <2>1. CacheInv(oc', generation, epoch, tokens) /\ DOMAIN oc'.store \cap {k} = {}
    BY <1>3, RemoveShrinks, ShrinkKeepsInv DEF IInv
  <2> QED
    BY <1>1, <1>2, <1>3, <2>1, InvalidateStep
<1>4. CASE /\ oc' = Insert(Evict(Remove(oc, {k}), Charged(size), TRUE), k, Charged(size))
           /\ generation' = generation + 1
  <2> DEFINE e == Evict(Remove(oc, {k}), Charged(size), TRUE)
             new == NewEntry(k, Charged(size), generation + 1)
  <2>1. CacheInv(e, generation, epoch, tokens) /\ k \notin DOMAIN e.store
    BY RemovedThenEvicted
  <2>3. /\ oc'.store = [x \in DOMAIN e.store \cup {k} |-> IF x = k THEN new ELSE e.store[x]]
        /\ oc'.marks = e.marks
    BY <1>4 DEF Insert, Cache, With
  <2>4. new \in EntryType /\ new.gen = generation + 1 /\ new.asOf = epoch'[k]
    BY <1>2, ParameterAssumption DEF NewEntry, EntryType, Charged
  <2> HIDE DEF e, new
  <2>2. CacheInv(e, generation, epoch', tokens)
    <3>1. DOMAIN e.store \cap {k} = {}
      BY <2>1
    <3> QED
      BY <1>2, <2>1, <3>1, NewEpoch
  <2>5. CacheTyped(oc')
    BY <2>2, <2>3, <2>4 DEF CacheInv, CacheTyped
  <2>6. \A x \in DOMAIN e.store : e.store[x].gen \in Nat
    BY <2>2 DEF CacheInv, CacheTyped, EntryType
  <2>7. \A x \in DOMAIN oc'.store :
          oc'.store[x].gen <= generation' /\ oc'.store[x].asOf = epoch'[x]
    <3>1. generation' = generation + 1
      BY <1>4
    <3>2. oc'.store[k] = new /\ \A x \in DOMAIN e.store : x # k => oc'.store[x] = e.store[x]
      BY <2>3
    <3>3. \A x \in DOMAIN e.store :
            e.store[x].gen <= generation /\ e.store[x].asOf = epoch'[x]
      BY <2>2 DEF CacheInv
    <3> QED
      BY <1>2, <2>1, <2>3, <2>4, <2>6, <3>1, <3>2, <3>3
  <2>8. \A x \in DOMAIN oc'.marks :
          x \in DOMAIN oc'.store /\ oc'.marks[x] = oc'.store[x].gen
    BY <2>1, <2>2, <2>3 DEF CacheInv
  <2>9. ASSUME NEW a \in Actors, tokens[a] # None, Current(oc', tokens[a])
        PROVE  tokens[a].epoch = epoch'[tokens[a].key] /\ tokens[a].key \in DOMAIN oc'.marks
    <3>1. tokens[a].version \in Nat /\ tokens[a].version <= generation
      BY <1>2, <2>9 DEF IInv, TokenInv, TokenType
    <3>2. tokens[a].key # k
      BY <1>2, <2>3, <2>4, <2>9, <3>1 DEF Current
    <3>3. Current(e, tokens[a])
      BY <2>3, <2>9, <3>2 DEF Current
    <3> QED
      BY <2>2, <2>3, <2>9, <3>3 DEF CacheInv
  <2>10. CacheInv(oc', generation', epoch', tokens')
    BY <1>1, <2>5, <2>7, <2>8, <2>9 DEF CacheInv
  <2>11. TokenInv(generation', tokens')
    BY <1>1, <1>2, <1>4 DEF IInv, TokenInv, TokenType
  <2>12. SingleRefreshPerEntry'
    BY <1>1 DEF IInv, SingleRefreshPerEntry
  <2>13. StateTyped'
    <3>1. generation' \in Nat
      BY <1>2, <1>4
    <3>2. now' \in Nat /\ tokens' \in [Actors -> TokenType \cup {None}]
      BY <1>1, <1>2
    <3> QED
      BY <1>2, <2>5, <3>1, <3>2 DEF StateTyped, CacheTyped, Live
  <2> QED
    BY <2>10, <2>11, <2>12, <2>13 DEF IInv
<1> QED
  BY <1>3, <1>4 DEF Put

(* Every step of the cache keeps the invariant. *)
LEMMA StepInv == ASSUME IInv, [Next]_vars PROVE IInv'
<1>1. CASE Tick
  <2>1. now' \in Nat /\ UNCHANGED <<oc, generation, tokens, epoch>>
    BY <1>1 DEF Tick, IInv, StateTyped
  <2> QED
    BY <2>1, QuietStep DEF IInv
<1>2. CASE Clear
  BY <1>2, ClearStep
<1>3. ASSUME NEW k \in Keys, Get(k) \/ Delete(k)
      PROVE  IInv'
  BY <1>3, ReadStep, DeleteStep
<1>4. ASSUME NEW k \in Keys, NEW size \in Sizes, Put(k, size)
      PROVE  IInv'
  BY <1>4, PutStep
<1>5. ASSUME NEW k \in Keys, NEW a \in Actors, GetWithSwr(a, k)
      PROVE  IInv'
  BY <1>5, ReadStep, ServeStaleStep DEF GetWithSwr
<1>6. ASSUME NEW a \in Actors, CancelRefresh(a)
      PROVE  IInv'
  BY <1>6, CancelStep
<1>7. ASSUME NEW a \in Actors, NEW size \in Sizes, CompleteRefresh(a, size)
      PROVE  IInv'
  BY <1>7, CompleteStep
<1>8. CASE UNCHANGED vars
  <2>1. now' \in Nat /\ UNCHANGED <<oc, generation, tokens, epoch>>
    BY <1>8 DEF vars, IInv, StateTyped
  <2> QED
    BY <2>1, QuietStep DEF IInv
<1> QED
  BY <1>1, <1>2, <1>3, <1>4, <1>5, <1>6, <1>7, <1>8 DEF Next
--------------------------------------------------------------------------------
(* The inductive invariant holds in every state of every execution. *)
THEOREM InductiveInvariant == Spec => []IInv
<1>1. Init => IInv
  BY InitInv
<1>2. IInv /\ [Next]_vars => IInv'
  BY StepInv
<1> QED
  BY <1>1, <1>2, PTL DEF Spec

(* The dictionaries, the generation counter and the tokens keep their      *)
(* types through every method of ObjectCache.                              *)
THEOREM TypeCorrect == Spec => []StateTyped
<1>1. IInv => StateTyped
  BY DEF IInv
<1> QED
  BY <1>1, InductiveInvariant, PTL

(* The invariant the comment in ObjectCache.__init__ states: a marker      *)
(* always names the generation of the live entry of its key.               *)
THEOREM MarkersMatch == Spec => []MarkerMatchesLiveEntry
<1>1. IInv => MarkerMatchesLiveEntry
  BY DEF IInv, CacheInv, MarkerMatchesLiveEntry, Live
<1> QED
  BY <1>1, InductiveInvariant, PTL

(* A refresh that completes after an invalidation, an eviction or a        *)
(* replacement never resurrects a value (complete_refresh).                *)
THEOREM NeverResurrects == Spec => []NoResurrection
<1>1. IInv => NoResurrection
  BY DEF IInv, CacheInv, NoResurrection, Live
<1> QED
  BY <1>1, InductiveInvariant, PTL

(* Two refreshes of one entry never run at the same time (get_with_swr's   *)
(* in-flight marker).                                                      *)
THEOREM RefreshesAreSingle == Spec => []SingleRefreshPerEntry
<1>1. IInv => SingleRefreshPerEntry
  BY DEF IInv
<1> QED
  BY <1>1, InductiveInvariant, PTL

--------------------------------------------------------------------------------
(* Refinement.  By the invariant a held value is the one of the current    *)
(* epoch of its key, so a step is described by what it does to the epochs  *)
(* and by which keys are live after it.                                    *)
LEMMA HeldIsLatest ==
    ASSUME IInv
    PROVE  Held = [k \in Keys |-> IF k \in DOMAIN oc.store THEN epoch[k] ELSE None]
BY DEF IInv, CacheInv, Held, Live

(* A step that starts no epoch and adds no key is an expiry or eviction. *)
LEMMA LoseStep ==
    ASSUME IInv, IInv', UNCHANGED epoch, DOMAIN oc'.store \subseteq DOMAIN oc.store
    PROVE  Lossy!Lose
<1>1. Held = [k \in Keys |-> IF k \in DOMAIN oc.store THEN epoch[k] ELSE None]
  BY HeldIsLatest
<1>2. Held' = [k \in Keys |-> IF k \in DOMAIN oc'.store THEN epoch[k] ELSE None]
  BY DEF IInv, CacheInv, Held, Live
<1>3. \A k \in Keys : Held'[k] \in {Held[k], None}
  BY <1>1, <1>2
<1> QED
  BY <1>2, <1>3 DEF Lossy!Lose, Lossy!KeepsOrLoses

(* The methods that start no epoch add no key. *)
LEMMA NoKeyAdded ==
    ASSUME IInv,
           \/ \E k \in Keys : Get(k) \/ \E a \in Actors : GetWithSwr(a, k)
           \/ \E a \in Actors : CancelRefresh(a) \/ \E size \in Sizes : CompleteRefresh(a, size)
    PROVE  DOMAIN oc'.store \subseteq DOMAIN oc.store /\ UNCHANGED epoch
<1>1. ASSUME NEW k \in Keys, Get(k) \/ ServeFresh(k) \/ ExpireOnRead(k)
      PROVE  DOMAIN oc'.store \subseteq DOMAIN oc.store /\ UNCHANGED epoch
  <2>1. oc' = Remove(oc, {k}) \/ oc' = Touch(oc, k)
    BY <1>1 DEF Get, ServeFresh, ExpireOnRead
  <2>2. DOMAIN Remove(oc, {k}).store \subseteq DOMAIN oc.store
    BY RemoveShrinks DEF Shrinks
  <2>3. Touch(oc, k).store = oc.store
    BY DEF Touch, Cache
  <2> QED
    BY <1>1, <2>1, <2>2, <2>3 DEF Get, ServeFresh, ExpireOnRead
<1>2. ASSUME NEW k \in Keys, NEW a \in Actors, ServeStale(a, k)
      PROVE  DOMAIN oc'.store \subseteq DOMAIN oc.store /\ UNCHANGED epoch
  BY <1>2 DEF ServeStale, FlagRefresh, Cache
<1>3. ASSUME NEW a \in Actors, CancelRefresh(a)
      PROVE  DOMAIN oc'.store \subseteq DOMAIN oc.store /\ UNCHANGED epoch
  BY <1>3 DEF CancelRefresh, ReleaseMark, Cache
<1>4. ASSUME NEW a \in Actors, NEW size \in Sizes, CompleteRefresh(a, size)
      PROVE  DOMAIN oc'.store \subseteq DOMAIN oc.store /\ UNCHANGED epoch
  <2> DEFINE k == tokens[a].key
             c == ReleaseMark(oc, k, tokens[a].version)
             e == Cache(Renewed(c, k, size, tokens[a].epoch), MoveToEnd(c.order, k),
                        c.bytes + Charged(size) - c.store[k].size, c.marks)
  <2>1. c.store = oc.store /\ c.marks = [x \in DOMAIN c.marks |-> c.marks[x]]
    BY <1>4, ReleaseKeepsInv DEF CompleteRefresh, CacheInv, CacheTyped
  <2>2. CASE ~SameEntry(c, k, tokens[a].version)
    BY <1>4, <2>1, <2>2 DEF CompleteRefresh
  <2>3. CASE SameEntry(c, k, tokens[a].version) /\ TooLarge(size)
    <3>1. oc' = Remove(c, {k}) /\ UNCHANGED epoch
      BY <1>4, <2>3 DEF CompleteRefresh
    <3>2. DOMAIN Remove(c, {k}).store \subseteq DOMAIN c.store
      BY RemoveShrinks DEF Shrinks
    <3> QED
      BY <2>1, <3>1, <3>2
  <2>4. CASE SameEntry(c, k, tokens[a].version) /\ ~TooLarge(size)
    <3>1. oc' = Evict(e, 0, FALSE) /\ UNCHANGED epoch
      BY <1>4, <2>4 DEF CompleteRefresh, Land
    <3>2. /\ DOMAIN e.store = DOMAIN c.store
          /\ e.store = [x \in DOMAIN e.store |-> e.store[x]]
          /\ e.marks = c.marks
      BY <2>4 DEF SameEntry, Live, Cache, Renewed, With
    <3> HIDE DEF e
    <3>3. Shrinks(e, Evict(e, 0, FALSE))
      BY <2>1, <3>2, EvictShrinks
    <3> QED
      BY <2>1, <3>1, <3>2, <3>3 DEF Shrinks
  <2> QED
    BY <2>2, <2>3, <2>4
<1> QED
  BY <1>1, <1>2, <1>3, <1>4 DEF GetWithSwr

(* put is a write of its key. *)
LEMMA PutIsWrite ==
    ASSUME IInv, IInv', NEW k \in Keys, NEW size \in Sizes, Put(k, size)
    PROVE  Lossy!Write(k)
<1> DEFINE e == Evict(Remove(oc, {k}), Charged(size), TRUE)
<1>1. epoch' = [epoch EXCEPT ![k] = @ + 1] /\ epoch \in [Keys -> Nat]
  BY DEF Put, Bump, IInv, StateTyped
<1>2. DOMAIN Remove(oc, {k}).store \subseteq DOMAIN oc.store /\ DOMAIN e.store \subseteq DOMAIN oc.store
  BY RemovedThenEvicted DEF Shrinks
<1>3. DOMAIN oc'.store \subseteq DOMAIN oc.store \cup {k}
  <2>1. CASE oc' = Remove(oc, {k})
    BY <1>2, <2>1
  <2>2. CASE oc' = Insert(e, k, Charged(size))
    BY <1>2, <2>2 DEF Insert, Cache, With
  <2> QED
    BY <2>1, <2>2 DEF Put
<1>4. Held = [x \in Keys |-> IF x \in DOMAIN oc.store THEN epoch[x] ELSE None]
  BY HeldIsLatest
<1>5. Held' = [x \in Keys |-> IF x \in DOMAIN oc'.store THEN epoch'[x] ELSE None]
  BY DEF IInv, CacheInv, Held, Live
<1>6. Held'[k] \in {epoch[k] + 1, None} /\ \A x \in Keys \ {k} : Held'[x] \in {Held[x], None}
  BY <1>1, <1>3, <1>4, <1>5
<1> QED
  BY <1>1, <1>5, <1>6 DEF Lossy!Write, Lossy!KeepsOrLoses

(* delete and clear are invalidations. *)
LEMMA InvalidationStep ==
    ASSUME IInv, IInv', NEW S \in SUBSET Keys, DOMAIN oc'.store \subseteq DOMAIN oc.store \ S,
           epoch' = [k \in Keys |-> IF k \in S THEN epoch[k] + 1 ELSE epoch[k]]
    PROVE  Lossy!Invalidate(S)
<1>1. Held = [k \in Keys |-> IF k \in DOMAIN oc.store THEN epoch[k] ELSE None]
  BY HeldIsLatest
<1>2. Held' = [k \in Keys |-> IF k \in DOMAIN oc'.store THEN epoch'[k] ELSE None]
  BY DEF IInv, CacheInv, Held, Live
<1>3. (\A k \in S : Held'[k] = None) /\ \A k \in Keys \ S : Held'[k] \in {Held[k], None}
  BY <1>1, <1>2
<1> QED
  BY <1>2, <1>3 DEF Lossy!Invalidate, Lossy!KeepsOrLoses

(* Every step is a step of the abstract cache or leaves it unchanged. *)
LEMMA StepSimulates ==
    ASSUME IInv, IInv', [Next]_vars
    PROVE  [Lossy!Next]_<<Held, epoch>>
<1>1. CASE Tick \/ UNCHANGED vars
  BY <1>1 DEF Tick, vars, Held, Live
<1>2. CASE \/ \E k \in Keys : Get(k) \/ \E a \in Actors : GetWithSwr(a, k)
           \/ \E a \in Actors : CancelRefresh(a) \/ \E size \in Sizes : CompleteRefresh(a, size)
  <2>1. DOMAIN oc'.store \subseteq DOMAIN oc.store /\ UNCHANGED epoch
    BY <1>2, NoKeyAdded
  <2> QED
    BY <2>1, LoseStep DEF Lossy!Next
<1>3. CASE \E k \in Keys, size \in Sizes : Put(k, size)
  BY <1>3, PutIsWrite DEF Lossy!Next
<1>4. ASSUME NEW k \in Keys, Delete(k)
      PROVE  Lossy!Next
  <2>1. DOMAIN oc'.store \subseteq DOMAIN oc.store \ {k}
    BY <1>4, RemoveShrinks DEF Delete, Shrinks
  <2>2. epoch' = [x \in Keys |-> IF x \in {k} THEN epoch[x] + 1 ELSE epoch[x]]
    BY <1>4 DEF Delete, Bump, IInv, StateTyped
  <2>3. Lossy!Invalidate({k})
    BY <2>1, <2>2, InvalidationStep
  <2> QED
    BY <2>3 DEF Lossy!Next
<1>5. CASE Clear
  <2>1. DOMAIN oc'.store \subseteq DOMAIN oc.store \ Keys
    BY <1>5 DEF Clear, EmptyCache, Cache
  <2>2. epoch' = [x \in Keys |-> IF x \in Keys THEN epoch[x] + 1 ELSE epoch[x]]
    BY <1>5 DEF Clear
  <2>3. Lossy!Invalidate(Keys)
    BY <2>1, <2>2, InvalidationStep
  <2> QED
    BY <2>3 DEF Lossy!Next
<1> QED
  BY <1>1, <1>2, <1>3, <1>4, <1>5 DEF Next

(* ObjectCache implements the abstract cache: what it holds under a key is *)
(* the value of the latest write of that key, or nothing.                  *)
THEOREM ImplementsLossy == Spec => ImplementsLossyCache
<1>1. Init => Lossy!Init
  BY DEF Init, Lossy!Init, Held, Live, EmptyCache, Cache
<1>2. IInv /\ IInv' /\ [Next]_vars => [Lossy!Next]_<<Held, epoch>>
  BY StepSimulates
<1> QED
  BY <1>1, <1>2, InductiveInvariant, PTL DEF Spec, ImplementsLossyCache, Lossy!Spec, Lossy!lossyVars
--------------------------------------------------------------------------------
(* The books of the cache: the order lists each entry once and the counter *)
(* is the sum of the sizes.                                                *)
Tallied(c) ==
    /\ OnceEach(c.order, Live(c))
    /\ c.bytes = SumFunctionOnSet(SizeOf(c), Live(c))

(* The bounds as _evict sees them. *)
Bounded(c) ==
    /\ MaxEntries # None => Cardinality(Live(c)) <= MaxEntries
    /\ MaxBytes # None => c.bytes <= MaxBytes

(* Sizes are natural numbers, and a tallied cache is finite. *)
LEMMA TalliedFinite ==
    ASSUME NEW c, CacheTyped(c), Tallied(c)
    PROVE  /\ IsFiniteSet(Live(c)) /\ Cardinality(Live(c)) \in Nat
           /\ \A k \in Live(c) : SizeOf(c)[k] \in Nat /\ SizeOf(c)[k] = c.store[k].size
           /\ DOMAIN SizeOf(c) = Live(c)
           /\ c.bytes \in Nat
<1>1. IsFiniteSet(Live(c)) /\ Cardinality(Live(c)) \in Nat
  BY OnceFinite, FS_CardinalityType DEF Tallied
<1>2. /\ \A k \in Live(c) : SizeOf(c)[k] \in Nat /\ SizeOf(c)[k] = c.store[k].size
      /\ DOMAIN SizeOf(c) = Live(c)
  BY DEF SizeOf, Live, CacheTyped, EntryType
<1>3. c.bytes \in Nat
  BY <1>1, <1>2, SumNat DEF Tallied
<1> QED
  BY <1>1, <1>2, <1>3

(* _remove counts out exactly what it takes out. *)
LEMMA RemoveTallied ==
    ASSUME NEW c, CacheTyped(c), Tallied(c), NEW S
    PROVE  /\ CacheTyped(Remove(c, S)) /\ Tallied(Remove(c, S))
           /\ Live(Remove(c, S)) = Live(c) \ S
           /\ \A k \in Live(c) \ S : Remove(c, S).store[k] = c.store[k]
           /\ Cardinality(Live(Remove(c, S))) <= Cardinality(Live(c))
           /\ Remove(c, S).bytes <= c.bytes
           /\ Remove(c, S).order = Without(c.order, S)
<1> DEFINE d == Remove(c, S)
           out == S \cap Live(c)
<1>1. /\ d.store = [x \in Live(c) \ S |-> c.store[x]]
      /\ d.marks = [x \in DOMAIN c.marks \ S |-> c.marks[x]]
      /\ d.order = Without(c.order, S)
      /\ d.bytes = c.bytes - SumFunctionOnSet(SizeOf(c), out)
  BY DEF Remove, Restrict, Cache
<1> HIDE DEF d
<1>2. Live(d) = Live(c) \ S /\ Live(c) \ out = Live(d) /\ out \in SUBSET Live(c)
  BY <1>1 DEF Live
<1>3. CacheTyped(d)
  BY <1>1 DEF CacheTyped, Live
<1>4. OnceEach(d.order, Live(d))
  BY <1>1, <1>2, WithoutKeepsOrder DEF Tallied
<1>5. /\ IsFiniteSet(Live(c)) /\ \A k \in Live(c) : SizeOf(c)[k] \in Nat
      /\ c.bytes \in Nat
  BY TalliedFinite
<1>6. IsFiniteSet(Live(d)) /\ Cardinality(Live(d)) <= Cardinality(Live(c))
  BY <1>2, <1>5, FS_Subset
<1>7. c.bytes = SumFunctionOnSet(SizeOf(c), out) + SumFunctionOnSet(SizeOf(c), Live(d))
  BY <1>2, <1>5, SumSplit DEF Tallied
<1>8. SumFunctionOnSet(SizeOf(c), out) \in Nat /\ SumFunctionOnSet(SizeOf(c), Live(d)) \in Nat
  BY <1>2, <1>5, SumNat
<1>9. SumFunctionOnSet(SizeOf(d), Live(d)) = SumFunctionOnSet(SizeOf(c), Live(d))
  <2>1. \A k \in Live(d) : SizeOf(d)[k] = SizeOf(c)[k] /\ SizeOf(c)[k] \in Int
    BY <1>1, <1>2, <1>5 DEF SizeOf
  <2> QED BY <1>6, <2>1, SumCongruence
<1>10. d.bytes = SumFunctionOnSet(SizeOf(d), Live(d)) /\ d.bytes <= c.bytes
  BY <1>1, <1>5, <1>7, <1>8, <1>9
<1>11. \A k \in Live(c) \ S : d.store[k] = c.store[k]
  BY <1>1
<1> QED
  BY <1>1, <1>2, <1>3, <1>4, <1>6, <1>10, <1>11 DEF Tallied, d

(* The entries of a cache that holds nothing weigh nothing. *)
LEMMA EmptyTally ==
    ASSUME NEW c, CacheTyped(c), Tallied(c), Live(c) = {}
    PROVE  c.bytes = 0 /\ Cardinality(Live(c)) = 0
<1>1. SumFunctionOnSet(SizeOf(c), {}) = 0
  BY TalliedFinite, SumType
<1> QED
  BY <1>1, FS_EmptySet DEF Tallied

(* _evict stops with room for what is to be written: it drops entries until *)
(* the write fits, and a cache it has emptied takes any value put() and     *)
(* complete_refresh() still want to write.                                  *)
LEMMA EvictFits ==
    ASSUME NEW c, CacheTyped(c), Tallied(c), NEW x \in Nat, NEW needSlot \in BOOLEAN,
           MaxBytes # None => x <= MaxBytes
    PROVE  /\ CacheTyped(Evict(c, x, needSlot)) /\ Tallied(Evict(c, x, needSlot))
           /\ Live(Evict(c, x, needSlot)) \subseteq Live(c)
           /\ Cardinality(Live(Evict(c, x, needSlot))) <= Cardinality(Live(c))
           /\ ~OverBounds(Evict(c, x, needSlot), x, needSlot)
<1>1. CASE ~OverBounds(c, x, needSlot)
  <2>1. Evict(c, x, needSlot) = c
    BY <1>1 DEF Evict
  <2> QED BY <1>1, <2>1, TalliedFinite
<1>2. CASE OverBounds(c, x, needSlot)
  <2> DEFINE swept == Remove(c, {k \in Live(c) : IsExpired(c, k)})
             n == Len(swept.order)
             Fits(i) == ~OverBounds(Remove(swept, Oldest(swept, i)), x, needSlot)
             W == {i \in 0..n : Fits(i)} \cup {n}
             v == Min(W)
             d == Remove(swept, Oldest(swept, v))
  <2>1. Evict(c, x, needSlot) = d
    BY <1>2 DEF Evict
  <2>2. /\ CacheTyped(swept) /\ Tallied(swept) /\ Live(swept) \subseteq Live(c)
        /\ Cardinality(Live(swept)) <= Cardinality(Live(c))
    BY RemoveTallied
  <2> HIDE DEF swept
  <2>3. n \in Nat /\ DOMAIN swept.order = 1..n
    BY <2>2 DEF Tallied, OnceEach
  <2>4. v \in W
    <3>1. W \in SUBSET (0..n) /\ n \in W
      BY <2>3
    <3> HIDE DEF W, n
    <3> QED BY <2>3, <3>1, MinInRange
  <2>5. /\ CacheTyped(d) /\ Tallied(d) /\ Live(d) = Live(swept) \ Oldest(swept, v)
        /\ Cardinality(Live(d)) <= Cardinality(Live(swept))
    BY <2>2, RemoveTallied
  <2>6. ~OverBounds(d, x, needSlot)
    <3>1. CASE Fits(v)
      BY <3>1
    <3>2. CASE v = n
      <4>1. Oldest(swept, n) = Live(swept)
        BY <2>2, <2>3 DEF Oldest, Tallied, OnceEach
      <4>2. Live(d) = {}
        BY <2>5, <3>2, <4>1
      <4> HIDE DEF d
      <4>3. d.bytes = 0 /\ Cardinality(Live(d)) = 0
        BY <2>5, <4>2, EmptyTally
      <4> QED BY <4>3, BoundsAssumption DEF OverBounds
    <3> HIDE DEF v
    <3> QED BY <2>4, <3>1, <3>2
  <2> HIDE DEF d
  <2>7. Cardinality(Live(d)) <= Cardinality(Live(c))
    <3>1. Cardinality(Live(d)) \in Nat
      BY <2>5, TalliedFinite
    <3>2. Cardinality(Live(swept)) \in Nat
      BY <2>2, TalliedFinite
    <3>3. Cardinality(Live(c)) \in Nat
      BY TalliedFinite
    <3> QED BY <2>2, <2>5, <3>1, <3>2, <3>3
  <2> QED BY <2>1, <2>2, <2>5, <2>6, <2>7
<1> QED
  BY <1>1, <1>2

(* A smaller cache is within the bounds if the larger one is. *)
LEMMA RemoveBounded ==
    ASSUME NEW c, CacheTyped(c), Tallied(c), Bounded(c), NEW S
    PROVE  Bounded(Remove(c, S))
<1> DEFINE d == Remove(c, S)
<1>1. /\ CacheTyped(d) /\ Tallied(d) /\ d.bytes <= c.bytes
      /\ Cardinality(Live(d)) <= Cardinality(Live(c))
  BY RemoveTallied
<1> HIDE DEF d
<1>2. d.bytes \in Nat /\ Cardinality(Live(d)) \in Nat
  BY <1>1, TalliedFinite
<1>3. c.bytes \in Nat /\ Cardinality(Live(c)) \in Nat
  BY TalliedFinite
<1>4. Bounded(d)
  BY <1>1, <1>2, <1>3, BoundsAssumption DEF Bounded
<1> QED
  BY <1>4 DEF d

(* Changes of order and markers only. *)
LEMMA SameBooks ==
    ASSUME NEW c, NEW d, Tallied(c), Bounded(c), d.store = c.store, d.bytes = c.bytes,
           OnceEach(d.order, Live(c))
    PROVE  Tallied(d) /\ Bounded(d)
<1>1. Live(d) = Live(c) /\ SizeOf(d) = SizeOf(c)
  BY DEF Live, SizeOf
<1> QED
  BY <1>1 DEF Tallied, Bounded

(* put's last step: the new entry is counted in. *)
LEMMA InsertTallied ==
    ASSUME NEW c, CacheTyped(c), Tallied(c), NEW k \in Keys, k \notin Live(c), NEW size \in Nat,
           ~OverBounds(c, size, TRUE)
    PROVE  Tallied(Insert(c, k, size)) /\ Bounded(Insert(c, k, size))
<1> DEFINE d == Insert(c, k, size)
<1>1. /\ d.store = [x \in Live(c) \cup {k} |->
                      IF x = k THEN NewEntry(k, size, generation + 1) ELSE c.store[x]]
      /\ d.order = Append(c.order, k)
      /\ d.bytes = c.bytes + size
  BY DEF Insert, Cache, With, Live
<1> HIDE DEF d
<1>2. /\ Live(d) = Live(c) \cup {k} /\ Live(d) \ {k} = Live(c)
      /\ SizeOf(d)[k] = size /\ \A x \in Live(c) : SizeOf(d)[x] = SizeOf(c)[x]
  BY <1>1 DEF Live, SizeOf, NewEntry
<1>3. /\ IsFiniteSet(Live(c)) /\ \A x \in Live(c) : SizeOf(c)[x] \in Nat
      /\ c.bytes \in Nat /\ Cardinality(Live(c)) \in Nat
  BY TalliedFinite
<1>4. OnceEach(d.order, Live(d))
  BY <1>1, <1>2, AppendOnce DEF Tallied
<1>5. IsFiniteSet(Live(d)) /\ Cardinality(Live(d)) = Cardinality(Live(c)) + 1
  <2>1. /\ IsFiniteSet(Live(c) \cup {k})
        /\ Cardinality(Live(c) \cup {k}) =
             IF k \in Live(c) THEN Cardinality(Live(c)) ELSE Cardinality(Live(c)) + 1
    BY <1>3, FS_AddElement
  <2> QED BY <1>2, <2>1
<1>6. SumFunctionOnSet(SizeOf(d), Live(d)) = size + SumFunctionOnSet(SizeOf(d), Live(c))
  <2>1. k \in Live(d) /\ \A x \in Live(d) : SizeOf(d)[x] \in Int
    BY <1>2, <1>3
  <2>2. SumFunctionOnSet(SizeOf(d), Live(d)) = SizeOf(d)[k] + SumFunctionOnSet(SizeOf(d), Live(d) \ {k})
    BY <1>5, <2>1, SumRemove
  <2> QED BY <1>2, <2>2
<1>7. SumFunctionOnSet(SizeOf(d), Live(c)) = SumFunctionOnSet(SizeOf(c), Live(c))
  <2>1. \A x \in Live(c) : SizeOf(c)[x] \in Int /\ SizeOf(d)[x] = SizeOf(c)[x]
    BY <1>2, <1>3
  <2> QED BY <1>3, <2>1, SumCongruence
<1>8. d.bytes = SumFunctionOnSet(SizeOf(d), Live(d))
  BY <1>1, <1>3, <1>6, <1>7 DEF Tallied
<1>9. Bounded(d)
  BY <1>1, <1>3, <1>5, BoundsAssumption DEF Bounded, OverBounds
<1> QED
  BY <1>4, <1>8, <1>9 DEF Tallied, d

(* complete_refresh: the new size replaces the old one in the sum, *)
LEMMA RenewTallied ==
    ASSUME NEW c, CacheTyped(c), Tallied(c), NEW k \in Live(c),
           NEW size \in Sizes, NEW began \in Nat, now \in Nat
    PROVE  LET d == Cache(Renewed(c, k, size, began), MoveToEnd(c.order, k),
                          c.bytes + Charged(size) - c.store[k].size, c.marks)
           IN  CacheTyped(d) /\ Tallied(d) /\ Live(d) = Live(c)
<1> DEFINE d == Cache(Renewed(c, k, size, began), MoveToEnd(c.order, k),
                      c.bytes + Charged(size) - c.store[k].size, c.marks)
           new == [expires |-> now + Ttl, cached |-> now, size |-> Charged(size),
                   gen |-> c.store[k].gen, asOf |-> began]
<1>1. /\ d.store = [x \in Live(c) |-> IF x = k THEN new ELSE c.store[x]]
      /\ d.order = MoveToEnd(c.order, k) /\ d.marks = c.marks
      /\ d.bytes = c.bytes + Charged(size) - c.store[k].size
  BY DEF Renewed, With, Live, Cache
<1>2. Charged(size) \in Nat /\ c.store[k] \in EntryType
  BY ParameterAssumption DEF Charged, CacheTyped, Live
<1>3. new \in EntryType /\ new.size = Charged(size)
  BY <1>2, ParameterAssumption DEF EntryType
<1> HIDE DEF d, new
<1>4. CacheTyped(d)
  BY <1>1, <1>3 DEF CacheTyped, Live
<1>5. /\ Live(d) = Live(c) /\ SizeOf(d)[k] = Charged(size) /\ SizeOf(c)[k] = c.store[k].size
      /\ \A x \in Live(c) \ {k} : SizeOf(d)[x] = SizeOf(c)[x]
  BY <1>1, <1>3 DEF Live, SizeOf
<1>6. /\ IsFiniteSet(Live(c)) /\ \A x \in Live(c) : SizeOf(c)[x] \in Nat
      /\ c.bytes \in Nat /\ Cardinality(Live(c)) \in Nat
  BY TalliedFinite
<1>7. OnceEach(d.order, Live(d))
  BY <1>1, <1>5, MoveOnce DEF Tallied
<1>8. SumFunctionOnSet(SizeOf(c), Live(c)) = SizeOf(c)[k] + SumFunctionOnSet(SizeOf(c), Live(c) \ {k})
  <2>1. \A x \in Live(c) : SizeOf(c)[x] \in Int
    BY <1>6
  <2> QED BY <1>6, <2>1, SumRemove
<1>9. SumFunctionOnSet(SizeOf(d), Live(c)) = SizeOf(d)[k] + SumFunctionOnSet(SizeOf(d), Live(c) \ {k})
  <2>1. \A x \in Live(c) : SizeOf(d)[x] \in Int
    BY <1>2, <1>5, <1>6
  <2> QED BY <1>6, <2>1, SumRemove
<1>10. /\ SumFunctionOnSet(SizeOf(d), Live(c) \ {k}) = SumFunctionOnSet(SizeOf(c), Live(c) \ {k})
       /\ SumFunctionOnSet(SizeOf(c), Live(c) \ {k}) \in Int
  <2>1. IsFiniteSet(Live(c) \ {k})
    BY <1>6, FS_RemoveElement
  <2>2. \A x \in Live(c) \ {k} : SizeOf(c)[x] \in Int /\ SizeOf(d)[x] = SizeOf(c)[x]
    BY <1>5, <1>6
  <2> QED BY <2>1, <2>2, SumCongruence, SumType
<1>11. d.bytes = SumFunctionOnSet(SizeOf(d), Live(d))
  BY <1>1, <1>2, <1>5, <1>6, <1>8, <1>9, <1>10 DEF Tallied
<1>12. Tallied(d)
  BY <1>7, <1>11 DEF Tallied
<1> QED
  BY <1>4, <1>5, <1>12 DEF d

(* and entries go until the total fits again. *)
LEMMA LandTallied ==
    ASSUME NEW c, CacheTyped(c), Tallied(c), Bounded(c), NEW k \in Live(c),
           NEW size \in Sizes, NEW began \in Nat, now \in Nat
    PROVE  Tallied(Land(c, k, size, began)) /\ Bounded(Land(c, k, size, began))
<1> DEFINE d == Cache(Renewed(c, k, size, began), MoveToEnd(c.order, k),
                      c.bytes + Charged(size) - c.store[k].size, c.marks)
           e == Evict(d, 0, FALSE)
<1>1. CacheTyped(d) /\ Tallied(d) /\ Live(d) = Live(c)
  BY RenewTallied
<1>2. Land(c, k, size, began) = e
  BY DEF Land
<1> HIDE DEF d
<1>3. /\ CacheTyped(e) /\ Tallied(e) /\ ~OverBounds(e, 0, FALSE)
      /\ Cardinality(Live(e)) <= Cardinality(Live(d))
  <2>1. MaxBytes # None => 0 <= MaxBytes
    BY BoundsAssumption
  <2> QED BY <1>1, <2>1, EvictFits
<1> HIDE DEF e
<1>4. e.bytes \in Nat /\ Cardinality(Live(e)) \in Nat /\ Cardinality(Live(c)) \in Nat
  BY <1>3, TalliedFinite
<1>5. Bounded(e)
  BY <1>1, <1>3, <1>4, BoundsAssumption DEF Bounded, OverBounds
<1> QED
  BY <1>2, <1>3, <1>5

(* Every method keeps the books, and the cache within its bounds: the reads, *)
LEMMA ReadBooks ==
    ASSUME IInv, Tallied(oc), Bounded(oc), NEW k \in Keys,
           \/ Get(k) \/ ServeFresh(k) \/ ExpireOnRead(k)
           \/ \E a \in Actors : ServeStale(a, k)
    PROVE  Tallied(oc') /\ Bounded(oc')
<1>1. CacheTyped(oc)
  BY DEF IInv, CacheInv
<1>2. CASE oc' = Remove(oc, {k})
  BY <1>1, <1>2, RemoveTallied, RemoveBounded
<1>3. CASE /\ k \in Live(oc) /\ oc'.store = oc.store /\ oc'.bytes = oc.bytes
           /\ oc'.order = MoveToEnd(oc.order, k)
  BY <1>3, MoveOnce, SameBooks DEF Tallied
<1> QED
  BY <1>2, <1>3 DEF Get, ServeFresh, ExpireOnRead, ServeStale, Hit, Touch, FlagRefresh, Cache

(* the two ends of a refresh,                                               *)
LEMMA RefreshBooks ==
    ASSUME IInv, Tallied(oc), Bounded(oc), NEW a \in Actors,
           CancelRefresh(a) \/ \E size \in Sizes : CompleteRefresh(a, size)
    PROVE  Tallied(oc') /\ Bounded(oc')
<1> DEFINE k == tokens[a].key
           c == ReleaseMark(oc, k, tokens[a].version)
<1>1. tokens[a] # None /\ tokens[a] \in TokenType /\ now \in Nat
  BY DEF CancelRefresh, CompleteRefresh, IInv, StateTyped
<1>2. CacheTyped(c) /\ c.store = oc.store
  BY <1>1, ReleaseKeepsInv DEF CacheInv
<1>3. c.order = oc.order /\ c.bytes = oc.bytes
  BY DEF ReleaseMark, Cache
<1>4. oc' = c \/ \E size \in Sizes : CompleteRefresh(a, size)
  BY DEF CancelRefresh
<1> HIDE DEF c
<1>5. Tallied(c) /\ Bounded(c)
  BY <1>2, <1>3, SameBooks DEF Tallied
<1>6. ASSUME NEW size \in Sizes, CompleteRefresh(a, size)
      PROVE  Tallied(oc') /\ Bounded(oc')
  <2>1. oc' = IF ~SameEntry(c, k, tokens[a].version) THEN c
              ELSE IF TooLarge(size) THEN Remove(c, {k})
              ELSE Land(c, k, size, tokens[a].epoch)
    BY <1>6 DEF CompleteRefresh, c
  <2>2. CASE oc' = c
    BY <1>5, <2>2
  <2>3. CASE oc' = Remove(c, {k})
    BY <1>2, <1>5, <2>3, RemoveTallied, RemoveBounded
  <2>4. CASE /\ SameEntry(c, k, tokens[a].version) /\ ~TooLarge(size)
             /\ oc' = Land(c, k, size, tokens[a].epoch)
    <3>1. k \in Live(c) /\ tokens[a].epoch \in Nat
      BY <1>1, <2>4 DEF SameEntry, TokenType
    <3> QED
      BY <1>1, <1>2, <1>5, <2>4, <3>1, LandTallied
  <2> QED
    BY <2>1, <2>2, <2>3, <2>4
<1> QED
  BY <1>4, <1>5, <1>6

(* put, which makes room before it inserts,                                 *)
LEMMA PutBooks ==
    ASSUME IInv, Tallied(oc), Bounded(oc), NEW k \in Keys, NEW size \in Sizes, Put(k, size)
    PROVE  Tallied(oc') /\ Bounded(oc')
<1> DEFINE c == Remove(oc, {k})
           e == Evict(c, Charged(size), TRUE)
<1>1. CacheTyped(oc)
  BY DEF IInv, CacheInv
<1>2. CacheTyped(c) /\ Tallied(c) /\ Bounded(c) /\ Live(c) = Live(oc) \ {k}
  BY <1>1, RemoveTallied, RemoveBounded
<1>3. CASE oc' = c
  BY <1>2, <1>3
<1>4. CASE ~TooLarge(size) /\ oc' = Insert(e, k, Charged(size))
  <2>1. Charged(size) \in Nat /\ (MaxBytes # None => Charged(size) <= MaxBytes)
    BY <1>4, ParameterAssumption, BoundsAssumption DEF Charged, TooLarge
  <2>2. /\ CacheTyped(e) /\ Tallied(e) /\ ~OverBounds(e, Charged(size), TRUE)
        /\ Live(e) \subseteq Live(c)
    <3> HIDE DEF c
    <3> QED BY <1>2, <2>1, EvictFits
  <2> HIDE DEF e
  <2>3. k \notin Live(e)
    BY <1>2, <2>2
  <2> QED
    BY <1>4, <2>1, <2>2, <2>3, InsertTallied
<1> QED
  BY <1>3, <1>4 DEF Put

(* and the invalidation of any set of keys.                                 *)
LEMMA RemoveBooks ==
    ASSUME IInv, Tallied(oc), Bounded(oc), NEW S, oc' = Remove(oc, S) \/ oc' = EmptyCache
    PROVE  Tallied(oc') /\ Bounded(oc')
<1>1. CacheTyped(oc)
  BY DEF IInv, CacheInv
<1>2. CASE oc' = Remove(oc, S)
  BY <1>1, <1>2, RemoveTallied, RemoveBounded
<1>3. CASE oc' = EmptyCache
  <2>1. Live(oc') = {} /\ oc'.order = <<>> /\ oc'.bytes = 0
    BY <1>3 DEF EmptyCache, Cache, Live
  <2>2. SumFunctionOnSet(SizeOf(oc'), {}) = 0 /\ Cardinality({}) = 0
    BY SumType, FS_EmptySet
  <2>3. OnceEach(<<>>, {})
    BY DEF OnceEach
  <2> QED
    BY <2>1, <2>2, <2>3, BoundsAssumption DEF Tallied, Bounded
<1> QED
  BY <1>2, <1>3

(* The whole invariant: refreshes, books and bounds. *)
BooksInv == IInv /\ Tallied(oc) /\ Bounded(oc)

(* Every step of the cache keeps all of it. *)
LEMMA BooksStep == ASSUME BooksInv, [Next]_vars PROVE BooksInv'
<1>1. IInv /\ Tallied(oc) /\ Bounded(oc) /\ IInv'
  BY StepInv DEF BooksInv
<1>2. Tick \/ UNCHANGED vars => Tallied(oc') /\ Bounded(oc')
  BY <1>1 DEF Tick, vars
<1>3. Clear => Tallied(oc') /\ Bounded(oc')
  BY <1>1, RemoveBooks DEF Clear
<1>4. ASSUME NEW k \in Keys, Get(k) \/ Delete(k)
      PROVE  Tallied(oc') /\ Bounded(oc')
  BY <1>1, <1>4, ReadBooks, RemoveBooks DEF Delete
<1>5. ASSUME NEW k \in Keys, NEW size \in Sizes, Put(k, size)
      PROVE  Tallied(oc') /\ Bounded(oc')
  BY <1>1, <1>5, PutBooks
<1>6. ASSUME NEW k \in Keys, NEW a \in Actors, GetWithSwr(a, k)
      PROVE  Tallied(oc') /\ Bounded(oc')
  BY <1>1, <1>6, ReadBooks DEF GetWithSwr
<1>7. ASSUME NEW a \in Actors, CancelRefresh(a) \/ \E size \in Sizes : CompleteRefresh(a, size)
      PROVE  Tallied(oc') /\ Bounded(oc')
  BY <1>1, <1>7, RefreshBooks
<1>8. Tallied(oc') /\ Bounded(oc')
  BY <1>1, <1>2, <1>3, <1>4, <1>5, <1>6, <1>7 DEF Next
<1> QED
  BY <1>1, <1>8 DEF BooksInv

(* It holds initially. *)
LEMMA BooksInit == ASSUME Init PROVE BooksInv
<1>1. IInv
  BY InitInv
<1>2. Live(oc) = {} /\ oc.order = <<>> /\ oc.bytes = 0
  BY DEF Init, EmptyCache, Cache, Live
<1>3. SumFunctionOnSet(SizeOf(oc), {}) = 0 /\ Cardinality({}) = 0
  BY SumType, FS_EmptySet
<1>4. OnceEach(<<>>, {})
  BY DEF OnceEach
<1> QED
  BY <1>1, <1>2, <1>3, <1>4, BoundsAssumption DEF BooksInv, Tallied, Bounded

(* The books imply what is checked: an order as long as the store is large, *)
(* an exact counter, and bounds that hold of what is really stored.         *)
LEMMA BooksSuffice == ASSUME BooksInv PROVE BytesAccounted
<1>1. StateTyped /\ CacheTyped(oc) /\ Tallied(oc) /\ Bounded(oc)
  BY DEF BooksInv, IInv, CacheInv
<1>2. IsFiniteSet(Live(oc)) /\ oc.bytes \in Nat /\ DOMAIN SizeOf(oc) = Live(oc)
  BY <1>1, TalliedFinite
<1>3. OrderListsLive
  <2>1. Len(oc.order) = Cardinality(Live(oc))
    BY <1>1, OnceFinite DEF Tallied
  <2>2. oc.order \in Seq(Keys)
    BY <1>1 DEF Tallied, OnceEach, StateTyped
  <2> QED BY <1>1, <2>1, <2>2 DEF OrderListsLive, Tallied, OnceEach
<1>4. oc.bytes = SumFunction(SizeOf(oc))
  BY <1>1, <1>2 DEF Tallied, SumFunction
<1> QED
  BY <1>1, <1>2, <1>3, <1>4 DEF BytesAccounted, TypeOK, AccountingExact, WithinBounds, Bounded

(* The byte counter is exact, the order lists every entry once, and neither *)
(* bound of the object cache is ever exceeded, by refreshed values that     *)
(* grew either (put, complete_refresh, _evict, _remove).                    *)
THEOREM BytesAreAccounted == Spec => []BytesAccounted
<1>1. Init => BooksInv
  BY BooksInit
<1>2. BooksInv /\ [Next]_vars => BooksInv'
  BY BooksStep
<1>3. BooksInv => BytesAccounted
  BY BooksSuffice
<1> QED
  BY <1>1, <1>2, <1>3, PTL DEF Spec
--------------------------------------------------------------------------------
(* Eviction and recency.  An order that was kept in taking keys out was    *)
(* the order before.                                                       *)
LEMMA BeforeKept ==
    ASSUME NEW c, CacheTyped(c), Tallied(c), NEW S, NEW i, NEW j,
           Precedes(Remove(c, S).order, j, i)
    PROVE  Precedes(c.order, j, i)
<1>1. OnceEach(c.order, Live(c)) /\ Remove(c, S).order = Without(c.order, S)
  BY RemoveTallied DEF Tallied
<1> QED
  BY <1>1, WithoutKeepsOrder

(* What _evict takes is expired, or older than all that stays, of which    *)
(* then nothing is expired.                                                *)
LEMMA EvictTakesOldest ==
    ASSUME NEW c, CacheTyped(c), Tallied(c), NEW x \in Nat, NEW needSlot \in BOOLEAN,
           NEW j \in Live(c) \ Live(Evict(c, x, needSlot)), ~IsExpired(c, j),
           NEW i \in Live(Evict(c, x, needSlot))
    PROVE  ~IsExpired(c, i) /\ Precedes(c.order, j, i)
<1> DEFINE expired == {k \in Live(c) : IsExpired(c, k)}
           swept == Remove(c, expired)
           n == Len(swept.order)
           Fits(m) == ~OverBounds(Remove(swept, Oldest(swept, m)), x, needSlot)
           W == {m \in 0..n : Fits(m)} \cup {n}
           v == Min(W)
<1>1. Evict(c, x, needSlot) = Remove(swept, Oldest(swept, v))
  BY DEF Evict
<1>2. CacheTyped(swept) /\ Tallied(swept) /\ Live(swept) = Live(c) \ expired
  BY RemoveTallied
<1>3. j \in Live(swept)
  BY <1>2
<1> HIDE DEF swept
<1>4. v \in 0..n
  <2>1. n \in Nat
    BY <1>2 DEF Tallied, OnceEach
  <2>2. W \in SUBSET (0..n) /\ n \in W
    BY <2>1
  <2> HIDE DEF W, n
  <2> QED BY <2>1, <2>2, MinInRange
<1> HIDE DEF v
<1>5. Live(Remove(swept, Oldest(swept, v))) = Live(swept) \ Oldest(swept, v)
  BY <1>2, RemoveTallied
<1>6. i \in Live(swept) /\ i \notin Oldest(swept, v) /\ j \in Oldest(swept, v)
  BY <1>1, <1>3, <1>5
<1>7. Precedes(swept.order, j, i)
  BY <1>2, <1>4, <1>6, OldestFirst DEF Oldest, Tallied
<1>8. Precedes(c.order, j, i)
  BY <1>7, BeforeKept DEF swept
<1>9. ~IsExpired(c, i)
  BY <1>2, <1>6
<1> QED
  BY <1>8, <1>9

(* put pushes out expired entries and otherwise the least recently used.   *)
LEMMA PutTakesOldest ==
    ASSUME BooksInv, NEW k \in Keys, NEW size \in Sizes, Put(k, size),
           NEW j \in Live(oc) \ (DOMAIN oc'.store \cup {k}), ~IsExpired(oc, j),
           NEW i \in DOMAIN oc'.store \ {k}
    PROVE  ~IsExpired(oc, i) /\ Precedes(oc.order, j, i)
<1> DEFINE c == Remove(oc, {k})
           e == Evict(c, Charged(size), TRUE)
<1>1. CacheTyped(oc) /\ Tallied(oc)
  BY DEF BooksInv, IInv, CacheInv
<1>2. /\ CacheTyped(c) /\ Tallied(c) /\ Live(c) = Live(oc) \ {k}
      /\ \A x \in Live(oc) \ {k} : c.store[x] = oc.store[x]
  BY <1>1, RemoveTallied
<1>3. ~(oc' = c)
  BY <1>2 DEF Live
<1>4. oc' = Insert(e, k, Charged(size)) /\ ~TooLarge(size)
  BY <1>3 DEF Put
<1>5. DOMAIN oc'.store = Live(e) \cup {k}
  BY <1>4 DEF Insert, Cache, With, Live
<1>6. Charged(size) \in Nat
  BY ParameterAssumption DEF Charged
<1>7. Live(e) \subseteq Live(c)
  <2>1. MaxBytes # None => Charged(size) <= MaxBytes
    BY <1>4, ParameterAssumption, BoundsAssumption DEF Charged, TooLarge
  <2> HIDE DEF c
  <2> QED BY <1>2, <1>6, <2>1, EvictFits
<1>8. j \in Live(c) \ Live(e) /\ i \in Live(e)
  BY <1>2, <1>5
<1>9. ~IsExpired(c, j)
  BY <1>2 DEF IsExpired
<1>10. ~IsExpired(c, i) /\ Precedes(c.order, j, i)
  <2> HIDE DEF c
  <2> QED BY <1>2, <1>6, <1>8, <1>9, EvictTakesOldest
<1>11. ~IsExpired(oc, i)
  BY <1>2, <1>7, <1>8, <1>10 DEF IsExpired
<1> QED
  BY <1>1, <1>10, <1>11, BeforeKept

(* _evict leaves a fresh entry at the end of the order alone, if the entry *)
(* by itself fits: what is older goes first.                               *)
LEMMA EvictSparesLast ==
    ASSUME NEW c, CacheTyped(c), Tallied(c), Len(c.order) # 0, NEW k, c.order[Len(c.order)] = k,
           ~IsExpired(c, k), MaxBytes # None => c.store[k].size <= MaxBytes
    PROVE  LET e == Evict(c, 0, FALSE)
           IN  k \in Live(e) /\ e.store[k] = c.store[k] /\ e.order[Len(e.order)] = k
<1>1. CASE ~OverBounds(c, 0, FALSE)
  <2>1. Evict(c, 0, FALSE) = c
    BY <1>1 DEF Evict
  <2>2. k \in Live(c)
    BY DEF Tallied, OnceEach
  <2> QED BY <2>1, <2>2
<1>2. CASE OverBounds(c, 0, FALSE)
  <2> DEFINE expired == {x \in Live(c) : IsExpired(c, x)}
             swept == Remove(c, expired)
             n == Len(swept.order)
             Fits(m) == ~OverBounds(Remove(swept, Oldest(swept, m)), 0, FALSE)
             W == {m \in 0..n : Fits(m)} \cup {n}
             v == Min(W)
             d == Remove(swept, Oldest(swept, v))
  <2>1. Evict(c, 0, FALSE) = d
    BY <1>2 DEF Evict
  <2>2. /\ CacheTyped(swept) /\ Tallied(swept) /\ Live(swept) = Live(c) \ expired
        /\ \A x \in Live(c) \ expired : swept.store[x] = c.store[x]
        /\ swept.order = Without(c.order, expired)
    BY RemoveTallied
  <2>3. n # 0 /\ swept.order[n] = k
    BY <2>2, LastStays DEF Tallied
  <2> HIDE DEF swept
  <2>4. n \in Nat /\ DOMAIN swept.order = 1..n /\ k \in Live(swept)
    BY <2>2, <2>3 DEF Tallied, OnceEach
  <2>5. Fits(n - 1)
    <3> DEFINE o == Oldest(swept, n - 1)
               r == Remove(swept, o)
    <3>1. o = Live(swept) \ {k}
      <4>1. OnceEach(swept.order, Live(swept)) /\ Len(swept.order) # 0
        BY <2>2, <2>3 DEF Tallied
      <4>2. {swept.order[m] : m \in 1..(n - 1)} = Live(swept) \ {swept.order[n]}
        BY <4>1, AllButLast
      <4> QED BY <2>3, <4>2 DEF Oldest
    <3>2. /\ CacheTyped(r) /\ Tallied(r) /\ Live(r) = Live(swept) \ o
          /\ \A x \in Live(swept) \ o : r.store[x] = swept.store[x]
      BY <2>2, RemoveTallied
    <3> HIDE DEF o, r
    <3>3. Live(r) = {k} /\ r.store[k] = c.store[k]
      BY <2>2, <2>4, <3>1, <3>2
    <3>4. r.bytes = c.store[k].size
      <4>0. /\ IsFiniteSet(Live(r)) /\ r.bytes = SumFunctionOnSet(SizeOf(r), Live(r))
            /\ \A x \in Live(r) : SizeOf(r)[x] \in Nat /\ SizeOf(r)[x] = r.store[x].size
        BY <3>2, TalliedFinite DEF Tallied
      <4>1. (\A x \in Live(r) : SizeOf(r)[x] \in Int) /\ SizeOf(r)[k] = c.store[k].size
        BY <3>3, <4>0
      <4>2. SumFunctionOnSet(SizeOf(r), Live(r)) = SizeOf(r)[k] + SumFunctionOnSet(SizeOf(r), Live(r) \ {k})
        BY <3>3, <4>0, <4>1, SumRemove
      <4>3. Live(r) \ {k} = {} /\ SumFunctionOnSet(SizeOf(r), {}) = 0 /\ SizeOf(r)[k] \in Int
        BY <3>3, <4>0, <4>1, SumType
      <4>4. SumFunctionOnSet(SizeOf(r), Live(r) \ {k}) = 0
        BY <4>3
      <4>5. SumFunctionOnSet(SizeOf(r), Live(r)) = SizeOf(r)[k]
        BY <4>2, <4>3, <4>4
      <4> QED BY <4>0, <4>1, <4>5
    <3>5. c.store[k].size \in Nat
      BY <3>2, <3>3, <3>4, TalliedFinite
    <3>6. ~OverBounds(r, 0, FALSE)
      BY <3>4, <3>5, BoundsAssumption DEF OverBounds
    <3> QED BY <3>6 DEF o, r
  <2>6. v \in 0..(n - 1)
    <3>1. W \in SUBSET (0..n) /\ n \in W /\ n - 1 \in W
      <4>1. n - 1 \in 0..n /\ n \in 0..n
        BY <2>3, <2>4
      <4> HIDE DEF n
      <4>2. n - 1 \in W
        BY <2>5, <4>1
      <4> HIDE DEF Fits
      <4> QED BY <4>1, <4>2
    <3> HIDE DEF W, n
    <3>2. v \in 0..n /\ v <= n - 1
      BY <2>4, <3>1, MinInRange
    <3> QED BY <2>4, <3>2
  <2> HIDE DEF v
  <2>7. k \notin Oldest(swept, v)
    BY <2>2, <2>3, <2>6, AllButLast DEF Oldest, Tallied
  <2>8. /\ Live(d) = Live(swept) \ Oldest(swept, v)
        /\ d.order = Without(swept.order, Oldest(swept, v))
        /\ \A x \in Live(swept) \ Oldest(swept, v) : d.store[x] = swept.store[x]
    BY <2>2, RemoveTallied
  <2> HIDE DEF d
  <2>9. d.order[Len(d.order)] = k
    BY <2>2, <2>3, <2>7, <2>8, LastStays DEF Tallied
  <2>10. k \in Live(d) /\ d.store[k] = c.store[k]
    BY <2>2, <2>4, <2>7, <2>8
  <2> QED BY <2>1, <2>9, <2>10
<1> QED
  BY <1>1, <1>2

(* A refresh that lands keeps the entry it refreshed, as the most recent. *)
LEMMA LandSurvives ==
    ASSUME BooksInv, NEW a \in Actors, NEW size \in Sizes, CompleteRefresh(a, size),
           ~TooLarge(size), SameEntry(oc, tokens[a].key, tokens[a].version)
    PROVE  /\ tokens[a].key \in DOMAIN oc'.store
           /\ oc'.store[tokens[a].key].expires = now + Ttl
           /\ oc'.order[Len(oc'.order)] = tokens[a].key
<1> DEFINE k == tokens[a].key
           c == ReleaseMark(oc, k, tokens[a].version)
           d == Cache(Renewed(c, k, size, tokens[a].epoch), MoveToEnd(c.order, k),
                      c.bytes + Charged(size) - c.store[k].size, c.marks)
           new == [expires |-> now + Ttl, cached |-> now, size |-> Charged(size),
                   gen |-> c.store[k].gen, asOf |-> tokens[a].epoch]
<1>1. /\ tokens[a] # None /\ tokens[a] \in TokenType /\ now \in Nat
      /\ IInv /\ Tallied(oc) /\ Bounded(oc)
  BY DEF CompleteRefresh, BooksInv, IInv, StateTyped
<1>2. CacheTyped(c) /\ c.store = oc.store
  BY <1>1, ReleaseKeepsInv DEF CacheInv
<1>3. c.order = oc.order /\ c.bytes = oc.bytes
  BY DEF ReleaseMark, Cache
<1>4. Tallied(c) /\ Bounded(c)
  BY <1>1, <1>2, <1>3, SameBooks DEF Tallied
<1>5. k \in Live(c)
  BY <1>2 DEF SameEntry, Live
<1>6. oc' = Evict(d, 0, FALSE)
  <2>1. SameEntry(c, k, tokens[a].version)
    BY <1>2 DEF SameEntry, Live
  <2> QED BY <2>1 DEF CompleteRefresh, Land
<1>7. CacheTyped(d) /\ Tallied(d) /\ d.store[k] = new /\ d.order = MoveToEnd(c.order, k)
  <2>1. tokens[a].epoch \in Nat
    BY <1>1 DEF TokenType
  <2>2. d.store[k] = new /\ d.order = MoveToEnd(c.order, k)
    BY <1>5 DEF Cache, Renewed, With, Live
  <2> HIDE DEF c
  <2> QED BY <1>1, <1>2, <1>4, <1>5, <2>1, <2>2, RenewTallied
<1>8. new.expires = now + Ttl /\ new.size = Charged(size)
  OBVIOUS
<1> HIDE DEF d, new, c
<1>9. Len(d.order) # 0 /\ d.order[Len(d.order)] = k
  BY <1>4, <1>5, <1>7, MoveOnce DEF Tallied
<1>10. ~IsExpired(d, k)
  BY <1>1, <1>7, <1>8, ParameterAssumption DEF IsExpired
<1>11. MaxBytes # None => d.store[k].size <= MaxBytes
  BY <1>7, <1>8, ParameterAssumption, BoundsAssumption DEF Charged, TooLarge
<1>12. LET e == Evict(d, 0, FALSE)
       IN  k \in Live(e) /\ e.store[k] = d.store[k] /\ e.order[Len(e.order)] = k
  BY <1>7, <1>9, <1>10, <1>11, EvictSparesLast
<1> QED
  BY <1>6, <1>7, <1>8, <1>12 DEF Live

(* Making room, for a new value or for one that grew in a refresh, costs   *)
(* expired entries and then the least recently used ones, and never the    *)
(* entry just refreshed (put, complete_refresh, _evict).                   *)
THEOREM EvictionIsFair == Spec => EvictionKeepsRecent
<1>1. Init => BooksInv
  BY BooksInit
<1>2. BooksInv /\ [Next]_vars => BooksInv'
  BY BooksStep
<1> DEFINE TakesOldest == \A k \in Keys, size \in Sizes :
             Put(k, size) =>
               \A j \in Live(oc) \ (DOMAIN oc'.store \cup {k}) :
                 IsExpired(oc, j) \/ \A i \in DOMAIN oc'.store \ {k} :
                                      ~IsExpired(oc, i) /\ Precedes(oc.order, j, i)
           Survives == \A a \in Actors, size \in Sizes :
             /\ CompleteRefresh(a, size)
             /\ ~TooLarge(size)
             /\ SameEntry(oc, tokens[a].key, tokens[a].version)
             => /\ tokens[a].key \in DOMAIN oc'.store
                /\ oc'.store[tokens[a].key].expires = now + Ttl
                /\ oc'.order[Len(oc'.order)] = tokens[a].key
<1>3. BooksInv => TakesOldest
  BY PutTakesOldest
<1>4. BooksInv => Survives
  BY LandSurvives
<1>5. [][TakesOldest]_vars /\ [][Survives]_vars <=> EvictionKeepsRecent
  BY DEF EvictionKeepsRecent, EvictsOnlyOldest, LandedRefreshSurvives
<1> HIDE DEF TakesOldest, Survives
<1> QED
  BY <1>1, <1>2, <1>3, <1>4, <1>5, PTL DEF Spec
--------------------------------------------------------------------------------
(* The decorator's L1-only mode.  Its steps use the cache through the      *)
(* methods above, so the cache's invariant carries over; what is new is    *)
(* the life of a refresh: the slot and the token it holds in each phase.   *)
TokenPhases == {"flagged", "reserved", "scheduled", "refreshing", "abandoning", "cancelling"}

Holders == {a \in Actors : call[a].phase \in SlotPhases}

CallsOK ==
    /\ call \in [Actors -> [phase : Phases, key : Keys \cup {None}]]
    /\ \A a \in Actors : tokens[a] # None <=> call[a].phase \in TokenPhases
    /\ \A a \in Actors : call[a].phase \in {"computing", "stored"} => call[a].key \in Keys

(* A forked child has the parent's count but none of its refreshes, until  *)
(* its first refresh resets the count.                                     *)
SlotsOK ==
    /\ slots \in 0..MaxSlots
    /\ lost \in [slots : Nat, refreshes : SUBSET (Keys \X Nat)]
    /\ inherited \in BOOLEAN
    /\ IsFiniteSet(Holders)
    /\ inherited => Holders = {}
    /\ ~inherited => slots + Cardinality(Holders) + lost.slots = MaxSlots

(* Of an async function no invalidation is ever seen half done. *)
KeysOK ==
    /\ tracked \subseteq Keys
    /\ inv \in [phase : {"idle", "loop", "discard"}, todo : SUBSET Keys, key : Keys \cup {None}]
    /\ kind \in Kinds
    /\ IsAsync => inv.phase = "idle" /\ Live(oc) \subseteq tracked

ModeInv == BooksInv /\ CallsOK /\ SlotsOK /\ KeysOK /\ EveryMarkerOwned

(* Actor a moves to phase p: its token, and the set of slot holders. *)
LEMMA CallMoves ==
    ASSUME CallsOK, NEW a \in Actors, NEW p \in Phases, NEW q \in Keys \cup {None},
           call' = [call EXCEPT ![a] = [phase |-> p, key |-> q]],
           p \in {"computing", "stored"} => q \in Keys,
           tokens'[a] # None <=> p \in TokenPhases,
           \A b \in Actors \ {a} : tokens'[b] = tokens[b]
    PROVE  /\ CallsOK'
           /\ Holders' = IF p \in SlotPhases THEN Holders \cup {a} ELSE Holders \ {a}
<1>1. call \in [Actors -> [phase : Phases, key : Keys \cup {None}]]
  BY DEF CallsOK
<1>2. call'[a] = [phase |-> p, key |-> q] /\ \A b \in Actors \ {a} : call'[b] = call[b]
  BY <1>1
<1>3. call' \in [Actors -> [phase : Phases, key : Keys \cup {None}]]
  BY <1>1
<1>4. \A b \in Actors : tokens'[b] # None <=> call'[b].phase \in TokenPhases
  BY <1>2 DEF CallsOK
<1>5. \A b \in Actors : call'[b].phase \in {"computing", "stored"} => call'[b].key \in Keys
  BY <1>2 DEF CallsOK
<1>6. Holders' = IF p \in SlotPhases THEN Holders \cup {a} ELSE Holders \ {a}
  BY <1>2 DEF Holders
<1> QED
  BY <1>3, <1>4, <1>5, <1>6 DEF CallsOK, TokenPhases

(* Entering a phase keeps the key of the call. *)
LEMMA Entering ==
    ASSUME CallsOK, NEW a \in Actors, NEW p, Enter(a, p)
    PROVE  /\ call' = [call EXCEPT ![a] = [phase |-> p, key |-> call[a].key]]
           /\ call[a].key \in Keys \cup {None}
<1>1. call \in [Actors -> [phase : Phases, key : Keys \cup {None}]]
  BY DEF CallsOK
<1>2. call[a] \in [phase : Phases, key : Keys \cup {None}]
  BY <1>1
<1>3. [call[a] EXCEPT !.phase = p] = [phase |-> p, key |-> call[a].key]
  BY <1>2
<1>4. call' = [call EXCEPT ![a] = [call[a] EXCEPT !.phase = p]]
  BY DEF Enter
<1> QED
  BY <1>2, <1>3, <1>4

(* One more or one less holder. *)
LEMMA HoldersCount ==
    ASSUME NEW H, IsFiniteSet(H), NEW a
    PROVE  /\ IsFiniteSet(H \cup {a}) /\ IsFiniteSet(H \ {a}) /\ Cardinality(H) \in Nat
           /\ Cardinality(H \cup {a}) = Cardinality(H) + (IF a \in H THEN 0 ELSE 1)
           /\ Cardinality(H \ {a}) = Cardinality(H) - (IF a \in H THEN 1 ELSE 0)
<1>1. IsFiniteSet(H \cup {a}) /\ Cardinality(H \cup {a}) = IF a \in H THEN Cardinality(H) ELSE Cardinality(H) + 1
  BY FS_AddElement
<1>2. IsFiniteSet(H \ {a}) /\ Cardinality(H \ {a}) = IF a \in H THEN Cardinality(H) - 1 ELSE Cardinality(H)
  BY FS_RemoveElement
<1>3. Cardinality(H) \in Nat
  BY FS_CardinalityType
<1> QED
  BY <1>1, <1>2, <1>3

(* The slots balance if the step moves as many as the phases say. *)
LEMMA SlotsMove ==
    ASSUME SlotsOK, NEW a \in Actors, NEW p,
           Holders' = IF p \in SlotPhases THEN Holders \cup {a} ELSE Holders \ {a},
           UNCHANGED inherited, slots' \in Nat,
           lost' \in [slots : Nat, refreshes : SUBSET (Keys \X Nat)],
           inherited => p \notin SlotPhases /\ UNCHANGED slots,
           ~inherited => slots' + lost'.slots + (IF p \in SlotPhases THEN 1 ELSE 0)
                       = slots + lost.slots + (IF call[a].phase \in SlotPhases THEN 1 ELSE 0)
    PROVE  SlotsOK'
<1>1. /\ IsFiniteSet(Holders \cup {a}) /\ IsFiniteSet(Holders \ {a}) /\ Cardinality(Holders) \in Nat
      /\ Cardinality(Holders \cup {a}) = Cardinality(Holders) + (IF a \in Holders THEN 0 ELSE 1)
      /\ Cardinality(Holders \ {a}) = Cardinality(Holders) - (IF a \in Holders THEN 1 ELSE 0)
  BY HoldersCount DEF SlotsOK
<1>2. a \in Holders <=> call[a].phase \in SlotPhases
  BY DEF Holders
<1>3. /\ slots \in 0..MaxSlots /\ lost.slots \in Nat /\ lost'.slots \in Nat /\ MaxSlots \in Nat
      /\ inherited \in BOOLEAN
  BY ModeAssumption DEF SlotsOK
<1>4. IsFiniteSet(Holders') /\ Cardinality(Holders') \in Nat
  BY <1>1, FS_CardinalityType
<1>5. inherited => Holders' = {} /\ slots' \in 0..MaxSlots
  BY <1>3 DEF SlotsOK
<1>6. ~inherited => slots' + Cardinality(Holders') + lost'.slots = MaxSlots
  <2>1. ~inherited => slots + Cardinality(Holders) + lost.slots = MaxSlots
    BY DEF SlotsOK
  <2>2. Cardinality(Holders') = Cardinality(Holders) + (IF p \in SlotPhases THEN 1 ELSE 0)
                                - (IF call[a].phase \in SlotPhases THEN 1 ELSE 0)
    BY <1>1, <1>2
  <2> QED
    BY <1>1, <1>3, <2>1, <2>2
<1>7. slots' \in 0..MaxSlots
  BY <1>3, <1>4, <1>5, <1>6
<1> QED
  BY <1>3, <1>4, <1>5, <1>6, <1>7 DEF SlotsOK

(* Actor a holds the token of the refresh <<k, v>>. *)
Owns(T, a, k, v) == T[a] # None /\ T[a].key = k /\ T[a].version = v

(* The refreshes in flight are the ones some actor holds the token of. *)
LEMMA InFlight ==
    ASSUME NEW k, NEW v, NEW A
    PROVE  <<k, v>> \in Refreshes(A) <=> \E a \in A : Owns(tokens, a, k, v)
BY DEF Refreshes, Owns

(* Every marker keeps its owner if the step drops no token whose marker    *)
(* stays, except into the ghost of what was cut short.                     *)
LEMMA OwnersKept ==
    ASSUME EveryMarkerOwned, lost.refreshes \subseteq lost'.refreshes,
           \A k \in DOMAIN oc'.marks :
              \/ \E a \in Actors : Owns(tokens', a, k, oc'.marks[k])
              \/ /\ k \in DOMAIN oc.marks /\ oc'.marks[k] = oc.marks[k]
                 /\ \A a \in Actors : Owns(tokens, a, k, oc.marks[k]) =>
                      Owns(tokens', a, k, oc.marks[k]) \/ <<k, oc.marks[k]>> \in lost'.refreshes
    PROVE  EveryMarkerOwned'
<1> SUFFICES ASSUME NEW k \in DOMAIN oc'.marks
             PROVE  <<k, oc'.marks[k]>> \in Refreshes(Actors)' \cup lost'.refreshes
  BY DEF EveryMarkerOwned
<1>1. \A v : (\E a \in Actors : Owns(tokens', a, k, v)) => <<k, v>> \in Refreshes(Actors)'
  BY DEF Refreshes, Owns
<1>2. CASE \E a \in Actors : Owns(tokens', a, k, oc'.marks[k])
  BY <1>1, <1>2
<1>3. CASE /\ k \in DOMAIN oc.marks /\ oc'.marks[k] = oc.marks[k]
           /\ \A a \in Actors : Owns(tokens, a, k, oc.marks[k]) =>
                Owns(tokens', a, k, oc.marks[k]) \/ <<k, oc.marks[k]>> \in lost'.refreshes
  <2>1. <<k, oc.marks[k]>> \in Refreshes(Actors) \cup lost.refreshes
    BY <1>3 DEF EveryMarkerOwned
  <2>2. CASE <<k, oc.marks[k]>> \in lost.refreshes
    BY <1>3, <2>2
  <2>3. CASE <<k, oc.marks[k]>> \in Refreshes(Actors)
    <3>1. PICK a \in Actors : Owns(tokens, a, k, oc.marks[k])
      BY <2>3, InFlight
    <3> QED
      BY <1>1, <1>3, <3>1
  <2> QED
    BY <2>1, <2>2, <2>3
<1> QED
  BY <1>2, <1>3

(* d has no marker that c does not have. *)
MarksKept(c, d) == \A k \in DOMAIN d.marks : k \in DOMAIN c.marks /\ d.marks[k] = c.marks[k]

(* Shrinking keeps the markers that stay. *)
LEMMA ShrinkKeepsMarks ==
    ASSUME NEW c, NEW d, Shrinks(c, d)
    PROVE  MarksKept(c, d)
BY DEF Shrinks, MarksKept

(* No method but get_with_swr sets a marker, and a refresh that ends takes *)
(* the marker it owns with it.                                             *)
LEMMA MarksOnlyDropped ==
    ASSUME IInv
    PROVE  /\ \A k \in Keys : ServeFresh(k) \/ ExpireOnRead(k) \/ Delete(k) => MarksKept(oc, oc')
           /\ \A k \in Keys, size \in Sizes : Put(k, size) => MarksKept(oc, oc')
           /\ \A a \in Actors : CancelRefresh(a) \/ (\E size \in Sizes : CompleteRefresh(a, size)) =>
                /\ MarksKept(oc, oc')
                /\ \A k \in DOMAIN oc'.marks : ~Owns(tokens, a, k, oc'.marks[k])
<1>1. ASSUME NEW k \in Keys, ServeFresh(k) \/ ExpireOnRead(k) \/ Delete(k)
      PROVE  MarksKept(oc, oc')
  <2>1. oc' = Remove(oc, {k}) \/ oc' = Touch(oc, k)
    BY <1>1 DEF ServeFresh, ExpireOnRead, Delete
  <2>2. MarksKept(oc, Touch(oc, k))
    BY DEF MarksKept, Touch, Cache
  <2> QED
    BY <2>1, <2>2, RemoveShrinks, ShrinkKeepsMarks
<1>2. ASSUME NEW k \in Keys, NEW size \in Sizes, Put(k, size)
      PROVE  MarksKept(oc, oc')
  <2> DEFINE e == Evict(Remove(oc, {k}), Charged(size), TRUE)
  <2>1. oc' = Remove(oc, {k}) \/ oc' = Insert(e, k, Charged(size))
    BY <1>2 DEF Put
  <2>2. MarksKept(oc, Remove(oc, {k})) /\ MarksKept(oc, e)
    BY RemovedThenEvicted, ShrinkKeepsMarks
  <2>3. Insert(e, k, Charged(size)).marks = e.marks
    BY DEF Insert, Cache
  <2> QED
    BY <2>1, <2>2, <2>3 DEF MarksKept
<1>3. ASSUME NEW a \in Actors, CancelRefresh(a) \/ (\E size \in Sizes : CompleteRefresh(a, size))
      PROVE  /\ MarksKept(oc, oc')
             /\ \A k \in DOMAIN oc'.marks : ~Owns(tokens, a, k, oc'.marks[k])
  <2> DEFINE k == tokens[a].key
             v == tokens[a].version
             c == ReleaseMark(oc, k, v)
  <2>1. MarksKept(oc, c) /\ \A x \in DOMAIN c.marks : ~Owns(tokens, a, x, c.marks[x])
    BY DEF ReleaseMark, Cache, Restrict, MarksKept, Owns
  <2>2. c.marks = [x \in DOMAIN c.marks |-> c.marks[x]]
    BY <1>3, ReleaseKeepsInv DEF CancelRefresh, CompleteRefresh, CacheInv, CacheTyped
  <2>3. MarksKept(c, oc')
    <3>1. CASE CancelRefresh(a)
      BY <3>1 DEF CancelRefresh, MarksKept
    <3>2. ASSUME NEW size \in Sizes, CompleteRefresh(a, size)
          PROVE  MarksKept(c, oc')
      <4> DEFINE e == Cache(Renewed(c, k, size, tokens[a].epoch), MoveToEnd(c.order, k),
                            c.bytes + Charged(size) - c.store[k].size, c.marks)
      <4>1. oc' = c \/ oc' = Remove(c, {k}) \/ oc' = Evict(e, 0, FALSE)
        BY <3>2 DEF CompleteRefresh, Land
      <4>2. /\ e.store = [x \in DOMAIN e.store |-> e.store[x]]
            /\ e.marks = c.marks
        BY DEF Cache, Renewed, With
      <4> HIDE DEF e, c
      <4>3. MarksKept(e, Evict(e, 0, FALSE)) /\ MarksKept(c, Remove(c, {k})) /\ MarksKept(c, c)
        <5>1. Shrinks(e, Evict(e, 0, FALSE)) /\ Shrinks(c, Remove(c, {k}))
          BY <2>2, <4>2, EvictShrinks, RemoveShrinks
        <5>2. MarksKept(c, c)
          BY DEF MarksKept
        <5> QED
          BY <5>1, <5>2, ShrinkKeepsMarks
      <4> QED
        BY <4>1, <4>2, <4>3 DEF MarksKept
    <3> QED
      BY <1>3, <3>1, <3>2
  <2> HIDE DEF c
  <2> QED
    BY <2>1, <2>3 DEF MarksKept
<1> QED
  BY <1>1, <1>2, <1>3

(* A step that leaves the cache alone keeps every marker's owner. *)
LEMMA CacheUntouched ==
    ASSUME BooksInv, EveryMarkerOwned, UNCHANGED vars, lost.refreshes \subseteq lost'.refreshes
    PROVE  BooksInv' /\ EveryMarkerOwned'
<1>1. BooksInv'
  BY BooksStep
<1>2. oc' = oc /\ tokens' = tokens
  BY DEF vars
<1> QED
  BY <1>1, <1>2, OwnersKept

(* The steps that only move an actor on and give its slot back if it       *)
(* leaves the phases that hold one.                                        *)
LEMMA PlainMove ==
    ASSUME ModeInv, NEW a \in Actors, NEW p \in Phases \ {"computing", "stored"}, Enter(a, p),
           UNCHANGED <<vars, inv, rest>>, tracked \subseteq tracked', tracked' \subseteq Keys,
           p \in TokenPhases <=> call[a].phase \in TokenPhases,
           p \in SlotPhases => call[a].phase \in SlotPhases,
           slots' = IF call[a].phase \in SlotPhases \ {p} /\ p \notin SlotPhases
                    THEN slots + 1 ELSE slots
    PROVE  ModeInv'
<1>1. BooksInv /\ CallsOK /\ SlotsOK /\ KeysOK /\ EveryMarkerOwned
  BY DEF ModeInv
<1>2. tokens' = tokens /\ oc' = oc /\ lost' = lost /\ UNCHANGED <<inherited, kind, inv>>
  BY DEF vars, rest
<1>3. BooksInv' /\ EveryMarkerOwned'
  BY <1>1, <1>2, CacheUntouched
<1>4. /\ CallsOK'
      /\ Holders' = IF p \in SlotPhases THEN Holders \cup {a} ELSE Holders \ {a}
  <2>1. /\ call' = [call EXCEPT ![a] = [phase |-> p, key |-> call[a].key]]
        /\ call[a].key \in Keys \cup {None}
    BY <1>1, Entering
  <2>2. tokens'[a] # None <=> p \in TokenPhases
    BY <1>1, <1>2 DEF CallsOK
  <2> QED
    BY <1>1, <1>2, <2>1, <2>2, CallMoves
<1>5. SlotsOK'
  <2>1. /\ inherited \in BOOLEAN /\ slots \in Nat /\ lost.slots \in Nat
        /\ lost \in [slots : Nat, refreshes : SUBSET (Keys \X Nat)]
    BY <1>1 DEF SlotsOK
  <2>2. inherited => call[a].phase \notin SlotPhases
    BY <1>1 DEF SlotsOK, Holders
  <2>3. slots' \in Nat
    BY <2>1
  <2>4. slots' + lost'.slots + (IF p \in SlotPhases THEN 1 ELSE 0)
        = slots + lost.slots + (IF call[a].phase \in SlotPhases THEN 1 ELSE 0)
    BY <1>2, <2>1
  <2> QED
    BY <1>1, <1>2, <1>4, <2>1, <2>2, <2>3, <2>4, SlotsMove
<1>6. KeysOK'
  BY <1>1, <1>2 DEF KeysOK, IsAsync, Live
<1> QED
  BY <1>3, <1>4, <1>5, <1>6 DEF ModeInv

(* The steps of the wrapper between its calls of the cache. *)
LEMMA WrapperStep ==
    ASSUME ModeInv, NEW a \in Actors,
           \/ Schedule(a) \/ ScheduleFails(a) \/ GiveUpSlot(a) \/ StartRefresh(a)
           \/ ReleaseSlot(a) \/ FuncRaises(a) \/ Track(a)
    PROVE  ModeInv'
<1>1. tracked \subseteq Keys /\ (call[a].phase = "stored" => call[a].key \in Keys)
  BY DEF ModeInv, KeysOK, CallsOK
<1>2. CASE Schedule(a)
  BY <1>1, <1>2, PlainMove DEF Schedule, InPhase, Phases, TokenPhases, SlotPhases
<1>3. CASE ScheduleFails(a)
  BY <1>1, <1>3, PlainMove DEF ScheduleFails, InPhase, Phases, TokenPhases, SlotPhases
<1>4. CASE GiveUpSlot(a)
  BY <1>1, <1>4, PlainMove DEF GiveUpSlot, InPhase, Phases, TokenPhases, SlotPhases
<1>5. CASE StartRefresh(a)
  BY <1>1, <1>5, PlainMove DEF StartRefresh, InPhase, Phases, TokenPhases, SlotPhases
<1>6. CASE ReleaseSlot(a)
  BY <1>1, <1>6, PlainMove DEF ReleaseSlot, InPhase, Phases, TokenPhases, SlotPhases
<1>7. CASE FuncRaises(a)
  BY <1>1, <1>7, PlainMove DEF FuncRaises, InPhase, Phases, TokenPhases, SlotPhases
<1>8. CASE Track(a)
  BY <1>1, <1>8, PlainMove DEF Track, InPhase, Phases, TokenPhases, SlotPhases
<1> QED
  BY <1>2, <1>3, <1>4, <1>5, <1>6, <1>7, <1>8

(* Taking a slot: a forked child starts from a full semaphore, for it has  *)
(* none of the refreshes that held the others.                             *)
LEMMA AcquireStep ==
    ASSUME ModeInv, NEW a \in Actors, Acquire(a)
    PROVE  ModeInv'
<1> DEFINE free == IF inherited THEN MaxSlots ELSE slots
           p == IF free = 0 THEN "cancelling" ELSE "reserved"
<1>1. BooksInv /\ CallsOK /\ SlotsOK /\ KeysOK /\ EveryMarkerOwned
  BY DEF ModeInv
<1>2. /\ inherited \in BOOLEAN /\ slots \in 0..MaxSlots /\ lost.slots \in Nat /\ MaxSlots \in Nat \ {0}
      /\ lost \in [slots : Nat, refreshes : SUBSET (Keys \X Nat)]
  BY <1>1, ModeAssumption DEF SlotsOK
<1>3. /\ call[a].phase = "flagged" /\ inherited' = FALSE
      /\ UNCHANGED vars /\ UNCHANGED <<tracked, inv, kind>>
      /\ lost' = IF inherited THEN [lost EXCEPT !.slots = 0] ELSE lost
      /\ free \in Nat
  BY <1>2 DEF Acquire, InPhase, SkipRefresh
<1>4. Enter(a, p) /\ slots' = IF free = 0 THEN free ELSE free - 1
  BY <1>2 DEF Acquire, SkipRefresh
<1>5. tokens' = tokens /\ oc' = oc
  BY <1>3 DEF vars
<1>6. /\ lost' \in [slots : Nat, refreshes : SUBSET (Keys \X Nat)]
      /\ lost'.refreshes = lost.refreshes /\ lost'.slots = IF inherited THEN 0 ELSE lost.slots
  BY <1>2, <1>3
<1>7. BooksInv' /\ EveryMarkerOwned'
  BY <1>1, <1>3, <1>6, CacheUntouched
<1>8. KeysOK'
  BY <1>1, <1>3, <1>5 DEF KeysOK, IsAsync, Live
<1>9. p \in Phases \ {"computing", "stored"} /\ p \in TokenPhases /\ (p \in SlotPhases <=> free # 0)
  BY DEF Phases, TokenPhases, SlotPhases
<1> HIDE DEF p
<1>10. /\ CallsOK'
       /\ Holders' = IF p \in SlotPhases THEN Holders \cup {a} ELSE Holders \ {a}
  <2>1. /\ call' = [call EXCEPT ![a] = [phase |-> p, key |-> call[a].key]]
        /\ call[a].key \in Keys \cup {None}
    BY <1>1, <1>4, Entering
  <2>2. tokens'[a] # None <=> p \in TokenPhases
    BY <1>1, <1>3, <1>5, <1>9 DEF CallsOK, TokenPhases
  <2> QED
    BY <1>1, <1>5, <1>9, <2>1, <2>2, CallMoves
<1>11. SlotsOK'
  <2>1. a \notin Holders /\ IsFiniteSet(Holders)
    BY <1>1, <1>3 DEF Holders, SlotsOK, SlotPhases
  <2>2. /\ IsFiniteSet(Holders \cup {a}) /\ IsFiniteSet(Holders \ {a}) /\ Cardinality(Holders) \in Nat
        /\ Cardinality(Holders \cup {a}) = Cardinality(Holders) + 1
        /\ Cardinality(Holders \ {a}) = Cardinality(Holders)
    BY <2>1, HoldersCount
  <2>3. free + Cardinality(Holders) + lost'.slots = MaxSlots
    <3>1. CASE inherited
      BY <1>1, <1>2, <1>6, <3>1, FS_EmptySet DEF SlotsOK
    <3>2. CASE ~inherited
      BY <1>1, <1>2, <1>6, <3>2 DEF SlotsOK
    <3> QED
      BY <3>1, <3>2
  <2> HIDE DEF free
  <2>4. slots' + Cardinality(Holders') + lost'.slots = MaxSlots /\ slots' \in Nat
    BY <1>2, <1>3, <1>4, <1>6, <1>9, <1>10, <2>2, <2>3
  <2>5. IsFiniteSet(Holders') /\ Cardinality(Holders') \in Nat /\ lost'.slots \in Nat
    BY <1>6, <1>10, <2>2, FS_CardinalityType
  <2>6. slots' \in 0..MaxSlots
    BY <1>2, <2>4, <2>5
  <2> QED
    BY <1>3, <1>6, <2>4, <2>5, <2>6 DEF SlotsOK
<1> QED
  BY <1>7, <1>8, <1>10, <1>11 DEF ModeInv

(* A move between two phases that both hold a slot, or both hold none. *)
LEMMA SameSlot ==
    ASSUME CallsOK, SlotsOK, NEW a \in Actors, NEW p \in Phases, NEW q \in Keys \cup {None},
           call' = [call EXCEPT ![a] = [phase |-> p, key |-> q]],
           p \in {"computing", "stored"} => q \in Keys,
           tokens'[a] # None <=> p \in TokenPhases,
           \A b \in Actors \ {a} : tokens'[b] = tokens[b],
           UNCHANGED <<slots, inherited, lost>>,
           p \in SlotPhases <=> call[a].phase \in SlotPhases
    PROVE  CallsOK' /\ SlotsOK'
<1>1. /\ CallsOK'
      /\ Holders' = IF p \in SlotPhases THEN Holders \cup {a} ELSE Holders \ {a}
  BY CallMoves
<1>2. /\ inherited \in BOOLEAN /\ slots \in Nat /\ lost.slots \in Nat
      /\ lost \in [slots : Nat, refreshes : SUBSET (Keys \X Nat)]
  BY DEF SlotsOK
<1>3. inherited => call[a].phase \notin SlotPhases
  BY DEF SlotsOK, Holders
<1>4. SlotsOK'
  BY <1>1, <1>2, <1>3, SlotsMove
<1> QED
  BY <1>1, <1>4

(* A refresh ends with complete_refresh or cancel_refresh. *)
LEMMA EndStep ==
    ASSUME ModeInv, NEW a \in Actors,
           \/ GiveUpMark(a) \/ RefreshFails(a)
           \/ \E size \in Sizes : RefreshLands(a, size)
    PROVE  ModeInv'
<1> DEFINE p == IF call[a].phase = "refreshing" THEN "releasing" ELSE "idle"
<1>1. IInv /\ BooksInv /\ CallsOK /\ SlotsOK /\ KeysOK /\ EveryMarkerOwned
  BY DEF ModeInv, BooksInv
<1>2. /\ call[a].phase \in {"cancelling", "refreshing"} /\ Enter(a, p)
      /\ CancelRefresh(a) \/ \E size \in Sizes : CompleteRefresh(a, size)
      /\ UNCHANGED <<slots, tracked, inv, inherited, kind, lost>>
  BY DEF GiveUpMark, RefreshFails, RefreshLands, InPhase, rest
<1>3. tokens' = [tokens EXCEPT ![a] = None] /\ tokens \in [Actors -> TokenType \cup {None}]
  BY <1>1, <1>2 DEF CancelRefresh, CompleteRefresh, IInv, StateTyped
<1>4. tokens'[a] = None /\ \A b \in Actors \ {a} : tokens'[b] = tokens[b]
  BY <1>3
<1>5. BooksInv'
  <2>1. Next
    BY <1>2 DEF Next
  <2> QED
    BY <1>1, <2>1, BooksStep
<1>6. EveryMarkerOwned'
  <2>1. /\ MarksKept(oc, oc')
        /\ \A k \in DOMAIN oc'.marks : ~Owns(tokens, a, k, oc'.marks[k])
    BY <1>1, <1>2, MarksOnlyDropped
  <2>2. \A k, v : \A b \in Actors \ {a} : Owns(tokens, b, k, v) => Owns(tokens', b, k, v)
    BY <1>4 DEF Owns
  <2> QED
    BY <1>1, <1>2, <2>1, <2>2, OwnersKept DEF MarksKept
<1>7. CallsOK' /\ SlotsOK'
  <2>1. /\ call' = [call EXCEPT ![a] = [phase |-> p, key |-> call[a].key]]
        /\ call[a].key \in Keys \cup {None}
    BY <1>1, <1>2, Entering
  <2>2. /\ p \in Phases \ {"computing", "stored"} /\ p \notin TokenPhases
        /\ p \in SlotPhases <=> call[a].phase \in SlotPhases
    BY <1>2 DEF Phases, TokenPhases, SlotPhases
  <2> QED
    BY <1>1, <1>2, <1>4, <2>1, <2>2, SameSlot
<1>8. KeysOK'
  <2>1. Live(oc') \subseteq Live(oc)
    BY <1>1, <1>2, NoKeyAdded DEF Live
  <2> QED
    BY <1>1, <1>2, <2>1 DEF KeysOK, IsAsync, Live
<1> QED
  BY <1>5, <1>6, <1>7, <1>8 DEF ModeInv

(* A lookup: a hit, a stale hit that owes a refresh, or a miss. *)
LEMMA LookupStep ==
    ASSUME ModeInv, NEW a \in Actors, NEW k \in Keys, Lookup(a, k)
    PROVE  ModeInv'
<1>1. IInv /\ BooksInv /\ CallsOK /\ SlotsOK /\ KeysOK /\ EveryMarkerOwned
  BY DEF ModeInv, BooksInv
<1>2. /\ call[a].phase = "idle" /\ UNCHANGED <<slots, tracked, inv, inherited, kind, lost>>
  BY DEF Lookup, InPhase, rest
<1>3. tokens \in [Actors -> TokenType \cup {None}] /\ tokens[a] = None
  BY <1>1, <1>2 DEF IInv, StateTyped, CallsOK, TokenPhases
<1>4. BooksInv'
  <2>1. [Next]_vars
    BY DEF Lookup, Next, GetWithSwr
  <2> QED
    BY <1>1, <2>1, BooksStep
<1>5. KeysOK'
  <2>1. Live(oc') \subseteq Live(oc)
    <3>1. CASE UNCHANGED vars
      BY <3>1 DEF vars
    <3>2. CASE GetWithSwr(a, k)
      BY <1>1, <3>2, NoKeyAdded DEF Live
    <3> QED
      BY <3>1, <3>2 DEF Lookup, GetWithSwr
  <2> QED
    BY <1>1, <1>2, <2>1 DEF KeysOK, IsAsync, Live
<1>6. CASE /\ ServeFresh(k) \/ ExpireOnRead(k) \/ UNCHANGED vars
           /\ \/ UNCHANGED call
              \/ call' = [call EXCEPT ![a] = [phase |-> "computing", key |-> k]]
  <2>1. tokens' = tokens
    BY <1>6 DEF ServeFresh, ExpireOnRead, vars
  <2>2. MarksKept(oc, oc')
    BY <1>1, <1>6, MarksOnlyDropped DEF MarksKept, vars
  <2>3. EveryMarkerOwned'
    BY <1>1, <1>2, <2>1, <2>2, OwnersKept DEF MarksKept
  <2>4. CASE UNCHANGED call
    BY <1>1, <1>2, <1>4, <1>5, <2>1, <2>3, <2>4 DEF ModeInv, CallsOK, SlotsOK, Holders
  <2>5. CASE call' = [call EXCEPT ![a] = [phase |-> "computing", key |-> k]]
    <3>1. /\ "computing" \in Phases /\ "computing" \notin TokenPhases
          /\ "computing" \in SlotPhases <=> call[a].phase \in SlotPhases
      BY <1>2 DEF Phases, TokenPhases, SlotPhases
    <3>2. CallsOK' /\ SlotsOK'
      BY <1>1, <1>2, <1>3, <2>1, <2>5, <3>1, SameSlot
    <3> QED
      BY <1>4, <1>5, <2>3, <3>2 DEF ModeInv
  <2> QED
    BY <1>6, <2>4, <2>5
<1>7. CASE /\ ServeStale(a, k)
           /\ call' = [call EXCEPT ![a] = [phase |-> "flagged", key |-> k]]
  <2> DEFINE t == [key |-> k, version |-> oc.store[k].gen, epoch |-> epoch[k]]
  <2>1. /\ tokens' = [tokens EXCEPT ![a] = t] /\ k \in DOMAIN oc.store
        /\ oc'.marks = [x \in DOMAIN oc.marks \cup {k} |->
                         IF x = k THEN oc.store[k].gen ELSE oc.marks[x]]
    BY <1>7 DEF ServeStale, FlagRefresh, Cache, With, Hit, Live
  <2>2. t \in TokenType
    <3>1. oc.store[k].gen \in Nat /\ epoch[k] \in Nat
      BY <1>1, <2>1 DEF IInv, StateTyped, Live, EntryType
    <3> QED
      BY <3>1 DEF TokenType
  <2>3. /\ tokens'[a] = t /\ t # None /\ \A b \in Actors \ {a} : tokens'[b] = tokens[b]
        /\ t.key = k /\ t.version = oc.store[k].gen
    BY <1>3, <2>1, <2>2, ModeAssumption
  <2> HIDE DEF t
  <2>4. Owns(tokens', a, k, oc'.marks[k])
    BY <2>1, <2>3 DEF Owns
  <2>5. ASSUME NEW x \in DOMAIN oc'.marks, x # k
        PROVE  /\ x \in DOMAIN oc.marks /\ oc'.marks[x] = oc.marks[x]
               /\ \A b \in Actors : Owns(tokens, b, x, oc.marks[x]) => Owns(tokens', b, x, oc.marks[x])
    BY <1>3, <2>1, <2>3, <2>5 DEF Owns
  <2>6. EveryMarkerOwned'
    BY <1>1, <1>2, <2>4, <2>5, OwnersKept
  <2>7. /\ "flagged" \in Phases /\ "flagged" \in TokenPhases
        /\ "flagged" \in SlotPhases <=> call[a].phase \in SlotPhases
    BY <1>2 DEF Phases, TokenPhases, SlotPhases
  <2>8. CallsOK' /\ SlotsOK'
    BY <1>1, <1>2, <1>7, <2>3, <2>7, SameSlot
  <2> QED
    BY <1>4, <1>5, <2>6, <2>8 DEF ModeInv
<1> QED
  BY <1>6, <1>7 DEF Lookup

(* put adds its own key and no other. *)
LEMMA PutAddsOnly ==
    ASSUME IInv, NEW k \in Keys, NEW size \in Sizes, Put(k, size)
    PROVE  Live(oc') \subseteq Live(oc) \cup {k}
<1> DEFINE e == Evict(Remove(oc, {k}), Charged(size), TRUE)
<1>1. DOMAIN Remove(oc, {k}).store \subseteq DOMAIN oc.store /\ DOMAIN e.store \subseteq DOMAIN oc.store
  BY RemovedThenEvicted DEF Shrinks
<1>2. CASE oc' = Remove(oc, {k})
  BY <1>1, <1>2 DEF Live
<1>3. CASE oc' = Insert(e, k, Charged(size))
  BY <1>1, <1>3 DEF Insert, Cache, With, Live
<1> QED
  BY <1>2, <1>3 DEF Put

(* A miss stores its result, and on an event loop tracks it at once. *)
LEMMA StoreStep ==
    ASSUME ModeInv, NEW a \in Actors, NEW size \in Sizes, Store(a, size)
    PROVE  ModeInv'
<1> DEFINE k == call[a].key
           p == IF IsAsync THEN "idle" ELSE "stored"
<1>1. IInv /\ BooksInv /\ CallsOK /\ SlotsOK /\ KeysOK /\ EveryMarkerOwned
  BY DEF ModeInv, BooksInv
<1>2. /\ call[a].phase = "computing" /\ k \in Keys /\ Put(k, size) /\ Enter(a, p)
      /\ tracked' = IF IsAsync THEN tracked \cup {k} ELSE tracked
      /\ UNCHANGED <<slots, inv, inherited, kind, lost>>
  BY <1>1 DEF Store, InPhase, rest, CallsOK
<1>3. tokens' = tokens
  BY <1>2 DEF Put
<1>4. BooksInv'
  <2>1. Next
    BY <1>2 DEF Next
  <2> QED
    BY <1>1, <2>1, BooksStep
<1>5. EveryMarkerOwned'
  <2>1. MarksKept(oc, oc')
    BY <1>1, <1>2, MarksOnlyDropped
  <2> QED
    BY <1>1, <1>2, <1>3, <2>1, OwnersKept DEF MarksKept
<1>6. CallsOK' /\ SlotsOK'
  <2>1. call' = [call EXCEPT ![a] = [phase |-> p, key |-> k]]
    BY <1>1, <1>2, Entering
  <2>2. /\ p \in Phases /\ p \notin TokenPhases /\ call[a].phase \notin TokenPhases
        /\ p \in SlotPhases <=> call[a].phase \in SlotPhases
    BY <1>2 DEF Phases, TokenPhases, SlotPhases
  <2>3. tokens'[a] # None <=> p \in TokenPhases
    BY <1>1, <1>3, <2>2 DEF CallsOK
  <2> QED
    BY <1>1, <1>2, <1>3, <2>1, <2>2, <2>3, SameSlot
<1>7. KeysOK'
  <2>1. Live(oc') \subseteq Live(oc) \cup {k}
    BY <1>1, <1>2, PutAddsOnly
  <2> QED
    BY <1>1, <1>2, <2>1 DEF KeysOK, IsAsync, Live
<1> QED
  BY <1>4, <1>5, <1>6, <1>7 DEF ModeInv

(* The steps that touch neither a call nor a slot nor a token. *)
LEMMA OtherStep ==
    ASSUME ModeInv, UNCHANGED <<call, slots, inherited, lost, tokens>>, BooksInv',
           MarksKept(oc, oc'), KeysOK'
    PROVE  ModeInv'
<1>1. EveryMarkerOwned'
  BY OwnersKept DEF ModeInv, MarksKept
<1>2. CallsOK' /\ SlotsOK'
  BY DEF ModeInv, CallsOK, SlotsOK, Holders
<1> QED
  BY <1>1, <1>2 DEF ModeInv

(* A deleted key is no longer live, no other key becomes live. *)
LEMMA DeleteOnly ==
    ASSUME IInv, NEW k \in Keys, Delete(k)
    PROVE  Live(oc') \subseteq Live(oc) \ {k}
BY RemoveShrinks DEF Delete, Shrinks, Live

(* The steps of an invalidation, and time. *)
LEMMA InvalidationSteps ==
    ASSUME ModeInv,
           \/ ModeTick \/ Discard \/ InvalidateAll
           \/ \E k \in Keys : InvalidateKey(k) \/ DeleteNext(k)
    PROVE  ModeInv'
<1>1. IInv /\ BooksInv /\ KeysOK
  BY DEF ModeInv, BooksInv
<1>2. UNCHANGED <<call, slots, inherited, kind, lost, tokens>>
  BY DEF ModeTick, modeVars, rest, Tick, Discard, vars, InvalidateAll, InvalidateKey,
         DeleteNext, Delete
<1>3. CASE ModeTick
  <2>1. BooksInv' /\ oc' = oc
    BY <1>1, <1>3, BooksStep DEF ModeTick, Next, Tick
  <2>2. KeysOK'
    BY <1>1, <1>3, <2>1 DEF ModeTick, modeVars, rest, KeysOK, IsAsync, Live
  <2> QED
    BY <1>2, <2>1, <2>2, OtherStep DEF MarksKept
<1>4. CASE Discard
  <2>1. BooksInv' /\ oc' = oc
    BY <1>1, <1>4, BooksStep DEF Discard, vars
  <2>2. /\ inv.phase = "discard" /\ ~IsAsync /\ ~IsAsync'
        /\ tracked' = tracked \ {inv.key}
        /\ inv' = IF inv.todo = {} THEN IdleInv ELSE [inv EXCEPT !.phase = "loop", !.key = None]
    BY <1>1, <1>2, <1>4 DEF Discard, KeysOK, IsAsync
  <2>3. inv' \in [phase : {"idle", "loop", "discard"}, todo : SUBSET Keys, key : Keys \cup {None}]
    <3> DEFINE i1 == [inv EXCEPT !.phase = "loop"]
               i2 == [i1 EXCEPT !.key = None]
    <3>1. inv \in [phase : {"idle", "loop", "discard"}, todo : SUBSET Keys, key : Keys \cup {None}]
      BY <1>1 DEF KeysOK
    <3>2. i1 \in [phase : {"idle", "loop", "discard"}, todo : SUBSET Keys, key : Keys \cup {None}]
      BY <3>1
    <3>3. i2 \in [phase : {"idle", "loop", "discard"}, todo : SUBSET Keys, key : Keys \cup {None}]
      <4> HIDE DEF i1
      <4> QED
        BY <3>2
    <3> QED
      BY <2>2, <3>3 DEF IdleInv
  <2>4. KeysOK'
    BY <1>1, <1>2, <2>2, <2>3 DEF KeysOK
  <2> QED
    BY <1>2, <2>1, <2>4, OtherStep DEF MarksKept
<1>5. ASSUME NEW k \in Keys, InvalidateKey(k) \/ DeleteNext(k)
      PROVE  ModeInv'
  <2>1. Delete(k)
    BY <1>5 DEF InvalidateKey, DeleteNext
  <2>2. BooksInv' /\ MarksKept(oc, oc') /\ Live(oc') \subseteq Live(oc) \ {k}
    BY <1>1, <2>1, BooksStep, MarksOnlyDropped, DeleteOnly DEF Next
  <2>3. CASE InvalidateKey(k)
    <3>1. KeysOK'
      BY <1>1, <1>2, <2>2, <2>3 DEF InvalidateKey, KeysOK, IsAsync, Live
    <3> QED
      BY <1>2, <2>2, <3>1, OtherStep
  <2>4. CASE DeleteNext(k)
    <3>1. KeysOK'
      BY <1>1, <1>2, <2>2, <2>4 DEF DeleteNext, KeysOK, IsAsync, Live
    <3> QED
      BY <1>2, <2>2, <3>1, OtherStep
  <2> QED
    BY <1>5, <2>3, <2>4
<1>6. CASE InvalidateAll /\ ~IsAsync
  <2>1. BooksInv' /\ oc' = oc
    BY <1>1, <1>6, BooksStep DEF InvalidateAll, vars
  <2>2. KeysOK'
    BY <1>1, <1>2, <1>6 DEF InvalidateAll, KeysOK, IsAsync
  <2> QED
    BY <1>2, <2>1, <2>2, OtherStep DEF MarksKept
<1>7. CASE InvalidateAll /\ IsAsync
  <2>1. /\ oc' = Remove(oc, tracked) /\ tracked' = {} /\ UNCHANGED <<generation, now, tokens, inv>>
        /\ epoch' = [k \in Keys |-> epoch[k] + (IF k \in tracked THEN 1 ELSE 0)]
    BY <1>7 DEF InvalidateAll
  <2>2. Shrinks(oc, oc') /\ DOMAIN oc'.store \cap tracked = {}
    BY <2>1, RemoveShrinks
  <2>3. epoch' \in [Keys -> Nat] /\ \A x \in Keys \ tracked : epoch'[x] = epoch[x]
    BY <1>1, <2>1 DEF IInv, StateTyped
  <2>4. CacheInv(oc', generation, epoch, tokens)
    BY <1>1, <2>2, ShrinkKeepsInv DEF IInv
  <2>5. IInv'
    BY <1>1, <2>1, <2>2, <2>3, <2>4, InvalidateStep
  <2>6. BooksInv'
    BY <1>1, <2>1, <2>5, RemoveBooks DEF BooksInv
  <2>7. KeysOK'
    BY <1>1, <1>2, <2>1, <2>2 DEF KeysOK, IsAsync, Live, Shrinks
  <2> QED
    BY <1>2, <2>2, <2>6, <2>7, ShrinkKeepsMarks, OtherStep
<1> QED
  BY <1>3, <1>4, <1>5, <1>6, <1>7

(* A token that is lost rather than finished leaves the cache as it is. *)
LEMMA TokensLost ==
    ASSUME BooksInv, UNCHANGED <<oc, generation, now, epoch>>,
           tokens' \in [Actors -> TokenType \cup {None}],
           \A a \in Actors : tokens'[a] \in {tokens[a], None}
    PROVE  BooksInv'
<1>1. IInv /\ Tallied(oc') /\ Bounded(oc')
  BY DEF BooksInv
<1>2. CacheInv(oc', generation', epoch', tokens')
  BY <1>1 DEF IInv, CacheInv
<1>3. StateTyped'
  BY <1>1 DEF IInv, StateTyped, Live
<1>4. TokenInv(generation', tokens') /\ SingleRefreshPerEntry'
  BY <1>1 DEF IInv, TokenInv, SingleRefreshPerEntry
<1> QED
  BY <1>1, <1>2, <1>3, <1>4 DEF BooksInv, IInv

(* The refreshes of any actors are keys with generations. *)
LEMMA RefreshesTyped ==
    ASSUME IInv, NEW A \in SUBSET Actors
    PROVE  Refreshes(A) \in SUBSET (Keys \X Nat)
<1>1. \A a \in A : tokens[a] # None => tokens[a].key \in Keys /\ tokens[a].version \in Nat
  BY DEF IInv, StateTyped, TokenType
<1> QED
  BY <1>1 DEF Refreshes

(* A task cancelled before its first step, or a thread that exits. *)
LEMMA CutShortStep ==
    ASSUME ModeInv, NEW a \in Actors, EarlyCancel(a) \/ RefreshExits(a)
    PROVE  ModeInv'
<1> DEFINE p == IF call[a].phase = "refreshing" THEN "releasing" ELSE "idle"
<1>1. IInv /\ BooksInv /\ CallsOK /\ SlotsOK /\ KeysOK /\ EveryMarkerOwned
  BY DEF ModeInv, BooksInv
<1>2. /\ call[a].phase \in {"scheduled", "refreshing"} /\ Enter(a, p)
      /\ tokens' = [tokens EXCEPT ![a] = None]
      /\ UNCHANGED <<oc, generation, now, epoch, slots, tracked, inv, inherited, kind>>
  BY DEF EarlyCancel, RefreshExits, InPhase
<1>3. lost \in [slots : Nat, refreshes : SUBSET (Keys \X Nat)] /\ lost.slots \in Nat /\ slots \in Nat
  BY <1>1 DEF SlotsOK
<1>4. /\ lost' \in [slots : Nat, refreshes : SUBSET (Keys \X Nat)]
      /\ lost'.refreshes = lost.refreshes \cup Refreshes({a})
      /\ lost'.slots = IF p = "releasing" THEN lost.slots ELSE lost.slots + 1
  <2>1. Refreshes({a}) \in SUBSET (Keys \X Nat)
    BY <1>1, RefreshesTyped
  <2>2. CASE EarlyCancel(a)
    BY <1>3, <2>1, <2>2 DEF EarlyCancel, InPhase
  <2>3. CASE RefreshExits(a)
    BY <1>3, <2>1, <2>3 DEF RefreshExits, InPhase
  <2> QED
    BY <2>2, <2>3
<1>5. tokens \in [Actors -> TokenType \cup {None}]
  BY <1>1 DEF IInv, StateTyped
<1>6. tokens'[a] = None /\ \A b \in Actors \ {a} : tokens'[b] = tokens[b]
  BY <1>2, <1>5
<1>7. BooksInv'
  BY <1>1, <1>2, <1>5, <1>6, TokensLost
<1>8. EveryMarkerOwned'
  <2>1. ASSUME NEW k \in DOMAIN oc.marks, NEW b \in Actors, Owns(tokens, b, k, oc.marks[k])
        PROVE  Owns(tokens', b, k, oc.marks[k]) \/ <<k, oc.marks[k]>> \in lost'.refreshes
    <3>1. CASE b = a
      <4>1. <<k, oc.marks[k]>> \in Refreshes({a})
        BY <2>1, <3>1, InFlight
      <4> QED
        BY <1>4, <4>1
    <3>2. CASE b # a
      BY <1>6, <2>1, <3>2 DEF Owns
    <3> QED
      BY <3>1, <3>2
  <2> QED
    BY <1>1, <1>2, <1>4, <2>1, OwnersKept
<1>9. /\ CallsOK'
      /\ Holders' = IF p \in SlotPhases THEN Holders \cup {a} ELSE Holders \ {a}
  <2>1. /\ call' = [call EXCEPT ![a] = [phase |-> p, key |-> call[a].key]]
        /\ call[a].key \in Keys \cup {None}
    BY <1>1, <1>2, Entering
  <2>2. p \in Phases \ {"computing", "stored"} /\ p \notin TokenPhases
    BY DEF Phases, TokenPhases
  <2> QED
    BY <1>1, <1>6, <2>1, <2>2, CallMoves
<1>10. SlotsOK'
  <2>1. /\ call[a].phase \in SlotPhases /\ (p \in SlotPhases <=> p = "releasing")
        /\ inherited \in BOOLEAN
    BY <1>1, <1>2 DEF SlotPhases, SlotsOK
  <2>2. ~inherited
    BY <1>1, <2>1 DEF SlotsOK, Holders
  <2>3. slots' + lost'.slots + (IF p \in SlotPhases THEN 1 ELSE 0)
        = slots + lost.slots + (IF call[a].phase \in SlotPhases THEN 1 ELSE 0)
    BY <1>2, <1>3, <1>4, <2>1
  <2> QED
    BY <1>1, <1>2, <1>3, <1>4, <1>9, <2>2, <2>3, SlotsMove
<1>11. KeysOK'
  BY <1>1, <1>2 DEF KeysOK, IsAsync, Live
<1> QED
  BY <1>7, <1>8, <1>9, <1>10, <1>11 DEF ModeInv

(* A forked child goes on with the cache, its markers and no refresh. *)
LEMMA ForkStep ==
    ASSUME ModeInv, Fork
    PROVE  ModeInv'
<1>1. IInv /\ BooksInv /\ CallsOK /\ SlotsOK /\ KeysOK /\ EveryMarkerOwned
  BY DEF ModeInv, BooksInv
<1>2. /\ inherited' = TRUE /\ tokens' = [a \in Actors |-> None] /\ inv' = IdleInv
      /\ call' = [a \in Actors |-> [phase |-> "idle", key |-> None]]
      /\ lost' = [lost EXCEPT !.refreshes = @ \cup Refreshes(Actors)]
      /\ UNCHANGED <<oc, generation, now, epoch, slots, tracked, kind>>
  BY DEF Fork
<1>3. lost \in [slots : Nat, refreshes : SUBSET (Keys \X Nat)]
  BY <1>1 DEF SlotsOK
<1>4. /\ lost' \in [slots : Nat, refreshes : SUBSET (Keys \X Nat)]
      /\ lost'.refreshes = lost.refreshes \cup Refreshes(Actors)
  <2>1. Refreshes(Actors) \in SUBSET (Keys \X Nat)
    BY <1>1, RefreshesTyped
  <2> QED
    BY <1>2, <1>3, <2>1
<1>5. BooksInv'
  BY <1>1, <1>2, TokensLost
<1>6. EveryMarkerOwned'
  <2>1. ASSUME NEW k \in DOMAIN oc.marks, NEW b \in Actors, Owns(tokens, b, k, oc.marks[k])
        PROVE  <<k, oc.marks[k]>> \in lost'.refreshes
    BY <1>4, <2>1, InFlight
  <2> QED
    BY <1>1, <1>2, <1>4, <2>1, OwnersKept
<1>7. CallsOK'
  BY <1>2 DEF CallsOK, Phases, TokenPhases
<1>8. SlotsOK'
  <2>1. Holders' = {}
    BY <1>2 DEF Holders, SlotPhases
  <2> QED
    BY <1>1, <1>2, <1>4, <2>1, FS_EmptySet DEF SlotsOK
<1>9. KeysOK'
  BY <1>1, <1>2 DEF KeysOK, IsAsync, Live, IdleInv
<1> QED
  BY <1>5, <1>6, <1>7, <1>8, <1>9 DEF ModeInv

(* The wrapper starts with all slots free and nothing tracked. *)
LEMMA ModeStarts == ASSUME ModeInit PROVE ModeInv
<1>1. BooksInv
  BY BooksInit DEF ModeInit
<1>2. Live(oc) = {} /\ DOMAIN oc.marks = {} /\ \A a \in Actors : tokens[a] = None
  BY DEF ModeInit, Init, EmptyCache, Cache, Live
<1>3. CallsOK
  BY <1>2 DEF ModeInit, CallsOK, Phases, TokenPhases
<1>4. SlotsOK
  <2>1. Holders = {}
    BY DEF ModeInit, Holders, SlotPhases
  <2>2. /\ slots = MaxSlots /\ inherited = FALSE /\ MaxSlots \in Nat
        /\ lost = [slots |-> 0, refreshes |-> {}]
    BY ModeAssumption DEF ModeInit
  <2>3. /\ lost \in [slots : Nat, refreshes : SUBSET (Keys \X Nat)]
        /\ slots + 0 + lost.slots = MaxSlots
    BY <2>2
  <2>4. IsFiniteSet(Holders) /\ Cardinality(Holders) = 0
    BY <2>1, FS_EmptySet
  <2>5. slots \in 0..MaxSlots /\ slots + Cardinality(Holders) + lost.slots = MaxSlots
    BY <2>2, <2>3, <2>4
  <2>6. inherited \in BOOLEAN
    BY <2>2
  <2> QED
    BY <2>1, <2>3, <2>4, <2>5, <2>6 DEF SlotsOK
<1>5. KeysOK /\ EveryMarkerOwned
  BY <1>2 DEF ModeInit, KeysOK, EveryMarkerOwned, IdleInv
<1> QED
  BY <1>1, <1>3, <1>4, <1>5 DEF ModeInv

(* Every step of the wrapper keeps the invariant. *)
LEMMA ModeStep == ASSUME ModeInv, [ModeNext]_allVars PROVE ModeInv'
<1>1. CASE UNCHANGED allVars
  <2>1. UNCHANGED vars /\ UNCHANGED <<call, slots, tracked, inv, inherited, kind, lost>>
    BY <1>1 DEF allVars, modeVars, rest
  <2>2. BooksInv' /\ EveryMarkerOwned'
    BY <2>1, CacheUntouched DEF ModeInv
  <2>3. CallsOK'
    BY <2>1 DEF ModeInv, CallsOK, vars
  <2>4. SlotsOK'
    BY <2>1 DEF ModeInv, SlotsOK, Holders
  <2>5. KeysOK'
    BY <2>1 DEF ModeInv, KeysOK, IsAsync, Live, vars
  <2> QED
    BY <2>2, <2>3, <2>4, <2>5 DEF ModeInv
<1>2. ASSUME NEW a \in Actors, NEW k \in Keys, Lookup(a, k)
      PROVE  ModeInv'
  BY <1>2, LookupStep
<1>3. ASSUME NEW a \in Actors, RefreshStep(a)
      PROVE  ModeInv'
  BY <1>3, AcquireStep, WrapperStep, EndStep DEF RefreshStep
<1>4. ASSUME NEW a \in Actors, MissStep(a)
      PROVE  ModeInv'
  BY <1>4, WrapperStep, StoreStep DEF MissStep
<1>5. ASSUME NEW a \in Actors, EarlyCancel(a) \/ RefreshExits(a)
      PROVE  ModeInv'
  BY <1>5, CutShortStep
<1>6. CASE Fork
  BY <1>6, ForkStep
<1>7. CASE \/ ModeTick \/ Discard \/ InvalidateAll
           \/ \E k \in Keys : InvalidateKey(k) \/ DeleteNext(k)
  BY <1>7, InvalidationSteps
<1> QED
  BY <1>1, <1>2, <1>3, <1>4, <1>5, <1>6, <1>7 DEF ModeNext

(* The invariant says what is checked of slots, tokens and markers. *)
LEMMA ModeSuffices == ASSUME ModeInv PROVE RefreshesAccounted /\ LiveKeysTracked
<1>1. BytesAccounted
  BY BooksSuffice DEF ModeInv
<1>2. ModeTypeOK
  BY <1>1 DEF BytesAccounted, ModeInv, CallsOK, SlotsOK, KeysOK, ModeTypeOK, TokenPhases
<1>3. SlotsConserved
  BY DEF ModeInv, SlotsOK, SlotsConserved, Holders
<1> QED
  BY <1>2, <1>3 DEF ModeInv, RefreshesAccounted, KeysOK, LiveKeysTracked

(* The life of a refresh, for any number of calls, keys and slots: whether *)
(* it lands, fails, finds no slot or cannot be started, its slot and its   *)
(* marker are given back exactly once; only a task or thread cut short     *)
(* where the wrapper catches nothing leaves them behind                    *)
(* (wrapper.py:894-965).                                                   *)
THEOREM RefreshesAreAccounted == ModeSpec => []RefreshesAccounted
<1>1. ModeInit => ModeInv
  BY ModeStarts
<1>2. ModeInv /\ [ModeNext]_allVars => ModeInv'
  BY ModeStep
<1>3. ModeInv => RefreshesAccounted
  BY ModeSuffices
<1> QED
  BY <1>1, <1>2, <1>3, PTL DEF ModeSpec

(* An ainvalidate_cache() without arguments reaches every live entry:      *)
(* eviction and expiry only take keys away, and on an event loop nothing   *)
(* comes between a store and its tracking (wrapper.py:872-876).            *)
THEOREM KeysAreTracked == ModeSpec => []LiveKeysTracked
<1>1. ModeInit => ModeInv
  BY ModeStarts
<1>2. ModeInv /\ [ModeNext]_allVars => ModeInv'
  BY ModeStep
<1>3. ModeInv => LiveKeysTracked
  BY ModeSuffices
<1> QED
  BY <1>1, <1>2, <1>3, PTL DEF ModeSpec

(* The wrapper uses the cache so that all its promises hold under it too,  *)
(* also where ainvalidate_cache() removes every tracked key in one step    *)
(* and where a fork or an exit loses tokens (wrapper.py:894-965).          *)
THEOREM CacheHoldsInMode ==
    ModeSpec => [](BytesAccounted /\ MarkerMatchesLiveEntry /\ NoResurrection /\ SingleRefreshPerEntry)
<1>1. ModeInit => ModeInv
  BY ModeStarts
<1>2. ModeInv /\ [ModeNext]_allVars => ModeInv'
  BY ModeStep
<1>3. ModeInv => BytesAccounted /\ MarkerMatchesLiveEntry /\ NoResurrection /\ SingleRefreshPerEntry
  <2>1. ModeInv => IInv /\ BytesAccounted
    BY BooksSuffice DEF ModeInv, BooksInv
  <2> QED
    BY <2>1 DEF IInv, CacheInv, MarkerMatchesLiveEntry, NoResurrection, Live
<1> QED
  BY <1>1, <1>2, <1>3, PTL DEF ModeSpec
================================================================================
