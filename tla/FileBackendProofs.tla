--------------------------- MODULE FileBackendProofs ---------------------------
(***************************************************************************)
(* Proofs about FileBackend, for any keys, any threads in any processes,   *)
(* any limits and any number of writes: the directory implements           *)
(* LossyCache, a reader removes no file of its own process but the one it  *)
(* found dead, no lifetime is renewed once it is over, and evictions that  *)
(* overlap still leave the directory below its trigger.                    *)
(***************************************************************************)
EXTENDS FileBackend, DataTheorems

Victims == [key : Keys, mtime : Nat, size : Nat]

(* What an actor knows in each phase of its operation. *)
Reading(o) == o \in [phase : {"reading"}, key : Keys, version : Nat, dead : BOOLEAN]
Rewriting(o) ==
    o \in [phase : {"rewriting"}, key : Keys, version : Nat, expires : Nat, inode : File]
Writing(o) == o \in [phase : {"writing", "streaming", "scanning"}, key : Keys]
Evicting(o) ==
    \E n, s : \E t \in SUBSET Victims :
        o = [phase |-> "evicting", count |-> n, size |-> s, todo |-> t]

OpShape(o) == o = Idle \/ Reading(o) \/ Rewriting(o) \/ Writing(o) \/ Evicting(o)

OpsOK == op = [a \in Actors |-> op[a]] /\ \A a \in Actors : OpShape(op[a])

(* `with self._lock`: at most one operation of a process is inside. *)
LockExcludes ==
    \A a, b \in Actors :
        (a # b /\ procOf[a] = procOf[b]) => op[a].phase \notin Locked \/ op[b].phase \notin Locked

(* A file is the latest commit of its key. *)
FilesLatest == \A k \in Keys : dir[k] # None => dir[k].version = latest[k]

(* What a reader has open is still at its path, or the path leads to        *)
(* nothing or to what another process put there.                            *)
OpenOrForeign ==
    \A a \in Actors :
        (op[a].phase = "reading" /\ dir[op[a].key] # None) =>
            dir[op[a].key].version = op[a].version \/ dir[op[a].key].by # procOf[a]

IInv == TypeOK /\ OpsOK /\ LockExcludes /\ FilesLatest /\ OpenOrForeign
--------------------------------------------------------------------------------
(* The phase tells the shape. *)
LEMMA ByPhase ==
    ASSUME NEW o, OpShape(o)
    PROVE  /\ o.phase = "idle" => o = Idle
           /\ o.phase = "reading" => Reading(o)
           /\ o.phase = "rewriting" => Rewriting(o)
           /\ o.phase \in {"writing", "streaming", "scanning"} => Writing(o)
           /\ o.phase = "evicting" => Evicting(o)
BY DEF OpShape, Idle, Reading, Rewriting, Writing, Evicting

(* Files only go, or change in place. *)
DirShrinks ==
    \A k \in Keys : dir'[k] # None =>
        /\ dir[k] # None /\ dir'[k].version = dir[k].version
        /\ dir'[k].by = dir[k].by /\ dir'[k].whole = dir[k].whole

(* A step of one actor that commits nothing. *)
LEMMA ActorStep ==
    ASSUME IInv, NEW a \in Actors, NEW o, OpShape(o), op' = [op EXCEPT ![a] = o],
           UNCHANGED <<now, setting>>, orphans' \subseteq Nat,
           o.phase \in Locked =>
               op[a].phase \in Locked
               \/ \A b \in Actors : procOf[b] = procOf[a] => op[b].phase \notin Locked,
           dir' \in [Keys -> File \cup {None}], DirShrinks,
           latest' \in [Keys -> Nat], \A k \in Keys : dir'[k] # None => latest'[k] = latest[k],
           temp' \in [Actors -> TempFile \cup {None}],
           \A b \in Actors : b # a => temp'[b] = temp[b],
           temp'[a] # None => o.phase \in {"writing", "streaming"},
           owed' \in BOOLEAN,
           o.phase = "reading" => \/ o = op[a]
                                  \/ dir' = dir /\ o.version = dir[o.key].version
    PROVE  IInv'
<1>1. /\ op'[a] = o /\ \A b \in Actors : b # a => op'[b] = op[b]
      /\ op' = [b \in Actors |-> op'[b]]
  BY DEF IInv, OpsOK
<1>2. OpsOK'
  BY <1>1 DEF IInv, OpsOK
<1>3. LockExcludes'
  BY <1>1 DEF IInv, LockExcludes, setting
<1>4. FilesLatest'
  BY DEF IInv, FilesLatest, DirShrinks
<1>5. \A b \in Actors : op'[b].phase = "reading" => op'[b].key \in Keys
  BY <1>2, ByPhase DEF OpsOK, Reading
<1>6. OpenOrForeign'
  <2> SUFFICES ASSUME NEW b \in Actors, op'[b].phase = "reading", dir'[op'[b].key] # None
               PROVE  dir'[op'[b].key].version = op'[b].version \/ dir'[op'[b].key].by # procOf[b]
    BY DEF OpenOrForeign, setting
  <2>1. CASE op'[b] = op[b]
    BY <1>5, <2>1 DEF IInv, OpenOrForeign, DirShrinks
  <2>2. CASE op'[b] # op[b]
    BY <1>1, <2>2
  <2> QED
    BY <2>1, <2>2
<1>7. TypeOK'
  BY <1>1 DEF IInv, TypeOK, setting
<1> QED
  BY <1>2, <1>3, <1>4, <1>6, <1>7 DEF IInv

(* The operations that change no file: opening for a read or a refresh ... *)
LEMMA OpenInv ==
    ASSUME IInv, NEW a \in Actors, NEW k \in Keys,
           \/ \E kind \in {"read", "ttl"} : OpenRead(a, k, kind)
           \/ \E ttl \in Ttls : OpenRefresh(a, k, ttl)
    PROVE  IInv'
<1>1. /\ UNCHANGED <<dir, temp, orphans, now, ghosts, setting>> /\ dir[k] # None
      /\ op[a].phase = "idle"
      /\ \A b \in Actors : procOf[b] = procOf[a] => op[b].phase \notin Locked
  BY DEF OpenRead, OpenRefresh, ProcFree, InPhase
<1>2. /\ dir' \in [Keys -> File \cup {None}] /\ DirShrinks /\ latest' \in [Keys -> Nat]
      /\ temp' = temp /\ temp' \in [Actors -> TempFile \cup {None}] /\ temp'[a] = None
      /\ owed' \in BOOLEAN /\ latest' = latest /\ dir' = dir
      /\ UNCHANGED <<orphans, now, setting>> /\ orphans' \subseteq Nat
      /\ dir[k] \in File /\ now \in Nat
  BY <1>1 DEF IInv, TypeOK, DirShrinks, ghosts
<1>3. ASSUME NEW kind \in {"read", "ttl"}, OpenRead(a, k, kind)
      PROVE  IInv'
  <2> DEFINE o == [phase |-> "reading", key |-> k, version |-> dir[k].version,
                   dead |-> Dead(dir[k], kind)]
  <2>1. Dead(dir[k], kind) \in BOOLEAN
    BY DEF Dead
  <2>2. Reading(o) /\ o.phase = "reading" /\ o.key = k /\ o.version = dir[k].version
    BY <1>2, <2>1 DEF Reading, File
  <2>3. op' = [op EXCEPT ![a] = o]
    BY <1>3 DEF OpenRead
  <2> HIDE DEF o
  <2> QED
    BY <1>1, <1>2, <2>2, <2>3, ActorStep DEF OpShape
<1>4. ASSUME NEW ttl \in Ttls, OpenRefresh(a, k, ttl)
      PROVE  IInv'
  <2> DEFINE o == [phase |-> "rewriting", key |-> k, version |-> dir[k].version,
                   expires |-> ExpiryFrom(ttl), inode |-> dir[k]]
  <2>1. ExpiryFrom(ttl) \in Nat
    BY <1>2, FileAssumption DEF ExpiryFrom
  <2>2. Rewriting(o) /\ o.phase = "rewriting"
    BY <1>2, <2>1 DEF Rewriting, File
  <2>3. op' = [op EXCEPT ![a] = o]
    BY <1>4 DEF OpenRefresh
  <2> HIDE DEF o
  <2> QED
    BY <1>1, <1>2, <2>2, <2>3, ActorStep DEF OpShape
<1> QED
  BY <1>3, <1>4

(* ... a read that is served, a write that fails, and an interrupt. *)
LEMMA DoneInv ==
    ASSUME IInv, NEW a \in Actors, Serve(a) \/ WriteFails(a) \/ CommitFails(a) \/ Interrupt(a)
    PROVE  IInv'
<1>1. /\ op' = [op EXCEPT ![a] = Idle] /\ OpShape(Idle) /\ Idle.phase = "idle"
      /\ UNCHANGED <<dir, now, latest, setting>>
      /\ "idle" \notin Locked
  BY DEF Serve, WriteFails, CommitFails, Interrupt, End, OpShape, Idle, Locked, ghosts
<1>2. /\ dir' \in [Keys -> File \cup {None}] /\ DirShrinks /\ latest' \in [Keys -> Nat]
      /\ latest' = latest
  BY <1>1 DEF IInv, TypeOK, DirShrinks
<1>3. /\ temp' \in [Actors -> TempFile \cup {None}] /\ temp'[a] = None
      /\ \A b \in Actors : b # a => temp'[b] = temp[b]
  BY DEF IInv, TypeOK, Serve, WriteFails, CommitFails, Interrupt, InPhase
<1>4. orphans' \subseteq Nat /\ owed' \in BOOLEAN
  <2>1. temp[a] # None => temp[a].mtime \in Nat
    BY DEF IInv, TypeOK, TempFile
  <2> QED
    BY <2>1 DEF IInv, TypeOK, Serve, WriteFails, CommitFails, Interrupt, ghosts
<1> QED
  BY <1>1, <1>2, <1>3, <1>4, ActorStep

(* A reader that removes a dead file. *)
LEMMA DropDeadInv ==
    ASSUME IInv, NEW a \in Actors, DropDead(a)
    PROVE  IInv'
<1>1. /\ op' = [op EXCEPT ![a] = Idle] /\ OpShape(Idle) /\ Idle.phase = "idle"
      /\ UNCHANGED <<temp, orphans, now, ghosts, setting>>
      /\ "idle" \notin Locked
  BY DEF DropDead, End, OpShape, Idle, Locked
<1>2. /\ dir' \in [Keys -> File \cup {None}] /\ DirShrinks
  BY DEF IInv, TypeOK, DirShrinks, DropDead
<1>3. /\ latest' \in [Keys -> Nat] /\ owed' \in BOOLEAN /\ latest' = latest
      /\ temp' \in [Actors -> TempFile \cup {None}] /\ temp' = temp /\ temp'[a] = None
      /\ UNCHANGED <<orphans, now, setting>> /\ orphans' \subseteq Nat
  BY <1>1 DEF IInv, TypeOK, ghosts, DropDead, InPhase
<1> QED
  BY <1>1, <1>2, <1>3, ActorStep

(* What refresh_ttl makes of the file at its path. *)
LEMMA RewriteDir ==
    ASSUME IInv, NEW a \in Actors, Rewrite(a)
    PROVE  /\ dir' \in [Keys -> File \cup {None}] /\ DirShrinks
           /\ op[a].key \in Keys /\ op[a].expires \in Nat
           /\ \A k \in Keys : k # op[a].key => dir'[k] = dir[k]
<1> DEFINE k == op[a].key
           o == op[a]
<1>1. k \in Keys /\ o.expires \in Nat /\ now \in Nat /\ dir \in [Keys -> File \cup {None}]
  BY ByPhase DEF IInv, TypeOK, OpsOK, Rewrite, InPhase, Rewriting
<1>2. \/ dir' = [dir EXCEPT ![k] = None]
      \/ Same(k, o.version) /\ dir' = [dir EXCEPT ![k].expires = o.expires, ![k].mtime = now]
      \/ dir' = dir
  BY DEF Rewrite
<1>3. CASE dir' = [dir EXCEPT ![k] = None] \/ dir' = dir
  BY <1>1, <1>3 DEF DirShrinks
<1>4. CASE Same(k, o.version) /\ dir' = [dir EXCEPT ![k].expires = o.expires, ![k].mtime = now]
  <2> DEFINE g == [dir[k] EXCEPT !.expires = o.expires, !.mtime = now]
  <2>1. dir[k] \in File
    BY <1>1, <1>4 DEF Same
  <2>2. g \in File /\ g.version = dir[k].version /\ g.by = dir[k].by /\ g.whole = dir[k].whole
    BY <1>1, <2>1 DEF File
  <2>3. dir' = [dir EXCEPT ![k] = g]
    BY <1>1, <1>4
  <2> HIDE DEF g
  <2> QED
    BY <1>1, <2>1, <2>2, <2>3, FileAssumption DEF DirShrinks
<1> QED
  BY <1>1, <1>2, <1>3, <1>4

(* refresh_ttl keeps the invariant. *)
LEMMA RewriteInv ==
    ASSUME IInv, NEW a \in Actors, Rewrite(a)
    PROVE  IInv'
<1>1. /\ op' = [op EXCEPT ![a] = Idle] /\ OpShape(Idle) /\ Idle.phase = "idle"
      /\ UNCHANGED <<temp, orphans, now, ghosts, setting>>
      /\ "idle" \notin Locked
  BY DEF Rewrite, End, OpShape, Idle, Locked
<1>2. /\ latest' \in [Keys -> Nat] /\ owed' \in BOOLEAN /\ latest' = latest
      /\ temp' \in [Actors -> TempFile \cup {None}] /\ temp' = temp /\ temp'[a] = None
      /\ UNCHANGED <<orphans, now, setting>> /\ orphans' \subseteq Nat
  BY <1>1 DEF IInv, TypeOK, ghosts, Rewrite, InPhase
<1> QED
  BY <1>1, <1>2, RewriteDir, ActorStep

(* delete *)
LEMMA DeleteInv ==
    ASSUME IInv, NEW a \in Actors, NEW k \in Keys, Delete(a, k)
    PROVE  IInv'
<1>1. /\ op' = [op EXCEPT ![a] = op[a]] /\ OpShape(op[a])
      /\ UNCHANGED <<temp, orphans, now, setting>> /\ orphans' \subseteq Nat
  BY DEF Delete, IInv, OpsOK, TypeOK
<1>2. /\ dir' \in [Keys -> File \cup {None}] /\ DirShrinks /\ latest' \in [Keys -> Nat]
      /\ \A kk \in Keys : dir'[kk] # None => latest'[kk] = latest[kk]
  BY DEF IInv, TypeOK, DirShrinks, Delete
<1>3. /\ owed' \in BOOLEAN /\ temp' \in [Actors -> TempFile \cup {None}] /\ temp' = temp
      /\ temp'[a] # None => op[a].phase \in {"writing", "streaming"}
  BY <1>1 DEF IInv, TypeOK, Delete
<1> QED
  BY <1>1, <1>2, <1>3, ActorStep

(* A write or a stream begins, and a stream goes on. *)
LEMMA WriteInv ==
    ASSUME IInv, NEW a \in Actors,
           \/ \E k \in Keys, ttl \in Ttls, size \in Sizes, streaming \in BOOLEAN :
                StartWrite(a, k, size, ttl, streaming)
           \/ StreamOn(a)
    PROVE  IInv'
<1>1. /\ UNCHANGED <<dir, orphans, now, ghosts, setting>>
  BY DEF StartWrite, StreamOn
<1>2. /\ dir' \in [Keys -> File \cup {None}] /\ DirShrinks /\ latest' \in [Keys -> Nat]
      /\ owed' \in BOOLEAN /\ latest' = latest
      /\ UNCHANGED <<orphans, now, setting>> /\ orphans' \subseteq Nat /\ now \in Nat
      /\ temp \in [Actors -> TempFile \cup {None}]
  BY <1>1 DEF IInv, TypeOK, DirShrinks, ghosts
<1>3. ASSUME NEW k \in Keys, NEW ttl \in Ttls, NEW size \in Sizes, NEW streaming \in BOOLEAN,
             StartWrite(a, k, size, ttl, streaming)
      PROVE  IInv'
  <2> DEFINE o == [phase |-> IF streaming THEN "streaming" ELSE "writing", key |-> k]
             t == [expires |-> ExpiryFrom(ttl), mtime |-> now, size |-> size]
  <2>1. t \in TempFile
    BY <1>2, FileAssumption DEF ExpiryFrom, TempFile
  <2>2. Writing(o) /\ o.phase \in {"writing", "streaming"}
    BY DEF Writing
  <2>3. op' = [op EXCEPT ![a] = o] /\ temp' = [temp EXCEPT ![a] = t]
    BY <1>3 DEF StartWrite
  <2>4. \A b \in Actors : procOf[b] = procOf[a] => op[b].phase \notin Locked
    BY <1>3 DEF StartWrite, ProcFree
  <2> HIDE DEF o, t
  <2> QED
    BY <1>2, <2>1, <2>2, <2>3, <2>4, ActorStep DEF OpShape
<1>4. CASE StreamOn(a)
  <2> DEFINE t == [temp[a] EXCEPT !.mtime = now]
  <2>1. /\ op' = [op EXCEPT ![a] = op[a]] /\ OpShape(op[a]) /\ op[a].phase = "streaming"
        /\ temp' = [temp EXCEPT ![a] = t]
    BY <1>2, <1>4 DEF StreamOn, IInv, OpsOK, InPhase
  <2>2. t \in TempFile
    BY <1>2, <1>4 DEF TempFile, StreamOn
  <2> HIDE DEF t
  <2> QED
    BY <1>2, <2>1, <2>2, ActorStep
<1> QED
  BY <1>3, <1>4

(* The listing of the directory. *)
LEMMA ScanInv ==
    ASSUME IInv, NEW a \in Actors, Scan(a)
    PROVE  IInv'
<1> DEFINE t == {[key |-> k, mtime |-> dir[k].mtime, size |-> dir[k].size] : k \in Present}
           e == [phase |-> "evicting", count |-> Cardinality(Present), size |-> SizeOf(Present),
                 todo |-> t]
           o == IF MustEvict THEN e ELSE Idle
<1>1. t \in SUBSET Victims
  BY DEF Present, Victims, IInv, TypeOK, File
<1>2. Evicting(e)
  BY <1>1 DEF Evicting
<1>3. OpShape(o) /\ o.phase \in {"evicting", "idle"}
  BY <1>2 DEF OpShape, Idle
<1>4. op' = [op EXCEPT ![a] = o]
  BY DEF Scan
<1>5. op[a].phase \in Locked /\ op[a].phase = "scanning"
  BY DEF Scan, InPhase, Locked
<1>6. UNCHANGED <<dir, temp, latest>>
  BY DEF Scan
<1>7. /\ dir' \in [Keys -> File \cup {None}] /\ DirShrinks /\ latest' \in [Keys -> Nat]
      /\ owed' \in BOOLEAN /\ latest' = latest /\ temp' = temp
      /\ temp' \in [Actors -> TempFile \cup {None}] /\ temp'[a] = None
      /\ UNCHANGED <<orphans, now, setting>> /\ orphans' \subseteq Nat
  BY <1>5, <1>6 DEF IInv, TypeOK, DirShrinks, Scan
<1> HIDE DEF o
<1> QED
  BY <1>3, <1>4, <1>5, <1>7, ActorStep

(* One removal of an eviction, as a whole. *)
Removes(a, v) ==
    LET gone == dir[v.key] = None
    IN  /\ dir' = [dir EXCEPT ![v.key] = None]
        /\ op' = [op EXCEPT ![a] =
                    [phase |-> "evicting",
                     count |-> IF gone THEN op[a].count ELSE op[a].count - 1,
                     size |-> IF gone THEN op[a].size ELSE op[a].size - v.size,
                     todo |-> op[a].todo \ {v}]]

(* The next file cannot be removed. *)
PassesOver(a) ==
    /\ UNCHANGED dir /\ owed' = TRUE
    /\ \E t \in SUBSET Victims :
         op' = [op EXCEPT ![a] = [phase |-> "evicting", count |-> op[a].count,
                                  size |-> op[a].size, todo |-> t]]

(* An eviction stops, or removes the next file of its listing, or cannot. *)
LEMMA EvictShape ==
    ASSUME IInv, NEW a \in Actors, EvictNext(a)
    PROVE  /\ Evicting(op[a])
           /\ \/ /\ End(a) /\ UNCHANGED <<dir, owed>>
                 /\ Enough(op[a].count, op[a].size) \/ op[a].todo = {}
              \/ UNCHANGED owed /\ \E v \in op[a].todo : Removes(a, v)
              \/ PassesOver(a)
<1>0. Evicting(op[a])
  BY ByPhase DEF EvictNext, InPhase, IInv, OpsOK
<1>1. PICK n, s : \E t \in SUBSET Victims :
        op[a] = [phase |-> "evicting", count |-> n, size |-> s, todo |-> t]
  BY <1>0 DEF Evicting
<1>2. PICK t \in SUBSET Victims :
        op[a] = [phase |-> "evicting", count |-> n, size |-> s, todo |-> t]
  BY <1>1
<1>3. ASSUME NEW v \in op[a].todo,
             dir' = [dir EXCEPT ![v.key] = None],
             op' = [op EXCEPT ![a].todo = @ \ {v},
                              ![a].count = IF dir[v.key] = None THEN @ ELSE @ - 1,
                              ![a].size = IF dir[v.key] = None THEN @ ELSE @ - v.size]
      PROVE  Removes(a, v)
  <2> DEFINE n2 == IF dir[v.key] = None THEN n ELSE n - 1
             s2 == IF dir[v.key] = None THEN s ELSE s - v.size
             o == [phase |-> "evicting", count |-> n2, size |-> s2, todo |-> t \ {v}]
  <2>1. op' = [op EXCEPT ![a] = [op[a] EXCEPT
                 !.todo = op[a].todo \ {v},
                 !.count = IF dir[v.key] = None THEN op[a].count ELSE op[a].count - 1,
                 !.size = IF dir[v.key] = None THEN op[a].size ELSE op[a].size - v.size]]
    BY <1>3, Zenon DEF IInv, OpsOK
  <2>2. op[a].todo = t /\ op[a].count = n /\ op[a].size = s
    BY <1>2
  <2> DEFINE r1 == [op[a] EXCEPT !.todo = t \ {v}]
             r2 == [r1 EXCEPT !.count = n2]
             r3 == [r2 EXCEPT !.size = s2]
  <2>3. r1 = [phase |-> "evicting", count |-> n, size |-> s, todo |-> t \ {v}]
    BY <1>2
  <2> HIDE DEF n2, s2
  <2>4. r2 = [phase |-> "evicting", count |-> n2, size |-> s, todo |-> t \ {v}]
    <3> HIDE DEF r1
    <3> QED
      BY <2>3
  <2>5. r3 = o
    <3> HIDE DEF r2
    <3> QED
      BY <2>4
  <2>6. op' = [op EXCEPT ![a] = r3]
    BY <2>1, <2>2, Zenon DEF n2, s2
  <2>7. op' = [op EXCEPT ![a] = o]
    BY <2>5, <2>6
  <2> QED
    BY <1>3, <2>2, <2>7, Zenon DEF Removes, n2, s2
<1>4. ASSUME NEW v \in op[a].todo, UNCHANGED dir, owed' = TRUE,
             op' = [op EXCEPT ![a].todo = @ \ {v}]
      PROVE  PassesOver(a)
  <2> DEFINE r == [op[a] EXCEPT !.todo = t \ {v}]
             o == [phase |-> "evicting", count |-> n, size |-> s, todo |-> t \ {v}]
  <2>1. op[a].todo = t /\ op[a].count = n /\ op[a].size = s /\ t \ {v} \in SUBSET Victims
    BY <1>2
  <2>2. op' = [op EXCEPT ![a] = r]
    BY <1>4, <2>1, Zenon DEF IInv, OpsOK
  <2>3. r = o
    BY <1>2
  <2>4. op' = [op EXCEPT ![a] = o]
    BY <2>2, <2>3
  <2> QED
    BY <1>4, <2>1, <2>4, Zenon DEF PassesOver
<1> QED
  BY <1>0, <1>3, <1>4 DEF EvictNext

(* One step of the eviction. *)
LEMMA EvictInv ==
    ASSUME IInv, NEW a \in Actors, EvictNext(a)
    PROVE  IInv'
<1>1. Evicting(op[a]) /\ op[a].phase = "evicting" /\ op[a].phase \in Locked
  BY EvictShape DEF Evicting, Locked, EvictNext, InPhase
<1>2. op[a].todo \in SUBSET Victims
  BY <1>1 DEF Evicting
<1>4. /\ latest' \in [Keys -> Nat] /\ owed' \in BOOLEAN /\ latest' = latest /\ temp' = temp
      /\ temp' \in [Actors -> TempFile \cup {None}] /\ temp'[a] = None
      /\ UNCHANGED <<orphans, now, setting>> /\ orphans' \subseteq Nat
      /\ dir \in [Keys -> File \cup {None}]
  BY <1>1, EvictShape DEF IInv, TypeOK, EvictNext, PassesOver
<1>5. CASE End(a) /\ UNCHANGED dir
  <2>1. /\ op' = [op EXCEPT ![a] = Idle] /\ OpShape(Idle) /\ Idle.phase = "idle"
    BY <1>5 DEF End, OpShape, Idle
  <2>2. DirShrinks /\ dir' = dir
    BY <1>5 DEF DirShrinks
  <2> QED
    BY <1>1, <1>4, <2>1, <2>2, ActorStep
<1>6. ASSUME NEW v \in op[a].todo, Removes(a, v)
      PROVE  IInv'
  <2> DEFINE n2 == IF dir[v.key] = None THEN op[a].count ELSE op[a].count - 1
             s2 == IF dir[v.key] = None THEN op[a].size ELSE op[a].size - v.size
             o == [phase |-> "evicting", count |-> n2, size |-> s2, todo |-> op[a].todo \ {v}]
  <2>1. op' = [op EXCEPT ![a] = o] /\ dir' = [dir EXCEPT ![v.key] = None]
    BY <1>6 DEF Removes
  <2>2. Evicting(o) /\ o.phase = "evicting"
    <3>1. op[a].todo \ {v} \in SUBSET Victims
      BY <1>2
    <3> HIDE DEF n2, s2
    <3> QED
      BY <3>1 DEF Evicting
  <2>3. v.key \in Keys
    BY <1>2, <1>6 DEF Victims
  <2>4. dir' \in [Keys -> File \cup {None}] /\ DirShrinks
    BY <1>4, <2>1, <2>3 DEF DirShrinks
  <2> HIDE DEF o
  <2> QED
    BY <1>1, <1>4, <2>1, <2>2, <2>4, ActorStep DEF OpShape
<1>7. CASE PassesOver(a)
  <2>1. PICK t \in SUBSET Victims :
          op' = [op EXCEPT ![a] = [phase |-> "evicting", count |-> op[a].count,
                                   size |-> op[a].size, todo |-> t]]
    BY <1>7 DEF PassesOver
  <2> DEFINE o == [phase |-> "evicting", count |-> op[a].count, size |-> op[a].size, todo |-> t]
  <2>2. Evicting(o) /\ o.phase = "evicting" /\ op' = [op EXCEPT ![a] = o]
    BY <2>1 DEF Evicting
  <2>3. DirShrinks /\ dir' = dir
    BY <1>7 DEF DirShrinks, PassesOver
  <2> HIDE DEF o
  <2> QED
    BY <1>1, <1>4, <2>2, <2>3, ActorStep DEF OpShape
<1> QED
  BY <1>5, <1>6, <1>7, EvictShape

(* What the rename puts at the path. *)
LEMMA CommitDir ==
    ASSUME IInv, NEW a \in Actors, Commit(a)
    PROVE  LET k == op[a].key
           IN  /\ k \in Keys /\ procOf[a] \in Procs
               /\ dir' \in [Keys -> File \cup {None}]
               /\ \A kk \in Keys : kk # k => dir'[kk] = dir[kk]
               /\ dir'[k] # None /\ dir'[k].version = latest[k] + 1 /\ dir'[k].by = procOf[a]
               /\ latest' = [latest EXCEPT ![k] = @ + 1]
               /\ latest' \in [Keys -> Nat]
<1> DEFINE k == op[a].key
<1>1. k \in Keys
  BY ByPhase DEF Commit, MayCommit, InPhase, IInv, OpsOK, Writing
<1>2. procOf[a] \in Procs /\ temp[a] \in TempFile
  BY FileAssumption DEF Commit, IInv, TypeOK
<1>3. ASSUME NEW size \in Nat, NEW valid \in BOOLEAN, NEW whole \in BOOLEAN
      PROVE  /\ Committed(a, size, valid, whole) \in File
             /\ Committed(a, size, valid, whole).version = latest[k] + 1
             /\ Committed(a, size, valid, whole).by = procOf[a]
  BY <1>1, <1>2, <1>3 DEF IInv, TypeOK, File, TempFile, Committed
<1>6. PICK f : /\ dir' = [dir EXCEPT ![k] = f]
               /\ f \in File /\ f.version = latest[k] + 1 /\ f.by = procOf[a]
  <2>1. temp[a].size \in Nat /\ \A z \in 0..temp[a].size : z \in Nat /\ (z > 0) \in BOOLEAN
    BY <1>2 DEF TempFile
  <2>2. CASE dir' = [dir EXCEPT ![k] = Committed(a, temp[a].size, TRUE, TRUE)]
    <3>1. TRUE \in BOOLEAN
      OBVIOUS
    <3> QED
      BY <1>3, <2>1, <2>2, <3>1, Zenon
  <2>3. ASSUME NEW z \in 0..temp[a].size,
               dir' = [dir EXCEPT ![k] = Committed(a, z, z > 0, FALSE)]
        PROVE  \E f : /\ dir' = [dir EXCEPT ![k] = f]
                      /\ f \in File /\ f.version = latest[k] + 1 /\ f.by = procOf[a]
    <3>1. FALSE \in BOOLEAN /\ z \in Nat /\ (z > 0) \in BOOLEAN
      BY <2>1
    <3> QED
      BY <1>3, <2>3, <3>1, Zenon
  <2>4. \/ dir' = [dir EXCEPT ![k] = Committed(a, temp[a].size, TRUE, TRUE)]
        \/ \E z \in 0..temp[a].size : dir' = [dir EXCEPT ![k] = Committed(a, z, z > 0, FALSE)]
    BY Zenon DEF Commit
  <2> QED
    BY <2>2, <2>3, <2>4, Zenon
<1>4. latest' = [latest EXCEPT ![k] = @ + 1]
  BY DEF Commit
<1>5. dir \in [Keys -> File \cup {None}] /\ latest \in [Keys -> Nat]
  BY DEF IInv, TypeOK
<1> QED
  BY <1>1, <1>2, <1>4, <1>5, <1>6, FileAssumption

(* The rename: no thread of the process is reading or writing meanwhile. *)
LEMMA CommitInv ==
    ASSUME IInv, NEW a \in Actors, Commit(a)
    PROVE  IInv'
<1> DEFINE k == op[a].key
           o == [phase |-> "scanning", key |-> k]
<1>1. /\ k \in Keys /\ dir' \in [Keys -> File \cup {None}]
      /\ \A kk \in Keys : kk # k => dir'[kk] = dir[kk]
      /\ dir'[k] # None /\ dir'[k].version = latest[k] + 1 /\ dir'[k].by = procOf[a]
      /\ latest' = [latest EXCEPT ![k] = @ + 1]
      /\ latest' \in [Keys -> Nat]
  BY CommitDir
<1>2. Writing(o) /\ o.phase = "scanning"
  BY <1>1 DEF Writing
<1>3. /\ op' = [op EXCEPT ![a] = o] /\ temp' = [temp EXCEPT ![a] = None]
      /\ UNCHANGED <<orphans, now, owed, setting>>
  BY DEF Commit
<1> HIDE DEF o
<1>4. /\ op'[a] = o /\ \A b \in Actors : b # a => op'[b] = op[b]
      /\ op' = [b \in Actors |-> op'[b]]
  BY <1>3 DEF IInv, OpsOK
<1>5. \A b \in Actors : b # a /\ procOf[b] = procOf[a] => op[b].phase \notin Locked
  BY DEF Commit, MayCommit, ProcFree, InPhase, Locked, IInv, LockExcludes
<1>6. OpsOK'
  BY <1>2, <1>4 DEF IInv, OpsOK, OpShape
<1>7. LockExcludes'
  BY <1>3, <1>4, <1>5 DEF IInv, LockExcludes, setting
<1>8. FilesLatest'
  BY <1>1 DEF IInv, FilesLatest, TypeOK
<1>9. OpenOrForeign'
  <2> SUFFICES ASSUME NEW b \in Actors, op'[b].phase = "reading", dir'[op'[b].key] # None
               PROVE  dir'[op'[b].key].version = op'[b].version \/ dir'[op'[b].key].by # procOf[b]
    BY <1>3 DEF OpenOrForeign, setting
  <2>1. b # a /\ op'[b] = op[b] /\ procOf[b] # procOf[a]
    BY <1>2, <1>4, <1>5 DEF Locked
  <2>2. op[b].key \in Keys
    BY <2>1, ByPhase DEF IInv, OpsOK, Reading
  <2> QED
    BY <1>1, <2>1, <2>2 DEF IInv, OpenOrForeign
<1>10. TypeOK'
  BY <1>1, <1>3, <1>4 DEF IInv, TypeOK, setting
<1> QED
  BY <1>6, <1>7, <1>8, <1>9, <1>10 DEF IInv

(* Time, the clean-up of temporary files, and damage. *)
LEMMA AroundInv ==
    ASSUME IInv, Tick \/ Startup \/ \E k \in Keys : Damage(k)
    PROVE  IInv'
<1>1. /\ UNCHANGED <<op, ghosts, setting>>
  BY DEF Tick, Startup, Damage
<1>2. dir' \in [Keys -> File \cup {None}] /\ DirShrinks
  <2>0. dir \in [Keys -> File \cup {None}]
    BY DEF IInv, TypeOK
  <2>1. CASE Tick \/ Startup
    BY <2>0, <2>1 DEF Tick, Startup, DirShrinks
  <2>2. ASSUME NEW k \in Keys, Damage(k)
        PROVE  dir' \in [Keys -> File \cup {None}] /\ DirShrinks
    <3> DEFINE g == [dir[k] EXCEPT !.valid = FALSE]
    <3>1. dir[k] \in File
      BY <2>0, <2>2 DEF Damage
    <3>2. g \in File /\ g.version = dir[k].version /\ g.by = dir[k].by /\ g.whole = dir[k].whole
      BY <3>1 DEF File
    <3>3. dir' = [dir EXCEPT ![k] = g]
      BY <2>0, <2>2 DEF Damage
    <3> HIDE DEF g
    <3> QED
      BY <2>0, <3>1, <3>2, <3>3, FileAssumption DEF DirShrinks
  <2> QED
    BY <2>1, <2>2
<1>3. /\ temp' \in [Actors -> TempFile \cup {None}]
      /\ \A a \in Actors : temp'[a] # None => temp[a] # None
      /\ orphans' \subseteq Nat /\ now' \in Nat
  BY DEF IInv, TypeOK, Tick, Startup, Damage
<1>4. OpsOK' /\ LockExcludes'
  BY <1>1 DEF IInv, OpsOK, LockExcludes, setting
<1>5. FilesLatest'
  BY <1>1, <1>2 DEF IInv, FilesLatest, DirShrinks, ghosts
<1>6. OpenOrForeign'
  <2>1. \A b \in Actors : op[b].phase = "reading" => op[b].key \in Keys
    BY ByPhase DEF IInv, OpsOK, Reading
  <2> QED
    BY <1>1, <1>2, <2>1 DEF IInv, OpenOrForeign, DirShrinks, setting
<1>7. TypeOK'
  BY <1>1, <1>2, <1>3 DEF IInv, TypeOK, ghosts, setting
<1> QED
  BY <1>4, <1>5, <1>6, <1>7 DEF IInv

(* A process dies between any two steps. *)
LEMMA CrashInv ==
    ASSUME IInv, NEW p \in Procs, Crash(p)
    PROVE  IInv'
<1>1. /\ UNCHANGED <<dir, now, latest, setting>>
      /\ op' = [a \in Actors |-> IF procOf[a] = p THEN Idle ELSE op[a]]
      /\ temp' = [a \in Actors |-> IF procOf[a] = p THEN None ELSE temp[a]]
      /\ owed' \in BOOLEAN
  BY DEF Crash
<1>2. orphans' \subseteq Nat
  <2>1. \A a \in Actors : temp[a] # None => temp[a].mtime \in Nat
    BY DEF IInv, TypeOK, TempFile
  <2> QED
    BY <2>1 DEF Crash, IInv, TypeOK
<1>3. Idle.phase = "idle" /\ OpShape(Idle) /\ "idle" \notin Locked
  BY DEF Idle, OpShape, Locked
<1> HIDE DEF Idle
<1>4. OpsOK'
  BY <1>1, <1>3 DEF IInv, OpsOK
<1>5. LockExcludes'
  BY <1>1, <1>3 DEF IInv, LockExcludes, setting
<1>6. FilesLatest'
  BY <1>1 DEF IInv, FilesLatest
<1>7. OpenOrForeign'
  BY <1>1, <1>3 DEF IInv, OpenOrForeign, setting
<1>8. TypeOK'
  BY <1>1, <1>2, <1>3 DEF IInv, TypeOK, setting
<1> QED
  BY <1>4, <1>5, <1>6, <1>7, <1>8 DEF IInv
--------------------------------------------------------------------------------
(* An empty directory. *)
LEMMA InitInv == ASSUME Init PROVE IInv
<1>1. TypeOK
  BY FileAssumption DEF Init, TypeOK
<1> QED
  BY <1>1 DEF Init, IInv, OpsOK, OpShape, Idle, LockExcludes, Locked, FilesLatest, OpenOrForeign

(* Every step of every thread, and what happens around them. *)
LEMMA StepInv == ASSUME IInv, [Next]_vars PROVE IInv'
<1>1. CASE UNCHANGED vars
  BY <1>1 DEF vars, ghosts, setting, IInv, TypeOK, OpsOK, LockExcludes, FilesLatest, OpenOrForeign
<1>2. CASE Tick \/ Startup \/ \E k \in Keys : Damage(k)
  BY <1>2, AroundInv
<1>3. CASE \E p \in Procs : Crash(p)
  BY <1>3, CrashInv
<1>4. ASSUME NEW a \in Actors,
             \/ Serve(a) \/ DropDead(a) \/ Rewrite(a)
             \/ StreamOn(a) \/ WriteFails(a) \/ Interrupt(a) \/ Commit(a) \/ CommitFails(a)
             \/ Scan(a) \/ EvictNext(a)
      PROVE  IInv'
  BY <1>4, DoneInv, DropDeadInv, RewriteInv, WriteInv, CommitInv, ScanInv, EvictInv
<1>5. ASSUME NEW a \in Actors, NEW k \in Keys,
             \/ Delete(a, k)
             \/ \E kind \in {"read", "ttl"} : OpenRead(a, k, kind)
             \/ \E ttl \in Ttls :
                  \/ OpenRefresh(a, k, ttl)
                  \/ \E size \in Sizes, streaming \in BOOLEAN :
                       StartWrite(a, k, size, ttl, streaming)
      PROVE  IInv'
  BY <1>5, DeleteInv, OpenInv, WriteInv
<1> QED
  BY <1>1, <1>2, <1>3, <1>4, <1>5 DEF Next

(* IInv holds whatever the processes that share the directory do. *)
THEOREM InductiveInvariant == Spec => []IInv
<1>1. Init => IInv
  BY InitInv
<1>2. IInv /\ [Next]_vars => IInv'
  BY StepInv
<1> QED
  BY <1>1, <1>2, PTL DEF Spec

(* Files are well formed, and a temporary file under the name of a write    *)
(* belongs to one in progress: it is committed, or discarded                *)
(* (backend.py:373-375, 476-482), or else an orphan for a later start.      *)
THEOREM TypeCorrect == Spec => []TypeOK
<1>1. IInv => TypeOK
  BY DEF IInv
<1> QED
  BY <1>1, InductiveInvariant, PTL

(* The path of a key leads to the latest commit of the key or to nothing,  *)
(* whichever process renamed, refreshed, evicted or cleaned up last        *)
(* (backend.py:340-400).                                                   *)
THEOREM LatestOrNothing == Spec => []FilesLatest
<1>1. IInv => FilesLatest
  BY DEF IInv
<1> QED
  BY <1>1, InductiveInvariant, PTL
--------------------------------------------------------------------------------
(* All steps but renames and deletes only lose files, or change them in    *)
(* place.                                                                  *)
LEMMA OthersShrink ==
    ASSUME IInv, [Next]_vars,
           \A a \in Actors : ~Commit(a) /\ \A k \in Keys : ~Delete(a, k)
    PROVE  DirShrinks /\ UNCHANGED latest
<1>0. dir \in [Keys -> File \cup {None}]
  BY DEF IInv, TypeOK
<1>1. ASSUME UNCHANGED <<dir, latest>> PROVE DirShrinks /\ UNCHANGED latest
  BY <1>1 DEF DirShrinks
<1>2. CASE UNCHANGED vars
  BY <1>1, <1>2 DEF vars, ghosts
<1>3. CASE Tick \/ Startup \/ \E p \in Procs : Crash(p)
  BY <1>1, <1>3 DEF Tick, Startup, Crash, ghosts
<1>4. ASSUME NEW k \in Keys, Damage(k) PROVE DirShrinks /\ UNCHANGED latest
  <2>1. dir[k] \in File
    BY <1>0, <1>4 DEF Damage
  <2>2. dir'[k].version = dir[k].version /\ dir'[k].by = dir[k].by /\ dir'[k].whole = dir[k].whole
    BY <1>0, <1>4, <2>1 DEF Damage, File
  <2> QED
    BY <1>0, <1>4, <2>2 DEF Damage, DirShrinks, ghosts
<1>5. ASSUME NEW a \in Actors,
             \/ Serve(a) \/ StreamOn(a) \/ WriteFails(a) \/ Interrupt(a) \/ CommitFails(a) \/ Scan(a)
             \/ \E k \in Keys :
                  \/ \E kind \in {"read", "ttl"} : OpenRead(a, k, kind)
                  \/ \E ttl \in Ttls :
                       \/ OpenRefresh(a, k, ttl)
                       \/ \E size \in Sizes, streaming \in BOOLEAN :
                            StartWrite(a, k, size, ttl, streaming)
      PROVE  DirShrinks /\ UNCHANGED latest
  BY <1>1, <1>5
     DEF Serve, StreamOn, WriteFails, Interrupt, CommitFails, Scan, OpenRead, OpenRefresh, StartWrite, ghosts
<1>6. ASSUME NEW a \in Actors, DropDead(a) PROVE DirShrinks /\ UNCHANGED latest
  BY <1>0, <1>6 DEF DropDead, DirShrinks, ghosts
<1>7. ASSUME NEW a \in Actors, Rewrite(a) PROVE DirShrinks /\ UNCHANGED latest
  BY <1>7, RewriteDir DEF Rewrite, ghosts
<1>8. ASSUME NEW a \in Actors, EvictNext(a) PROVE DirShrinks /\ UNCHANGED latest
  BY <1>0, <1>8 DEF EvictNext, DirShrinks
<1> QED
  BY <1>2, <1>3, <1>4, <1>5, <1>6, <1>7, <1>8 DEF Next

(* Losing files is what a LossyCache may do at any time. *)
LEMMA ShrinkIsLose ==
    ASSUME DirShrinks, UNCHANGED latest
    PROVE  Lossy!Lose
BY DEF Lossy!Lose, Lossy!KeepsOrLoses, Held, DirShrinks

(* A rename is the write of its key. *)
LEMMA CommitIsWrite ==
    ASSUME IInv, NEW a \in Actors, Commit(a)
    PROVE  Lossy!Write(op[a].key) /\ op[a].key \in Keys
<1> DEFINE k == op[a].key
<1>1. /\ k \in Keys
      /\ \A kk \in Keys : kk # k => dir'[kk] = dir[kk]
      /\ dir'[k] # None /\ dir'[k].version = latest[k] + 1
      /\ latest' = [latest EXCEPT ![k] = @ + 1]
  BY CommitDir
<1>2. DOMAIN Held' = Keys /\ Held'[k] \in {latest[k] + 1, None}
      /\ \A kk \in Keys \ {k} : Held'[kk] = Held[kk]
  BY <1>1 DEF Held
<1> QED
  BY <1>1, <1>2 DEF Lossy!Write, Lossy!KeepsOrLoses

(* A delete is an invalidation of its key. *)
LEMMA DeleteIsInvalidate ==
    ASSUME IInv, NEW a \in Actors, NEW k \in Keys, Delete(a, k)
    PROVE  Lossy!Invalidate({k})
<1>1. /\ latest \in [Keys -> Nat] /\ dir \in [Keys -> File \cup {None}]
      /\ latest' = [latest EXCEPT ![k] = @ + 1] /\ dir' = [dir EXCEPT ![k] = None]
  BY DEF Delete, IInv, TypeOK
<1>2. latest' = [kk \in Keys |-> IF kk \in {k} THEN latest[kk] + 1 ELSE latest[kk]]
  BY <1>1
<1>3. DOMAIN Held' = Keys /\ Held'[k] = None
      /\ \A kk \in Keys \ {k} : Held'[kk] = Held[kk]
  BY <1>1 DEF Held
<1> QED
  BY <1>2, <1>3 DEF Lossy!Invalidate, Lossy!KeepsOrLoses

(* Step by step. *)
LEMMA StepSimulates ==
    ASSUME IInv, [Next]_vars
    PROVE  [Lossy!Next]_<<Held, latest>>
<1>1. ASSUME NEW a \in Actors, Commit(a) PROVE Lossy!Next
  BY <1>1, CommitIsWrite DEF Lossy!Next
<1>2. ASSUME NEW a \in Actors, NEW k \in Keys, Delete(a, k) PROVE Lossy!Next
  <2>1. {k} \in SUBSET Keys
    OBVIOUS
  <2> QED
    BY <1>2, <2>1, DeleteIsInvalidate DEF Lossy!Next
<1>3. CASE \A a \in Actors : ~Commit(a) /\ \A k \in Keys : ~Delete(a, k)
  BY <1>3, OthersShrink, ShrinkIsLose DEF Lossy!Next
<1> QED
  BY <1>1, <1>2, <1>3

(* A directory shared by any number of processes and threads is a           *)
(* LossyCache: a whole value it holds for a key is that of the latest       *)
(* commit (backend.py:340-400, 391 "a failed stream never leaves a partial  *)
(* value visible under key"), and one that a short os.write of set() cut    *)
(* off (backend.py:357) hides every older one.                              *)
THEOREM ImplementsLossy == Spec => ImplementsLossyCache
<1>1. Init => Lossy!Init
  BY DEF Init, Lossy!Init, Held
<1>2. IInv /\ [Next]_vars => [Lossy!Next]_<<Held, latest>>
  BY StepSimulates
<1> QED
  BY <1>1, <1>2, InductiveInvariant, PTL DEF Spec, ImplementsLossyCache, Lossy!Spec, Lossy!lossyVars

(* "Safe for concurrent access from multiple threads in same process"       *)
(* (backend.py:97): what a thread removes as dead was not put there by a    *)
(* thread of its own process after it looked.                               *)
THEOREM ReadersDropOnlyDead == Spec => ReaderDropsOnlyDead
<1>1. IInv => \A a \in Actors :
         LET k == op[a].key
         IN  DropDead(a) /\ dir[k] # None =>
               Dead(dir[k], "ttl") \/ dir[k].by # procOf[a] \/ Same(k, op[a].version)
  BY DEF IInv, OpenOrForeign, DropDead, InPhase, Same
<1>2. IInv => [\A a \in Actors :
         LET k == op[a].key
         IN  DropDead(a) /\ dir[k] # None =>
               Dead(dir[k], "ttl") \/ dir[k].by # procOf[a] \/ Same(k, op[a].version)]_vars
  BY <1>1
<1> QED
  BY <1>2, InductiveInvariant, PTL DEF Spec, ReaderDropsOnlyDead

(* No refresh_ttl revives a file whose lifetime is over, and a new commit   *)
(* is never taken for the old one (backend.py:709).                         *)
LEMMA NoRevival ==
    ASSUME IInv, [Next]_vars, NEW k \in Keys, dir[k] # None, Expired(dir[k]),
           dir'[k] # None, dir'[k].version = dir[k].version
    PROVE  dir'[k].expires = dir[k].expires
<1>0. dir \in [Keys -> File \cup {None}] /\ latest \in [Keys -> Nat] /\ dir[k] \in File
  BY DEF IInv, TypeOK
<1>1. ASSUME NEW a \in Actors, Commit(a) PROVE dir'[k] = dir[k]
  BY <1>0, <1>1, CommitDir DEF IInv, FilesLatest
<1>2. ASSUME NEW a \in Actors, Rewrite(a) PROVE dir'[k] = dir[k]
  <2>1. CASE k # op[a].key
    BY <1>2, <2>1, RewriteDir
  <2>2. CASE k = op[a].key
    <3>1. Same(k, op[a].version) => Dead(dir[k], "read")
      BY DEF Dead
    <3>2. dir' # [dir EXCEPT ![k] = None]
      BY <1>0
    <3> QED
      BY <1>2, <2>2, <3>1, <3>2 DEF Rewrite
  <2> QED
    BY <2>1, <2>2
<1>3. ASSUME NEW kk \in Keys, Damage(kk) PROVE dir'[k].expires = dir[k].expires
  <2>1. CASE k # kk
    BY <1>0, <1>3, <2>1 DEF Damage
  <2>2. CASE k = kk
    <3>1. dir'[k] = [dir[k] EXCEPT !.valid = FALSE]
      BY <1>0, <1>3, <2>2 DEF Damage
    <3> QED
      BY <1>0, <3>1 DEF File
  <2> QED
    BY <2>1, <2>2
<1>4. CASE UNCHANGED vars \/ Tick \/ Startup \/ \E p \in Procs : Crash(p)
  BY <1>4 DEF vars, Tick, Startup, Crash
<1>5. ASSUME NEW a \in Actors,
             \/ Serve(a) \/ StreamOn(a) \/ WriteFails(a) \/ Interrupt(a) \/ CommitFails(a) \/ Scan(a)
             \/ \E kk \in Keys :
                  \/ \E kind \in {"read", "ttl"} : OpenRead(a, kk, kind)
                  \/ \E ttl \in Ttls :
                       \/ OpenRefresh(a, kk, ttl)
                       \/ \E size \in Sizes, streaming \in BOOLEAN :
                            StartWrite(a, kk, size, ttl, streaming)
      PROVE  dir'[k] = dir[k]
  BY <1>5
     DEF Serve, StreamOn, WriteFails, Interrupt, CommitFails, Scan, OpenRead, OpenRefresh, StartWrite
<1>6. ASSUME NEW a \in Actors, DropDead(a) \/ EvictNext(a) \/ \E kk \in Keys : Delete(a, kk)
      PROVE  dir'[k] = dir[k]
  BY <1>0, <1>6 DEF DropDead, EvictNext, Delete
<1> QED
  BY <1>1, <1>2, <1>3, <1>4, <1>5, <1>6 DEF Next

(* "An expired entry is treated as absent" (backend.py:709), in whatever    *)
(* order the refreshes and commits of several processes take effect.        *)
THEOREM ExpiredStayDead == Spec => ExpiredStaysDead
<1>1. IInv /\ [Next]_vars =>
        [\A k \in Keys :
           /\ dir[k] # None /\ Expired(dir[k])
           /\ dir'[k] # None /\ dir'[k].version = dir[k].version
           => dir'[k].expires = dir[k].expires]_vars
  BY NoRevival
<1> QED
  BY <1>1, InductiveInvariant, PTL DEF Spec, ExpiredStaysDead
--------------------------------------------------------------------------------
(* Room.  A directory over its trigger is somebody's business: a writer    *)
(* has yet to list it, or is evicting from a listing that covers it.  What *)
(* other processes remove in between only makes the listing's totals too   *)
(* large; what they commit, they list themselves.                          *)
In(d) == {k \in Keys : d[k] # None}

Bytes(d) == SumFunctionOnSet([k \in In(d) |-> d[k].size], In(d))

OverTrigger(d) == 10 * Cardinality(In(d)) > 9 * MaxEntries \/ 10 * Bytes(d) > 9 * MaxSize

Covers(o, d) ==
    /\ o.phase = "evicting"
    /\ o.count \in Nat /\ o.size \in Nat
    /\ \A k \in In(d) : \E v \in o.todo : v.key = k
    /\ \A v \in o.todo : d[v.key] # None => v.size = d[v.key].size
    /\ Cardinality(In(d)) <= o.count
    /\ Bytes(d) <= o.size

RoomOwed ==
    \/ owed
    \/ \E a \in Actors : op[a].phase = "scanning" \/ Covers(op[a], dir)
    \/ ~OverTrigger(dir)

DirTyped(d) == d \in [Keys -> File \cup {None}]

(* d holds some of the files of c, of the same sizes. *)
Less(c, d) == \A k \in Keys : d[k] # None => c[k] # None /\ d[k].size = c[k].size

(* The files of a directory are finitely many and have sizes. *)
LEMMA DirSums ==
    ASSUME NEW d, DirTyped(d)
    PROVE  /\ IsFiniteSet(In(d)) /\ Cardinality(In(d)) \in Nat /\ Bytes(d) \in Nat
           /\ \A k \in In(d) : d[k].size \in Nat
<1>1. IsFiniteSet(In(d)) /\ Cardinality(In(d)) \in Nat
  BY FileAssumption, FS_Subset, FS_CardinalityType DEF In
<1>2. \A k \in In(d) : d[k].size \in Nat
  BY DEF In, DirTyped, File
<1> DEFINE f == [k \in In(d) |-> d[k].size]
<1>3. \A k \in In(d) : f[k] \in Nat
  BY <1>2
<1> HIDE DEF f
<1>4. SumFunctionOnSet(f, In(d)) \in Nat
  BY <1>1, <1>3, SumNat
<1> QED
  BY <1>1, <1>2, <1>4 DEF Bytes, f

(* Fewer files, fewer bytes. *)
LEMMA LessSums ==
    ASSUME NEW c, NEW d, DirTyped(c), DirTyped(d), Less(c, d)
    PROVE  In(d) \subseteq In(c) /\ Cardinality(In(d)) <= Cardinality(In(c)) /\ Bytes(d) <= Bytes(c)
<1> DEFINE f == [k \in In(c) |-> c[k].size]
           g == [k \in In(d) |-> d[k].size]
<1>1. In(d) \subseteq In(c)
  BY DEF In, Less
<1>2. IsFiniteSet(In(c)) /\ \A k \in In(c) : c[k].size \in Nat
  BY DirSums
<1>3. Cardinality(In(d)) <= Cardinality(In(c)) /\ IsFiniteSet(In(d))
  BY <1>1, <1>2, FS_Subset
<1>4. \A k \in In(c) : f[k] \in Nat
  BY <1>2
<1>5. \A k \in In(d) : g[k] = f[k]
  BY <1>1 DEF Less, In
<1> HIDE DEF f, g
<1>6. SumFunctionOnSet(f, In(d)) <= SumFunctionOnSet(f, In(c))
  BY <1>1, <1>2, <1>4, SumNat
<1>7. \A k \in In(d) : f[k] \in Int
  BY <1>1, <1>4
<1>8. SumFunctionOnSet(g, In(d)) = SumFunctionOnSet(f, In(d))
  BY <1>3, <1>5, <1>7, SumCongruence
<1> QED
  BY <1>1, <1>3, <1>6, <1>8 DEF Bytes, f, g

(* One file less. *)
LEMMA DropSums ==
    ASSUME NEW c, NEW d, DirTyped(c), NEW k \in In(c), d = [c EXCEPT ![k] = None]
    PROVE  /\ Cardinality(In(d)) = Cardinality(In(c)) - 1
           /\ Bytes(d) = Bytes(c) - c[k].size
<1> DEFINE f == [x \in In(c) |-> c[x].size]
           g == [x \in In(d) |-> d[x].size]
<1>1. In(d) = In(c) \ {k} /\ \A x \in In(d) : d[x] = c[x]
  BY DEF In, DirTyped
<1>2. IsFiniteSet(In(c)) /\ Bytes(c) \in Nat /\ \A x \in In(c) : c[x].size \in Nat
  BY DirSums
<1>3. IsFiniteSet(In(c) \ {k}) /\ Cardinality(In(c) \ {k}) = Cardinality(In(c)) - 1
  BY <1>2, FS_RemoveElement
<1>4. (\A x \in In(c) : f[x] = c[x].size) /\ c[k].size \in Nat
  BY <1>2
<1>5. \A x \in In(d) : g[x] = f[x]
  <2> TAKE x \in In(d)
  <2>1. x \in In(c) /\ d[x] = c[x]
    BY <1>1
  <2>2. f[x] = c[x].size /\ g[x] = d[x].size
    BY <2>1
  <2> QED
    BY <2>1, <2>2
<1> HIDE DEF f, g
<1>6. \A x \in In(c) : f[x] \in Int
  BY <1>2, <1>4
<1>7. SumFunctionOnSet(f, In(c)) = f[k] + SumFunctionOnSet(f, In(c) \ {k})
  BY <1>2, <1>6, SumRemove
<1>8. SumFunctionOnSet(g, In(d)) = SumFunctionOnSet(f, In(d)) /\ SumFunctionOnSet(f, In(d)) \in Int
  <2>1. IsFiniteSet(In(d)) /\ \A x \in In(d) : f[x] \in Int
    BY <1>1, <1>3, <1>6
  <2> QED
    BY <1>5, <2>1, SumCongruence, SumType
<1>9. Bytes(d) = SumFunctionOnSet(g, In(d)) /\ Bytes(c) = SumFunctionOnSet(f, In(c))
  BY DEF Bytes, f, g
<1>10. f[k] = c[k].size /\ c[k].size \in Nat /\ SumFunctionOnSet(f, In(c) \ {k}) = Bytes(d)
  BY <1>1, <1>4, <1>8, <1>9
<1>11. Bytes(c) = c[k].size + Bytes(d) /\ Bytes(d) \in Int
  BY <1>7, <1>8, <1>9, <1>10
<1>12. Bytes(d) = Bytes(c) - c[k].size
  BY <1>10, <1>11
<1> QED
  BY <1>1, <1>3, <1>12

(* Losing files keeps a directory below its trigger and a listing covering. *)
LEMMA LessNeedsLess ==
    ASSUME NEW c, NEW d, DirTyped(c), DirTyped(d), Less(c, d)
    PROVE  /\ ~OverTrigger(c) => ~OverTrigger(d)
           /\ \A o : Evicting(o) /\ Covers(o, c) => Covers(o, d)
<1>1. In(d) \subseteq In(c) /\ Cardinality(In(d)) <= Cardinality(In(c)) /\ Bytes(d) <= Bytes(c)
  BY LessSums
<1>2. /\ Cardinality(In(d)) \in Nat /\ Bytes(d) \in Nat
      /\ Cardinality(In(c)) \in Nat /\ Bytes(c) \in Nat
  BY DirSums
<1>3. ~OverTrigger(c) => ~OverTrigger(d)
  BY <1>1, <1>2, FileAssumption DEF OverTrigger
<1>4. ASSUME NEW o, Evicting(o), Covers(o, c)
      PROVE  Covers(o, d)
  <2>1. \A v \in o.todo : v.key \in Keys
    BY <1>4 DEF Evicting, Victims
  <2>2. \A k \in In(d) : \E v \in o.todo : v.key = k
    BY <1>1, <1>4 DEF Covers
  <2>3. \A v \in o.todo : d[v.key] # None => v.size = d[v.key].size
    BY <1>4, <2>1 DEF Covers, Less
  <2>4. Cardinality(In(d)) <= o.count /\ Bytes(d) <= o.size
    BY <1>1, <1>2, <1>4 DEF Covers
  <2> QED
    BY <1>4, <2>2, <2>3, <2>4 DEF Covers
<1> QED
  BY <1>3, <1>4

(* Only a rename adds a file or changes the size of one. *)
LEMMA OnlyCommitsGrow ==
    ASSUME IInv, [Next]_vars, \A a \in Actors : ~Commit(a)
    PROVE  Less(dir, dir')
<1>0. dir \in [Keys -> File \cup {None}]
  BY DEF IInv, TypeOK
<1>1. ASSUME UNCHANGED dir PROVE Less(dir, dir')
  BY <1>1 DEF Less
<1>2. CASE UNCHANGED vars \/ Tick \/ Startup \/ \E p \in Procs : Crash(p)
  BY <1>1, <1>2 DEF vars, Tick, Startup, Crash
<1>3. ASSUME NEW k \in Keys, Damage(k) PROVE Less(dir, dir')
  <2> DEFINE g == [dir[k] EXCEPT !.valid = FALSE]
  <2>1. dir[k] \in File
    BY <1>0, <1>3 DEF Damage
  <2>2. g.size = dir[k].size
    BY <2>1 DEF File
  <2>3. dir' = [dir EXCEPT ![k] = g] /\ dir[k] # None
    BY <1>0, <1>3 DEF Damage
  <2> HIDE DEF g
  <2> QED
    BY <1>0, <2>2, <2>3 DEF Less
<1>4. ASSUME NEW a \in Actors,
             \/ Serve(a) \/ StreamOn(a) \/ WriteFails(a) \/ Interrupt(a) \/ CommitFails(a) \/ Scan(a)
             \/ \E k \in Keys :
                  \/ \E kind \in {"read", "ttl"} : OpenRead(a, k, kind)
                  \/ \E ttl \in Ttls :
                       \/ OpenRefresh(a, k, ttl)
                       \/ \E size \in Sizes, streaming \in BOOLEAN :
                            StartWrite(a, k, size, ttl, streaming)
      PROVE  Less(dir, dir')
  BY <1>1, <1>4
     DEF Serve, StreamOn, WriteFails, Interrupt, CommitFails, Scan, OpenRead, OpenRefresh, StartWrite
<1>5. ASSUME NEW a \in Actors, DropDead(a) \/ EvictNext(a) \/ \E k \in Keys : Delete(a, k)
      PROVE  Less(dir, dir')
  BY <1>0, <1>5 DEF DropDead, EvictNext, Delete, Less
<1>6. ASSUME NEW a \in Actors, Rewrite(a) PROVE Less(dir, dir')
  <2> DEFINE k == op[a].key
             g == [dir[k] EXCEPT !.expires = op[a].expires, !.mtime = now]
  <2>1. k \in Keys
    BY <1>6, RewriteDir
  <2>2. CASE dir' = [dir EXCEPT ![k] = None] \/ dir' = dir
    BY <1>0, <2>1, <2>2 DEF Less
  <2>3. CASE Same(k, op[a].version)
             /\ dir' = [dir EXCEPT ![k].expires = op[a].expires, ![k].mtime = now]
    <3>1. dir[k] \in File /\ dir[k] # None
      BY <1>0, <2>1, <2>3 DEF Same
    <3>2. g.size = dir[k].size
      BY <3>1 DEF File
    <3>3. dir' = [dir EXCEPT ![k] = g]
      BY <1>0, <2>1, <2>3
    <3> HIDE DEF g
    <3> QED
      BY <1>0, <2>1, <3>1, <3>2, <3>3 DEF Less
  <2> QED
    BY <1>6, <2>2, <2>3 DEF Rewrite
<1> QED
  BY <1>2, <1>3, <1>4, <1>5, <1>6 DEF Next

(* The code's own measure of the directory. *)
LEMMA Measures == IInv => (MustEvict <=> OverTrigger(dir)) /\ Present = In(dir)
                          /\ SizeOf(Present) = Bytes(dir)
<1>1. Present = In(dir)
  BY DEF Present, In
<1>2. DOMAIN [k \in In(dir) |-> dir[k].size] = In(dir)
  OBVIOUS
<1>3. SizeOf(In(dir)) = Bytes(dir)
  BY <1>2 DEF SizeOf, SumFunction, Bytes
<1> QED
  BY <1>1, <1>3 DEF MustEvict, OverTrigger

(* A fresh listing covers the directory. *)
LEMMA ScanRoom ==
    ASSUME IInv, NEW a \in Actors, Scan(a)
    PROVE  RoomOwed'
<1>1. DirTyped(dir) /\ dir' = dir
  BY DEF IInv, TypeOK, DirTyped, Scan
<1>2. (MustEvict <=> OverTrigger(dir)) /\ Present = In(dir) /\ SizeOf(Present) = Bytes(dir)
  BY Measures
<1>3. CASE ~MustEvict
  BY <1>1, <1>2, <1>3 DEF RoomOwed
<1>4. CASE MustEvict
  <2> DEFINE t == {[key |-> k, mtime |-> dir[k].mtime, size |-> dir[k].size] : k \in In(dir)}
             o == [phase |-> "evicting", count |-> Cardinality(In(dir)), size |-> Bytes(dir),
                   todo |-> t]
  <2>1. op' = [op EXCEPT ![a] = o]
    BY <1>2, <1>4 DEF Scan
  <2>2. op'[a] = o
    BY <2>1 DEF IInv, OpsOK
  <2>3. Cardinality(In(dir)) \in Nat /\ Bytes(dir) \in Nat
    BY <1>1, DirSums
  <2>4. \A k \in In(dir) : \E v \in t : v.key = k
    <3> TAKE k \in In(dir)
    <3>1. [key |-> k, mtime |-> dir[k].mtime, size |-> dir[k].size] \in t
      OBVIOUS
    <3> WITNESS [key |-> k, mtime |-> dir[k].mtime, size |-> dir[k].size] \in t
    <3> QED
      OBVIOUS
  <2>5. \A v \in t : v.size = dir[v.key].size
    OBVIOUS
  <2> HIDE DEF t
  <2>6. Covers(o, dir)
    BY <2>3, <2>4, <2>5 DEF Covers
  <2> HIDE DEF o
  <2> QED
    BY <1>1, <2>2, <2>6 DEF RoomOwed
<1> QED
  BY <1>3, <1>4

(* Removing the next file of a listing keeps it covering. *)
LEMMA RemovalCovers ==
    ASSUME IInv, NEW a \in Actors, Evicting(op[a]), Covers(op[a], dir),
           NEW v \in op[a].todo, Removes(a, v)
    PROVE  Covers(op'[a], dir')
<1> DEFINE n == op[a].count
           s == op[a].size
           t == op[a].todo
<1>1. v.key \in Keys /\ (\A w \in t : w.key \in Keys) /\ v.size \in Nat
  BY DEF Evicting, Victims
<1>2. DirTyped(dir) /\ dir' = [dir EXCEPT ![v.key] = None]
  BY DEF IInv, TypeOK, DirTyped, Removes
<1>3. /\ \A k \in In(dir') : k # v.key /\ k \in In(dir)
      /\ \A k \in Keys : dir'[k] # None => dir'[k] = dir[k]
  BY <1>1, <1>2 DEF In, DirTyped
<1>4. Cardinality(In(dir)) \in Nat /\ Bytes(dir) \in Nat
  BY <1>2, DirSums
<1>5. /\ n \in Nat /\ s \in Nat /\ Cardinality(In(dir)) <= n /\ Bytes(dir) <= s
      /\ \A k \in In(dir) : \E w \in t : w.key = k
      /\ \A w \in t : dir[w.key] # None => w.size = dir[w.key].size
  BY DEF Covers
<1>6. /\ \A k \in In(dir') : \E w \in t \ {v} : w.key = k
      /\ \A w \in t \ {v} : dir'[w.key] # None => w.size = dir'[w.key].size
  BY <1>1, <1>3, <1>5
<1>7. CASE dir[v.key] = None
  <2>1. dir' = dir
    BY <1>1, <1>2, <1>7 DEF DirTyped
  <2>2. op' = [op EXCEPT ![a] = [phase |-> "evicting", count |-> n, size |-> s, todo |-> t \ {v}]]
    BY <1>7 DEF Removes
  <2>3. op'[a] = [phase |-> "evicting", count |-> n, size |-> s, todo |-> t \ {v}]
    BY <2>2 DEF IInv, OpsOK
  <2> HIDE DEF n, s, t
  <2> QED
    BY <1>5, <1>6, <2>1, <2>3 DEF Covers
<1>8. CASE dir[v.key] # None
  <2>1. v.key \in In(dir) /\ v.size = dir[v.key].size
    BY <1>1, <1>5, <1>8 DEF In
  <2>2. Cardinality(In(dir')) = Cardinality(In(dir)) - 1 /\ Bytes(dir') = Bytes(dir) - v.size
    BY <1>2, <2>1, DropSums
  <2>3. DirTyped(dir')
    BY <1>1, <1>2 DEF DirTyped
  <2>4. Cardinality(In(dir')) \in Nat /\ Bytes(dir') \in Nat
    BY <2>3, DirSums
  <2>5. op' = [op EXCEPT ![a] = [phase |-> "evicting", count |-> n - 1, size |-> s - v.size,
                                 todo |-> t \ {v}]]
    BY <1>8 DEF Removes
  <2>6. op'[a] = [phase |-> "evicting", count |-> n - 1, size |-> s - v.size, todo |-> t \ {v}]
    BY <2>5 DEF IInv, OpsOK
  <2> HIDE DEF n, s, t
  <2>7. /\ n - 1 \in Nat /\ s - v.size \in Nat
        /\ Cardinality(In(dir')) <= n - 1 /\ Bytes(dir') <= s - v.size
    BY <1>1, <1>4, <1>5, <2>2, <2>4
  <2> QED
    BY <1>6, <2>6, <2>7 DEF Covers
<1> QED
  BY <1>7, <1>8

(* An eviction that stops has reached its target, which is below the       *)
(* trigger, or has nothing left to remove.                                 *)
LEMMA StopRoom ==
    ASSUME IInv, NEW a \in Actors, Covers(op[a], dir),
           Enough(op[a].count, op[a].size) \/ op[a].todo = {}
    PROVE  ~OverTrigger(dir)
<1>1. DirTyped(dir)
  BY DEF IInv, TypeOK, DirTyped
<1>2. Cardinality(In(dir)) \in Nat /\ Bytes(dir) \in Nat
  BY <1>1, DirSums
<1>3. CASE Enough(op[a].count, op[a].size)
  <2>1. op[a].count <= (7 * MaxEntries) \div 10 /\ 10 * op[a].size <= 7 * MaxSize
    BY <1>3 DEF Enough
  <2>2. 10 * ((7 * MaxEntries) \div 10) <= 7 * MaxEntries /\ (7 * MaxEntries) \div 10 \in Nat
    BY FileAssumption
  <2>3. /\ op[a].count \in Nat /\ op[a].size \in Nat
        /\ Cardinality(In(dir)) <= op[a].count /\ Bytes(dir) <= op[a].size
    BY DEF Covers
  <2> QED
    BY <1>2, <2>1, <2>2, <2>3, FileAssumption DEF OverTrigger
<1>4. CASE op[a].todo = {}
  <2>1. In(dir) = {}
    BY <1>4 DEF Covers
  <2>2. Cardinality(In(dir)) = 0
    BY <2>1, FS_EmptySet
  <2> DEFINE f == [k \in In(dir) |-> dir[k].size]
  <2>3. Bytes(dir) = SumFunctionOnSet(f, {})
    BY <2>1 DEF Bytes
  <2> HIDE DEF f
  <2>4. Bytes(dir) = 0
    <3>1. IsFiniteSet({}) /\ \A x \in {} : f[x] \in Int
      BY FS_EmptySet
    <3> QED
      BY <2>3, <3>1, SumType
  <2> QED
    BY <2>2, <2>4, FileAssumption DEF OverTrigger
<1> QED
  BY <1>3, <1>4

(* One step of an eviction. *)
LEMMA EvictRoom ==
    ASSUME IInv, RoomOwed, NEW a \in Actors, EvictNext(a)
    PROVE  RoomOwed'
<1>1. Evicting(op[a]) /\ op[a].phase = "evicting"
  BY EvictShape DEF EvictNext, InPhase
<1>2. IInv' /\ (owed => owed')
  <2>1. IInv'
    BY EvictInv
  <2>2. owed' = owed \/ owed' = TRUE
    BY EvictShape DEF PassesOver
  <2> QED
    BY <2>1, <2>2
<1>3. DirTyped(dir) /\ DirTyped(dir')
  BY <1>2 DEF IInv, TypeOK, DirTyped
<1>4. Less(dir, dir')
  BY <1>3, <1>1 DEF EvictNext, Less, DirTyped
<1>5. \A b \in Actors : b # a => op'[b] = op[b]
  BY EvictShape DEF End, Removes, PassesOver, IInv, OpsOK
<1>6. CASE owed \/ ~OverTrigger(dir)
  BY <1>2, <1>3, <1>4, <1>6, LessNeedsLess DEF RoomOwed
<1>7. ASSUME NEW b \in Actors, b # a, op[b].phase = "scanning" \/ Covers(op[b], dir)
      PROVE  RoomOwed'
  <2>1. Covers(op[b], dir) => Evicting(op[b])
    BY ByPhase DEF Covers, IInv, OpsOK
  <2> QED
    BY <1>3, <1>4, <1>5, <1>7, <2>1, LessNeedsLess DEF RoomOwed
<1>8. CASE Covers(op[a], dir)
  <2>1. CASE UNCHANGED dir /\ (Enough(op[a].count, op[a].size) \/ op[a].todo = {})
    BY <1>8, <2>1, StopRoom DEF RoomOwed
  <2>2. CASE \E v \in op[a].todo : Removes(a, v)
    BY <1>1, <1>8, <2>2, RemovalCovers DEF RoomOwed
  <2>3. CASE PassesOver(a)
    BY <2>3 DEF RoomOwed, PassesOver
  <2> QED
    BY <2>1, <2>2, <2>3, EvictShape
<1> QED
  BY <1>1, <1>6, <1>7, <1>8 DEF RoomOwed

(* A process that dies leaves its eviction owing. *)
LEMMA CrashRoom ==
    ASSUME IInv, RoomOwed, NEW p \in Procs, Crash(p)
    PROVE  RoomOwed'
<1>1. /\ dir' = dir
      /\ \A a \in Actors : op'[a] = IF procOf[a] = p THEN Idle ELSE op[a]
      /\ owed' = (owed \/ \E a \in {b \in Actors : procOf[b] = p} :
                            op[a].phase \in {"scanning", "evicting"})
  BY DEF Crash
<1>2. CASE owed \/ ~OverTrigger(dir)
  BY <1>1, <1>2 DEF RoomOwed
<1>3. ASSUME NEW a \in Actors, op[a].phase = "scanning" \/ Covers(op[a], dir)
      PROVE  RoomOwed'
  <2>1. CASE procOf[a] = p
    BY <1>1, <1>3, <2>1 DEF RoomOwed, Covers
  <2>2. CASE procOf[a] # p
    BY <1>1, <1>3, <2>2 DEF RoomOwed
  <2> QED
    BY <2>1, <2>2
<1> QED
  BY <1>2, <1>3 DEF RoomOwed

(* So does a writer that is interrupted. *)
LEMMA InterruptRoom ==
    ASSUME IInv, RoomOwed, NEW a \in Actors, Interrupt(a)
    PROVE  RoomOwed'
<1>1. /\ dir' = dir /\ \A b \in Actors : b # a => op'[b] = op[b]
      /\ owed' = (owed \/ op[a].phase \in {"scanning", "evicting"})
  BY DEF Interrupt, End, IInv, OpsOK
<1>2. CASE owed \/ ~OverTrigger(dir)
  BY <1>1, <1>2 DEF RoomOwed
<1>3. ASSUME NEW b \in Actors, op[b].phase = "scanning" \/ Covers(op[b], dir)
      PROVE  RoomOwed'
  <2>1. CASE b = a
    BY <1>1, <1>3, <2>1 DEF RoomOwed, Covers
  <2>2. CASE b # a
    BY <1>1, <1>3, <2>2 DEF RoomOwed
  <2> QED
    BY <2>1, <2>2
<1> QED
  BY <1>2, <1>3 DEF RoomOwed

(* The steps that neither add a file nor touch an eviction under way. *)
LEMMA OtherRoom ==
    ASSUME IInv, IInv', RoomOwed, Less(dir, dir'), owed' = owed,
           \A a \in Actors : op[a].phase \in {"scanning", "evicting"} => op'[a] = op[a]
    PROVE  RoomOwed'
<1>1. DirTyped(dir) /\ DirTyped(dir')
  BY DEF IInv, TypeOK, DirTyped
<1>2. CASE owed \/ ~OverTrigger(dir)
  BY <1>1, <1>2, LessNeedsLess DEF RoomOwed
<1>3. ASSUME NEW a \in Actors, op[a].phase = "scanning" \/ Covers(op[a], dir)
      PROVE  RoomOwed'
  <2>1. op'[a] = op[a]
    BY <1>3 DEF Covers
  <2>2. Covers(op[a], dir) => Evicting(op[a])
    BY ByPhase DEF Covers, IInv, OpsOK
  <2> QED
    BY <1>1, <1>3, <2>1, <2>2, LessNeedsLess DEF RoomOwed
<1> QED
  BY <1>2, <1>3 DEF RoomOwed

(* Every step keeps the room owed. *)
LEMMA StepRoom == ASSUME IInv, RoomOwed, [Next]_vars PROVE RoomOwed'
<1>0. IInv'
  BY StepInv
<1>1. ASSUME NEW a \in Actors, Commit(a) PROVE RoomOwed'
  <2>1. op'[a].phase = "scanning"
    BY <1>1 DEF Commit, IInv, OpsOK
  <2> QED
    BY <2>1 DEF RoomOwed
<1>2. ASSUME NEW a \in Actors, Scan(a) PROVE RoomOwed'
  BY <1>2, ScanRoom
<1>3. ASSUME NEW a \in Actors, EvictNext(a) PROVE RoomOwed'
  BY <1>3, EvictRoom
<1>4. ASSUME NEW p \in Procs, Crash(p) PROVE RoomOwed'
  BY <1>4, CrashRoom
<1>6. ASSUME NEW a \in Actors, Interrupt(a) PROVE RoomOwed'
  BY <1>6, InterruptRoom
<1>5. CASE \A a \in Actors : ~Commit(a)
  <2>1. Less(dir, dir')
    BY <1>5, OnlyCommitsGrow
  <2>2. CASE UNCHANGED <<op, owed>>
    BY <1>0, <2>1, <2>2, OtherRoom
  <2>3. CASE UNCHANGED vars \/ Tick \/ Startup \/ \E k \in Keys : Damage(k)
    BY <2>2, <2>3 DEF vars, Tick, Startup, Damage, ghosts
  <2>4. ASSUME NEW a \in Actors, op[a].phase \notin {"scanning", "evicting"}, owed' = owed,
               NEW o, op' = [op EXCEPT ![a] = o]
        PROVE  RoomOwed'
    <3>1. \A b \in Actors : op[b].phase \in {"scanning", "evicting"} => op'[b] = op[b]
      BY <2>4 DEF IInv, OpsOK
    <3> QED
      BY <1>0, <2>1, <2>4, <3>1, OtherRoom
  <2>5. ASSUME NEW a \in Actors,
               Serve(a) \/ DropDead(a) \/ Rewrite(a) \/ WriteFails(a) \/ CommitFails(a)
        PROVE  RoomOwed'
    <3>1. /\ op[a].phase \notin {"scanning", "evicting"} /\ owed' = owed
          /\ op' = [op EXCEPT ![a] = Idle]
      BY <2>5 DEF Serve, DropDead, Rewrite, WriteFails, CommitFails, MayCommit, InPhase, End, ghosts
    <3> QED
      BY <2>4, <3>1
  <2>6. ASSUME NEW a \in Actors, StreamOn(a) \/ \E k \in Keys : Delete(a, k)
        PROVE  RoomOwed'
    BY <2>2, <2>6 DEF StreamOn, Delete, ghosts
  <2>7. ASSUME NEW a \in Actors, NEW k \in Keys,
               \/ \E kind \in {"read", "ttl"} : OpenRead(a, k, kind)
               \/ \E ttl \in Ttls :
                    \/ OpenRefresh(a, k, ttl)
                    \/ \E size \in Sizes, streaming \in BOOLEAN :
                         StartWrite(a, k, size, ttl, streaming)
        PROVE  RoomOwed'
    <3>1. /\ op[a].phase \notin {"scanning", "evicting"} /\ owed' = owed
          /\ \E o : op' = [op EXCEPT ![a] = o]
      BY <2>7 DEF OpenRead, OpenRefresh, StartWrite, InPhase, ghosts
    <3> QED
      BY <2>4, <3>1
  <2> QED
    BY <1>2, <1>3, <1>4, <1>5, <1>6, <2>3, <2>5, <2>6, <2>7 DEF Next
<1> QED
  BY <1>1, <1>5

(* Whenever no write is under way the directory is below its trigger,       *)
(* unless an eviction was cut short or could not unlink a file, however the *)
(* listings, removals and renames of any number of processes overlapped     *)
(* (backend.py:107 "until cache is at 70% capacity").                       *)
THEOREM RoomIsAlwaysMade == Spec => []RoomIsMade
<1>1. Init => RoomOwed
  <2> SUFFICES ASSUME Init PROVE RoomOwed
    OBVIOUS
  <2>1. In(dir) = {} /\ DirTyped(dir)
    BY DEF Init, In, DirTyped
  <2> DEFINE f == [k \in In(dir) |-> dir[k].size]
  <2>2. Bytes(dir) = SumFunctionOnSet(f, {})
    BY <2>1 DEF Bytes
  <2> HIDE DEF f
  <2>3. IsFiniteSet({}) /\ \A x \in {} : f[x] \in Int
    BY FS_EmptySet
  <2>4. Bytes(dir) = 0 /\ Cardinality(In(dir)) = 0
    BY <2>1, <2>2, <2>3, SumType, FS_EmptySet
  <2> QED
    BY <2>4, FileAssumption DEF OverTrigger, RoomOwed
<1>2. IInv /\ RoomOwed /\ [Next]_vars => RoomOwed'
  BY StepRoom
<1>3. IInv /\ RoomOwed => RoomIsMade
  <2>1. IInv => (MustEvict <=> OverTrigger(dir))
    BY Measures
  <2> QED
    BY <2>1 DEF RoomIsMade, RoomOwed, Covers
<1> QED
  BY <1>1, <1>2, <1>3, InductiveInvariant, PTL DEF Spec
================================================================================
