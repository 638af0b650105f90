------------------------------ MODULE FileBackend ------------------------------
(***************************************************************************)
(* backends/file/backend.py: one file per key in a directory that several  *)
(* processes share.  Inside a process one RLock covers each operation but  *)
(* the streaming part of set_streaming; between processes only the file    *)
(* system and flock() order things, so every operation is split at the     *)
(* points where another process can act: open, read and unlink; write,     *)
(* rename, scan and unlink.                                                *)
(*                                                                         *)
(* A payload is abstracted to its size and the write it came from.  The    *)
(* inode of a key is identified by that write.  flock() is called with     *)
(* LOCK_NB: an operation that does not get it raises and changes nothing,  *)
(* as does one that finds no file or has its arguments refused.            *)
(***************************************************************************)
EXTENDS Naturals, FiniteSets, FiniteSetsExt, Functions

CONSTANTS
    Keys, Actors, None,
    Procs,       \* the processes that share cache_dir
    Placements,  \* which actors (threads) run in which process: the cases considered
    MaxEntries,  \* max_entry_count
    MaxSize,     \* max_size_mb
    Sizes,       \* the sizes of payloads that max_value_mb lets through
    Ttls,        \* lifetimes callers pass; 0 means never
    TempAge,     \* TEMP_FILE_MAX_AGE_SECONDS
    MaxTime,     \* bound: the clock stops here
    MaxWrites,   \* bound on the commits and deletes, of all keys together
    Faults       \* what may go wrong beside failing writes, from FaultKinds

(* valid: the header can be read.  whole: a ghost, all of the value is there.  *)
File == [version : Nat, expires : Nat, mtime : Nat, size : Nat, valid : BOOLEAN,
         whole : BOOLEAN, by : Procs]
TempFile == [expires : Nat, mtime : Nat, size : Nat]

(* corrupt: something else damages a file's header.  crash: a process dies. *)
(* interrupt: an operation is left by an exception it does not catch.       *)
(* short: os.write writes less than all.  unlink: files cannot be removed.  *)
FaultKinds == {"corrupt", "crash", "interrupt", "short", "unlink"}

ASSUME FileAssumption ==
    /\ IsFiniteSet(Keys) /\ IsFiniteSet(Actors)
    /\ None \notin Actors /\ None \notin Nat
    /\ None \notin File /\ None \notin TempFile
    /\ Placements \subseteq [Actors -> Procs]
    /\ MaxEntries \in Nat \ {0} /\ MaxSize \in Nat \ {0}
    /\ Sizes \subseteq Nat /\ Ttls \subseteq Nat /\ TempAge \in Nat
    /\ MaxTime \in Nat /\ MaxWrites \in Nat
    /\ Faults \subseteq FaultKinds

VARIABLES
    dir,      \* dir[k]: the file of key k, or None
    temp,     \* temp[a]: the temporary file a is writing, or None
    orphans,  \* mtimes of the temporary files that were left behind
    op,       \* op[a]: where actor a is in which operation
    now,      \* time.time()
    latest,   \* ghost: commits and deletes of each key so far
    owed,     \* ghost: an eviction was cut short, or could not remove a file
    procOf,   \* the process of each actor; never changes
    fault     \* the fault this behaviour may meet; never changes

ghosts == <<latest, owed>>
setting == <<procOf, fault>>
vars == <<dir, temp, orphans, op, now, ghosts, setting>>

Idle == [phase |-> "idle"]
InPhase(a, p) == op[a].phase = p
End(a) == op' = [op EXCEPT ![a] = Idle]

(* Phases in which an actor is inside `with self._lock`. *)
Locked == {"reading", "rewriting", "writing", "scanning", "evicting"}

(* Mutant: operations of one process do not exclude one another. *)
ProcFreeAlways(a) == InPhase(a, "idle") \/ InPhase(a, "streaming")

(* self._lock can be had. *)
ProcFree(a) ==
    /\ InPhase(a, "idle") \/ InPhase(a, "streaming")
    /\ \A b \in Actors : procOf[b] = procOf[a] => op[b].phase \notin Locked

(* _acquire_file_lock: nobody holds the inode in a conflicting way. *)
FlockFree(a, k, exclusive) ==
    \A b \in Actors \ {a} :
        /\ op[b].phase \in {"reading", "rewriting"}
        /\ op[b].key = k
        /\ op[b].version = dir[k].version
        => InPhase(b, "reading") /\ ~exclusive

(* _expiry_from_ttl *)
ExpiryFrom(ttl) == IF ttl = 0 THEN 0 ELSE now + ttl

Expired(f) == f.expires > 0 /\ now > f.expires

(* get_ttl counts the second of expiry as over, the other reads do not.     *)
Dead(f, kind) ==
    \/ ~f.valid
    \/ Expired(f)
    \/ kind = "ttl" /\ f.expires > 0 /\ now = f.expires

MoreWrites == MapThenSumSet(LAMBDA k : latest[k], Keys) < MaxWrites

Present == {k \in Keys : dir[k] # None}
Same(k, version) == dir[k] # None /\ dir[k].version = version
--------------------------------------------------------------------------------
Init ==
    /\ dir = [k \in Keys |-> None]
    /\ temp = [a \in Actors |-> None]
    /\ orphans = {}
    /\ op = [a \in Actors |-> Idle]
    /\ now = 0
    /\ latest = [k \in Keys |-> 0]
    /\ owed = FALSE
    /\ procOf \in Placements
    /\ fault \in Faults

Tick ==
    /\ now < MaxTime
    /\ now' = now + 1
    /\ UNCHANGED <<dir, temp, orphans, op, ghosts, setting>>

(* get, get_buffer, exists (kind "read") and get_ttl up to the header: the  *)
(* file is open and locked, and what it says is in hand.                    *)
OpenRead(a, k, kind) ==
    /\ InPhase(a, "idle") /\ ProcFree(a)
    /\ dir[k] # None /\ FlockFree(a, k, FALSE)
    /\ op' = [op EXCEPT ![a] = [phase |-> "reading", key |-> k,
                                version |-> dir[k].version,
                                dead |-> Dead(dir[k], kind)]]
    /\ UNCHANGED <<dir, temp, orphans, now, ghosts, setting>>

(* The payload, or the lifetime left, is returned. *)
Serve(a) ==
    /\ InPhase(a, "reading") /\ ~op[a].dead
    /\ End(a)
    /\ UNCHANGED <<dir, temp, orphans, now, ghosts, setting>>

(* A dead file is removed by its path, whatever is there by now; if it      *)
(* cannot be, it stays for the next reader (_safe_unlink).                  *)
DropDead(a) ==
    /\ InPhase(a, "reading") /\ op[a].dead
    /\ \/ dir' = [dir EXCEPT ![op[a].key] = None]
       \/ fault = "unlink" /\ UNCHANGED dir
    /\ End(a)
    /\ UNCHANGED <<temp, orphans, now, ghosts, setting>>

(* refresh_ttl: the new expiry is computed before anything is locked. *)
OpenRefresh(a, k, ttl) ==
    /\ InPhase(a, "idle") /\ ProcFree(a)
    /\ dir[k] # None /\ FlockFree(a, k, TRUE)
    /\ op' = [op EXCEPT ![a] = [phase |-> "rewriting", key |-> k,
                                version |-> dir[k].version, expires |-> ExpiryFrom(ttl),
                                inode |-> dir[k]]]
    /\ UNCHANGED <<dir, temp, orphans, now, ghosts, setting>>

(* Mutant: a lifetime is renewed without looking whether it is over. *)
RewriteUnchecked(a) ==
    LET k == op[a].key
    IN  /\ InPhase(a, "rewriting")
        /\ dir' = IF Same(k, op[a].version)
                  THEN [dir EXCEPT ![k].expires = op[a].expires, ![k].mtime = now]
                  ELSE dir
        /\ End(a)
        /\ UNCHANGED <<temp, orphans, now, ghosts, setting>>

(* Mutant: the whole file is written back, not eight bytes of its header.   *)
RewriteWhole(a) ==
    /\ InPhase(a, "rewriting")
    /\ dir' = [dir EXCEPT ![op[a].key] =
                 IF Dead(op[a].inode, "read") THEN None
                 ELSE [op[a].inode EXCEPT !.expires = op[a].expires]]
    /\ End(a)
    /\ UNCHANGED <<temp, orphans, now, ghosts, setting>>

(* The expiry field of the inode that was opened is overwritten in place;   *)
(* if the path has another inode by now, nobody will see it.                *)
Rewrite(a) ==
    LET k == op[a].key
        f == IF Same(k, op[a].version) THEN dir[k] ELSE op[a].inode
    IN  /\ InPhase(a, "rewriting")
        /\ \/ dir' = IF Dead(f, "read") THEN [dir EXCEPT ![k] = None]
                     ELSE IF Same(k, op[a].version)
                     THEN [dir EXCEPT ![k].expires = op[a].expires, ![k].mtime = now]
                     ELSE dir
           \/ fault = "unlink" /\ Dead(f, "read") /\ UNCHANGED dir
        /\ End(a)
        /\ UNCHANGED <<temp, orphans, now, ghosts, setting>>

Delete(a, k) ==
    /\ InPhase(a, "idle") /\ ProcFree(a)
    /\ dir[k] # None /\ MoreWrites
    /\ dir' = [dir EXCEPT ![k] = None]
    /\ latest' = [latest EXCEPT ![k] = @ + 1]
    /\ UNCHANGED <<temp, orphans, op, now, owed, setting>>
--------------------------------------------------------------------------------
(* _check_entry_capacity *)
HasRoom(k) == dir[k] # None \/ Cardinality(Present) < MaxEntries

(* set and set_streaming up to the open temporary file. *)
StartWrite(a, k, size, ttl, streaming) ==
    /\ InPhase(a, "idle") /\ ProcFree(a)
    /\ HasRoom(k)
    /\ temp' = [temp EXCEPT ![a] = [expires |-> ExpiryFrom(ttl), mtime |-> now, size |-> size]]
    /\ op' = [op EXCEPT ![a] =
                [phase |-> IF streaming THEN "streaming" ELSE "writing", key |-> k]]
    /\ UNCHANGED <<dir, orphans, now, ghosts, setting>>

(* The producer of a stream writes another batch. *)
StreamOn(a) ==
    /\ InPhase(a, "streaming") /\ temp[a] # None
    /\ temp[a].mtime # now
    /\ temp' = [temp EXCEPT ![a].mtime = now]
    /\ UNCHANGED <<dir, orphans, op, now, ghosts, setting>>

(* Mutant: a failed write leaves its temporary file behind. *)
WriteFailsLeaks(a) ==
    /\ op[a].phase \in {"writing", "streaming"}
    /\ End(a)
    /\ UNCHANGED <<dir, temp, orphans, now, ghosts, setting>>

(* An OSError, and in set_streaming also any other failure: the temporary   *)
(* file is discarded, as far as the file system lets it be.                 *)
WriteFails(a) ==
    /\ op[a].phase \in {"writing", "streaming"}
    /\ temp' = [temp EXCEPT ![a] = None]
    /\ \/ UNCHANGED orphans
       \/ fault = "unlink" /\ temp[a] # None /\ orphans' = orphans \cup {temp[a].mtime}
    /\ End(a)
    /\ UNCHANGED <<dir, now, ghosts, setting>>

(* An exception no handler of the operation catches: KeyboardInterrupt, or  *)
(* for set() the BackendError of a lock it did not get.  set() then leaves  *)
(* its temporary file, which set_streaming's finally removes; a writer that *)
(* has renamed leaves its eviction undone.                                  *)
Interrupt(a) ==
    /\ fault = "interrupt" /\ ~InPhase(a, "idle")
    /\ temp' = [temp EXCEPT ![a] = None]
    /\ orphans' = IF InPhase(a, "writing") /\ temp[a] # None
                  THEN orphans \cup {temp[a].mtime} ELSE orphans
    /\ owed' = (owed \/ op[a].phase \in {"scanning", "evicting"})
    /\ End(a)
    /\ UNCHANGED <<dir, now, latest, setting>>

(* A streaming writer takes the process lock again for the rename. *)
MayCommit(a) == InPhase(a, "writing") \/ (InPhase(a, "streaming") /\ ProcFree(a))

(* The file that a's rename puts in place.  *)
Committed(a, size, valid, whole) ==
    [version |-> latest[op[a].key] + 1, expires |-> temp[a].expires, mtime |-> temp[a].mtime,
     size |-> size, valid |-> valid, whole |-> whole, by |-> procOf[a]]

(* os.rename: the temporary file becomes the file of the key.  set() does   *)
(* not look at how much os.write wrote: a file cut short, in the payload or *)
(* in the header, is committed like any other.                              *)
Commit(a) ==
    LET k == op[a].key
    IN  /\ MayCommit(a)
        /\ temp[a] # None /\ MoreWrites
        /\ \/ dir' = [dir EXCEPT ![k] = Committed(a, temp[a].size, TRUE, TRUE)]
           \/ /\ fault = "short" /\ InPhase(a, "writing")
              /\ \E size \in 0..temp[a].size :
                   dir' = [dir EXCEPT ![k] = Committed(a, size, size > 0, FALSE)]
        /\ temp' = [temp EXCEPT ![a] = None]
        /\ latest' = [latest EXCEPT ![k] = @ + 1]
        /\ op' = [op EXCEPT ![a] = [phase |-> "scanning", key |-> k]]
        /\ UNCHANGED <<orphans, now, owed, setting>>

(* Another process took the temporary file for an orphan: rename raises. *)
CommitFails(a) ==
    /\ MayCommit(a) /\ temp[a] = None
    /\ End(a)
    /\ UNCHANGED <<dir, temp, orphans, now, ghosts, setting>>

SizeOf(S) == SumFunction([k \in S |-> dir[k].size])

(* EVICTION_TRIGGER_THRESHOLD *)
MustEvict == 10 * Cardinality(Present) > 9 * MaxEntries \/ 10 * SizeOf(Present) > 9 * MaxSize

(* Mutant: eviction stops at the limits, not at its target below them. *)
EnoughAtLimit(count, size) == count <= MaxEntries /\ size <= MaxSize

(* EVICTION_TARGET_THRESHOLD *)
Enough(count, size) == count <= (7 * MaxEntries) \div 10 /\ 10 * size <= 7 * MaxSize

(* _maybe_evict: the directory is listed with sizes and mtimes. *)
Scan(a) ==
    /\ InPhase(a, "scanning")
    /\ op' = [op EXCEPT ![a] =
                IF MustEvict
                THEN [phase |-> "evicting", count |-> Cardinality(Present),
                      size |-> SizeOf(Present),
                      todo |-> {[key |-> k, mtime |-> dir[k].mtime, size |-> dir[k].size] :
                                k \in Present}]
                ELSE Idle]
    /\ owed' = FALSE
    /\ UNCHANGED <<dir, temp, orphans, now, latest, setting>>

(* Files go by their path, oldest first, until the listing's totals less    *)
(* what was really removed reach the target.  One that cannot be unlinked   *)
(* is passed over.                                                          *)
EvictNext(a) ==
    /\ InPhase(a, "evicting")
    /\ \/ /\ Enough(op[a].count, op[a].size) \/ op[a].todo = {}
          /\ End(a)
          /\ UNCHANGED <<dir, owed>>
       \/ /\ ~Enough(op[a].count, op[a].size)
          /\ \E v \in op[a].todo :
               LET gone == dir[v.key] = None
               IN  /\ \A w \in op[a].todo : v.mtime <= w.mtime
                   /\ dir' = [dir EXCEPT ![v.key] = None]
                   /\ op' = [op EXCEPT ![a].todo = @ \ {v},
                                       ![a].count = IF gone THEN @ ELSE @ - 1,
                                       ![a].size = IF gone THEN @ ELSE @ - v.size]
          /\ UNCHANGED owed
       \/ /\ fault = "unlink" /\ ~Enough(op[a].count, op[a].size)
          /\ \E v \in op[a].todo :
               /\ \A w \in op[a].todo : v.mtime <= w.mtime
               /\ op' = [op EXCEPT ![a].todo = @ \ {v}]
          /\ owed' = TRUE
          /\ UNCHANGED dir
    /\ UNCHANGED <<temp, orphans, now, latest, setting>>
--------------------------------------------------------------------------------
(* _cleanup_temp_files, in a process that opens the directory: every        *)
(* temporary file that has not been written to for TempAge goes, also one   *)
(* whose writer is alive.                                                   *)
Startup ==
    LET Old(mtime) == now > mtime + TempAge
    IN  /\ orphans' = {m \in orphans : ~Old(m)}
        /\ temp' = [a \in Actors |-> IF temp[a] # None /\ Old(temp[a].mtime)
                                     THEN None ELSE temp[a]]
        /\ <<orphans', temp'>> # <<orphans, temp>>
        /\ UNCHANGED <<dir, op, now, ghosts, setting>>

(* A process dies: the files stay as they are at that moment. *)
Crash(p) ==
    LET dead == {a \in Actors : procOf[a] = p}
    IN  /\ fault = "crash"
        /\ \E a \in dead : ~InPhase(a, "idle")
        /\ op' = [a \in Actors |-> IF a \in dead THEN Idle ELSE op[a]]
        /\ temp' = [a \in Actors |-> IF a \in dead THEN None ELSE temp[a]]
        /\ orphans' = orphans \cup {temp[a].mtime : a \in {b \in dead : temp[b] # None}}
        /\ owed' = (owed \/ \E a \in dead : op[a].phase \in {"scanning", "evicting"})
        /\ UNCHANGED <<dir, now, latest, setting>>

(* Something other than this code damages the header of a file. *)
Damage(k) ==
    /\ fault = "corrupt"
    /\ dir[k] # None /\ dir[k].valid
    /\ dir' = [dir EXCEPT ![k].valid = FALSE]
    /\ UNCHANGED <<temp, orphans, op, now, ghosts, setting>>

Next ==
    \/ Tick
    \/ Startup
    \/ \E p \in Procs : Crash(p)
    \/ \E k \in Keys : Damage(k)
    \/ \E a \in Actors :
         \/ Serve(a) \/ DropDead(a) \/ Rewrite(a)
         \/ StreamOn(a) \/ WriteFails(a) \/ Interrupt(a) \/ Commit(a) \/ CommitFails(a)
         \/ Scan(a) \/ EvictNext(a)
         \/ \E k \in Keys :
              \/ Delete(a, k)
              \/ \E kind \in {"read", "ttl"} : OpenRead(a, k, kind)
              \/ \E ttl \in Ttls :
                   \/ OpenRefresh(a, k, ttl)
                   \/ \E size \in Sizes, streaming \in BOOLEAN :
                        StartWrite(a, k, size, ttl, streaming)

Spec == Init /\ [][Next]_vars
--------------------------------------------------------------------------------
(* Files and temporary files are well formed, and a temporary file under    *)
(* the name of a write belongs to one in progress: it is committed, or      *)
(* discarded (backend.py:373-375, 476-482), or else an orphan.              *)
TypeOK ==
    /\ dir \in [Keys -> File \cup {None}]
    /\ temp \in [Actors -> TempFile \cup {None}]
    /\ orphans \subseteq Nat
    /\ \A a \in Actors :
         temp[a] # None => op[a].phase \in {"writing", "streaming"}
    /\ now \in Nat
    /\ latest \in [Keys -> Nat]
    /\ owed \in BOOLEAN
    /\ procOf \in Placements
    /\ fault \in Faults

(* The refinement mapping: which commit each whole file belongs to. *)
Held == [k \in Keys |-> IF dir[k] # None /\ dir[k].whole THEN dir[k].version ELSE None]

Lossy == INSTANCE LossyCache WITH Absent <- None, content <- Held, latest <- latest

(* The directory is a LossyCache: with writers, streams, refreshes, readers *)
(* that clean up, evictions, interrupts and crashes of several processes,   *)
(* the whole values in it are each the latest committed one of their key,   *)
(* and a stream is always whole ("a failed stream never leaves a partial    *)
(* value visible under key", backend.py:391).  What the latest set() cut    *)
(* short, os.write having written less than all (backend.py:357), counts as *)
(* nothing: no older value comes back behind it.                            *)
ImplementsLossyCache == Lossy!Spec

(* "Safe for concurrent access from multiple threads in same process"       *)
(* (backend.py:97): a reader that removes what it found dead takes a good   *)
(* file along only if another process put it there in between.              *)
ReaderDropsOnlyDead ==
    [][\A a \in Actors :
         LET k == op[a].key
         IN  DropDead(a) /\ dir[k] # None =>
               Dead(dir[k], "ttl") \/ dir[k].by # procOf[a] \/ Same(k, op[a].version)]_vars

(* "An expired entry is treated as absent" (backend.py:709): no refresh of  *)
(* its lifetime brings a file back once it has expired; only a new commit   *)
(* does.                                                                    *)
ExpiredStaysDead ==
    [][\A k \in Keys :
         /\ dir[k] # None /\ Expired(dir[k])
         /\ dir'[k] # None /\ dir'[k].version = dir[k].version
         => dir'[k].expires = dir[k].expires]_vars

(* "until cache is at 70% capacity" (backend.py:107): whenever no write is  *)
(* under way, the directory is below its trigger, however the processes'    *)
(* scans and removals overlapped, unless an eviction was cut short or could *)
(* not unlink a file and no listing has been made since.                    *)
RoomIsMade ==
    (\A a \in Actors : op[a].phase \notin {"scanning", "evicting"}) => owed \/ ~MustEvict
================================================================================
