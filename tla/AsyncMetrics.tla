------------------------------ MODULE AsyncMetrics -----------------------------
(***************************************************************************)
(* AsyncMetricsCollector (reliability/async_metrics.py): threads record    *)
(* metrics either at once (sync mode) or through a bounded queue that a    *)
(* worker thread empties in batches (async mode); the collector switches   *)
(* between the two by itself.  Metrics travel in dicts from a pool.        *)
(*                                                                         *)
(* Metrics are numbered in the order they are recorded, so that the fate   *)
(* of each can be followed; a new dict has the number of the metric it was *)
(* made for.  The four record_* methods have the same control and are one  *)
(* here.  The clock is left out: a mode check may come with any record,    *)
(* of several threads at a time, and the flush interval may have passed at *)
(* any time.                                                               *)
(***************************************************************************)
EXTENDS Naturals, Sequences, FiniteSets, SequencesExt

CONSTANTS
    Threads, None,
    MaxMetrics,    \* bound: how many metrics are recorded
    MaxQueueSize,  \* max_queue_size
    BatchSize,     \* batch_size
    PoolSize,      \* the limit of _metric_pool
    MaxSwitches,   \* bound: how often the mode changes
    MaxRefusals    \* bound: how often Prometheus refuses a flush

ASSUME AsyncMetricsAssumption ==
    /\ IsFiniteSet(Threads) /\ MaxMetrics \in Nat
    /\ None \notin 1 .. MaxMetrics /\ None \notin Seq(Nat) /\ None \notin BOOLEAN
    /\ None \notin {"direct", "raised", "queued", "dropped"}
    /\ MaxQueueSize \in Nat \ {0} /\ BatchSize \in Nat \ {0} /\ PoolSize \in Nat
    /\ MaxSwitches \in Nat /\ MaxRefusals \in Nat

VARIABLES
    mode,      \* "sync" or "async": _sync_mode
    queue,     \* _queue: the dicts in it, or None before async mode is set up
    queues,    \* ghost: how many queues have been made
    orphans,   \* the dicts in queues that were replaced
    stopped,   \* the event _stopped, or None before there is one
    pool,      \* _metric_pool
    dict,      \* dict[b]: the metric that dict b describes, or None
    call,      \* call[t]: the record_* call of thread t
    worker,    \* the workers in the order they were started: the phase, the batch, how much
               \* of it is grouped, how often m is (groups[m]) and where it flushes
    counted,   \* counted[m]: how often Prometheus has been told of m (2: or more)
    dropped,   \* _dropped_metrics
    fate,      \* ghost: how the call that recorded m ended
    refusals, switches

collector == <<mode, queue, queues, orphans, stopped, pool, dict, call, worker, counted,
               dropped, fate, refusals, switches>>

Metrics == 1 .. MaxMetrics
Dicts == Metrics
Idle == [phase |-> "idle", metric |-> None, dict |-> 0, seen |-> 0]
NoGroups == [m \in Metrics |-> 0]
Resting(ph) == [phase |-> ph, batch |-> <<>>, done |-> 0, groups |-> NoGroups, at |-> "none"]
Waiting == IF queue = None THEN <<>> ELSE queue
Least2(n) == IF n > 2 THEN 2 ELSE n
--------------------------------------------------------------------------------
(* __init__ with automatic mode detection, or with sync_mode=False. *)
CollectorInit ==
    /\ \/ mode = "sync" /\ queue = None /\ queues = 0 /\ stopped = None /\ worker = <<>>
       \/ mode = "async" /\ queue = <<>> /\ queues = 1 /\ stopped = FALSE
          /\ worker = <<Resting("top")>>
    /\ orphans = <<>>
    /\ pool = <<>>
    /\ dict = [b \in Dicts |-> None]
    /\ call = [t \in Threads |-> Idle]
    /\ counted = NoGroups
    /\ dropped = 0
    /\ fate = [m \in Metrics |-> None]
    /\ refusals = 0 /\ switches = 0

Begin(t, m, ph) == call' = [call EXCEPT ![t] = [Idle EXCEPT !.phase = ph, !.metric = m]]
Begun(m) == fate[m] # None \/ \E t \in Threads : call[t].metric = m
New(t, m) == call[t] = Idle /\ ~Begun(m) /\ \A n \in 1 .. m - 1 : Begun(n)
GoOn(t, ph) == call' = [call EXCEPT ![t].phase = ph]
End(t, how) ==
    /\ call' = [call EXCEPT ![t] = Idle]
    /\ fate' = [fate EXCEPT ![call[t].metric] = how]

workers == <<worker, counted, refusals>>

(* record_*: no mode check is due, or it changes nothing. *)
Record(t, m) ==
    /\ New(t, m)
    /\ Begin(t, m, "branch")
    /\ UNCHANGED <<mode, queue, queues, orphans, stopped, pool, dict, workers, dropped, fate,
                   switches>>

(* _maybe_switch_mode: the thread has found the mode to be the other one    *)
(* and logs that it is going to change it.                                  *)
CheckMode(t, m) ==
    /\ New(t, m) /\ switches < MaxSwitches
    /\ Begin(t, m, IF mode = "sync" THEN "toAsync" ELSE "toSync")
    /\ switches' = switches + 1
    /\ UNCHANGED <<mode, queue, queues, orphans, stopped, pool, dict, workers, dropped, fate>>

(* The mode is changed first, and async mode set up after ... *)
SwitchToAsync(t) ==
    /\ call[t].phase = "toAsync"
    /\ mode' = "async"
    /\ GoOn(t, "init")
    /\ UNCHANGED <<queue, queues, orphans, stopped, pool, dict, workers, dropped, fate, switches>>

(* ... or the worker told to stop after.                                    *)
SwitchToSync(t) ==
    /\ call[t].phase = "toSync"
    /\ mode' = "sync"
    /\ GoOn(t, "stop")
    /\ UNCHANGED <<queue, queues, orphans, stopped, pool, dict, workers, dropped, fate, switches>>

Stop(t) ==
    /\ call[t].phase = "stop"
    /\ stopped' = IF stopped = None THEN None ELSE TRUE
    /\ GoOn(t, "branch")
    /\ UNCHANGED <<mode, queue, queues, orphans, pool, dict, workers, dropped, fate, switches>>

(* _init_async_mode: a queue that is there is kept, with its worker,        *)
(* whether that still runs or not.  There is no lock: of two threads that   *)
(* see none, the second replaces the queue, the event and                   *)
(* _worker_thread of the first, whose worker goes over to the new ones.     *)
InitAsync(t) ==
    /\ call[t].phase = "init"
    /\ GoOn(t, IF queue = None THEN "create" ELSE "branch")
    /\ UNCHANGED <<mode, queue, queues, orphans, stopped, pool, dict, workers, dropped, fate,
                   switches>>

NewQueue(t) ==
    /\ call[t].phase = "create"
    /\ queue' = <<>>
    /\ queues' = queues + 1
    /\ orphans' = orphans \o Waiting
    /\ GoOn(t, "start")
    /\ UNCHANGED <<mode, stopped, pool, dict, workers, dropped, fate, switches>>

StartWorker(t) ==
    /\ call[t].phase = "start"
    /\ stopped' = FALSE
    /\ worker' = Append(worker, Resting("top"))
    /\ GoOn(t, "branch")
    /\ UNCHANGED <<mode, queue, queues, orphans, pool, dict, counted, dropped, fate, refusals,
                   switches>>

(* A thread or a worker that looked at _queue before it was replaced still  *)
(* uses the old one; which of them did is left open.                        *)
Replaced == queues > 1

(* _record_*_sync *)
RecordSync(t) ==
    /\ call[t].phase = "branch" /\ mode = "sync"
    /\ counted' = [counted EXCEPT ![call[t].metric] = Least2(@ + 1)]
    /\ End(t, "direct")
    /\ UNCHANGED <<mode, queue, queues, orphans, stopped, pool, dict, worker, dropped, refusals,
                   switches>>

(* ... whose labels are not those the name had at first: a ValueError, for  *)
(* the caller.                                                              *)
RecordSyncFails(t) ==
    /\ call[t].phase = "branch" /\ mode = "sync"
    /\ End(t, "raised")
    /\ UNCHANGED <<mode, queue, queues, orphans, stopped, pool, dict, workers, dropped, switches>>

(* The assertion of _record_*_async: the switch of another thread is half   *)
(* done.                                                                    *)
AssertFails(t) ==
    /\ call[t].phase = "branch" /\ mode = "async" /\ queue = None
    /\ End(t, "raised")
    /\ UNCHANGED <<mode, queue, queues, orphans, stopped, pool, dict, workers, dropped, switches>>

(* _get_pooled_metric_data, filled in. *)
Fill(t) ==
    LET b == IF pool # <<>> THEN Last(pool) ELSE call[t].metric
    IN  /\ call[t].phase = "branch" /\ mode = "async" /\ queue # None
        /\ pool' = IF pool # <<>> THEN Front(pool) ELSE pool
        /\ dict' = [dict EXCEPT ![b] = call[t].metric]
        /\ call' = [call EXCEPT ![t].phase = "put", ![t].dict = b]
        /\ UNCHANGED <<mode, queue, queues, orphans, stopped, workers, dropped, fate, switches>>

(* _return_to_pool *)
Pooled(b) == IF Len(pool) < PoolSize THEN Append(pool, b) ELSE pool

(* put_nowait, on the queue or on one it has replaced *)
Enqueued(b) ==
    \/ Len(queue) < MaxQueueSize /\ queue' = Append(queue, b) /\ UNCHANGED orphans
    \/ Replaced /\ orphans' = Append(orphans, b) /\ UNCHANGED queue

(* Mutant: the dict is given back whether it was queued or not. *)
PutReturns(t) ==
    /\ call[t].phase = "put"
    /\ Enqueued(call[t].dict)
    /\ pool' = Pooled(call[t].dict)
    /\ End(t, "queued")
    /\ UNCHANGED <<mode, queues, stopped, dict, workers, dropped, switches>>

Put(t) ==
    /\ call[t].phase = "put"
    /\ Enqueued(call[t].dict)
    /\ End(t, "queued")
    /\ UNCHANGED <<mode, queues, stopped, pool, dict, workers, dropped, switches>>

(* queue.Full: the drop is counted, by a read and a write that another      *)
(* thread may come between, and the dict goes back.                         *)
Full(t) ==
    /\ call[t].phase = "put" /\ (Len(queue) >= MaxQueueSize \/ Replaced)
    /\ call' = [call EXCEPT ![t].phase = "full", ![t].seen = dropped]
    /\ UNCHANGED <<mode, queue, queues, orphans, stopped, pool, dict, workers, dropped, fate,
                   switches>>

Drop(t) ==
    /\ call[t].phase = "full"
    /\ dropped' = call[t].seen + 1
    /\ pool' = Pooled(call[t].dict)
    /\ End(t, "dropped")
    /\ UNCHANGED <<mode, queue, queues, orphans, stopped, dict, workers, switches>>

(* shutdown *)
Shutdown ==
    /\ mode = "async" /\ stopped = FALSE /\ switches < MaxSwitches
    /\ stopped' = TRUE
    /\ switches' = switches + 1
    /\ UNCHANGED <<mode, queue, queues, orphans, pool, dict, call, workers, dropped, fate>>
--------------------------------------------------------------------------------
callers == <<mode, queues, stopped, call, dropped, fate, switches>>

At(w, ph) == w \in DOMAIN worker /\ worker[w].phase = ph
Becomes(w, r) == worker' = [worker EXCEPT ![w] = r]
Moved(w, ph) == [worker[w] EXCEPT !.phase = ph]
Flushing(r, at) == [r EXCEPT !.phase = "group", !.at = at]

(* Mutant: a worker that is stopped forgets its batch. *)
LoopForgets(w) ==
    /\ At(w, "top")
    /\ Becomes(w, IF stopped THEN Resting("dead") ELSE Moved(w, "get"))
    /\ UNCHANGED <<callers, queue, orphans, pool, dict, counted, refusals>>

(* _worker_loop: the test, and the final flush of what is in the batch. *)
Loop(w) ==
    /\ At(w, "top")
    /\ \/ ~stopped /\ Becomes(w, Moved(w, "get"))
       \/ stopped /\ worker[w].batch = <<>> /\ Becomes(w, Moved(w, "dead"))
       \/ stopped /\ worker[w].batch # <<>> /\ Becomes(w, Flushing(worker[w], "final"))
    /\ UNCHANGED <<callers, queue, orphans, pool, dict, counted, refusals>>

(* get, from the queue or from one it has replaced *)
Dequeued(b) ==
    \/ queue # <<>> /\ b = Head(queue) /\ queue' = Tail(queue) /\ UNCHANGED orphans
    \/ Replaced /\ orphans # <<>> /\ b = Head(orphans) /\ orphans' = Tail(orphans) /\ UNCHANGED queue

Get(w, b) ==
    /\ At(w, "get")
    /\ Dequeued(b)
    /\ LET more == [worker[w] EXCEPT !.batch = Append(@, b)]
       IN  Becomes(w, IF Len(more.batch) >= BatchSize THEN Flushing(more, "try")
                      ELSE [more EXCEPT !.phase = "late"])
    /\ UNCHANGED <<callers, pool, dict, counted, refusals>>

(* Mutant: a batch that is not full waits for more. *)
TimeOutGetWaits(w) ==
    /\ At(w, "get") /\ (queue = <<>> \/ Replaced)
    /\ Becomes(w, Moved(w, "top"))
    /\ UNCHANGED <<callers, queue, orphans, pool, dict, counted, refusals>>

(* queue.Empty: what there is is flushed. *)
TimeOutGet(w) ==
    /\ At(w, "get") /\ (queue = <<>> \/ Replaced)
    /\ Becomes(w, IF worker[w].batch = <<>> THEN Moved(w, "late") ELSE Flushing(worker[w], "handler"))
    /\ UNCHANGED <<callers, queue, orphans, pool, dict, counted, refusals>>

(* The flush interval may have passed at the end of an iteration. *)
EndOfIteration(w) ==
    /\ At(w, "late")
    /\ \/ Becomes(w, Moved(w, "top"))
       \/ worker[w].batch # <<>> /\ Becomes(w, Flushing(worker[w], "force"))
    /\ UNCHANGED <<callers, queue, orphans, pool, dict, counted, refusals>>

(* _flush_batch, dict by dict: grouped, then back in the pool. *)
Group(w) ==
    LET b == worker[w].batch[worker[w].done + 1]
    IN  /\ At(w, "group") /\ worker[w].done < Len(worker[w].batch)
        /\ Becomes(w, [worker[w] EXCEPT !.done = @ + 1, !.groups[dict[b]] = Least2(@ + 1)])
        /\ pool' = Pooled(b)
        /\ UNCHANGED <<callers, queue, orphans, dict, counted, refusals>>

Told(w, ms) ==
    [m \in Metrics |-> IF m \in ms THEN Least2(counted[m] + worker[w].groups[m]) ELSE counted[m]]

AfterFlush(at) == IF at = "final" THEN "dead" ELSE IF at = "force" THEN "top" ELSE "late"

(* _update_prometheus_metrics *)
Update(w) ==
    /\ At(w, "group") /\ worker[w].done = Len(worker[w].batch)
    /\ counted' = Told(w, Metrics)
    /\ Becomes(w, Resting(AfterFlush(worker[w].at)))
    /\ UNCHANGED <<callers, queue, orphans, pool, dict, refusals>>

(* ... raises half way (two sets of labels for one name).  Within the try   *)
(* block that is logged and the batch kept; elsewhere it ends the thread.   *)
UpdateFails(w, ms) ==
    /\ At(w, "group") /\ worker[w].done = Len(worker[w].batch) /\ refusals < MaxRefusals
    /\ refusals' = refusals + 1
    /\ counted' = Told(w, ms)
    /\ Becomes(w, IF worker[w].at = "try"
                  THEN [Resting("late") EXCEPT !.batch = worker[w].batch]
                  ELSE Resting("dead"))
    /\ UNCHANGED <<callers, queue, orphans, pool, dict>>
--------------------------------------------------------------------------------
Caller(t) ==
    \/ SwitchToAsync(t) \/ SwitchToSync(t) \/ Stop(t)
    \/ InitAsync(t) \/ NewQueue(t) \/ StartWorker(t)
    \/ RecordSync(t) \/ RecordSyncFails(t) \/ AssertFails(t)
    \/ Fill(t) \/ Put(t) \/ Full(t) \/ Drop(t)
Worker(w) ==
    \/ Loop(w) \/ TimeOutGet(w) \/ EndOfIteration(w) \/ Group(w) \/ Update(w)
    \/ \E b \in Dicts : Get(w, b)

(* The constructor may start a worker, and each thread one more. *)
Workers == 1 .. Cardinality(Threads) + 1

CollectorNext ==
    \/ \E t \in Threads, m \in Metrics : Record(t, m) \/ CheckMode(t, m)
    \/ \E t \in Threads : Caller(t)
    \/ Shutdown
    \/ \E w \in Workers : Worker(w)
    \/ \E w \in Workers, ms \in SUBSET Metrics : UpdateFails(w, ms)

(* Threads that have begun run on, and so do the workers. *)
CollectorSpec ==
    /\ CollectorInit /\ [][CollectorNext]_collector
    /\ \A w \in Workers : WF_collector(Worker(w))
    /\ \A t \in Threads : WF_collector(Caller(t))
--------------------------------------------------------------------------------
Seen(b, s) == Cardinality({i \in DOMAIN s : s[i] = b})

(* The state space; the queue and the pool keep within their limits. *)
CollectorTypeOK ==
    /\ mode \in {"sync", "async"}
    /\ Len(Waiting) <= MaxQueueSize /\ ToSet(Waiting) \subseteq Dicts
    /\ Len(pool) <= PoolSize /\ ToSet(pool) \subseteq Dicts
    /\ stopped \in BOOLEAN \cup {None}
    /\ dict \in [Dicts -> Metrics \cup {None}]
    /\ \A t \in Threads :
         /\ call[t].phase \in {"idle", "toAsync", "init", "create", "start", "toSync", "stop",
                              "branch", "put", "full"}
         /\ call[t].metric \in Metrics \cup {None}
         /\ call[t].dict \in Dicts \cup {0}
    /\ \A w \in DOMAIN worker :
         /\ worker[w].phase \in {"top", "get", "late", "group", "dead"}
         /\ Len(worker[w].batch) <= BatchSize + refusals /\ worker[w].done <= Len(worker[w].batch)
    /\ counted \in [Metrics -> 0 .. 2]
    /\ fate \in [Metrics -> {None, "direct", "raised", "queued", "dropped"}]

(* No flush has failed, and no queue was replaced by another. *)
Intact == refusals = 0 /\ ~Replaced

(* The worker, of which there is one while there is one queue, and the      *)
(* dicts that it has not grouped yet.                                       *)
First == IF worker = <<>> THEN Resting("none") ELSE worker[1]
Pending == SubSeq(First.batch, First.done + 1, Len(First.batch))

(* The memory pool (async_metrics.py:459-472): until a flush has failed or  *)
(* a queue was replaced, no dict is in two places, so no thread fills in    *)
(* one that is on its way.                                                  *)
NoDictShared ==
    Intact => \A b \in Dicts :
        Seen(b, pool) + Seen(b, Waiting) + Seen(b, Pending)
            + Cardinality({t \in Threads : call[t].dict = b}) <= 1

(* Nothing vanishes and nothing is counted twice: until a flush has failed, *)
(* a metric whose call ended well is counted, or is still in the queue or   *)
(* with the worker, exactly once in all (async_metrics.py:222-305), and one *)
(* that was dropped or refused is nowhere.  This holds across changes of    *)
(* mode and shutdown, though what is in the queue then may stay there; but  *)
(* only until two threads that change the mode together have made two       *)
(* queues (async_metrics.py:418-419): what was put into the first is lost,  *)
(* or left to the get that was waiting there.                               *)
Conserved ==
    Intact => \A m \in Metrics :
        counted[m] + First.groups[m]
            + Cardinality({i \in DOMAIN Waiting : dict[Waiting[i]] = m})
            + Cardinality({i \in DOMAIN Pending : dict[Pending[i]] = m})
        = IF fate[m] \in {"direct", "queued"} THEN 1 ELSE 0

(* get_dropped_metrics_count (async_metrics.py:390): when no call is under  *)
(* way, the counter shows an overflow if there was one, and never more      *)
(* drops than there were, though its increments may overwrite each other.   *)
OverflowShows ==
    LET drops == Cardinality({m \in Metrics : fate[m] = "dropped"})
    IN  (\A t \in Threads : call[t] = Idle) => dropped <= drops /\ (drops > 0 => dropped > 0)

(* A metric is counted, on its way, refused with an exception, or its drop  *)
(* shows (async_metrics.py:222-305, 390, 540-570), up to a failed flush or  *)
(* a replaced queue; overflow shows after that too.                         *)
MetricsAccounted == CollectorTypeOK /\ Conserved /\ OverflowShows

(* Nothing vanishes, also when the switch to async mode is made twice: not  *)
(* so, see the README.                                                      *)
NothingOrphaned == refusals = 0 => orphans = <<>>

(* The flush interval: a queued metric reaches Prometheus, without others   *)
(* to fill its batch, unless the collector is stopped, a flush fails or the *)
(* queue is replaced.                                                       *)
EventuallyCounted ==
    \A m \in Metrics : fate[m] = "queued" ~> (counted[m] > 0 \/ stopped = TRUE \/ ~Intact)
================================================================================
