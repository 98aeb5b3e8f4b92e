--------------------------- MODULE CachePrefetch ---------------------------
(***************************************************************************)
(* Keeping the DNS cache fresh (src/src/dns_mw_cache.rs): the ready heap of *)
(* expiry times, the scanner task that pops it and queues refreshes, the    *)
(* worker that runs them as background queries, the refresh a client's hit  *)
(* queues, and the inserts that feed the heap and wake the scanner.         *)
(*                                                                         *)
(* Time is relative: an instant is the number of ticks until it, negative   *)
(* once it has passed, and Tick brings every instant closer.  Two instants  *)
(* of the program's nanosecond clock never coincide: with l ticks left at   *)
(* least l and less than l+1 ticks of real time remain.  One step is one    *)
(* critical section of a shard lock or of the heap lock, or one channel     *)
(* operation.  `get_expired` takes no time on this scale.                   *)
(*                                                                         *)
(* Two heap items of one key with the same instant are one element here: a *)
(* second one is popped to the same effect as the first.                    *)
(***************************************************************************)
EXTENDS Integers, Sequences, FiniteSets, FiniteSetsExt

CONSTANTS
  Key,           \* cached queries
  IpKey,         \* those of type A or AAAA
  TTL,           \* lifetimes an answer may have, after the cap of `insert`
  Client,        \* client queries that may be in flight at once
  Slot,          \* permits of the prefetch worker
  CHANNEL,       \* capacity of the prefetch channel
  BATCH,         \* PREFETCH_BATCH_SIZE
  MIN_INTERVAL,  \* PREFETCH_MIN_INTERVAL
  AHEAD,         \* seconds_ahead of `get_expired`
  EXPIRED_TTL,   \* serve-expired-ttl
  ON_HIT,        \* remaining lifetime below which a hit queues a refresh
  MAX_TTL,       \* longest sleep of the scanner
  MAX_WAITING,   \* bound: refreshes of one key waiting for a permit
  SERVE_EXPIRED, \* serve-expired
  File,          \* keys of the persisted cache file
  MAY_CLEAR,     \* whether `clear` is called
  MAY_FAIL       \* whether upstream queries fail

ASSUME CachePrefetchAssumption ==
  /\ IpKey \subseteq Key
  /\ File \subseteq Key
  /\ TTL \subseteq Nat \ {0}
  /\ \E l \in TTL : \A m \in TTL : m <= l
  /\ Client \cap Slot = {}
  /\ {CHANNEL, BATCH, MAX_TTL, MAX_WAITING} \subseteq Nat \ {0}
  /\ {MIN_INTERVAL, AHEAD, EXPIRED_TTL, ON_HIT} \subseteq Nat
  /\ {SERVE_EXPIRED, MAY_CLEAR, MAY_FAIL} \subseteq BOOLEAN

VARIABLES
  entry,       \* entry[k]: the cache entry of k, or NoEntry
  heap,        \* `prefetch_heap`: a set of [left, key]
  scan,        \* the scanner: where it is, and the locals of `get_expired`
  next_check,  \* ticks until its timer fires
  since_check, \* ticks since `last_check`, no further than they matter
  notified,    \* the permit stored in the Notify
  chan,        \* the prefetch channel
  waiting,     \* waiting[k]: refreshes the worker has spawned, without a permit
  job,         \* job[f]: the query a client or a permit holder is running
  to_load,     \* keys of the file not yet loaded
  clearing,    \* `clear` is between the shards and the heap
  swept,       \* history: keys of entries inserted while a `clear` was under way,
               \* whose items it removed from the heap
  unseen,      \* history: why the heap may hold keys the scanner does not reckon with:
               \* "loaded", since it last woke, or "cut" off its last batch
  blocked      \* history: ticks the scanner has waited for room in the channel
               \* since it woke, no further than MAX_TTL

timer == <<next_check, since_check, blocked>>
sched == <<scan, timer>>
queues == <<chan, waiting>>
history == <<swept, unseen>>
vars == <<entry, heap, sched, notified, queues, job, to_load, clearing, history>>

\* Entries are prefetched from this many ticks before (or, negative, after) they
\* expire: `threshold` of `get_expired`.
Threshold == AHEAD - EXPIRED_TTL

\* Further back, instants are not told apart.
PAST == Min({Threshold, 0}) - 1
Left == PAST..Max(TTL)
Sooner(l) == Max({l - 1, PAST})

NoEntry == [present |-> FALSE, left |-> PAST, negative |-> FALSE, is_in_prefetching |-> FALSE]
Free == [pc |-> "idle"]
Waiting == [pc |-> "wait"]
Fetcher == Client \cup Slot

Entries == [present : BOOLEAN, left : Left, negative : BOOLEAN, is_in_prefetching : BOOLEAN]
Items == [left : Left, key : Key]
IsScan(s) ==
  \/ s = Waiting
  \/ s \in [pc : {"pop", "requeue", "peek"}, expired : SUBSET IpKey, requeue : SUBSET Items]
  \/ s \in [pc : {"judge"}, expired : SUBSET IpKey, requeue : SUBSET Items, held : Key]
  \/ s \in [pc : {"send"}, expired : SUBSET IpKey, most_recent : 0..MAX_TTL]
Jobs ==
  {Free} \cup [pc : {"fetch", "notify"}, key : Key] \cup [pc : {"push"}, key : Key, left : Left]

TypeOK ==
  /\ entry \in [Key -> Entries]
  /\ heap \subseteq Items
  /\ IsScan(scan)
  /\ next_check \in 0..Max({MAX_TTL, MIN_INTERVAL})
  /\ since_check \in 0..(MIN_INTERVAL + 1)
  /\ notified \in BOOLEAN
  /\ chan \in Seq(Key) /\ Len(chan) <= CHANNEL
  /\ waiting \in [Key -> 0..MAX_WAITING]
  /\ job \in [Fetcher -> Jobs]
  /\ to_load \subseteq File
  /\ clearing \in BOOLEAN
  /\ blocked \in 0..MAX_TTL
  /\ swept \subseteq Key
  /\ unseen \subseteq {"loaded", "cut"}

Init ==
  /\ entry = [k \in Key |-> NoEntry]
  /\ heap = {}
  /\ scan = Waiting
  /\ next_check = 0
  /\ since_check = 0
  /\ notified = FALSE
  /\ chan = <<>>
  /\ waiting = [k \in Key |-> 0]
  /\ job = [f \in Fetcher |-> Free]
  /\ to_load = File
  /\ clearing = FALSE
  /\ blocked = 0
  /\ swept = {}
  /\ unseen = {}

-----------------------------------------------------------------------------
\* Time and the cache itself

\* Time passes while the scanner sleeps, or waits for room in the channel.
Tick ==
  /\ scan = Waiting \/ (scan.pc = "send" /\ scan.expired # {} /\ Len(chan) = CHANNEL)
  /\ entry' = [k \in Key |-> [entry[k] EXCEPT !.left = Sooner(@)]]
  /\ heap' = {[i EXCEPT !.left = Sooner(@)] : i \in heap}
  /\ job' = [f \in Fetcher |-> IF job[f].pc = "push" THEN [job[f] EXCEPT !.left = Sooner(@)]
                                                      ELSE job[f]]
  /\ next_check' = Max({next_check - 1, 0})
  /\ since_check' = Min({since_check + 1, MIN_INTERVAL + 1})
  /\ blocked' = IF scan = Waiting THEN blocked ELSE Min({blocked + 1, MAX_TTL})
  /\ UNCHANGED <<scan, notified, queues, to_load, clearing, history>>

\* An insert of another key displaces this one, or the budget evicts it.
Evict(k) ==
  /\ entry[k].present
  /\ entry' = [entry EXCEPT ![k] = NoEntry]
  /\ swept' = swept \ {k}
  /\ UNCHANGED <<heap, sched, notified, queues, job, to_load, clearing, unseen>>

\* `clear`: the entries (one shard here) ...
ClearShards ==
  /\ MAY_CLEAR
  /\ ~clearing
  /\ entry' = [k \in Key |-> NoEntry]
  /\ clearing' = TRUE
  /\ swept' = {}
  /\ UNCHANGED <<heap, sched, notified, queues, job, to_load, unseen>>

\* ... then the heap.
ClearHeap ==
  /\ clearing
  /\ heap' = {}
  /\ clearing' = FALSE
  /\ swept' = {k \in Key : entry[k].present}
  /\ UNCHANGED <<entry, sched, notified, queues, job, to_load, unseen>>

\* The shard part of `insert` and `insert_negative`: an existing entry keeps its
\* `is_in_prefetching`.
Put(k, l, neg) ==
  entry' = [entry EXCEPT ![k] = [@ EXCEPT !.present = TRUE, !.left = l, !.negative = neg]]

\* `load_from`, one entry, negative ones too (the shard, then the heap): nobody is
\* notified.
Load(k, l, neg) ==
  /\ k \in to_load
  /\ to_load' = to_load \ {k}
  /\ entry' = [entry EXCEPT ![k] = [NoEntry EXCEPT !.present = TRUE, !.left = l, !.negative = neg]]
  /\ heap' = heap \cup {[left |-> l, key |-> k]}
  /\ swept' = swept \ {k}
  /\ unseen' = unseen \cup {"loaded"}
  /\ UNCHANGED <<sched, notified, queues, job, clearing>>

-----------------------------------------------------------------------------
\* Queries

\* `try_prefetch`: a full channel drops the refresh.
try_prefetch(k) == chan' = IF Len(chan) < CHANNEL THEN Append(chan, k) ELSE chan

\* `handle`, a client's hit that queues a refresh: a positive answer that is about
\* to expire, or an expired one that is served.
Hit(k) ==
  /\ entry[k].present /\ ~entry[k].negative
  /\ entry[k].left < 0 => SERVE_EXPIRED
  /\ entry[k].left < ON_HIT
  /\ try_prefetch(k)
  /\ UNCHANGED <<entry, heap, sched, notified, waiting, job, to_load, clearing, history>>

\* `handle`, a client's miss: the query goes to the upstream servers.
Miss(f, k) ==
  /\ job[f] = Free
  /\ entry[k].present => entry[k].left < 0 /\ ~SERVE_EXPIRED
  /\ job' = [job EXCEPT ![f] = [pc |-> "fetch", key |-> k]]
  /\ UNCHANGED <<entry, heap, sched, notified, queues, to_load, clearing, history>>

\* `prefetch_worker`: every task received is spawned at once ...
WorkerRecv ==
  /\ chan # <<>>
  /\ waiting[Head(chan)] < MAX_WAITING
  /\ waiting' = [waiting EXCEPT ![Head(chan)] = @ + 1]
  /\ chan' = Tail(chan)
  /\ UNCHANGED <<entry, heap, sched, notified, job, to_load, clearing, history>>

\* ... and sends its background query, which bypasses the cache, with a permit.
Acquire(f, k) ==
  /\ job[f] = Free
  /\ waiting[k] > 0
  /\ waiting' = [waiting EXCEPT ![k] = @ - 1]
  /\ job' = [job EXCEPT ![f] = [pc |-> "fetch", key |-> k]]
  /\ UNCHANGED <<entry, heap, sched, notified, chan, to_load, clearing, history>>

\* The upstream answer: `insert_records` writes the entry ...
Positive(f, l) ==
  /\ job[f].pc = "fetch"
  /\ Put(job[f].key, l, FALSE)
  /\ job' = [job EXCEPT ![f] = [pc |-> "push", key |-> job[f].key, left |-> l]]
  /\ UNCHANGED <<heap, sched, notified, queues, to_load, clearing, history>>

\* ... pushes its key ...
Push(f) ==
  /\ job[f].pc = "push"
  /\ heap' = heap \cup {[left |-> job[f].left, key |-> job[f].key]}
  /\ job' = [job EXCEPT ![f] = [pc |-> "notify", key |-> job[f].key]]
  /\ swept' = swept \ {job[f].key}
  /\ UNCHANGED <<entry, sched, notified, queues, to_load, clearing, unseen>>

\* Mutant of Notify: the scanner is not woken.
NotifyNobody(f) ==
  /\ job[f].pc = "notify"
  /\ job' = [job EXCEPT ![f] = Free]
  /\ UNCHANGED <<entry, heap, sched, notified, queues, to_load, clearing, history>>

\* ... and the scanner is woken.
Notify(f) ==
  /\ job[f].pc = "notify"
  /\ notified' = TRUE
  /\ job' = [job EXCEPT ![f] = Free]
  /\ UNCHANGED <<entry, heap, sched, queues, to_load, clearing, history>>

\* A negative answer: `insert_negative`, neither heap nor notification.
Negative(f, l) ==
  /\ job[f].pc = "fetch"
  /\ Put(job[f].key, l, TRUE)
  /\ job' = [job EXCEPT ![f] = Free]
  /\ UNCHANGED <<heap, sched, notified, queues, to_load, clearing, history>>

\* An error, or an answer that is not cached.
Fail(f) ==
  /\ MAY_FAIL
  /\ job[f].pc = "fetch"
  /\ job' = [job EXCEPT ![f] = Free]
  /\ UNCHANGED <<entry, heap, sched, notified, queues, to_load, clearing, history>>

-----------------------------------------------------------------------------
\* The scanner

Scanning(p) == [pc |-> p, expired |-> scan.expired, requeue |-> scan.requeue]

\* Woken: scan, unless the last scan is too recent.
Check ==
  /\ blocked' = 0
  /\ unseen' = {}
  /\ IF since_check > MIN_INTERVAL
     THEN /\ scan' = [pc |-> "pop", expired |-> {}, requeue |-> {}]
          /\ since_check' = 0
     ELSE /\ scan' = [pc |-> "send", expired |-> {}, most_recent |-> 0]
          /\ UNCHANGED since_check

\* The two branches of its select: when both are ready either one is taken.
WakeByTimer ==
  /\ scan = Waiting
  /\ next_check = 0
  /\ Check
  /\ UNCHANGED <<entry, heap, next_check, notified, queues, job, to_load, clearing, swept>>

WakeByNotify ==
  /\ scan = Waiting
  /\ notified
  /\ notified' = FALSE
  /\ Check
  /\ UNCHANGED <<entry, heap, next_check, queues, job, to_load, clearing, swept>>

Earliest(i) == \A j \in heap : i.left <= j.left

\* `get_expired`: pop the earliest candidate; one that is not due yet, or one too
\* many for the batch, is put back and ends the loop ...
Pop(i) ==
  /\ scan.pc = "pop"
  /\ i \in heap /\ Earliest(i)
  /\ heap' = heap \ {i}
  /\ scan' = IF i.left >= Threshold \/ Cardinality(scan.expired) >= BATCH
             THEN [Scanning("requeue") EXCEPT !.requeue = @ \cup {i}]
             ELSE [pc |-> "judge", expired |-> scan.expired, requeue |-> scan.requeue,
                   held |-> i.key]
  /\ unseen' = IF i.left < Threshold /\ Cardinality(scan.expired) >= BATCH
               THEN unseen \cup {"cut"} ELSE unseen
  /\ UNCHANGED <<entry, timer, notified, queues, job, to_load, clearing, swept>>

\* ... and so does an empty heap;
PopNone ==
  /\ scan.pc = "pop"
  /\ heap = {}
  /\ scan' = Scanning("requeue")
  /\ UNCHANGED <<entry, heap, timer, notified, queues, job, to_load, clearing, history>>

\* whether the entry should be refreshed (`prefetch_failure_time` is never set);
should_retry_prefetch(k) == ~entry[k].is_in_prefetching

\* look the candidate up: it is dropped, put back with its new expiry, or marked
\* and taken into the batch.
Judge ==
  LET k == scan.held IN
  /\ scan.pc = "judge"
  /\ IF ~entry[k].present \/ ~should_retry_prefetch(k) \/ k \notin IpKey
     THEN scan' = Scanning("pop") /\ UNCHANGED entry
     ELSE IF entry[k].left >= Threshold
     THEN /\ scan' = [Scanning("pop") EXCEPT
                         !.requeue = @ \cup {[left |-> entry[k].left, key |-> k]}]
          /\ UNCHANGED entry
     ELSE /\ scan' = [Scanning("pop") EXCEPT !.expired = @ \cup {k}]
          /\ entry' = [entry EXCEPT ![k].is_in_prefetching = TRUE]
  /\ UNCHANGED <<heap, timer, notified, queues, job, to_load, clearing, history>>

\* Mutant of Requeue: what was popped too early is lost.
RequeueNothing ==
  /\ scan.pc = "requeue"
  /\ scan' = Scanning("peek")
  /\ UNCHANGED <<entry, heap, timer, notified, queues, job, to_load, clearing, history>>

\* The items put aside return to the heap.
Requeue ==
  /\ scan.pc = "requeue"
  /\ heap' = heap \cup scan.requeue
  /\ scan' = Scanning("peek")
  /\ UNCHANGED <<entry, timer, notified, queues, job, to_load, clearing, history>>

\* How long to sleep: until the earliest key is due, or as long as possible if
\* there is none, or if it is due already.
MostRecent ==
  LET l == Min({i.left : i \in heap}) IN
  IF heap # {} /\ l >= Threshold THEN Min({l - Threshold + 1, MAX_TTL}) ELSE MAX_TTL

Peek ==
  /\ scan.pc = "peek"
  /\ scan' = [pc |-> "send", expired |-> scan.expired, most_recent |-> MostRecent]
  /\ UNCHANGED <<entry, heap, timer, notified, queues, job, to_load, clearing, history>>

\* Mutant of SendOne: the bound of the channel is ignored.
SendOneAnyway(k) ==
  /\ scan.pc = "send"
  /\ k \in scan.expired
  /\ chan' = Append(chan, k)
  /\ scan' = [scan EXCEPT !.expired = @ \ {k}]
  /\ UNCHANGED <<entry, heap, timer, notified, waiting, job, to_load, clearing, history>>

\* The batch is sent, waiting for room in the channel; its order, by hits, is left
\* open.
SendOne(k) ==
  /\ scan.pc = "send"
  /\ k \in scan.expired
  /\ Len(chan) < CHANNEL
  /\ chan' = Append(chan, k)
  /\ scan' = [scan EXCEPT !.expired = @ \ {k}]
  /\ UNCHANGED <<entry, heap, timer, notified, waiting, job, to_load, clearing, history>>

Schedule ==
  /\ scan.pc = "send"
  /\ scan.expired = {}
  /\ next_check' = Max({scan.most_recent, MIN_INTERVAL})
  /\ scan' = Waiting
  /\ UNCHANGED <<entry, heap, since_check, blocked, notified, queues, job, to_load, clearing, history>>

-----------------------------------------------------------------------------
Scanner ==
  \/ WakeByTimer \/ WakeByNotify
  \/ \E i \in heap : Pop(i)
  \/ PopNone \/ Judge \/ Requeue \/ Peek
  \/ \E k \in Key : SendOne(k)
  \/ Schedule

Resolve(f) ==
  \/ \E l \in TTL : Positive(f, l) \/ Negative(f, l)
  \/ Fail(f) \/ Push(f) \/ Notify(f)

Prefetch(f) == \E k \in Key : Acquire(f, k)

Next ==
  \/ Tick
  \/ Scanner
  \/ \E k \in Key : Evict(k) \/ Hit(k)
  \/ \E f \in Client, k \in Key : Miss(f, k)
  \/ WorkerRecv
  \/ \E f \in Slot : Prefetch(f)
  \/ \E f \in Fetcher : Resolve(f)
  \/ \E k \in Key, l \in TTL \cup {0}, neg \in BOOLEAN : Load(k, l, neg)
  \/ ClearShards \/ ClearHeap

Spec == Init /\ [][Next]_vars

\* Time passes, the runtime polls every task that can go on, a channel serves the
\* sender that waits for room before a later try_send, and an upstream query ends,
\* in an answer or by its timeout.  Clients, evictions, the loader and `clear` owe
\* nothing.
Fairness ==
  /\ WF_vars(Tick)
  /\ WF_vars(Scanner)
  /\ SF_vars(\E k \in Key : SendOne(k))
  /\ WF_vars(WorkerRecv)
  /\ \A f \in Slot : WF_vars(Prefetch(f))
  /\ \A f \in Fetcher : WF_vars(Resolve(f))
  /\ WF_vars(ClearHeap)

FairSpec == Spec /\ Fairness

-----------------------------------------------------------------------------
\* Properties

\* An entry the scanner has to refresh some day.
Eligible(k) ==
  entry[k].present /\ k \in IpKey /\ ~entry[k].negative /\ ~entry[k].is_in_prefetching

\* k's key is where the scanner will find it: in the heap, in the hands of a scan,
\* or about to be pushed.
Tracked(k) ==
  \/ \E i \in heap : i.key = k
  \/ scan.pc = "judge" /\ scan.held = k
  \/ scan.pc \in {"pop", "judge", "requeue"} /\ \E i \in scan.requeue : i.key = k
  \/ \E f \in Fetcher : job[f].pc = "push" /\ job[f].key = k

\* No eligible entry is lost from the heap, whatever a scan pops, drops or puts back
\* while inserts, evictions and the load go on: only a `clear` removes the keys of
\* entries inserted while it ran.
HeapCovers == \A k \in Key : Eligible(k) /\ k \notin swept => Tracked(k)

\* An eligible entry that has come due is taken into a batch, unless it is evicted
\* or refreshed before, or its key is lost to a `clear`.
DueIsPrefetched ==
  \A k \in Key : Eligible(k) /\ entry[k].left < Threshold
                   ~> ~Eligible(k) \/ entry[k].left >= Threshold \/ k \in swept

\* The timer of a scanner that is not about to be woken, against the keys of the heap.
InTime ==
  scan = Waiting /\ ~notified /\ (\A f \in Fetcher : job[f].pc # "notify")
    => \A i \in heap : next_check <= Max({MIN_INTERVAL, i.left - Threshold + 1}) + blocked

\* While the scanner sleeps it does not sleep beyond the instant the earliest key
\* comes due (nor beyond the minimum interval if one is due), but for the time it
\* waited for room in the channel, unless it is about to be woken, keys were loaded
\* without waking it, or its last batch was full and left a key that is due.
NeverOversleeps == unseen = {} => InTime

-----------------------------------------------------------------------------
\* What the repository says of prefetching and the code does not do

RefreshUnderWay(k) ==
  \/ k \in {chan[i] : i \in DOMAIN chan} \/ waiting[k] > 0
  \/ scan.pc = "send" /\ k \in scan.expired
  \/ \E f \in Fetcher : job[f].pc # "idle" /\ job[f].key = k

\* Comment in `get_expired`: a key that is one too many for a batch is taken next time.
CutIsTakenNext == "loaded" \notin unseen => InTime

\* Comment of ON_HIT_PREFETCH_REMAINING_TTL: the heap-driven prefetch refreshes an
\* entry when it comes due.
RefreshedWhenDue ==
  \A k \in IpKey : entry[k].present /\ ~entry[k].negative /\ entry[k].left < Threshold
     ~> \/ ~entry[k].present \/ entry[k].negative \/ entry[k].left >= Threshold
        \/ RefreshUnderWay(k)
=============================================================================
