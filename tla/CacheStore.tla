----------------------------- MODULE CacheStore -----------------------------
(***************************************************************************)
(* The storage of `DnsCache` (src/src/dns_mw_cache.rs): LRU shards, each   *)
(* behind its own lock, and the atomic estimate `total_bytes` that the     *)
(* `cache-mem-size` budget is enforced with.  Tasks insert concurrently,   *)
(* the persisted file is loaded while queries are already served, and the  *)
(* web API clears the cache at any time.                                   *)
(*                                                                         *)
(* One step is one critical section of a shard lock, or one access to      *)
(* `total_bytes` outside of any lock.  Entries are their estimated size;   *)
(* what they hold, when they expire and the prefetch heap are the subject  *)
(* of CachePrefetch.                                                       *)
(***************************************************************************)
EXTENDS Integers, Sequences, FiniteSets, Functions

CONSTANTS
  Key,         \* the queries that are cached
  SHARDS,      \* number of shards
  ShardOf,     \* `shard_index_of`, a hash: any function will do
  Capacity,    \* entries a shard holds
  Sizes,       \* the values of `entry_size`
  MAX_BYTES,   \* `cache-mem-size`, 0 for no limit
  WORD,        \* 2^w for the width w of usize
  Task,        \* the tasks that insert
  Loader,      \* the task that loads the persisted entries
  File,        \* the keys of the cache file
  MAY_CLEAR    \* whether `clear` is called

ASSUME CacheStoreAssumption ==
  /\ SHARDS \in Nat \ {0}
  /\ ShardOf \in [Key -> 1..SHARDS]
  /\ Capacity \in Nat \ {0}
  /\ Sizes \subseteq Nat \ {0}
  /\ MAX_BYTES \in Nat
  /\ WORD \in Nat \ {0}
  /\ Loader \notin Task
  /\ File \subseteq Key
  /\ MAY_CLEAR \in BOOLEAN

\* Names are of bounded length, tasks are finitely many, and a usize counts the
\* bytes of all the entries there is room for.
ASSUME StoreIsFinite ==
  /\ IsFiniteSet(Key) /\ IsFiniteSet(Task)
  /\ \A s \in Sizes : SHARDS * Capacity * s < WORD

VARIABLES
  shards,       \* shards[i]: keys of shard i, the most recently used first
  size,         \* size[k]: estimated size of the entry of k, 0 without one
  total_bytes,  \* the atomic counter, modulo WORD
  job,          \* job[t]: what task t is doing
  to_load,      \* keys of the file the loader has not reached
  clear_at      \* next shard `clear` empties, 0 when it is not running

vars == <<shards, size, total_bytes, job, to_load, clear_at>>

Tasks == Task \cup {Loader}

Idle == [pc |-> "idle", shard |-> 0, evicted |-> FALSE, pending |-> 0]
At(p) == [Idle EXCEPT !.pc = p]
Adding(i, s) == [Idle EXCEPT !.pc = "add", !.shard = i, !.pending = s]
Scanning(i, e) == [Idle EXCEPT !.pc = "scan", !.shard = i, !.evicted = e]

\* The bytes the cached entries really account for.
Stored == SumFunctionOnSet(size, Key)

\* The bytes of entries that are stored and not yet added to the counter.
Pending == SumFunctionOnSet([t \in Tasks |-> job[t].pending], Tasks)

TypeOK ==
  /\ shards \in [1..SHARDS -> Seq(Key)]
  /\ \A i \in 1..SHARDS : /\ Len(shards[i]) <= Capacity
                          /\ IsInjective(shards[i])
  /\ size \in [Key -> Sizes \cup {0}]
  /\ \A k \in Key : size[k] # 0 <=> \E i \in 1..SHARDS : k \in Range(shards[i])
  /\ total_bytes \in 0..(WORD - 1)
  /\ job \in [Tasks -> [pc : {"idle", "budget", "scan", "load", "add"},
                        shard : 0..SHARDS, evicted : BOOLEAN, pending : Sizes \cup {0}]]
  /\ to_load \subseteq File
  /\ clear_at \in 0..(SHARDS + 1)

Init ==
  /\ shards = [i \in 1..SHARDS |-> <<>>]
  /\ size = [k \in Key |-> 0]
  /\ total_bytes = 0
  /\ job = [t \in Tasks |-> IF t = Loader /\ File # {} THEN At("load") ELSE Idle]
  /\ to_load = File
  /\ clear_at = 0

-----------------------------------------------------------------------------
\* `fetch_add` and `fetch_sub` wrap around.
add_bytes(delta) == total_bytes' = (total_bytes + delta) % WORD

OverBudget == MAX_BYTES > 0 /\ total_bytes > MAX_BYTES

\* An insert that displaced an entry still holds the lock when it adds its bytes.
Unlocked(i) == \A t \in Task : ~(job[t].pc = "add" /\ job[t].shard = i)

\* Mutant of Slot: a full shard keeps its least recently used entry.
SlotOverfull(k) ==
  LET lru == shards[ShardOf[k]] IN
  IF size[k] # 0 THEN CHOOSE n \in DOMAIN lru : lru[n] = k ELSE Len(lru) + 1

\* The place k takes from another entry, or a new one at the end: `LruCache::push`
\* replaces the old entry of k, or the least recently used one of a full shard.
Slot(k) ==
  LET lru == shards[ShardOf[k]] IN
  IF size[k] # 0 THEN CHOOSE n \in DOMAIN lru : lru[n] = k
  ELSE IF Len(lru) = Capacity THEN Len(lru) ELSE Len(lru) + 1

\* k becomes the most recently used entry of s: those before place n move down.
ToFront(s, n, k) ==
  [j \in 1..(IF n > Len(s) THEN n ELSE Len(s)) |->
     IF j = 1 THEN k ELSE IF j <= n THEN s[j - 1] ELSE s[j]]

\* What `LruCache::push` of k displaces.
Displaced(k) ==
  LET lru == shards[ShardOf[k]] IN
  IF Slot(k) \in DOMAIN lru THEN {lru[Slot(k)]} ELSE {}

BytesOf(K) == SumFunctionOnSet(size, K)

\* An entry of size s for k becomes the most recently used one of its shard.
Store(k, s) ==
  /\ Unlocked(ShardOf[k])
  /\ shards' = [shards EXCEPT ![ShardOf[k]] = ToFront(@, Slot(k), k)]
  /\ size' = [x \in Key |-> IF x = k THEN s ELSE IF x \in Displaced(k) THEN 0 ELSE size[x]]

\* Mutant of Insert: an update adds the new size on top of the old one.
InsertAddsOnTop(t, k, s) ==
  /\ job[t].pc = "idle"
  /\ Displaced(k) \subseteq {k}
  /\ Store(k, s)
  /\ add_bytes(s)
  /\ job' = [job EXCEPT ![t] = At("budget")]
  /\ UNCHANGED <<to_load, clear_at>>

\* The critical section of `insert` and of `insert_negative`, for an entry that
\* is updated in place or that there is room for.  The budget is enforced next.
Insert(t, k, s) ==
  /\ job[t].pc = "idle"
  /\ Displaced(k) \subseteq {k}
  /\ Store(k, s)
  /\ add_bytes(s - BytesOf(Displaced(k)))
  /\ job' = [job EXCEPT ![t] = At("budget")]
  /\ UNCHANGED <<to_load, clear_at>>

\* ... for a new entry that displaces one of a full shard: the bytes of that one
\* are subtracted ...
InsertDisplacing(t, k, s) ==
  /\ job[t].pc = "idle"
  /\ ~(Displaced(k) \subseteq {k})
  /\ Store(k, s)
  /\ add_bytes(-BytesOf(Displaced(k)))
  /\ job' = [job EXCEPT ![t] = Adding(ShardOf[k], s)]
  /\ UNCHANGED <<to_load, clear_at>>

\* ... and those of the new one added, before the lock is released.
InsertAdd(t) ==
  /\ job[t].pc = "add"
  /\ add_bytes(job[t].pending)
  /\ job' = [job EXCEPT ![t] = At("budget")]
  /\ UNCHANGED <<shards, size, to_load, clear_at>>

\* `get` and `get_expired` look an entry up with `get_mut`, which makes it the
\* most recently used one.
Touch(k) ==
  /\ size[k] # 0
  /\ Head(shards[ShardOf[k]]) # k
  /\ Unlocked(ShardOf[k])
  /\ shards' = [shards EXCEPT ![ShardOf[k]] = ToFront(@, Slot(k), k)]
  /\ UNCHANGED <<size, total_bytes, job, to_load, clear_at>>

\* `enforce_memory_budget`, the test of its while loop.
CheckBudget(t) ==
  /\ job[t].pc = "budget"
  /\ job' = [job EXCEPT ![t] = IF OverBudget THEN Scanning(1, FALSE) ELSE Idle]
  /\ UNCHANGED <<shards, size, total_bytes, to_load, clear_at>>

\* Mutant of AfterShard: a pass that evicted nothing is followed by another.
AfterShardAgain(i, e) == IF i < SHARDS THEN Scanning(i + 1, e) ELSE At("budget")

\* Where the for loop goes after shard i: on to the next, back to the test of
\* the while loop, or out of both when a whole pass evicted nothing.
AfterShard(i, e) ==
  IF i < SHARDS THEN Scanning(i + 1, e)
  ELSE IF e THEN At("budget") ELSE Idle

\* ... its body for one shard: evict the least recently used entry, and stop as
\* soon as the budget is met.
ScanShard(t) ==
  LET i == job[t].shard
      n == Len(shards[i])
  IN
  /\ job[t].pc = "scan"
  /\ Unlocked(i)
  /\ IF n = 0
     THEN /\ job' = [job EXCEPT ![t] = AfterShard(i, job[t].evicted)]
          /\ UNCHANGED <<shards, size, total_bytes>>
     ELSE /\ shards' = [shards EXCEPT ![i] = SubSeq(@, 1, n - 1)]
          /\ size' = [size EXCEPT ![shards[i][n]] = 0]
          /\ add_bytes(-size[shards[i][n]])
          /\ job' = [job EXCEPT ![t] = IF OverBudget' THEN AfterShard(i, TRUE)
                                                      ELSE At("budget")]
  /\ UNCHANGED <<to_load, clear_at>>

\* `load_from`, one entry: the displaced bytes are subtracted under the lock ...
LoadPush(k, s) ==
  /\ job[Loader].pc = "load"
  /\ k \in to_load
  /\ Store(k, s)
  /\ add_bytes(-BytesOf(Displaced(k)))
  /\ to_load' = to_load \ {k}
  /\ job' = [job EXCEPT ![Loader] = Adding(0, s)]
  /\ UNCHANGED clear_at

\* Mutant of LoadAdd: the loader does not enforce the budget at its end.
LoadAddUnchecked ==
  /\ job[Loader].pc = "add"
  /\ add_bytes(job[Loader].pending)
  /\ job' = [job EXCEPT ![Loader] = IF to_load = {} THEN Idle ELSE At("load")]
  /\ UNCHANGED <<shards, size, to_load, clear_at>>

\* ... and the bytes of the new entry are added after it was released.
LoadAdd ==
  /\ job[Loader].pc = "add"
  /\ add_bytes(job[Loader].pending)
  /\ job' = [job EXCEPT ![Loader] = IF to_load = {} THEN At("budget") ELSE At("load")]
  /\ UNCHANGED <<shards, size, to_load, clear_at>>

\* `clear`: the shards one after the other ...
ClearShard ==
  LET i == IF clear_at = 0 THEN 1 ELSE clear_at IN
  /\ MAY_CLEAR
  /\ clear_at <= SHARDS
  /\ Unlocked(i)
  /\ shards' = [shards EXCEPT ![i] = <<>>]
  /\ size' = [k \in Key |-> IF ShardOf[k] = i THEN 0 ELSE size[k]]
  /\ clear_at' = i + 1
  /\ UNCHANGED <<total_bytes, job, to_load>>

\* ... then the counter is reset.
ClearReset ==
  /\ clear_at = SHARDS + 1
  /\ total_bytes' = 0
  /\ clear_at' = 0
  /\ UNCHANGED <<shards, size, job, to_load>>

-----------------------------------------------------------------------------
StartInsert(t) == \E k \in Key, s \in Sizes : Insert(t, k, s) \/ InsertDisplacing(t, k, s)

Enforce(t) == CheckBudget(t) \/ ScanShard(t)

Load == (\E k \in Key, s \in Sizes : LoadPush(k, s)) \/ LoadAdd

Clear == ClearShard \/ ClearReset

Next ==
  \/ \E t \in Task : StartInsert(t) \/ InsertAdd(t)
  \/ \E k \in Key : Touch(k)
  \/ \E t \in Tasks : Enforce(t)
  \/ Load
  \/ Clear

\* A task that has started is polled until it ends, and the lock of a shard is
\* handed over in the order it was asked for; nothing has to start a task.
Fairness ==
  /\ \A t \in Task : WF_vars(InsertAdd(t))
  /\ \A t \in Tasks : SF_vars(Enforce(t))
  /\ SF_vars(Load)

Spec == Init /\ [][Next]_vars /\ Fairness

-----------------------------------------------------------------------------
\* Properties

Quiescent == clear_at = 0 /\ \A t \in Tasks : job[t].pc = "idle"

\* How far the counter is from the bytes stored, but for those of entries that are
\* stored and not yet added.
Drift == (total_bytes - (Stored - Pending)) % WORD

\* The estimate, exact in an empty cache, stays exact until a `clear` makes it
\* wrong, and only a `clear` does: updates, pushes, LRU and budget evictions of
\* several tasks and of the loader, in any order, change `total_bytes` by exactly
\* what they change in the shards.
BytesExact == [][Drift' = Drift \/ Clear]_vars

\* Once the inserts and the load are over, what is stored fits the budget of
\* cache-mem-size, as long as the counter is right: whoever adds bytes checks the
\* budget after that.
BudgetKept == Quiescent /\ Drift = 0 /\ MAX_BYTES > 0 => Stored <= MAX_BYTES

\* Once no further insert starts, those under way and the load end:
\* `enforce_memory_budget` gives up when nothing is left to evict, even if a
\* `clear` made the counter wrong.
TasksComplete ==
  <>[][~\E t \in Task : StartInsert(t)]_vars
    => \A t \in Tasks : job[t].pc # "idle" ~> job[t].pc = "idle"

-----------------------------------------------------------------------------
\* What the repository says of the store and the code does not do

\* CHANGELOG of cache-mem-size: `clear` resets the count together with the
\* entries, so that with nothing under way the count is that of what is stored.
ClearResetsInStep == Quiescent => total_bytes = Stored
=============================================================================
