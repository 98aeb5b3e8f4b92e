------------------------ MODULE CachePrefetchProofs ------------------------
(***************************************************************************)
(* Proof about CachePrefetch: for any keys, lifetimes, clients and sizes of *)
(* the batch and of the channel, no key of an entry that has still to be    *)
(* prefetched is lost between the heap, a scan and an insert.               *)
(***************************************************************************)
EXTENDS CachePrefetch, WellFoundedInduction, TLAPS

\* The part of the types that says where a key may be.
Shape ==
  /\ entry \in [Key -> Entries]
  /\ heap \subseteq Items
  /\ IsScan(scan)
  /\ job \in [Fetcher -> Jobs]

\* The rest of them.
Counters ==
  /\ next_check \in 0..Max({MAX_TTL, MIN_INTERVAL})
  /\ since_check \in 0..(MIN_INTERVAL + 1)
  /\ blocked \in 0..MAX_TTL
  /\ notified \in BOOLEAN
  /\ chan \in Seq(Key) /\ Len(chan) <= CHANNEL
  /\ waiting \in [Key -> 0..MAX_WAITING]
  /\ to_load \subseteq File
  /\ clearing \in BOOLEAN
  /\ swept \subseteq Key
  /\ unseen \subseteq {"loaded", "cut"}

\* The inductive invariant of HeapCovers.
IInv == Shape /\ HeapCovers

-----------------------------------------------------------------------------
\* The greater of two integers.
LEMMA MaxOfTwo ==
  ASSUME NEW m \in Int, NEW n \in Int
  PROVE  Max({m, n}) = IF m >= n THEN m ELSE n
<1>1. \E x \in {m, n} : \A y \in {m, n} : x >= y
  OBVIOUS
<1> QED BY <1>1 DEF Max

\* The lesser of two integers.
LEMMA MinOfTwo ==
  ASSUME NEW m \in Int, NEW n \in Int
  PROVE  Min({m, n}) = IF m <= n THEN m ELSE n
<1>1. \E x \in {m, n} : \A y \in {m, n} : x <= y
  OBVIOUS
<1> QED BY <1>1 DEF Min

\* A set of integers that is bounded from below has a least element, which Min chooses.
LEMMA LeastInt ==
  ASSUME NEW b \in Int, NEW S, S \subseteq Int, \A x \in S : b <= x, S # {}
  PROVE  Min(S) \in S /\ \A x \in S : Min(S) <= x
<1>1. PICK D : D = {x - b : x \in S}
  OBVIOUS
<1>2. D \subseteq Nat /\ D # {}
  <2>1. \A x \in S : x - b \in Nat
    OBVIOUS
  <2> QED BY <1>1, <2>1, Zenon
<1>3. PICK d \in D : \A e \in D : ~(<<e, d>> \in OpToRel(<, Nat))
  BY <1>2, NatLessThanWellFounded, WFMin, Zenon
<1>4. \A e \in D : ~(e < d)
  BY <1>2, <1>3, Zenon DEF OpToRel
<1>5. PICK x \in S : d = x - b
  BY <1>1
<1>6. \A y \in S : y - b \in D
  BY <1>1
<1>7. \A y \in S : x <= y
  BY <1>4, <1>5, <1>6
<1> QED BY <1>7 DEF Min

\* The threshold and the oldest instant told apart.
LEMMA Marks == Threshold \in Int /\ PAST \in Int /\ PAST < 0 /\ PAST < Threshold
<1>1. Threshold \in Int
  BY CachePrefetchAssumption DEF Threshold
<1> QED BY <1>1, MinOfTwo DEF PAST

\* Instants stay instants when time passes, and lifetimes are instants.
LEMMA Instants ==
  /\ Left \subseteq Int /\ \A l \in Left : PAST <= l
  /\ PAST \in Left
  /\ \A l \in Left : Sooner(l) \in Left /\ Sooner(l) >= l - 1
  /\ TTL \cup {0} \subseteq Left
  /\ NoEntry \in Entries
<1>1. PICK m \in TTL : \A l \in TTL : l <= m
  BY CachePrefetchAssumption
<1>2. TTL \subseteq Nat
  BY CachePrefetchAssumption
<1>3. PICK n \in Nat : n = Max(TTL) /\ \A l \in TTL : l <= n
  BY <1>1, <1>2 DEF Max
<1>4. Left = PAST..n
  BY <1>3 DEF Left
<1>5. Left \subseteq Int /\ (\A l \in Left : PAST <= l) /\ PAST \in Left
  BY <1>4, Marks
<1>6. \A l \in Left : Sooner(l) \in Left /\ Sooner(l) >= l - 1
  BY <1>4, Marks, MaxOfTwo DEF Sooner
<1>7. TTL \cup {0} \subseteq Left
  BY <1>2, <1>3, <1>4, Marks
<1>8. NoEntry \in Entries
  BY <1>5 DEF NoEntry, Entries
<1> QED BY <1>5, <1>6, <1>7, <1>8

\* The longest and the shortest sleep.
LEMMA Sleeps == MAX_TTL \in Nat \ {0} /\ MIN_INTERVAL \in Nat
BY CachePrefetchAssumption

\* The earliest instant of the heap.
LEMMA EarliestLeft ==
  ASSUME heap \subseteq Items, heap # {}
  PROVE  /\ Min({i.left : i \in heap}) \in Int
         /\ \E h \in heap : Min({i.left : i \in heap}) = h.left
         /\ \A h \in heap : Min({i.left : i \in heap}) <= h.left
<1>1. PICK S : S = {i.left : i \in heap}
  OBVIOUS
<1>2. S \subseteq Left /\ S # {}
  BY <1>1 DEF Items
<1>3. S \subseteq Int /\ \A x \in S : PAST <= x
  BY <1>2, Instants
<1>4. Min(S) \in S /\ \A x \in S : Min(S) <= x
  BY <1>2, <1>3, Marks, LeastInt
<1> QED BY <1>1, <1>3, <1>4

\* The sleep Peek computes is never longer than MAX_TTL, nor, when no key is due, than
\* it takes the earliest key to come due.
LEMMA SleepIs ==
  ASSUME heap \subseteq Items
  PROVE  /\ MostRecent \in 0..MAX_TTL
         /\ (\A i \in heap : i.left >= Threshold)
              => \A i \in heap : MostRecent <= i.left - Threshold + 1
<1>1. CASE heap = {}
  BY <1>1, Sleeps DEF MostRecent
<1>2. CASE heap # {}
  <2>1. PICK l \in Int : l = Min({i.left : i \in heap})
    BY <1>2, EarliestLeft
  <2>2. (\E i \in heap : l = i.left) /\ \A i \in heap : l <= i.left
    BY <1>2, <2>1, EarliestLeft
  <2>3. MostRecent = IF l >= Threshold THEN Min({l - Threshold + 1, MAX_TTL}) ELSE MAX_TTL
    BY <1>2, <2>1 DEF MostRecent
  <2>4. l - Threshold + 1 \in Int
    BY Marks
  <2>5. Min({l - Threshold + 1, MAX_TTL})
          = IF l - Threshold + 1 <= MAX_TTL THEN l - Threshold + 1 ELSE MAX_TTL
    BY <2>4, Sleeps, MinOfTwo
  <2>6. MostRecent \in 0..MAX_TTL
    BY <2>3, <2>4, <2>5, Sleeps, Marks
  <2>7. \A i \in heap : i.left \in Int
    BY Instants DEF Items
  <2> QED BY <2>2, <2>3, <2>4, <2>5, <2>6, <2>7, Sleeps, Marks
<1> QED BY <1>1, <1>2

\* A step that changes neither entries, heap, scan nor jobs, and forgets no swept key.
LEMMA Untouched ==
  ASSUME IInv, UNCHANGED <<entry, heap, scan, job>>, swept \subseteq swept'
  PROVE  IInv'
<1>1. \A k \in Key : Eligible(k)' <=> Eligible(k)
  BY DEF Eligible
<1>2. \A k \in Key : Tracked(k)' <=> Tracked(k)
  BY DEF Tracked
<1>3. Shape'
  BY DEF IInv, Shape
<1> QED BY <1>1, <1>2, <1>3 DEF IInv, HeapCovers

-----------------------------------------------------------------------------
\* Time moves the instants of items and pushes, not their keys.
LEMMA TickStep ==
  ASSUME IInv, Tick
  PROVE  IInv'
<1>1. Shape'
  <2>1. entry' \in [Key -> Entries]
    BY Instants DEF IInv, Shape, Tick, Entries
  <2>2. heap' \subseteq Items
    BY Instants DEF IInv, Shape, Tick, Items
  <2>3. job' \in [Fetcher -> Jobs]
    BY Instants DEF IInv, Shape, Tick, Jobs, Free
  <2> QED BY <2>1, <2>2, <2>3 DEF IInv, Shape, Tick
<1>2. ASSUME NEW k \in Key, Eligible(k)', k \notin swept' PROVE Tracked(k)'
  <2>1. Eligible(k) /\ k \notin swept
    BY <1>2 DEF Eligible, Tick, IInv, Shape, Entries, history
  <2>2. Tracked(k)
    BY <2>1 DEF IInv, HeapCovers
  <2>3. CASE \E i \in heap : i.key = k
    <3>1. PICK i \in heap : i.key = k
      BY <2>3
    <3>2. [i EXCEPT !.left = Sooner(@)] \in heap' /\ [i EXCEPT !.left = Sooner(@)].key = k
      BY <3>1 DEF Tick, IInv, Shape, Items
    <3> QED BY <3>2 DEF Tracked
  <2>4. CASE scan.pc \in {"judge", "pop", "requeue"}
    BY <2>4 DEF Tick, Waiting
  <2>5. CASE \E f \in Fetcher : job[f].pc = "push" /\ job[f].key = k
    <3>1. PICK f \in Fetcher : job[f].pc = "push" /\ job[f].key = k
      BY <2>5
    <3>2. job'[f].pc = "push" /\ job'[f].key = k
      BY <3>1 DEF Tick, IInv, Shape, Jobs, Free
    <3> QED BY <3>2 DEF Tracked
  <2> QED BY <2>2, <2>3, <2>4, <2>5 DEF Tracked
<1> QED BY <1>1, <1>2 DEF IInv, HeapCovers

\* Entries disappear, and the keys of those that remain while a clear empties the heap
\* are swept.
LEMMA RemovalStep ==
  ASSUME IInv, (\E k \in Key : Evict(k)) \/ ClearShards \/ ClearHeap
  PROVE  IInv'
<1>1. CASE \E k \in Key : Evict(k)
  <2>1. PICK e \in Key : Evict(e)
    BY <1>1
  <2>2. Shape'
    BY <2>1, Instants DEF IInv, Shape, Evict, sched
  <2>3. \A k \in Key : Eligible(k)' /\ k \notin swept' => Eligible(k) /\ k \notin swept
    BY <2>1 DEF Evict, Eligible, NoEntry, IInv, Shape
  <2>4. \A k \in Key : Tracked(k)' <=> Tracked(k)
    BY <2>1 DEF Evict, Tracked, sched
  <2> QED BY <2>2, <2>3, <2>4 DEF IInv, HeapCovers
<1>2. CASE ClearShards
  <2>1. Shape'
    BY <1>2, Instants DEF IInv, Shape, ClearShards, sched
  <2>2. \A k \in Key : ~Eligible(k)'
    BY <1>2 DEF ClearShards, Eligible, NoEntry
  <2> QED BY <2>1, <2>2 DEF IInv, HeapCovers
<1>3. CASE ClearHeap
  <2>1. Shape'
    BY <1>3 DEF IInv, Shape, ClearHeap, sched
  <2>2. \A k \in Key : Eligible(k)' => k \in swept'
    BY <1>3 DEF ClearHeap, Eligible
  <2> QED BY <2>1, <2>2 DEF IInv, HeapCovers
<1> QED BY <1>1, <1>2, <1>3

\* A loaded entry comes with its key.
LEMMA LoadStep ==
  ASSUME IInv, NEW k \in Key, NEW l \in TTL \cup {0}, NEW neg \in BOOLEAN, Load(k, l, neg)
  PROVE  IInv'
<1>0. l \in Left
  BY Instants
<1>1. Shape'
  <2>1. entry' \in [Key -> Entries]
    BY <1>0, Instants DEF IInv, Shape, Load, Entries, NoEntry
  <2>2. heap' \subseteq Items
    BY <1>0 DEF IInv, Shape, Load, Items
  <2> QED BY <2>1, <2>2 DEF IInv, Shape, Load, sched
<1>2. Tracked(k)'
  <2>1. [left |-> l, key |-> k] \in heap' /\ [left |-> l, key |-> k].key = k
    BY DEF Load
  <2> QED BY <2>1 DEF Tracked
<1>3. ASSUME NEW j \in Key, j # k, Eligible(j)', j \notin swept' PROVE Tracked(j)'
  <2>1. Eligible(j) /\ j \notin swept
    BY <1>3 DEF Load, Eligible, IInv, Shape
  <2>2. Tracked(j)
    BY <2>1 DEF IInv, HeapCovers
  <2> QED BY <2>2 DEF Load, Tracked, sched
<1> QED BY <1>1, <1>2, <1>3 DEF IInv, HeapCovers

\* A query is started: nothing that tracks a key is given up.
LEMMA FetchStep ==
  ASSUME IInv, NEW f \in Fetcher, NEW k \in Key, job[f] = Free,
         job' = [job EXCEPT ![f] = [pc |-> "fetch", key |-> k]],
         UNCHANGED <<entry, heap, scan, swept>>
  PROVE  IInv'
<1>1. Shape'
  BY DEF IInv, Shape, Jobs
<1>2. \A j \in Key : Eligible(j)' <=> Eligible(j)
  BY DEF Eligible
<1>3. \A g \in Fetcher : job[g].pc = "push" => job'[g] = job[g]
  BY DEF IInv, Shape, Free
<1>4. \A j \in Key : Tracked(j) => Tracked(j)'
  BY <1>3 DEF Tracked
<1> QED BY <1>1, <1>2, <1>4 DEF IInv, HeapCovers

\* An answer is written, its key pushed, the scanner woken; or it is not cached.
LEMMA ResolveStep ==
  ASSUME IInv, NEW f \in Fetcher, Resolve(f)
  PROVE  IInv'
<1>0. TTL \subseteq Left
  BY Instants
<1>1. ASSUME NEW l \in TTL, Positive(f, l) PROVE IInv'
  <2>1. PICK k \in Key : k = job[f].key
    BY <1>1 DEF Positive, IInv, Shape, Jobs, Free
  <2>2. entry' \in [Key -> Entries]
    BY <1>0, <1>1, <2>1 DEF Positive, Put, IInv, Shape, Entries
  <2>3. job' \in [Fetcher -> Jobs] /\ job'[f].pc = "push" /\ job'[f].key = k
    BY <1>0, <1>1, <2>1 DEF Positive, IInv, Shape, Jobs
  <2>4. Shape'
    BY <1>1, <2>2, <2>3 DEF Positive, IInv, Shape, sched
  <2>5. Tracked(k)'
    BY <2>3 DEF Tracked
  <2>6. \A g \in Fetcher : job[g].pc = "push" => job'[g] = job[g]
    BY <1>1 DEF Positive, IInv, Shape
  <2>7. ASSUME NEW j \in Key, j # k, Eligible(j)', j \notin swept' PROVE Tracked(j)'
    <3>1. Eligible(j) /\ j \notin swept
      BY <1>1, <2>1, <2>7 DEF Positive, Put, Eligible, IInv, Shape, history
    <3>2. Tracked(j)
      BY <3>1 DEF IInv, HeapCovers
    <3> QED BY <1>1, <2>6, <3>2 DEF Positive, Tracked, sched
  <2> QED BY <2>4, <2>5, <2>7 DEF IInv, HeapCovers
<1>2. ASSUME NEW l \in TTL, Negative(f, l) PROVE IInv'
  <2>1. PICK k \in Key : k = job[f].key
    BY <1>2 DEF Negative, IInv, Shape, Jobs, Free
  <2>2. entry' \in [Key -> Entries] /\ entry'[k].negative
    BY <1>0, <1>2, <2>1 DEF Negative, Put, IInv, Shape, Entries
  <2>3. job' \in [Fetcher -> Jobs]
    BY <1>2 DEF Negative, IInv, Shape, Jobs
  <2>4. Shape'
    BY <1>2, <2>2, <2>3 DEF Negative, IInv, Shape, sched
  <2>5. ~Eligible(k)'
    BY <2>2 DEF Eligible
  <2>6. \A g \in Fetcher : job[g].pc = "push" => job'[g] = job[g]
    BY <1>2 DEF Negative, IInv, Shape
  <2>7. ASSUME NEW j \in Key, j # k, Eligible(j)', j \notin swept' PROVE Tracked(j)'
    <3>1. Eligible(j) /\ j \notin swept
      BY <1>2, <2>1, <2>7 DEF Negative, Put, Eligible, IInv, Shape, history
    <3>2. Tracked(j)
      BY <3>1 DEF IInv, HeapCovers
    <3> QED BY <1>2, <2>6, <3>2 DEF Negative, Tracked, sched
  <2> QED BY <2>4, <2>5, <2>7 DEF IInv, HeapCovers
<1>3. CASE Push(f)
  <2>1. PICK k \in Key : k = job[f].key
    BY <1>3 DEF Push, IInv, Shape, Jobs, Free
  <2>2. job[f].left \in Left
    BY <1>3 DEF Push, IInv, Shape, Jobs, Free
  <2>3. PICK i \in Items : i = [left |-> job[f].left, key |-> k]
    BY <2>2 DEF Items
  <2>4. heap' = heap \cup {i} /\ i.key = k
    BY <1>3, <2>1, <2>3 DEF Push
  <2>5. job' \in [Fetcher -> Jobs]
    BY <1>3, <2>1 DEF Push, IInv, Shape, Jobs
  <2>6. Shape'
    BY <1>3, <2>4, <2>5 DEF Push, IInv, Shape, sched
  <2>7. Tracked(k)'
    BY <2>4 DEF Tracked
  <2>8. \A g \in Fetcher : g # f => job'[g] = job[g]
    BY <1>3 DEF Push, IInv, Shape
  <2>9. ASSUME NEW j \in Key, j # k, Eligible(j)', j \notin swept' PROVE Tracked(j)'
    <3>1. Eligible(j) /\ j \notin swept
      BY <1>3, <2>1, <2>9 DEF Push, Eligible
    <3>2. Tracked(j)
      BY <3>1 DEF IInv, HeapCovers
    <3> QED BY <1>3, <2>1, <2>4, <2>8, <2>9, <3>2 DEF Push, Tracked, sched
  <2> QED BY <2>6, <2>7, <2>9 DEF IInv, HeapCovers
<1>4. CASE Notify(f) \/ Fail(f)
  <2>1. Shape'
    BY <1>4 DEF Notify, Fail, IInv, Shape, Jobs, sched
  <2>2. \A g \in Fetcher : job[g].pc = "push" => job'[g] = job[g]
    BY <1>4 DEF Notify, Fail, IInv, Shape
  <2>3. \A j \in Key : Eligible(j)' <=> Eligible(j)
    BY <1>4 DEF Notify, Fail, Eligible
  <2>4. \A j \in Key : Tracked(j) => Tracked(j)'
    BY <1>4, <2>2 DEF Notify, Fail, Tracked, sched
  <2>5. swept' = swept
    BY <1>4 DEF Notify, Fail, history
  <2> QED BY <2>1, <2>3, <2>4, <2>5 DEF IInv, HeapCovers
<1> QED BY <1>1, <1>2, <1>3, <1>4 DEF Resolve

-----------------------------------------------------------------------------
\* The scanner wakes with nothing put aside.
LEMMA WakeStep ==
  ASSUME IInv, WakeByTimer \/ WakeByNotify
  PROVE  IInv'
<1>1. scan = Waiting /\ Check /\ UNCHANGED <<entry, heap, job, swept>>
  BY DEF WakeByTimer, WakeByNotify
<1>2. IsScan(scan')
  BY <1>1, Sleeps DEF Check, IsScan
<1>3. Shape'
  BY <1>1, <1>2 DEF IInv, Shape
<1>4. \A k \in Key : Eligible(k)' <=> Eligible(k)
  BY <1>1 DEF Eligible
<1>5. \A k \in Key : Tracked(k) => Tracked(k)'
  BY <1>1 DEF Tracked, Waiting
<1> QED BY <1>1, <1>3, <1>4, <1>5 DEF IInv, HeapCovers

\* A popped item is in the scanner's hands.
LEMMA PopStep ==
  ASSUME IInv, NEW i \in heap, Pop(i)
  PROVE  IInv'
<1>1. i \in Items /\ i.key \in Key /\ scan.requeue \subseteq Items /\ scan.expired \subseteq IpKey
  BY DEF Pop, IInv, Shape, Items, IsScan, Waiting
<1>2. IsScan(scan')
  BY <1>1 DEF Pop, Scanning, IsScan
<1>3. Shape'
  BY <1>2 DEF Pop, IInv, Shape
<1>4. \A k \in Key : Eligible(k)' <=> Eligible(k)
  BY DEF Pop, Eligible
<1>5. /\ scan'.pc \in {"judge", "requeue"}
      /\ scan.requeue \subseteq scan'.requeue
      /\ \/ scan'.pc = "judge" /\ scan'.held = i.key
         \/ i \in scan'.requeue
  BY DEF Pop, Scanning
<1>6. ASSUME NEW k \in Key, Tracked(k) PROVE Tracked(k)'
  <2>1. CASE i.key = k
    BY <1>5, <2>1 DEF Tracked
  <2>2. CASE i.key # k
    BY <1>5, <1>6, <2>2 DEF Pop, Tracked
  <2> QED BY <2>1, <2>2
<1>7. swept' = swept
  BY DEF Pop, history
<1> QED BY <1>3, <1>4, <1>6, <1>7 DEF IInv, HeapCovers

\* The scanner drops only a key whose entry is not to be prefetched, or not any more.
LEMMA JudgeStep ==
  ASSUME IInv, Judge
  PROVE  IInv'
<1>1. PICK k \in Key : k = scan.held
  BY DEF Judge, IInv, Shape, IsScan, Waiting
<1>2. scan.pc = "judge" /\ scan.requeue \subseteq Items /\ scan.expired \subseteq IpKey
  BY DEF Judge, IInv, Shape, IsScan, Waiting
<1>3. UNCHANGED <<heap, job, swept>>
  BY DEF Judge, history
<1>4. entry[k] \in Entries
  BY DEF IInv, Shape
<1>5. ASSUME IsScan(scan'), entry' \in [Key -> Entries], scan'.pc = "pop",
             scan.requeue \subseteq scan'.requeue,
             \A j \in Key : j # k => entry'[j] = entry[j],
             ~Eligible(k)' \/ \E i \in scan'.requeue : i.key = k
      PROVE  IInv'
  <2>1. Shape'
    BY <1>3, <1>5 DEF IInv, Shape
  <2>2. Eligible(k)' => Tracked(k)'
    BY <1>5 DEF Tracked
  <2>3. ASSUME NEW j \in Key, j # k, Eligible(j)', j \notin swept' PROVE Tracked(j)'
    <3>1. Eligible(j) /\ j \notin swept
      BY <1>3, <1>5, <2>3 DEF Eligible
    <3>2. Tracked(j)
      BY <3>1 DEF IInv, HeapCovers
    <3> QED BY <1>1, <1>2, <1>3, <1>5, <2>3, <3>2 DEF Tracked
  <2> QED BY <2>1, <2>2, <2>3 DEF IInv, HeapCovers
<1>6. CASE ~entry[k].present \/ ~should_retry_prefetch(k) \/ k \notin IpKey
  <2>1. scan' = Scanning("pop") /\ entry' = entry
    BY <1>1, <1>6 DEF Judge
  <2>2. ~Eligible(k)'
    BY <1>6, <2>1 DEF Eligible, should_retry_prefetch
  <2>3. IsScan(scan') /\ scan'.pc = "pop" /\ scan.requeue \subseteq scan'.requeue
    BY <1>2, <2>1 DEF Scanning, IsScan
  <2> QED BY <1>5, <2>1, <2>2, <2>3 DEF IInv, Shape
<1>7. CASE ~(~entry[k].present \/ ~should_retry_prefetch(k) \/ k \notin IpKey)
           /\ entry[k].left >= Threshold
  <2>1. PICK i : i = [left |-> entry[k].left, key |-> k]
    OBVIOUS
  <2>2. i \in Items /\ i.key = k
    BY <1>4, <2>1 DEF Items, Entries
  <2>3. scan' = [pc |-> "pop", expired |-> scan.expired, requeue |-> scan.requeue \cup {i}]
        /\ entry' = entry
    BY <1>1, <1>7, <2>1 DEF Judge, Scanning
  <2>4. IsScan(scan') /\ scan'.pc = "pop" /\ scan.requeue \subseteq scan'.requeue /\ i \in scan'.requeue
    BY <1>2, <2>2, <2>3 DEF IsScan
  <2> QED BY <1>5, <2>2, <2>3, <2>4 DEF IInv, Shape
<1>8. CASE ~(~entry[k].present \/ ~should_retry_prefetch(k) \/ k \notin IpKey)
           /\ ~(entry[k].left >= Threshold)
  <2>1. scan' = [pc |-> "pop", expired |-> scan.expired \cup {k}, requeue |-> scan.requeue]
        /\ entry' = [entry EXCEPT ![k].is_in_prefetching = TRUE]
    BY <1>1, <1>8 DEF Judge, Scanning
  <2>2. IsScan(scan') /\ scan'.pc = "pop" /\ scan.requeue \subseteq scan'.requeue
    BY <1>2, <1>8, <2>1 DEF IsScan
  <2>3. /\ entry' \in [Key -> Entries]
        /\ entry'[k].is_in_prefetching
        /\ \A j \in Key : j # k => entry'[j] = entry[j]
    BY <2>1 DEF IInv, Shape, Entries
  <2>4. ~Eligible(k)'
    BY <2>3 DEF Eligible
  <2> QED BY <1>5, <2>2, <2>3, <2>4
<1> QED BY <1>6, <1>7, <1>8

\* The end of a scan: what was put aside returns to the heap before it is forgotten.
LEMMA ScanEndStep ==
  ASSUME IInv, PopNone \/ Requeue \/ Peek \/ (\E k \in Key : SendOne(k)) \/ Schedule
  PROVE  IInv'
<1>1. UNCHANGED <<entry, job, swept>>
  BY DEF PopNone, Requeue, Peek, SendOne, Schedule, history
<1>2. \A k \in Key : Eligible(k)' <=> Eligible(k)
  BY <1>1 DEF Eligible
<1>3. ASSUME heap' \subseteq Items, IsScan(scan'), \A k \in Key : Tracked(k) => Tracked(k)'
      PROVE  IInv'
  BY <1>1, <1>2, <1>3 DEF IInv, Shape, HeapCovers
<1>4. CASE PopNone
  <2>1. scan.requeue \subseteq Items /\ scan.expired \subseteq IpKey
    BY <1>4 DEF PopNone, IInv, Shape, IsScan, Waiting
  <2>2. IsScan(scan') /\ scan'.pc = "requeue" /\ scan'.requeue = scan.requeue
    BY <1>4, <2>1 DEF PopNone, Scanning, IsScan
  <2>3. \A k \in Key : Tracked(k) => Tracked(k)'
    BY <1>1, <1>4, <2>2 DEF PopNone, Tracked
  <2> QED BY <1>3, <1>4, <2>2, <2>3 DEF PopNone, IInv, Shape
<1>5. CASE Requeue
  <2>1. scan.requeue \subseteq Items /\ scan.expired \subseteq IpKey
    BY <1>5 DEF Requeue, IInv, Shape, IsScan, Waiting
  <2>2. IsScan(scan') /\ heap' \subseteq Items
    BY <1>5, <2>1 DEF Requeue, Scanning, IsScan, IInv, Shape
  <2>3. \A k \in Key : Tracked(k) => Tracked(k)'
    BY <1>1, <1>5 DEF Requeue, Tracked
  <2> QED BY <1>3, <2>2, <2>3
<1>6. CASE Peek \/ (\E k \in Key : SendOne(k)) \/ Schedule
  <2>1. scan.pc \in {"peek", "send"} /\ heap' = heap
    BY <1>6 DEF Peek, SendOne, Schedule
  <2>2. \A k \in Key : Tracked(k) => Tracked(k)'
    BY <1>1, <2>1 DEF Tracked
  <2>3. CASE Peek
    <3>1. scan.expired \in SUBSET IpKey /\ MostRecent \in 0..MAX_TTL
      BY <2>3, SleepIs DEF Peek, IInv, Shape, IsScan, Waiting
    <3>2. IsScan(scan')
      BY <2>3, <3>1 DEF Peek, IsScan
    <3> QED BY <1>3, <2>1, <2>2, <3>2 DEF IInv, Shape
  <2>4. ASSUME NEW k \in Key, SendOne(k) PROVE IInv'
    <3>1. PICK x \in SUBSET IpKey, m \in 0..MAX_TTL :
                 scan = [pc |-> "send", expired |-> x, most_recent |-> m]
      BY <2>4 DEF SendOne, IInv, Shape, IsScan, Waiting
    <3>2. scan' = [pc |-> "send", expired |-> x \ {k}, most_recent |-> m]
      BY <2>4, <3>1 DEF SendOne
    <3>3. IsScan(scan')
      BY <3>2 DEF IsScan
    <3> QED BY <1>3, <2>1, <2>2, <3>3 DEF IInv, Shape
  <2>5. CASE Schedule
    BY <1>3, <2>1, <2>2, <2>5 DEF Schedule, IsScan, IInv, Shape
  <2> QED BY <1>6, <2>3, <2>4, <2>5
<1> QED BY <1>4, <1>5, <1>6

-----------------------------------------------------------------------------
\* The cache starts empty.
LEMMA InitHolds == Init => IInv
<1> SUFFICES ASSUME Init PROVE IInv
  OBVIOUS
<1>1. Shape
  BY Instants DEF Init, Shape, IsScan, Jobs
<1>2. \A k \in Key : ~Eligible(k)
  BY DEF Init, Eligible, NoEntry
<1> QED BY <1>1, <1>2 DEF IInv, HeapCovers

\* Every step of the scanner, the workers, the clients, the loader and `clear` keeps it.
LEMMA StepHolds == IInv /\ [Next]_vars => IInv'
<1> SUFFICES ASSUME IInv, [Next]_vars PROVE IInv'
  OBVIOUS
<1>1. CASE UNCHANGED vars
  BY <1>1, Untouched DEF vars, sched, history
<1>2. CASE Tick
  BY <1>2, TickStep
<1>3. CASE Scanner
  BY <1>3, WakeStep, PopStep, JudgeStep, ScanEndStep DEF Scanner
<1>4. CASE (\E k \in Key : Evict(k)) \/ ClearShards \/ ClearHeap
  BY <1>4, RemovalStep
<1>5. CASE (\E k \in Key : Hit(k)) \/ WorkerRecv
  <2>1. UNCHANGED <<entry, heap, scan, job, swept>>
    BY <1>5 DEF Hit, WorkerRecv, sched, history
  <2> QED BY <2>1, Untouched
<1>6. ASSUME NEW f \in Client, NEW k \in Key, Miss(f, k) PROVE IInv'
  <2>1. f \in Fetcher
    BY DEF Fetcher
  <2>2. UNCHANGED <<entry, heap, scan, swept>> /\ job[f] = Free
        /\ job' = [job EXCEPT ![f] = [pc |-> "fetch", key |-> k]]
    BY <1>6 DEF Miss, sched, history
  <2> QED BY <2>1, <2>2, FetchStep
<1>7. ASSUME NEW f \in Slot, Prefetch(f) PROVE IInv'
  <2>1. PICK k \in Key : Acquire(f, k)
    BY <1>7 DEF Prefetch
  <2>2. f \in Fetcher
    BY DEF Fetcher
  <2>3. UNCHANGED <<entry, heap, scan, swept>> /\ job[f] = Free
        /\ job' = [job EXCEPT ![f] = [pc |-> "fetch", key |-> k]]
    BY <2>1 DEF Acquire, sched, history
  <2> QED BY <2>2, <2>3, FetchStep
<1>8. CASE \E f \in Fetcher : Resolve(f)
  BY <1>8, ResolveStep
<1>9. CASE \E k \in Key, l \in TTL \cup {0}, neg \in BOOLEAN : Load(k, l, neg)
  BY <1>9, LoadStep
<1> QED BY <1>1, <1>2, <1>3, <1>4, <1>5, <1>6, <1>7, <1>8, <1>9 DEF Next

\* No eligible entry is lost from the heap, for any keys, clients, lifetimes, batch and
\* channel: whatever get_expired pops, drops or puts back while inserts, evictions and
\* the load go on, only a `clear` takes away the keys of entries inserted while it ran.
THEOREM NothingIsLost == Spec => []HeapCovers
<1>1. IInv => HeapCovers
  BY DEF IInv
<1> QED BY <1>1, InitHolds, StepHolds, PTL DEF Spec

-----------------------------------------------------------------------------
\* The types are the shape and the counters.
LEMMA TypesSplit == TypeOK <=> Shape /\ Counters
BY DEF TypeOK, Shape, Counters

\* Appending to the channel below its capacity.
LEMMA RoomLeft ==
  ASSUME Counters, NEW k \in Key, Len(chan) < CHANNEL
  PROVE  Append(chan, k) \in Seq(Key) /\ Len(Append(chan, k)) <= CHANNEL
<1>1. CHANNEL \in Nat
  BY CachePrefetchAssumption
<1> QED BY <1>1 DEF Counters

\* The steps that move the timer.
LEMMA TimerCounts ==
  ASSUME Shape, Counters, Tick \/ WakeByTimer \/ WakeByNotify \/ Schedule
  PROVE  Counters'
<1>1. PICK top \in Nat : top = Max({MAX_TTL, MIN_INTERVAL}) /\ MAX_TTL <= top /\ MIN_INTERVAL <= top
  BY Sleeps, MaxOfTwo
<1>2. next_check \in 0..top /\ since_check \in 0..(MIN_INTERVAL + 1) /\ blocked \in 0..MAX_TTL
  BY <1>1 DEF Counters
<1>3. CASE Tick
  <2>1. next_check - 1 \in Int /\ since_check + 1 \in Int /\ blocked + 1 \in Int
    BY <1>2
  <2>2. next_check' \in 0..top
    <3>1. Max({next_check - 1, 0}) \in 0..top
      BY <1>2, <2>1, MaxOfTwo
    <3> QED BY <1>3, <3>1 DEF Tick
  <2>3. since_check' \in 0..(MIN_INTERVAL + 1)
    <3>1. Min({since_check + 1, MIN_INTERVAL + 1}) \in 0..(MIN_INTERVAL + 1)
      BY <1>2, <2>1, MinOfTwo, Sleeps
    <3> QED BY <1>3, <3>1 DEF Tick
  <2>4. blocked' \in 0..MAX_TTL
    <3>1. Min({blocked + 1, MAX_TTL}) \in 0..MAX_TTL
      BY <1>2, <2>1, MinOfTwo, Sleeps
    <3> QED BY <1>2, <1>3, <3>1 DEF Tick
  <2> QED BY <1>1, <1>3, <2>2, <2>3, <2>4 DEF Tick, Counters, queues, history
<1>4. CASE WakeByTimer \/ WakeByNotify
  <2>1. since_check' \in 0..(MIN_INTERVAL + 1) /\ blocked' \in 0..MAX_TTL /\ unseen' = {}
    BY <1>2, <1>4, Sleeps DEF WakeByTimer, WakeByNotify, Check
  <2> QED BY <1>4, <2>1 DEF WakeByTimer, WakeByNotify, Counters, queues
<1>5. CASE Schedule
  <2>1. scan.most_recent \in 0..MAX_TTL
    BY <1>5 DEF Schedule, Shape, IsScan, Waiting
  <2>2. next_check' \in 0..top
    BY <1>1, <1>5, <2>1, MaxOfTwo, Sleeps DEF Schedule
  <2> QED BY <1>1, <1>5, <2>2 DEF Schedule, Counters, queues, history
<1> QED BY <1>3, <1>4, <1>5

\* Every step keeps the counters within their bounds.
LEMMA CountersStep ==
  ASSUME Shape, Counters, [Next]_vars
  PROVE  Counters'
<1>1. CASE UNCHANGED vars
  BY <1>1 DEF vars, sched, timer, queues, history, Counters
<1>2. CASE Tick
  BY <1>2, TimerCounts
<1>3. CASE Scanner
  <2>1. CASE WakeByTimer \/ WakeByNotify \/ Schedule
    BY <2>1, TimerCounts
  <2>2. ASSUME NEW i \in heap, Pop(i) PROVE Counters'
    BY <2>2 DEF Pop, Counters, timer, queues
  <2>3. CASE PopNone \/ Judge \/ Requeue \/ Peek
    BY <2>3 DEF PopNone, Judge, Requeue, Peek, Counters, timer, queues, history
  <2>4. ASSUME NEW k \in Key, SendOne(k) PROVE Counters'
    BY <2>4, RoomLeft DEF SendOne, Counters, timer, history
  <2> QED BY <1>3, <2>1, <2>2, <2>3, <2>4 DEF Scanner
<1>4. ASSUME NEW k \in Key, Evict(k) \/ Hit(k) PROVE Counters'
  BY <1>4, RoomLeft DEF Evict, Hit, try_prefetch, Counters, sched, timer, queues, history
<1>5. ASSUME NEW f \in Client, NEW k \in Key, Miss(f, k) PROVE Counters'
  BY <1>5 DEF Miss, Counters, sched, timer, queues, history
<1>6. CASE WorkerRecv
  <2>1. Head(chan) \in Key /\ Tail(chan) \in Seq(Key) /\ Len(Tail(chan)) <= CHANNEL
    BY <1>6, CachePrefetchAssumption DEF WorkerRecv, Counters
  <2>2. PICK k \in Key : k = Head(chan)
    BY <2>1
  <2>3. waiting[k] + 1 \in 0..MAX_WAITING
    <3>1. waiting[k] < MAX_WAITING /\ waiting[k] \in 0..MAX_WAITING
      BY <1>6, <2>2 DEF WorkerRecv, Counters
    <3> QED BY <3>1, CachePrefetchAssumption
  <2>4. waiting' = [waiting EXCEPT ![k] = waiting[k] + 1]
    BY <1>6, <2>2 DEF WorkerRecv, Counters
  <2> QED BY <1>6, <2>1, <2>3, <2>4 DEF WorkerRecv, Counters, sched, timer, history
<1>7. ASSUME NEW f \in Slot, NEW k \in Key, Acquire(f, k) PROVE Counters'
  <2>1. waiting[k] - 1 \in 0..MAX_WAITING
    BY <1>7, CachePrefetchAssumption DEF Acquire, Counters
  <2> QED BY <1>7, <2>1 DEF Acquire, Counters, sched, timer, history
<1>8. ASSUME NEW f \in Fetcher, Resolve(f) PROVE Counters'
  BY <1>8 DEF Resolve, Positive, Negative, Fail, Push, Notify, Counters, sched, timer, queues, history
<1>9. ASSUME NEW k \in Key, NEW l \in TTL \cup {0}, NEW neg \in BOOLEAN, Load(k, l, neg)
      PROVE  Counters'
  BY <1>9 DEF Load, Counters, sched, timer, queues
<1>10. CASE ClearShards \/ ClearHeap
  BY <1>10 DEF ClearShards, ClearHeap, Counters, sched, timer, queues
<1> QED BY <1>1, <1>2, <1>3, <1>4, <1>5, <1>6, <1>7, <1>8, <1>9, <1>10 DEF Next, Prefetch

\* Every variable keeps its type: no sleep beyond the longest of MAX_TTL and the minimum
\* interval, no more than CHANNEL tasks in the channel, only address queries in a batch.
THEOREM PrefetchTypes == Spec => []TypeOK
<1>1. Init => Counters
  <2>1. 0 \in 0..Max({MAX_TTL, MIN_INTERVAL})
    BY Sleeps, MaxOfTwo
  <2>2. <<>> \in Seq(Key) /\ Len(<<>>) <= CHANNEL /\ 0 \in 0..MAX_WAITING
    BY CachePrefetchAssumption
  <2>3. 0 \in 0..(MIN_INTERVAL + 1) /\ 0 \in 0..MAX_TTL
    BY Sleeps
  <2>4. Init => waiting \in [Key -> 0..MAX_WAITING]
    BY <2>2 DEF Init
  <2> QED BY <2>1, <2>2, <2>3, <2>4 DEF Init, Counters
<1>2. IInv /\ Counters /\ [Next]_vars => Counters'
  BY CountersStep DEF IInv
<1>3. IInv /\ Counters => TypeOK
  BY TypesSplit DEF IInv
<1> QED BY <1>1, <1>2, <1>3, InitHolds, StepHolds, PTL DEF Spec

-----------------------------------------------------------------------------
\* Nobody is about to wake the scanner, and it reckons with every key of the heap.
Quiet == ~notified /\ unseen = {} /\ \A f \in Fetcher : job[f].pc # "notify"

\* No item of S is due.
NotDue(S) == \A i \in S : i.left >= Threshold

\* A sleep of n ticks ends in time for every key of the heap.
EndsInTime(n) ==
  \A i \in heap : n <= Max({MIN_INTERVAL, i.left - Threshold + 1}) + blocked

\* What a scan knows of the heap, place by place: an item put aside is not due, and once
\* the loop has ended nothing left in the heap is, so that the sleep computed from it,
\* however long the batch then takes to send, ends in time.
Reckoned ==
  Quiet =>
    /\ scan.pc \in {"pop", "judge"} => NotDue(scan.requeue)
    /\ scan.pc = "requeue" => NotDue(heap \cup scan.requeue)
    /\ scan.pc = "peek" => NotDue(heap)
    /\ scan.pc = "send" => EndsInTime(scan.most_recent)
    /\ scan.pc = "wait" => EndsInTime(next_check)

\* A scanner that is asleep is in one place only.
LEMMA Asleep ==
  ASSUME Shape
  PROVE  scan.pc = "wait" <=> scan = Waiting
BY DEF Shape, IsScan, Waiting

\* A step that leaves the scanner, its timer and the heap alone, or takes from the heap,
\* and does not make the scanner quiet.
LEMMA ScannerRests ==
  ASSUME Reckoned, Quiet' => Quiet, heap' \subseteq heap,
         UNCHANGED <<scan, next_check, blocked>>
  PROVE  Reckoned'
<1> SUFFICES ASSUME Quiet' PROVE Reckoned'
  BY DEF Reckoned
<1>1. EndsInTime(scan.most_recent) => EndsInTime(scan.most_recent)'
  BY DEF EndsInTime
<1>2. EndsInTime(next_check) => EndsInTime(next_check)'
  BY DEF EndsInTime
<1> QED BY <1>1, <1>2 DEF Reckoned, NotDue

\* The bound of an item moves no faster than the clock.
LEMMA BoundMoves ==
  ASSUME NEW l \in Left
  PROVE  /\ Max({MIN_INTERVAL, l - Threshold + 1}) \in Nat
         /\ Max({MIN_INTERVAL, l - Threshold + 1}) >= MIN_INTERVAL
         /\ Max({MIN_INTERVAL, l - Threshold + 1}) >= l - Threshold + 1
         /\ Max({MIN_INTERVAL, Sooner(l) - Threshold + 1})
              >= Max({MIN_INTERVAL, l - Threshold + 1}) - 1
<1>1. l - Threshold + 1 \in Int /\ Sooner(l) - Threshold + 1 \in Int
      /\ Sooner(l) - Threshold + 1 >= (l - Threshold + 1) - 1
  <2>1. l \in Int /\ Sooner(l) \in Int /\ Sooner(l) >= l - 1
    BY Instants
  <2> QED BY <2>1, Marks
<1>2. PICK a \in Int, b \in Int : a = l - Threshold + 1 /\ b = Sooner(l) - Threshold + 1 /\ b >= a - 1
  BY <1>1
<1>3. Max({MIN_INTERVAL, a}) = (IF MIN_INTERVAL >= a THEN MIN_INTERVAL ELSE a)
      /\ Max({MIN_INTERVAL, b}) = (IF MIN_INTERVAL >= b THEN MIN_INTERVAL ELSE b)
  BY MaxOfTwo, Sleeps
<1> QED BY <1>2, <1>3, Sleeps

\* Time passes: the sleep that is left shrinks with the time to the keys, or the time
\* the scanner waits for room is added to what it may be late.
LEMMA TickReckoned ==
  ASSUME TypeOK, Reckoned, Tick
  PROVE  Reckoned'
<1>0. Shape /\ Counters
  BY TypesSplit
<1> SUFFICES ASSUME Quiet' PROVE Reckoned'
  BY DEF Reckoned
<1>1. Quiet
  <2>1. \A f \in Fetcher : job[f] \in Jobs
                             /\ job'[f] = IF job[f].pc = "push"
                                           THEN [job[f] EXCEPT !.left = Sooner(@)] ELSE job[f]
    BY <1>0 DEF Tick, Shape
  <2>2. \A f \in Fetcher : job'[f].pc = job[f].pc
    BY <2>1 DEF Jobs, Free
  <2> QED BY <2>2 DEF Quiet, Tick, history
<1>2. \A i \in heap' : \E j \in heap : i.left = Sooner(j.left)
  BY <1>0 DEF Tick, Shape, Items
<1>3. \A j \in heap : j.left \in Left
  BY <1>0 DEF Shape, Items
<1>4. CASE scan = Waiting
  <2>1. EndsInTime(next_check)
    BY <1>1, <1>4 DEF Reckoned, Waiting
  <2>2. blocked' = blocked /\ blocked \in Nat /\ next_check \in Nat
        /\ next_check' = Max({next_check - 1, 0}) /\ scan' = scan
    <3>1. Max({MAX_TTL, MIN_INTERVAL}) \in Nat
      BY Sleeps, MaxOfTwo
    <3>2. next_check \in 0..Max({MAX_TTL, MIN_INTERVAL}) /\ blocked \in 0..MAX_TTL
      BY <1>0 DEF Counters
    <3>3. next_check \in Nat /\ blocked \in Nat
      BY <3>1, <3>2, Sleeps
    <3> QED BY <1>4, <3>3 DEF Tick
  <2>3. next_check' \in {next_check - 1, 0} /\ next_check' <= next_check
    BY <2>2, MaxOfTwo
  <2>4. EndsInTime(next_check)'
    <3> SUFFICES ASSUME NEW i \in heap'
                 PROVE  next_check' <= Max({MIN_INTERVAL, i.left - Threshold + 1}) + blocked
      BY <2>2 DEF EndsInTime
    <3>1. PICK j \in heap : i.left = Sooner(j.left)
      BY <1>2
    <3>2. next_check <= Max({MIN_INTERVAL, j.left - Threshold + 1}) + blocked
      BY <2>1 DEF EndsInTime
    <3>3. PICK m \in Nat, n \in Nat :
             /\ m = Max({MIN_INTERVAL, j.left - Threshold + 1})
             /\ n = Max({MIN_INTERVAL, i.left - Threshold + 1})
             /\ n >= m - 1
      BY <1>3, <3>1, BoundMoves, Instants
    <3> QED BY <2>2, <2>3, <3>2, <3>3
  <2> QED BY <1>4, <2>2, <2>4 DEF Reckoned, Waiting
<1>5. CASE scan # Waiting
  <2>1. scan.pc = "send" /\ scan' = scan /\ blocked' = Min({blocked + 1, MAX_TTL})
    BY <1>5 DEF Tick
  <2>2. EndsInTime(scan.most_recent)
    BY <1>1, <2>1 DEF Reckoned
  <2>3. scan.most_recent \in 0..MAX_TTL /\ blocked \in 0..MAX_TTL
    BY <1>0, <2>1 DEF Shape, IsScan, Waiting, Counters
  <2>4. blocked' = IF blocked + 1 <= MAX_TTL THEN blocked + 1 ELSE MAX_TTL
    BY <2>1, <2>3, MinOfTwo, Sleeps
  <2>5. EndsInTime(scan.most_recent)'
    <3> SUFFICES ASSUME NEW i \in heap'
                 PROVE  scan.most_recent
                          <= Max({MIN_INTERVAL, i.left - Threshold + 1}) + blocked'
      BY <2>1 DEF EndsInTime
    <3>1. PICK j \in heap : i.left = Sooner(j.left)
      BY <1>2
    <3>2. scan.most_recent <= Max({MIN_INTERVAL, j.left - Threshold + 1}) + blocked
      BY <2>2 DEF EndsInTime
    <3>3. PICK m \in Nat, n \in Nat :
             /\ m = Max({MIN_INTERVAL, j.left - Threshold + 1})
             /\ n = Max({MIN_INTERVAL, i.left - Threshold + 1})
             /\ n >= m - 1
      BY <1>3, <3>1, BoundMoves, Instants
    <3> QED BY <2>3, <2>4, <3>2, <3>3, Sleeps
  <2> QED BY <2>1, <2>5 DEF Reckoned
<1> QED BY <1>4, <1>5

\* The scanner wakes: nothing is put aside yet, or it sleeps for the minimum interval.
LEMMA WakeReckoned ==
  ASSUME TypeOK, WakeByTimer \/ WakeByNotify
  PROVE  Reckoned'
<1>0. Shape
  BY TypesSplit
<1>1. \/ scan' = [pc |-> "pop", expired |-> {}, requeue |-> {}]
      \/ scan' = [pc |-> "send", expired |-> {}, most_recent |-> 0]
  BY DEF WakeByTimer, WakeByNotify, Check
<1>2. blocked' = 0 /\ heap' = heap
  BY DEF WakeByTimer, WakeByNotify, Check
<1>3. \A i \in heap : i.left \in Left
  BY <1>0 DEF Shape, Items
<1>4. \A i \in heap : 0 <= Max({MIN_INTERVAL, i.left - Threshold + 1}) + 0
  <2> SUFFICES ASSUME NEW i \in heap
               PROVE  0 <= Max({MIN_INTERVAL, i.left - Threshold + 1}) + 0
    OBVIOUS
  <2>1. PICK m \in Nat : m = Max({MIN_INTERVAL, i.left - Threshold + 1})
    BY <1>3, BoundMoves
  <2> QED BY <2>1
<1>5. CASE scan' = [pc |-> "pop", expired |-> {}, requeue |-> {}]
  BY <1>5 DEF Reckoned, NotDue
<1>6. CASE scan' = [pc |-> "send", expired |-> {}, most_recent |-> 0]
  <2>1. EndsInTime(scan.most_recent)'
    BY <1>2, <1>4, <1>6 DEF EndsInTime
  <2> QED BY <1>6, <2>1 DEF Reckoned
<1> QED BY <1>1, <1>5, <1>6

\* The loop of get_expired: a popped item that is not due is the earliest of the heap;
\* one that is due but too many for the batch is remembered in `unseen`.
LEMMA LoopReckoned ==
  ASSUME TypeOK, Reckoned, (\E i \in heap : Pop(i)) \/ PopNone \/ Judge
  PROVE  Reckoned'
<1>0. Shape
  BY TypesSplit
<1> SUFFICES ASSUME Quiet' PROVE Reckoned'
  BY DEF Reckoned
<1>1. Quiet /\ unseen' = {}
  <2>1. notified' = notified /\ job' = job /\ unseen \subseteq unseen'
    BY DEF Pop, PopNone, Judge, history
  <2> QED BY <2>1 DEF Quiet
<1>2. scan.pc \in {"pop", "judge"} /\ NotDue(scan.requeue)
  BY <1>1 DEF Reckoned, Pop, PopNone, Judge
<1>3. ASSUME NEW i \in heap, Pop(i) PROVE Reckoned'
  <2>1. CASE i.left >= Threshold
    <3>1. i.left \in Int /\ \A j \in heap : j.left \in Int /\ i.left <= j.left
      BY <1>0, <1>3, Instants DEF Pop, Earliest, Shape, Items
    <3>2. NotDue(heap)
      BY <2>1, <3>1, Marks DEF NotDue
    <3>3. scan'.pc = "requeue" /\ scan'.requeue = scan.requeue \cup {i} /\ heap' = heap \ {i}
      BY <1>3, <2>1 DEF Pop, Scanning
    <3>4. NotDue(heap \cup scan.requeue)'
      BY <1>2, <2>1, <3>2, <3>3 DEF NotDue
    <3> QED BY <3>3, <3>4 DEF Reckoned
  <2>2. CASE ~(i.left >= Threshold)
    <3>0. i.left \in Int
      BY <1>0, Instants DEF Shape, Items
    <3>1. i.left < Threshold
      BY <2>2, <3>0, Marks
    <3>2. ~(Cardinality(scan.expired) >= BATCH)
      BY <1>1, <1>3, <3>1 DEF Pop
    <3>3. scan'.pc = "judge" /\ scan'.requeue = scan.requeue
      BY <1>3, <2>2, <3>2 DEF Pop
    <3> QED BY <1>2, <3>3 DEF Reckoned, NotDue
  <2> QED BY <2>1, <2>2
<1>4. CASE PopNone
  <2>1. scan'.pc = "requeue" /\ scan'.requeue = scan.requeue /\ heap' = {}
    BY <1>4 DEF PopNone, Scanning
  <2> QED BY <1>2, <2>1 DEF Reckoned, NotDue
<1>5. CASE Judge
  <2>1. PICK k : k = scan.held
    OBVIOUS
  <2>2. \/ scan' = Scanning("pop")
        \/ /\ entry[k].left >= Threshold
           /\ scan' = [Scanning("pop") EXCEPT
                         !.requeue = @ \cup {[left |-> entry[k].left, key |-> k]}]
        \/ scan' = [Scanning("pop") EXCEPT !.expired = @ \cup {k}]
    BY <1>5, <2>1, Zenon DEF Judge
  <2>3. /\ scan'.pc = "pop"
        /\ \/ scan'.requeue = scan.requeue
           \/ /\ entry[k].left >= Threshold
              /\ scan'.requeue = scan.requeue \cup {[left |-> entry[k].left, key |-> k]}
    BY <2>2 DEF Scanning
  <2>4. NotDue(scan'.requeue)
    BY <1>2, <2>3 DEF NotDue
  <2> QED BY <2>3, <2>4 DEF Reckoned, NotDue
<1> QED BY <1>3, <1>4, <1>5

\* The end of a scan: what was put aside returns, the sleep is computed and, when the
\* batch is sent, begins.
LEMMA EndReckoned ==
  ASSUME TypeOK, Reckoned,
         Requeue \/ Peek \/ (\E k \in Key : SendOne(k)) \/ Schedule
  PROVE  Reckoned'
<1>0. Shape /\ Counters
  BY TypesSplit
<1> SUFFICES ASSUME Quiet' PROVE Reckoned'
  BY DEF Reckoned
<1>1. Quiet
  BY DEF Quiet, Requeue, Peek, SendOne, Schedule, history
<1>2. \A i \in heap : i.left \in Left /\ i.left \in Int
  BY <1>0, Instants DEF Shape, Items
<1>3. blocked \in Nat
  BY <1>0, Sleeps DEF Counters
<1>4. CASE Requeue
  <2>1. NotDue(heap \cup scan.requeue)
    BY <1>1, <1>4 DEF Reckoned, Requeue
  <2>2. scan'.pc = "peek" /\ heap' = heap \cup scan.requeue
    BY <1>4 DEF Requeue, Scanning
  <2> QED BY <2>1, <2>2 DEF Reckoned, NotDue
<1>5. CASE Peek
  <2>1. NotDue(heap)
    BY <1>1, <1>5 DEF Reckoned, Peek
  <2>2. PICK n \in 0..MAX_TTL : n = MostRecent
    BY <1>0, SleepIs DEF Shape
  <2>3. \A i \in heap : n <= i.left - Threshold + 1
    BY <1>0, <2>1, <2>2, SleepIs DEF Shape, NotDue
  <2>4. scan'.pc = "send" /\ scan'.most_recent = n /\ heap' = heap /\ blocked' = blocked
    BY <1>5, <2>2 DEF Peek, timer
  <2>5. \A i \in heap : n <= Max({MIN_INTERVAL, i.left - Threshold + 1}) + blocked
    <3> SUFFICES ASSUME NEW i \in heap
                 PROVE  n <= Max({MIN_INTERVAL, i.left - Threshold + 1}) + blocked
      OBVIOUS
    <3>1. PICK m \in Nat : m = Max({MIN_INTERVAL, i.left - Threshold + 1})
                           /\ m >= i.left - Threshold + 1
      BY <1>2, BoundMoves
    <3> QED BY <1>2, <1>3, <2>3, <3>1, Marks, Sleeps
  <2>6. EndsInTime(scan.most_recent)'
    BY <2>4, <2>5 DEF EndsInTime
  <2> QED BY <2>4, <2>6 DEF Reckoned
<1>6. ASSUME NEW k \in Key, SendOne(k) PROVE Reckoned'
  <2>1. EndsInTime(scan.most_recent)
    BY <1>1, <1>6 DEF Reckoned, SendOne
  <2>2. scan'.pc = "send" /\ scan'.most_recent = scan.most_recent
        /\ heap' = heap /\ blocked' = blocked
    BY <1>0, <1>6 DEF SendOne, timer, Shape, IsScan, Waiting
  <2>3. EndsInTime(scan.most_recent)'
    BY <2>1, <2>2 DEF EndsInTime
  <2> QED BY <2>2, <2>3 DEF Reckoned
<1>7. CASE Schedule
  <2>1. EndsInTime(scan.most_recent)
    BY <1>1, <1>7 DEF Reckoned, Schedule
  <2>2. PICK n \in 0..MAX_TTL : n = scan.most_recent
    BY <1>0, <1>7 DEF Schedule, Shape, IsScan, Waiting
  <2>3. next_check' = (IF n >= MIN_INTERVAL THEN n ELSE MIN_INTERVAL)
        /\ scan' = Waiting /\ heap' = heap /\ blocked' = blocked
    BY <1>7, <2>2, MaxOfTwo, Sleeps DEF Schedule
  <2>4. \A i \in heap : next_check' <= Max({MIN_INTERVAL, i.left - Threshold + 1}) + blocked
    <3> SUFFICES ASSUME NEW i \in heap
                 PROVE  next_check' <= Max({MIN_INTERVAL, i.left - Threshold + 1}) + blocked
      OBVIOUS
    <3>1. PICK m \in Nat : m = Max({MIN_INTERVAL, i.left - Threshold + 1})
                           /\ m >= MIN_INTERVAL
      BY <1>2, BoundMoves
    <3>2. n <= m + blocked
      BY <2>1, <2>2, <3>1 DEF EndsInTime
    <3> QED BY <1>3, <2>3, <3>1, <3>2, Sleeps
  <2>5. EndsInTime(next_check)'
    BY <2>3, <2>4 DEF EndsInTime
  <2> QED BY <2>3, <2>5 DEF Reckoned, Waiting
<1> QED BY <1>4, <1>5, <1>6, <1>7

\* Every step keeps what the scanner reckons with.  An insert or a load that adds a key
\* leaves the scanner about to be woken, or is remembered in `unseen`.
LEMMA ReckonedStep ==
  ASSUME TypeOK, Reckoned, [Next]_vars
  PROVE  Reckoned'
<1>0. Shape
  BY TypesSplit
<1>1. CASE UNCHANGED vars
  <2>1. (Quiet' => Quiet) /\ heap' = heap /\ UNCHANGED <<scan, next_check, blocked>>
    BY <1>1 DEF vars, sched, timer, history, Quiet
  <2> QED BY <2>1, ScannerRests
<1>2. CASE Tick
  BY <1>2, TickReckoned
<1>3. CASE Scanner
  BY <1>3, WakeReckoned, LoopReckoned, EndReckoned DEF Scanner
<1>4. ASSUME NEW k \in Key, Evict(k) \/ Hit(k) PROVE Reckoned'
  <2>1. (Quiet' => Quiet) /\ heap' = heap /\ UNCHANGED <<scan, next_check, blocked>>
    BY <1>4 DEF Evict, Hit, sched, timer, history, Quiet
  <2> QED BY <2>1, ScannerRests
<1>5. CASE WorkerRecv \/ ClearShards \/ ClearHeap
  <2>1. (Quiet' => Quiet) /\ heap' \subseteq heap /\ UNCHANGED <<scan, next_check, blocked>>
    BY <1>5 DEF WorkerRecv, ClearShards, ClearHeap, sched, timer, history, Quiet
  <2> QED BY <2>1, ScannerRests
<1>6. ASSUME NEW f \in Fetcher, NEW k \in Key, Miss(f, k) \/ Acquire(f, k) PROVE Reckoned'
  <2>1. \A g \in Fetcher : job[g].pc = "notify" => job'[g] = job[g]
    BY <1>0, <1>6 DEF Miss, Acquire, Shape, Free
  <2>2. (Quiet' => Quiet) /\ heap' = heap /\ UNCHANGED <<scan, next_check, blocked>>
    BY <1>6, <2>1 DEF Miss, Acquire, sched, timer, history, Quiet
  <2> QED BY <2>2, ScannerRests
<1>7. ASSUME NEW f \in Fetcher, Resolve(f) PROVE Reckoned'
  <2>1. ASSUME NEW l \in TTL, Positive(f, l) \/ Negative(f, l) PROVE Reckoned'
    <3>1. \A g \in Fetcher : job[g].pc = "notify" => job'[g] = job[g]
      BY <1>0, <2>1 DEF Positive, Negative, Shape
    <3>2. UNCHANGED <<heap, scan, next_check, blocked, notified, unseen>>
      BY <2>1 DEF Positive, Negative, sched, timer, history
    <3>3. Quiet' => Quiet
      BY <3>1, <3>2 DEF Quiet
    <3> QED BY <3>2, <3>3, ScannerRests
  <2>2. CASE Fail(f)
    <3>1. \A g \in Fetcher : job[g].pc = "notify" => job'[g] = job[g]
      BY <1>0, <2>2 DEF Fail, Shape
    <3>2. (Quiet' => Quiet) /\ heap' = heap /\ UNCHANGED <<scan, next_check, blocked>>
      BY <2>2, <3>1 DEF Fail, sched, timer, history, Quiet
    <3> QED BY <3>2, ScannerRests
  <2>3. CASE Push(f)
    <3>1. job'[f].pc = "notify"
      BY <1>0, <2>3 DEF Push, Shape
    <3> QED BY <3>1 DEF Reckoned, Quiet
  <2>4. CASE Notify(f)
    BY <2>4 DEF Notify, Reckoned, Quiet
  <2> QED BY <1>7, <2>1, <2>2, <2>3, <2>4 DEF Resolve
<1>8. ASSUME NEW k \in Key, NEW l \in TTL \cup {0}, NEW neg \in BOOLEAN, Load(k, l, neg)
      PROVE  Reckoned'
  <2>1. unseen' # {}
    BY <1>8 DEF Load
  <2> QED BY <2>1 DEF Reckoned, Quiet
<1> QED BY <1>1, <1>2, <1>3, <1>4, <1>5, <1>6, <1>7, <1>8 DEF Next, Prefetch, Fetcher

\* For any keys, lifetimes, clients, batch, channel and intervals, a scanner that sleeps
\* wakes no later than the earliest key of the heap comes due (or the minimum interval is
\* over), but for the time it waited for room in the channel: no notification is lost
\* between a scan, the sending of its batch and the next sleep.
THEOREM SleepsNoLonger == Spec => []NeverOversleeps
<1>1. Init => Reckoned
  BY DEF Init, Reckoned, EndsInTime, Waiting
<1>2. TypeOK /\ Reckoned /\ [Next]_vars => Reckoned'
  BY ReckonedStep
<1>3. TypeOK /\ Reckoned => NeverOversleeps
  BY TypesSplit, Asleep DEF Reckoned, Quiet, EndsInTime, NeverOversleeps, InTime
<1> QED BY <1>1, <1>2, <1>3, PrefetchTypes, PTL DEF Spec

=============================================================================
