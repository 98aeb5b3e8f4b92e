-------------------------- MODULE CacheStoreProofs --------------------------
(***************************************************************************)
(* Proofs about CacheStore for any number of keys, shards, tasks and any   *)
(* capacity.                                                               *)
(***************************************************************************)
EXTENDS CacheStore, FiniteSetTheorems, TLAPS

-----------------------------------------------------------------------------
\* Sums over finite sets.  SumFunctionOnSet adds the elements in an order it chooses;
\* what the steps below need is that the order does not matter.

\* The element a sum over s takes first, and a function that sums f over the subsets
\* of S that way.
Pick(s) == CHOOSE x \in s : TRUE
IsSum(f, g, S) ==
  g = [s \in SUBSET S |-> IF s = {} THEN 0 ELSE f[Pick(s)] + g[s \ {Pick(s)}]]

\* Among some subsets of a finite set one is minimal: the induction used for sums.
LEMMA SmallestSet ==
  ASSUME NEW S, IsFiniteSet(S), NEW B, B \subseteq SUBSET S, B # {}
  PROVE  \E b \in B : \A s \in B : s \subseteq b => s = b
<1>1. IsWellFoundedOn(StrictSubsetOrdering(S), FiniteSubsetsOf(S))
  BY FS_StrictSubsetOrderingWellFounded, Zenon
<1>2. B \subseteq FiniteSubsetsOf(S)
  BY FS_Subset DEF FiniteSubsetsOf
<1>3. PICK b \in B : \A s \in B : <<s, b>> \notin StrictSubsetOrdering(S)
  BY <1>1, <1>2, WFMin, Zenon
<1>4. ASSUME NEW s \in B, s \subseteq b PROVE s = b
  BY <1>3, <1>4, Zenon DEF StrictSubsetOrdering
<1> QED BY <1>4

\* A choice from a nonempty set.
LEMMA PickIn == \A s : s # {} => Pick(s) \in s
  BY DEF Pick

\* Two functions that sum f agree wherever both are defined.
LEMMA SumUnique ==
  ASSUME NEW f, NEW g, NEW h, NEW S, NEW T, NEW U, IsFiniteSet(U), U \subseteq S, U \subseteq T,
         IsSum(f, g, S), IsSum(f, h, T)
  PROVE  g[U] = h[U]
<1> DEFINE B == {s \in SUBSET U : g[s] # h[s]}
<1> SUFFICES ASSUME B # {} PROVE FALSE
  OBVIOUS
<1>1. PICK b \in B : \A s \in B : s \subseteq b => s = b
  <2> HIDE DEF B
  <2> SUFFICES B \subseteq SUBSET U
    BY SmallestSet
  <2> QED BY DEF B
<1>2. b \in SUBSET S /\ b \in SUBSET T
  OBVIOUS
<1>3. g[b] = (IF b = {} THEN 0 ELSE f[Pick(b)] + g[b \ {Pick(b)}])
  BY <1>2, Zenon DEF IsSum
<1>4. h[b] = (IF b = {} THEN 0 ELSE f[Pick(b)] + h[b \ {Pick(b)}])
  BY <1>2, Zenon DEF IsSum
<1>5. CASE b = {}
  BY <1>3, <1>4, <1>5
<1>6. CASE b # {}
  <2>1. Pick(b) \in b
    BY <1>6, PickIn
  <2>2. b \ {Pick(b)} \notin B
    BY <1>1, <2>1
  <2>3. g[b \ {Pick(b)}] = h[b \ {Pick(b)}]
    BY <2>2
  <2> QED BY <2>3, <1>3, <1>4, <1>6
<1> QED BY <1>5, <1>6

\* There is such a function for every finite set.
LEMMA SumExists ==
  ASSUME NEW f, NEW S, IsFiniteSet(S)
  PROVE  \E g : IsSum(f, g, S)
<1> DEFINE B == {s \in SUBSET S : ~\E g : IsSum(f, g, s)}
<1> SUFFICES ASSUME B # {} PROVE FALSE
  OBVIOUS
<1>1. PICK b \in B : \A s \in B : s \subseteq b => s = b
  <2> HIDE DEF B
  <2> SUFFICES B \subseteq SUBSET S
    BY SmallestSet
  <2> QED BY DEF B
<1> DEFINE Of(s) == CHOOSE g : IsSum(f, g, s)
           Rest(s) == s \ {Pick(s)}
<1>2. ASSUME NEW s, s \subseteq b, s # b PROVE IsSum(f, Of(s), s)
  <2>1. \E g : IsSum(f, g, s)
    BY <1>1, <1>2
  <2> QED BY <2>1
<1>3. PICK g : g = [s \in SUBSET b |-> IF s = {} THEN 0 ELSE f[Pick(s)] + Of(Rest(s))[Rest(s)]]
  BY Zenon
<1>4. ASSUME NEW s, s \subseteq b, s # b PROVE g[s] = Of(s)[s]
  <2>1. IsSum(f, Of(s), s)
    BY <1>2, <1>4
  <2> HIDE DEF Of
  <2>2. Of(s)[s] = IF s = {} THEN 0 ELSE f[Pick(s)] + Of(s)[Rest(s)]
    BY <2>1, Zenon DEF IsSum
  <2>3. CASE s = {}
    BY <1>3, <2>2, <2>3
  <2>4. CASE s # {}
    <3>1. Rest(s) \subseteq s /\ Rest(s) # b /\ Rest(s) \subseteq b
      BY <1>4
    <3>2. IsSum(f, Of(Rest(s)), Rest(s))
      BY <3>1, <1>2
    <3>3. IsFiniteSet(Rest(s))
      BY <3>1, FS_Subset
    <3> HIDE DEF Rest
    <3>4. Of(s)[Rest(s)] = Of(Rest(s))[Rest(s)]
      BY <2>1, <3>2, <3>1, <3>3, SumUnique
    <3> QED BY <3>4, <1>3, <2>2, <2>4, <1>4
  <2> QED BY <2>3, <2>4
<1>5. ASSUME NEW s \in SUBSET b, s # {} PROVE g[Rest(s)] = Of(Rest(s))[Rest(s)]
  BY <1>4, <1>5, PickIn, Zenon
<1>6. IsSum(f, g, b)
  <2> HIDE DEF Of
  <2>1. \A s \in SUBSET b : g[s] = IF s = {} THEN 0 ELSE f[Pick(s)] + g[Rest(s)]
    BY <1>5, <1>3, Zenon
  <2> QED BY <2>1, <1>3, Zenon DEF IsSum
<1> QED BY <1>6

\* It gives the library's sum.
LEMMA SumIs ==
  ASSUME NEW f, NEW S, IsFiniteSet(S), NEW g, IsSum(f, g, S)
  PROVE  SumFunctionOnSet(f, S) = g[S]
<1> DEFINE h == CHOOSE h : IsSum(f, h, S)
<1>1. IsSum(f, h, S)
  OBVIOUS
<1>2. SumFunctionOnSet(f, S) = h[S]
  BY DEF SumFunctionOnSet, FoldFunctionOnSet, MapThenFoldSet, IsSum, Pick
<1> HIDE DEF h
<1> QED BY <1>1, <1>2, SumUnique

\* The sum over no element.
LEMMA SumEmpty == \A f : SumFunctionOnSet(f, {}) = 0
<1> TAKE f
<1>1. IsFiniteSet({})
  BY FS_EmptySet
<1>2. PICK g : IsSum(f, g, {})
  BY <1>1, SumExists
<1>3. g[{}] = 0
  BY <1>2 DEF IsSum
<1> QED BY <1>1, <1>2, <1>3, SumIs

\* The sum starts with the element it picks.
LEMMA SumPick ==
  ASSUME NEW f, NEW S, IsFiniteSet(S), S # {}
  PROVE  SumFunctionOnSet(f, S) = f[Pick(S)] + SumFunctionOnSet(f, S \ {Pick(S)})
<1>1. PICK R : R = S \ {Pick(S)}
  BY Zenon
<1>2. IsFiniteSet(R) /\ R \subseteq S
  BY <1>1, FS_Subset
<1>3. PICK g : IsSum(f, g, S)
  BY SumExists
<1>4. PICK h : IsSum(f, h, R)
  BY <1>2, SumExists
<1>5. g[R] = h[R]
  BY <1>2, <1>3, <1>4, SumUnique
<1>6. SumFunctionOnSet(f, S) = g[S] /\ SumFunctionOnSet(f, R) = h[R]
  BY <1>2, <1>3, <1>4, SumIs
<1>7. g[S] = f[Pick(S)] + g[R]
  BY <1>1, <1>3, Zenon DEF IsSum
<1> QED BY <1>1, <1>5, <1>6, <1>7

\* Any element can be taken out of a sum of integers.
LEMMA SumRemove ==
  ASSUME NEW f, NEW S, IsFiniteSet(S), \A y \in S : f[y] \in Int
  PROVE  /\ SumFunctionOnSet(f, S) \in Int
         /\ \A x \in S : SumFunctionOnSet(f, S) = f[x] + SumFunctionOnSet(f, S \ {x})
<1> DEFINE Sum(s) == SumFunctionOnSet(f, s)
           Good(s) == Sum(s) \in Int /\ \A x \in s : Sum(s) = f[x] + Sum(s \ {x})
           B == {s \in SUBSET S : ~Good(s)}
<1> SUFFICES ASSUME B # {} PROVE FALSE
  OBVIOUS
<1>1. PICK b \in B : \A s \in B : s \subseteq b => s = b
  <2>1. B \subseteq SUBSET S
    OBVIOUS
  <2> HIDE DEF B
  <2> QED BY <2>1, SmallestSet
<1>2. b \subseteq S /\ IsFiniteSet(b)
  BY FS_Subset
<1>3. b # {}
  BY SumEmpty
<1>4. ASSUME NEW s, s \subseteq b, s # b PROVE Good(s)
  <2>1. s \notin B
    BY <1>1, <1>4
  <2> QED BY <2>1, <1>2, <1>4
<1>5. PICK p : p = Pick(b)
  OBVIOUS
<1>6. p \in b /\ f[p] \in Int
  BY <1>2, <1>3, <1>5, PickIn
<1>7. Sum(b) = f[p] + Sum(b \ {p})
  BY <1>2, <1>3, <1>5, SumPick
<1> HIDE DEF Sum
<1>8. Good(b \ {p})
  BY <1>4, <1>6
<1>9. ASSUME NEW x \in b PROVE Sum(b) = f[x] + Sum(b \ {x})
  <2>1. CASE x = p
    BY <2>1, <1>7
  <2>2. CASE x # p
    <3>1. Good(b \ {x})
      BY <1>4, Zenon
    <3>2. PICK r : r = (b \ {p}) \ {x} /\ r = (b \ {x}) \ {p}
      BY Zenon
    <3>3. r \subseteq b /\ r # b
      BY <3>2
    <3>4. Sum(r) \in Int /\ f[x] \in Int
      BY <3>3, <1>4, <1>2
    <3>5. Sum(b \ {p}) = f[x] + Sum(r)
      BY <1>8, <3>2, <2>2, Zenon
    <3>6. Sum(b \ {x}) = f[p] + Sum(r)
      BY <3>1, <3>2, <2>2, <1>6, Zenon
    <3> QED BY <3>4, <3>5, <3>6, <1>6, <1>7
  <2> QED BY <2>1, <2>2
<1>10. Sum(b) \in Int
  BY <1>6, <1>7, <1>8
<1> QED BY <1>9, <1>10

\* A sum depends on the values of the summands only.
LEMMA SumAgree ==
  ASSUME NEW f, NEW g, NEW S, IsFiniteSet(S), \A y \in S : f[y] = g[y]
  PROVE  SumFunctionOnSet(f, S) = SumFunctionOnSet(g, S)
<1> DEFINE B == {s \in SUBSET S : SumFunctionOnSet(f, s) # SumFunctionOnSet(g, s)}
<1> SUFFICES ASSUME B # {} PROVE FALSE
  OBVIOUS
<1>1. PICK b \in B : \A s \in B : s \subseteq b => s = b
  <2>1. B \subseteq SUBSET S
    OBVIOUS
  <2> HIDE DEF B
  <2> QED BY <2>1, SmallestSet
<1>2. b \subseteq S /\ IsFiniteSet(b)
  BY FS_Subset
<1>3. b # {}
  BY SumEmpty
<1>4. PICK p : p = Pick(b)
  OBVIOUS
<1>5. p \in b /\ f[p] = g[p]
  BY <1>2, <1>3, <1>4, PickIn
<1>6. SumFunctionOnSet(f, b \ {p}) = SumFunctionOnSet(g, b \ {p})
  <2>1. b \ {p} \notin B
    BY <1>1, <1>5
  <2> QED BY <2>1
<1>7. SumFunctionOnSet(f, b) = SumFunctionOnSet(g, b)
  BY <1>2, <1>3, <1>4, <1>5, <1>6, SumPick
<1> QED BY <1>7

\* A sum of which one summand changes.
LEMMA SumChange ==
  ASSUME NEW f, NEW g, NEW S, IsFiniteSet(S), NEW x \in S,
         \A y \in S : f[y] \in Int /\ g[y] \in Int,
         \A y \in S : y # x => f[y] = g[y]
  PROVE  SumFunctionOnSet(g, S) = SumFunctionOnSet(f, S) - f[x] + g[x]
<1>1. PICK R : R = S \ {x}
  BY Zenon
<1>2. IsFiniteSet(R)
  BY <1>1, FS_Subset
<1>3. SumFunctionOnSet(f, R) = SumFunctionOnSet(g, R)
  BY <1>1, <1>2, SumAgree
<1>4. SumFunctionOnSet(f, R) \in Int
  BY <1>1, <1>2, SumRemove
<1>5. SumFunctionOnSet(f, S) = f[x] + SumFunctionOnSet(f, R)
  BY <1>1, SumRemove
<1>6. SumFunctionOnSet(g, S) = g[x] + SumFunctionOnSet(g, R)
  BY <1>1, SumRemove
<1> QED BY <1>3, <1>4, <1>5, <1>6

\* The sum of one element.
LEMMA SumSingle ==
  ASSUME NEW f, NEW x, f[x] \in Int
  PROVE  SumFunctionOnSet(f, {x}) = f[x]
<1>1. IsFiniteSet({x})
  BY FS_Singleton
<1>2. Pick({x}) = x
  BY PickIn
<1>3. SumFunctionOnSet(f, {x}) = f[x] + SumFunctionOnSet(f, {})
  <2>1. {x} \ {x} = {}
    OBVIOUS
  <2> QED BY <1>1, <1>2, <2>1, SumPick
<1> QED BY <1>3, SumEmpty

\* Of natural numbers at most m, those that are not zero bound the sum.
LEMMA SumBound ==
  ASSUME NEW f, NEW S, IsFiniteSet(S), NEW m \in Nat, \A y \in S : f[y] \in 0..m
  PROVE  /\ SumFunctionOnSet(f, S) \in Nat
         /\ Cardinality({y \in S : f[y] # 0}) \in Nat
         /\ SumFunctionOnSet(f, S) <= Cardinality({y \in S : f[y] # 0}) * m
<1> DEFINE Sum(s) == SumFunctionOnSet(f, s)
           Num(s) == Cardinality({y \in s : f[y] # 0})
           Good(s) == Sum(s) \in Nat /\ Num(s) \in Nat /\ Sum(s) <= Num(s) * m
           B == {s \in SUBSET S : ~Good(s)}
<1> SUFFICES ASSUME B # {} PROVE FALSE
  BY Zenon
<1>1. PICK b \in B : \A s \in B : s \subseteq b => s = b
  <2>1. B \subseteq SUBSET S
    OBVIOUS
  <2> HIDE DEF B
  <2> QED BY <2>1, SmallestSet
<1>2. b \subseteq S /\ IsFiniteSet(b)
  BY FS_Subset
<1>3. b # {}
  <2>1. Num({}) = 0
    <3>1. {y \in {} : f[y] # 0} = {}
      OBVIOUS
    <3> QED BY <3>1, FS_EmptySet
  <2>2. Sum({}) = 0
    BY SumEmpty
  <2>3. Good({})
    <3> HIDE DEF Sum, Num
    <3> QED BY <2>1, <2>2
  <2> QED BY <2>3
<1>4. PICK p : p = Pick(b)
  OBVIOUS
<1>5. p \in b /\ f[p] \in 0..m
  BY <1>2, <1>3, <1>4, PickIn
<1>6. Sum(b) = f[p] + Sum(b \ {p})
  BY <1>2, <1>3, <1>4, SumPick
<1>7. Good(b \ {p})
  <2>1. b \ {p} \notin B
    BY <1>1, <1>5, Zenon
  <2> QED BY <2>1, <1>2
<1>8. Num(b) = IF f[p] = 0 THEN Num(b \ {p}) ELSE Num(b \ {p}) + 1
  <2>1. CASE f[p] = 0
    <3>1. {y \in b : f[y] # 0} = {y \in b \ {p} : f[y] # 0}
      BY <2>1
    <3> QED BY <3>1, <2>1
  <2>2. CASE f[p] # 0
    <3>1. {y \in b : f[y] # 0} = {y \in b \ {p} : f[y] # 0} \cup {p}
      BY <2>2, <1>5
    <3>2. IsFiniteSet({y \in b \ {p} : f[y] # 0})
      BY <1>2, FS_Subset
    <3>3. p \notin {y \in b \ {p} : f[y] # 0}
      OBVIOUS
    <3> HIDE <1>1, <1>7
    <3> QED BY <3>1, <3>2, <3>3, <2>2, FS_AddElement, Zenon
  <2> QED BY <2>1, <2>2
<1> HIDE DEF Sum, Num
<1>9. PICK n \in Nat : n = Num(b \ {p})
  BY <1>7
<1>10. (n + 1) * m = n * m + m /\ n * m \in Nat
  BY <1>9
<1>11. Good(b)
  <2>1. CASE f[p] = 0
    BY <2>1, <1>6, <1>7, <1>8
  <2>2. CASE f[p] # 0
    BY <2>2, <1>5, <1>6, <1>7, <1>8, <1>9, <1>10
  <2> QED BY <2>1, <2>2
<1> QED BY <1>11

-----------------------------------------------------------------------------
\* Arithmetic modulo the width of the counter.

\* The remainder is unique.
LEMMA ModUnique ==
  ASSUME NEW w \in Nat \ {0}, NEW p \in Int, NEW q \in Int, NEW r \in 0..(w - 1),
         NEW s \in 0..(w - 1), w * p + r = w * q + s
  PROVE  r = s
<1>1. PICK d \in Int : d = p - q
  OBVIOUS
<1>2. w * d = w * p - w * q
  BY <1>1
<1>3. w * d = s - r
  BY <1>2
<1>4. d >= 1 => w * d >= w
  OBVIOUS
<1>5. d <= -1 => w * d <= -w
  OBVIOUS
<1>6. d = 0
  BY <1>3, <1>4, <1>5
<1> QED BY <1>3, <1>6

\* Reducing a summand first changes nothing.
LEMMA ModAdd ==
  ASSUME NEW w \in Nat \ {0}, NEW x \in Int, NEW y \in Int
  PROVE  ((x % w) + y) % w = (x + y) % w
<1>1. PICK p \in Int, r \in 0..(w - 1) : x = w * p + r /\ r = x % w
  <2>1. x = w * (x \div w) + (x % w) /\ x \div w \in Int /\ x % w \in 0..(w - 1)
    OBVIOUS
  <2> QED BY <2>1
<1>2. PICK z \in Int : z = r + y
  OBVIOUS
<1>3. PICK q \in Int, s \in 0..(w - 1) : z = w * q + s /\ s = z % w
  <2>1. z = w * (z \div w) + (z % w) /\ z \div w \in Int /\ z % w \in 0..(w - 1)
    OBVIOUS
  <2> QED BY <2>1
<1>4. PICK v \in Int : v = x + y
  OBVIOUS
<1>5. PICK u \in Int, t \in 0..(w - 1) : v = w * u + t /\ t = v % w
  <2>1. v = w * (v \div w) + (v % w) /\ v \div w \in Int /\ v % w \in 0..(w - 1)
    OBVIOUS
  <2> QED BY <2>1
<1>6. w * (p + q) = w * p + w * q
  OBVIOUS
<1>7. w * (p + q) + s = w * u + t
  BY <1>1, <1>2, <1>3, <1>4, <1>5, <1>6
<1>8. s = t
  BY <1>7, ModUnique
<1> QED BY <1>1, <1>2, <1>3, <1>4, <1>5, <1>8, Zenon

-----------------------------------------------------------------------------
\* The inductive invariant.

\* A shard holds keys that hash to it, once each, and those are the keys with a size.
Shelved ==
  /\ shards \in [1..SHARDS -> Seq(Key)]
  /\ size \in [Key -> Sizes \cup {0}]
  /\ \A i \in 1..SHARDS : /\ Len(shards[i]) <= Capacity
                          /\ IsInjective(shards[i])
                          /\ \A n \in DOMAIN shards[i] : ShardOf[shards[i][n]] = i
  /\ \A k \in Key : size[k] # 0 <=> k \in Range(shards[ShardOf[k]])

\* What a task is doing: only an insert that is adding its bytes has some to add, and a scan is at a shard.
JobRecord ==
  [pc : {"idle", "budget", "scan", "load", "add"}, shard : 0..SHARDS,
   evicted : BOOLEAN, pending : Sizes \cup {0}]

Jobs ==
  /\ job \in [Tasks -> JobRecord]
  /\ \A t \in Tasks : /\ job[t].pc # "add" => job[t].pending = 0
                      /\ job[t].pc = "scan" => job[t].shard # 0

Shape ==
  /\ Shelved
  /\ Jobs
  /\ total_bytes \in 0..(WORD - 1)
  /\ to_load \subseteq File
  /\ clear_at \in 0..(SHARDS + 1)

\* t will test the budget again, or is about to find something to evict.
Watches(t) ==
  \/ job[t].pc \in {"budget", "add", "load"}
  \/ job[t].pc = "scan" /\ (job[t].evicted \/ \E i \in job[t].shard..SHARDS : shards[i] # <<>>)

\* A counter that is right and over the budget is being looked after.
Watched == clear_at = 0 /\ Drift = 0 /\ OverBudget => \E t \in Tasks : Watches(t)

IInv == Shape /\ Watched

\* The invariant gives the types.
LEMMA ShapeTypes == Shape => TypeOK
<1> SUFFICES ASSUME Shape PROVE TypeOK
  OBVIOUS
<1>1. ASSUME NEW k \in Key, NEW i \in 1..SHARDS, k \in Range(shards[i])
      PROVE  k \in Range(shards[ShardOf[k]])
  BY <1>1 DEF Shape, Shelved, Range
<1>2. ShardOf \in [Key -> 1..SHARDS]
  BY CacheStoreAssumption
<1>3. \A k \in Key : size[k] # 0 <=> \E i \in 1..SHARDS : k \in Range(shards[i])
  BY <1>1, <1>2 DEF Shape, Shelved
<1> QED BY <1>3 DEF Shape, Shelved, Jobs, JobRecord, TypeOK

\* What moving a key to the front does to a shard.
LEMMA FrontSeq ==
  ASSUME NEW s \in Seq(Key), IsInjective(s), NEW k \in Key, NEW n \in 1..(Len(s) + 1),
         k \in Range(s) => n <= Len(s) /\ s[n] = k
  PROVE  /\ ToFront(s, n, k) \in Seq(Key)
         /\ Len(ToFront(s, n, k)) = IF n > Len(s) THEN n ELSE Len(s)
         /\ IsInjective(ToFront(s, n, k))
         /\ \A x : x \in Range(ToFront(s, n, k)) <=>
                     x = k \/ (x \in Range(s) /\ ~(n <= Len(s) /\ x = s[n]))
<1>1. PICK m \in Nat : m = IF n > Len(s) THEN n ELSE Len(s)
  OBVIOUS
<1>2. PICK r : r = ToFront(s, n, k)
  OBVIOUS
<1>3. r = [j \in 1..m |-> IF j = 1 THEN k ELSE IF j <= n THEN s[j - 1] ELSE s[j]]
  BY <1>1, <1>2 DEF ToFront
<1>4. \A j \in 1..m : r[j] \in Key
  BY <1>1, <1>3
<1>5. r \in Seq(Key) /\ Len(r) = m
  BY <1>3, <1>4
<1>6. \A i, j \in 1..Len(s) : s[i] = s[j] => i = j
  BY DEF IsInjective
<1>7. \A i \in 1..Len(s) : s[i] = k => i = n
  BY <1>6 DEF Range
<1>8. IsInjective(r)
  BY <1>1, <1>3, <1>6, <1>7 DEF IsInjective
<1>9. ASSUME NEW x \in Range(r)
      PROVE  x = k \/ (x \in Range(s) /\ ~(n <= Len(s) /\ x = s[n]))
  <2>1. PICK j \in 1..m : x = r[j]
    BY <1>3 DEF Range
  <2>2. CASE j = 1
    BY <2>1, <2>2, <1>3
  <2>3. CASE j # 1 /\ j <= n
    <3>1. j - 1 \in 1..Len(s) /\ x = s[j - 1] /\ j - 1 # n
      BY <2>1, <2>3, <1>1, <1>3
    <3> QED BY <3>1, <1>6 DEF Range
  <2>4. CASE j > n
    <3>1. j \in 1..Len(s) /\ x = s[j] /\ j # n
      BY <2>1, <2>4, <1>1, <1>3
    <3> QED BY <3>1, <1>6 DEF Range
  <2> QED BY <2>2, <2>3, <2>4
<1>10. k \in Range(r)
  BY <1>1, <1>3 DEF Range
<1>11. ASSUME NEW x \in Range(s), ~(n <= Len(s) /\ x = s[n])
       PROVE  x \in Range(r)
  <2>1. PICK j \in 1..Len(s) : x = s[j]
    BY DEF Range
  <2>2. CASE j < n
    <3>1. j + 1 \in 1..m /\ r[j + 1] = x
      BY <2>1, <2>2, <1>1, <1>3
    <3> QED BY <3>1, <1>3 DEF Range
  <2>3. CASE j > n
    <3>1. j \in 1..m /\ r[j] = x
      BY <2>1, <2>3, <1>1, <1>3
    <3> QED BY <3>1, <1>3 DEF Range
  <2> QED BY <2>1, <2>2, <2>3, <1>11
<1> QED BY <1>1, <1>2, <1>5, <1>8, <1>9, <1>10, <1>11

\* The place a key takes: its own, the last one, or a new one after it.
LEMMA SlotIs ==
  ASSUME Shape, NEW k \in Key, NEW lru, lru = shards[ShardOf[k]]
  PROVE  /\ ShardOf[k] \in 1..SHARDS /\ lru \in Seq(Key) /\ IsInjective(lru)
         /\ Slot(k) \in 1..(Len(lru) + 1)
         /\ k \in Range(lru) => Slot(k) <= Len(lru) /\ lru[Slot(k)] = k
         /\ size[k] = 0 => (IF Slot(k) > Len(lru) THEN Slot(k) ELSE Len(lru)) <= Capacity
<1>1. /\ ShardOf[k] \in 1..SHARDS
      /\ Capacity \in Nat \ {0}
  BY CacheStoreAssumption
<1>2. /\ lru \in Seq(Key) /\ IsInjective(lru) /\ Len(lru) <= Capacity /\ Len(lru) \in Nat
      /\ size[k] # 0 <=> k \in Range(lru)
  BY <1>1 DEF Shape, Shelved
<1>3. CASE size[k] # 0
  <2>1. \E n \in DOMAIN lru : lru[n] = k
    BY <1>2, <1>3 DEF Range
  <2>2. Slot(k) \in DOMAIN lru /\ lru[Slot(k)] = k
    <3>1. Slot(k) = CHOOSE n \in DOMAIN lru : lru[n] = k
      BY <1>3 DEF Slot
    <3> QED BY <2>1, <3>1
  <2> QED BY <1>1, <1>2, <1>3, <2>2
<1>4. CASE size[k] = 0
  <2>1. Slot(k) = IF Len(lru) = Capacity THEN Len(lru) ELSE Len(lru) + 1
    BY <1>4 DEF Slot
  <2> QED BY <1>1, <1>2, <1>4, <2>1
<1> QED BY <1>3, <1>4

\* What a push displaces: the entry at its place, if there is one.
LEMMA DisplacedIs ==
  ASSUME Shape, NEW k \in Key, NEW lru, lru = shards[ShardOf[k]]
  PROVE  /\ \A x : x \in Displaced(k) <=> Slot(k) <= Len(lru) /\ x = lru[Slot(k)]
         /\ \/ Displaced(k) = {} /\ size[k] = 0
            \/ Displaced(k) = {k}
            \/ \E d \in Key \ {k} : Displaced(k) = {d} /\ size[k] = 0
<1>1. /\ lru \in Seq(Key) /\ Slot(k) \in 1..(Len(lru) + 1) /\ ShardOf[k] \in 1..SHARDS
      /\ k \in Range(lru) => Slot(k) <= Len(lru) /\ lru[Slot(k)] = k
  BY SlotIs
<1>2. Displaced(k) = IF Slot(k) \in 1..Len(lru) THEN {lru[Slot(k)]} ELSE {}
  BY <1>1 DEF Displaced
<1>3. size[k] # 0 <=> k \in Range(lru)
  BY DEF Shape, Shelved
<1>4. Slot(k) \in 1..Len(lru) => lru[Slot(k)] \in Key
  BY <1>1
<1> QED BY <1>1, <1>2, <1>3, <1>4

\* Storing an entry keeps the shards in order.
LEMMA StoreShelves ==
  ASSUME Shape, NEW k \in Key, NEW s \in Sizes, Store(k, s)
  PROVE  Shelved'
<1>1. PICK i, lru, n : i = ShardOf[k] /\ lru = shards[i] /\ n = Slot(k)
  OBVIOUS
<1>2. /\ i \in 1..SHARDS /\ lru \in Seq(Key) /\ IsInjective(lru)
      /\ n \in 1..(Len(lru) + 1)
      /\ k \in Range(lru) => n <= Len(lru) /\ lru[n] = k
      /\ size[k] = 0 => (IF n > Len(lru) THEN n ELSE Len(lru)) <= Capacity
  BY <1>1, SlotIs
<1>3. \A x : x \in Displaced(k) <=> n <= Len(lru) /\ x = lru[n]
  BY <1>1, DisplacedIs
<1>4. PICK r : r = ToFront(lru, n, k)
  OBVIOUS
<1>5. /\ r \in Seq(Key) /\ IsInjective(r)
      /\ Len(r) = IF n > Len(lru) THEN n ELSE Len(lru)
      /\ \A x : x \in Range(r) <=> x = k \/ (x \in Range(lru) /\ ~(n <= Len(lru) /\ x = lru[n]))
  BY <1>2, <1>4, FrontSeq
<1>6. shards' = [shards EXCEPT ![i] = r]
  BY <1>1, <1>4 DEF Store
<1>7. size' = [x \in Key |-> IF x = k THEN s ELSE IF x \in Displaced(k) THEN 0 ELSE size[x]]
  BY DEF Store
<1>8. /\ shards \in [1..SHARDS -> Seq(Key)] /\ size \in [Key -> Sizes \cup {0}]
      /\ ShardOf \in [Key -> 1..SHARDS] /\ Sizes \subseteq Nat \ {0} /\ Capacity \in Nat
  BY CacheStoreAssumption DEF Shape, Shelved
<1>9. shards' \in [1..SHARDS -> Seq(Key)] /\ size' \in [Key -> Sizes \cup {0}]
  BY <1>5, <1>6, <1>7, <1>8, Zenon
<1>10. \A j \in 1..SHARDS : shards'[j] = IF j = i THEN r ELSE shards[j]
  BY <1>6, <1>8
<1>11. Len(r) <= Capacity
  <2>1. size[k] # 0 => n <= Len(lru)
    BY <1>1, <1>2 DEF Shape, Shelved
  <2>2. Len(lru) <= Capacity
    BY <1>1, <1>2 DEF Shape, Shelved
  <2> QED BY <1>2, <1>5, <2>1, <2>2
<1>12. \A x \in Range(lru) : ShardOf[x] = i
  BY <1>1, <1>2 DEF Shape, Shelved, Range
<1>13. \A m \in DOMAIN r : ShardOf[r[m]] = i
  <2>1. \A x \in Range(r) : ShardOf[x] = i
    BY <1>1, <1>5, <1>12
  <2> QED BY <2>1 DEF Range
<1>14. ASSUME NEW j \in 1..SHARDS
       PROVE  /\ Len(shards'[j]) <= Capacity /\ IsInjective(shards'[j])
              /\ \A m \in DOMAIN shards'[j] : ShardOf[shards'[j][m]] = j
  <2>1. CASE j = i
    BY <2>1, <1>5, <1>10, <1>11, <1>13
  <2>2. CASE j # i
    BY <2>2, <1>10 DEF Shape, Shelved
  <2> QED BY <2>1, <2>2
<1>15. ASSUME NEW x \in Key
       PROVE  size'[x] # 0 <=> x \in Range(shards'[ShardOf[x]])
  <2>1. size[x] # 0 <=> x \in Range(shards[ShardOf[x]])
    BY DEF Shape, Shelved
  <2>2. CASE ShardOf[x] = i
    <3>1. size'[x] # 0 <=> x = k \/ (x \in Range(lru) /\ ~(n <= Len(lru) /\ x = lru[n]))
      BY <1>1, <1>3, <1>7, <1>8, <2>1, <2>2
    <3> QED BY <3>1, <1>5, <1>10, <1>8, <2>2
  <2>3. CASE ShardOf[x] # i
    <3>1. x # k /\ x \notin Displaced(k)
      <4>1. n <= Len(lru) => lru[n] \in Range(lru)
        BY <1>2 DEF Range
      <4> QED BY <1>1, <1>3, <1>12, <4>1, <2>3
    <3> QED BY <3>1, <1>7, <1>8, <1>10, <2>1, <2>3
  <2> QED BY <2>2, <2>3
<1> QED BY <1>9, <1>14, <1>15 DEF Shelved

\* So does a lookup, which moves an entry to the front of its shard.
LEMMA TouchShelves ==
  ASSUME Shape, NEW k \in Key, Touch(k)
  PROVE  /\ Shelved'
         /\ \A i \in 1..SHARDS : shards'[i] = <<>> <=> shards[i] = <<>>
<1>1. PICK i, lru, n : i = ShardOf[k] /\ lru = shards[i] /\ n = Slot(k)
  OBVIOUS
<1>2. /\ i \in 1..SHARDS /\ lru \in Seq(Key) /\ IsInjective(lru)
      /\ n \in 1..(Len(lru) + 1)
      /\ k \in Range(lru) => n <= Len(lru) /\ lru[n] = k
  BY <1>1, SlotIs
<1>3. k \in Range(lru)
  BY <1>1 DEF Touch, Shape, Shelved
<1>4. PICK r : r = ToFront(lru, n, k)
  OBVIOUS
<1>5. /\ r \in Seq(Key) /\ IsInjective(r) /\ Len(r) = Len(lru)
      /\ \A x : x \in Range(r) <=> x \in Range(lru)
  BY <1>2, <1>3, <1>4, FrontSeq
<1>6. shards' = [shards EXCEPT ![i] = r] /\ size' = size
  BY <1>1, <1>4 DEF Touch
<1>7. /\ shards \in [1..SHARDS -> Seq(Key)] /\ size \in [Key -> Sizes \cup {0}]
      /\ ShardOf \in [Key -> 1..SHARDS]
  BY CacheStoreAssumption DEF Shape, Shelved
<1>8. shards' \in [1..SHARDS -> Seq(Key)]
  BY <1>5, <1>6, <1>7, Zenon
<1>9. \A j \in 1..SHARDS : shards'[j] = IF j = i THEN r ELSE shards[j]
  BY <1>6, <1>7
<1>10. \A m \in DOMAIN r : ShardOf[r[m]] = i
  <2>1. \A x \in Range(lru) : ShardOf[x] = i
    BY <1>1, <1>2 DEF Shape, Shelved, Range
  <2> QED BY <2>1, <1>5, Zenon DEF Range
<1>11. ASSUME NEW j \in 1..SHARDS
       PROVE  /\ Len(shards'[j]) <= Capacity /\ IsInjective(shards'[j])
              /\ \A m \in DOMAIN shards'[j] : ShardOf[shards'[j][m]] = j
              /\ shards'[j] = <<>> <=> shards[j] = <<>>
  <2>1. CASE j = i
    <3>1. Len(lru) <= Capacity
      BY <1>1, <1>2 DEF Shape, Shelved
    <3>2. r = <<>> <=> lru = <<>>
      BY <1>2, <1>5
    <3> QED BY <2>1, <3>1, <3>2, <1>1, <1>5, <1>9, <1>10
  <2>2. CASE j # i
    BY <2>2, <1>9 DEF Shape, Shelved
  <2> QED BY <2>1, <2>2
<1>12. ASSUME NEW x \in Key
       PROVE  size'[x] # 0 <=> x \in Range(shards'[ShardOf[x]])
  BY <1>1, <1>5, <1>6, <1>7, <1>9 DEF Shape, Shelved
<1> QED BY <1>6, <1>7, <1>8, <1>11, <1>12 DEF Shelved

\* So does the eviction of the last entry of shard i.
LEMMA EvictShelves ==
  ASSUME Shape, NEW i \in 1..SHARDS, NEW n, n = Len(shards[i]), n # 0,
         NEW r, r = SubSeq(shards[i], 1, n - 1), NEW d, d = shards[i][n],
         shards' = [shards EXCEPT ![i] = r], size' = [size EXCEPT ![d] = 0]
  PROVE  Shelved' /\ d \in Key
<1>1. PICK lru : lru = shards[i]
  OBVIOUS
<1>2. /\ shards \in [1..SHARDS -> Seq(Key)] /\ size \in [Key -> Sizes \cup {0}]
      /\ ShardOf \in [Key -> 1..SHARDS] /\ Capacity \in Nat
  BY CacheStoreAssumption, Zenon DEF Shape, Shelved
<1>3. lru \in Seq(Key) /\ n \in 1..Len(lru) /\ n = Len(lru) /\ d \in Key /\ d = lru[n]
  <2>1. lru \in Seq(Key)
    BY <1>1, <1>2, Zenon
  <2>2. n \in Nat /\ n = Len(lru)
    BY <1>1, <2>1
  <2>3. d = lru[n] /\ n \in 1..Len(lru)
    BY <1>1, <2>2
  <2> QED BY <2>1, <2>2, <2>3
<1>4. r = SubSeq(lru, 1, n - 1)
  BY <1>1
<1>5. r \in Seq(Key) /\ Len(r) = n - 1 /\ \A m \in 1..(n - 1) : r[m] = lru[m]
  BY <1>3, <1>4
<1>6. \A j \in 1..SHARDS : shards'[j] = IF j = i THEN r ELSE shards[j]
  BY <1>1, <1>2, <1>4
<1>7. shards' \in [1..SHARDS -> Seq(Key)] /\ size' \in [Key -> Sizes \cup {0}]
  BY <1>2, <1>3, <1>5
<1>8. /\ Len(lru) <= Capacity
      /\ \A a, b \in 1..n : lru[a] = lru[b] => a = b
      /\ \A m \in 1..n : ShardOf[lru[m]] = i
  <2>1. DOMAIN lru = 1..n
    BY <1>3
  <2> QED BY <1>1, <2>1, Zenon DEF Shape, Shelved, IsInjective
<1>9. ASSUME NEW j \in 1..SHARDS
      PROVE  /\ Len(shards'[j]) <= Capacity /\ IsInjective(shards'[j])
             /\ \A m \in DOMAIN shards'[j] : ShardOf[shards'[j][m]] = j
  <2>1. CASE j = i
    <3>1. Len(r) <= Capacity
      BY <1>2, <1>3, <1>5, <1>8
    <3>2. IsInjective(r)
      BY <1>3, <1>5, <1>8 DEF IsInjective
    <3>3. \A m \in DOMAIN r : ShardOf[r[m]] = i
      BY <1>3, <1>5, <1>8
    <3> QED BY <2>1, <3>1, <3>2, <3>3, <1>6, Zenon
  <2>2. CASE j # i
    BY <2>2, <1>6 DEF Shape, Shelved
  <2> QED BY <2>1, <2>2
<1>10. \A x : x \in Range(r) <=> x \in Range(lru) /\ x # d
  <2>1. Range(r) = {r[m] : m \in 1..(n - 1)} /\ Range(lru) = {lru[m] : m \in 1..n}
    <3>1. DOMAIN r = 1..(n - 1) /\ DOMAIN lru = 1..n
      BY <1>3, <1>5
    <3> QED BY <3>1, Zenon DEF Range
  <2>2. ASSUME NEW x \in Range(r) PROVE x \in Range(lru) /\ x # d
    <3>1. PICK m \in 1..(n - 1) : x = r[m]
      BY <2>1
    <3>2. m \in 1..n /\ m # n /\ x = lru[m]
      BY <3>1, <1>3, <1>5
    <3> QED BY <3>2, <2>1, <1>3, <1>8
  <2>3. ASSUME NEW x \in Range(lru), x # d PROVE x \in Range(r)
    <3>1. PICK m \in 1..n : x = lru[m]
      BY <2>1
    <3>2. m \in 1..(n - 1) /\ x = r[m]
      BY <3>1, <2>3, <1>3, <1>5
    <3> QED BY <3>2, <2>1
  <2> QED BY <2>2, <2>3
<1>11. \A x \in Key : size'[x] = IF x = d THEN 0 ELSE size[x]
  BY <1>1, <1>2
<1>12. ShardOf[d] = i
  BY <1>3, <1>8
<1>13. ASSUME NEW x \in Key
       PROVE  size'[x] # 0 <=> x \in Range(shards'[ShardOf[x]])
  <2>1. size[x] # 0 <=> x \in Range(shards[ShardOf[x]])
    BY DEF Shape, Shelved
  <2> QED BY <2>1, <1>1, <1>2, <1>6, <1>10, <1>11, <1>12
<1> QED BY <1>1, <1>3, <1>7, <1>9, <1>13, Zenon DEF Shelved

\* So does emptying a shard.
LEMMA ClearShelves ==
  ASSUME Shape, ClearShard
  PROVE  Shelved' /\ clear_at' \in 0..(SHARDS + 1)
<1>1. PICK i : i = IF clear_at = 0 THEN 1 ELSE clear_at
  OBVIOUS
<1>2. SHARDS \in Nat \ {0} /\ ShardOf \in [Key -> 1..SHARDS] /\ Capacity \in Nat
  BY CacheStoreAssumption
<1>3. /\ shards \in [1..SHARDS -> Seq(Key)] /\ size \in [Key -> Sizes \cup {0}]
      /\ clear_at \in 0..(SHARDS + 1)
  BY DEF Shape, Shelved
<1>4. i \in 1..SHARDS /\ clear_at' = i + 1
  BY <1>1, <1>2, <1>3 DEF ClearShard
<1>5. /\ shards' = [shards EXCEPT ![i] = <<>>]
      /\ size' = [k \in Key |-> IF ShardOf[k] = i THEN 0 ELSE size[k]]
  BY <1>1 DEF ClearShard
<1>6. shards' \in [1..SHARDS -> Seq(Key)] /\ size' \in [Key -> Sizes \cup {0}]
  <2>1. << >> \in Seq(Key)
    OBVIOUS
  <2> QED BY <2>1, <1>3, <1>5, Zenon
<1>7. \A j \in 1..SHARDS : shards'[j] = IF j = i THEN <<>> ELSE shards[j]
  BY <1>3, <1>5
<1>8. ASSUME NEW j \in 1..SHARDS
      PROVE  /\ Len(shards'[j]) <= Capacity /\ IsInjective(shards'[j])
             /\ \A m \in DOMAIN shards'[j] : ShardOf[shards'[j][m]] = j
  <2>1. CASE j = i
    BY <2>1, <1>2, <1>7 DEF IsInjective
  <2>2. CASE j # i
    BY <2>2, <1>7 DEF Shape, Shelved
  <2> QED BY <2>1, <2>2
<1>9. ASSUME NEW x \in Key
      PROVE  size'[x] # 0 <=> x \in Range(shards'[ShardOf[x]])
  <2>1. size[x] # 0 <=> x \in Range(shards[ShardOf[x]])
    BY DEF Shape, Shelved
  <2>2. x \notin Range(<< >>)
    BY DEF Range
  <2> QED BY <2>1, <2>2, <1>2, <1>5, <1>7
<1>10. clear_at' \in 0..(SHARDS + 1)
  BY <1>2, <1>4
<1> QED BY <1>6, <1>8, <1>9, <1>10 DEF Shelved

-----------------------------------------------------------------------------
\* The bytes.

\* The sums are over finite sets of natural numbers.
LEMMA Summable ==
  ASSUME Shape
  PROVE  /\ IsFiniteSet(Key) /\ IsFiniteSet(Tasks)
         /\ \A k \in Key : size[k] \in Nat
         /\ \A t \in Tasks : job[t].pending \in Nat
         /\ Stored \in Int /\ Pending \in Int
<1>1. IsFiniteSet(Key) /\ IsFiniteSet(Tasks)
  BY StoreIsFinite, FS_AddElement DEF Tasks
<1>2. \A s \in Sizes \cup {0} : s \in Nat
  BY CacheStoreAssumption
<1>3. \A k \in Key : size[k] \in Nat
  <2>1. \A k \in Key : size[k] \in Sizes \cup {0}
    BY DEF Shape, Shelved
  <2> QED BY <1>2, <2>1, Zenon
<1>4. \A t \in Tasks : job[t].pending \in Nat
  <2>1. \A t \in Tasks : job[t].pending \in Sizes \cup {0}
    BY DEF Shape, Jobs, JobRecord
  <2> QED BY <1>2, <2>1, Zenon
<1>5. Stored \in Int
  BY <1>1, <1>3, SumRemove DEF Stored
<1>6. Pending \in Int
  <2>1. PICK p : p = [t \in Tasks |-> job[t].pending]
    BY Zenon
  <2>2. \A t \in Tasks : p[t] \in Int
    BY <2>1, <1>4
  <2>3. SumFunctionOnSet(p, Tasks) \in Int
    BY <2>2, <1>1, SumRemove
  <2> QED BY <2>1, <2>3 DEF Pending
<1> QED BY <1>1, <1>3, <1>4, <1>5, <1>6

\* Storing an entry changes the bytes stored by its size, less what it displaced.
LEMMA StoreBytes ==
  ASSUME Shape, NEW k \in Key, NEW s \in Sizes, Store(k, s)
  PROVE  BytesOf(Displaced(k)) \in Int /\ Stored' = Stored + s - BytesOf(Displaced(k))
<1>1. /\ IsFiniteSet(Key) /\ \A x \in Key : size[x] \in Int
      /\ Stored \in Int
  BY Summable
<1>2. PICK new : new = size'
  OBVIOUS
<1>3. new = [x \in Key |-> IF x = k THEN s ELSE IF x \in Displaced(k) THEN 0 ELSE size[x]]
  BY <1>2 DEF Store
<1>4. s \in Int /\ \A x \in Key : new[x] \in Int
  BY <1>1, <1>3, CacheStoreAssumption
<1>5. Stored' = SumFunctionOnSet(new, Key)
  BY <1>2 DEF Stored
<1>6. CASE Displaced(k) = {} /\ size[k] = 0
  <2>1. SumFunctionOnSet(new, Key) = Stored - size[k] + new[k]
    BY <1>1, <1>3, <1>4, <1>6, SumChange DEF Stored
  <2>2. BytesOf(Displaced(k)) = 0
    BY <1>6, SumEmpty DEF BytesOf
  <2> QED BY <2>1, <2>2, <1>1, <1>3, <1>4, <1>5, <1>6
<1>7. CASE Displaced(k) = {k}
  <2>1. SumFunctionOnSet(new, Key) = Stored - size[k] + new[k]
    BY <1>1, <1>3, <1>4, <1>7, SumChange DEF Stored
  <2>2. BytesOf(Displaced(k)) = size[k]
    BY <1>1, <1>7, SumSingle DEF BytesOf
  <2> QED BY <2>1, <2>2, <1>1, <1>3, <1>4, <1>5
<1>8. ASSUME NEW d \in Key \ {k}, Displaced(k) = {d}, size[k] = 0
      PROVE  BytesOf(Displaced(k)) \in Int /\ Stored' = Stored + s - BytesOf(Displaced(k))
  <2>1. PICK mid : mid = [x \in Key |-> IF x = d THEN 0 ELSE size[x]]
    BY Zenon
  <2>2. \A x \in Key : mid[x] \in Int
    BY <2>1, <1>1
  <2>3. SumFunctionOnSet(mid, Key) = Stored - size[d] + mid[d]
    BY <1>1, <2>1, <2>2, SumChange DEF Stored
  <2>4. SumFunctionOnSet(new, Key) = SumFunctionOnSet(mid, Key) - mid[k] + new[k]
    <3>1. \A x \in Key : x # k => mid[x] = new[x]
      BY <2>1, <1>3, <1>8
    <3> QED BY <3>1, <1>1, <1>4, <2>2, SumChange
  <2>5. BytesOf(Displaced(k)) = size[d]
    BY <1>1, <1>8, SumSingle DEF BytesOf
  <2>6. mid[k] = 0 /\ mid[d] = 0 /\ new[k] = s
    BY <2>1, <1>3, <1>8
  <2> QED BY <2>3, <2>4, <2>5, <2>6, <1>1, <1>4, <1>5
<1> QED BY <1>6, <1>7, <1>8, DisplacedIs

\* The record of a task that changes.
LEMMA JobChange ==
  ASSUME Shape, NEW t \in Tasks,
         NEW r \in JobRecord,
         r.pc # "add" => r.pending = 0, r.pc = "scan" => r.shard # 0,
         job' = [job EXCEPT ![t] = r]
  PROVE  /\ Jobs'
         /\ Pending' = Pending - job[t].pending + r.pending
         /\ job[t].pending \in Int /\ r.pending \in Int
         /\ job'[t] = r /\ \A u \in Tasks : u # t => job'[u] = job[u]
<1> USE DEF JobRecord
<1>1. /\ IsFiniteSet(Tasks) /\ \A u \in Tasks : job[u].pending \in Int
  BY Summable
<1>2. Jobs' /\ job'[t] = r /\ \A u \in Tasks : u # t => job'[u] = job[u]
  BY DEF Shape, Jobs, JobRecord
<1>3. r.pending \in Int
  <2>1. \A s \in Sizes \cup {0} : s \in Int
    BY CacheStoreAssumption
  <2>2. r.pending \in Sizes \cup {0}
    OBVIOUS
  <2> QED BY <2>1, <2>2, Zenon
<1>4. PICK p, q : p = [u \in Tasks |-> job[u].pending] /\ q = [u \in Tasks |-> job'[u].pending]
  BY Zenon
<1>5. /\ \A u \in Tasks : p[u] \in Int /\ q[u] \in Int
      /\ \A u \in Tasks : u # t => p[u] = q[u]
      /\ p[t] = job[t].pending /\ q[t] = r.pending
  BY <1>1, <1>2, <1>3, <1>4
<1>6. SumFunctionOnSet(q, Tasks) = SumFunctionOnSet(p, Tasks) - p[t] + q[t]
  BY <1>1, <1>5, SumChange
<1>7. Pending = SumFunctionOnSet(p, Tasks)
  BY <1>4 DEF Pending
<1>8. Pending' = SumFunctionOnSet(q, Tasks)
  BY <1>4 DEF Pending
<1> QED BY <1>1, <1>2, <1>3, <1>5, <1>6, <1>7, <1>8

\* The records the steps assign.
LEMMA Records ==
  /\ Idle \in JobRecord /\ Idle.pc = "idle" /\ Idle.pending = 0
  /\ \A p \in {"idle", "budget", "load"} :
       At(p) \in JobRecord /\ At(p).pc = p /\ At(p).pending = 0
  /\ \A i \in 0..SHARDS, s \in Sizes :
       Adding(i, s) \in JobRecord /\ Adding(i, s).pc = "add" /\ Adding(i, s).pending = s
  /\ \A i \in 1..SHARDS, e \in BOOLEAN :
       /\ Scanning(i, e) \in JobRecord /\ Scanning(i, e).pc = "scan"
       /\ Scanning(i, e).pending = 0 /\ Scanning(i, e).shard = i /\ Scanning(i, e).evicted = e
<1>1. 0 \in 0..SHARDS /\ 0 \in Sizes \cup {0} /\ 1..SHARDS \subseteq 0..SHARDS
  BY CacheStoreAssumption
<1>2. Idle \in JobRecord /\ Idle.pc = "idle" /\ Idle.pending = 0
  BY <1>1 DEF JobRecord, Idle
<1>3. ASSUME NEW p \in {"idle", "budget", "load"}
      PROVE  At(p) \in JobRecord /\ At(p).pc = p /\ At(p).pending = 0
  BY <1>1, Zenon DEF JobRecord, Idle, At
<1>4. ASSUME NEW i \in 0..SHARDS, NEW s \in Sizes
      PROVE  Adding(i, s) \in JobRecord /\ Adding(i, s).pc = "add" /\ Adding(i, s).pending = s
  BY <1>1, Zenon DEF JobRecord, Idle, Adding
<1>5. ASSUME NEW i \in 1..SHARDS, NEW e \in BOOLEAN
      PROVE  /\ Scanning(i, e) \in JobRecord /\ Scanning(i, e).pc = "scan"
             /\ Scanning(i, e).pending = 0 /\ Scanning(i, e).shard = i
             /\ Scanning(i, e).evicted = e
  BY <1>1, Zenon DEF JobRecord, Idle, Scanning
<1> QED BY <1>2, <1>3, <1>4, <1>5

\* Adding to the counter what the shards and the tasks change keeps the drift.
LEMMA DriftKept ==
  ASSUME Shape, NEW d \in Int, add_bytes(d), Stored' \in Int, Pending' \in Int,
         Stored' - Pending' = Stored - Pending + d
  PROVE  Drift' = Drift /\ total_bytes' \in 0..(WORD - 1)
<1>1. PICK x, y, p, q : x = Stored - Pending /\ y = Stored' - Pending' /\ p = total_bytes
                        /\ q = total_bytes'
  OBVIOUS
<1>2. WORD \in Nat \ {0}
  BY CacheStoreAssumption
<1>3. x \in Int /\ y \in Int /\ y = x + d /\ p \in Int
  BY <1>1, <1>2, Summable DEF Shape
<1>4. q = (p + d) % WORD
  BY <1>1 DEF add_bytes
<1>5. (((p + d) % WORD) + (-y)) % WORD = ((p + d) + (-y)) % WORD
  <2>1. PICK m \in Int, n \in Int : m = p + d /\ n = -y
    BY <1>3
  <2>2. ((m % WORD) + n) % WORD = (m + n) % WORD
    BY <1>2, ModAdd, Zenon
  <2> QED BY <2>1, <2>2
<1>6. (q - y) % WORD = (p - x) % WORD
  <2>1. ((p + d) % WORD) \in Int
    BY <1>2, <1>3
  <2>2. q - y = ((p + d) % WORD) + (-y)
    BY <1>3, <1>4, <2>1
  <2>3. (p + d) + (-y) = p - x
    BY <1>3
  <2> QED BY <1>5, <2>2, <2>3
<1>7. Drift = (p - x) % WORD
  BY <1>1 DEF Drift
<1>8. Drift' = (q - y) % WORD
  BY <1>1 DEF Drift
<1>9. q \in 0..(WORD - 1)
  BY <1>2, <1>3, <1>4
<1> QED BY <1>1, <1>6, <1>7, <1>8, <1>9

-----------------------------------------------------------------------------
\* The steps.

\* A step that moves a task to the test of the budget, or on the way to it.
LEMMA StaysWatched ==
  ASSUME NEW t \in Tasks, NEW r, job'[t] = r, r.pc \in {"budget", "add", "load"}
  PROVE  Watched'
<1>1. job'[t].pc \in {"budget", "add", "load"}
  OBVIOUS
<1>2. Watches(t)'
  BY <1>1 DEF Watches
<1> QED BY <1>2 DEF Watched

\* An insert that displaces no other entry.
LEMMA InsertStep ==
  ASSUME IInv, NEW t \in Task, NEW k \in Key, NEW s \in Sizes, Insert(t, k, s)
  PROVE  IInv' /\ Drift' = Drift
<1>1. Shape /\ t \in Tasks /\ job[t].pc = "idle" /\ s \in Int
  BY CacheStoreAssumption DEF IInv, Tasks, Insert
<1>2. Shelved'
  BY <1>1, StoreShelves DEF Insert
<1>3. PICK r : r = At("budget")
  OBVIOUS
<1>4. r \in JobRecord /\ r.pc = "budget" /\ r.pending = 0
  BY <1>3, Records
<1>5. job' = [job EXCEPT ![t] = r]
  BY <1>3 DEF Insert
<1>6. /\ Jobs' /\ job'[t] = r /\ Pending' = Pending - job[t].pending + r.pending
  BY <1>1, <1>4, <1>5, JobChange, Zenon
<1>7. job[t].pending = 0
  BY <1>1 DEF Shape, Jobs
<1>8. PICK d : d = BytesOf(Displaced(k))
  OBVIOUS
<1>9. d \in Int /\ Stored' = Stored + s - d
  BY <1>1, <1>8, StoreBytes DEF Insert
<1>10. Stored \in Int /\ Pending \in Int
  BY <1>1, Summable
<1>11. /\ s - d \in Int /\ Stored' \in Int /\ Pending' \in Int
       /\ Stored' - Pending' = Stored - Pending + (s - d)
  BY <1>1, <1>4, <1>6, <1>7, <1>9, <1>10
<1>12. add_bytes(s - d)
  BY <1>8 DEF Insert
<1>13. Drift' = Drift /\ total_bytes' \in 0..(WORD - 1)
  BY <1>1, <1>11, <1>12, DriftKept
<1>14. Watched'
  BY <1>1, <1>4, <1>6, StaysWatched
<1>15. Shape'
  BY <1>1, <1>2, <1>6, <1>13 DEF Shape, Insert
<1> QED BY <1>13, <1>14, <1>15 DEF IInv

\* An insert that displaces the last entry of a full shard.
LEMMA InsertDisplacingStep ==
  ASSUME IInv, NEW t \in Task, NEW k \in Key, NEW s \in Sizes, InsertDisplacing(t, k, s)
  PROVE  IInv' /\ Drift' = Drift
<1>1. Shape /\ t \in Tasks /\ job[t].pc = "idle" /\ s \in Int /\ ShardOf[k] \in 0..SHARDS
  BY CacheStoreAssumption DEF IInv, Tasks, InsertDisplacing
<1>2. Shelved'
  BY <1>1, StoreShelves DEF InsertDisplacing
<1>3. PICK r : r = Adding(ShardOf[k], s)
  OBVIOUS
<1>4. r \in JobRecord /\ r.pc = "add" /\ r.pending = s
  BY <1>1, <1>3, Records
<1>5. job' = [job EXCEPT ![t] = r]
  BY <1>3 DEF InsertDisplacing
<1>6. /\ Jobs' /\ job'[t] = r /\ Pending' = Pending - job[t].pending + r.pending
  BY <1>1, <1>4, <1>5, JobChange, Zenon
<1>7. job[t].pending = 0
  BY <1>1 DEF Shape, Jobs
<1>8. PICK d : d = BytesOf(Displaced(k))
  OBVIOUS
<1>9. d \in Int /\ Stored' = Stored + s - d
  BY <1>1, <1>8, StoreBytes DEF InsertDisplacing
<1>10. Stored \in Int /\ Pending \in Int
  BY <1>1, Summable
<1>11. /\ -d \in Int /\ Stored' \in Int /\ Pending' \in Int
       /\ Stored' - Pending' = Stored - Pending + (-d)
  BY <1>1, <1>4, <1>6, <1>7, <1>9, <1>10
<1>12. add_bytes(-d)
  BY <1>8 DEF InsertDisplacing
<1>13. Drift' = Drift /\ total_bytes' \in 0..(WORD - 1)
  BY <1>1, <1>11, <1>12, DriftKept
<1>14. Watched'
  BY <1>1, <1>4, <1>6, StaysWatched
<1>15. Shape'
  BY <1>1, <1>2, <1>6, <1>13 DEF Shape, InsertDisplacing
<1> QED BY <1>13, <1>14, <1>15 DEF IInv

\* The loader stores an entry.
LEMMA LoadPushStep ==
  ASSUME IInv, NEW k \in Key, NEW s \in Sizes, LoadPush(k, s)
  PROVE  IInv' /\ Drift' = Drift
<1>1. Shape /\ Loader \in Tasks /\ job[Loader].pc = "load" /\ s \in Int /\ 0 \in 0..SHARDS
  BY CacheStoreAssumption DEF IInv, Tasks, LoadPush
<1>2. Shelved'
  BY <1>1, StoreShelves DEF LoadPush
<1>3. PICK r : r = Adding(0, s)
  OBVIOUS
<1>4. r \in JobRecord /\ r.pc = "add" /\ r.pending = s
  BY <1>1, <1>3, Records
<1>5. job' = [job EXCEPT ![Loader] = r]
  BY <1>3 DEF LoadPush
<1>6. /\ Jobs' /\ job'[Loader] = r
      /\ Pending' = Pending - job[Loader].pending + r.pending
  BY <1>1, <1>4, <1>5, JobChange, Zenon
<1>7. job[Loader].pending = 0
  BY <1>1 DEF Shape, Jobs
<1>8. PICK d : d = BytesOf(Displaced(k))
  OBVIOUS
<1>9. d \in Int /\ Stored' = Stored + s - d
  BY <1>1, <1>8, StoreBytes DEF LoadPush
<1>10. Stored \in Int /\ Pending \in Int
  BY <1>1, Summable
<1>11. /\ -d \in Int /\ Stored' \in Int /\ Pending' \in Int
       /\ Stored' - Pending' = Stored - Pending + (-d)
  BY <1>1, <1>4, <1>6, <1>7, <1>9, <1>10
<1>12. add_bytes(-d)
  BY <1>8 DEF LoadPush
<1>13. Drift' = Drift /\ total_bytes' \in 0..(WORD - 1)
  BY <1>1, <1>11, <1>12, DriftKept
<1>14. Watched'
  BY <1>1, <1>4, <1>6, StaysWatched
<1>15. Shape'
  BY <1>1, <1>2, <1>6, <1>13 DEF Shape, LoadPush
<1> QED BY <1>13, <1>14, <1>15 DEF IInv

\* The bytes of an entry that is stored are added, by an insert or by the loader.
LEMMA AddStep ==
  ASSUME IInv, NEW t \in Tasks, job[t].pc = "add", add_bytes(job[t].pending),
         NEW p \in {"budget", "load"}, job' = [job EXCEPT ![t] = At(p)],
         UNCHANGED <<shards, size, to_load, clear_at>>
  PROVE  IInv' /\ Drift' = Drift
<1>1. Shape
  BY DEF IInv
<1>2. Shelved'
  BY <1>1 DEF Shape, Shelved
<1>3. PICK r : r = At(p)
  OBVIOUS
<1>4. r \in JobRecord /\ r.pc = p /\ r.pending = 0
  BY <1>3, Records
<1>5. job' = [job EXCEPT ![t] = r]
  BY <1>3
<1>6. /\ Jobs' /\ job'[t] = r /\ Pending' = Pending - job[t].pending + r.pending
      /\ job[t].pending \in Int
  BY <1>1, <1>4, <1>5, JobChange, Zenon
<1>7. Stored' = Stored
  BY DEF Stored
<1>8. Stored \in Int /\ Pending \in Int
  BY <1>1, Summable
<1>9. /\ Stored' \in Int /\ Pending' \in Int
      /\ Stored' - Pending' = Stored - Pending + job[t].pending
  BY <1>4, <1>6, <1>7, <1>8
<1>10. Drift' = Drift /\ total_bytes' \in 0..(WORD - 1)
  BY <1>1, <1>6, <1>9, DriftKept
<1>11. Watched'
  BY <1>4, <1>6, StaysWatched
<1>12. Shape'
  BY <1>1, <1>2, <1>6, <1>10 DEF Shape
<1> QED BY <1>10, <1>11, <1>12 DEF IInv

\* Nothing adds up to nothing.
LEMMA SumZero ==
  ASSUME NEW f, NEW S, IsFiniteSet(S), \A y \in S : f[y] = 0
  PROVE  SumFunctionOnSet(f, S) = 0
<1>1. PICK c : c = Cardinality({y \in S : f[y] # 0})
  OBVIOUS
<1>2. SumFunctionOnSet(f, S) \in Nat /\ c \in Nat /\ SumFunctionOnSet(f, S) <= c * 0
  <2>1. 0 \in Nat /\ \A y \in S : f[y] \in 0..0
    OBVIOUS
  <2> QED BY <1>1, <2>1, SumBound
<1> QED BY <1>2

\* When no task has bytes to add, none are pending.
LEMMA NonePending ==
  ASSUME Shape, \A t \in Tasks : job[t].pc # "add"
  PROVE  Pending = 0
<1>1. PICK p : p = [t \in Tasks |-> job[t].pending]
  BY Zenon
<1>2. \A t \in Tasks : p[t] = 0
  BY <1>1 DEF Shape, Jobs
<1>3. IsFiniteSet(Tasks)
  BY Summable
<1>4. SumFunctionOnSet(p, Tasks) = 0
  BY <1>2, <1>3, SumZero
<1> QED BY <1>1, <1>4 DEF Pending

\* A right counter that is not zero counts what some shard holds.
LEMMA SomethingStored ==
  ASSUME Shape, Drift = 0, OverBudget, \A t \in Tasks : job[t].pc # "add"
  PROVE  \E i \in 1..SHARDS : shards[i] # <<>>
<1>1. Pending = 0
  BY NonePending
<1>2. /\ WORD \in Nat \ {0} /\ MAX_BYTES \in Nat /\ ShardOf \in [Key -> 1..SHARDS]
      /\ total_bytes \in 0..(WORD - 1) /\ total_bytes > MAX_BYTES
  BY CacheStoreAssumption DEF Shape, OverBudget
<1>3. Stored # 0
  <2> SUFFICES ASSUME Stored = 0 PROVE FALSE
    OBVIOUS
  <2>1. total_bytes % WORD = 0
    BY <1>1, <1>2 DEF Drift
  <2>2. total_bytes % WORD = total_bytes
    BY <1>2
  <2> QED BY <2>1, <2>2, <1>2
<1>4. PICK k \in Key : size[k] # 0
  <2>1. IsFiniteSet(Key)
    BY Summable
  <2> QED BY <1>3, <2>1, SumZero DEF Stored
<1>5. k \in Range(shards[ShardOf[k]])
  BY <1>4 DEF Shape, Shelved
<1>6. shards[ShardOf[k]] # <<>>
  BY <1>5 DEF Range
<1> QED BY <1>2, <1>6

\* A lookup.
LEMMA TouchStep ==
  ASSUME IInv, NEW k \in Key, Touch(k)
  PROVE  IInv' /\ Drift' = Drift
<1>1. Shape /\ Watched
  BY DEF IInv
<1>2. Shelved' /\ \A i \in 1..SHARDS : shards'[i] = <<>> <=> shards[i] = <<>>
  BY <1>1, TouchShelves
<1>3. /\ size' = size /\ total_bytes' = total_bytes /\ job' = job
      /\ to_load' = to_load /\ clear_at' = clear_at
  BY DEF Touch
<1>4. Shape'
  BY <1>1, <1>2, <1>3 DEF Shape, Jobs
<1>5. Drift' = Drift
  BY <1>3 DEF Drift, Stored, Pending
<1>6. ASSUME NEW t \in Tasks, Watches(t) PROVE Watches(t)'
  <2>1. job[t].pc = "scan" => job[t].shard..SHARDS \subseteq 1..SHARDS
    BY <1>1, CacheStoreAssumption DEF Shape, Jobs, JobRecord
  <2> QED BY <1>2, <1>3, <1>6, <2>1 DEF Watches
<1>7. Watched'
  BY <1>1, <1>3, <1>5, <1>6 DEF Watched, OverBudget
<1> QED BY <1>4, <1>5, <1>7 DEF IInv

\* The test of the loop of `enforce_memory_budget`.
LEMMA CheckBudgetStep ==
  ASSUME IInv, NEW t \in Tasks, CheckBudget(t)
  PROVE  IInv' /\ Drift' = Drift
<1>1. Shape /\ job[t].pc = "budget"
  BY DEF IInv, CheckBudget
<1>2. /\ shards' = shards /\ size' = size /\ total_bytes' = total_bytes
      /\ to_load' = to_load /\ clear_at' = clear_at
  BY DEF CheckBudget
<1>3. PICK r : r = IF OverBudget THEN Scanning(1, FALSE) ELSE Idle
  BY Zenon
<1>4. 1 \in 1..SHARDS
  BY CacheStoreAssumption
<1>5. /\ r \in JobRecord /\ r.pending = 0 /\ r.pc # "add"
      /\ r.pc = "scan" => r.shard # 0
      /\ OverBudget => r.pc = "scan" /\ r.shard = 1
  <2>1. CASE OverBudget
    <3>1. PICK e \in BOOLEAN : e = FALSE
      BY Zenon
    <3>2. r = Scanning(1, e)
      BY <1>3, <2>1, <3>1, Zenon
    <3>3. r \in JobRecord /\ r.pc = "scan" /\ r.pending = 0 /\ r.shard = 1
      BY <1>4, <3>2, Records
    <3> QED BY <3>3
  <2>2. CASE ~OverBudget
    <3>1. r = Idle
      BY <1>3, <2>2
    <3> QED BY <2>2, <3>1, Records
  <2> QED BY <2>1, <2>2
<1>6. job' = [job EXCEPT ![t] = r]
  BY <1>3 DEF CheckBudget
<1>7. /\ Jobs' /\ job'[t] = r /\ \A u \in Tasks : u # t => job'[u] = job[u]
      /\ Pending' = Pending - job[t].pending + r.pending
  BY <1>1, <1>5, <1>6, JobChange, Zenon
<1>8. job[t].pending = 0
  BY <1>1 DEF Shape, Jobs
<1>9. Pending' = Pending
  BY <1>1, <1>5, <1>7, <1>8, Summable
<1>10. Drift' = Drift
  BY <1>2, <1>9 DEF Drift, Stored
<1>11. Shape'
  BY <1>1, <1>2, <1>7 DEF Shape, Shelved
<1>12. ASSUME Drift = 0, OverBudget PROVE \E u \in Tasks : Watches(u)'
  <2>1. CASE \E u \in Tasks : job[u].pc = "add"
    <3>1. PICK u \in Tasks : job[u].pc = "add"
      BY <2>1
    <3>2. job'[u].pc = "add"
      BY <3>1, <1>1, <1>7
    <3> QED BY <3>2 DEF Watches
  <2>2. CASE ~\E u \in Tasks : job[u].pc = "add"
    <3>1. PICK i \in 1..SHARDS : shards[i] # <<>>
      BY <1>1, <1>12, <2>2, SomethingStored
    <3>2. job'[t].pc = "scan" /\ job'[t].shard = 1 /\ shards'[i] # <<>>
      BY <1>2, <1>5, <1>7, <1>12, <3>1
    <3>3. Watches(t)'
      BY <3>2 DEF Watches
    <3> QED BY <3>3
  <2> QED BY <2>1, <2>2
<1>13. Watched'
  BY <1>2, <1>10, <1>12 DEF Watched, OverBudget
<1> QED BY <1>10, <1>11, <1>13 DEF IInv

\* Where a scan goes from shard i.
LEMMA AfterShardIs ==
  ASSUME NEW i \in 1..SHARDS, NEW e \in BOOLEAN, NEW r, r = AfterShard(i, e)
  PROVE  /\ r \in JobRecord /\ r.pending = 0 /\ r.pc # "add"
         /\ r.pc = "scan" => r.shard # 0
         /\ i < SHARDS => r.pc = "scan" /\ r.shard = i + 1 /\ r.evicted = e
         /\ i = SHARDS /\ e => r.pc = "budget"
<1>1. SHARDS \in Nat
  BY CacheStoreAssumption
<1>2. CASE i < SHARDS
  <2>1. i + 1 \in 1..SHARDS /\ i + 1 # 0
    BY <1>1, <1>2
  <2>2. r = Scanning(i + 1, e)
    BY <1>2 DEF AfterShard
  <2> QED BY <1>1, <1>2, <2>1, <2>2, Records
<1>3. CASE ~(i < SHARDS)
  <2>1. r = IF e THEN At("budget") ELSE Idle
    BY <1>3 DEF AfterShard
  <2> QED BY <1>3, <2>1, Records
<1> QED BY <1>2, <1>3

\* The scan of one shard.
LEMMA ScanShardStep ==
  ASSUME IInv, NEW t \in Tasks, ScanShard(t)
  PROVE  IInv' /\ Drift' = Drift
<1>1. Shape /\ Watched /\ job[t].pc = "scan"
  BY DEF IInv, ScanShard
<1>2. PICK i, n, e : i = job[t].shard /\ n = Len(shards[i]) /\ e = job[t].evicted
  BY Zenon
<1>3. SHARDS \in Nat \ {0} /\ i \in 1..SHARDS /\ e \in BOOLEAN /\ job[t].pending = 0
  BY <1>1, <1>2, CacheStoreAssumption DEF Shape, Jobs, JobRecord
<1>4. to_load' = to_load /\ clear_at' = clear_at
  BY DEF ScanShard
<1>5. Stored \in Int /\ Pending \in Int
  BY <1>1, Summable
<1>6. CASE n = 0
  <2>1. PICK r : r = AfterShard(i, e)
    OBVIOUS
  <2>2. /\ job' = [job EXCEPT ![t] = r]
        /\ shards' = shards /\ size' = size /\ total_bytes' = total_bytes
    BY <1>2, <1>6, <2>1 DEF ScanShard
  <2>3. /\ r \in JobRecord /\ r.pending = 0 /\ r.pc # "add"
        /\ r.pc = "scan" => r.shard # 0
        /\ i < SHARDS => r.pc = "scan" /\ r.shard = i + 1 /\ r.evicted = e
        /\ i = SHARDS /\ e => r.pc = "budget"
    BY <1>3, <2>1, AfterShardIs
  <2>4. /\ Jobs' /\ job'[t] = r /\ \A u \in Tasks : u # t => job'[u] = job[u]
        /\ Pending' = Pending - job[t].pending + r.pending
    BY <1>1, <2>2, <2>3, JobChange, Zenon
  <2>5. Pending' = Pending
    BY <1>3, <1>5, <2>3, <2>4
  <2>6. Drift' = Drift
    BY <2>2, <2>5 DEF Drift, Stored
  <2>7. Shape'
    BY <1>1, <1>4, <2>2, <2>4 DEF Shape, Shelved
  <2>8. shards[i] = <<>>
    <3>1. shards[i] \in Seq(Key)
      BY <1>1, <1>3 DEF Shape, Shelved
    <3>2. \A s \in Seq(Key) : Len(s) = 0 => s = <<>>
      OBVIOUS
    <3> QED BY <3>1, <3>2, <1>2, <1>6, Zenon
  <2>9. ASSUME NEW u \in Tasks, Watches(u) PROVE Watches(u)'
    <3>1. CASE u # t
      BY <3>1, <2>2, <2>4, <2>9 DEF Watches
    <3>2. CASE u = t
      <4>1. e \/ \E j \in i..SHARDS : shards[j] # <<>>
        BY <3>2, <2>9, <1>1, <1>2 DEF Watches
      <4>2. CASE i < SHARDS
        <5>1. job'[t].pc = "scan" /\ job'[t].shard = i + 1 /\ job'[t].evicted = e
          BY <4>2, <2>3, <2>4
        <5>2. e \/ \E j \in (i + 1)..SHARDS : shards'[j] # <<>>
          BY <4>1, <2>2, <2>8, <1>3
        <5> QED BY <5>1, <5>2, <3>2 DEF Watches
      <4>3. CASE i = SHARDS
        <5>1. e
          BY <4>1, <4>3, <2>8, <1>3
        <5>2. job'[t].pc = "budget"
          BY <5>1, <4>3, <2>3, <2>4
        <5> QED BY <5>2, <3>2 DEF Watches
      <4> QED BY <4>2, <4>3, <1>3
    <3> QED BY <3>1, <3>2
  <2>10. Watched'
    BY <1>1, <1>4, <2>2, <2>6, <2>9 DEF Watched, OverBudget
  <2> QED BY <2>6, <2>7, <2>10 DEF IInv
<1>7. CASE n # 0
  <2>1. PICK q, d, b : q = SubSeq(shards[i], 1, n - 1) /\ d = shards[i][n] /\ b = size[d]
    BY Zenon
  <2>2. PICK r : r = IF OverBudget' THEN AfterShard(i, TRUE) ELSE At("budget")
    BY Zenon
  <2>3. /\ shards' = [shards EXCEPT ![i] = q] /\ size' = [size EXCEPT ![d] = 0]
        /\ add_bytes(-b) /\ job' = [job EXCEPT ![t] = r]
    BY <1>2, <1>7, <2>1, <2>2 DEF ScanShard
  <2>4. Shelved' /\ d \in Key
    BY <1>1, <1>2, <1>3, <1>7, <2>1, <2>3, EvictShelves
  <2>5. /\ r \in JobRecord /\ r.pending = 0 /\ r.pc # "add"
        /\ r.pc = "scan" => r.shard # 0
        /\ OverBudget' => r.pc = "budget" \/ (r.pc = "scan" /\ r.evicted = TRUE)
    <3>1. CASE OverBudget'
      <4>1. PICK f \in BOOLEAN : f = TRUE
        BY Zenon
      <4>2. r = AfterShard(i, f)
        BY <2>2, <3>1, <4>1
      <4>3. /\ r \in JobRecord /\ r.pending = 0 /\ r.pc # "add"
            /\ r.pc = "scan" => r.shard # 0
            /\ i < SHARDS => r.pc = "scan" /\ r.shard = i + 1 /\ r.evicted = f
            /\ i = SHARDS /\ f => r.pc = "budget"
        BY <1>3, <4>2, AfterShardIs
      <4>4. i < SHARDS \/ i = SHARDS
        BY <1>3
      <4> QED BY <4>1, <4>3, <4>4, Zenon
    <3>2. CASE ~OverBudget'
      <4>1. r = At("budget")
        BY <2>2, <3>2
      <4> QED BY <3>2, <4>1, Records
    <3> QED BY <3>1, <3>2, Zenon
  <2>6. /\ Jobs' /\ job'[t] = r
        /\ Pending' = Pending - job[t].pending + r.pending
    BY <1>1, <2>3, <2>5, JobChange, Zenon
  <2>7. b \in Int /\ Stored' = Stored - b
    <3>1. PICK new : new = size'
      OBVIOUS
    <3>2. /\ IsFiniteSet(Key) /\ \A x \in Key : size[x] \in Int
      BY <1>1, Summable
    <3>3. \A x \in Key : new[x] = IF x = d THEN 0 ELSE size[x]
      BY <3>1, <2>3, <1>1 DEF Shape, Shelved
    <3>4. \A x \in Key : new[x] \in Int
      BY <3>2, <3>3
    <3>5. SumFunctionOnSet(new, Key) = Stored - size[d] + new[d]
      BY <2>4, <3>2, <3>3, <3>4, SumChange DEF Stored
    <3>6. Stored' = SumFunctionOnSet(new, Key)
      BY <3>1 DEF Stored
    <3> QED BY <3>2, <3>3, <3>5, <3>6, <2>1, <2>4, <1>5
  <2>8. /\ -b \in Int /\ Stored' \in Int /\ Pending' \in Int
        /\ Stored' - Pending' = Stored - Pending + (-b)
    BY <1>3, <1>5, <2>5, <2>6, <2>7
  <2>9. Drift' = Drift /\ total_bytes' \in 0..(WORD - 1)
    BY <1>1, <2>3, <2>8, DriftKept
  <2>10. Shape'
    BY <1>1, <1>4, <2>4, <2>6, <2>9 DEF Shape
  <2>11. OverBudget' => Watches(t)'
    <3>1. OverBudget' => job'[t].pc = "budget" \/ (job'[t].pc = "scan" /\ job'[t].evicted = TRUE)
      BY <2>5, <2>6
    <3> QED BY <3>1 DEF Watches
  <2>12. Watched'
    BY <2>11 DEF Watched
  <2> QED BY <2>9, <2>10, <2>12 DEF IInv
<1> QED BY <1>6, <1>7

\* `clear` keeps the shape; its last step leaves a counter within the budget.
LEMMA ClearStep ==
  ASSUME IInv, Clear
  PROVE  IInv'
<1>1. Shape /\ SHARDS \in Nat \ {0} /\ WORD \in Nat \ {0} /\ MAX_BYTES \in Nat
  BY CacheStoreAssumption DEF IInv
<1>2. CASE ClearShard
  <2>1. Shelved' /\ clear_at' \in 0..(SHARDS + 1)
    BY <1>1, <1>2, ClearShelves
  <2>2. Shape'
    BY <1>1, <1>2, <2>1 DEF Shape, Jobs, ClearShard
  <2>3. clear_at' # 0
    BY <1>1, <1>2 DEF ClearShard, Shape
  <2> QED BY <2>2, <2>3 DEF IInv, Watched
<1>3. CASE ClearReset
  <2>1. Shape'
    BY <1>1, <1>3 DEF Shape, Shelved, Jobs, ClearReset
  <2>2. ~OverBudget'
    BY <1>1, <1>3 DEF OverBudget, ClearReset
  <2> QED BY <2>1, <2>2 DEF IInv, Watched
<1> QED BY <1>2, <1>3 DEF Clear

\* Every step keeps the invariant, and every one but `clear` keeps the drift.
LEMMA StepHolds == IInv /\ [Next]_vars => IInv' /\ (Drift' = Drift \/ Clear)
<1> SUFFICES ASSUME IInv, [Next]_vars PROVE IInv' /\ (Drift' = Drift \/ Clear)
  OBVIOUS
<1>1. ASSUME NEW t \in Task, StartInsert(t) PROVE IInv' /\ Drift' = Drift
  BY <1>1, InsertStep, InsertDisplacingStep DEF StartInsert
<1>2. ASSUME NEW t \in Task, InsertAdd(t) PROVE IInv' /\ Drift' = Drift
  <2>1. /\ t \in Tasks /\ job[t].pc = "add" /\ add_bytes(job[t].pending)
        /\ job' = [job EXCEPT ![t] = At("budget")]
        /\ UNCHANGED <<shards, size, to_load, clear_at>>
    BY <1>2 DEF InsertAdd, Tasks
  <2> QED BY <2>1, AddStep, Zenon
<1>3. ASSUME NEW k \in Key, Touch(k) PROVE IInv' /\ Drift' = Drift
  BY <1>3, TouchStep
<1>4. ASSUME NEW t \in Tasks, Enforce(t) PROVE IInv' /\ Drift' = Drift
  BY <1>4, CheckBudgetStep, ScanShardStep DEF Enforce
<1>5. ASSUME NEW k \in Key, NEW s \in Sizes, LoadPush(k, s) PROVE IInv' /\ Drift' = Drift
  BY <1>5, LoadPushStep
<1>6. ASSUME LoadAdd PROVE IInv' /\ Drift' = Drift
  <2>1. PICK p \in {"budget", "load"} : p = IF to_load = {} THEN "budget" ELSE "load"
    OBVIOUS
  <2>2. /\ Loader \in Tasks /\ job[Loader].pc = "add" /\ add_bytes(job[Loader].pending)
        /\ job' = [job EXCEPT ![Loader] = At(p)]
        /\ UNCHANGED <<shards, size, to_load, clear_at>>
    BY <1>6, <2>1, Zenon DEF LoadAdd, Tasks
  <2> QED BY <2>2, AddStep, Zenon
<1>7. ASSUME Clear PROVE IInv'
  BY <1>7, ClearStep
<1>8. ASSUME UNCHANGED vars PROVE IInv' /\ Drift' = Drift
  <2>1. /\ shards' = shards /\ size' = size /\ total_bytes' = total_bytes /\ job' = job
        /\ to_load' = to_load /\ clear_at' = clear_at
    BY <1>8 DEF vars
  <2>2. Drift' = Drift
    BY <2>1 DEF Drift, Stored, Pending
  <2>3. Shape'
    BY <2>1 DEF IInv, Shape, Shelved, Jobs
  <2>4. Watched'
    BY <2>1, <2>2 DEF IInv, Watched, Watches, OverBudget
  <2> QED BY <2>2, <2>3, <2>4 DEF IInv
<1> QED BY <1>1, <1>2, <1>3, <1>4, <1>5, <1>6, <1>7, <1>8 DEF Next, Load

\* An empty cache.
LEMMA InitHolds == Init => IInv
<1> SUFFICES ASSUME Init PROVE IInv
  OBVIOUS
<1>1. /\ SHARDS \in Nat \ {0} /\ ShardOf \in [Key -> 1..SHARDS] /\ Capacity \in Nat
      /\ MAX_BYTES \in Nat /\ WORD \in Nat \ {0}
  BY CacheStoreAssumption
<1>2. << >> \in Seq(Key) /\ Len(<< >>) = 0 /\ IsInjective(<< >>) /\ DOMAIN << >> = {}
  BY DEF IsInjective
<1>3. \A k : k \notin Range(<< >>)
  BY <1>2 DEF Range
<1>4. Shelved
  BY <1>1, <1>2, <1>3 DEF Init, Shelved
<1>5. ASSUME NEW t \in Tasks
      PROVE  job[t] \in JobRecord /\ job[t].pending = 0 /\ job[t].pc # "scan"
  <2>1. job[t] = At("load") \/ job[t] = Idle
    BY DEF Init
  <2> QED BY <2>1, Records
<1>6. Jobs
  BY <1>5 DEF Init, Jobs
<1>7. Shape
  BY <1>1, <1>4, <1>6 DEF Init, Shape
<1>8. ~OverBudget
  BY <1>1 DEF Init, OverBudget
<1> QED BY <1>7, <1>8 DEF IInv, Watched

\* The shards have room for a bounded number of entries, whose bytes a usize can count.
LEMMA StoredFits == Shape => Stored \in 0..(WORD - 1)
<1> SUFFICES ASSUME Shape PROVE Stored \in 0..(WORD - 1)
  OBVIOUS
<1>1. /\ SHARDS \in Nat \ {0} /\ ShardOf \in [Key -> 1..SHARDS] /\ Capacity \in Nat \ {0}
      /\ WORD \in Nat \ {0} /\ Sizes \subseteq Nat \ {0}
  BY CacheStoreAssumption
<1>2. PICK N : N = {k \in Key : size[k] # 0}
  BY Zenon
<1>3. PICK places : places = (1..SHARDS) \X (1..Capacity)
  BY Zenon
<1>4. IsFiniteSet(places) /\ Cardinality(places) = SHARDS * Capacity
  <2>1. PICK A, B : A = 1..SHARDS /\ B = 1..Capacity
    OBVIOUS
  <2>2. IsFiniteSet(A) /\ Cardinality(A) = SHARDS
    BY <1>1, <2>1, FS_Interval
  <2>3. IsFiniteSet(B) /\ Cardinality(B) = Capacity
    BY <1>1, <2>1, FS_Interval
  <2>4. IsFiniteSet(A \X B) /\ Cardinality(A \X B) = Cardinality(A) * Cardinality(B)
    BY <2>2, <2>3, FS_Product, Zenon
  <2> QED BY <1>3, <2>1, <2>2, <2>3, <2>4, Zenon
<1>5. Cardinality(N) \in Nat /\ Cardinality(N) <= SHARDS * Capacity
  <2>1. ASSUME NEW k \in N
        PROVE  \E i \in 1..SHARDS : \E n \in 1..Capacity : shards[i][n] = k
    <3>1. k \in Key /\ size[k] # 0
      BY <1>2, <2>1
    <3>2. PICK i, lru : i = ShardOf[k] /\ lru = shards[i]
      OBVIOUS
    <3>3. i \in 1..SHARDS /\ lru \in Seq(Key) /\ Len(lru) <= Capacity
      BY <1>1, <3>1, <3>2 DEF Shape, Shelved
    <3>4. k \in Range(lru)
      BY <3>1, <3>2 DEF Shape, Shelved
    <3>5. PICK n \in DOMAIN lru : lru[n] = k
      BY <3>4 DEF Range
    <3>6. n \in 1..Capacity
      BY <1>1, <3>3, <3>5
    <3> QED BY <3>2, <3>3, <3>5, <3>6
  <2>2. PICK f : f = [k \in N |-> CHOOSE p \in places : shards[p[1]][p[2]] = k]
    BY Zenon
  <2>3. ASSUME NEW k \in N PROVE f[k] \in places /\ shards[f[k][1]][f[k][2]] = k
    <3>1. PICK i \in 1..SHARDS : \E n \in 1..Capacity : shards[i][n] = k
      BY <2>1
    <3>2. PICK n \in 1..Capacity : shards[i][n] = k
      BY <3>1
    <3>3. <<i, n>> \in places /\ shards[<<i, n>>[1]][<<i, n>>[2]] = k
      BY <1>3, <3>2
    <3>4. \E p \in places : shards[p[1]][p[2]] = k
      BY <3>3
    <3>5. f[k] = CHOOSE p \in places : shards[p[1]][p[2]] = k
      BY <2>2
    <3> QED BY <3>4, <3>5, Zenon
  <2>4. f \in Injection(N, places)
    <3>1. f \in [N -> places]
      BY <2>2, <2>3
    <3>2. \A a, b \in N : f[a] = f[b] => a = b
      BY <2>3, Zenon
    <3>3. IsInjective(f)
      BY <3>1, <3>2 DEF IsInjective
    <3> QED BY <3>1, <3>3, Zenon DEF Injection
  <2>5. IsFiniteSet(N) /\ Cardinality(N) <= Cardinality(places)
    BY <1>4, <2>4, FS_Injection, Zenon
  <2>6. Cardinality(N) \in Nat
    BY <2>5, FS_CardinalityType, Zenon
  <2> QED BY <1>4, <2>5, <2>6
<1>6. PICK M \in Nat \ {0} : M = SHARDS * Capacity
  BY <1>1
<1>7. PICK m \in Nat : (\A s \in Sizes : s <= m) /\ M * m <= WORD - 1
  <2>1. PICK w \in Nat : w = WORD - 1
    BY <1>1
  <2>2. PICK m \in Nat, r \in 0..(M - 1) : w = M * m + r
    <3>1. w = M * (w \div M) + (w % M) /\ w \div M \in Int /\ w % M \in 0..(M - 1)
      OBVIOUS
    <3>2. PICK q \in Int, r \in 0..(M - 1) : w = M * q + r
      BY <3>1
    <3>3. q <= -1 => M * q <= -M
      OBVIOUS
    <3>4. q \in Nat
      BY <3>2, <3>3
    <3> QED BY <3>2, <3>4
  <2>3. ASSUME NEW s \in Sizes PROVE s <= m
    <3>1. s \in Nat /\ M * s <= w
      BY <1>1, <1>6, <2>1, StoreIsFinite
    <3>2. PICK d \in Int : d = s - m
      BY <3>1
    <3>3. M * s = M * m + M * d
      BY <3>1, <3>2
    <3>4. d >= 1 => M * d >= M
      OBVIOUS
    <3> QED BY <2>2, <3>1, <3>2, <3>3, <3>4
  <2>4. M * m <= w
    BY <2>2
  <2> QED BY <2>1, <2>3, <2>4
<1>8. PICK c \in Nat : c = Cardinality(N) /\ c <= M
  BY <1>5, <1>6
<1>9. Stored \in Nat /\ Stored <= c * m
  <2>1. \A k \in Key : size[k] \in 0..m
    <3>1. \A k \in Key : size[k] \in Nat /\ size[k] \in Sizes \cup {0}
      BY Summable DEF Shape, Shelved
    <3> QED BY <3>1, <1>7
  <2>2. IsFiniteSet(Key)
    BY Summable
  <2> QED BY <2>1, <2>2, <1>2, <1>8, SumBound DEF Stored
<1>10. c * m <= M * m
  <2>1. PICK d \in Nat : M = c + d
    <3>1. M - c \in Nat /\ M = c + (M - c)
      BY <1>8
    <3> QED BY <3>1
  <2>2. (c + d) * m = c * m + d * m /\ d * m \in Nat /\ c * m \in Nat
    OBVIOUS
  <2> QED BY <2>1, <2>2
<1> QED BY <1>1, <1>7, <1>9, <1>10

-----------------------------------------------------------------------------
\* The theorems.

\* The invariant holds of every reachable state of the store.
THEOREM Invariance == Spec => []IInv
<1> QED BY InitHolds, StepHolds, PTL DEF Spec

\* Whatever tasks, loader and `clear` do, a shard holds each of its keys once and no
\* more than its capacity, and the counter stays a usize.
THEOREM StoreTypes == Spec => []TypeOK
<1>1. IInv => TypeOK
  BY ShapeTypes DEF IInv
<1> QED BY <1>1, Invariance, PTL

\* `total_bytes` changes by exactly what a step changes in the shards, except in a
\* `clear`.
THEOREM StoreBytesExact == Spec => BytesExact
<1>1. IInv /\ [Next]_vars => [Drift' = Drift \/ Clear]_vars
  BY StepHolds
<1> QED BY <1>1, Invariance, PTL DEF Spec, BytesExact

\* With no insert, load or `clear` under way and a counter that is right, what is
\* stored fits cache-mem-size.
THEOREM StoreKeepsBudget == Spec => []BudgetKept
<1>1. IInv => BudgetKept
  <2> SUFFICES ASSUME IInv, Quiescent, Drift = 0, MAX_BYTES > 0
               PROVE  Stored <= MAX_BYTES
    BY DEF BudgetKept
  <2>1. Shape /\ clear_at = 0 /\ \A t \in Tasks : job[t].pc = "idle"
    BY DEF IInv, Quiescent
  <2>2. \A t \in Tasks : ~Watches(t)
    BY <2>1 DEF Watches
  <2>3. total_bytes <= MAX_BYTES
    <3>1. ~OverBudget
      BY <2>1, <2>2 DEF IInv, Watched
    <3>2. total_bytes \in Int /\ MAX_BYTES \in Int
      BY <2>1, CacheStoreAssumption DEF Shape
    <3> QED BY <3>1, <3>2 DEF OverBudget
  <2>4. Pending = 0
    BY <2>1, NonePending
  <2>5. PICK w \in Nat \ {0} : w = WORD
    BY CacheStoreAssumption
  <2>6. PICK b \in 0..(w - 1), c \in 0..(w - 1) : b = Stored /\ c = total_bytes
    BY <2>1, <2>5, StoredFits DEF Shape
  <2>7. (c - b) % w = 0
    BY <2>4, <2>5, <2>6 DEF Drift
  <2>8. c = b
    <3>1. PICK q \in Int : c - b = w * q
      <4>1. PICK d \in Int : d = c - b
        OBVIOUS
      <4>2. d = w * (d \div w) + (d % w) /\ d \div w \in Int
        OBVIOUS
      <4> QED BY <4>1, <4>2, <2>7
    <3>2. w * q + b = w * 0 + c
      BY <3>1
    <3> QED BY <3>2, ModUnique
  <2> QED BY <2>3, <2>6, <2>8
<1> QED BY <1>1, Invariance, PTL

=============================================================================
