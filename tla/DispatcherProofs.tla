-------------------------- MODULE DispatcherProofs --------------------------
(***************************************************************************)
(* Proofs about the dispatcher for every set of queries, every batch size  *)
(* and every number of permits.                                            *)
(***************************************************************************)
EXTENDS Dispatcher, FiniteSetTheorems, SequenceTheorems, TLAPS

\* No query occurs twice in a queue.
Distinct(s) == \A i, j \in 1..Len(s) : s[i] = s[j] => i = j

\* The join set: batches are non-empty and share no query, and only a running
\* task has futures left.
TasksOK ==
  /\ \A t \in tasks : /\ t.todo \subseteq t.members
                      /\ t.members # {}
                      /\ t.st # "running" => t.todo = {}
  /\ \A t, u \in tasks : t # u => t.members \cap u.members = {}

\* A query is in at most one place, and in none before it is sent.
Separate ==
  /\ Distinct(inbox)
  /\ Distinct(requests)
  /\ \A q \in Elems(inbox) : q \notin Elems(requests) \cup batch \cup bg_batch
                                       \cup MembersOf(tasks) \cup lost
  /\ \A q \in Elems(requests) : q \notin batch \cup bg_batch
                                          \cup MembersOf(tasks) \cup lost
  /\ \A q \in batch : q \notin bg_batch \cup MembersOf(tasks) \cup lost
  /\ \A q \in bg_batch : q \notin MembersOf(tasks) \cup lost
  /\ \A q \in MembersOf(tasks) : q \notin lost
  /\ \A q \in Req : reply[q] = "unsent" =>
       q \notin Elems(inbox) \cup Elems(requests) \cup batch \cup bg_batch
                 \cup MembersOf(tasks) \cup lost

\* What is in the local variables at each place of the loop.
Locals ==
  /\ pc \notin {"config", "pop"} => requests = <<>>
  /\ pc \notin {"pop", "spawn_fg"} => batch = {}

AllFinite ==
  /\ IsFiniteSet(batch)
  /\ IsFiniteSet(bg_batch)
  /\ IsFiniteSet(lost)
  /\ IsFiniteSet(tasks)
  /\ IsFiniteSet(MembersOf(tasks))

Structure == TasksOK /\ Separate /\ Locals /\ AllFinite

IInv ==
  /\ TypeOK
  /\ Structure
  /\ ActiveQueriesAccounting
  /\ PermitsBalanced
  /\ NoOrphanedWaiter

-----------------------------------------------------------------------------
\* Queues

\* Appending a new element keeps a queue free of duplicates.
LEMMA AppendDistinct ==
  ASSUME NEW S, NEW s \in Seq(S), NEW x \in S, Distinct(s), x \notin Elems(s)
  PROVE  Distinct(Append(s, x)) /\ Elems(Append(s, x)) = Elems(s) \cup {x}
  BY DEF Distinct, Elems

\* `recv_many` splits a queue into two disjoint ones.
LEMMA SplitDistinct ==
  ASSUME NEW S, NEW s \in Seq(S), NEW n \in 0..Len(s), Distinct(s)
  PROVE  LET a == SubSeq(s, 1, n)
             b == SubSeq(s, n + 1, Len(s))
         IN  /\ a \in Seq(S) /\ b \in Seq(S)
             /\ Len(a) = n
             /\ Distinct(a) /\ Distinct(b)
             /\ Elems(s) = Elems(a) \cup Elems(b)
             /\ Elems(a) \cap Elems(b) = {}
<1> DEFINE a == SubSeq(s, 1, n)
           b == SubSeq(s, n + 1, Len(s))
<1>1. a \in Seq(S) /\ Len(a) = n /\ \A i \in 1..n : a[i] = s[i]
  OBVIOUS
<1>2. b \in Seq(S) /\ Len(b) = Len(s) - n /\ \A i \in 1..(Len(s) - n) : b[i] = s[n + i]
  OBVIOUS
<1>3. Distinct(a) /\ Distinct(b)
  BY <1>1, <1>2 DEF Distinct
<1>4. ASSUME NEW i \in 1..Len(s)
      PROVE  s[i] \in Elems(a) \cup Elems(b)
  <2>1. CASE i <= n
    BY <2>1, <1>1 DEF Elems
  <2>2. CASE i > n
    <3>1. i - n \in 1..Len(b) /\ b[i - n] = s[i]
      BY <2>2, <1>2
    <3> QED BY <3>1, Zenon DEF Elems
  <2> QED BY <2>1, <2>2
<1>5. Elems(a) \subseteq Elems(s) /\ Elems(b) \subseteq Elems(s)
  BY <1>1, <1>2 DEF Elems
<1>6. Elems(a) \cap Elems(b) = {}
  BY <1>1, <1>2 DEF Elems, Distinct
<1> HIDE DEF a, b
<1>7. Elems(s) \subseteq Elems(a) \cup Elems(b)
  BY <1>4 DEF Elems
<1>8. Elems(s) = Elems(a) \cup Elems(b)
  BY <1>5, <1>7
<1> QED BY <1>1, <1>2, <1>3, <1>6, <1>8 DEF a, b

\* Popping the last request removes it and nothing else.
LEMMA PopDistinct ==
  ASSUME NEW S, NEW s \in Seq(S), s # <<>>, Distinct(s)
  PROVE  LET r == SubSeq(s, 1, Len(s) - 1)
         IN  /\ r \in Seq(S)
             /\ Len(r) = Len(s) - 1
             /\ Distinct(r)
             /\ s[Len(s)] \in S
             /\ s[Len(s)] \notin Elems(r)
             /\ Elems(s) = Elems(r) \cup {s[Len(s)]}
<1>a. Len(s) \in Nat \ {0}
  BY EmptySeq
<1>b. Len(s) - 1 \in 0..Len(s)
  BY <1>a
<1>0. PICK n \in 0..Len(s) : n = Len(s) - 1
  BY <1>b, Zenon
<1> DEFINE r == SubSeq(s, 1, n)
<1>1. r \in Seq(S) /\ Len(r) = n /\ \A i \in 1..n : r[i] = s[i]
  OBVIOUS
<1>2. Len(s) \in 1..Len(s) /\ s[Len(s)] \in S /\ n + 1 = Len(s)
  BY <1>a, <1>0
<1>3. Distinct(r) /\ s[Len(s)] \notin Elems(r)
  BY <1>1, <1>2 DEF Distinct, Elems
<1>4. \A i \in 1..Len(s) : i = Len(s) \/ i \in 1..Len(r)
  BY <1>1, <1>2
<1>5. Elems(s) = Elems(r) \cup {s[Len(s)]}
  BY <1>1, <1>2, <1>4 DEF Elems
<1> HIDE DEF r
<1> QED BY <1>0, <1>1, <1>2, <1>3, <1>5 DEF r

-----------------------------------------------------------------------------
\* The join set

\* Sizes of disjoint sets add up.
LEMMA DisjointUnion ==
  ASSUME NEW S, NEW T, IsFiniteSet(S), IsFiniteSet(T), S \cap T = {}
  PROVE  /\ IsFiniteSet(S \cup T)
         /\ Cardinality(S \cup T) = Cardinality(S) + Cardinality(T)
<1>1. /\ IsFiniteSet(S \cup T)
      /\ Cardinality(S \cup T) = Cardinality(S) + Cardinality(T) - Cardinality(S \cap T)
  BY FS_Union
<1>2. Cardinality(S \cap T) = 0
  BY FS_EmptySet
<1>3. Cardinality(S) \in Nat /\ Cardinality(T) \in Nat
  BY FS_CardinalityType
<1> QED BY <1>1, <1>2, <1>3

\* The members of a join set with one task more.
LEMMA MembersAdd ==
  ASSUME NEW T, NEW u
  PROVE  MembersOf(T \cup {u}) = MembersOf(T) \cup u.members
  BY DEF MembersOf

\* A task replaced by one with the same members changes no membership.
LEMMA MembersReplace ==
  ASSUME NEW T, NEW t \in T, NEW u, u.members = t.members
  PROVE  MembersOf((T \ {t}) \cup {u}) = MembersOf(T)
  BY DEF MembersOf

\* The members of a join set are those of any part of it and of the rest.
LEMMA MembersSplit ==
  ASSUME NEW T, NEW A \in SUBSET T
  PROVE  MembersOf(T) = MembersOf(T \ A) \cup MembersOf(A)
  BY DEF MembersOf

\* Replacing a task by one with the same members keeps the join set well formed,
\* and the new record is not a task already there.
LEMMA ReplaceOK ==
  ASSUME TypeOK, TasksOK, NEW t \in tasks, NEW u \in Task,
         u.members = t.members, u.todo \subseteq u.members,
         u.st # "running" => u.todo = {}, u # t,
         tasks' = (tasks \ {t}) \cup {u}
  PROVE  /\ tasks' \subseteq Task
         /\ TasksOK'
         /\ u \notin tasks
         /\ MembersOf(tasks') = MembersOf(tasks)
         /\ IsFiniteSet(tasks) => IsFiniteSet(tasks')
<1>1. u \notin tasks
  BY DEF TasksOK
<1>2. TasksOK'
  BY DEF TasksOK
<1>3. MembersOf(tasks') = MembersOf(tasks)
  BY MembersReplace
<1>4. IsFiniteSet(tasks) => IsFiniteSet(tasks')
  BY FS_AddElement, FS_RemoveElement, Zenon
<1> QED BY <1>1, <1>2, <1>3, <1>4 DEF TypeOK

-----------------------------------------------------------------------------
\* Every step keeps the structure

\* DnsHandle::send puts a request that is nowhere yet at the end of the channel.
LEMMA SendStructure ==
  ASSUME TypeOK, Structure, NEW q \in Req, Send(q)
  PROVE  Structure'
<1>1. q \notin Elems(inbox) /\ inbox \in Seq(Req)
  BY DEF Send, Structure, Separate, TypeOK
<1>2. Distinct(inbox') /\ Elems(inbox') = Elems(inbox) \cup {q}
  BY <1>1, AppendDistinct DEF Send, Structure, Separate
<1>3. Separate'
  <2>1. \A r \in Req : reply'[r] = "unsent" => reply[r] = "unsent" /\ r # q
    BY DEF Send, TypeOK
  <2>2. Elems(requests)' = Elems(requests) /\ MembersOf(tasks)' = MembersOf(tasks)
    BY DEF Send, Elems, MembersOf
  <2> QED
    BY <1>1, <1>2, <2>1, <2>2 DEF Separate, Send, Structure
<1> QED BY <1>3 DEF Structure, Send, TasksOK, Locals, AllFinite, MembersOf

\* recv_many moves requests from the channel to the local vector and counts them.
LEMMA RecvStructure ==
  ASSUME TypeOK, Structure, Recv
  PROVE  Structure' /\ inbox' \in Seq(Req) /\ requests' \in Seq(Req)
         /\ active_queries' = active_queries + Len(requests')
         /\ Elems(inbox) = Elems(requests') \cup Elems(inbox')
<1> DEFINE n == IF Len(inbox) < BATCH_SIZE THEN Len(inbox) ELSE BATCH_SIZE
<1>1. n \in 0..Len(inbox) /\ inbox \in Seq(Req) /\ Distinct(inbox)
  BY DispatcherAssumption DEF TypeOK, Structure, Separate
<1>2. requests' = SubSeq(inbox, 1, n) /\ inbox' = SubSeq(inbox, n + 1, Len(inbox))
      /\ active_queries' = active_queries + n
  BY DEF Recv
<1> HIDE DEF n
<1>3. /\ requests' \in Seq(Req) /\ inbox' \in Seq(Req)
      /\ Len(requests') = n
      /\ Distinct(requests') /\ Distinct(inbox')
      /\ Elems(inbox) = Elems(requests') \cup Elems(inbox')
      /\ Elems(requests') \cap Elems(inbox') = {}
  BY <1>1, <1>2, SplitDistinct
<1>4. Separate'
  <2>1. UNCHANGED <<reply, batch, bg_batch, lost>> /\ MembersOf(tasks)' = MembersOf(tasks)
    BY DEF Recv, MembersOf
  <2> QED BY <1>3, <2>1 DEF Structure, Separate
<1> QED BY <1>2, <1>3, <1>4 DEF Structure, Recv, TasksOK, Locals, AllFinite, MembersOf

\* The popped request.
LEMMA PopFacts ==
  ASSUME TypeOK, Structure, requests # <<>>
  PROVE  /\ Popped \in Req
         /\ Rest \in Seq(Req)
         /\ Len(Rest) = Len(requests) - 1
         /\ Distinct(Rest)
         /\ Popped \notin Elems(Rest)
         /\ Elems(requests) = Elems(Rest) \cup {Popped}
  BY PopDistinct DEF TypeOK, Structure, Separate, Popped, Rest

\* A refused request is in no place any more.
LEMMA RefuseStructure ==
  ASSUME TypeOK, Structure, Refuse
  PROVE  Structure'
<1>1. requests # <<>> /\ requests' = Rest
  BY DEF Refuse
<1>2. Separate'
  <2>1. UNCHANGED <<batch, bg_batch, lost, inbox>> /\ MembersOf(tasks)' = MembersOf(tasks)
        /\ Elems(inbox)' = Elems(inbox)
    BY DEF Refuse, MembersOf, Elems
  <2>2. \A r \in Req : reply'[r] = "unsent" => reply[r] = "unsent"
    BY DEF Refuse, TypeOK
  <2> QED BY <1>1, <2>1, <2>2, PopFacts DEF Structure, Separate
<1> QED BY <1>2 DEF Structure, Refuse, TasksOK, Locals, AllFinite, MembersOf

\* An admitted request moves from the local vector to one of the two batches.
LEMMA AdmitStructure ==
  ASSUME TypeOK, Structure, Admit
  PROVE  Structure'
<1>1. requests # <<>> /\ requests' = Rest
  BY DEF Admit
<1>2. Separate'
  <2>1. UNCHANGED <<reply, lost, inbox>> /\ MembersOf(tasks)' = MembersOf(tasks)
        /\ Elems(inbox)' = Elems(inbox)
    BY DEF Admit, MembersOf, Elems
  <2>2. \/ bg_batch' = bg_batch \cup {Popped} /\ batch' = batch
        \/ batch' = batch \cup {Popped} /\ bg_batch' = bg_batch
    BY DEF Admit
  <2> QED BY <1>1, <2>1, <2>2, PopFacts DEF Structure, Separate
<1>3. AllFinite'
  BY FS_AddElement, Zenon DEF Structure, Admit, AllFinite, MembersOf
<1> QED BY <1>2, <1>3 DEF Structure, Admit, TasksOK, Locals

\* Spawning a batch that is disjoint from the join set.
LEMMA SpawnOK ==
  ASSUME TypeOK, TasksOK, AllFinite, NEW k \in {"bg", "fg"},
         NEW S \in SUBSET Req, S # {}, IsFiniteSet(S), S \cap MembersOf(tasks) = {},
         tasks' = tasks \cup {NewTask(k, S)}
  PROVE  /\ tasks' \subseteq Task
         /\ TasksOK'
         /\ NewTask(k, S) \notin tasks
         /\ MembersOf(tasks)' = MembersOf(tasks) \cup S
         /\ Cardinality(MembersOf(tasks)') = Cardinality(MembersOf(tasks)) + Cardinality(S)
         /\ IsFiniteSet(tasks') /\ IsFiniteSet(MembersOf(tasks)')
<1> DEFINE u == NewTask(k, S)
<1>1. u \in Task /\ u.members = S /\ u.todo = S /\ u.st = "running"
  BY DEF NewTask, Task
<1>2. \A t \in tasks : t.members \cap S = {}
  BY DEF MembersOf
<1>3. MembersOf(tasks)' = MembersOf(tasks) \cup S
  BY <1>1, MembersAdd
<1> HIDE DEF u
<1>4. TasksOK' /\ u \notin tasks
  BY <1>1, <1>2 DEF TasksOK, u
<1>5. IsFiniteSet(tasks')
  BY FS_AddElement DEF AllFinite
<1>6. /\ IsFiniteSet(MembersOf(tasks) \cup S)
      /\ Cardinality(MembersOf(tasks) \cup S) = Cardinality(MembersOf(tasks)) + Cardinality(S)
  BY DisjointUnion DEF AllFinite
<1> QED BY <1>1, <1>3, <1>4, <1>5, <1>6, Zenon DEF TypeOK, u

\* A background batch moves as a whole into a task, or stays where it is.
LEMMA SpawnBgStructure ==
  ASSUME TypeOK, Structure, SpawnBg
  PROVE  Structure'
<1>1. CASE bg_batch # {} /\ bg_permits > 0
  <2>1. tasks' = tasks \cup {NewTask("bg", bg_batch)} /\ bg_batch' = {}
        /\ UNCHANGED <<reply, inbox, requests, batch, lost>> /\ requests = <<>>
        /\ Elems(inbox)' = Elems(inbox) /\ Elems(requests)' = Elems(requests)
    BY <1>1 DEF SpawnBg, Elems
  <2>2. bg_batch \in SUBSET Req /\ IsFiniteSet(bg_batch) /\ bg_batch \cap MembersOf(tasks) = {}
    BY DEF TypeOK, Structure, Separate, AllFinite
  <2>3. TasksOK' /\ MembersOf(tasks)' = MembersOf(tasks) \cup bg_batch
        /\ IsFiniteSet(tasks') /\ IsFiniteSet(MembersOf(tasks)')
    BY <1>1, <2>1, <2>2, SpawnOK, Zenon DEF Structure
  <2>4. Separate'
    BY <2>1, <2>3, Zenon DEF Structure, Separate
  <2>5. AllFinite'
    BY <2>1, <2>3, FS_EmptySet DEF Structure, AllFinite
  <2> QED BY <2>1, <2>3, <2>4, <2>5 DEF Structure, Locals, SpawnBg
<1>2. CASE ~(bg_batch # {} /\ bg_permits > 0)
  <2>1. UNCHANGED <<reply, inbox, requests, batch, lost, tasks, bg_batch>>
    BY <1>2 DEF SpawnBg
  <2> QED BY <2>1 DEF Structure, TasksOK, Separate, Locals, AllFinite, SpawnBg,
                       Elems, MembersOf, Distinct
<1> QED BY <1>1, <1>2

\* A foreground batch moves as a whole into a task, or is lost.
LEMMA SpawnFgStructure ==
  ASSUME TypeOK, Structure, SpawnFg
  PROVE  Structure'
<1>1. batch \in SUBSET Req /\ IsFiniteSet(batch) /\ batch \cap MembersOf(tasks) = {}
  BY DEF TypeOK, Structure, Separate, AllFinite
<1>2. UNCHANGED <<inbox, requests, bg_batch>> /\ batch' = {} /\ requests = <<>>
      /\ Elems(inbox)' = Elems(inbox) /\ Elems(requests)' = Elems(requests)
  BY DEF SpawnFg, Elems, Structure, Locals
<1>3. CASE batch # {} /\ fg_permits > 0
  <2>1. tasks' = tasks \cup {NewTask("fg", batch)} /\ UNCHANGED <<reply, lost>>
    BY <1>3 DEF SpawnFg
  <2>3. TasksOK' /\ MembersOf(tasks)' = MembersOf(tasks) \cup batch
        /\ IsFiniteSet(tasks') /\ IsFiniteSet(MembersOf(tasks)')
    BY <1>1, <1>3, <2>1, SpawnOK DEF Structure
  <2>4. Separate'
    BY <1>2, <2>1, <2>3, Zenon DEF Structure, Separate
  <2>5. AllFinite'
    BY <1>2, <2>1, <2>3, FS_EmptySet DEF Structure, AllFinite
  <2> QED BY <1>2, <2>3, <2>4, <2>5 DEF Structure, Locals, SpawnFg
<1>4. CASE ~(batch # {} /\ fg_permits > 0)
  <2>1. /\ lost' = lost \cup batch
        /\ tasks' = tasks /\ MembersOf(tasks)' = MembersOf(tasks)
        /\ \A r \in Req : reply'[r] = "unsent" => reply[r] = "unsent"
    BY <1>4 DEF SpawnFg, MembersOf
  <2>2. Separate'
    BY <1>2, <2>1 DEF Structure, Separate
  <2>3. AllFinite'
    BY <1>1, <1>2, <2>1, FS_EmptySet, FS_Union, Zenon DEF Structure, AllFinite
  <2> QED BY <1>2, <2>1, <2>2, <2>3 DEF Structure, TasksOK, Locals, SpawnFg
<1> QED BY <1>3, <1>4

\* Reaping splits the members of the join set into three disjoint parts.
LEMMA ReapFacts ==
  ASSUME TypeOK, Structure, Reap
  PROVE  /\ MembersOf(tasks) = MembersOf(tasks)' \cup MembersOf(Finished) \cup MembersOf(Panicked)
         /\ MembersOf(tasks)' \cap MembersOf(Finished) = {}
         /\ MembersOf(tasks)' \cap MembersOf(Panicked) = {}
         /\ MembersOf(Finished) \cap MembersOf(Panicked) = {}
         /\ IsFiniteSet(MembersOf(tasks)')
         /\ IsFiniteSet(MembersOf(Finished))
         /\ IsFiniteSet(MembersOf(Panicked))
<1>1. tasks' = tasks \ (Finished \cup Panicked) /\ Finished \subseteq tasks
      /\ Panicked \subseteq tasks /\ Finished \cap Panicked = {}
  BY DEF Reap, Finished, Panicked
<1>2. MembersOf(tasks)' = MembersOf(tasks')
  BY DEF MembersOf
<1>3. \A t, u \in tasks : t # u => t.members \cap u.members = {}
  BY DEF Structure, TasksOK
<1>4. MembersOf(tasks) = MembersOf(tasks') \cup MembersOf(Finished) \cup MembersOf(Panicked)
  BY <1>1 DEF MembersOf
<1>5. MembersOf(tasks') \cap MembersOf(Finished) = {}
  BY <1>1, <1>3 DEF MembersOf
<1>6. MembersOf(tasks') \cap MembersOf(Panicked) = {}
  BY <1>1, <1>3 DEF MembersOf
<1>7. MembersOf(Finished) \cap MembersOf(Panicked) = {}
  BY <1>1, <1>3 DEF MembersOf
<1>8. IsFiniteSet(MembersOf(tasks))
  BY DEF Structure, AllFinite
<1>9. /\ IsFiniteSet(MembersOf(tasks'))
      /\ IsFiniteSet(MembersOf(Finished))
      /\ IsFiniteSet(MembersOf(Panicked))
  BY <1>4, <1>8, FS_Subset
<1> QED BY <1>2, <1>4, <1>5, <1>6, <1>7, <1>9

\* Reaping forgets finished tasks; the members of panicked ones are lost.
LEMMA ReapStructure ==
  ASSUME TypeOK, Structure, Reap
  PROVE  Structure'
<1>1. UNCHANGED <<reply, inbox, requests, batch, bg_batch>>
      /\ lost' = lost \cup MembersOf(Panicked) /\ tasks' \subseteq tasks
      /\ Elems(inbox)' = Elems(inbox) /\ Elems(requests)' = Elems(requests)
  BY DEF Reap, Elems
<1>2. Separate'
  BY <1>1, ReapFacts DEF Structure, Separate
<1>3. AllFinite'
  BY <1>1, ReapFacts, FS_Subset, FS_Union, Zenon DEF Structure, AllFinite
<1>4. TasksOK'
  BY <1>1 DEF Structure, TasksOK
<1> QED BY <1>1, <1>2, <1>3, <1>4 DEF Structure, Locals, Reap

\* What a step of a batch task does: t becomes u, with the same members.
TaskStep(t, u) ==
  /\ u \in Task
  /\ u.members = t.members
  /\ u.kind = t.kind
  /\ u.todo \subseteq t.todo
  /\ u.st # "running" => u.todo = {}
  /\ u # t
  /\ tasks' = (tasks \ {t}) \cup {u}
  /\ UNCHANGED <<inbox, pc, requests, batch, bg_batch, active_queries, cfg_limit,
                 max_query_limit, lost>>
  /\ reply' \in [Req -> Replies]
  /\ \A r \in Req : IF r \in t.todo \ u.todo THEN reply'[r] \in {"answered", "dropped"}
                                             ELSE reply'[r] = reply[r]
  /\ \/ /\ t.st = "running" /\ u.st = "running"
        /\ UNCHANGED <<bg_permits, fg_permits>>
     \/ /\ t.st = "running" /\ u.st # "running"
        /\ DropPermit(t)
     \/ /\ t.st # "running" /\ u.st # "running"
        /\ UNCHANGED <<bg_permits, fg_permits>>

\* Every step of a running batch replaces one task by a later stage of itself.
LEMMA RunTaskStep ==
  ASSUME TypeOK, Structure, RunTask
  PROVE  \E t \in tasks : \E u \in Task : TaskStep(t, u)
<1>1. PICK t \in tasks : \/ \E q \in t.todo : Answer(t, q) \/ Panic(t, q)
                         \/ Release(t)
                         \/ Finish(t)
  BY DEF RunTask
<1>2. t \in Task /\ t.todo \subseteq t.members /\ (t.st # "running" => t.todo = {})
  BY DEF TypeOK, Structure, TasksOK
<1>3. ASSUME NEW q \in t.todo, Answer(t, q)
      PROVE  \E u \in Task : TaskStep(t, u)
  <2> DEFINE u == [t EXCEPT !.todo = @ \ {q}]
  <2>1. u \in Task /\ u.members = t.members /\ u.kind = t.kind /\ u.todo = t.todo \ {q}
        /\ u.st = t.st /\ t.st = "running"
    BY <1>2, <1>3 DEF Task, Answer
  <2>2. u # t /\ u.todo \subseteq t.todo /\ t.todo \ u.todo = {q} /\ q \in Req
    BY <1>2, <2>1 DEF Task
  <2>3. tasks' = (tasks \ {t}) \cup {u} /\ reply' = [reply EXCEPT ![q] = "answered"]
    BY <1>3 DEF Answer, Replace
  <2> HIDE DEF u
  <2>4. /\ reply' \in [Req -> Replies]
        /\ \A r \in Req : IF r \in t.todo \ u.todo THEN reply'[r] \in {"answered", "dropped"}
                                                   ELSE reply'[r] = reply[r]
    BY <2>2, <2>3 DEF TypeOK, Replies
  <2> QED BY <1>3, <2>1, <2>2, <2>3, <2>4 DEF TaskStep, Answer
<1>4. ASSUME NEW q \in t.todo, Panic(t, q)
      PROVE  \E u \in Task : TaskStep(t, u)
  <2> DEFINE u == [t EXCEPT !.todo = {}, !.st = "panicked"]
  <2>1. u \in Task /\ u.members = t.members /\ u.kind = t.kind /\ u.todo = {}
        /\ u.st = "panicked" /\ t.st = "running"
    BY <1>2, <1>4, Zenon DEF Task, Panic
  <2>3. tasks' = (tasks \ {t}) \cup {u}
        /\ reply' = [r \in Req |-> IF r \in t.todo THEN "dropped" ELSE reply[r]]
    BY <1>4 DEF Panic, Replace
  <2> HIDE DEF u
  <2>2. u # t /\ u.todo \subseteq t.todo /\ t.todo \ u.todo = t.todo
    BY <2>1
  <2>4. /\ reply' \in [Req -> Replies]
        /\ \A r \in Req : IF r \in t.todo \ u.todo THEN reply'[r] \in {"answered", "dropped"}
                                                   ELSE reply'[r] = reply[r]
    BY <2>2, <2>3 DEF TypeOK, Replies
  <2> QED BY <1>4, <2>1, <2>2, <2>3, <2>4 DEF TaskStep, Panic
<1>5. ASSUME Release(t)
      PROVE  \E u \in Task : TaskStep(t, u)
  <2> DEFINE u == [t EXCEPT !.st = "released"]
  <2>1. u \in Task /\ u.members = t.members /\ u.kind = t.kind /\ u.todo = t.todo
        /\ u.st = "released" /\ t.st = "running" /\ t.todo = {}
    BY <1>2, <1>5 DEF Task, Release
  <2>2. tasks' = (tasks \ {t}) \cup {u} /\ reply' = reply
    BY <1>5 DEF Release, Replace
  <2> HIDE DEF u
  <2>3. u # t
    BY <2>1
  <2> QED BY <1>5, <2>1, <2>2, <2>3 DEF TaskStep, Release, TypeOK
<1>6. ASSUME Finish(t)
      PROVE  \E u \in Task : TaskStep(t, u)
  <2> DEFINE u == [t EXCEPT !.st = "finished"]
  <2>1. u \in Task /\ u.members = t.members /\ u.kind = t.kind /\ u.todo = t.todo
        /\ u.st = "finished" /\ t.st = "released" /\ t.todo = {}
    BY <1>2, <1>6 DEF Task, Finish
  <2>2. tasks' = (tasks \ {t}) \cup {u} /\ reply' = reply
    BY <1>6 DEF Finish, Replace
  <2> HIDE DEF u
  <2>3. u # t
    BY <2>1
  <2> QED BY <1>6, <2>1, <2>2, <2>3 DEF TaskStep, Finish, TypeOK
<1> QED BY <1>1, <1>3, <1>4, <1>5, <1>6

\* Such a replacement keeps the join set well formed, with the same members.
LEMMA TaskStepFacts ==
  ASSUME TypeOK, Structure, NEW t \in tasks, NEW u \in Task, TaskStep(t, u)
  PROVE  /\ tasks' \subseteq Task
         /\ TasksOK'
         /\ u \notin tasks
         /\ MembersOf(tasks)' = MembersOf(tasks)
         /\ IsFiniteSet(tasks')
<1>1. t.todo \subseteq t.members
  BY DEF Structure, TasksOK
<1>2. MembersOf(tasks)' = MembersOf(tasks')
  BY DEF MembersOf
<1> QED BY <1>1, <1>2, ReplaceOK, Zenon DEF TaskStep, Structure, AllFinite

\* Such a replacement keeps every request in its one place.
LEMMA TaskStepStructure ==
  ASSUME TypeOK, Structure, NEW t \in tasks, NEW u \in Task, TaskStep(t, u)
  PROVE  Structure'
<1>1. UNCHANGED <<inbox, pc, requests, batch, bg_batch, lost>>
      /\ Elems(inbox)' = Elems(inbox) /\ Elems(requests)' = Elems(requests)
  BY DEF TaskStep, Elems
<1>2. \A r \in Req : reply'[r] = "unsent" => reply[r] = "unsent"
  BY DEF TaskStep
<1>3. Separate'
  BY <1>1, <1>2, TaskStepFacts DEF Structure, Separate
<1> QED BY <1>1, <1>3, TaskStepFacts DEF Structure, Locals, AllFinite

-----------------------------------------------------------------------------
\* The counter

\* The sizes that make up the count of active queries are natural numbers.
LEMMA Sizes ==
  ASSUME TypeOK, Structure
  PROVE  /\ Len(requests) \in Nat
         /\ Cardinality(batch) \in Nat
         /\ Cardinality(bg_batch) \in Nat
         /\ Cardinality(MembersOf(tasks)) \in Nat
         /\ Cardinality(lost) \in Nat
         /\ active_queries \in Nat
  BY FS_CardinalityType DEF TypeOK, Structure, AllFinite

\* fetch_add by the number of received requests keeps the count exact.
LEMMA RecvAccounting ==
  ASSUME IInv, Recv
  PROVE  ActiveQueriesAccounting'
<1>1. requests = <<>> /\ Len(requests) = 0
  BY DEF IInv, Structure, Locals, Recv
<1>2. active_queries' = active_queries + Len(requests') /\ Len(requests') \in Nat
  BY RecvStructure DEF IInv
<1>3. UNCHANGED <<batch, bg_batch, tasks, lost>> /\ MembersOf(tasks)' = MembersOf(tasks)
  BY DEF Recv, MembersOf
<1> QED BY <1>1, <1>2, <1>3, Sizes DEF IInv, ActiveQueriesAccounting

\* fetch_sub by one for a refused request keeps the count exact.
LEMMA RefuseAccounting ==
  ASSUME IInv, Refuse
  PROVE  ActiveQueriesAccounting'
<1>1. Len(requests') = Len(requests) - 1 /\ active_queries' = active_queries - 1
  BY PopFacts DEF IInv, Refuse
<1>2. UNCHANGED <<batch, bg_batch, tasks, lost>> /\ MembersOf(tasks)' = MembersOf(tasks)
  BY DEF Refuse, MembersOf
<1>3. /\ Len(requests) \in Nat /\ Cardinality(batch) \in Nat /\ Cardinality(bg_batch) \in Nat
      /\ Cardinality(MembersOf(tasks)) \in Nat /\ Cardinality(lost) \in Nat
  BY Sizes DEF IInv
<1>4. active_queries = Len(requests) + Cardinality(batch) + Cardinality(bg_batch)
                       + Cardinality(MembersOf(tasks)) + Cardinality(lost)
  BY DEF IInv, ActiveQueriesAccounting
<1>5. active_queries - 1 = (Len(requests) - 1) + Cardinality(batch) + Cardinality(bg_batch)
                           + Cardinality(MembersOf(tasks)) + Cardinality(lost)
  BY <1>3, <1>4, SMTT(30)
<1> QED BY <1>1, <1>2, <1>5 DEF ActiveQueriesAccounting

\* Moving a request into a batch keeps the count exact.
LEMMA AdmitAccounting ==
  ASSUME IInv, Admit
  PROVE  ActiveQueriesAccounting'
<1>1. Len(requests') = Len(requests) - 1 /\ Popped \in Elems(requests)
  BY PopFacts DEF IInv, Admit
<1>2. UNCHANGED <<active_queries, lost>> /\ MembersOf(tasks)' = MembersOf(tasks)
  BY DEF Admit, MembersOf
<1>3. Popped \notin batch /\ Popped \notin bg_batch
  BY <1>1 DEF IInv, Structure, Separate
<1>4. /\ Cardinality(batch \cup {Popped}) = Cardinality(batch) + 1
      /\ Cardinality(bg_batch \cup {Popped}) = Cardinality(bg_batch) + 1
  BY <1>3, FS_AddElement, Zenon DEF IInv, Structure, AllFinite
<1>5. active_queries = Len(requests) + Cardinality(batch) + Cardinality(bg_batch)
                       + Cardinality(MembersOf(tasks)) + Cardinality(lost)
  BY DEF IInv, ActiveQueriesAccounting
<1>6. Len(requests) \in Nat /\ Cardinality(batch) \in Nat /\ Cardinality(bg_batch) \in Nat
      /\ Cardinality(MembersOf(tasks)) \in Nat /\ Cardinality(lost) \in Nat
  BY Sizes DEF IInv
<1>7. CASE Popped \in Background
  <2>1. bg_batch' = bg_batch \cup {Popped} /\ batch' = batch
    BY <1>7 DEF Admit
  <2> QED BY <1>1, <1>2, <1>4, <1>5, <1>6, <2>1 DEF ActiveQueriesAccounting
<1>8. CASE Popped \notin Background
  <2>1. batch' = batch \cup {Popped} /\ bg_batch' = bg_batch
    BY <1>8 DEF Admit
  <2> QED BY <1>1, <1>2, <1>4, <1>5, <1>6, <2>1 DEF ActiveQueriesAccounting
<1> QED BY <1>7, <1>8

\* Spawning, or keeping, the background batch keeps the count exact.
LEMMA SpawnBgAccounting ==
  ASSUME IInv, SpawnBg
  PROVE  ActiveQueriesAccounting'
<1>1. UNCHANGED <<active_queries, requests, batch, lost>>
  BY DEF SpawnBg
<1>2. CASE bg_batch # {} /\ bg_permits > 0
  <2>1. tasks' = tasks \cup {NewTask("bg", bg_batch)} /\ bg_batch' = {}
    BY <1>2 DEF SpawnBg
  <2>2. bg_batch \in SUBSET Req /\ IsFiniteSet(bg_batch) /\ bg_batch \cap MembersOf(tasks) = {}
    BY DEF IInv, TypeOK, Structure, Separate, AllFinite
  <2>3. Cardinality(MembersOf(tasks)') = Cardinality(MembersOf(tasks)) + Cardinality(bg_batch)
    BY <1>2, <2>1, <2>2, SpawnOK DEF IInv, Structure
  <2>4. Cardinality(bg_batch') = 0
    BY <2>1, FS_EmptySet
  <2> QED BY <1>1, <2>3, <2>4, Sizes DEF IInv, ActiveQueriesAccounting
<1>3. CASE ~(bg_batch # {} /\ bg_permits > 0)
  <2>1. UNCHANGED <<tasks, bg_batch>>
    BY <1>3 DEF SpawnBg
  <2> QED BY <1>1, <2>1 DEF IInv, ActiveQueriesAccounting, MembersOf
<1> QED BY <1>2, <1>3

\* Spawning, or losing, the foreground batch keeps the count exact.
LEMMA SpawnFgAccounting ==
  ASSUME IInv, SpawnFg
  PROVE  ActiveQueriesAccounting'
<1>1. UNCHANGED <<active_queries, requests, bg_batch>> /\ batch' = {}
  BY DEF SpawnFg
<1>2. batch \in SUBSET Req /\ IsFiniteSet(batch) /\ batch \cap MembersOf(tasks) = {}
      /\ lost \cap batch = {} /\ IsFiniteSet(lost)
  BY DEF IInv, TypeOK, Structure, Separate, AllFinite
<1>3. Cardinality(batch') = 0
  BY <1>1, FS_EmptySet
<1>4. CASE batch # {} /\ fg_permits > 0
  <2>1. tasks' = tasks \cup {NewTask("fg", batch)} /\ lost' = lost
    BY <1>4 DEF SpawnFg
  <2>2. Cardinality(MembersOf(tasks)') = Cardinality(MembersOf(tasks)) + Cardinality(batch)
    BY <1>2, <1>4, <2>1, SpawnOK DEF IInv, Structure
  <2> QED BY <1>1, <1>3, <2>1, <2>2, Sizes DEF IInv, ActiveQueriesAccounting
<1>5. CASE ~(batch # {} /\ fg_permits > 0)
  <2>1. lost' = lost \cup batch /\ MembersOf(tasks)' = MembersOf(tasks)
    BY <1>5 DEF SpawnFg, MembersOf
  <2>2. Cardinality(lost') = Cardinality(lost) + Cardinality(batch)
    BY <1>2, <2>1, DisjointUnion
  <2> QED BY <1>1, <1>3, <2>1, <2>2, Sizes DEF IInv, ActiveQueriesAccounting
<1> QED BY <1>4, <1>5

\* fetch_sub by the sizes of the finished batches keeps the count exact.
LEMMA ReapAccounting ==
  ASSUME IInv, Reap
  PROVE  ActiveQueriesAccounting'
<1> DEFINE F == MembersOf(Finished)
           P == MembersOf(Panicked)
           M == MembersOf(tasks)'
<1>1. UNCHANGED <<requests, batch, bg_batch>> /\ lost' = lost \cup P
      /\ active_queries' = active_queries - Cardinality(F)
  BY DEF Reap
<1>2. MembersOf(tasks) = (M \cup F) \cup P /\ M \cap F = {} /\ (M \cup F) \cap P = {}
      /\ IsFiniteSet(M) /\ IsFiniteSet(F) /\ IsFiniteSet(P)
  BY ReapFacts DEF IInv
<1>3. lost \cap P = {} /\ IsFiniteSet(lost)
  BY <1>2 DEF IInv, Structure, Separate, AllFinite
<1> HIDE DEF F, P, M
<1>4. Cardinality(lost') = Cardinality(lost) + Cardinality(P)
  BY <1>1, <1>2, <1>3, DisjointUnion
<1>5. IsFiniteSet(M \cup F) /\ Cardinality(M \cup F) = Cardinality(M) + Cardinality(F)
  BY <1>2, DisjointUnion
<1>6. Cardinality(MembersOf(tasks)) = Cardinality(M \cup F) + Cardinality(P)
  BY <1>2, <1>5, DisjointUnion
<1>7. Cardinality(M) \in Nat /\ Cardinality(F) \in Nat /\ Cardinality(P) \in Nat
  BY <1>2, FS_CardinalityType
<1>8. active_queries = Len(requests) + Cardinality(batch) + Cardinality(bg_batch)
                       + (Cardinality(M) + Cardinality(F) + Cardinality(P)) + Cardinality(lost)
  BY <1>5, <1>6 DEF IInv, ActiveQueriesAccounting
<1>9. active_queries' = Len(requests) + Cardinality(batch) + Cardinality(bg_batch)
                        + Cardinality(M) + Cardinality(lost')
  <2>1. Len(requests) \in Nat /\ Cardinality(batch) \in Nat /\ Cardinality(bg_batch) \in Nat
        /\ Cardinality(lost) \in Nat
    BY Sizes DEF IInv
  <2>2. active_queries - Cardinality(F)
          = Len(requests) + Cardinality(batch) + Cardinality(bg_batch)
            + Cardinality(M) + (Cardinality(lost) + Cardinality(P))
    BY <1>7, <1>8, <2>1, SMTT(30)
  <2> QED BY <1>1, <1>4, <2>2
<1> QED BY <1>1, <1>9 DEF ActiveQueriesAccounting, M

\* A step inside a batch does not touch the count.
LEMMA TaskStepAccounting ==
  ASSUME IInv, NEW t \in tasks, NEW u \in Task, TaskStep(t, u)
  PROVE  ActiveQueriesAccounting'
<1>1. UNCHANGED <<requests, batch, bg_batch, lost, active_queries>>
  BY DEF TaskStep
<1>2. MembersOf(tasks)' = MembersOf(tasks)
  BY TaskStepFacts DEF IInv
<1> QED BY <1>1, <1>2 DEF IInv, ActiveQueriesAccounting

-----------------------------------------------------------------------------
\* The semaphores

\* A spawned task of one kind is one more holder of that kind's permits.
LEMMA SpawnPermits ==
  ASSUME TypeOK, Structure, NEW k \in {"bg", "fg"}, NEW j \in {"bg", "fg"}, j # k,
         NEW S \in SUBSET Req, NewTask(k, S) \notin tasks,
         tasks' = tasks \cup {NewTask(k, S)}
  PROVE  /\ Cardinality(Running(k)') = Cardinality(Running(k)) + 1
         /\ Running(j)' = Running(j)
         /\ Cardinality(Running(k)) \in Nat
<1> DEFINE u == NewTask(k, S)
<1>1. u.kind = k /\ u.st = "running"
  BY DEF NewTask
<1>2. Running(k)' = Running(k) \cup {u} /\ u \notin Running(k) /\ Running(j)' = Running(j)
  BY <1>1 DEF Running
<1>3. IsFiniteSet(Running(k))
  BY FS_Subset DEF Running, Structure, AllFinite
<1> HIDE DEF u
<1> QED BY <1>2, <1>3, FS_AddElement, FS_CardinalityType

\* A task that stays running is replaced one for one; one that stops gives its
\* permit back.
LEMMA TaskStepPermits ==
  ASSUME IInv, NEW t \in tasks, NEW u \in Task, TaskStep(t, u)
  PROVE  PermitsBalanced'
<1>1. t \in Task /\ t.kind \in {"bg", "fg"} /\ u.kind = t.kind
  BY DEF IInv, TypeOK, TaskStep, Task
<1>2. tasks' = (tasks \ {t}) \cup {u} /\ u \notin tasks
  BY TaskStepFacts DEF IInv, TaskStep
<1>3. \A k \in {"bg", "fg"} : IsFiniteSet(Running(k)) /\ Cardinality(Running(k)) \in Nat
  <2>1. \A k \in {"bg", "fg"} : IsFiniteSet(Running(k))
    BY FS_Subset DEF Running, IInv, Structure, AllFinite
  <2> QED BY <2>1, FS_CardinalityType
<1>4. \A k \in {"bg", "fg"} : k # t.kind => Running(k)' = Running(k)
  BY <1>1, <1>2 DEF Running
<1>5. bg_permits \in Nat /\ fg_permits \in Nat /\ BG_PERMITS \in Nat /\ FG_PERMITS \in Nat
  BY DispatcherAssumption DEF IInv, TypeOK
<1>6. CASE t.st = "running" /\ u.st = "running" /\ UNCHANGED <<bg_permits, fg_permits>>
  <2>1. Running(t.kind)' = (Running(t.kind) \ {t}) \cup {u} /\ t \in Running(t.kind)
        /\ u \notin Running(t.kind) \ {t}
    BY <1>1, <1>2, <1>6 DEF Running
  <2>2. IsFiniteSet(Running(t.kind) \ {t})
        /\ Cardinality(Running(t.kind) \ {t}) = Cardinality(Running(t.kind)) - 1
    BY <1>1, <1>3, <2>1, FS_RemoveElement
  <2>6. Cardinality((Running(t.kind) \ {t}) \cup {u}) = Cardinality(Running(t.kind) \ {t}) + 1
    BY <2>1, <2>2, FS_AddElement, Zenon
  <2>3. Cardinality(Running(t.kind)') = Cardinality(Running(t.kind))
    BY <1>1, <1>3, <2>1, <2>2, <2>6
  <2>4. Cardinality(Running("bg")') = Cardinality(Running("bg"))
    BY <1>1, <1>4, <2>3
  <2>5. Cardinality(Running("fg")') = Cardinality(Running("fg"))
    BY <1>1, <1>4, <2>3
  <2> QED BY <1>6, <2>4, <2>5 DEF IInv, PermitsBalanced
<1>7. CASE t.st = "running" /\ u.st # "running" /\ DropPermit(t)
  <2>1. Running(t.kind)' = Running(t.kind) \ {t} /\ t \in Running(t.kind)
    BY <1>1, <1>2, <1>7 DEF Running
  <2>2. Cardinality(Running(t.kind)') = Cardinality(Running(t.kind)) - 1
    <3>1. IsFiniteSet(Running(t.kind))
      BY <1>1, <1>3
    <3>2. Cardinality(Running(t.kind) \ {t}) = Cardinality(Running(t.kind)) - 1
      BY <2>1, <3>1, FS_RemoveElement, Zenon
    <3> QED BY <2>1, <3>2
  <2>3. CASE t.kind = "bg"
    <3>1. bg_permits' = bg_permits + 1 /\ fg_permits' = fg_permits
      BY <1>7, <2>3 DEF DropPermit
    <3>2. Running("fg")' = Running("fg")
      BY <1>4, <2>3
    <3> QED BY <1>3, <1>5, <2>2, <2>3, <3>1, <3>2 DEF IInv, PermitsBalanced
  <2>4. CASE t.kind = "fg"
    <3>1. fg_permits' = fg_permits + 1 /\ bg_permits' = bg_permits
      BY <1>7, <2>4 DEF DropPermit
    <3>2. Running("bg")' = Running("bg")
      BY <1>4, <2>4
    <3> QED BY <1>3, <1>5, <2>2, <2>4, <3>1, <3>2 DEF IInv, PermitsBalanced
  <2> QED BY <1>1, <2>3, <2>4
<1>8. CASE t.st # "running" /\ u.st # "running" /\ UNCHANGED <<bg_permits, fg_permits>>
  <2>1. Running("bg")' = Running("bg") /\ Running("fg")' = Running("fg")
    BY <1>2, <1>8 DEF Running
  <2> QED BY <1>8, <2>1 DEF IInv, PermitsBalanced
<1> QED BY <1>6, <1>7, <1>8 DEF TaskStep

\* The background semaphore gives a permit for each batch it lets through.
LEMMA SpawnBgPermits ==
  ASSUME IInv, SpawnBg
  PROVE  PermitsBalanced'
<1>1. CASE bg_batch # {} /\ bg_permits > 0
  <2>1. tasks' = tasks \cup {NewTask("bg", bg_batch)} /\ bg_permits' = bg_permits - 1
        /\ fg_permits' = fg_permits
    BY <1>1 DEF SpawnBg
  <2>2. bg_batch \in SUBSET Req /\ IsFiniteSet(bg_batch) /\ bg_batch \cap MembersOf(tasks) = {}
    BY DEF IInv, TypeOK, Structure, Separate, AllFinite
  <2>3. NewTask("bg", bg_batch) \notin tasks
    BY <1>1, <2>1, <2>2, SpawnOK DEF IInv, Structure
  <2>4. Cardinality(Running("bg")') = Cardinality(Running("bg")) + 1
        /\ Running("fg")' = Running("fg") /\ Cardinality(Running("bg")) \in Nat
    BY <2>1, <2>2, <2>3, SpawnPermits DEF IInv
  <2>5. bg_permits \in Nat /\ BG_PERMITS \in Nat
    BY DispatcherAssumption DEF IInv, TypeOK
  <2> QED BY <2>1, <2>4, <2>5 DEF IInv, PermitsBalanced
<1>2. CASE ~(bg_batch # {} /\ bg_permits > 0)
  BY <1>2, Zenon DEF SpawnBg, IInv, PermitsBalanced, Running
<1> QED BY <1>1, <1>2

\* The foreground semaphore gives a permit for each batch it lets through.
LEMMA SpawnFgPermits ==
  ASSUME IInv, SpawnFg
  PROVE  PermitsBalanced'
<1>1. CASE batch # {} /\ fg_permits > 0
  <2>1. tasks' = tasks \cup {NewTask("fg", batch)} /\ fg_permits' = fg_permits - 1
        /\ bg_permits' = bg_permits
    BY <1>1 DEF SpawnFg
  <2>2. batch \in SUBSET Req /\ IsFiniteSet(batch) /\ batch \cap MembersOf(tasks) = {}
    BY DEF IInv, TypeOK, Structure, Separate, AllFinite
  <2>3. NewTask("fg", batch) \notin tasks
    BY <1>1, <2>1, <2>2, SpawnOK DEF IInv, Structure
  <2>4. Cardinality(Running("fg")') = Cardinality(Running("fg")) + 1
        /\ Running("bg")' = Running("bg") /\ Cardinality(Running("fg")) \in Nat
    BY <2>1, <2>2, <2>3, SpawnPermits DEF IInv
  <2>5. fg_permits \in Nat /\ FG_PERMITS \in Nat
    BY DispatcherAssumption DEF IInv, TypeOK
  <2> QED BY <2>1, <2>4, <2>5 DEF IInv, PermitsBalanced
<1>2. CASE ~(batch # {} /\ fg_permits > 0)
  BY <1>2, Zenon DEF SpawnFg, IInv, PermitsBalanced, Running
<1> QED BY <1>1, <1>2

\* Reaped tasks have dropped their permits before.
LEMMA ReapPermits ==
  ASSUME IInv, Reap
  PROVE  PermitsBalanced'
<1>1. UNCHANGED <<bg_permits, fg_permits>>
  BY DEF Reap
<1>2. Running("bg")' = Running("bg") /\ Running("fg")' = Running("fg")
  BY DEF Reap, Running, Finished, Panicked
<1> QED BY <1>1, <1>2 DEF IInv, PermitsBalanced

-----------------------------------------------------------------------------
\* Reply channels

\* Queries whose future is still to complete.
ToDo == UNION {t.todo : t \in tasks}

\* A client that starts to wait has its sender in the channel.
LEMMA SendWaiter ==
  ASSUME IInv, NEW q \in Req, Send(q)
  PROVE  NoOrphanedWaiter'
<1>1. Elems(inbox') = Elems(inbox) \cup {q}
  BY AppendDistinct DEF IInv, TypeOK, Structure, Separate, Send
<1>2. Elems(requests)' = Elems(requests) /\ InFlight' = InFlight
  BY DEF Send, Elems, InFlight
<1>3. reply' = [reply EXCEPT ![q] = "waiting"] /\ reply \in [Req -> Replies]
  BY DEF Send, IInv, TypeOK
<1> QED BY <1>1, <1>2, <1>3 DEF IInv, NoOrphanedWaiter

\* The senders of received requests are in the local vector.
LEMMA RecvWaiter ==
  ASSUME IInv, Recv
  PROVE  NoOrphanedWaiter'
<1>1. requests = <<>> /\ Elems(requests) = {}
  BY DEF IInv, Structure, Locals, Recv, Elems
<1>2. Elems(inbox) = Elems(requests') \cup Elems(inbox')
  BY RecvStructure DEF IInv
<1>3. InFlight' = InFlight /\ reply' = reply
  BY DEF Recv, InFlight
<1> QED BY <1>1, <1>2, <1>3 DEF IInv, NoOrphanedWaiter

\* A refused client has its reply, the others their senders.
LEMMA RefuseWaiter ==
  ASSUME IInv, Refuse
  PROVE  NoOrphanedWaiter'
<1>1. Elems(requests) = Elems(requests') \cup {Popped} /\ Popped \notin Elems(requests')
      /\ Popped \in Req
  BY PopFacts DEF IInv, Refuse
<1>2. ToDo \subseteq MembersOf(tasks)
  BY DEF IInv, Structure, TasksOK, ToDo, MembersOf
<1>3. Popped \notin InFlight /\ Popped \notin Elems(inbox)
  BY <1>1, <1>2 DEF IInv, Structure, Separate, InFlight, ToDo
<1>4. InFlight' = InFlight /\ Elems(inbox)' = Elems(inbox)
  BY DEF Refuse, InFlight, Elems
<1>5. reply' = [reply EXCEPT ![Popped] = "refused"] /\ reply \in [Req -> Replies]
  BY DEF Refuse, IInv, TypeOK
<1> QED BY <1>1, <1>3, <1>4, <1>5 DEF IInv, NoOrphanedWaiter

\* An admitted request takes its sender into the batch.
LEMMA AdmitWaiter ==
  ASSUME IInv, Admit
  PROVE  NoOrphanedWaiter'
<1>1. Elems(requests) = Elems(requests') \cup {Popped}
  BY PopFacts DEF IInv, Admit
<1>2. InFlight' = InFlight \cup {Popped}
  BY DEF Admit, InFlight
<1>3. Elems(inbox)' = Elems(inbox) /\ reply' = reply
  BY DEF Admit, Elems
<1> QED BY <1>1, <1>2, <1>3 DEF IInv, NoOrphanedWaiter

\* A spawned task has all its requests still to answer.
LEMMA ToDoAdd ==
  ASSUME NEW k, NEW S, tasks' = tasks \cup {NewTask(k, S)}
  PROVE  ToDo' = ToDo \cup S
<1>1. NewTask(k, S).todo = S
  BY DEF NewTask
<1> QED BY <1>1 DEF ToDo

\* The senders of a background batch are in its task, or stay in the batch.
LEMMA SpawnBgWaiter ==
  ASSUME IInv, SpawnBg
  PROVE  NoOrphanedWaiter'
<1>1. UNCHANGED <<reply, inbox, requests, batch>>
      /\ Elems(inbox)' = Elems(inbox) /\ Elems(requests)' = Elems(requests)
  BY DEF SpawnBg, Elems
<1>2. InFlight = batch \cup bg_batch \cup ToDo /\ InFlight' = batch' \cup bg_batch' \cup ToDo'
  BY DEF InFlight, ToDo
<1>3. InFlight' = InFlight
  <2>1. CASE bg_batch # {} /\ bg_permits > 0
    <3>1. ToDo' = ToDo \cup bg_batch /\ bg_batch' = {}
      BY <2>1, ToDoAdd DEF SpawnBg
    <3> QED BY <1>1, <1>2, <3>1
  <2>2. CASE ~(bg_batch # {} /\ bg_permits > 0)
    BY <1>1, <2>2 DEF SpawnBg, InFlight
  <2> QED BY <2>1, <2>2
<1> QED BY <1>1, <1>3 DEF IInv, NoOrphanedWaiter

\* The senders of a foreground batch are in its task, or are dropped with it.
LEMMA SpawnFgWaiter ==
  ASSUME IInv, SpawnFg
  PROVE  NoOrphanedWaiter'
<1>1. UNCHANGED <<inbox, requests, bg_batch>> /\ batch' = {}
      /\ Elems(inbox)' = Elems(inbox) /\ Elems(requests)' = Elems(requests)
  BY DEF SpawnFg, Elems
<1>2. InFlight = batch \cup bg_batch \cup ToDo /\ InFlight' = batch' \cup bg_batch' \cup ToDo'
  BY DEF InFlight, ToDo
<1>3. CASE batch # {} /\ fg_permits > 0
  <2>1. ToDo' = ToDo \cup batch /\ reply' = reply
    BY <1>3, ToDoAdd DEF SpawnFg
  <2>2. InFlight' = InFlight
    BY <1>1, <1>2, <2>1
  <2> QED BY <1>1, <2>1, <2>2 DEF IInv, NoOrphanedWaiter
<1>4. CASE ~(batch # {} /\ fg_permits > 0)
  <2>1. ToDo' = ToDo /\ reply' = [q \in Req |-> IF q \in batch THEN "dropped" ELSE reply[q]]
    BY <1>4 DEF SpawnFg, ToDo
  <2>2. ToDo \subseteq MembersOf(tasks)
    BY DEF IInv, Structure, TasksOK, ToDo, MembersOf
  <2>3. \A q \in batch : q \notin Elems(inbox) \cup Elems(requests) \cup bg_batch \cup ToDo
    BY <2>2 DEF IInv, Structure, Separate
  <2> QED BY <1>1, <1>2, <2>1, <2>3 DEF IInv, NoOrphanedWaiter
<1> QED BY <1>3, <1>4

\* Reaped tasks hold no sender.
LEMMA ReapWaiter ==
  ASSUME IInv, Reap
  PROVE  NoOrphanedWaiter'
<1>1. UNCHANGED <<reply, inbox, requests, batch, bg_batch>>
      /\ Elems(inbox)' = Elems(inbox) /\ Elems(requests)' = Elems(requests)
  BY DEF Reap, Elems
<1>2. \A t \in tasks : t.st # "running" => t.todo = {}
  BY DEF IInv, Structure, TasksOK
<1>3. ToDo' = ToDo
  BY <1>2 DEF Reap, ToDo, Finished, Panicked
<1>4. InFlight' = InFlight
  BY <1>1, <1>3 DEF InFlight, ToDo
<1> QED BY <1>1, <1>4 DEF IInv, NoOrphanedWaiter

\* A task answers a sender, or drops all it has when it panics.
LEMMA TaskStepWaiter ==
  ASSUME IInv, NEW t \in tasks, NEW u \in Task, TaskStep(t, u)
  PROVE  NoOrphanedWaiter'
<1>1. UNCHANGED <<inbox, requests, batch, bg_batch>>
      /\ Elems(inbox)' = Elems(inbox) /\ Elems(requests)' = Elems(requests)
  BY DEF TaskStep, Elems
<1>2. tasks' = (tasks \ {t}) \cup {u} /\ u.todo \subseteq t.todo
  BY DEF TaskStep
<1>3. \A x, y \in tasks : x # y => x.todo \cap y.todo = {}
  BY DEF IInv, Structure, TasksOK
<1>4. ToDo' = ToDo \ (t.todo \ u.todo) /\ t.todo \subseteq ToDo
  BY <1>2, <1>3 DEF ToDo
<1>5. ToDo \subseteq MembersOf(tasks)
  BY DEF IInv, Structure, TasksOK, ToDo, MembersOf
<1>6. \A r \in ToDo : r \notin Elems(inbox) \cup Elems(requests) \cup batch \cup bg_batch
  BY <1>5 DEF IInv, Structure, Separate
<1>7. InFlight = batch \cup bg_batch \cup ToDo /\ InFlight' = batch' \cup bg_batch' \cup ToDo'
  BY DEF InFlight, ToDo
<1>8. \A r \in Req : IF r \in t.todo \ u.todo THEN reply'[r] \in {"answered", "dropped"}
                                              ELSE reply'[r] = reply[r]
  BY Zenon DEF TaskStep
<1> QED BY <1>1, <1>4, <1>6, <1>7, <1>8 DEF IInv, NoOrphanedWaiter

-----------------------------------------------------------------------------
\* The invariant

\* The counter and the permits have their types because they are sums and
\* differences of sizes.
LEMMA NumbersTyped ==
  ASSUME Structure', ActiveQueriesAccounting', PermitsBalanced', requests' \in Seq(Req),
         bg_permits' \in Int, bg_permits' >= 0, fg_permits' \in Int, fg_permits' >= 0
  PROVE  active_queries' \in Nat /\ bg_permits' \in 0..BG_PERMITS /\ fg_permits' \in 0..FG_PERMITS
<1>1. /\ Cardinality(batch') \in Nat /\ Cardinality(bg_batch') \in Nat
      /\ Cardinality(lost') \in Nat /\ Cardinality(MembersOf(tasks)') \in Nat
  BY FS_CardinalityType DEF Structure, AllFinite
<1>2. Len(requests') \in Nat
  OBVIOUS
<1>3. active_queries' \in Nat
  BY <1>1, <1>2 DEF ActiveQueriesAccounting
<1>4. IsFiniteSet(Running("bg")') /\ IsFiniteSet(Running("fg")')
  BY FS_Subset DEF Running, Structure, AllFinite
<1>5. Cardinality(Running("bg")') \in Nat /\ Cardinality(Running("fg")') \in Nat
  BY <1>4, FS_CardinalityType
<1> QED BY <1>3, <1>5, DispatcherAssumption DEF PermitsBalanced

\* A step that leaves queues, batches, tasks, permits, replies and counter alone
\* keeps the invariant's conjuncts about them.
LEMMA Undisturbed ==
  ASSUME IInv, UNCHANGED <<reply, inbox, requests, batch, bg_batch, tasks, bg_permits,
                           fg_permits, active_queries, lost>>
  PROVE  /\ TasksOK' /\ Separate' /\ AllFinite'
         /\ ActiveQueriesAccounting' /\ PermitsBalanced' /\ NoOrphanedWaiter'
<1>1. /\ Elems(inbox)' = Elems(inbox) /\ Elems(requests)' = Elems(requests)
      /\ Distinct(inbox)' = Distinct(inbox) /\ Distinct(requests)' = Distinct(requests)
      /\ MembersOf(tasks)' = MembersOf(tasks) /\ InFlight' = InFlight
      /\ Running("bg")' = Running("bg") /\ Running("fg")' = Running("fg")
  BY DEF Elems, Distinct, MembersOf, InFlight, Running
<1>2. TasksOK' /\ AllFinite'
  BY <1>1 DEF IInv, Structure, TasksOK, AllFinite
<1>3. Separate'
  BY <1>1 DEF IInv, Structure, Separate
<1>4. ActiveQueriesAccounting' /\ PermitsBalanced'
  BY <1>1 DEF IInv, ActiveQueriesAccounting, PermitsBalanced
<1>5. NoOrphanedWaiter'
  BY <1>1 DEF IInv, NoOrphanedWaiter
<1> QED BY <1>2, <1>3, <1>4, <1>5

\* The inductive invariant holds when the dispatcher starts.
LEMMA InitIInv == Init => IInv
<1> SUFFICES ASSUME Init PROVE IInv
  OBVIOUS
<1>1. MembersOf(tasks) = {} /\ Elems(inbox) = {} /\ Elems(requests) = {} /\ InFlight = {}
  <2>1. MembersOf(tasks) = {} /\ InFlight = {}
    BY DEF Init, MembersOf, InFlight
  <2>2. Elems(inbox) = {} /\ Elems(requests) = {}
    BY DEF Init, Elems
  <2> QED BY <2>1, <2>2
<1>2. Running("bg") = {} /\ Running("fg") = {}
  BY DEF Init, Running
<1>3. TypeOK
  BY DispatcherAssumption, EmptySeq DEF Init, TypeOK, Replies
<1>4. Structure
  <2>1. TasksOK /\ Locals /\ Distinct(inbox) /\ Distinct(requests)
    BY DEF Init, TasksOK, Locals, Distinct
  <2>2. Separate
    BY <1>1, <2>1 DEF Init, Separate
  <2>3. AllFinite
    BY <1>1, FS_EmptySet, Zenon DEF Init, AllFinite
  <2> QED BY <2>1, <2>2, <2>3 DEF Structure
<1>5. ActiveQueriesAccounting
  BY <1>1, FS_EmptySet DEF Init, ActiveQueriesAccounting
<1>6. PermitsBalanced
  <2>1. Cardinality(Running("bg")) = 0 /\ Cardinality(Running("fg")) = 0
    BY <1>2, FS_EmptySet
  <2>2. BG_PERMITS \in Nat /\ FG_PERMITS \in Nat
    BY DispatcherAssumption
  <2> QED BY <2>1, <2>2 DEF Init, PermitsBalanced
<1>7. NoOrphanedWaiter
  BY <1>1 DEF Init, NoOrphanedWaiter
<1> QED BY <1>3, <1>4, <1>5, <1>6, <1>7 DEF IInv

\* Every step of the dispatcher keeps the inductive invariant.
LEMMA NextIInv == IInv /\ [Next]_vars => IInv'
<1> SUFFICES ASSUME IInv, [Next]_vars PROVE IInv'
  OBVIOUS
<1>0. TypeOK /\ Structure /\ bg_permits \in Nat /\ fg_permits \in Nat
  BY DEF IInv, TypeOK
<1>1. ASSUME NEW q \in Req, Send(q) PROVE IInv'
  <2>1. Structure' /\ NoOrphanedWaiter'
    BY <1>0, <1>1, SendStructure, SendWaiter
  <2>2. ActiveQueriesAccounting' /\ PermitsBalanced'
    BY <1>1 DEF Send, IInv, ActiveQueriesAccounting, PermitsBalanced, MembersOf, Running
  <2>3. TypeOK'
    BY <1>1 DEF Send, IInv, TypeOK, Replies
  <2> QED BY <2>1, <2>2, <2>3 DEF IInv
<1>2. ASSUME NEW l \in Limits, Reload(l) PROVE IInv'
  <2>1. TypeOK' /\ Locals'
    BY <1>2 DEF Reload, IInv, TypeOK, Structure, Locals
  <2> QED BY <1>2, <2>1, Undisturbed DEF Reload, IInv, Structure
<1>3. CASE Recv
  <2>1. Structure' /\ ActiveQueriesAccounting' /\ NoOrphanedWaiter'
        /\ inbox' \in Seq(Req) /\ requests' \in Seq(Req)
    BY <1>0, <1>3, RecvStructure, RecvAccounting, RecvWaiter
  <2>2. PermitsBalanced' /\ UNCHANGED <<bg_permits, fg_permits>>
    BY <1>3 DEF Recv, IInv, PermitsBalanced, Running
  <2>3. active_queries' \in Nat /\ bg_permits' \in 0..BG_PERMITS /\ fg_permits' \in 0..FG_PERMITS
    BY <1>0, <2>1, <2>2, NumbersTyped
  <2>4. TypeOK'
    BY <1>3, <2>1, <2>3, Zenon DEF Recv, IInv, TypeOK
  <2> QED BY <2>1, <2>2, <2>4 DEF IInv
<1>4. CASE ReadConfig
  <2>1. max_query_limit' \in Nat
    BY <1>4, DispatcherAssumption DEF ReadConfig, IInv, TypeOK
  <2>2. TypeOK' /\ Locals'
    BY <1>4, <2>1 DEF ReadConfig, IInv, TypeOK, Structure, Locals
  <2> QED BY <1>4, <2>2, Undisturbed DEF ReadConfig, IInv, Structure
<1>5. CASE Refuse
  <2>1. Structure' /\ ActiveQueriesAccounting' /\ NoOrphanedWaiter'
    BY <1>0, <1>5, RefuseStructure, RefuseAccounting, RefuseWaiter
  <2>2. PermitsBalanced' /\ UNCHANGED <<bg_permits, fg_permits>>
    BY <1>5 DEF Refuse, IInv, PermitsBalanced, Running
  <2>3. requests' \in Seq(Req)
    BY <1>0, <1>5, PopFacts DEF Refuse
  <2>4. active_queries' \in Nat /\ bg_permits' \in 0..BG_PERMITS /\ fg_permits' \in 0..FG_PERMITS
    BY <1>0, <2>1, <2>2, <2>3, NumbersTyped
  <2>5. TypeOK'
    BY <1>5, <2>3, <2>4, Zenon DEF Refuse, IInv, TypeOK, Replies
  <2> QED BY <2>1, <2>2, <2>5 DEF IInv
<1>6. CASE Admit
  <2>1. Structure' /\ ActiveQueriesAccounting' /\ NoOrphanedWaiter'
    BY <1>0, <1>6, AdmitStructure, AdmitAccounting, AdmitWaiter
  <2>2. PermitsBalanced' /\ UNCHANGED <<bg_permits, fg_permits>>
    BY <1>6 DEF Admit, IInv, PermitsBalanced, Running
  <2>3. requests' \in Seq(Req) /\ Popped \in Req
    BY <1>0, <1>6, PopFacts DEF Admit
  <2>4. TypeOK'
    BY <1>6, <2>3 DEF Admit, IInv, TypeOK
  <2> QED BY <2>1, <2>2, <2>4 DEF IInv
<1>7. CASE SpawnBg
  <2>1. Structure' /\ ActiveQueriesAccounting' /\ NoOrphanedWaiter' /\ PermitsBalanced'
    BY <1>0, <1>7, SpawnBgStructure, SpawnBgAccounting, SpawnBgWaiter, SpawnBgPermits
  <2>2. bg_permits' \in Int /\ bg_permits' >= 0 /\ fg_permits' = fg_permits
    BY <1>0, <1>7 DEF SpawnBg
  <2>3. requests' \in Seq(Req)
    BY <1>0, <1>7 DEF SpawnBg, TypeOK
  <2>4. active_queries' \in Nat /\ bg_permits' \in 0..BG_PERMITS /\ fg_permits' \in 0..FG_PERMITS
    BY <1>0, <2>1, <2>2, <2>3, NumbersTyped
  <2>5. tasks' \subseteq Task /\ bg_batch' \subseteq Req
    BY <1>0, <1>7 DEF SpawnBg, NewTask, Task, TypeOK
  <2>6. TypeOK'
    BY <1>7, <2>4, <2>5 DEF SpawnBg, IInv, TypeOK
  <2> QED BY <2>1, <2>6 DEF IInv
<1>8. CASE SpawnFg
  <2>1. Structure' /\ ActiveQueriesAccounting' /\ NoOrphanedWaiter' /\ PermitsBalanced'
    BY <1>0, <1>8, SpawnFgStructure, SpawnFgAccounting, SpawnFgWaiter, SpawnFgPermits
  <2>2. fg_permits' \in Int /\ fg_permits' >= 0 /\ bg_permits' = bg_permits
    BY <1>0, <1>8 DEF SpawnFg
  <2>3. requests' \in Seq(Req)
    BY <1>0, <1>8 DEF SpawnFg, TypeOK
  <2>4. active_queries' \in Nat /\ bg_permits' \in 0..BG_PERMITS /\ fg_permits' \in 0..FG_PERMITS
    BY <1>0, <2>1, <2>2, <2>3, NumbersTyped
  <2>5. tasks' \subseteq Task /\ batch' \subseteq Req /\ lost' \subseteq Req
    BY <1>0, <1>8 DEF SpawnFg, NewTask, Task, TypeOK
  <2>6. reply' \in [Req -> Replies]
    BY <1>0, <1>8 DEF SpawnFg, TypeOK, Replies
  <2>7. TypeOK'
    BY <1>8, <2>4, <2>5, <2>6 DEF SpawnFg, IInv, TypeOK
  <2> QED BY <2>1, <2>7 DEF IInv
<1>9. CASE Reap
  <2>1. Structure' /\ ActiveQueriesAccounting' /\ NoOrphanedWaiter' /\ PermitsBalanced'
    BY <1>0, <1>9, ReapStructure, ReapAccounting, ReapWaiter, ReapPermits
  <2>2. UNCHANGED <<bg_permits, fg_permits>> /\ requests' \in Seq(Req)
    BY <1>0, <1>9 DEF Reap, TypeOK
  <2>3. active_queries' \in Nat /\ bg_permits' \in 0..BG_PERMITS /\ fg_permits' \in 0..FG_PERMITS
    BY <1>0, <2>1, <2>2, NumbersTyped
  <2>4. tasks' \subseteq Task /\ lost' \subseteq Req
    BY <1>0, <1>9 DEF Reap, TypeOK, Task, MembersOf, Panicked
  <2>5. TypeOK'
    BY <1>9, <2>3, <2>4 DEF Reap, IInv, TypeOK
  <2> QED BY <2>1, <2>5 DEF IInv
<1>10. CASE RunTask
  <2>1. PICK t \in tasks, u \in Task : TaskStep(t, u)
    BY <1>0, <1>10, RunTaskStep
  <2>2. Structure' /\ ActiveQueriesAccounting' /\ NoOrphanedWaiter' /\ PermitsBalanced'
    BY <1>0, <2>1, TaskStepStructure, TaskStepAccounting, TaskStepWaiter, TaskStepPermits
  <2>3. bg_permits' \in Nat /\ fg_permits' \in Nat /\ requests' \in Seq(Req)
    BY <1>0, <2>1 DEF TaskStep, DropPermit, TypeOK
  <2>4. active_queries' \in Nat /\ bg_permits' \in 0..BG_PERMITS /\ fg_permits' \in 0..FG_PERMITS
    BY <2>2, <2>3, NumbersTyped
  <2>5. tasks' \subseteq Task
    BY <1>0, <2>1, TaskStepFacts
  <2>6. TypeOK'
    BY <2>1, <2>4, <2>5 DEF TaskStep, IInv, TypeOK
  <2> QED BY <2>2, <2>6 DEF IInv
<1>11. CASE UNCHANGED vars
  <2>1. TypeOK' /\ Locals'
    BY <1>11 DEF vars, IInv, TypeOK, Structure, Locals
  <2> QED BY <1>11, <2>1, Undisturbed DEF vars, IInv, Structure
<1> QED BY <1>1, <1>2, <1>3, <1>4, <1>5, <1>6, <1>7, <1>8, <1>9, <1>10, <1>11
           DEF Next, Dispatch

\* The dispatcher's inductive invariant holds in every reachable state.
THEOREM DispatcherInvariant == Spec => []IInv
  BY InitIInv, NextIInv, PTL DEF Spec

\* `active_queries` is exact: it never wraps below zero and never counts fewer
\* queries than the dispatcher holds (app.rs, serve).
THEOREM ActiveQueriesExact == Spec => []ActiveQueriesAccounting
<1>1. IInv => ActiveQueriesAccounting
  BY DEF IInv
<1> QED BY <1>1, DispatcherInvariant, PTL

\* Every variable of the dispatcher keeps its type.
THEOREM DispatcherTypes == Spec => []TypeOK
<1>1. IInv => TypeOK
  BY DEF IInv
<1> QED BY <1>1, DispatcherInvariant, PTL

\* The two semaphores never lose or invent a permit, even when a batch panics.
THEOREM PermitsNeverLeak == Spec => []PermitsBalanced
<1>1. IInv => PermitsBalanced
  BY DEF IInv
<1> QED BY <1>1, DispatcherInvariant, PTL

\* A waiting client's sender is always somewhere the dispatcher comes back to.
THEOREM WaitersAreHeld == Spec => []NoOrphanedWaiter
<1>1. IInv => NoOrphanedWaiter
  BY DEF IInv
<1> QED BY <1>1, DispatcherInvariant, PTL

-----------------------------------------------------------------------------
\* The limit

\* A popped foreground query that is let in was counted among at most
\* `max_query_limit` queries.
LEMMA AdmitBounded ==
  ASSUME IInv, Admit, NEW q \in Req \ Background, q \in batch' \ batch, max_query_limit > 0
  PROVE  Cardinality(InFlight \cup {q}) <= max_query_limit
<1>1. q = Popped /\ requests # <<>> /\ active_queries <= max_query_limit
  <2>1. q = Popped
    BY DEF Admit
  <2>2. active_queries \in Nat /\ max_query_limit \in Nat
    BY DEF IInv, TypeOK
  <2> QED BY <2>1, <2>2 DEF Admit, should_refuse_query
<1>2. Popped \in Elems(requests) /\ Len(requests) \in Nat /\ Len(requests) >= 1
  BY <1>1, PopFacts DEF IInv, TypeOK
<1> DEFINE M == MembersOf(tasks)
           U == (batch \cup bg_batch) \cup M
<1>3. IsFiniteSet(batch) /\ IsFiniteSet(bg_batch) /\ IsFiniteSet(M) /\ IsFiniteSet(lost)
      /\ batch \cap bg_batch = {} /\ (batch \cup bg_batch) \cap M = {} /\ Popped \notin U
  BY <1>2 DEF IInv, Structure, Separate, AllFinite
<1>4. InFlight \cup {q} \subseteq U \cup {Popped}
  <2>1. \A t \in tasks : t.todo \subseteq t.members
    BY DEF IInv, Structure, TasksOK
  <2>2. UNION {t.todo : t \in tasks} \subseteq M
    BY <2>1 DEF MembersOf
  <2> QED BY <1>1, <2>2 DEF InFlight
<1> HIDE DEF M
<1>5. IsFiniteSet(batch \cup bg_batch)
      /\ Cardinality(batch \cup bg_batch) = Cardinality(batch) + Cardinality(bg_batch)
  BY <1>3, DisjointUnion
<1>6. IsFiniteSet(U) /\ Cardinality(U) = Cardinality(batch \cup bg_batch) + Cardinality(M)
  BY <1>3, <1>5, DisjointUnion
<1> HIDE DEF U
<1>7. IsFiniteSet(U \cup {Popped}) /\ Cardinality(U \cup {Popped}) = Cardinality(U) + 1
  BY <1>3, <1>6, FS_AddElement, Zenon
<1>8. Cardinality(InFlight \cup {q}) <= Cardinality(U \cup {Popped})
      /\ IsFiniteSet(InFlight \cup {q})
  BY <1>4, <1>7, FS_Subset
<1>9. Cardinality(batch) \in Nat /\ Cardinality(bg_batch) \in Nat /\ Cardinality(M) \in Nat
      /\ Cardinality(lost) \in Nat /\ Cardinality(InFlight \cup {q}) \in Nat
  BY <1>3, <1>8, FS_CardinalityType
<1>10. active_queries = Len(requests) + Cardinality(batch) + Cardinality(bg_batch)
                        + Cardinality(M) + Cardinality(lost)
  BY DEF IInv, ActiveQueriesAccounting, M
<1>11. Cardinality(U \cup {Popped}) <= active_queries
  BY <1>2, <1>5, <1>6, <1>7, <1>9, <1>10
<1>12. active_queries \in Nat /\ max_query_limit \in Nat
  BY DEF IInv, TypeOK
<1> QED BY <1>1, <1>6, <1>7, <1>5, <1>8, <1>9, <1>11, <1>12

\* No step other than Admit puts a query into the foreground batch.
LEMMA OnlyAdmitAdds ==
  ASSUME TypeOK, Structure, [Next]_vars, NEW q \in batch' \ batch
  PROVE  Admit
<1>1. RunTask => batch' = batch
  <2> SUFFICES ASSUME RunTask PROVE batch' = batch
    OBVIOUS
  <2>1. \E t \in tasks : \E u \in Task : TaskStep(t, u)
    BY RunTaskStep
  <2> QED BY <2>1 DEF TaskStep
<1>2. Recv \/ ReadConfig \/ Refuse \/ SpawnBg \/ SpawnFg \/ Reap => batch' \subseteq batch
  BY DEF Recv, ReadConfig, Refuse, SpawnBg, SpawnFg, Reap
<1>3. (\E r \in Req : Send(r)) \/ (\E l \in Limits : Reload(l)) \/ UNCHANGED vars => batch' = batch
  BY DEF Send, Reload, vars
<1> QED BY <1>1, <1>2, <1>3 DEF Next, Dispatch

\* `should_refuse_query` enforces max-query-limit: a foreground query enters the
\* chain only when at most that many queries are in flight, itself included.
THEOREM LimitEnforced == Spec => AdmissionRespectsLimit
<1> DEFINE A == \A q \in Req \ Background :
                  q \in batch' \ batch /\ max_query_limit > 0
                    => Cardinality(InFlight \cup {q}) <= max_query_limit
<1>1. IInv /\ [Next]_vars => [A]_vars
  <2> SUFFICES ASSUME IInv, [Next]_vars, NEW q \in Req \ Background,
                      q \in batch' \ batch, max_query_limit > 0
               PROVE  Cardinality(InFlight \cup {q}) <= max_query_limit
    OBVIOUS
  <2>1. Admit
    BY OnlyAdmitAdds DEF IInv
  <2> QED BY <2>1, AdmitBounded
<1>2. AdmissionRespectsLimit <=> [][A]_vars
  BY DEF AdmissionRespectsLimit
<1> HIDE DEF A
<1> QED BY <1>1, <1>2, DispatcherInvariant, PTL DEF Spec

-----------------------------------------------------------------------------
\* The dispatcher implements QueryService: a step of the loop or of a task either moves
\* queries from one abstract state to the next or changes nothing a caller of
\* DnsHandle::send could see.

\* The queries in processing wait, and are not in a queue.
LEMMA InFlightFacts ==
  ASSUME IInv
  PROVE  /\ InFlight \subseteq Req
         /\ \A q \in InFlight : reply[q] = "waiting"
         /\ \A q \in Elems(inbox) \cup Elems(requests) : q \notin InFlight
<1>1. \A t \in tasks : t.todo \subseteq t.members /\ t.todo \subseteq Req
  BY DEF IInv, TypeOK, Task, Structure, TasksOK
<1>2. UNION {t.todo : t \in tasks} \subseteq MembersOf(tasks)
  BY <1>1 DEF MembersOf
<1>3. InFlight \subseteq Req
  BY <1>1 DEF IInv, TypeOK, InFlight
<1>4. \A q \in InFlight : reply[q] = "waiting"
  BY <1>3 DEF IInv, NoOrphanedWaiter
<1>5. \A q \in Elems(inbox) \cup Elems(requests) : q \notin InFlight
  BY <1>2 DEF IInv, Structure, Separate, InFlight
<1> QED BY <1>3, <1>4, <1>5

\* What a caller sees of a query, from the places the dispatcher keeps it in.
LEMMA ServiceFacts ==
  ASSUME IInv
  PROVE  /\ Service = [q \in Req |-> Service[q]]
         /\ \A q \in Req : reply[q] # "waiting" => Service[q] = reply[q]
         /\ \A q \in InFlight : q \in Req /\ Service[q] = "inflight"
         /\ \A q \in Elems(inbox) \cup Elems(requests) : q \in Req => Service[q] = "queued"
         /\ Abstract!InState("inflight") = InFlight
<1>1. /\ InFlight \subseteq Req
      /\ \A q \in InFlight : reply[q] = "waiting"
      /\ \A q \in Elems(inbox) \cup Elems(requests) : q \notin InFlight
  BY InFlightFacts
<1>2. \A q \in Req : q \in Elems(inbox) \cup Elems(requests) => reply[q] = "waiting"
  BY DEF IInv, NoOrphanedWaiter
<1>3. \A q \in Req : reply[q] # "inflight"
  BY DEF IInv, TypeOK, Replies
<1>4. \A q \in Req : Service[q] = "inflight" <=> q \in InFlight
  BY <1>1, <1>3 DEF Service
<1>5. Abstract!InState("inflight") = InFlight
  BY <1>1, <1>4 DEF Abstract!InState
<1> QED BY <1>1, <1>2, <1>5 DEF Service

\* A step that changes neither a reply nor what is in processing is not seen.
LEMMA Unseen ==
  ASSUME reply' = reply, InFlight' = InFlight
  PROVE  Service' = Service
  BY DEF Service

\* A queue without duplicates is as long as the set of its elements is large.
LEMMA ElemsSize ==
  ASSUME NEW S, NEW s \in Seq(S), Distinct(s)
  PROVE  IsFiniteSet(Elems(s)) /\ Cardinality(Elems(s)) = Len(s)
<1> DEFINE n == Len(s)
           f == [i \in 1..n |-> s[i]]
<1>1. n \in Nat
  OBVIOUS
<1>2. f \in Bijection(1..n, Elems(s))
  BY DEF Distinct, Elems, Bijection, Injection, Surjection, IsInjective
<1>3. ExistsBijection(1..n, Elems(s))
  BY <1>2 DEF ExistsBijection
<1> HIDE DEF n, f
<1>4. IsFiniteSet(1..n) /\ Cardinality(1..n) = n
  BY <1>1, FS_Interval
<1> QED BY <1>3, <1>4, FS_Bijection DEF n

\* The counter is the number of the queries it stands for.
LEMMA CountedSize ==
  ASSUME IInv
  PROVE  IsFiniteSet(Counted) /\ Cardinality(Counted) = active_queries
<1> DEFINE R == Elems(requests)
           M == MembersOf(tasks)
<1>1. IsFiniteSet(R) /\ Cardinality(R) = Len(requests)
  BY ElemsSize DEF IInv, TypeOK, Structure, Separate
<1>2. /\ IsFiniteSet(batch) /\ IsFiniteSet(bg_batch) /\ IsFiniteSet(M) /\ IsFiniteSet(lost)
      /\ R \cap batch = {} /\ (R \cup batch) \cap bg_batch = {}
      /\ (R \cup batch \cup bg_batch) \cap M = {}
      /\ (R \cup batch \cup bg_batch \cup M) \cap lost = {}
  BY DEF IInv, Structure, Separate, AllFinite
<1>3. active_queries = Len(requests) + Cardinality(batch) + Cardinality(bg_batch)
                       + Cardinality(M) + Cardinality(lost)
  BY DEF IInv, ActiveQueriesAccounting
<1>4. Counted = R \cup batch \cup bg_batch \cup M \cup lost
  BY DEF Counted
<1> HIDE DEF R, M
<1>5. /\ IsFiniteSet(R \cup batch)
      /\ Cardinality(R \cup batch) = Cardinality(R) + Cardinality(batch)
  BY <1>1, <1>2, DisjointUnion
<1>6. /\ IsFiniteSet(R \cup batch \cup bg_batch)
      /\ Cardinality(R \cup batch \cup bg_batch) = Cardinality(R \cup batch) + Cardinality(bg_batch)
  BY <1>2, <1>5, DisjointUnion
<1>7. /\ IsFiniteSet(R \cup batch \cup bg_batch \cup M)
      /\ Cardinality(R \cup batch \cup bg_batch \cup M)
           = Cardinality(R \cup batch \cup bg_batch) + Cardinality(M)
  BY <1>2, <1>6, DisjointUnion
<1>8. /\ IsFiniteSet(Counted)
      /\ Cardinality(Counted) = Cardinality(R \cup batch \cup bg_batch \cup M) + Cardinality(lost)
  BY <1>2, <1>4, <1>7, DisjointUnion
<1> QED BY <1>1, <1>3, <1>5, <1>6, <1>7, <1>8

\* A step that moves no query between the loop's places changes nothing of what is counted.
LEMMA CountedKept ==
  ASSUME UNCHANGED <<requests, batch, bg_batch, lost>>, MembersOf(tasks)' = MembersOf(tasks)
  PROVE  Counted' = Counted
  BY DEF Counted, Elems

\* Nor does a step of a task.
LEMMA TaskStepCounted ==
  ASSUME IInv, RunTask
  PROVE  Counted' = Counted
<1>1. PICK t \in tasks : \E u \in Task : TaskStep(t, u)
  BY RunTaskStep DEF IInv
<1>2. PICK u \in Task : TaskStep(t, u)
  BY <1>1
<1>3. MembersOf(tasks)' = MembersOf(tasks)
  BY <1>2, TaskStepFacts DEF IInv
<1> QED BY <1>2, <1>3, CountedKept DEF TaskStep

\* Sending a query, taking in or refusing a popped one, answering one, giving up a
\* set of them: what the step does to the replies and to InFlight moves exactly these
\* queries.
LEMMA Moves ==
  ASSUME IInv, NEW Q \in SUBSET Req, NEW to \in {"answered", "refused", "dropped"},
         \A q \in Req : reply'[q] = IF q \in Q THEN to ELSE reply[q],
         InFlight' = InFlight \ Q
  PROVE  Service' = [q \in Req |-> IF q \in Q THEN to ELSE Service[q]]
  BY DEF Service

-----------------------------------------------------------------------------
\* A sent query is queued.
LEMMA SendImplements ==
  ASSUME IInv, NEW q \in Req, Send(q)
  PROVE  Abstract!Send(q)
<1>1. reply[q] = "unsent" /\ q \notin InFlight
  BY InFlightFacts DEF Send
<1>2. InFlight' = InFlight /\ max_query_limit' = max_query_limit
  BY DEF Send, InFlight
<1>3. Service[q] = "unsent"
  BY <1>1 DEF Service
<1>4. reply' = [reply EXCEPT ![q] = "waiting"] /\ reply \in [Req -> Replies]
  BY DEF Send, IInv, TypeOK
<1>5. Service' = [r \in Req |-> IF r \in {q} THEN "queued" ELSE Service[r]]
  BY <1>1, <1>2, <1>4 DEF Service
<1>6. Counted' = Counted
  BY CountedKept DEF Send, MembersOf
<1> QED BY <1>2, <1>3, <1>5, <1>6 DEF Abstract!Send, Abstract!Move, Abstract!InState

\* recv_many takes in queries that wait in the channel.
LEMMA RecvImplements ==
  ASSUME IInv, Recv
  PROVE  Abstract!Receive
<1>1. UNCHANGED <<reply, batch, bg_batch, tasks, lost, max_query_limit>>
      /\ MembersOf(tasks)' = MembersOf(tasks)
  BY DEF Recv, MembersOf
<1>2. Service' = Service
  BY <1>1, Unseen DEF InFlight
<1>3. requests = <<>> /\ Elems(inbox) = Elems(requests') \cup Elems(inbox')
  BY RecvStructure DEF IInv, Structure, Locals, Recv
<1>4. Elems(requests) = {} /\ Elems(requests)' = Elems(requests')
  BY <1>3 DEF Elems
<1>5. Counted' = Counted \cup Elems(requests')
  BY <1>1, <1>4 DEF Counted
<1>6. \A q \in Elems(inbox) : q \in Req /\ Service[q] = "queued" /\ q \notin Counted
  <2>1. \A q \in Elems(inbox) : q \in Req
    BY DEF IInv, TypeOK, Elems
  <2> QED BY <2>1, ServiceFacts DEF IInv, Structure, Separate, Counted
<1>7. Elems(requests') \in SUBSET (Abstract!InState("queued") \ Counted)
  BY <1>3, <1>6 DEF Abstract!InState
<1> QED BY <1>1, <1>2, <1>5, <1>7 DEF Abstract!Receive

\* The popped query was queued.
LEMMA PoppedQueued ==
  ASSUME IInv, requests # <<>>
  PROVE  Popped \in Req /\ Service[Popped] = "queued" /\ Popped \notin InFlight
         /\ reply[Popped] = "waiting" /\ Popped \in Counted
<1>1. Popped \in Req /\ Popped \in Elems(requests)
  BY PopFacts DEF IInv
<1> QED BY <1>1, ServiceFacts, InFlightFacts DEF IInv, NoOrphanedWaiter, Counted

\* Only a client query is refused, and only while more queries than the limit are counted.
LEMMA RefuseImplements ==
  ASSUME IInv, Refuse
  PROVE  Abstract!Refuse(Popped)
<1>1. Popped \in Req /\ Service[Popped] = "queued" /\ Popped \notin InFlight
      /\ Popped \in Counted
  BY PoppedQueued DEF Refuse
<1>2. Popped \notin Background /\ max_query_limit > 0 /\ active_queries > max_query_limit
  BY DEF Refuse, should_refuse_query
<1>3. InFlight' = InFlight /\ max_query_limit' = max_query_limit
  BY DEF Refuse, InFlight
<1>4. reply' = [reply EXCEPT ![Popped] = "refused"] /\ reply \in [Req -> Replies]
  BY DEF Refuse, IInv, TypeOK
<1>5. Service' = [r \in Req |-> IF r \in {Popped} THEN "refused" ELSE Service[r]]
  BY <1>1, <1>3, <1>4 DEF Service
<1>6. Counted' = Counted \ {Popped}
  <2>1. Elems(requests) = Elems(Rest) \cup {Popped} /\ Popped \notin Elems(Rest)
        /\ Popped \in Elems(requests)
    BY PopFacts DEF Refuse, IInv
  <2>2. Elems(requests)' = Elems(Rest) /\ UNCHANGED <<batch, bg_batch, lost>>
        /\ MembersOf(tasks)' = MembersOf(tasks)
    BY DEF Refuse, Elems, MembersOf
  <2>3. Popped \notin batch \cup bg_batch \cup MembersOf(tasks) \cup lost
    BY <2>1 DEF IInv, Structure, Separate
  <2> QED BY <2>1, <2>2, <2>3 DEF Counted
<1>7. Abstract!Cardinality(Counted) = Cardinality(Counted)
  BY Zenon DEF Abstract!Cardinality, Cardinality
<1>8. Abstract!Cardinality(Counted) > max_query_limit
  BY <1>2, <1>7, CountedSize
<1>9. Abstract!Move({Popped}, "queued", "refused")
  BY <1>1, <1>5 DEF Abstract!Move, Abstract!InState
<1> QED BY <1>1, <1>2, <1>3, <1>6, <1>8, <1>9 DEF Abstract!Refuse

\* An admitted query goes from the queue into processing, within the limit.
LEMMA AdmitImplements ==
  ASSUME IInv, Admit
  PROVE  Abstract!Admit(Popped)
<1>1. Popped \in Req /\ Service[Popped] = "queued" /\ Popped \notin InFlight
      /\ reply[Popped] = "waiting" /\ Popped \in Counted
  BY PoppedQueued DEF Admit
<1>2. InFlight' = InFlight \cup {Popped} /\ max_query_limit' = max_query_limit
      /\ reply' = reply
  BY DEF Admit, InFlight
<1>3. Service' = [r \in Req |-> IF r \in {Popped} THEN "inflight" ELSE Service[r]]
  BY <1>1, <1>2 DEF Service
<1>4. Popped \notin Background => Popped \in batch' \ batch
  BY <1>1 DEF Admit, InFlight
<1>5. Popped \notin Background /\ max_query_limit > 0
        => Cardinality(InFlight \cup {Popped}) <= max_query_limit
  BY <1>1, <1>4, AdmitBounded
<1>6. Abstract!InState("inflight") = InFlight
  BY ServiceFacts
<1>7. Abstract!Move({Popped}, "queued", "inflight")
  BY <1>1, <1>3 DEF Abstract!Move, Abstract!InState
<1>8. Abstract!Cardinality(InFlight \cup {Popped}) = Cardinality(InFlight \cup {Popped})
  BY Zenon DEF Abstract!Cardinality, Cardinality
<1>9. Counted' = Counted
  <2>1. Elems(requests) = Elems(Rest) \cup {Popped}
    BY PopFacts DEF Admit, IInv
  <2>2. Elems(requests)' = Elems(Rest) /\ lost' = lost /\ MembersOf(tasks)' = MembersOf(tasks)
    BY DEF Admit, Elems, MembersOf
  <2>3. batch' \cup bg_batch' = batch \cup bg_batch \cup {Popped}
    BY DEF Admit
  <2> QED BY <2>1, <2>2, <2>3 DEF Counted
<1> QED BY <1>1, <1>2, <1>5, <1>6, <1>7, <1>8, <1>9 DEF Abstract!Admit

\* A batch that is spawned joins the members of the tasks.
LEMMA SpawnedMembers ==
  ASSUME NEW k, NEW S, tasks' = tasks \cup {NewTask(k, S)}
  PROVE  MembersOf(tasks)' = MembersOf(tasks) \cup S
<1>1. NewTask(k, S).members = S
  BY DEF NewTask
<1> QED BY <1>1, MembersAdd DEF MembersOf

\* A background batch that is spawned, or kept, stays in processing.
LEMMA SpawnBgUnseen ==
  ASSUME IInv, SpawnBg
  PROVE  Service' = Service /\ max_query_limit' = max_query_limit /\ Counted' = Counted
<1>0. Elems(requests)' = Elems(requests) /\ lost' = lost
  BY DEF SpawnBg, Elems
<1>1. reply' = reply /\ batch' = batch /\ max_query_limit' = max_query_limit
  BY DEF SpawnBg
<1>2. InFlight = batch \cup bg_batch \cup ToDo /\ InFlight' = batch' \cup bg_batch' \cup ToDo'
  BY DEF InFlight, ToDo
<1>3. CASE bg_batch # {} /\ bg_permits > 0
  <2>1. ToDo' = ToDo \cup bg_batch /\ bg_batch' = {}
    BY <1>3, ToDoAdd DEF SpawnBg
  <2>2. MembersOf(tasks)' = MembersOf(tasks) \cup bg_batch
    BY <1>3, SpawnedMembers DEF SpawnBg
  <2>3. Counted' = Counted
    BY <1>0, <1>1, <2>1, <2>2 DEF Counted
  <2> QED BY <1>1, <1>2, <2>1, <2>3, Unseen
<1>4. CASE ~(bg_batch # {} /\ bg_permits > 0)
  <2>1. InFlight' = InFlight
    BY <1>4 DEF SpawnBg, InFlight
  <2>2. Counted' = Counted
    BY <1>0, <1>4 DEF SpawnBg, Counted, MembersOf
  <2> QED BY <1>1, <2>1, <2>2, Unseen
<1> QED BY <1>3, <1>4

\* A foreground batch is spawned, or dropped as a whole.
LEMMA SpawnFgImplements ==
  ASSUME IInv, SpawnFg
  PROVE  Counted' = Counted
         /\ (Abstract!Drop \/ (Service' = Service /\ max_query_limit' = max_query_limit))
<1>0. Elems(requests)' = Elems(requests)
  BY DEF SpawnFg, Elems
<1>1. bg_batch' = bg_batch /\ batch' = {} /\ max_query_limit' = max_query_limit
      /\ batch \in SUBSET Req
  BY DEF SpawnFg, IInv, TypeOK
<1>2. InFlight = batch \cup bg_batch \cup ToDo /\ InFlight' = batch' \cup bg_batch' \cup ToDo'
  BY DEF InFlight, ToDo
<1>3. CASE batch # {} /\ fg_permits > 0
  <2>1. ToDo' = ToDo \cup batch /\ reply' = reply
    BY <1>3, ToDoAdd DEF SpawnFg
  <2>2. MembersOf(tasks)' = MembersOf(tasks) \cup batch /\ lost' = lost
    BY <1>3, SpawnedMembers DEF SpawnFg
  <2>3. Counted' = Counted
    BY <1>0, <1>1, <2>2 DEF Counted
  <2> QED BY <1>1, <1>2, <2>1, <2>3, Unseen
<1>4. CASE batch = {}
  <2>1. ToDo' = ToDo /\ reply' = [q \in Req |-> reply[q]]
    BY <1>4 DEF SpawnFg, ToDo
  <2>2. reply' = reply
    BY <2>1 DEF IInv, TypeOK
  <2>3. Counted' = Counted
    BY <1>0, <1>1, <1>4 DEF SpawnFg, Counted, MembersOf
  <2> QED BY <1>1, <1>2, <1>4, <2>1, <2>2, <2>3, Unseen
<1>5. CASE batch # {} /\ ~(fg_permits > 0)
  <2>1. ToDo' = ToDo /\ \A q \in Req : reply'[q] = IF q \in batch THEN "dropped" ELSE reply[q]
    BY <1>5 DEF SpawnFg, ToDo
  <2>2. ToDo \subseteq MembersOf(tasks)
    BY DEF IInv, Structure, TasksOK, ToDo, MembersOf
  <2>3. batch \cap (bg_batch \cup ToDo) = {}
    BY <2>2 DEF IInv, Structure, Separate
  <2>4. InFlight' = InFlight \ batch
    BY <1>1, <1>2, <2>1, <2>3
  <2>5. Service' = [q \in Req |-> IF q \in batch THEN "dropped" ELSE Service[q]]
    BY <1>1, <2>1, <2>4, Moves
  <2>6. batch \subseteq Abstract!InState("inflight")
    BY <1>2, ServiceFacts
  <2>7. Abstract!Move(batch, "inflight", "dropped")
    BY <1>5, <2>5, <2>6 DEF Abstract!Move
  <2>8. lost' = lost \cup batch /\ MembersOf(tasks)' = MembersOf(tasks)
    BY <1>5 DEF SpawnFg, MembersOf
  <2>9. Counted' = Counted
    BY <1>0, <1>1, <2>8 DEF Counted
  <2> QED BY <1>1, <2>7, <2>9 DEF Abstract!Drop
<1> QED BY <1>3, <1>4, <1>5

\* Reaping is seen only in what is counted: tasks that finished have nothing left to answer.
LEMMA ReapImplements ==
  ASSUME IInv, Reap
  PROVE  Abstract!Notice
<1>1. UNCHANGED <<reply, requests, batch, bg_batch, max_query_limit>>
      /\ Elems(requests)' = Elems(requests) /\ lost' = lost \cup MembersOf(Panicked)
  BY DEF Reap, Elems
<1>2. \A t \in tasks : t.st # "running" => t.todo = {}
  BY DEF IInv, Structure, TasksOK
<1>3. ToDo' = ToDo
  BY <1>2 DEF Reap, ToDo, Finished, Panicked
<1>4. InFlight' = InFlight
  BY <1>1, <1>3 DEF InFlight, ToDo
<1>5. Service' = Service
  BY <1>1, <1>4, Unseen
<1> DEFINE F == MembersOf(Finished)
<1>6. F \subseteq MembersOf(tasks) /\ F \cap MembersOf(tasks)' = {}
      /\ F \cap MembersOf(Panicked) = {}
      /\ MembersOf(tasks) = MembersOf(tasks)' \cup F \cup MembersOf(Panicked)
  BY ReapFacts DEF IInv
<1>7. F \cap (Elems(inbox) \cup Elems(requests) \cup batch \cup bg_batch \cup lost) = {}
  BY <1>6 DEF IInv, Structure, Separate
<1>8. Counted' = Counted \ F
  BY <1>1, <1>6, <1>7 DEF Counted
<1>9. F \cap ToDo = {}
  <2>1. \A t \in tasks : t.todo \subseteq t.members
    BY DEF IInv, Structure, TasksOK
  <2>2. \A t, u \in tasks : t # u => t.members \cap u.members = {}
    BY DEF IInv, Structure, TasksOK
  <2>3. \A t \in Finished : t \in tasks /\ t.todo = {}
    BY <1>2 DEF Finished
  <2> QED BY <2>1, <2>2, <2>3 DEF MembersOf, ToDo
<1>10. F \subseteq Req
  BY <1>6 DEF IInv, TypeOK, Task, MembersOf
<1>11. \A q \in F : reply[q] # "waiting"
  BY <1>7, <1>9, <1>10 DEF IInv, NoOrphanedWaiter, InFlight, ToDo
<1>12. F \in SUBSET (Counted \ (Abstract!InState("queued") \cup Abstract!InState("inflight")))
  <2>1. \A q \in F : Service[q] = reply[q] /\ reply[q] \in Replies
    BY <1>10, <1>11, ServiceFacts DEF IInv, TypeOK
  <2>2. F \subseteq Counted
    BY <1>6 DEF Counted
  <2> QED BY <2>1, <2>2 DEF Abstract!InState, Replies
<1> HIDE DEF F
<1> QED BY <1>1, <1>5, <1>8, <1>12 DEF Abstract!Notice

\* Replacing a task by one with fewer queries left takes these out of processing.
LEMMA TaskLeaves ==
  ASSUME IInv, NEW t \in tasks, NEW u, u.todo \subseteq t.todo,
         tasks' = (tasks \ {t}) \cup {u}, UNCHANGED <<batch, bg_batch>>
  PROVE  InFlight' = InFlight \ (t.todo \ u.todo) /\ t.todo \subseteq InFlight
<1>1. \A x, y \in tasks : x # y => x.todo \cap y.todo = {}
  BY DEF IInv, Structure, TasksOK
<1>2. ToDo' = ToDo \ (t.todo \ u.todo) /\ t.todo \subseteq ToDo
  BY <1>1 DEF ToDo
<1>3. ToDo \subseteq MembersOf(tasks)
  BY DEF IInv, Structure, TasksOK, ToDo, MembersOf
<1>4. \A r \in ToDo : r \notin batch \cup bg_batch
  BY <1>3 DEF IInv, Structure, Separate
<1>5. InFlight = batch \cup bg_batch \cup ToDo /\ InFlight' = batch' \cup bg_batch' \cup ToDo'
  BY DEF InFlight, ToDo
<1> QED BY <1>2, <1>4, <1>5

\* The future of a query completes.
LEMMA AnswerImplements ==
  ASSUME IInv, NEW t \in tasks, NEW q \in t.todo, Answer(t, q)
  PROVE  q \in Req /\ Abstract!Answer(q)
<1> DEFINE u == [t EXCEPT !.todo = @ \ {q}]
<1>1. t \in Task /\ q \in Req
  BY DEF IInv, TypeOK, Task
<1>2. u.todo = t.todo \ {q}
  BY <1>1 DEF Task
<1>3. tasks' = (tasks \ {t}) \cup {u} /\ UNCHANGED <<batch, bg_batch, max_query_limit>>
      /\ reply' = [reply EXCEPT ![q] = "answered"]
  BY DEF Answer, Replace
<1>9. Counted' = Counted
  BY TaskStepCounted DEF RunTask
<1> HIDE DEF u
<1>4. InFlight' = InFlight \ (t.todo \ u.todo) /\ t.todo \subseteq InFlight
  BY <1>2, <1>3, TaskLeaves
<1>5. InFlight' = InFlight \ {q} /\ q \in InFlight
  BY <1>2, <1>4
<1>6. \A r \in Req : reply'[r] = IF r \in {q} THEN "answered" ELSE reply[r]
  BY <1>3 DEF IInv, TypeOK
<1>7. Service' = [r \in Req |-> IF r \in {q} THEN "answered" ELSE Service[r]]
  <2>1. {q} \in SUBSET Req /\ InFlight' = InFlight \ {q}
    BY <1>1, <1>5
  <2> QED BY <1>6, <2>1, Moves, Zenon
<1>8. {q} \subseteq Abstract!InState("inflight")
  BY <1>5, ServiceFacts
<1> QED BY <1>1, <1>3, <1>7, <1>8, <1>9 DEF Abstract!Answer, Abstract!Move

\* A panic gives up what its batch had left.
LEMMA PanicImplements ==
  ASSUME IInv, NEW t \in tasks, NEW q \in t.todo, Panic(t, q)
  PROVE  Abstract!Drop
<1> DEFINE u == [t EXCEPT !.todo = {}, !.st = "panicked"]
<1>1. t \in Task /\ t.todo \in SUBSET Req
  BY DEF IInv, TypeOK, Task
<1>2. u.todo = {}
  BY <1>1 DEF Task
<1>3. tasks' = (tasks \ {t}) \cup {u} /\ UNCHANGED <<batch, bg_batch, max_query_limit>>
      /\ reply' = [r \in Req |-> IF r \in t.todo THEN "dropped" ELSE reply[r]]
  BY DEF Panic, Replace
<1>10. Counted' = Counted
  BY TaskStepCounted DEF RunTask
<1> HIDE DEF u
<1>4. InFlight' = InFlight \ (t.todo \ u.todo) /\ t.todo \subseteq InFlight
  BY <1>2, <1>3, TaskLeaves
<1>5. InFlight' = InFlight \ t.todo
  BY <1>2, <1>4
<1>6. \A r \in Req : reply'[r] = IF r \in t.todo THEN "dropped" ELSE reply[r]
  BY <1>3
<1>7. Service' = [r \in Req |-> IF r \in t.todo THEN "dropped" ELSE Service[r]]
  BY <1>1, <1>5, <1>6, Moves
<1>8. t.todo \subseteq Abstract!InState("inflight") /\ t.todo # {}
  BY <1>4, ServiceFacts
<1>9. Abstract!Move(t.todo, "inflight", "dropped")
  BY <1>7, <1>8 DEF Abstract!Move
<1> QED BY <1>1, <1>3, <1>9, <1>10 DEF Abstract!Drop

\* The end of a task is not seen.
LEMMA TaskEndUnseen ==
  ASSUME IInv, NEW t \in tasks, Release(t) \/ Finish(t)
  PROVE  Service' = Service /\ max_query_limit' = max_query_limit /\ Counted' = Counted
<1>0. Counted' = Counted
  BY TaskStepCounted DEF RunTask
<1>1. t \in Task
  BY DEF IInv, TypeOK
<1>2. PICK st \in {"released", "finished"} : tasks' = (tasks \ {t}) \cup {[t EXCEPT !.st = st]}
  BY DEF Release, Finish, Replace
<1> DEFINE u == [t EXCEPT !.st = st]
<1>3. u.todo = t.todo
  BY <1>1 DEF Task
<1> HIDE DEF u
<1>4. UNCHANGED <<reply, batch, bg_batch, max_query_limit>>
  BY DEF Release, Finish
<1>5. InFlight' = InFlight \ (t.todo \ u.todo)
  BY <1>2, <1>3, <1>4, TaskLeaves, Zenon DEF u
<1>6. InFlight' = InFlight
  BY <1>3, <1>5
<1> QED BY <1>0, <1>4, <1>6, Unseen

-----------------------------------------------------------------------------
\* Every step is a step of the service, or none.
LEMMA StepImplements ==
  ASSUME IInv, [Next]_vars
  PROVE  [Abstract!Next]_(Abstract!vars)
<1> DEFINE Seen == /\ Service' = Service /\ max_query_limit' = max_query_limit
                   /\ Counted' = Counted
<1>0. Seen => [Abstract!Next]_(Abstract!vars)
  BY DEF Abstract!vars
<1> HIDE DEF Seen
<1>1. CASE \E q \in Req : Send(q)
  BY <1>1, SendImplements DEF Abstract!Next
<1>2. CASE \E l \in Limits : Reload(l)
  <2>1. UNCHANGED <<reply, requests, batch, bg_batch, tasks, lost, max_query_limit>>
    BY <1>2 DEF Reload
  <2> QED BY <1>0, <2>1, Unseen, CountedKept DEF InFlight, MembersOf, Seen
<1>3. CASE Recv
  BY <1>3, RecvImplements DEF Abstract!Next
<1>4. CASE ReadConfig
  <2>1. UNCHANGED <<reply, requests, batch, bg_batch, tasks, lost>> /\ max_query_limit' \in Nat
    BY <1>4, DispatcherAssumption DEF ReadConfig, IInv, TypeOK
  <2>2. Service' = Service
    BY <2>1, Unseen DEF InFlight
  <2>3. Counted' = Counted
    BY <2>1, CountedKept DEF MembersOf
  <2> QED BY <2>1, <2>2, <2>3 DEF Abstract!Next, Abstract!SetLimit
<1>5. CASE Refuse
  <2>1. Popped \in Req
    BY <1>5, PoppedQueued DEF Refuse
  <2> QED BY <1>5, <2>1, RefuseImplements DEF Abstract!Next
<1>6. CASE Admit
  <2>1. Popped \in Req
    BY <1>6, PoppedQueued DEF Admit
  <2> QED BY <1>6, <2>1, AdmitImplements DEF Abstract!Next
<1>7. CASE SpawnBg
  BY <1>0, <1>7, SpawnBgUnseen DEF Seen
<1>8. CASE SpawnFg
  BY <1>0, <1>8, SpawnFgImplements DEF Seen, Abstract!Next
<1>9. CASE Reap
  BY <1>9, ReapImplements DEF Abstract!Next
<1>10. CASE RunTask
  <2>1. PICK t \in tasks : \/ \E q \in t.todo : Answer(t, q) \/ Panic(t, q)
                          \/ Release(t)
                          \/ Finish(t)
    BY <1>10 DEF RunTask
  <2>2. CASE \E q \in t.todo : Answer(t, q)
    BY <2>2, AnswerImplements DEF Abstract!Next
  <2>3. CASE \E q \in t.todo : Panic(t, q)
    BY <2>3, PanicImplements DEF Abstract!Next
  <2>4. CASE Release(t) \/ Finish(t)
    BY <1>0, <2>4, TaskEndUnseen DEF Seen
  <2> QED BY <2>1, <2>2, <2>3, <2>4
<1>11. CASE UNCHANGED vars
  BY <1>0, <1>11, Unseen, CountedKept DEF vars, InFlight, MembersOf, Seen
<1> QED BY <1>1, <1>2, <1>3, <1>4, <1>5, <1>6, <1>7, <1>8, <1>9, <1>10, <1>11
           DEF Next, Dispatch

\* The loop of app::serve implements the service that DnsHandle::send offers: a query
\* is answered, refused or dropped at most once, let in only within the limit, and refused
\* only while more queries than the limit were received and not seen to have ended; those
\* of a batch that was dropped or that panicked are among them for ever.
THEOREM DispatcherImplementsService == Spec => ImplementsService
<1>1. Init => Abstract!Init
  BY DEF Init, Abstract!Init, Service, InFlight, Counted, Elems, MembersOf
<1>2. IInv /\ [Next]_vars => [Abstract!Next]_(Abstract!vars)
  BY StepImplements
<1> QED BY <1>1, <1>2, DispatcherInvariant, PTL DEF Spec, ImplementsService, Abstract!Spec
=============================================================================
