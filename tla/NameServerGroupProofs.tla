----------------------- MODULE NameServerGroupProofs -----------------------
(***************************************************************************)
(* The circuit breaker never shuts out a group that has had its rest: proof *)
(* of NoBlackout for any servers, lookups and constants.                    *)
(***************************************************************************)
EXTENDS NameServerGroup, TLAPS

Open(s) == streak[s] < FAIL_THRESHOLD \/ age[s] >= COOLDOWN

\* The task of l on x queries x, has done so, or will when it gets on.
Tried(l, x) ==
  \/ task[l][x].pc \in {"wait", "sent", "backoff", "stamp"}
  \/ task[l][x].pc = "check" /\ Open(x)
  \/ task[l][x].pc = "clock" /\ age[x] >= COOLDOWN
  \/ received[l][x] \notin {"none", "skipped"}

SomeJustFailed == \E x \in servers : JustFailed(x)

\* What a lookup has received, and which of its tasks are still to be heard of.
Bookkeeping(l) ==
  /\ lookup[l] \in {"start", "since", "reset"} => \A x \in Server : task[l][x].pc = "none"
  /\ lookup[l] # "run" => received[l] = [x \in Server |-> "none"]
  /\ lookup[l] = "run" =>
       /\ \A x \in servers : received[l][x] = "none" <=> task[l][x].pc # "none"
       /\ \E x \in servers : received[l][x] = "none"
  /\ \A x \in Server \ servers : task[l][x].pc = "none"

\* From the half-open check on some server is open to the lookup, unless one has
\* just failed.
WayThrough(l) ==
  /\ lookup[l] = "reset" => SomeJustFailed \/ \E x \in servers : x \in todo[l] \/ Open(x)
  /\ lookup[l] = "run" => SomeJustFailed \/ \E x \in servers : Tried(l, x)

BlackoutInv == TypeOK /\ \A l \in Lookup : Bookkeeping(l) /\ WayThrough(l)

-----------------------------------------------------------------------------
\* Types

\* The states in which tasks start, and the one after the cooldown check, are tasks.
LEMMA Tasks ==
  /\ NoTask \in Task
  /\ Checking \in Task /\ Checking.pc = "check" /\ NoTask.pc = "none"
  /\ [NoTask EXCEPT !.pc = "wait", !.retries = RETRIES] \in Task
<1>1. 0 \in 0..RETRIES /\ RETRIES \in 0..RETRIES /\ 0 \in 0..QUERY_TIMEOUT /\ 0 \in 0..DEADLINE
  BY GroupAssumption
<1>2. NoTask \in Task /\ NoTask.pc = "none"
  BY <1>1 DEF NoTask, Task
<1>3. Checking \in Task /\ Checking.pc = "check"
  BY <1>1 DEF NoTask, Checking, Task
<1>4. [NoTask EXCEPT !.pc = "wait", !.retries = RETRIES] \in Task
  BY <1>1, Zenon DEF NoTask, Task
<1> QED  BY <1>2, <1>3, <1>4

\* A task with another pc is a task, and so is one a tick older.
LEMMA Goes ==
  ASSUME NEW t \in Task,
         NEW p \in {"none", "check", "clock", "wait", "sent", "backoff", "stamp"}
  PROVE  [t EXCEPT !.pc = p] \in Task
BY DEF Task

\* A tick leaves a task a task at the same place, unless its time was already up.
LEMMA Ages ==
  ASSUME NEW t \in Task, ~(t.pc = "sent" /\ t.left = 0)
  PROVE  Aged(t) \in Task /\ Aged(t).pc = t.pc
<1>1. t.left \in 0..QUERY_TIMEOUT /\ t.elapsed \in 0..DEADLINE
  BY DEF Task
<1>2. Later(t.elapsed) \in 0..DEADLINE
  BY <1>1, GroupAssumption DEF Later
<1>3. CASE t.pc = "none"
  BY <1>3 DEF Aged
<1>4. CASE t.pc = "sent"
  <2>1. t.left - 1 \in 0..QUERY_TIMEOUT
    BY <1>1, <1>4, GroupAssumption
  <2>2. Aged(t) = [t EXCEPT !.left = t.left - 1, !.elapsed = Later(t.elapsed)]
    BY <1>4 DEF Aged
  <2> HIDE DEF Later
  <2> QED  BY <1>2, <2>1, <2>2, Zenon DEF Task
<1>5. CASE t.pc # "none" /\ t.pc # "sent"
  <2>1. Aged(t) = [t EXCEPT !.elapsed = Later(t.elapsed)]
    BY <1>5 DEF Aged
  <2> QED  BY <1>2, <2>1 DEF Task
<1> QED  BY <1>3, <1>4, <1>5

\* Entering a result keeps the types.
LEMMA Delivers ==
  ASSUME TypeOK, NEW l \in Lookup, NEW s \in Server, NEW r \in Results, Deliver(l, s, r)
  PROVE  /\ task' \in [Lookup -> [Server -> Task]]
         /\ received' \in [Lookup -> [Server -> Results \cup {"none"}]]
         /\ lookup' \in [Lookup -> {"idle", "start", "since", "reset", "run"}]
         /\ todo' \in [Lookup -> SUBSET Server]
<1>1. task' \in [Lookup -> [Server -> Task]]
  <2>1. task' = [task EXCEPT ![l][s] = NoTask]
    BY DEF Deliver, Become
  <2>2. task \in [Lookup -> [Server -> Task]] /\ NoTask \in Task
    BY Tasks DEF TypeOK
  <2> QED  BY <2>1, <2>2
<1>2. [x \in Server |-> "none"] \in [Server -> Results \cup {"none"}]
  OBVIOUS
<1>3. /\ received' \in [Lookup -> [Server -> Results \cup {"none"}]]
      /\ lookup' \in [Lookup -> {"idle", "start", "since", "reset", "run"}]
  <2> DEFINE Got == [Server -> Results \cup {"none"}]
             Nothing == [x \in Server |-> "none"]
  <2>1. lookup \in [Lookup -> {"idle", "start", "since", "reset", "run"}]
        /\ received \in [Lookup -> Got] /\ Nothing \in Got
    BY <1>2 DEF TypeOK
  <2>2. CASE lookup[l] # "run"
    BY <2>1, <2>2 DEF Deliver
  <2>3. CASE lookup[l] = "run" /\ Ends(l, s, r)
    <3>1. received' = [received EXCEPT ![l] = Nothing] /\ lookup' = [lookup EXCEPT ![l] = "idle"]
      BY <2>3 DEF Deliver
    <3> HIDE DEF Got, Nothing
    <3>2. received' \in [Lookup -> Got] /\ lookup' \in [Lookup -> {"idle", "start", "since", "reset", "run"}]
      BY <2>1, <3>1
    <3> QED  BY <3>2 DEF Got
  <2>4. CASE lookup[l] = "run" /\ ~Ends(l, s, r)
    <3>1. received' = [received EXCEPT ![l][s] = r] /\ lookup' = lookup
      BY <2>4 DEF Deliver
    <3> QED  BY <2>1, <3>1
  <2> QED  BY <2>2, <2>3, <2>4
<1> QED  BY <1>1, <1>3 DEF TypeOK, Deliver

\* The types hold when the group is built.
LEMMA TypesInit == Init => TypeOK
<1> SUFFICES ASSUME Init PROVE TypeOK
  OBVIOUS
<1>1. /\ servers \in SUBSET Server /\ servers # {}
      /\ streak \in [Server -> 0..FAIL_THRESHOLD]
      /\ age \in [Server -> 0..COOLDOWN]
      /\ up \in [Server -> BOOLEAN]
      /\ lookup \in [Lookup -> {"idle", "start", "since", "reset", "run"}]
      /\ todo \in [Lookup -> SUBSET Server]
  BY GroupAssumption DEF Init
<1>2. received \in [Lookup -> [Server -> Results \cup {"none"}]]
  BY DEF Init
<1>3. task \in [Lookup -> [Server -> Task]]
  BY Tasks DEF Init
<1> QED  BY <1>1, <1>2, <1>3 DEF TypeOK

\* Changes of one task leave the tasks tasks.
LEMMA Steps ==
  ASSUME TypeOK, NEW l \in Lookup, NEW s \in Server, NEW t \in Task,
         Become(l, s, t)
  PROVE  task' \in [Lookup -> [Server -> Task]]
BY DEF TypeOK, Become

\* Every step keeps the types.
LEMMA TypesStep == TypeOK /\ [Next]_vars => TypeOK'
<1> SUFFICES ASSUME TypeOK, [Next]_vars PROVE TypeOK'
  OBVIOUS
<1> USE DEF breaker, group, outside
<1>1. CASE Tick
  <2>1. ASSUME NEW s \in Server PROVE Older(age[s]) \in 0..COOLDOWN
    BY GroupAssumption DEF TypeOK, Older
  <2>2. age' \in [Server -> 0..COOLDOWN]
    BY <1>1, <2>1 DEF Tick
  <2>3. ASSUME NEW l \in Lookup, NEW s \in Server PROVE Aged(task[l][s]) \in Task
    <3>1. task[l][s] \in Task
      BY DEF TypeOK
    <3>2. ~(task[l][s].pc = "sent" /\ task[l][s].left = 0)
      BY <1>1 DEF Tick, Urgent
    <3> QED  BY <3>1, <3>2, Ages
  <2>4. task' \in [Lookup -> [Server -> Task]]
    BY <1>1, <2>3 DEF Tick
  <2> QED  BY <1>1, <2>2, <2>4 DEF Tick, TypeOK
<1>2. ASSUME NEW s \in Server, Break(s) \/ Repair(s) PROVE TypeOK'
  BY <1>2, Zenon DEF Break, Repair, TypeOK
<1>3. ASSUME NEW l \in Lookup, Begin(l) PROVE TypeOK'
  BY <1>3 DEF Begin, TypeOK
<1>4. ASSUME NEW l \in Lookup, AllCooling(l) PROVE TypeOK'
  BY <1>4 DEF AllCooling, TypeOK
<1>5. ASSUME NEW l \in Lookup, NoneRecent(l) PROVE TypeOK'
  BY <1>5 DEF NoneRecent, TypeOK
<1>6. ASSUME NEW l \in Lookup, NEW s \in Server, AllowProbe(l, s) PROVE TypeOK'
  BY <1>6, GroupAssumption DEF AllowProbe, TypeOK
<1>7. ASSUME NEW l \in Lookup, Spawn(l) PROVE TypeOK'
  <2>1. [s \in Server |-> IF s \in servers THEN Checking ELSE NoTask] \in [Server -> Task]
    BY Tasks
  <2>2. task' \in [Lookup -> [Server -> Task]]
    BY <1>7, <2>1 DEF Spawn, TypeOK
  <2> QED  BY <1>7, <2>2 DEF Spawn, TypeOK
<1>8. ASSUME NEW l \in Lookup, NEW s \in Server,
             CheckStreak(l, s) \/ CheckClock(l, s) \/ Retry(l, s) \/ Acquire(l, s) \/ Backoff(l, s)
      PROVE  TypeOK'
  <2>1. task[l][s] \in Task
    BY DEF TypeOK
  <2>2. ASSUME Admitted(l, s) PROVE task' \in [Lookup -> [Server -> Task]]
    <3>1. Become(l, s, [NoTask EXCEPT !.pc = "wait", !.retries = RETRIES])
      BY <2>2 DEF Admitted
    <3> QED  BY <3>1, Steps, Tasks
  <2>3. ASSUME NEW p \in {"clock", "wait"}, Goto(l, s, p) PROVE task' \in [Lookup -> [Server -> Task]]
    <3>1. [task[l][s] EXCEPT !.pc = p] \in Task
      BY <2>1, Goes, Zenon
    <3>2. Become(l, s, [task[l][s] EXCEPT !.pc = p])
      BY <2>3 DEF Goto
    <3> QED  BY <3>1, <3>2, Steps
  <2>4. ASSUME Acquire(l, s) PROVE task' \in [Lookup -> [Server -> Task]]
    <3>1. [task[l][s] EXCEPT !.pc = "sent", !.left = QUERY_TIMEOUT] \in Task
      <4>1. QUERY_TIMEOUT \in 0..QUERY_TIMEOUT
        BY GroupAssumption
      <4> QED  BY <2>1, <4>1, Zenon DEF Task
    <3>2. Become(l, s, [task[l][s] EXCEPT !.pc = "sent", !.left = QUERY_TIMEOUT])
      BY <2>4 DEF Acquire
    <3> QED  BY <3>1, <3>2, Steps
  <2>5. ASSUME Backoff(l, s) PROVE task' \in [Lookup -> [Server -> Task]]
    <3>1. task[l][s].retries - 1 \in 0..RETRIES
      BY <2>1, <2>5, GroupAssumption DEF Backoff, Task
    <3>2. [task[l][s] EXCEPT !.pc = "backoff", !.retries = task[l][s].retries - 1] \in Task
      BY <2>1, <3>1, Zenon DEF Task
    <3>3. Become(l, s, [task[l][s] EXCEPT !.pc = "backoff", !.retries = task[l][s].retries - 1])
      BY <2>5 DEF Backoff
    <3> QED  BY <3>2, <3>3, Steps
  <2>6. task' \in [Lookup -> [Server -> Task]]
    BY <1>8, <2>2, <2>3, <2>4, <2>5 DEF CheckStreak, CheckClock, Retry
  <2>7. UNCHANGED <<breaker, outside, group>>
    BY <1>8 DEF CheckStreak, CheckClock, Retry, Acquire, Backoff
  <2> QED  BY <2>6, <2>7 DEF TypeOK
<1>9. ASSUME NEW l \in Lookup, NEW s \in Server, Skip(l, s) \/ Busy(l, s) PROVE TypeOK'
  <2>1. PICK r \in Results : Deliver(l, s, r)
    BY <1>9 DEF Skip, Busy, Results
  <2> QED  BY <1>9, <2>1, Delivers DEF Skip, Busy, TypeOK
<1>10. ASSUME NEW l \in Lookup, NEW s \in Server, NEW r \in Results, Succeed(l, s, r) PROVE TypeOK'
  <2>1. streak' \in [Server -> 0..FAIL_THRESHOLD]
    BY <1>10, GroupAssumption DEF Succeed, TypeOK
  <2> QED  BY <1>10, <2>1, Delivers DEF Succeed, TypeOK
<1>11. ASSUME NEW l \in Lookup, NEW s \in Server, Fail(l, s) PROVE TypeOK'
  <2>1. streak' \in [Server -> 0..FAIL_THRESHOLD]
    BY <1>11, GroupAssumption DEF Fail, Bump, TypeOK
  <2>2. task[l][s] \in Task
    BY DEF TypeOK
  <2>3. task' \in [Lookup -> [Server -> Task]]
    BY <1>11, <2>2, Goes, Steps, Zenon DEF Fail, Goto
  <2> QED  BY <1>11, <2>1, <2>3 DEF Fail, TypeOK
<1>12. ASSUME NEW l \in Lookup, NEW s \in Server, Record(l, s) PROVE TypeOK'
  <2>1. age' \in [Server -> 0..COOLDOWN]
    BY <1>12, GroupAssumption DEF Record, TypeOK
  <2>2. "failed" \in Results
    BY DEF Results
  <2> QED  BY <1>12, <2>1, <2>2, Delivers DEF Record, TypeOK
<1>13. CASE UNCHANGED vars
  BY <1>13 DEF vars, TypeOK
<1> QED
  BY <1>1, <1>2, <1>3, <1>4, <1>5, <1>6, <1>7, <1>8, <1>9, <1>10, <1>11, <1>12, <1>13
     DEF Next, Prepare, Proceed, Respond

-----------------------------------------------------------------------------
\* What a step of one task leaves alone

\* A change of one task changes that task and no other.
LEMMA Becomes ==
  ASSUME TypeOK, NEW l \in Lookup, NEW s \in Server, NEW t \in Task, Become(l, s, t)
  PROVE  /\ task'[l][s] = t
         /\ \A k \in Lookup, x \in Server : k # l \/ x # s => task'[k][x] = task[k][x]
BY DEF TypeOK, Become

\* A result is entered once, while the lookup listens, and not all results are in
\* as long as it does.
LEMMA Entered ==
  ASSUME TypeOK, \A k \in Lookup : Bookkeeping(k),
         NEW l \in Lookup, NEW s \in Server, NEW r \in Results, Deliver(l, s, r),
         task[l][s].pc # "none", servers' = servers
  PROVE  /\ \A k \in Lookup : Bookkeeping(k)'
         /\ \A k \in Lookup : /\ lookup'[k] = "run" => lookup[k] = "run"
                              /\ lookup'[k] = "reset" => lookup[k] = "reset"
         /\ \A k \in Lookup, x \in Server :
              lookup'[k] = "run" /\ (k # l \/ x # s) => received'[k][x] = received[k][x]
         /\ lookup'[l] = "run" => received'[l][s] = r
<1>1. /\ task'[l][s].pc = "none"
      /\ \A k \in Lookup, x \in Server : k # l \/ x # s => task'[k][x] = task[k][x]
  BY Becomes, Tasks DEF Deliver
<1>2. r # "none"
  BY DEF Results
<1>6. servers \subseteq Server /\ s \in servers
  BY DEF TypeOK, Bookkeeping
<1>3. CASE lookup[l] # "run"
  <2>1. received' = received /\ lookup' = lookup
    BY <1>3 DEF Deliver
  <2> QED  BY <1>1, <1>3, <1>6, <2>1 DEF Bookkeeping
<1>4. CASE lookup[l] = "run" /\ Ends(l, s, r)
  <2>1. received' = [received EXCEPT ![l] = [x \in Server |-> "none"]] /\ lookup' = [lookup EXCEPT ![l] = "idle"]
    BY <1>4 DEF Deliver
  <2>2. /\ lookup'[l] = "idle" /\ received'[l] = [x \in Server |-> "none"]
        /\ \A k \in Lookup \ {l} : lookup'[k] = lookup[k] /\ received'[k] = received[k]
    BY <2>1 DEF TypeOK
  <2> QED  BY <1>1, <1>4, <1>6, <2>2 DEF Bookkeeping
<1>5. CASE lookup[l] = "run" /\ ~Ends(l, s, r)
  <2>1. received' = [received EXCEPT ![l][s] = r] /\ lookup' = lookup
    BY <1>5 DEF Deliver
  <2>2. /\ received'[l][s] = r
        /\ \A k \in Lookup, x \in Server : k # l \/ x # s => received'[k][x] = received[k][x]
        /\ \A k \in Lookup \ {l} : received'[k] = received[k]
    BY <2>1 DEF TypeOK
  <2>3. PICK y \in servers \ {s} : received[l][y] = "none"
    BY <1>5 DEF Ends
  <2>4. Bookkeeping(l)'
    BY <1>1, <1>2, <1>5, <1>6, <2>1, <2>2, <2>3 DEF Bookkeeping
  <2>5. \A k \in Lookup \ {l} : Bookkeeping(k)'
    BY <1>1, <1>6, <2>1, <2>2 DEF Bookkeeping
  <2> QED  BY <2>1, <2>2, <2>4, <2>5
<1> QED  BY <1>3, <1>4, <1>5

\* A step of one task that neither starts a lookup nor overtakes the clock keeps a
\* way through for all of them, if it does so for its own.
LEMMA StaysOpen ==
  ASSUME TypeOK, TypeOK', NEW l \in Lookup, NEW s \in Server,
         \A k \in Lookup : WayThrough(k), servers' = servers, s \in servers,
         \A k \in Lookup, x \in Server : k # l \/ x # s => task'[k][x] = task[k][x],
         \A k \in Lookup, x \in Server :
           lookup'[k] = "run" /\ (k # l \/ x # s) => received'[k][x] = received[k][x],
         \A k \in Lookup : /\ lookup'[k] = "run" => lookup[k] = "run"
                           /\ lookup'[k] = "reset" => lookup[k] = "reset",
         todo' = todo,
         \A x \in Server : age'[x] = age[x] \/ age'[x] = 0,
         \A x \in Server : streak'[x] = streak[x] \/ streak'[x] = 0 \/ (x = s /\ task'[l][s].pc = "stamp"),
         task[l][s].pc = "stamp" => age'[s] = 0,
         Tried(l, s) /\ lookup'[l] = "run" => Tried(l, s)' \/ SomeJustFailed'
  PROVE  \A k \in Lookup : WayThrough(k)'
<1>0. servers \subseteq Server
  BY DEF TypeOK
<1>1. ASSUME NEW x \in servers, age'[x] = 0 PROVE SomeJustFailed'
  BY <1>1, GroupAssumption DEF SomeJustFailed, JustFailed
<1>2. SomeJustFailed => SomeJustFailed'
  <2> SUFFICES ASSUME NEW x \in servers, JustFailed(x) PROVE SomeJustFailed'
    BY DEF SomeJustFailed
  <2>1. CASE age[x] < PROBE_INTERVAL
    BY <1>0, <1>1, <2>1 DEF SomeJustFailed, JustFailed
  <2>2. ASSUME NEW k \in Lookup, task[k][x].pc = "stamp" PROVE SomeJustFailed'
    BY <1>0, <1>1, <2>2 DEF SomeJustFailed, JustFailed
  <2> QED  BY <2>1, <2>2 DEF JustFailed
<1>3. ASSUME NEW x \in servers, Open(x) PROVE Open(x)' \/ SomeJustFailed'
  <2>1. CASE age'[x] = 0
    BY <1>1, <2>1
  <2>2. CASE age'[x] = age[x] /\ streak'[x] = streak[x]
    BY <1>3, <2>2 DEF Open
  <2>3. CASE streak'[x] = 0
    BY <2>3, GroupAssumption DEF Open
  <2>4. CASE x = s /\ task'[l][s].pc = "stamp"
    BY <2>4 DEF SomeJustFailed, JustFailed
  <2> QED  BY <1>0, <2>1, <2>2, <2>3, <2>4
<1>4. ASSUME NEW k \in Lookup, NEW x \in servers, lookup'[k] = "run", Tried(k, x)
      PROVE  Tried(k, x)' \/ SomeJustFailed'
  <2>1. CASE k = l /\ x = s
    BY <1>4, <2>1
  <2>2. CASE k # l \/ x # s
    <3>1. task'[k][x] = task[k][x] /\ received'[k][x] = received[k][x]
      BY <1>0, <1>4, <2>2
    <3>2. CASE task[k][x].pc = "check" /\ Open(x)
      BY <1>3, <3>1, <3>2 DEF Tried
    <3>3. CASE task[k][x].pc = "clock" /\ age[x] >= COOLDOWN
      BY <1>0, <1>1, <3>1, <3>3 DEF Tried
    <3> QED  BY <1>4, <3>1, <3>2, <3>3 DEF Tried
  <2> QED  BY <2>1, <2>2
<1>5. TAKE k \in Lookup
<1>6. lookup'[k] = "reset" => SomeJustFailed' \/ \E x \in servers : x \in todo'[k] \/ Open(x)'
  BY <1>2, <1>3 DEF WayThrough
<1>7. lookup'[k] = "run" => SomeJustFailed' \/ \E x \in servers : Tried(k, x)'
  <2> SUFFICES ASSUME lookup'[k] = "run" PROVE SomeJustFailed' \/ \E x \in servers : Tried(k, x)'
    OBVIOUS
  <2>1. SomeJustFailed \/ \E x \in servers : Tried(k, x)
    BY DEF WayThrough
  <2>2. ASSUME NEW x \in servers, Tried(k, x) PROVE SomeJustFailed' \/ \E y \in servers : Tried(k, y)'
    BY <1>4, <2>2
  <2> QED  BY <1>2, <2>1, <2>2
<1> QED  BY <1>6, <1>7 DEF WayThrough

-----------------------------------------------------------------------------
\* The invariant

\* The inductive invariant holds when the group is built.
LEMMA InvInit == Init => BlackoutInv
<1> SUFFICES ASSUME Init PROVE BlackoutInv
  OBVIOUS
<1>1. TypeOK
  BY TypesInit
<1>2. \A l \in Lookup : Bookkeeping(l) /\ WayThrough(l)
  BY Tasks DEF Init, Bookkeeping, WayThrough
<1> QED  BY <1>1, <1>2 DEF BlackoutInv

\* As long as time stands still the tasks of a lookup that is being prepared do not
\* move, and neither does anything else that counts.
LEMMA Undisturbed ==
  ASSUME BlackoutInv, TypeOK', servers' = servers, streak' = streak, age' = age, group' = group,
         task' = task
  PROVE  BlackoutInv'
BY DEF BlackoutInv, Bookkeeping, WayThrough, SomeJustFailed, JustFailed, Tried, Open, group

\* A tick finds every lookup that listens with a task that queries a server.
LEMMA TickStep ==
  ASSUME BlackoutInv, TypeOK', Tick
  PROVE  BlackoutInv'
<1>1. ASSUME NEW l \in Lookup, NEW x \in Server PROVE task'[l][x].pc = task[l][x].pc
  <2>1. task[l][x] \in Task
    BY DEF BlackoutInv, TypeOK
  <2>2. ~(task[l][x].pc = "sent" /\ task[l][x].left = 0)
    BY DEF Tick, Urgent
  <2>3. task'[l][x] = Aged(task[l][x])
    BY DEF Tick
  <2> QED  BY <2>1, <2>2, <2>3, Ages
<1>2. lookup' = lookup /\ received' = received /\ servers' = servers /\ servers \subseteq Server
  BY DEF Tick, group, outside, BlackoutInv, TypeOK
<1>3. \A l \in Lookup : Bookkeeping(l)'
  BY <1>1, <1>2 DEF BlackoutInv, Bookkeeping
<1>4. ASSUME NEW l \in Lookup PROVE WayThrough(l)'
  <2>1. lookup'[l] # "reset"
    BY <1>2 DEF Tick, Urgent
  <2>2. ASSUME lookup'[l] = "run" PROVE \E x \in servers : Tried(l, x)'
    <3>1. PICK x \in servers : received[l][x] = "none" /\ task[l][x].pc # "none"
      BY <1>2, <2>2 DEF BlackoutInv, Bookkeeping
    <3>2. task[l][x] \in Task /\ task[l][x].pc \notin {"check", "clock", "stamp"}
      BY <1>2 DEF BlackoutInv, TypeOK, Tick, Urgent
    <3>3. task'[l][x].pc \in {"wait", "sent", "backoff"}
      BY <1>1, <1>2, <3>1, <3>2 DEF Task
    <3>4. Tried(l, x)'
      BY <3>3 DEF Tried
    <3> QED  BY <3>4
  <2> QED  BY <1>2, <2>1, <2>2 DEF WayThrough
<1> QED  BY <1>3, <1>4 DEF BlackoutInv

\* The steps that prepare a lookup.
LEMMA PrepareStep ==
  ASSUME BlackoutInv, TypeOK', NEW l \in Lookup, Begin(l) \/ Prepare(l)
  PROVE  BlackoutInv'
<1> USE DEF breaker, outside
<1>0. servers' = servers /\ servers \subseteq Server /\ servers # {}
  BY DEF Begin, Prepare, AllCooling, NoneRecent, AllowProbe, Spawn, BlackoutInv, TypeOK
<1>1. age' = age /\ received' = received
  BY DEF Begin, Prepare, AllCooling, NoneRecent, AllowProbe, Spawn
<1>2. ASSUME task' = task PROVE SomeJustFailed' = SomeJustFailed
  BY <1>0, <1>1, <1>2 DEF SomeJustFailed, JustFailed
<1>3. CASE Begin(l) \/ AllCooling(l) \/ NoneRecent(l)
  <2>1. task' = task /\ streak' = streak
    BY <1>3 DEF Begin, AllCooling, NoneRecent
  <2>2. \A k \in Lookup \ {l} : lookup'[k] = lookup[k] /\ todo'[k] = todo[k]
    BY <1>3 DEF Begin, AllCooling, NoneRecent, BlackoutInv, TypeOK
  <2>3. lookup[l] # "run" /\ lookup'[l] \in {"start", "since", "reset"}
    BY <1>3 DEF Begin, AllCooling, NoneRecent, BlackoutInv, TypeOK
  <2>4. lookup'[l] = "reset" => SomeJustFailed \/ \E x \in servers : x \in todo'[l] \/ Open(x)
    <3>1. CASE Begin(l)
      BY <3>1 DEF Begin, BlackoutInv, TypeOK
    <3>2. CASE AllCooling(l)
      <4>1. lookup'[l] = "reset" => \E x \in servers : ~in_cooldown(x)
        BY <3>2 DEF AllCooling, BlackoutInv, TypeOK
      <4>2. ASSUME NEW x \in servers, ~in_cooldown(x) PROVE Open(x)
        BY <4>2, GroupAssumption DEF in_cooldown, Cooling, Open, BlackoutInv, TypeOK
      <4> QED  BY <4>1, <4>2
    <3>3. CASE NoneRecent(l)
      <4>1. CASE \A x \in servers : age[x] >= PROBE_INTERVAL
        <5>1. todo'[l] = servers
          BY <3>3, <4>1 DEF NoneRecent, BlackoutInv, TypeOK
        <5> QED  BY <1>0, <5>1
      <4>2. ASSUME NEW x \in servers, ~(age[x] >= PROBE_INTERVAL) PROVE SomeJustFailed
        <5>1. age[x] \in Nat /\ PROBE_INTERVAL \in Nat
          BY GroupAssumption DEF BlackoutInv, TypeOK
        <5>2. age[x] < PROBE_INTERVAL
          BY <4>2, <5>1
        <5> QED  BY <5>2 DEF SomeJustFailed, JustFailed
      <4> QED  BY <4>1, <4>2
    <3> QED  BY <1>3, <3>1, <3>2, <3>3
  <2>5. \A x \in Server : Open(x)' = Open(x)
    BY <1>1, <2>1 DEF Open
  <2>6. \A k \in Lookup, x \in Server : Tried(k, x)' = Tried(k, x)
    BY <1>0, <1>1, <2>1 DEF Tried, Open
  <2>7. \A x \in Server : task[l][x].pc = "none"
    BY <1>0, <1>3, Tasks DEF BlackoutInv, Bookkeeping, Begin, AllCooling, NoneRecent
  <2>10. \A k \in Lookup : Bookkeeping(k)'
    BY <1>0, <1>1, <2>1, <2>2, <2>3, <2>7 DEF BlackoutInv, Bookkeeping
  <2>8. WayThrough(l)'
    BY <1>0, <1>2, <2>1, <2>3, <2>4, <2>5 DEF WayThrough
  <2>9. \A k \in Lookup \ {l} : WayThrough(k)'
    BY <1>0, <1>2, <2>1, <2>2, <2>5, <2>6 DEF BlackoutInv, WayThrough
  <2> QED  BY <2>8, <2>9, <2>10 DEF BlackoutInv
<1>4. ASSUME NEW s \in Server, AllowProbe(l, s) PROVE BlackoutInv'
  <2>1. task' = task /\ lookup' = lookup /\ streak' = [streak EXCEPT ![s] = 0]
        /\ todo' = [todo EXCEPT ![l] = @ \ {s}]
    BY <1>4 DEF AllowProbe
  <2>2. \A x \in Server : Open(x) => Open(x)'
    BY <1>1, <2>1, GroupAssumption DEF Open, BlackoutInv, TypeOK
  <2>3. Open(s)'
    BY <2>1, GroupAssumption DEF Open, BlackoutInv, TypeOK
  <2>4. \A k \in Lookup, x \in Server : Tried(k, x) => Tried(k, x)'
    BY <1>0, <1>1, <2>1, <2>2 DEF Tried
  <2>5. \A k \in Lookup, x \in Server : x \in todo[k] => x \in todo'[k] \/ x = s
    BY <2>1 DEF BlackoutInv, TypeOK
  <2>6. \A k \in Lookup : Bookkeeping(k)'
    BY <1>0, <1>1, <2>1 DEF BlackoutInv, Bookkeeping
  <2>7. \A k \in Lookup : WayThrough(k)'
    BY <1>0, <1>2, <2>1, <2>2, <2>3, <2>4, <2>5 DEF BlackoutInv, WayThrough
  <2> QED  BY <2>6, <2>7 DEF BlackoutInv
<1>5. CASE Spawn(l)
  <2>1. lookup[l] = "reset" /\ todo[l] = {} /\ todo' = todo /\ streak' = streak
    BY <1>5 DEF Spawn
  <2>2. \A k \in Lookup \ {l} : lookup'[k] = lookup[k] /\ task'[k] = task[k]
    BY <1>5 DEF Spawn, BlackoutInv, TypeOK
  <2>3. lookup'[l] = "run" /\ \A x \in Server : task'[l][x] = IF x \in servers THEN Checking ELSE NoTask
    BY <1>5 DEF Spawn, BlackoutInv, TypeOK
  <2>4. /\ \A x \in servers : task'[l][x].pc = "check" /\ received'[l][x] = "none"
        /\ \A x \in Server \ servers : task'[l][x].pc = "none"
    BY <1>0, <1>1, <2>1, <2>3, Tasks DEF BlackoutInv, Bookkeeping
  <2>5. \A x \in Server : Open(x)' = Open(x)
    BY <1>1, <2>1 DEF Open
  <2>6. \A x \in Server : task[l][x].pc = "none"
    BY <1>0, <2>1 DEF BlackoutInv, Bookkeeping
  <2>7. SomeJustFailed => SomeJustFailed'
    BY <1>0, <1>1, <2>2, <2>6 DEF SomeJustFailed, JustFailed
  <2>8. \A k \in Lookup : Bookkeeping(k)'
    <3>1. Bookkeeping(l)'
      BY <1>0, <2>3, <2>4 DEF Bookkeeping
    <3>2. \A k \in Lookup \ {l} : Bookkeeping(k)'
      BY <1>0, <1>1, <2>2 DEF BlackoutInv, Bookkeeping
    <3> QED  BY <3>1, <3>2
  <2>9. WayThrough(l)'
    <3>1. SomeJustFailed \/ \E x \in servers : Open(x)
      BY <1>0, <2>1 DEF BlackoutInv, WayThrough
    <3>2. SomeJustFailed' \/ \E x \in servers : Tried(l, x)'
      BY <1>0, <2>4, <2>5, <2>7, <3>1 DEF Tried
    <3> QED  BY <1>0, <2>3, <3>2 DEF WayThrough
  <2>10. ASSUME NEW k \in Lookup \ {l} PROVE WayThrough(k)'
    <3>1. \A x \in Server : Tried(k, x) => Tried(k, x)'
      BY <1>0, <1>1, <2>2, <2>5 DEF Tried
    <3> QED  BY <1>0, <2>1, <2>2, <2>5, <2>7, <3>1 DEF BlackoutInv, WayThrough
  <2> QED  BY <2>8, <2>9, <2>10 DEF BlackoutInv
<1> QED  BY <1>3, <1>4, <1>5 DEF Prepare

\* The steps of a task that go on: nothing is delivered.
LEMMA GoingOn ==
  ASSUME BlackoutInv, TypeOK', NEW l \in Lookup, NEW s \in Server, NEW t \in Task,
         Become(l, s, t), t.pc # "none", task[l][s].pc \notin {"none", "stamp"},
         group' = group, age' = age, servers' = servers,
         streak' = streak \/ (t.pc = "stamp" /\ \A x \in Server \ {s} : streak'[x] = streak[x]),
         Tried(l, s) => Tried(l, s)'
  PROVE  BlackoutInv'
<1>1. /\ task'[l][s] = t
      /\ \A k \in Lookup, x \in Server : k # l \/ x # s => task'[k][x] = task[k][x]
  BY Becomes DEF BlackoutInv
<1>2. lookup' = lookup /\ todo' = todo /\ received' = received
  BY DEF group
<1>0. s \in servers /\ servers \subseteq Server
  BY DEF BlackoutInv, Bookkeeping, TypeOK
<1>3. \A k \in Lookup : Bookkeeping(k)'
  BY <1>0, <1>1, <1>2 DEF BlackoutInv, Bookkeeping
<1>4. \A x \in Server : streak'[x] = streak[x] \/ streak'[x] = 0 \/ (x = s /\ task'[l][s].pc = "stamp")
  BY <1>1
<1>5. \A k \in Lookup : WayThrough(k)'
  BY <1>0, <1>1, <1>2, <1>4, StaysOpen DEF BlackoutInv
<1> QED  BY <1>3, <1>5 DEF BlackoutInv

\* The steps that end a task: its result is entered.
LEMMA Ending ==
  ASSUME BlackoutInv, TypeOK', NEW l \in Lookup, NEW s \in Server, NEW r \in Results,
         Deliver(l, s, r), task[l][s].pc # "none", servers' = servers,
         r = "skipped" => ~Tried(l, s),
         \A x \in Server : age'[x] = age[x] \/ age'[x] = 0,
         \A x \in Server : streak'[x] = streak[x] \/ streak'[x] = 0,
         task[l][s].pc = "stamp" => age'[s] = 0
  PROVE  BlackoutInv'
<1>1. \A k \in Lookup, x \in Server : k # l \/ x # s => task'[k][x] = task[k][x]
  BY Becomes, Tasks DEF BlackoutInv, Deliver
<1>2. /\ \A k \in Lookup : Bookkeeping(k)'
      /\ \A k \in Lookup : /\ lookup'[k] = "run" => lookup[k] = "run"
                           /\ lookup'[k] = "reset" => lookup[k] = "reset"
      /\ \A k \in Lookup, x \in Server :
           lookup'[k] = "run" /\ (k # l \/ x # s) => received'[k][x] = received[k][x]
      /\ lookup'[l] = "run" => received'[l][s] = r
  BY Entered DEF BlackoutInv
<1>3. Tried(l, s) /\ lookup'[l] = "run" => Tried(l, s)'
  BY <1>2 DEF Tried, Results
<1>4. todo' = todo /\ s \in servers
  BY DEF Deliver, BlackoutInv, Bookkeeping
<1>5. \A k \in Lookup : WayThrough(k)'
  BY <1>1, <1>2, <1>3, <1>4, StaysOpen DEF BlackoutInv
<1> QED  BY <1>2, <1>5 DEF BlackoutInv

\* A server whose task finds it cooling was not going to be tried.
LEMMA SkippedUntried ==
  ASSUME BlackoutInv, NEW l \in Lookup, NEW s \in Server, Skip(l, s)
  PROVE  ~Tried(l, s)
<1>1. task[l][s].pc = "clock" /\ age[s] < COOLDOWN
  BY DEF Skip, Cooling
<1>2. s \in servers
  BY <1>1 DEF BlackoutInv, Bookkeeping
<1>4. received[l][s] = "none"
  BY <1>1, <1>2 DEF BlackoutInv, Bookkeeping, TypeOK
<1>3. age[s] \in Nat /\ COOLDOWN \in Nat
  BY GroupAssumption DEF BlackoutInv, TypeOK
<1> QED  BY <1>1, <1>3, <1>4 DEF Tried

\* Every step keeps the inductive invariant.
LEMMA InvStep == BlackoutInv /\ [Next]_vars => BlackoutInv'
<1> SUFFICES ASSUME BlackoutInv, [Next]_vars PROVE BlackoutInv'
  OBVIOUS
<1>1. TypeOK /\ TypeOK'
  BY TypesStep DEF BlackoutInv
<1> USE DEF breaker, outside
<1>2. CASE Tick
  BY <1>1, <1>2, TickStep
<1>3. ASSUME NEW s \in Server, Break(s) \/ Repair(s) PROVE BlackoutInv'
  BY <1>1, <1>3, Undisturbed DEF Break, Repair
<1>4. ASSUME NEW l \in Lookup, Begin(l) \/ Prepare(l) PROVE BlackoutInv'
  BY <1>1, <1>4, PrepareStep
<1>5. ASSUME NEW l \in Lookup, NEW s \in Server, Admitted(l, s), UNCHANGED <<breaker, outside, group>>,
             task[l][s].pc \in {"check", "clock"}
      PROVE  BlackoutInv'
  <2> DEFINE t == [NoTask EXCEPT !.pc = "wait", !.retries = RETRIES]
  <2>1. t \in Task /\ t.pc = "wait" /\ Become(l, s, t)
    BY <1>5, Tasks DEF Admitted, NoTask
  <2> HIDE DEF t
  <2>2. task'[l][s].pc = "wait"
    BY <1>1, <2>1, Becomes
  <2>3. Tried(l, s)'
    BY <2>2 DEF Tried
  <2> QED  BY <1>1, <1>5, <2>1, <2>3, GoingOn
<1>6. ASSUME NEW l \in Lookup, NEW s \in Server, NEW p \in {"clock", "wait", "stamp"},
             Goto(l, s, p), UNCHANGED <<age, outside, group>>, task[l][s].pc \notin {"none", "stamp"},
             streak' = streak \/ (p = "stamp" /\ \A x \in Server \ {s} : streak'[x] = streak[x]),
             p = "clock" => task[l][s].pc = "check" /\ ~(streak[s] < FAIL_THRESHOLD)
      PROVE  BlackoutInv'
  <2> DEFINE t == [task[l][s] EXCEPT !.pc = p]
  <2>1. task[l][s] \in Task
    BY <1>1 DEF TypeOK
  <2>2. t \in Task /\ t.pc = p /\ Become(l, s, t)
    <3>1. Become(l, s, t)
      BY <1>6, Zenon DEF Goto
    <3>2. t \in Task /\ t.pc = p
      BY <2>1, Goes DEF Task
    <3> QED  BY <3>1, <3>2
  <2> HIDE DEF t
  <2>3. task'[l][s].pc = p
    BY <1>1, <2>2, Becomes
  <2>4. received' = received /\ age' = age
    BY <1>6 DEF group
  <2>5. Tried(l, s) => Tried(l, s)'
    <3>1. CASE p \in {"wait", "stamp"}
      BY <2>3, <3>1 DEF Tried
    <3>2. CASE p = "clock"
      <4>1. task[l][s].pc = "check" /\ ~(streak[s] < FAIL_THRESHOLD)
        BY <1>6, <3>2
      <4> QED  BY <2>3, <2>4, <3>2, <4>1 DEF Tried, Open
    <3> QED  BY <3>1, <3>2
  <2> QED  BY <1>1, <1>6, <2>2, <2>5, GoingOn
<1>7. ASSUME NEW l \in Lookup, NEW s \in Server, CheckStreak(l, s) PROVE BlackoutInv'
  BY <1>5, <1>6, <1>7 DEF CheckStreak
<1>8. ASSUME NEW l \in Lookup, NEW s \in Server, CheckClock(l, s) PROVE BlackoutInv'
  BY <1>5, <1>8 DEF CheckClock
<1>9. ASSUME NEW l \in Lookup, NEW s \in Server, Retry(l, s) PROVE BlackoutInv'
  BY <1>6, <1>9 DEF Retry
<1>10. ASSUME NEW l \in Lookup, NEW s \in Server, Fail(l, s) PROVE BlackoutInv'
  <2>1. \A x \in Server \ {s} : streak'[x] = streak[x]
    BY <1>1, <1>10 DEF Fail, TypeOK
  <2> QED  BY <1>6, <1>10, <2>1 DEF Fail
<1>11. ASSUME NEW l \in Lookup, NEW s \in Server, Acquire(l, s) \/ Backoff(l, s) PROVE BlackoutInv'
  <2>1. task[l][s] \in Task
    BY <1>1 DEF TypeOK
  <2>2. PICK t : Become(l, s, t) /\ t \in Task /\ t.pc \in {"sent", "backoff"}
    <3>1. CASE Acquire(l, s)
      <4>1. [task[l][s] EXCEPT !.pc = "sent", !.left = QUERY_TIMEOUT] \in Task
        <5>1. QUERY_TIMEOUT \in 0..QUERY_TIMEOUT
          BY GroupAssumption
        <5> QED  BY <2>1, <5>1, Zenon DEF Task
      <4>2. [task[l][s] EXCEPT !.pc = "sent", !.left = QUERY_TIMEOUT].pc = "sent"
        BY <2>1 DEF Task
      <4> QED  BY <3>1, <4>1, <4>2, Zenon DEF Acquire
    <3>2. CASE Backoff(l, s)
      <4>1. task[l][s].retries - 1 \in 0..RETRIES
        BY <2>1, <3>2, GroupAssumption DEF Backoff, Task
      <4>2. [task[l][s] EXCEPT !.pc = "backoff", !.retries = task[l][s].retries - 1] \in Task
        BY <2>1, <4>1, Zenon DEF Task
      <4>3. [task[l][s] EXCEPT !.pc = "backoff", !.retries = task[l][s].retries - 1].pc = "backoff"
        BY <2>1 DEF Task
      <4> QED  BY <3>2, <4>2, <4>3, Zenon DEF Backoff
    <3> QED  BY <1>11, <3>1, <3>2
  <2>3. Tried(l, s)'
    BY <1>1, <2>2, Becomes DEF Tried
  <2>4. task[l][s].pc \notin {"none", "stamp"} /\ UNCHANGED <<streak, age, outside, group>>
    BY <1>11 DEF Acquire, Backoff
  <2> QED  BY <1>1, <2>2, <2>3, <2>4, GoingOn
<1>12. ASSUME NEW l \in Lookup, NEW s \in Server, Skip(l, s) PROVE BlackoutInv'
  <2>1. ~Tried(l, s) /\ "skipped" \in Results
    BY <1>12, SkippedUntried DEF Results
  <2> QED  BY <1>1, <1>12, <2>1, Ending DEF Skip
<1>13. ASSUME NEW l \in Lookup, NEW s \in Server, Busy(l, s) PROVE BlackoutInv'
  BY <1>1, <1>13, Ending DEF Busy, Results
<1>14. ASSUME NEW l \in Lookup, NEW s \in Server, NEW r \in Results, Succeed(l, s, r) PROVE BlackoutInv'
  <2>1. \A x \in Server : streak'[x] = streak[x] \/ streak'[x] = 0
    BY <1>1, <1>14 DEF Succeed, TypeOK
  <2> QED  BY <1>1, <1>14, <2>1, Ending DEF Succeed
<1>15. ASSUME NEW l \in Lookup, NEW s \in Server, Record(l, s) PROVE BlackoutInv'
  <2>1. age'[s] = 0 /\ \A x \in Server : age'[x] = age[x] \/ age'[x] = 0
    BY <1>1, <1>15 DEF Record, TypeOK
  <2>2. "failed" \in Results /\ "failed" # "skipped"
    BY DEF Results
  <2>3. Deliver(l, s, "failed") /\ task[l][s].pc = "stamp" /\ streak' = streak /\ servers' = servers
    BY <1>15 DEF Record
  <2> QED  BY <1>1, <2>1, <2>2, <2>3, Ending
<1>16. CASE UNCHANGED vars
  BY <1>1, <1>16, Undisturbed DEF vars
<1> QED
  BY <1>2, <1>3, <1>4, <1>7, <1>8, <1>9, <1>10, <1>11, <1>12, <1>13, <1>14, <1>15, <1>16
     DEF Next, Proceed, Respond

-----------------------------------------------------------------------------
\* In every reachable state some server is open to every lookup that has passed
\* the half-open check, unless one has just failed.
THEOREM BreakerInvariant == Spec => []BlackoutInv
BY InvInit, InvStep, PTL DEF Spec

\* The variables of the group keep their types; the retries of a task never
\* underflow.
THEOREM GroupTypes == Spec => []TypeOK
<1>1. BlackoutInv => TypeOK
  BY DEF BlackoutInv
<1> QED  BY <1>1, BreakerInvariant, PTL

\* A lookup is turned away by every server of its group only within
\* NS_PROBE_INTERVAL of a failure, for any servers, lookups and numbers.
THEOREM NeverShutOut == Spec => NoBlackout
<1> DEFINE Step ==
      \A l \in Lookup, s \in Server :
        Skip(l, s) /\ lookup[l] = "run" /\ (\A x \in servers \ {s} : received[l][x] = "skipped")
          => \E x \in servers : JustFailed(x)
<1>1. BlackoutInv => Step
  <2> SUFFICES ASSUME BlackoutInv, NEW l \in Lookup, NEW s \in Server, Skip(l, s), lookup[l] = "run",
                      \A x \in servers \ {s} : received[l][x] = "skipped"
               PROVE  SomeJustFailed
    BY DEF SomeJustFailed
  <2>1. ~Tried(l, s)
    BY SkippedUntried
  <2>2. \A x \in servers \ {s} : task[l][x].pc = "none" /\ received[l][x] = "skipped"
    BY DEF BlackoutInv, Bookkeeping, TypeOK
  <2>3. \A x \in servers : ~Tried(l, x)
    BY <2>1, <2>2 DEF Tried
  <2> QED  BY <2>3 DEF BlackoutInv, WayThrough
<1>2. BlackoutInv /\ [Next]_vars => [Step]_vars
  BY <1>1
<1> HIDE DEF Step
<1>3. Spec => [][Step]_vars
  BY <1>2, BreakerInvariant, PTL DEF Spec
<1> QED  BY <1>3 DEF Step, NoBlackout

-----------------------------------------------------------------------------
\* Tasks come to their end

\* The measures are natural numbers, and steps outweigh ticks.
LEMMA Weighs ==
  ASSUME NEW t \in Task
  PROVE  /\ StepsLeft(t) \in Nat
         /\ WorkLeft(t) \in Nat
         /\ StepsLeft(t) * (QUERY_TIMEOUT + 1) <= WorkLeft(t)
         /\ WorkLeft(t) <= StepsLeft(t) * (QUERY_TIMEOUT + 1) + QUERY_TIMEOUT
<1>1. t.retries \in Nat /\ t.left \in 0..QUERY_TIMEOUT
      /\ t.pc \in {"none", "check", "clock", "wait", "sent", "backoff", "stamp"}
  BY GroupAssumption DEF Task
<1>2. StepsLeft(t) \in Nat
  BY <1>1, GroupAssumption DEF StepsLeft
<1>3. StepsLeft(t) * (QUERY_TIMEOUT + 1) \in Nat
  BY <1>2, GroupAssumption
<1> HIDE DEF StepsLeft
<1> QED  BY <1>1, <1>2, <1>3, GroupAssumption DEF WorkLeft

\* A task with fewer steps left has less work left.
LEMMA FewerSteps ==
  ASSUME NEW t \in Task, NEW u \in Task, StepsLeft(u) < StepsLeft(t)
  PROVE  WorkLeft(u) < WorkLeft(t) /\ WorkLeft(u) >= 0
<1>1. PICK m \in Nat : m = StepsLeft(u)
  BY Weighs
<1>2. PICK n \in Nat : n = StepsLeft(t)
  BY Weighs
<1>3. PICK q \in Nat : q = QUERY_TIMEOUT
  BY GroupAssumption
<1>4. m * (q + 1) + q < n * (q + 1)
  <2>1. PICK d \in Nat : n = m + 1 + d
    <3>1. n - m - 1 \in Nat /\ n = m + 1 + (n - m - 1)
      BY <1>1, <1>2
    <3> QED  BY <3>1
  <2>2. n * (q + 1) = m * (q + 1) + (q + 1) + d * (q + 1)
    BY <2>1
  <2>3. d * (q + 1) \in Nat /\ m * (q + 1) \in Nat
    OBVIOUS
  <2> QED  BY <2>2, <2>3
<1>5. /\ WorkLeft(u) \in Nat /\ WorkLeft(u) <= m * (q + 1) + q
      /\ WorkLeft(t) \in Nat /\ n * (q + 1) <= WorkLeft(t)
  BY <1>1, <1>2, <1>3, Weighs
<1>6. m * (q + 1) \in Nat /\ n * (q + 1) \in Nat
  OBVIOUS
<1> QED  BY <1>4, <1>5, <1>6

\* A tick of a query that is out.
LEMMA TickWeighs ==
  ASSUME NEW t \in Task, t.pc = "sent", t.left # 0
  PROVE  WorkLeft(Aged(t)) < WorkLeft(t) /\ WorkLeft(Aged(t)) >= 0
<1>1. Aged(t) \in Task /\ Aged(t).pc = "sent"
  BY Ages
<1>2. Aged(t) = [t EXCEPT !.left = t.left - 1, !.elapsed = Later(t.elapsed)]
  BY DEF Aged
<1>3. PICK e : e = Later(t.elapsed)
  BY Zenon
<1>4. Aged(t).left = t.left - 1 /\ Aged(t).retries = t.retries
  BY <1>2, <1>3, Zenon DEF Task
<1>5. StepsLeft(Aged(t)) = StepsLeft(t)
  BY <1>1, <1>4 DEF StepsLeft
<1>6. t.left \in Nat /\ WorkLeft(t) \in Nat /\ WorkLeft(Aged(t)) \in Nat
  BY <1>1, Weighs, GroupAssumption DEF Task
<1>7. PICK b : b = StepsLeft(t) * (QUERY_TIMEOUT + 1)
  BY Zenon
<1>8. WorkLeft(t) = b + t.left /\ WorkLeft(Aged(t)) = b + (t.left - 1)
  BY <1>1, <1>4, <1>5, <1>7, Zenon DEF WorkLeft
<1>9. b \in Int
  BY <1>7, Weighs, GroupAssumption
<1> QED  BY <1>6, <1>8, <1>9

\* What TaskProgress says of one task.
Nearer(t, u) ==
  t.pc # "none" /\ u # t /\ ~(t.pc \in {"wait", "backoff"} /\ u.pc = t.pc)
    => WorkLeft(u) < WorkLeft(t) /\ WorkLeft(u) >= 0

\* One task takes a step and has fewer left; the others stay.
LEMMA OneGoesOn ==
  ASSUME TypeOK, NEW l \in Lookup, NEW s \in Server, NEW u \in Task, Become(l, s, u),
         StepsLeft(u) < StepsLeft(task[l][s])
  PROVE  \A k \in Lookup, x \in Server : Nearer(task[k][x], task'[k][x])
<1>1. /\ task'[l][s] = u
      /\ \A k \in Lookup, x \in Server : k # l \/ x # s => task'[k][x] = task[k][x]
  BY Becomes
<1>2. task[l][s] \in Task
  BY DEF TypeOK
<1>3. WorkLeft(u) < WorkLeft(task[l][s]) /\ WorkLeft(u) >= 0
  BY <1>2, FewerSteps
<1> HIDE DEF WorkLeft
<1> QED  BY <1>1, <1>3, Zenon DEF Nearer

\* A task that has delivered is over.
LEMMA DeliverGoesOn ==
  ASSUME TypeOK, NEW l \in Lookup, NEW s \in Server, NEW r, Deliver(l, s, r),
         task[l][s].pc # "none"
  PROVE  \A k \in Lookup, x \in Server : Nearer(task[k][x], task'[k][x])
<1>1. Become(l, s, NoTask) /\ NoTask \in Task
  BY Tasks DEF Deliver
<1>2. task[l][s] \in Task
  BY DEF TypeOK
<1>3. StepsLeft(NoTask) = 0 /\ StepsLeft(task[l][s]) > 0
  BY <1>2, GroupAssumption DEF StepsLeft, NoTask, Task
<1> QED  BY <1>1, <1>3, OneGoesOn

\* What one step of a task does to the steps it has left.
LEMMA Ranks ==
  ASSUME NEW t \in Task
  PROVE  /\ t.pc \in {"check", "clock"} =>
              StepsLeft([NoTask EXCEPT !.pc = "wait", !.retries = RETRIES]) < StepsLeft(t)
         /\ t.pc = "check" => StepsLeft([t EXCEPT !.pc = "clock"]) < StepsLeft(t)
         /\ t.pc = "wait" =>
              StepsLeft([t EXCEPT !.pc = "sent", !.left = QUERY_TIMEOUT]) < StepsLeft(t)
         /\ t.pc = "sent" => StepsLeft([t EXCEPT !.pc = "stamp"]) < StepsLeft(t)
         /\ t.pc = "sent" =>
              StepsLeft([t EXCEPT !.pc = "backoff", !.retries = t.retries - 1]) < StepsLeft(t)
         /\ t.pc = "backoff" => StepsLeft([t EXCEPT !.pc = "wait"]) < StepsLeft(t)
<1>0. t.retries \in Nat /\ RETRIES \in Nat
  BY GroupAssumption DEF Task
<1>1. PICK u : u = [NoTask EXCEPT !.pc = "wait", !.retries = RETRIES]
  BY Zenon
<1>2. u.pc = "wait" /\ u.retries = RETRIES
  BY <1>1, Zenon DEF NoTask
<1>3. t.pc \in {"check", "clock"} => StepsLeft(u) < StepsLeft(t)
  BY <1>0, <1>2 DEF StepsLeft
<1>4. t.pc = "check" => StepsLeft([t EXCEPT !.pc = "clock"]) < StepsLeft(t)
  BY <1>0 DEF StepsLeft, Task
<1>5. PICK v : v = [t EXCEPT !.pc = "sent", !.left = QUERY_TIMEOUT]
  BY Zenon
<1>6. v.pc = "sent" /\ v.retries = t.retries
  BY <1>5, Zenon DEF Task
<1>7. t.pc = "wait" => StepsLeft(v) < StepsLeft(t)
  BY <1>0, <1>6 DEF StepsLeft
<1>8. t.pc = "sent" => StepsLeft([t EXCEPT !.pc = "stamp"]) < StepsLeft(t)
  BY <1>0 DEF StepsLeft, Task
<1>9. PICK w : w = [t EXCEPT !.pc = "backoff", !.retries = t.retries - 1]
  BY Zenon
<1>10. w.pc = "backoff" /\ w.retries = t.retries - 1
  BY <1>9, Zenon DEF Task
<1>11. t.pc = "sent" => StepsLeft(w) < StepsLeft(t)
  BY <1>0, <1>10 DEF StepsLeft
<1>12. t.pc = "backoff" => StepsLeft([t EXCEPT !.pc = "wait"]) < StepsLeft(t)
  BY <1>0 DEF StepsLeft, Task
<1> QED  BY <1>1, <1>3, <1>4, <1>5, <1>7, <1>8, <1>9, <1>11, <1>12

\* Every step brings every task it touches nearer to its end.
LEMMA StepNearer ==
  ASSUME BlackoutInv, Next
  PROVE  \A k \in Lookup, x \in Server : Nearer(task[k][x], task'[k][x])
<1>0. TypeOK /\ \A k \in Lookup, x \in Server : task[k][x] \in Task
  BY DEF BlackoutInv, TypeOK
<1>1. CASE Tick
  <2> TAKE k \in Lookup, x \in Server
  <2>1. task'[k][x] = Aged(task[k][x])
    BY <1>1 DEF Tick
  <2>2. task[k][x].pc \notin {"check", "clock", "stamp"} /\ ~(task[k][x].pc = "sent" /\ task[k][x].left = 0)
    BY <1>1 DEF Tick, Urgent
  <2>3. Aged(task[k][x]).pc = task[k][x].pc
    BY <1>0, <2>2, Ages
  <2>4. CASE task[k][x].pc = "sent"
    BY <1>0, <2>1, <2>2, <2>4, TickWeighs DEF Nearer
  <2>5. CASE task[k][x].pc \in {"none", "wait", "backoff"}
    BY <2>1, <2>3, <2>5 DEF Nearer
  <2>6. task[k][x].pc \in {"none", "check", "clock", "wait", "sent", "backoff", "stamp"}
    BY <1>0 DEF Task
  <2> QED  BY <2>2, <2>4, <2>5, <2>6
<1>2. CASE task' = task
  BY <1>2 DEF Nearer
<1>3. ASSUME NEW l \in Lookup, Spawn(l)
      PROVE  \A k \in Lookup, x \in Server : Nearer(task[k][x], task'[k][x])
  <2>1. \A x \in Server : task[l][x].pc = "none"
    BY <1>3 DEF Spawn, BlackoutInv, Bookkeeping
  <2>2. \A k \in Lookup \ {l} : task'[k] = task[k]
    BY <1>0, <1>3 DEF Spawn, TypeOK
  <2> QED  BY <2>1, <2>2 DEF Nearer
<1>4. ASSUME NEW l \in Lookup, NEW s \in Server,
             \/ CheckStreak(l, s) \/ CheckClock(l, s) \/ Retry(l, s) \/ Acquire(l, s)
             \/ Backoff(l, s) \/ Fail(l, s)
      PROVE  \A k \in Lookup, x \in Server : Nearer(task[k][x], task'[k][x])
  <2>1. PICK t \in Task : t = task[l][s]
    BY <1>0
  <2>2. PICK u \in Task : Become(l, s, u) /\ StepsLeft(u) < StepsLeft(t)
    <3>1. CASE CheckStreak(l, s) \/ CheckClock(l, s)
      <4>1. t.pc \in {"check", "clock"} /\ (Admitted(l, s) \/ (t.pc = "check" /\ Goto(l, s, "clock")))
        BY <2>1, <3>1 DEF CheckStreak, CheckClock
      <4>2. CASE Admitted(l, s)
        BY <4>1, <4>2, Ranks, Tasks, Zenon DEF Admitted
      <4>3. CASE t.pc = "check" /\ Goto(l, s, "clock")
        <5>1. [t EXCEPT !.pc = "clock"] \in Task
          BY Goes, Zenon
        <5> QED  BY <2>1, <4>3, <5>1, Ranks, Zenon DEF Goto
      <4> QED  BY <4>1, <4>2, <4>3
    <3>2. CASE Retry(l, s)
      <4>1. [t EXCEPT !.pc = "wait"] \in Task
        BY Goes, Zenon
      <4> QED  BY <2>1, <3>2, <4>1, Ranks, Zenon DEF Retry, Goto
    <3>3. CASE Acquire(l, s)
      <4>1. QUERY_TIMEOUT \in 0..QUERY_TIMEOUT
        BY GroupAssumption
      <4>2. [t EXCEPT !.pc = "sent", !.left = QUERY_TIMEOUT] \in Task
        BY <4>1, Zenon DEF Task
      <4> QED  BY <2>1, <3>3, <4>2, Ranks, Zenon DEF Acquire
    <3>4. CASE Backoff(l, s)
      <4>1. t.retries - 1 \in 0..RETRIES
        BY <2>1, <3>4, GroupAssumption DEF Backoff, Task
      <4>2. [t EXCEPT !.pc = "backoff", !.retries = t.retries - 1] \in Task
        BY <4>1, Zenon DEF Task
      <4>3. Become(l, s, [t EXCEPT !.pc = "backoff", !.retries = t.retries - 1]) /\ t.pc = "sent"
        BY <2>1, <3>4 DEF Backoff
      <4> QED  BY <4>2, <4>3, Ranks, Zenon
    <3>5. CASE Fail(l, s)
      <4>1. [t EXCEPT !.pc = "stamp"] \in Task
        BY Goes, Zenon
      <4> QED  BY <2>1, <3>5, <4>1, Ranks, Zenon DEF Fail, Goto
    <3> QED  BY <1>4, <3>1, <3>2, <3>3, <3>4, <3>5
  <2> QED  BY <1>0, <2>1, <2>2, OneGoesOn
<1>5. ASSUME NEW l \in Lookup, NEW s \in Server,
             Skip(l, s) \/ Busy(l, s) \/ Record(l, s) \/ \E r \in Results : Succeed(l, s, r)
      PROVE  \A k \in Lookup, x \in Server : Nearer(task[k][x], task'[k][x])
  <2>1. PICK r : Deliver(l, s, r) /\ task[l][s].pc # "none"
    BY <1>5 DEF Skip, Busy, Record, Succeed
  <2> QED  BY <1>0, <2>1, DeliverGoesOn
<1>6. CASE \E s \in Server : Break(s) \/ Repair(s)
  BY <1>2, <1>6 DEF Break, Repair
<1>7. CASE \E l \in Lookup : Begin(l) \/ Prepare(l)
  <2>1. PICK l \in Lookup : Begin(l) \/ Prepare(l)
    BY <1>7
  <2>2. CASE Spawn(l)
    BY <1>3, <2>2
  <2>3. CASE Begin(l) \/ AllCooling(l) \/ NoneRecent(l) \/ \E s \in Server : AllowProbe(l, s)
    BY <1>2, <2>3 DEF Begin, AllCooling, NoneRecent, AllowProbe
  <2> QED  BY <2>1, <2>2, <2>3 DEF Prepare
<1>8. CASE \E l \in Lookup, s \in Server : Proceed(l, s) \/ Acquire(l, s) \/ Respond(l, s)
  BY <1>4, <1>5, <1>8 DEF Proceed, Respond
<1> QED  BY <1>1, <1>6, <1>7, <1>8 DEF Next

\* For any servers, lookups, numbers of retries and timeouts, everything that happens
\* to a task of NameServer::lookup brings it nearer to its end, but for the time it
\* waits for a permit or sits out a backoff.
THEOREM TasksRunOut == Spec => TaskProgress
<1>1. BlackoutInv /\ [Next]_vars =>
        [\A l \in Lookup, s \in Server : Nearer(task[l][s], task'[l][s])]_vars
  BY StepNearer
<1> QED  BY <1>1, BreakerInvariant, PTL DEF Spec, TaskProgress, Nearer
=============================================================================
