-------------------------- MODULE NameServerGroup --------------------------
(***************************************************************************)
(* The upstream side of a query (src/src/dns_client.rs): a group of name   *)
(* servers, the lookup that queries all of them in detached tasks and takes *)
(* the first answer with records, and the circuit breaker of each server:   *)
(* a streak of failures puts it into a cooldown in which it is skipped, and *)
(* a group that is cooling as a whole is let through for a probe.           *)
(*                                                                         *)
(* Time is relative: the age of a failure and the time left to a query are  *)
(* counted in ticks.  Steps that wait for nothing take no time.             *)
(***************************************************************************)
EXTENDS Integers, FiniteSets

CONSTANTS
  Server,          \* the servers a group may consist of
  Lookup,          \* group lookups that may be in flight at once
  FAIL_THRESHOLD,  \* NS_FAIL_THRESHOLD
  COOLDOWN,        \* NS_COOLDOWN
  PROBE_INTERVAL,  \* NS_PROBE_INTERVAL
  QUERY_TIMEOUT,   \* NS_QUERY_TIMEOUT
  DEADLINE,        \* NS_LOOKUP_DEADLINE
  CONCURRENCY,     \* PER_NAMESERVER_CONCURRENCY
  RETRIES,         \* attempts after a retryable error
  MAX_TASKS        \* bound: tasks in flight at once

ASSUME GroupAssumption ==
  /\ IsFiniteSet(Server)
  /\ Server # {}
  /\ FAIL_THRESHOLD \in Nat \ {0}
  /\ PROBE_INTERVAL \in Nat \ {0}
  /\ COOLDOWN \in Nat /\ PROBE_INTERVAL <= COOLDOWN
  /\ QUERY_TIMEOUT \in Nat \ {0}
  /\ DEADLINE \in Nat
  /\ CONCURRENCY \in Nat \ {0}
  /\ RETRIES \in Nat
  /\ MAX_TASKS \in Nat

VARIABLES
  servers,  \* the servers of this group, as configured
  streak,   \* fail_streak, no further than FAIL_THRESHOLD
  age,      \* ticks since last_failure; COOLDOWN also stands for longer and never
  up,       \* whether the server answers within QUERY_TIMEOUT
  lookup,   \* lookup[l]: where the group lookup is
  todo,     \* servers whose counters it has still to reset
  received, \* received[l][s]: what s has sent to the lookup that listens
  task      \* task[l][s]: the lookup on one server, and its locals

breaker == <<streak, age>>
outside == <<servers, up>>
group == <<lookup, todo, received>>
vars == <<breaker, outside, group, task>>

\* What a server's lookup returns: an answer with records; one without, negative or
\* empty; SERVFAIL, REFUSED or an error; or it was skipped in a cooldown.
Results == {"records", "negative", "failed", "skipped"}

\* pc, remaining retries, ticks until the query times out, and ticks since the
\* deadline was set (no further than they matter).
Task ==
  [pc : {"none", "check", "clock", "wait", "sent", "backoff", "stamp"},
   retries : 0..RETRIES, left : 0..QUERY_TIMEOUT, elapsed : 0..DEADLINE]
NoTask == [pc |-> "none", retries |-> 0, left |-> 0, elapsed |-> 0]
Checking == [NoTask EXCEPT !.pc = "check"]

TypeOK ==
  /\ servers \in SUBSET Server /\ servers # {}
  /\ streak \in [Server -> 0..FAIL_THRESHOLD]
  /\ age \in [Server -> 0..COOLDOWN]
  /\ up \in [Server -> BOOLEAN]
  /\ lookup \in [Lookup -> {"idle", "start", "since", "reset", "run"}]
  /\ todo \in [Lookup -> SUBSET Server]
  /\ received \in [Lookup -> [Server -> Results \cup {"none"}]]
  /\ task \in [Lookup -> [Server -> Task]]

Init ==
  /\ servers \in SUBSET Server /\ servers # {}
  /\ streak = [s \in Server |-> 0]
  /\ age = [s \in Server |-> COOLDOWN]
  /\ up = [s \in Server |-> TRUE]
  /\ lookup = [l \in Lookup |-> "idle"]
  /\ todo = [l \in Lookup |-> {}]
  /\ received = [l \in Lookup |-> [s \in Server |-> "none"]]
  /\ task = [l \in Lookup |-> [s \in Server |-> NoTask]]

-----------------------------------------------------------------------------
\* Time and the outside

\* Steps that wait for nothing, and a timeout that has come, are taken before time
\* goes on.
Urgent ==
  \/ \E l \in Lookup : lookup[l] \in {"start", "since", "reset"}
  \/ \E l \in Lookup, s \in Server :
       \/ task[l][s].pc \in {"check", "clock", "stamp"}
       \/ task[l][s].pc = "sent" /\ task[l][s].left = 0

Older(a) == IF a < COOLDOWN THEN a + 1 ELSE a
Later(e) == IF e < DEADLINE THEN e + 1 ELSE e

Aged(t) ==
  CASE t.pc = "none" -> t
    [] t.pc = "sent" -> [t EXCEPT !.left = @ - 1, !.elapsed = Later(@)]
    [] OTHER -> [t EXCEPT !.elapsed = Later(@)]

Tick ==
  /\ ~Urgent
  /\ age' = [s \in Server |-> Older(age[s])]
  /\ task' = [l \in Lookup |-> [s \in Server |-> Aged(task[l][s])]]
  /\ UNCHANGED <<streak, outside, group>>

Break(s) ==
  /\ s \in servers
  /\ up[s]
  /\ up' = [up EXCEPT ![s] = FALSE]
  /\ UNCHANGED <<servers, breaker, group, task>>

Repair(s) ==
  /\ s \in servers
  /\ ~up[s]
  /\ up' = [up EXCEPT ![s] = TRUE]
  /\ UNCHANGED <<servers, breaker, group, task>>

-----------------------------------------------------------------------------
\* NameServerGroup::lookup

\* Mutant: a server that has failed too often stays out.
NeverRested(s) == TRUE

\* The last failure is too recent.
Cooling(s) == age[s] < COOLDOWN

in_cooldown(s) == streak[s] >= FAIL_THRESHOLD /\ Cooling(s)

\* The tasks that run, and those about to be spawned.
InFlight ==
  {p \in Lookup \X servers : \/ lookup[p[1]] \in {"start", "since", "reset"}
                             \/ task[p[1]][p[2]] # NoTask}

\* The tasks of the last lookup of this name have ended.
Begin(l) ==
  /\ Cardinality(InFlight) + Cardinality(servers) <= MAX_TASKS
  /\ lookup[l] = "idle"
  /\ \A s \in Server : task[l][s] = NoTask
  /\ lookup' = [lookup EXCEPT ![l] = "start"]
  /\ UNCHANGED <<breaker, outside, todo, received, task>>

\* `allow_probe_if_all_cooling`: is every server cooling ...
AllCooling(l) ==
  /\ lookup[l] = "start"
  /\ lookup' = [lookup EXCEPT ![l] =
                  IF \A s \in servers : in_cooldown(s) THEN "since" ELSE "reset"]
  /\ UNCHANGED <<breaker, outside, todo, received, task>>

\* Mutant: the counters are cleared only when it no longer matters.
NeverHalfOpen(l) ==
  /\ lookup[l] = "since"
  /\ lookup' = [lookup EXCEPT ![l] = "reset"]
  /\ todo' = [todo EXCEPT ![l] = {s \in servers : age[s] > COOLDOWN}]
  /\ UNCHANGED <<breaker, outside, received, task>>

\* ... and did none of them fail just now?
NoneRecent(l) ==
  /\ lookup[l] = "since"
  /\ lookup' = [lookup EXCEPT ![l] = "reset"]
  /\ todo' = [todo EXCEPT ![l] =
                IF \A s \in servers : age[s] >= PROBE_INTERVAL THEN servers ELSE {}]
  /\ UNCHANGED <<breaker, outside, received, task>>

\* ... then every streak is cleared, one server after the other.
AllowProbe(l, s) ==
  /\ lookup[l] = "reset"
  /\ s \in todo[l]
  /\ streak' = [streak EXCEPT ![s] = 0]
  /\ todo' = [todo EXCEPT ![l] = @ \ {s}]
  /\ UNCHANGED <<age, outside, lookup, received, task>>

\* One detached task per server.
Spawn(l) ==
  /\ lookup[l] = "reset"
  /\ todo[l] = {}
  /\ lookup' = [lookup EXCEPT ![l] = "run"]
  /\ task' = [task EXCEPT ![l] = [s \in Server |-> IF s \in servers THEN Checking ELSE NoTask]]
  /\ UNCHANGED <<breaker, outside, todo, received>>

Become(l, s, t) == task' = [task EXCEPT ![l][s] = t]

\* A lookup that still listens returns with the first answer that has records, or
\* with the last one to arrive.
Ends(l, s, r) == r = "records" \/ \A x \in servers \ {s} : received[l][x] # "none"

\* The task of s ends with r.
Deliver(l, s, r) ==
  /\ Become(l, s, NoTask)
  /\ IF lookup[l] # "run"
     THEN UNCHANGED <<received, lookup>>
     ELSE IF Ends(l, s, r)
     THEN /\ received' = [received EXCEPT ![l] = [x \in Server |-> "none"]]
          /\ lookup' = [lookup EXCEPT ![l] = "idle"]
     ELSE /\ received' = [received EXCEPT ![l][s] = r]
          /\ UNCHANGED lookup
  /\ UNCHANGED todo

-----------------------------------------------------------------------------
\* NameServer::lookup

Goto(l, s, p) == Become(l, s, [task[l][s] EXCEPT !.pc = p])

Admitted(l, s) ==
  Become(l, s, [NoTask EXCEPT !.pc = "wait", !.retries = RETRIES])

\* `in_cooldown` reads the streak ...
CheckStreak(l, s) ==
  /\ task[l][s].pc = "check"
  /\ IF streak[s] < FAIL_THRESHOLD THEN Admitted(l, s) ELSE Goto(l, s, "clock")
  /\ UNCHANGED <<breaker, outside, group>>

\* ... then the time of the last failure.
CheckClock(l, s) ==
  /\ task[l][s].pc = "clock"
  /\ ~Cooling(s)
  /\ Admitted(l, s)
  /\ UNCHANGED <<breaker, outside, group>>

Skip(l, s) ==
  /\ task[l][s].pc = "clock"
  /\ Cooling(s)
  /\ Deliver(l, s, "skipped")
  /\ UNCHANGED <<breaker, outside>>

\* Mutant: a retry queues for its permit with the one it has still in hand.
HoldersOfTwo(s) ==
  {l \in Lookup : \/ task[l][s].pc \in {"sent", "backoff", "stamp"}
                  \/ task[l][s].pc = "wait" /\ task[l][s].retries < RETRIES}

\* The permit is held from here until the answer has been dealt with.
Holders(s) == {l \in Lookup : task[l][s].pc \in {"sent", "backoff", "stamp"}}

Acquire(l, s) ==
  /\ task[l][s].pc = "wait"
  /\ Cardinality(Holders(s)) < CONCURRENCY
  /\ Become(l, s, [task[l][s] EXCEPT !.pc = "sent", !.left = QUERY_TIMEOUT])
  /\ UNCHANGED <<breaker, outside, group>>

Bump(n) == IF n < FAIL_THRESHOLD THEN n + 1 ELSE n

\* An answer that shows the server works, negative ones included:
\* `record_success`.
Succeed(l, s, r) ==
  /\ task[l][s].pc = "sent"
  /\ up[s]
  /\ r \in {"records", "negative"}
  /\ streak' = [streak EXCEPT ![s] = 0]
  /\ Deliver(l, s, r)
  /\ UNCHANGED <<age, outside>>

\* A busy multiplexer counts neither way.
Busy(l, s) ==
  /\ task[l][s].pc = "sent"
  /\ Deliver(l, s, "failed")
  /\ UNCHANGED <<breaker, outside>>

\* SERVFAIL, REFUSED, a timeout or another error: `record_failure` counts ...
Fail(l, s) ==
  /\ task[l][s].pc = "sent"
  /\ ~up[s]
  /\ streak' = [streak EXCEPT ![s] = Bump(@)]
  /\ Goto(l, s, "stamp")
  /\ UNCHANGED <<age, outside, group>>

\* ... and then notes the time.
Record(l, s) ==
  /\ task[l][s].pc = "stamp"
  /\ age' = [age EXCEPT ![s] = 0]
  /\ Deliver(l, s, "failed")
  /\ UNCHANGED <<streak, outside>>

\* Mutant: a retry is not taken off the budget.
BackoffUncounted(l, s) ==
  /\ task[l][s].pc = "sent"
  /\ ~up[s]
  /\ task[l][s].retries > 0
  /\ task[l][s].elapsed < DEADLINE
  /\ Goto(l, s, "backoff")
  /\ UNCHANGED <<breaker, outside, group>>

\* A retryable error, with retries left and before the deadline: wait with the
\* permit, then queue for it again.
Backoff(l, s) ==
  /\ task[l][s].pc = "sent"
  /\ ~up[s]
  /\ task[l][s].retries > 0
  /\ task[l][s].elapsed < DEADLINE
  /\ Become(l, s, [task[l][s] EXCEPT !.pc = "backoff", !.retries = @ - 1])
  /\ UNCHANGED <<breaker, outside, group>>

Retry(l, s) ==
  /\ task[l][s].pc = "backoff"
  /\ Goto(l, s, "wait")
  /\ UNCHANGED <<breaker, outside, group>>

-----------------------------------------------------------------------------
Prepare(l) ==
  \/ AllCooling(l) \/ NoneRecent(l) \/ Spawn(l)
  \/ \E s \in Server : AllowProbe(l, s)

\* The next step of the task waits for nothing but the backoff.
Proceed(l, s) ==
  CheckStreak(l, s) \/ CheckClock(l, s) \/ Skip(l, s) \/ Record(l, s) \/ Retry(l, s)

\* The query comes back, with an answer or an error.
Respond(l, s) ==
  \/ \E r \in Results : Succeed(l, s, r)
  \/ Busy(l, s) \/ Fail(l, s) \/ Backoff(l, s)

Next ==
  \/ Tick
  \/ \E s \in Server : Break(s) \/ Repair(s)
  \/ \E l \in Lookup : Begin(l) \/ Prepare(l)
  \/ \E l \in Lookup, s \in Server : Proceed(l, s) \/ Acquire(l, s) \/ Respond(l, s)

Spec == Init /\ [][Next]_vars

\* Time goes on however many queries come, the runtime polls what can go on, and a
\* semaphore serves the tasks that wait in turn.  A query need not come back before
\* its timeout.
Fairness ==
  /\ SF_vars(Tick)
  /\ \A l \in Lookup : WF_vars(Prepare(l))
  /\ \A l \in Lookup, s \in Server :
       /\ WF_vars(Proceed(l, s) \/ (task[l][s].left = 0 /\ Respond(l, s)))
       /\ SF_vars(Acquire(l, s))

FairSpec == Spec /\ Fairness

-----------------------------------------------------------------------------
\* Properties

JustFailed(s) == age[s] < PROBE_INTERVAL \/ \E l \in Lookup : task[l][s].pc = "stamp"

\* A lookup that every server was skipped for ends that way only if one of them
\* has failed within the last NS_PROBE_INTERVAL (or is just being recorded as
\* failed): a group that has been cooling for longer is always tried, even if
\* other lookups fail or reset the counters meanwhile.
NoBlackout ==
  [][\A l \in Lookup, s \in Server :
       Skip(l, s) /\ lookup[l] = "run" /\ (\A x \in servers \ {s} : received[l][x] = "skipped")
         => \E x \in servers : JustFailed(x)]_vars

\* The steps a task may still take, and with them the ticks of its queries.
StepsLeft(t) ==
  CASE t.pc = "none" -> 0
    [] t.pc = "check" -> 4 * RETRIES + 5
    [] t.pc = "clock" -> 4 * RETRIES + 4
    [] t.pc = "backoff" -> 4 * t.retries + 4
    [] t.pc = "wait" -> 4 * t.retries + 3
    [] t.pc = "sent" -> 4 * t.retries + 2
    [] t.pc = "stamp" -> 4 * t.retries + 1
WorkLeft(t) == StepsLeft(t) * (QUERY_TIMEOUT + 1) + (IF t.pc = "sent" THEN t.left ELSE 0)

\* Whatever the upstream does, and however lookups overtake each other, everything
\* that happens to a task brings it nearer to its end, except that time passes while
\* it waits for its permit or sits out a backoff: the retries run out, and so does
\* the time of every single query.
TaskProgress ==
  [][\A l \in Lookup, s \in Server :
       LET t == task[l][s]
           u == task'[l][s]
       IN  t.pc # "none" /\ u # t /\ ~(t.pc \in {"wait", "backoff"} /\ u.pc = t.pc)
             => WorkLeft(u) < WorkLeft(t) /\ WorkLeft(u) >= 0]_vars

\* Every lookup returns, and every task it left behind ends and gives back its
\* permit, even if no upstream ever answers.
Active(l) == lookup[l] # "idle" \/ \E s \in Server : task[l][s] # NoTask
LookupEnds == \A l \in Lookup : Active(l) ~> ~Active(l)

\* A server that works from some time on is, as time goes on, no longer skipped:
\* neither negative answers, nor busy ones, nor the skipping itself keep it in a
\* cooldown.
Recovers ==
  \A s \in Server :
    <>[]up[s] /\ []<><<Tick>>_vars => <>[][\A l \in Lookup : ~Skip(l, s)]_vars
=============================================================================
