----------------------------- MODULE Dispatcher -----------------------------
(***************************************************************************)
(* The request dispatcher of `app::serve` (src/src/app.rs): one task that  *)
(* takes client and prefetch queries from an unbounded channel, refuses    *)
(* those above `max-query-limit`, groups the others into batches and       *)
(* spawns a task per batch under two semaphores.  Listeners and the        *)
(* prefetcher reach it through `DnsHandle::send` (src/src/server/mod.rs),  *)
(* which waits on a oneshot channel for the reply.                         *)
(*                                                                         *)
(* The processing of one query is the middleware chain; here it is the     *)
(* single step that sends the reply.  The statistics counters that only    *)
(* the web UI reads (total and hit/miss times) are left out.               *)
(***************************************************************************)
EXTENDS Integers, Sequences, FiniteSets

CONSTANTS
  Req,          \* the queries the clients may send, each at most once
  Background,   \* those that carry `is_background` (cache prefetches)
  Panicking,    \* those whose processing panics
  Limits,       \* the values `max-query-limit` takes over the reloads
  BATCH_SIZE,   \* requests taken by one `recv_many`
  BG_PERMITS,   \* background_concurrency: 4 in the code
  FG_PERMITS    \* foreground_concurrency: 64 in the code

ASSUME DispatcherAssumption ==
  /\ Background \subseteq Req
  /\ Panicking \subseteq Req
  /\ Limits \subseteq Nat
  /\ BATCH_SIZE \in Nat \ {0}
  /\ BG_PERMITS \in Nat \ {0}
  /\ FG_PERMITS \in Nat \ {0}

VARIABLES
  reply,            \* per query, what its oneshot channel holds
  inbox,            \* `incoming_request`, the channel of DnsHandle
  pc,               \* the dispatcher's place in its loop
  requests,         \* the vector `recv_many` fills and the loop pops
  batch,            \* the foreground futures of this iteration
  bg_batch,         \* the background futures, kept over iterations
  tasks,            \* `inner_join_set`: spawned batches not yet reaped
  bg_permits,       \* free permits of background_concurrency
  fg_permits,       \* free permits of foreground_concurrency
  active_queries,   \* the atomic counter
  cfg_limit,        \* `max_query_limit` of the current configuration
  max_query_limit,  \* the dispatcher's copy of it for this iteration
  lost              \* history: counted queries no task will ever return

vars == <<reply, inbox, pc, requests, batch, bg_batch, tasks, bg_permits,
          fg_permits, active_queries, cfg_limit, max_query_limit, lost>>

Elems(s) == {s[i] : i \in 1..Len(s)}

Replies == {"unsent", "waiting", "answered", "refused", "dropped"}

\* A spawned batch: its futures, those still to complete, and how far the
\* task is (the permit is dropped before the task returns its count).
Task == [kind : {"bg", "fg"}, members : SUBSET Req, todo : SUBSET Req,
         st : {"running", "released", "finished", "panicked"}]

TypeOK ==
  /\ reply \in [Req -> Replies]
  /\ inbox \in Seq(Req)
  /\ pc \in {"recv", "config", "pop", "spawn_fg", "reap"}
  /\ requests \in Seq(Req)
  /\ batch \subseteq Req
  /\ bg_batch \subseteq Req
  /\ tasks \subseteq Task
  /\ bg_permits \in 0..BG_PERMITS
  /\ fg_permits \in 0..FG_PERMITS
  /\ active_queries \in Nat
  /\ cfg_limit \in Limits
  /\ max_query_limit \in Nat
  /\ lost \subseteq Req

-----------------------------------------------------------------------------
\* Clients and configuration

Init ==
  /\ reply = [q \in Req |-> "unsent"]
  /\ inbox = <<>>
  /\ pc = "recv"
  /\ requests = <<>>
  /\ batch = {}
  /\ bg_batch = {}
  /\ tasks = {}
  /\ bg_permits = BG_PERMITS
  /\ fg_permits = FG_PERMITS
  /\ active_queries = 0
  /\ cfg_limit \in Limits
  /\ max_query_limit = 0
  /\ lost = {}

\* `DnsHandle::send`: the query enters the channel with its oneshot sender.
\* The application owns the receiver as long as it runs, so this cannot fail.
Send(q) ==
  /\ reply[q] = "unsent"
  /\ reply' = [reply EXCEPT ![q] = "waiting"]
  /\ inbox' = Append(inbox, q)
  /\ UNCHANGED <<pc, requests, batch, bg_batch, tasks, bg_permits, fg_permits,
                 active_queries, cfg_limit, max_query_limit, lost>>

\* `App::reload` stores a new configuration.
Reload(l) ==
  /\ cfg_limit # l
  /\ cfg_limit' = l
  /\ UNCHANGED <<reply, inbox, pc, requests, batch, bg_batch, tasks, bg_permits,
                 fg_permits, active_queries, max_query_limit, lost>>

-----------------------------------------------------------------------------
\* The dispatcher loop

\* `recv_many` takes what is in the channel, at most BATCH_SIZE requests, and
\* all of them are counted at once.
Recv ==
  LET n == IF Len(inbox) < BATCH_SIZE THEN Len(inbox) ELSE BATCH_SIZE IN
  /\ pc = "recv"
  /\ inbox # <<>>
  /\ requests' = SubSeq(inbox, 1, n)
  /\ inbox' = SubSeq(inbox, n + 1, Len(inbox))
  /\ active_queries' = active_queries + n
  /\ pc' = "config"
  /\ UNCHANGED <<reply, batch, bg_batch, tasks, bg_permits, fg_permits,
                 cfg_limit, max_query_limit, lost>>

\* The handler and the limit are read under their locks, after an await.
ReadConfig ==
  /\ pc = "config"
  /\ max_query_limit' = cfg_limit
  /\ pc' = "pop"
  /\ UNCHANGED <<reply, inbox, requests, batch, bg_batch, tasks, bg_permits,
                 fg_permits, active_queries, cfg_limit, lost>>

\* Mutant: the limit is compared with >= of the next integer (off by one).
LooseLimit(limit, is_background, active) ==
  limit > 0 /\ ~is_background /\ active > limit + 1

should_refuse_query(limit, is_background, active) ==
  limit > 0 /\ ~is_background /\ active > limit

\* `requests.pop()`: the vector is consumed from its end.
Popped == requests[Len(requests)]
Rest == SubSeq(requests, 1, Len(requests) - 1)


\* Mutant: a refused query is not taken off the counter.
RefuseUncounted ==
  /\ pc = "pop"
  /\ requests # <<>>
  /\ should_refuse_query(max_query_limit, Popped \in Background, active_queries)
  /\ reply' = [reply EXCEPT ![Popped] = "refused"]
  /\ requests' = Rest
  /\ UNCHANGED <<inbox, pc, batch, bg_batch, tasks, bg_permits, fg_permits,
                 active_queries, cfg_limit, max_query_limit, lost>>

Refuse ==
  /\ pc = "pop"
  /\ requests # <<>>
  /\ should_refuse_query(max_query_limit, Popped \in Background, active_queries)
  /\ reply' = [reply EXCEPT ![Popped] = "refused"]
  /\ active_queries' = active_queries - 1
  /\ requests' = Rest
  /\ UNCHANGED <<inbox, pc, batch, bg_batch, tasks, bg_permits, fg_permits,
                 cfg_limit, max_query_limit, lost>>

Admit ==
  /\ pc = "pop"
  /\ requests # <<>>
  /\ ~should_refuse_query(max_query_limit, Popped \in Background, active_queries)
  /\ requests' = Rest
  /\ IF Popped \in Background
     THEN bg_batch' = bg_batch \cup {Popped} /\ batch' = batch
     ELSE batch' = batch \cup {Popped} /\ bg_batch' = bg_batch
  /\ UNCHANGED <<reply, inbox, pc, tasks, bg_permits, fg_permits,
                 active_queries, cfg_limit, max_query_limit, lost>>

NewTask(k, S) == [kind |-> k, members |-> S, todo |-> S, st |-> "running"]


\* Mutant: the background batch is emptied even when no permit is free.
SpawnBgForgets ==
  /\ pc = "pop"
  /\ requests = <<>>
  /\ IF bg_batch # {} /\ bg_permits > 0
     THEN /\ tasks' = tasks \cup {NewTask("bg", bg_batch)}
          /\ bg_permits' = bg_permits - 1
     ELSE UNCHANGED <<tasks, bg_permits>>
  /\ bg_batch' = {}
  /\ pc' = "spawn_fg"
  /\ UNCHANGED <<reply, inbox, requests, batch, fg_permits, active_queries,
                 cfg_limit, max_query_limit, lost>>

\* The background batch is spawned when a permit is free; otherwise it stays
\* for a later iteration.
SpawnBg ==
  /\ pc = "pop"
  /\ requests = <<>>
  /\ IF bg_batch # {} /\ bg_permits > 0
     THEN /\ tasks' = tasks \cup {NewTask("bg", bg_batch)}
          /\ bg_permits' = bg_permits - 1
          /\ bg_batch' = {}
     ELSE UNCHANGED <<tasks, bg_permits, bg_batch>>
  /\ pc' = "spawn_fg"
  /\ UNCHANGED <<reply, inbox, requests, batch, fg_permits, active_queries,
                 cfg_limit, max_query_limit, lost>>


\* Mutant: the foreground batch waits for the next iteration, like the
\* background one.
SpawnFgKeeps ==
  /\ pc = "spawn_fg"
  /\ IF batch # {} /\ fg_permits > 0
     THEN /\ tasks' = tasks \cup {NewTask("fg", batch)}
          /\ fg_permits' = fg_permits - 1
          /\ batch' = {}
     ELSE UNCHANGED <<tasks, fg_permits, batch>>
  /\ pc' = "reap"
  /\ UNCHANGED <<reply, inbox, requests, bg_batch, bg_permits, active_queries,
                 cfg_limit, max_query_limit, lost>>

\* The foreground batch is a local of the iteration: without a permit it goes
\* out of scope here, and its futures are dropped with their oneshot senders.
SpawnFg ==
  /\ pc = "spawn_fg"
  /\ IF batch # {} /\ fg_permits > 0
     THEN /\ tasks' = tasks \cup {NewTask("fg", batch)}
          /\ fg_permits' = fg_permits - 1
          /\ UNCHANGED <<reply, lost>>
     ELSE /\ reply' = [q \in Req |-> IF q \in batch THEN "dropped" ELSE reply[q]]
          /\ lost' = lost \cup batch
          /\ UNCHANGED <<tasks, fg_permits>>
  /\ batch' = {}
  /\ pc' = "reap"
  /\ UNCHANGED <<inbox, requests, bg_batch, bg_permits, active_queries,
                 cfg_limit, max_query_limit>>

Finished == {t \in tasks : t.st = "finished"}
Panicked == {t \in tasks : t.st = "panicked"}
MembersOf(T) == UNION {t.members : t \in T}

\* `reap_tasks`: every task that has ended leaves the join set; one that
\* panicked yields an error instead of its count.
Reap ==
  /\ pc = "reap"
  /\ active_queries' = active_queries - Cardinality(MembersOf(Finished))
  /\ tasks' = tasks \ (Finished \cup Panicked)
  /\ lost' = lost \cup MembersOf(Panicked)
  /\ pc' = "recv"
  /\ UNCHANGED <<reply, inbox, requests, batch, bg_batch, bg_permits,
                 fg_permits, cfg_limit, max_query_limit>>

-----------------------------------------------------------------------------
\* The batch tasks

Replace(t, u) == tasks' = (tasks \ {t}) \cup {u}


\* Mutant: the permit is given back by hand, and again when its guard is dropped.
DropPermitTwice(t) ==
  /\ bg_permits' = IF t.kind = "bg" THEN bg_permits + 2 ELSE bg_permits
  /\ fg_permits' = IF t.kind = "fg" THEN fg_permits + 2 ELSE fg_permits

\* Mutant: only foreground permits return to their semaphore.
DropForegroundPermit(t) ==
  /\ bg_permits' = bg_permits
  /\ fg_permits' = IF t.kind = "fg" THEN fg_permits + 1 ELSE fg_permits

DropPermit(t) ==
  /\ bg_permits' = IF t.kind = "bg" THEN bg_permits + 1 ELSE bg_permits
  /\ fg_permits' = IF t.kind = "fg" THEN fg_permits + 1 ELSE fg_permits

\* The future of one query completes and sends its reply.
Answer(t, q) ==
  /\ t.st = "running"
  /\ q \in t.todo \ Panicking
  /\ Replace(t, [t EXCEPT !.todo = @ \ {q}])
  /\ reply' = [reply EXCEPT ![q] = "answered"]
  /\ UNCHANGED <<inbox, pc, requests, batch, bg_batch, bg_permits, fg_permits,
                 active_queries, cfg_limit, max_query_limit, lost>>

\* A future panics: the task unwinds, dropping the other futures of its batch
\* and the permit.
Panic(t, q) ==
  /\ t.st = "running"
  /\ q \in t.todo \cap Panicking
  /\ Replace(t, [t EXCEPT !.todo = {}, !.st = "panicked"])
  /\ reply' = [r \in Req |-> IF r \in t.todo THEN "dropped" ELSE reply[r]]
  /\ DropPermit(t)
  /\ UNCHANGED <<inbox, pc, requests, batch, bg_batch, active_queries,
                 cfg_limit, max_query_limit, lost>>

\* All futures are done: `drop(permit)` ...
Release(t) ==
  /\ t.st = "running"
  /\ t.todo = {}
  /\ Replace(t, [t EXCEPT !.st = "released"])
  /\ DropPermit(t)
  /\ UNCHANGED <<reply, inbox, pc, requests, batch, bg_batch, active_queries,
                 cfg_limit, max_query_limit, lost>>

\* ... and then the task returns its count to the join set.
Finish(t) ==
  /\ t.st = "released"
  /\ Replace(t, [t EXCEPT !.st = "finished"])
  /\ UNCHANGED <<reply, inbox, pc, requests, batch, bg_batch, bg_permits,
                 fg_permits, active_queries, cfg_limit, max_query_limit, lost>>

-----------------------------------------------------------------------------
Dispatch == Recv \/ ReadConfig \/ Refuse \/ Admit \/ SpawnBg \/ SpawnFg \/ Reap

RunTask ==
  \E t \in tasks :
    \/ \E q \in t.todo : Answer(t, q) \/ Panic(t, q)
    \/ Release(t)
    \/ Finish(t)

Next ==
  \/ \E q \in Req : Send(q)
  \/ \E l \in Limits : Reload(l)
  \/ Dispatch
  \/ RunTask

Spec == Init /\ [][Next]_vars

\* The runtime polls the dispatcher and the batch tasks, and the processing of a
\* query ends (every upstream wait is under a timeout).  Nothing makes clients
\* send or an operator reload.
Fairness == WF_vars(Dispatch) /\ WF_vars(RunTask)

FairSpec == Spec /\ Fairness

-----------------------------------------------------------------------------
\* Properties

\* Queries that were admitted and have no reply yet.
InFlight == batch \cup bg_batch \cup UNION {t.todo : t \in tasks}

Running(k) == {t \in tasks : t.kind = k /\ t.st = "running"}

\* `active_queries` is exactly the number of queries popped or waiting to be
\* popped, batched, held by a task that was not reaped, or lost.  In particular
\* no fetch_sub of the loop ever takes the unsigned counter below zero, and it
\* never counts fewer queries than are being processed.
ActiveQueriesAccounting ==
  active_queries = Len(requests) + Cardinality(batch) + Cardinality(bg_batch)
                   + Cardinality(MembersOf(tasks)) + Cardinality(lost)

\* A client whose `DnsHandle::send` still waits has its oneshot sender in exactly
\* the places the dispatcher will come back to: none is forgotten.
NoOrphanedWaiter ==
  \A q \in Req : reply[q] = "waiting" <=>
                 q \in Elems(inbox) \cup Elems(requests) \cup InFlight

\* Permits are neither leaked nor duplicated, whether a batch task returns or
\* unwinds: at most 4 background and 64 foreground batches run at a time.
PermitsBalanced ==
  /\ bg_permits + Cardinality(Running("bg")) = BG_PERMITS
  /\ fg_permits + Cardinality(Running("fg")) = FG_PERMITS

\* A foreground query is only let into the chain when, itself included, no more
\* than `max-query-limit` queries are in flight, whatever batches, reloads
\* and finished tasks came before (0 means no limit).
AdmissionRespectsLimit ==
  [][\A q \in Req \ Background :
       q \in batch' \ batch /\ max_query_limit > 0
         => Cardinality(InFlight \cup {q}) <= max_query_limit]_vars

\* What has become of a query, in the terms of those who sent it.
Service == [q \in Req |-> IF reply[q] # "waiting" THEN reply[q]
                         ELSE IF q \in InFlight THEN "inflight" ELSE "queued"]

\* The queries the counter stands for.
Counted == Elems(requests) \cup batch \cup bg_batch \cup MembersOf(tasks) \cup lost

Abstract == INSTANCE QueryService
              WITH service <- Service, limit <- max_query_limit, counted <- Counted

\* The loop of app::serve with its batches, semaphores and tasks implements the
\* service DnsHandle::send offers: whatever is batched, reaped, dropped or lost, a
\* query moves from the queue into processing and from there to one outcome, is let in
\* only within the limit, and is refused only while the queries received and not seen
\* to have ended, the lost ones included, are more than the limit.
ImplementsService == Abstract!Spec

\* Every foreground query is eventually answered, refused or dropped.
ForegroundReplied ==
  \A q \in Req \ Background : reply[q] = "waiting" ~> reply[q] # "waiting"

-----------------------------------------------------------------------------
\* What the repository says of the dispatcher and the code does not do

\* CHANGELOG: every request is processed and the count is strictly balanced,
\* that is, `active_queries` counts only what the dispatcher still holds.
StrictlyBalanced ==
  active_queries = Len(requests) + Cardinality(batch) + Cardinality(bg_batch)
                   + Cardinality(MembersOf(tasks))

\* Comment in the loop: background requests are always processed.
BackgroundProcessed ==
  \A q \in Background : reply[q] = "waiting" ~> reply[q] # "waiting"
=============================================================================
