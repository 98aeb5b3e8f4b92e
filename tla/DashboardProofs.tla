-------------------------- MODULE DashboardProofs ---------------------------
(***************************************************************************)
(* Proofs about the dashboard for any scenarios, filters, number of pages   *)
(* and of versions: what a confirmed change leaves on the page, how often   *)
(* the server makes it, and that rows never go back.                        *)
(***************************************************************************)
EXTENDS Dashboard, FiniteSetTheorems, TLAPS

-----------------------------------------------------------------------------
\* The inductive invariant, by what it is about.

\* The mounted components.
PageOK == scenario \in Scenarios /\ ui \in Components

\* The network, the window, and the requests that may still fail.
NetOK == {online, visible} \subseteq BOOLEAN /\ errors \in 0..scenario.errors

\* A resource changes by the server's own doing a bounded number of times, and once per
\* mutation that was applied; what was confirmed has happened.
ServerOK ==
  /\ srv \in [Followed -> [ver : 1..MAX_VERSION, size : 0..MAX_PAGE]]
  /\ confirmed \in [Followed -> 0..MAX_VERSION]
  /\ applied \in Nat
  /\ \A r \in Followed : /\ srv[r].ver <= scenario.changes + applied + 1
                         /\ confirmed[r] <= srv[r].ver

\* The mutations the server may still carry out.
Unsettled == {m.id : m \in {x \in muts : x.st \in {"held", "sent"}}}

\* A click is one mutation, known by its number: what was applied and what may still be
\* are not more than the clicks.
MutationsOK ==
  /\ muts \subseteq Mutation
  /\ clicks \in 0..scenario.clicks
  /\ \A w \in wake : w.event \in {"online", "visible"} /\ w.after \subseteq 1..clicks
  /\ \A m \in muts : /\ m.id \in 1..clicks
                     /\ Target(m.kind) \in Followed
                     /\ m.ver <= srv[Target(m.kind)].ver
  /\ \A m, n \in muts : m.id = n.id => m = n
  /\ applied + Cardinality(Unsettled) <= clicks

\* A query of a resource at version v has nothing newer, nor on its way anything newer
\* or anything older than what it has.
Known(q, v) ==
  /\ q.status = "pending" => q.data = Nothing
  /\ q.data.ver <= v
  /\ q.phase = "answered" => q.data.ver <= q.reply.ver /\ q.reply.ver <= v

\* What a query passes for current, or has on its way, is no older than version c.
Current(q, c) ==
  /\ q.data # Nothing /\ ~q.invalid => c <= q.data.ver
  /\ q.phase = "answered" => c <= q.reply.ver

QueriesOK ==
  /\ query \in [scenario.keys -> QC!Query(Payload)]
  /\ \A s \in stray : s.key \in scenario.keys /\ s.reply \in Payload
  /\ overtaken \subseteq scenario.keys
  /\ \A k \in scenario.keys : Known(query[k], srv[Resource(k)].ver)
  /\ \A k \in scenario.keys \ overtaken : Current(query[k], confirmed[Resource(k)])

IInv == PageOK /\ NetOK /\ ServerOK /\ MutationsOK /\ QueriesOK

-----------------------------------------------------------------------------
\* The steps of a query

Query == QC!Query(Payload)

\* A query without a finished fetch has no data.
Sound(q) == q \in Query /\ (q.status = "pending" => q.data = Nothing)

\* p is q after a step that brings no data: the data stays, what was invalid is not
\* taken for valid, and no other reply is on its way.
Keeps(q, p) ==
  /\ Sound(p)
  /\ p.data = q.data
  /\ p.data # Nothing /\ q.invalid => p.invalid
  /\ p.phase = "answered" => q.phase = "answered" /\ p.reply = q.reply

\* The constants.
LEMMA Constants ==
  /\ MAX_VERSION \in Nat /\ MAX_VERSION >= 2 /\ MAX_PAGE \in Nat /\ MAX_PAGE >= 2
  /\ NoFilter \in Filters
  /\ \A s \in Scenarios : /\ s \in Scenario /\ s.errors \in Nat /\ s.changes \in Nat
                          /\ s.clicks \in Nat /\ s.changes + s.clicks + 1 <= MAX_VERSION
<1>1. \A s \in Scenarios : s \in Scenario
  BY DashboardAssumption
<1>2. \A s \in Scenarios : s.errors \in Nat /\ s.changes \in Nat /\ s.clicks \in Nat
  BY <1>1 DEF Scenario
<1>3. MAX_VERSION \in Nat /\ MAX_VERSION >= 2 /\ MAX_PAGE \in Nat /\ MAX_PAGE >= 2
  BY DashboardAssumption
<1>4. \A s \in Scenarios : s.changes + s.clicks + 1 <= MAX_VERSION
  BY <1>2, <1>3, DashboardAssumption
<1> QED BY <1>1, <1>2, <1>3, <1>4, DashboardAssumption

\* Nothing is a payload.
LEMMA NothingIs == Nothing \in Payload /\ Nothing.ver = 0
BY Constants DEF Nothing, Payload

\* A query nobody has fetched yet.
LEMMA New ==
  /\ Sound(QC!NewQuery) /\ QC!NewQuery.data = Nothing /\ QC!NewQuery.phase = "none"
  /\ QC!NewQuery.reply = Nothing
BY NothingIs DEF Sound, Query, QC!Query, QC!NewQuery, QC!Phases

\* A step that does nothing.
LEMMA KeepsItself == \A q : Sound(q) => Keeps(q, q)
BY DEF Keeps

\* Two steps, one after the other.
LEMMA KeepsOn ==
  ASSUME NEW q, NEW p, NEW r, Keeps(q, p), Keeps(p, r)
  PROVE  Keeps(q, r)
BY DEF Keeps

\* A fetch begins.
LEMMA BeginKeeps ==
  ASSUME NEW q, Sound(q), NEW o \in BOOLEAN
  PROVE  Keeps(q, QC!Begin(q, o)) /\ QC!Begin(q, o).phase # "answered"
<1>1. PICK p : p = QC!Begin(q, o)
  OBVIOUS
<1>2. q \in Query
  BY DEF Sound
<1>3. p = [data |-> q.data, status |-> IF q.data = Nothing THEN "pending" ELSE q.status,
           invalid |-> q.invalid, phase |-> IF o THEN "sent" ELSE "held",
           reply |-> Nothing, failures |-> 0, noRetry |-> FALSE,
           was |-> IF q.status = "error" THEN "error" ELSE "pending"]
  BY <1>1, Zenon DEF QC!Begin, QC!NewQuery
<1>4. p \in Query
  BY <1>2, <1>3, NothingIs DEF Query, QC!Query, QC!Phases
<1>5. /\ p.data = q.data /\ p.invalid = q.invalid /\ p.phase # "answered"
      /\ p.status = "pending" => p.data = Nothing
  BY <1>2, <1>3 DEF Sound
<1> QED BY <1>1, <1>4, <1>5 DEF Keeps, Sound

\* The last attempt of a fetch has failed.
LEMMA RejectedKeeps ==
  ASSUME NEW q, Sound(q)
  PROVE  Keeps(q, QC!Rejected(q))
<1>1. PICK p : p = QC!Rejected(q)
  OBVIOUS
<1>2. q \in Query
  BY DEF Sound
<1>3. p = [data |-> q.data, status |-> "error", invalid |-> (q.data # Nothing), phase |-> "none",
           reply |-> Nothing, failures |-> 0, noRetry |-> FALSE, was |-> "pending"]
  BY <1>1, Zenon DEF QC!Rejected, QC!NewQuery
<1>4. p \in Query
  BY <1>2, <1>3, NothingIs DEF Query, QC!Query, QC!Phases
<1>5. p.data = q.data /\ (p.data # Nothing => p.invalid) /\ p.phase # "answered" /\ p.status = "error"
  BY <1>3, Zenon
<1> QED BY <1>1, <1>4, <1>5 DEF Keeps, Sound

\* A step that changes the fields of the retryer only, and takes no reply from nowhere.
LEMMA RetryerKeeps ==
  ASSUME NEW q, Sound(q), NEW p, p \in Query, p.data = q.data, p.status = q.status,
         p.invalid = q.invalid, p.phase = "answered" => q.phase = "answered" /\ p.reply = q.reply
  PROVE  Keeps(q, p)
BY DEF Keeps, Sound

\* A fetch is begun, joined, or cancelled for a new one.
LEMMA FetchKeeps ==
  ASSUME NEW q, Sound(q), NEW o \in BOOLEAN, NEW c \in BOOLEAN
  PROVE  /\ Keeps(q, QC!fetch(q, o, c))
         /\ c /\ q.data # Nothing => QC!fetch(q, o, c).phase # "answered"
<1>1. CASE q.phase = "none" \/ QC!Restarts(q, c)
  <2>1. QC!fetch(q, o, c) = QC!Begin(q, o)
    BY <1>1 DEF QC!fetch
  <2> QED BY <2>1, BeginKeeps
<1>2. CASE ~(q.phase = "none" \/ QC!Restarts(q, c))
  <2>1. PICK p : p = [q EXCEPT !.noRetry = FALSE]
    BY Zenon
  <2>2. QC!fetch(q, o, c) = p
    BY <1>2, <2>1 DEF QC!fetch
  <2>3. q \in Query
    BY DEF Sound
  <2>4. /\ p \in Query /\ p.data = q.data /\ p.status = q.status /\ p.invalid = q.invalid
        /\ p.phase = q.phase /\ p.reply = q.reply
    BY <2>1, <2>3, Zenon DEF Query, QC!Query
  <2>5. Keeps(q, p)
    BY <2>4, RetryerKeeps
  <2>6. ~(c /\ q.data # Nothing)
    BY <1>2 DEF QC!Restarts
  <2> QED BY <2>2, <2>5, <2>6
<1> QED BY <1>1, <1>2

\* An attempt has failed.
LEMMA FailedKeeps ==
  ASSUME NEW q, Sound(q)
  PROVE  Keeps(q, QC!Failed(q))
<1>1. CASE q.noRetry \/ q.failures >= 1
  BY <1>1, RejectedKeeps DEF QC!Failed
<1>2. CASE ~(q.noRetry \/ q.failures >= 1)
  <2>1. q \in Query
    BY DEF Sound
  <2>2. q.failures + 1 \in 0..1
    BY <1>2, <2>1 DEF Query, QC!Query
  <2>3. PICK p1 : p1 = [q EXCEPT !.phase = "sleep"]
    BY Zenon
  <2>4. p1 \in Query /\ p1.data = q.data /\ p1.status = q.status /\ p1.invalid = q.invalid
        /\ p1.phase # "answered"
    BY <2>1, <2>3 DEF Query, QC!Query, QC!Phases
  <2>5. PICK p2 : p2 = [p1 EXCEPT !.failures = q.failures + 1]
    BY Zenon
  <2>6. p2 \in Query /\ p2.data = q.data /\ p2.status = q.status /\ p2.invalid = q.invalid
        /\ p2.phase # "answered"
    BY <2>2, <2>4, <2>5 DEF Query, QC!Query
  <2>7. PICK p3 : p3 = [p2 EXCEPT !.reply = Nothing]
    BY Zenon
  <2>8. p3 \in Query /\ p3.data = q.data /\ p3.status = q.status /\ p3.invalid = q.invalid
        /\ p3.phase # "answered"
    BY <2>6, <2>7, NothingIs DEF Query, QC!Query
  <2>9. QC!Failed(q) = p3
    BY <1>2, <2>3, <2>5, <2>7, Zenon DEF QC!Failed
  <2> QED BY <2>8, <2>9, RetryerKeeps
<1> QED BY <1>1, <1>2

\* A fetch that slept, or was held, goes on or is held.
LEMMA PhaseKeeps ==
  ASSUME NEW q, Sound(q), NEW ph \in {"sent", "held"}
  PROVE  Keeps(q, [q EXCEPT !.phase = ph])
<1>1. PICK p : p = [q EXCEPT !.phase = ph]
  BY Zenon
<1>2. q \in Query
  BY DEF Sound
<1>3. p \in Query /\ p.data = q.data /\ p.status = q.status /\ p.invalid = q.invalid
      /\ p.phase # "answered"
  BY <1>1, <1>2 DEF Query, QC!Query, QC!Phases
<1> QED BY <1>1, <1>3, RetryerKeeps, Zenon

\* A held fetch goes on, or gives up because nobody looks any more.
LEMMA ResumeKeeps ==
  ASSUME NEW q, Sound(q)
  PROVE  Keeps(q, QC!Resume(q))
BY RejectedKeeps, PhaseKeeps, Zenon DEF QC!Resume

\* The retry delay is over.
LEMMA RetryKeeps ==
  ASSUME NEW q, Sound(q), NEW o, NEW v
  PROVE  Keeps(q, QC!RetryOrPause(q, o, v))
BY ResumeKeeps, PhaseKeeps, Zenon DEF QC!RetryOrPause

\* The network or the window is back.
LEMMA ContinueKeeps ==
  ASSUME NEW q, Sound(q), NEW o, NEW v
  PROVE  Keeps(q, QC!continue(q, o, v))
BY ResumeKeeps, KeepsItself DEF QC!continue

\* An invalidated query keeps its fetch; what data it has no longer counts as valid.
LEMMA InvalidateKeeps ==
  ASSUME NEW q, Sound(q)
  PROVE  /\ Keeps(q, QC!invalidate(q))
         /\ QC!invalidate(q).data # Nothing => QC!invalidate(q).invalid
<1>1. PICK p : p = QC!invalidate(q)
  OBVIOUS
<1>2. q \in Query
  BY DEF Sound
<1>3. /\ p \in Query /\ p.data = q.data /\ p.status = q.status /\ p.invalid = (q.data # Nothing)
      /\ p.phase = q.phase /\ p.reply = q.reply
  BY <1>1, <1>2, Zenon DEF QC!invalidate, Query, QC!Query
<1> QED BY <1>1, <1>3, Zenon DEF Keeps, Sound

\* The last observer leaves.
LEMMA RemoveKeeps ==
  ASSUME NEW q, Sound(q)
  PROVE  Keeps(q, QC!removeObserver(q))
<1>1. q \in Query
  BY DEF Sound
<1>2. CASE q.phase = "none"
  BY <1>2, KeepsItself DEF QC!removeObserver
<1>3. CASE q.phase = "held" /\ q.status = "pending"
  <2>1. q.data = Nothing /\ q.was \in {"pending", "error"}
    BY <1>1, <1>3 DEF Sound, Query, QC!Query
  <2>2. PICK p : p = [data |-> Nothing, status |-> q.was, invalid |-> FALSE, phase |-> "none",
                      reply |-> Nothing, failures |-> 0, noRetry |-> FALSE, was |-> "pending"]
    BY Zenon
  <2>3. QC!removeObserver(q) = p
    BY <1>3, <2>2, Zenon DEF QC!removeObserver, QC!NewQuery
  <2>4. p \in Query
    BY <2>1, <2>2, NothingIs DEF Query, QC!Query, QC!Phases
  <2>5. p.data = Nothing /\ p.phase # "answered"
    BY <2>2
  <2> QED BY <2>1, <2>3, <2>4, <2>5 DEF Keeps, Sound
<1>4. CASE q.phase # "none" /\ ~(q.phase = "held" /\ q.status = "pending")
  <2>1. PICK p : p = [q EXCEPT !.noRetry = TRUE]
    BY Zenon
  <2>2. QC!removeObserver(q) = p
    BY <1>4, <2>1 DEF QC!removeObserver
  <2>3. /\ p \in Query /\ p.data = q.data /\ p.status = q.status /\ p.invalid = q.invalid
        /\ p.phase = q.phase /\ p.reply = q.reply
    BY <1>1, <2>1, Zenon DEF Query, QC!Query
  <2> QED BY <2>2, <2>3, RetryerKeeps
<1> QED BY <1>2, <1>3, <1>4

\* A reply is taken.
LEMMA SetDataIs ==
  ASSUME NEW q, NEW d \in Payload
  PROVE  /\ QC!setData(q, d) \in Query /\ QC!setData(q, d).data = d
         /\ QC!setData(q, d).status = "success" /\ QC!setData(q, d).phase = "none"
<1>1. PICK p : p = QC!setData(q, d)
  OBVIOUS
<1>2. p = [data |-> d, status |-> "success", invalid |-> FALSE, phase |-> "none", reply |-> Nothing,
           failures |-> 0, noRetry |-> FALSE, was |-> "pending"]
  BY <1>1, Zenon DEF QC!setData, QC!NewQuery
<1>3. p \in Query
  BY <1>2, NothingIs DEF Query, QC!Query, QC!Phases
<1> QED BY <1>1, <1>2, <1>3

-----------------------------------------------------------------------------
\* All queries at once

\* What is observed is followed.
LEMMA ObservedIn == \A u : Observed(u) \subseteq scenario.keys
BY DEF Observed

\* The queries of the invariant are sound, and their resources are followed.
LEMMA QueriesSound ==
  ASSUME QueriesOK, NEW k \in scenario.keys
  PROVE  Sound(query[k]) /\ Resource(k) \in Followed
BY DEF QueriesOK, Known, Sound, Query, Followed

\* What rendering does to the queries: it brings no data.
LEMMA RenderKeeps ==
  ASSUME NEW qs, \A k \in scenario.keys : Sound(qs[k]), NEW u, NEW due, online \in BOOLEAN
  PROVE  /\ Render(qs, u, due) = [k \in scenario.keys |-> Render(qs, u, due)[k]]
         /\ \A k \in scenario.keys : Keeps(qs[k], Render(qs, u, due)[k])
<1> DEFINE remount == u.tab # ui.tab \/ u.sub # ui.sub
           stays == IF remount THEN {} ELSE Observed(ui) \cap Observed(u)
           Left(k) == IF k \in Observed(ui) \ stays THEN QC!removeObserver(qs[k]) ELSE qs[k]
<1>1. Render(qs, u, due) =
        [k \in scenario.keys |->
           IF k \in Observed(u) \ stays /\ (QC!isStale(Left(k)) \/ k \in due)
           THEN QC!fetch(Left(k), online, FALSE)
           ELSE Left(k)]
  BY Zenon DEF Render
<1>2. ASSUME NEW k \in scenario.keys
      PROVE  Keeps(qs[k], Left(k)) /\ Sound(Left(k))
  <2>1. Keeps(qs[k], Left(k))
    BY RemoveKeeps, KeepsItself
  <2> QED BY <2>1 DEF Keeps
<1> HIDE DEF Left, stays, remount
<1>3. ASSUME NEW k \in scenario.keys
      PROVE  Keeps(qs[k], Render(qs, u, due)[k])
  <2>1. PICK l : l = Left(k) /\ Keeps(qs[k], l) /\ Sound(l)
    BY <1>2
  <2>2. Render(qs, u, due)[k] = QC!fetch(l, online, FALSE) \/ Render(qs, u, due)[k] = l
    BY <1>1, <2>1, Zenon
  <2>3. PICK f : f = QC!fetch(l, online, FALSE) /\ Keeps(l, f)
    BY <2>1, FetchKeeps, Zenon
  <2>4. Keeps(qs[k], f)
    BY <2>1, <2>3, KeepsOn, Zenon
  <2> QED BY <2>1, <2>2, <2>3, <2>4, Zenon
<1> QED BY <1>1, <1>3, Zenon

\* Queries that keep what they have.
AllKept(qs) ==
  /\ query' = [k \in scenario.keys |-> query'[k]]
  /\ \A k \in scenario.keys : Keeps(qs[k], query'[k])

\* A page that becomes another one brings no data.
LEMMA BecomeKeeps ==
  ASSUME NEW qs, \A k \in scenario.keys : Sound(qs[k]), NEW u, Become(qs, u), online \in BOOLEAN
  PROVE  AllKept(qs)
<1>1. PICK due \in SUBSET Observed(u) : query' = Render(qs, u, due)
  BY DEF Become
<1> QED BY <1>1, RenderKeeps DEF AllKept

\* One query takes a step that brings no data.
LEMMA OneKept ==
  ASSUME QueriesOK, NEW k \in scenario.keys, NEW p, Keeps(query[k], p),
         query' = [query EXCEPT ![k] = p]
  PROVE  AllKept(query)
<1>1. \A j \in scenario.keys : query'[j] = IF j = k THEN p ELSE query[j]
  BY DEF QueriesOK
<1>2. \A j \in scenario.keys : Keeps(query[j], query[j])
  BY QueriesSound, KeepsItself
<1>3. query' = [j \in scenario.keys |-> query'[j]]
  BY Zenon DEF QueriesOK
<1> QED BY <1>1, <1>2, <1>3 DEF AllKept

\* Queries that bring no data keep their part of the invariant, as long as nothing is
\* confirmed and no reply on its way is forgotten to be old.
LEMMA KeptOK ==
  ASSUME PageOK, ServerOK, QueriesOK, AllKept(query), UNCHANGED <<scenario, confirmed>>,
         \A r \in Followed : srv'[r].ver \in Nat /\ srv[r].ver <= srv'[r].ver,
         overtaken \subseteq overtaken', overtaken' \subseteq scenario.keys,
         \A s \in stray' : s.key \in scenario.keys /\ s.reply \in Payload
  PROVE  QueriesOK'
<1>1. query' \in [scenario.keys -> Query]
  BY DEF AllKept, Keeps, Sound
<1>2. ASSUME NEW k \in scenario.keys
      PROVE  /\ Known(query'[k], srv'[Resource(k)].ver)
             /\ k \notin overtaken' => Current(query'[k], confirmed'[Resource(k)])
  <2>1. PICK q \in Query : q = query[k] /\ Known(q, srv[Resource(k)].ver)
    BY DEF QueriesOK, Query
  <2>2. PICK p \in Query : p = query'[k] /\ Keeps(q, p)
    BY <1>1, <2>1 DEF AllKept
  <2>3. q.data.ver \in Nat /\ q.reply.ver \in Nat
    BY <2>1 DEF Query, QC!Query, Payload
  <2>4. Resource(k) \in Followed
    BY QueriesSound
  <2>5. PICK v \in Nat, w \in Nat : v = srv[Resource(k)].ver /\ w = srv'[Resource(k)].ver /\ v <= w
    BY <2>4 DEF ServerOK
  <2>6. Known(p, w)
    BY <2>1, <2>2, <2>3, <2>5 DEF Known, Keeps, Sound
  <2>7. ASSUME k \notin overtaken'
        PROVE  Current(p, confirmed[Resource(k)])
    <3>1. Current(q, confirmed[Resource(k)])
      BY <2>1, <2>7 DEF QueriesOK
    <3> QED BY <2>1, <2>2, <3>1 DEF Current, Keeps, Query, QC!Query
  <2> QED BY <2>2, <2>5, <2>6, <2>7
<1> QED BY <1>1, <1>2 DEF QueriesOK, Query

-----------------------------------------------------------------------------
\* The mutations

\* They are counted among finitely many clicks.
LEMMA Countable ==
  ASSUME PageOK, MutationsOK
  PROVE  /\ clicks \in Nat /\ scenario.clicks \in Nat /\ clicks <= scenario.clicks
         /\ Unsettled \subseteq 1..clicks /\ IsFiniteSet(Unsettled)
         /\ Cardinality(Unsettled) \in Nat
<1>1. clicks \in Nat /\ scenario.clicks \in Nat /\ clicks <= scenario.clicks
  BY Constants DEF PageOK, MutationsOK
<1>2. Unsettled \subseteq 1..clicks
  BY DEF MutationsOK, Unsettled
<1>3. IsFiniteSet(1..clicks)
  BY <1>1, FS_Interval
<1>4. IsFiniteSet(Unsettled)
  BY <1>2, <1>3, FS_Subset, Zenon
<1> QED BY <1>1, <1>2, <1>4, FS_CardinalityType

\* No more is applied than was clicked.
LEMMA AppliedBound ==
  ASSUME PageOK, ServerOK, MutationsOK
  PROVE  applied \in Nat /\ applied <= clicks /\ applied <= scenario.clicks
BY Countable DEF ServerOK, MutationsOK

\* Nothing happens to the mutations.
LEMMA MutationsRest ==
  ASSUME MutationsOK, UNCHANGED <<scenario, muts, clicks, wake, applied, srv>>
  PROVE  MutationsOK'
BY DEF MutationsOK, Unsettled, Followed

\* The mutations stay as they are but for who listens, and for held ones that are sent.
LEMMA MutationsMove ==
  ASSUME MutationsOK, NEW f \in [muts -> Mutation], muts' = {f[m] : m \in muts},
         \A m \in muts : /\ f[m].id = m.id /\ f[m].kind = m.kind /\ f[m].ver = m.ver
                         /\ f[m].st \in {"held", "sent"} <=> m.st \in {"held", "sent"},
         UNCHANGED <<scenario, clicks, applied, srv>>,
         \A w \in wake' : w.event \in {"online", "visible"} /\ w.after \subseteq 1..clicks
  PROVE  MutationsOK'
<1>1. Followed' = Followed
  BY DEF Followed
<1>2. muts' \subseteq Mutation
  OBVIOUS
<1>3. \A n \in muts' : \E m \in muts : n = f[m] /\ n.id = m.id
  OBVIOUS
<1>4. ASSUME NEW n \in muts'
      PROVE  n.id \in 1..clicks' /\ Target(n.kind) \in Followed' /\ n.ver <= srv'[Target(n.kind)].ver
  <2>1. PICK m \in muts : n = f[m] /\ n.id = m.id /\ n.kind = m.kind /\ n.ver = m.ver
    OBVIOUS
  <2> QED BY <1>1, <2>1 DEF MutationsOK
<1>5. ASSUME NEW n \in muts', NEW o \in muts', n.id = o.id
      PROVE  n = o
  <2>1. PICK m \in muts : n = f[m] /\ n.id = m.id
    BY <1>3
  <2>2. PICK l \in muts : o = f[l] /\ o.id = l.id
    BY <1>3
  <2>3. m = l
    BY <1>5, <2>1, <2>2 DEF MutationsOK
  <2> QED BY <2>1, <2>2, <2>3
<1>6. Unsettled' = Unsettled
  <2>1. ASSUME NEW m \in muts, m.st \in {"held", "sent"}
        PROVE  m.id \in Unsettled'
    BY <2>1 DEF Unsettled
  <2>2. ASSUME NEW n \in muts', n.st \in {"held", "sent"}
        PROVE  n.id \in Unsettled
    BY <2>2 DEF Unsettled
  <2> QED BY <2>1, <2>2 DEF Unsettled
<1>7. applied' + Cardinality(Unsettled') <= clicks'
  BY <1>6 DEF MutationsOK
<1> QED BY <1>2, <1>4, <1>5, <1>7 DEF MutationsOK

\* A mutation comes to its end, or is no more.  One that the server carries out was
\* waiting for that.
LEMMA MutationSettles ==
  ASSUME PageOK, ServerOK, MutationsOK, NEW m \in muts, NEW N, muts' = (muts \ {m}) \cup N,
         \A n \in N : /\ n \in Mutation /\ n.id = m.id /\ n.kind = m.kind
                      /\ n.st \in {"done", "failed"} /\ n.ver <= srv'[Target(n.kind)].ver,
         \A n, o \in N : n = o,
         UNCHANGED <<scenario, clicks, wake>>,
         \A r \in Followed : srv'[r].ver \in Nat /\ srv[r].ver <= srv'[r].ver,
         applied' = applied \/ (applied' = applied + 1 /\ m.st \in {"held", "sent"})
  PROVE  MutationsOK'
<1>1. Followed' = Followed
  BY DEF Followed
<1>2. muts' \subseteq Mutation /\ clicks' \in 0..scenario'.clicks
  BY DEF MutationsOK
<1>3. ASSUME NEW n \in muts'
      PROVE  n.id \in 1..clicks' /\ Target(n.kind) \in Followed' /\ n.ver <= srv'[Target(n.kind)].ver
  <2>1. CASE n \in muts
    <3>1. n.id \in 1..clicks /\ Target(n.kind) \in Followed /\ n.ver <= srv[Target(n.kind)].ver
          /\ n.ver \in Nat
      BY <2>1 DEF MutationsOK, Mutation
    <3>2. srv[Target(n.kind)].ver \in Nat /\ srv'[Target(n.kind)].ver \in Nat
          /\ srv[Target(n.kind)].ver <= srv'[Target(n.kind)].ver
      BY <3>1 DEF ServerOK
    <3> QED BY <1>1, <3>1, <3>2
  <2>2. CASE n \in N
    BY <1>1, <2>2 DEF MutationsOK
  <2> QED BY <2>1, <2>2
<1>4. \A n \in muts \ {m} : n.id # m.id
  BY DEF MutationsOK
<1>5. \A n, o \in muts' : n.id = o.id => n = o
  BY <1>4 DEF MutationsOK
<1>6. Unsettled' \subseteq Unsettled \ {m.id}
  BY <1>4 DEF Unsettled
<1>7. PICK S : S = Unsettled /\ IsFiniteSet(S) /\ Cardinality(S) \in Nat
  BY Countable
<1>8. PICK T : T = Unsettled' /\ T \subseteq S \ {m.id}
  BY <1>6, <1>7
<1>9. IsFiniteSet(S \ {m.id}) /\ Cardinality(S \ {m.id}) =
        (IF m.id \in S THEN Cardinality(S) - 1 ELSE Cardinality(S))
  BY <1>7, FS_RemoveElement, Zenon
<1>10. Cardinality(T) \in Nat /\ Cardinality(T) <= Cardinality(S \ {m.id})
  BY <1>8, <1>9, FS_Subset, FS_CardinalityType
<1>11. m.st \in {"held", "sent"} => m.id \in S
  BY <1>7 DEF Unsettled
<1>12. applied \in Nat /\ clicks \in Nat /\ applied + Cardinality(S) <= clicks
  BY <1>7, Countable DEF ServerOK, MutationsOK
<1>13. applied' + Cardinality(T) <= clicks
  BY <1>7, <1>9, <1>10, <1>11, <1>12
<1> QED BY <1>2, <1>3, <1>5, <1>8, <1>13 DEF MutationsOK

-----------------------------------------------------------------------------
\* The user

\* A tab is mounted with a state of its type.
LEMMA MountedIs == \A t \in Tabs \cup {"none"} : Mounted(t) \in Components
BY Constants DEF Mounted, Components

\* The page becomes another one; nothing but the queries and the mutations notices.
LEMMA TurnStep ==
  ASSUME IInv, NEW u \in Components, Become(query, u), MutationsOK',
         UNCHANGED <<scenario, stray, network, srv, history>>
  PROVE  IInv'
<1>1. UNCHANGED <<online, visible, errors, applied, confirmed, overtaken>>
  BY DEF network, history
<1>2. \A k \in scenario.keys : Sound(query[k])
  BY QueriesSound DEF IInv
<1>3. AllKept(query)
  BY <1>2, BecomeKeeps DEF IInv, NetOK
<1>4. \A r \in Followed : srv'[r].ver \in Nat /\ srv[r].ver <= srv'[r].ver
  BY DEF IInv, ServerOK
<1>5. QueriesOK'
  BY <1>1, <1>3, <1>4, KeptOK DEF IInv, QueriesOK
<1>6. PageOK' /\ NetOK'
  BY <1>1 DEF Become, IInv, PageOK, NetOK
<1>7. ServerOK'
  BY <1>1 DEF IInv, ServerOK, Followed
<1> QED BY <1>5, <1>6, <1>7 DEF IInv

\* A control that leaves the mutations alone.
LEMMA ControlStep ==
  ASSUME IInv, NEW u \in Components, Turn(u), UNCHANGED muts
  PROVE  IInv'
<1>1. MutationsOK'
  BY MutationsRest DEF IInv, Turn, history
<1> QED BY <1>1, TurnStep DEF Turn

\* A component is unmounted: nobody listens to what it started.
LEMMA Unmount ==
  ASSUME IInv, muts' = {[m EXCEPT !.listened = FALSE] : m \in muts},
         UNCHANGED <<scenario, wake, srv, clicks, applied>>
  PROVE  MutationsOK'
<1>1. PICK f : f = [m \in muts |-> [m EXCEPT !.listened = FALSE]]
  BY Zenon
<1>2. ASSUME NEW m \in muts
      PROVE  /\ f[m] \in Mutation /\ f[m].id = m.id /\ f[m].kind = m.kind /\ f[m].ver = m.ver
             /\ f[m].st = m.st
  <2>1. m \in Mutation
    BY DEF IInv, MutationsOK
  <2> QED BY <1>1, <2>1, Zenon DEF Mutation
<1>3. f \in [muts -> Mutation] /\ muts' = {f[m] : m \in muts}
  BY <1>1, <1>2
<1>4. \A w \in wake' : w.event \in {"online", "visible"} /\ w.after \subseteq 1..clicks
  BY DEF IInv, MutationsOK
<1> QED BY <1>2, <1>3, <1>4, MutationsMove, Zenon DEF IInv

\* Another tab, or another page of the rules.
LEMMA SelectStep ==
  ASSUME IInv,
         (\E t \in Tabs : SelectTab(t)) \/ (\E s \in {"address", "forward"} : SelectSubTab(s))
  PROVE  IInv'
<1>1. ASSUME NEW t \in Tabs, SelectTab(t)
      PROVE  IInv'
  <2>1. Mounted(t) \in Components
    BY MountedIs
  <2> QED BY <1>1, <2>1, Unmount, TurnStep DEF SelectTab, Turn, history
<1>2. ASSUME NEW s \in {"address", "forward"}, SelectSubTab(s)
      PROVE  IInv'
  <2>1. PICK v \in Components : v = Mounted("rules")
    BY MountedIs DEF Tabs
  <2>2. PICK u : u = [Mounted("rules") EXCEPT !.sub = s]
    BY Zenon
  <2>3. u \in Components
    BY <2>1, <2>2 DEF Components
  <2> QED BY <1>2, <2>2, <2>3, Unmount, TurnStep DEF SelectSubTab, Turn, history
<1> QED BY <1>1, <1>2

\* A control of a component.
LEMMA ControlsStep ==
  ASSUME IInv,
         \/ \E p \in 1..MAX_PAGE : SetPage(p)
         \/ \E f \in Filters : SetFilter(f)
         \/ \E open \in BOOLEAN : SetDialog(open)
         \/ SetSearch \/ ToggleAuto \/ TypeRule \/ HideSnackbar \/ OverviewThrows
  PROVE  IInv'
<1>1. ui \in Components
  BY DEF IInv, PageOK
<1>2. ASSUME NEW p \in 1..MAX_PAGE, SetPage(p) PROVE IInv'
  <2>1. PICK u : u = [ui EXCEPT !.page = p]
    BY Zenon
  <2>2. u \in Components
    BY <1>1, <2>1 DEF Components
  <2> QED BY <1>2, <2>1, <2>2, ControlStep DEF SetPage
<1>3. ASSUME NEW f \in Filters, SetFilter(f) PROVE IInv'
  <2>1. PICK u : u = [ui EXCEPT !.filter = f]
    BY Zenon
  <2>2. u \in Components
    BY <1>1, <2>1 DEF Components
  <2> QED BY <1>3, <2>1, <2>2, ControlStep DEF SetFilter
<1>4. ASSUME NEW open \in BOOLEAN, SetDialog(open) PROVE IInv'
  <2>1. PICK u : u = [ui EXCEPT !.dialog = open]
    BY Zenon
  <2>2. u \in Components
    BY <1>1, <2>1 DEF Components
  <2> QED BY <1>4, <2>1, <2>2, ControlStep DEF SetDialog
<1>5. CASE SetSearch
  <2>1. PICK u : u = [ui EXCEPT !.search = ~@]
    BY Zenon
  <2>2. u \in Components
    BY <1>1, <2>1, Zenon DEF Components
  <2> QED BY <1>5, <2>1, <2>2, ControlStep DEF SetSearch
<1>6. CASE ToggleAuto
  <2>1. PICK u : u = [ui EXCEPT !.auto = ~@]
    BY Zenon
  <2>2. u \in Components
    BY <1>1, <2>1, Zenon DEF Components
  <2> QED BY <1>6, <2>1, <2>2, ControlStep DEF ToggleAuto
<1>7. CASE TypeRule
  <2>1. PICK u : u = [ui EXCEPT !.filled = ~@]
    BY Zenon
  <2>2. u \in Components
    BY <1>1, <2>1, Zenon DEF Components
  <2> QED BY <1>7, <2>1, <2>2, ControlStep DEF TypeRule
<1>8. CASE HideSnackbar
  <2>1. PICK u : u = [ui EXCEPT !.snackbar = "none"]
    BY Zenon
  <2>2. u \in Components
    BY <1>1, <2>1 DEF Components
  <2> QED BY <1>8, <2>1, <2>2, ControlStep DEF HideSnackbar
<1>9. CASE OverviewThrows
  BY <1>9, MountedIs, ControlStep DEF OverviewThrows
<1> QED BY <1>2, <1>3, <1>4, <1>5, <1>6, <1>7, <1>8, <1>9

-----------------------------------------------------------------------------
\* Fetches

\* Queries take steps that bring no data, and nothing else happens.
LEMMA QueriesStep ==
  ASSUME IInv, AllKept(query),
         UNCHANGED <<page, muts, wake, online, visible, srv, clicks, history>>,
         errors' \in 0..scenario.errors,
         \A s \in stray' : s.key \in scenario.keys /\ s.reply \in Payload
  PROVE  IInv'
<1>1. UNCHANGED <<ui, scenario, applied, confirmed, overtaken>>
  BY DEF page, history
<1>2. \A r \in Followed : srv'[r].ver \in Nat /\ srv[r].ver <= srv'[r].ver
  BY DEF IInv, ServerOK
<1>3. QueriesOK'
  BY <1>1, <1>2, KeptOK DEF IInv, QueriesOK
<1>4. MutationsOK'
  BY <1>1, MutationsRest DEF IInv
<1>5. PageOK' /\ NetOK'
  BY <1>1 DEF IInv, PageOK, NetOK
<1>6. ServerOK'
  BY <1>1 DEF IInv, ServerOK, Followed
<1> QED BY <1>3, <1>4, <1>5, <1>6 DEF IInv

\* The replies of cancelled fetches are payloads of followed queries.
LEMMA CancelledIs ==
  ASSUME QueriesOK, NEW ks, ks \subseteq scenario.keys
  PROVE  \A s \in Cancelled(ks) : s.key \in scenario.keys /\ s.reply \in Payload
BY QueriesSound DEF Cancelled, Sound, Query, QC!Query

\* A poll, a failed attempt and the end of a retry delay bring no data.
LEMMA FetchKept ==
  ASSUME IInv, NEW k \in scenario.keys, Poll(k) \/ FetchFails(k) \/ RetryDelayOver(k)
  PROVE  AllKept(query)
<1>1. Sound(query[k]) /\ online \in BOOLEAN
  BY QueriesSound DEF IInv, NetOK
<1>2. CASE Poll(k)
  <2>1. PICK p : p = QC!fetch(query[k], online, FALSE)
    BY Zenon
  <2>2. Keeps(query[k], p)
    BY <1>1, <2>1, FetchKeeps, Zenon
  <2> QED BY <1>2, <2>1, <2>2, OneKept, Zenon DEF IInv, Poll
<1>3. CASE FetchFails(k)
  <2>1. PICK p : p = QC!Failed(query[k])
    OBVIOUS
  <2>2. Keeps(query[k], p)
    BY <1>1, <2>1, FailedKeeps
  <2> QED BY <1>3, <2>1, <2>2, OneKept, Zenon DEF IInv, FetchFails
<1>4. CASE RetryDelayOver(k)
  <2>1. PICK p : p = QC!RetryOrPause(query[k], online, visible)
    OBVIOUS
  <2>2. Keeps(query[k], p)
    BY <1>1, <2>1, RetryKeeps
  <2> QED BY <1>4, <2>1, <2>2, OneKept, Zenon DEF IInv, RetryDelayOver
<1> QED BY <1>2, <1>3, <1>4

\* A poll, a failed attempt, and the end of a retry delay.
LEMMA FetchStep ==
  ASSUME IInv, NEW k \in scenario.keys, Poll(k) \/ FetchFails(k) \/ RetryDelayOver(k)
  PROVE  IInv'
<1>1. AllKept(query)
  BY FetchKept
<1>2. \A s \in stray : s.key \in scenario.keys /\ s.reply \in Payload
  BY DEF IInv, QueriesOK
<1>3. errors \in 0..scenario.errors /\ scenario.errors \in Nat
  BY Constants DEF IInv, NetOK, PageOK
<1>4. CASE Poll(k)
  BY <1>1, <1>2, <1>3, <1>4, QueriesStep DEF Poll, network
<1>5. CASE FetchFails(k)
  <2>1. errors' \in 0..scenario.errors
    BY <1>3, <1>5 DEF FetchFails
  <2> QED BY <1>1, <1>2, <1>5, <2>1, QueriesStep DEF FetchFails
<1>6. CASE RetryDelayOver(k)
  BY <1>1, <1>2, <1>3, <1>6, QueriesStep DEF RetryDelayOver, network
<1> QED BY <1>4, <1>5, <1>6

\* The refresh button brings no data either.
LEMMA RefetchKept ==
  ASSUME IInv, Refetch
  PROVE  AllKept(query)
<1>1. PICK k \in scenario.keys : k = LogKey
  BY DEF Refetch
<1>2. Sound(query[k]) /\ online \in BOOLEAN
  BY QueriesSound DEF IInv, NetOK
<1>3. PICK p : p = QC!fetch(query[k], online, TRUE)
  BY Zenon
<1>4. Keeps(query[k], p)
  BY <1>2, <1>3, FetchKeeps, Zenon
<1> QED BY <1>1, <1>3, <1>4, OneKept, Zenon DEF IInv, Refetch

\* The refresh button: the fetch it cancels may have a reply on its way.
LEMMA RefetchStep ==
  ASSUME IInv, Refetch
  PROVE  IInv'
<1>1. PICK k \in scenario.keys : k = LogKey
  BY DEF Refetch
<1>2. stray' \subseteq stray \cup Cancelled({k})
  BY <1>1, Zenon DEF Refetch
<1>3. \A s \in Cancelled({k}) : s.key \in scenario.keys /\ s.reply \in Payload
  BY CancelledIs DEF IInv
<1>4. \A s \in stray' : s.key \in scenario.keys /\ s.reply \in Payload
  BY <1>2, <1>3, Zenon DEF IInv, QueriesOK
<1>5. errors' \in 0..scenario.errors
  BY DEF Refetch, network, IInv, NetOK
<1> QED BY <1>4, <1>5, RefetchKept, QueriesStep, Zenon DEF Refetch, network

\* A reply of a cancelled fetch arrives: nothing takes it.
LEMMA StrayStep ==
  ASSUME IInv, StrayArrives
  PROVE  IInv'
<1>1. query' = query /\ stray' \subseteq stray
  BY DEF StrayArrives
<1>2. AllKept(query)
  BY <1>1, QueriesSound, KeepsItself DEF AllKept, IInv, QueriesOK
<1>3. errors' \in 0..scenario.errors
  BY DEF StrayArrives, network, IInv, NetOK
<1>4. \A s \in stray' : s.key \in scenario.keys /\ s.reply \in Payload
  BY <1>1 DEF IInv, QueriesOK
<1> QED BY <1>2, <1>3, <1>4, QueriesStep DEF StrayArrives, network

\* The queries hear of the network or the window: it brings no data.
LEMMA WakeKept ==
  ASSUME IInv, WakeQueries
  PROVE  AllKept(query)
<1>1. PICK w \in wake, due \in SUBSET Observed(ui) :
        /\ wake' = wake \ {w}
        /\ query' = [k \in scenario.keys |->
                       LET again == /\ w.event = "online"
                                    /\ k \in Observed(ui)
                                    /\ QC!isStale(query[k]) \/ k \in due
                       IN QC!continue(IF again THEN QC!fetch(query[k], online, FALSE)
                                               ELSE query[k], online, visible)]
        /\ UNCHANGED <<page, stray, muts, network, srv, clicks, history>>
  BY Zenon DEF WakeQueries
<1>2. ASSUME NEW k \in scenario.keys
      PROVE  Keeps(query[k], query'[k])
  <2>1. Sound(query[k]) /\ online \in BOOLEAN
    BY QueriesSound DEF IInv, NetOK
  <2>2. PICK p : /\ p = query[k] \/ p = QC!fetch(query[k], online, FALSE)
                 /\ query'[k] = QC!continue(p, online, visible)
    BY <1>1, Zenon
  <2>3. Keeps(query[k], p)
    BY <2>1, <2>2, FetchKeeps, KeepsItself, Zenon
  <2>4. Keeps(p, QC!continue(p, online, visible))
    BY <2>3, ContinueKeeps DEF Keeps
  <2> QED BY <2>2, <2>3, <2>4, KeepsOn
<1> QED BY <1>1, <1>2, Zenon DEF AllKept

\* The queries hear of the network or the window.
LEMMA WakeStep ==
  ASSUME IInv, WakeQueries
  PROVE  IInv'
<1>1. wake' \subseteq wake /\ UNCHANGED <<page, stray, muts, network, srv, clicks, history>>
  BY DEF WakeQueries
<1>2. UNCHANGED <<ui, scenario, applied, confirmed, overtaken, online, visible, errors>>
  BY <1>1 DEF page, history, network
<1>3. \A r \in Followed : srv'[r].ver \in Nat /\ srv[r].ver <= srv'[r].ver
  BY <1>1 DEF IInv, ServerOK
<1>4. QueriesOK'
  BY <1>1, <1>2, <1>3, WakeKept, KeptOK, Zenon DEF IInv, QueriesOK
<1>5. MutationsOK'
  BY <1>1, <1>2 DEF IInv, MutationsOK, Unsettled, Followed
<1>6. PageOK' /\ NetOK'
  BY <1>2 DEF IInv, PageOK, NetOK
<1>7. ServerOK'
  BY <1>1, <1>2 DEF IInv, ServerOK, Followed
<1> QED BY <1>4, <1>5, <1>6, <1>7 DEF IInv

\* One query changes, perhaps by new data, and with it whether its reply is an old one.
LEMMA OneChanged ==
  ASSUME IInv, NEW k \in scenario.keys, NEW p \in Query, query' = [query EXCEPT ![k] = p],
         Known(p, srv[Resource(k)].ver),
         k \notin overtaken' => Current(p, confirmed[Resource(k)]),
         overtaken \ {k} \subseteq overtaken', overtaken' \subseteq scenario.keys,
         UNCHANGED <<page, stray, muts, wake, network, srv, clicks, applied, confirmed>>
  PROVE  IInv'
<1>1. UNCHANGED <<ui, scenario, online, visible, errors>>
  BY DEF page, network
<1>2. query' \in [scenario.keys -> Query]
  BY DEF IInv, QueriesOK, Query
<1>3. \A j \in scenario.keys : query'[j] = IF j = k THEN p ELSE query[j]
  BY DEF IInv, QueriesOK
<1>4. \A j \in scenario.keys : Known(query'[j], srv[Resource(j)].ver)
  BY <1>3 DEF IInv, QueriesOK
<1>5. \A j \in scenario.keys \ overtaken' : Current(query'[j], confirmed[Resource(j)])
  BY <1>3 DEF IInv, QueriesOK
<1>6. \A s \in stray : s.key \in scenario.keys /\ s.reply \in Payload
  BY DEF IInv, QueriesOK
<1>7. QueriesOK'
  BY <1>1, <1>2, <1>4, <1>5, <1>6 DEF QueriesOK, Query
<1>8. MutationsOK'
  BY <1>1, MutationsRest, Zenon DEF IInv
<1>9. PageOK' /\ NetOK'
  BY <1>1 DEF IInv, PageOK, NetOK
<1>10. ServerOK'
  BY <1>1 DEF IInv, ServerOK, Followed
<1> QED BY <1>7, <1>8, <1>9, <1>10 DEF IInv

\* What the invariant says of a query and of its resource.
LEMMA QueryFacts ==
  ASSUME IInv, NEW k \in scenario.keys
  PROVE  /\ query[k] \in Query /\ query[k].data.ver \in Nat /\ query[k].reply.ver \in Nat
         /\ query[k].data \in Payload /\ query[k].reply \in Payload
         /\ Known(query[k], srv[Resource(k)].ver)
         /\ k \notin overtaken => Current(query[k], confirmed[Resource(k)])
         /\ Resource(k) \in Followed /\ srv[Resource(k)] \in Payload
         /\ srv[Resource(k)].ver \in Nat /\ confirmed[Resource(k)] \in Nat
         /\ confirmed[Resource(k)] <= srv[Resource(k)].ver
<1>1. query[k] \in Query /\ Resource(k) \in Followed
  BY QueriesSound DEF IInv, Sound
<1>2. query[k].data \in Payload /\ query[k].reply \in Payload
  BY <1>1 DEF Query, QC!Query
<1>3. query[k].data.ver \in Nat /\ query[k].reply.ver \in Nat
  BY <1>2 DEF Payload
<1>4. srv[Resource(k)] \in [ver : 1..MAX_VERSION, size : 0..MAX_PAGE]
  BY <1>1 DEF IInv, ServerOK
<1>5. srv[Resource(k)] \in Payload /\ srv[Resource(k)].ver \in Nat
  BY <1>4, Constants DEF Payload
<1>6. confirmed[Resource(k)] \in Nat /\ confirmed[Resource(k)] <= srv[Resource(k)].ver
  BY <1>1 DEF IInv, ServerOK
<1> QED BY <1>1, <1>2, <1>3, <1>5, <1>6 DEF IInv, QueriesOK

\* The server answers: the reply is what the server has, hence no older than the data
\* of the query nor than what is confirmed.
LEMMA ServeStep ==
  ASSUME IInv, NEW k \in scenario.keys, Serve(k)
  PROVE  IInv'
<1>1. PICK q \in Query : q = query[k]
  BY QueryFacts
<1>2. PICK s \in Payload : s = srv[Resource(k)]
  BY QueryFacts
<1>3. PICK p1 : p1 = [q EXCEPT !.phase = "answered"]
  BY Zenon
<1>4. p1 \in Query /\ p1.data = q.data /\ p1.status = q.status /\ p1.invalid = q.invalid
      /\ p1.phase = "answered"
  BY <1>1, <1>3 DEF Query, QC!Query, QC!Phases
<1>5. PICK p : p = [p1 EXCEPT !.reply = s]
  BY Zenon
<1>6. p \in Query /\ p.data = q.data /\ p.status = q.status /\ p.invalid = q.invalid
      /\ p.phase = "answered" /\ p.reply = s
  BY <1>2, <1>4, <1>5 DEF Query, QC!Query
<1>7. query' = [query EXCEPT ![k] = p]
  <2>1. k \in DOMAIN query
    BY DEF IInv, QueriesOK
  <2>2. query' = [query EXCEPT ![k] = [[query[k] EXCEPT !.phase = "answered"]
                                         EXCEPT !.reply = srv[Resource(k)]]]
    BY <2>1, Zenon DEF Serve
  <2> QED BY <1>1, <1>2, <1>3, <1>5, <2>2, Zenon
<1>8. /\ q.data.ver \in Nat /\ s.ver \in Nat /\ Known(q, s.ver)
      /\ k \notin overtaken => Current(q, confirmed[Resource(k)])
      /\ confirmed[Resource(k)] \in Nat /\ confirmed[Resource(k)] <= s.ver
  BY <1>1, <1>2, QueryFacts
<1>9. Known(p, s.ver)
  BY <1>6, <1>8 DEF Known
<1>10. k \notin overtaken => Current(p, confirmed[Resource(k)])
  BY <1>6, <1>8 DEF Current
<1>11. overtaken' = overtaken /\ overtaken \subseteq scenario.keys
       /\ UNCHANGED <<page, stray, muts, wake, network, srv, clicks, applied, confirmed>>
  BY DEF Serve, history, IInv, QueriesOK
<1> QED BY <1>2, <1>6, <1>7, <1>9, <1>10, <1>11, OneChanged, Zenon

\* The reply is taken.
LEMMA ReceiveStep ==
  ASSUME IInv, NEW k \in scenario.keys, Receive(k)
  PROVE  IInv'
<1>1. PICK q \in Query : q = query[k]
  BY QueryFacts
<1>2. PICK d \in Payload : d = q.reply
  BY <1>1, QueryFacts
<1>3. PICK p : p = QC!setData(q, d)
  OBVIOUS
<1>4. p \in Query /\ p.data = d /\ p.status = "success" /\ p.phase = "none"
  BY <1>3, SetDataIs
<1>5. query' = [query EXCEPT ![k] = p]
  BY <1>1, <1>2, <1>3 DEF Receive
<1>6. /\ d.ver \in Nat /\ Known(q, srv[Resource(k)].ver) /\ q.phase = "answered"
      /\ k \notin overtaken => Current(q, confirmed[Resource(k)])
      /\ confirmed[Resource(k)] \in Nat
  BY <1>1, <1>2, QueryFacts DEF Receive
<1>7. Known(p, srv[Resource(k)].ver)
  BY <1>2, <1>4, <1>6 DEF Known
<1>8. k \notin overtaken' => confirmed[Resource(k)] <= d.ver
  BY <1>1, <1>2, <1>6 DEF Receive, Current
<1>9. k \notin overtaken' => Current(p, confirmed[Resource(k)])
  BY <1>4, <1>8 DEF Current
<1>10. overtaken \ {k} \subseteq overtaken' /\ overtaken' \subseteq scenario.keys
  BY DEF Receive, IInv, QueriesOK
<1> QED BY <1>4, <1>5, <1>7, <1>9, <1>10, OneChanged, Zenon DEF Receive

\* A query is forgotten.
LEMMA GcStep ==
  ASSUME IInv, NEW k \in scenario.keys, Gc(k)
  PROVE  IInv'
<1>1. PICK p : p = QC!NewQuery
  OBVIOUS
<1>2. p \in Query /\ p.data = Nothing /\ p.phase = "none" /\ p.data.ver = 0
  BY <1>1, New, NothingIs DEF Sound
<1>3. Known(p, srv[Resource(k)].ver)
  BY <1>2, QueryFacts DEF Known
<1>4. Current(p, confirmed[Resource(k)])
  BY <1>2 DEF Current
<1>5. overtaken \ {k} \subseteq overtaken' /\ overtaken' \subseteq scenario.keys
  BY DEF Gc, IInv, QueriesOK
<1>6. query' = [query EXCEPT ![k] = p]
  BY <1>1 DEF Gc
<1> QED BY <1>2, <1>3, <1>4, <1>5, <1>6, OneChanged, Zenon DEF Gc

-----------------------------------------------------------------------------
\* Mutations and the server

\* Nothing happens to the queries, while the server may go on.
LEMMA QueriesRest ==
  ASSUME IInv, UNCHANGED <<scenario, query, stray, confirmed, overtaken>>,
         \A r \in Followed : srv'[r].ver \in Nat /\ srv[r].ver <= srv'[r].ver
  PROVE  QueriesOK'
<1>1. AllKept(query)
  BY QueriesSound, KeepsItself DEF AllKept, IInv, QueriesOK
<1>2. \A s \in stray' : s.key \in scenario.keys /\ s.reply \in Payload
  BY DEF IInv, QueriesOK
<1>3. overtaken \subseteq overtaken' /\ overtaken' \subseteq scenario.keys
  BY DEF IInv, QueriesOK
<1> QED BY <1>1, <1>2, <1>3, KeptOK DEF IInv

\* Nothing happens to the server.
LEMMA ServerRests ==
  ASSUME IInv, UNCHANGED <<scenario, srv, confirmed, applied>>
  PROVE  ServerOK' /\ \A r \in Followed : srv'[r].ver \in Nat /\ srv[r].ver <= srv'[r].ver
<1>1. ServerOK'
  BY DEF IInv, ServerOK, Followed
<1>2. \A r \in Followed : srv'[r].ver \in Nat /\ srv[r].ver <= srv'[r].ver
  BY DEF IInv, ServerOK
<1> QED BY <1>1, <1>2

\* A button starts a mutation: its number is new.
LEMMA MutateStep ==
  ASSUME IInv, NEW kind \in Kinds, mutate(kind)
  PROVE  IInv'
<1>1. UNCHANGED <<ui, scenario, query, stray, wake, online, visible, errors, srv, applied, confirmed,
                  overtaken>>
  BY DEF mutate, page, network, history
<1>2. ServerOK' /\ QueriesOK'
  BY <1>1, ServerRests, QueriesRest
<1>3. PageOK' /\ NetOK'
  BY <1>1 DEF IInv, PageOK, NetOK
<1>4. PICK c \in Nat : c = clicks /\ clicks' = c + 1 /\ c + 1 <= scenario.clicks
  BY Countable DEF IInv, mutate
<1>5. PICK n : n = [id |-> c + 1, kind |-> kind, ver |-> 0, listened |-> TRUE,
                    st |-> IF online THEN "sent" ELSE "held"]
  BY Zenon
<1>6. n \in Mutation
  BY <1>4, <1>5, Constants DEF Mutation
<1>7. muts' = muts \cup {n} /\ Target(kind) \in Followed
  BY <1>4, <1>5 DEF mutate
<1>8. n.id = c + 1 /\ n.kind = kind /\ n.ver = 0 /\ n.st \in {"held", "sent"}
  BY <1>5
<1>9. \A m \in muts : m.id \in 1..c
  BY <1>4 DEF IInv, MutationsOK
<1>10. Unsettled' = Unsettled \cup {c + 1}
  BY <1>7, <1>8 DEF Unsettled
<1>11. PICK S : S = Unsettled /\ IsFiniteSet(S) /\ Cardinality(S) \in Nat /\ S \subseteq 1..c
  BY <1>4, Countable DEF IInv
<1>12. Cardinality(S \cup {c + 1}) = Cardinality(S) + 1
  <2>1. c + 1 \notin S
    BY <1>4, <1>11
  <2> QED BY <1>11, <2>1, FS_AddElement
<1>13. applied \in Nat /\ applied + Cardinality(S) <= c
  BY <1>4, <1>11 DEF IInv, ServerOK, MutationsOK
<1>14. applied' + Cardinality(Unsettled') <= clicks'
  BY <1>1, <1>4, <1>10, <1>11, <1>12, <1>13
<1>15. muts' \subseteq Mutation /\ clicks' \in 0..scenario'.clicks
  <2>1. clicks' \in 0..scenario.clicks
    BY <1>4, Countable DEF IInv
  <2> QED BY <1>1, <1>6, <1>7, <2>1 DEF IInv, MutationsOK
<1>16. \A w \in wake' : w.event \in {"online", "visible"} /\ w.after \subseteq 1..clicks'
  <2>1. \A w \in wake : w.event \in {"online", "visible"} /\ w.after \subseteq 1..c
    BY <1>4 DEF IInv, MutationsOK
  <2> QED BY <1>1, <1>4, <2>1
<1>17. \A m \in muts' : m.id \in 1..clicks' /\ Target(m.kind) \in Followed'
                        /\ m.ver <= srv'[Target(m.kind)].ver
  <2>1. Followed' = Followed
    BY <1>1 DEF Followed
  <2>2. \A m \in muts : Target(m.kind) \in Followed /\ m.ver <= srv[Target(m.kind)].ver
    BY DEF IInv, MutationsOK
  <2>3. 0 <= srv[Target(kind)].ver
    BY <1>7 DEF IInv, ServerOK
  <2> QED BY <1>1, <1>4, <1>7, <1>8, <1>9, <2>1, <2>2, <2>3
<1>18. \A m, o \in muts' : m.id = o.id => m = o
  <2>1. \A m, o \in muts : m.id = o.id => m = o
    BY DEF IInv, MutationsOK
  <2>2. \A m \in muts : m.id # n.id
    BY <1>4, <1>8, <1>9
  <2> QED BY <1>7, <2>1, <2>2
<1>19. MutationsOK'
  BY <1>14, <1>15, <1>16, <1>17, <1>18 DEF MutationsOK
<1> QED BY <1>2, <1>3, <1>19 DEF IInv

\* A resource gets its next version: there is one, as each version but the first is a
\* change of the server's own or an applied mutation.
LEMMA NextVersion ==
  ASSUME IInv, NEW r \in Followed, NEW size \in 0..MAX_PAGE,
         srv' = [srv EXCEPT ![r] = [ver |-> @.ver + 1, size |-> size]],
         UNCHANGED <<scenario, confirmed>>,
         applied' \in Nat, applied <= applied', applied' <= scenario.clicks,
         srv[r].ver <= scenario.changes + applied'
  PROVE  /\ ServerOK' /\ srv'[r].ver = srv[r].ver + 1
         /\ \A s \in Followed : srv'[s].ver \in Nat /\ srv[s].ver <= srv'[s].ver
<1>1. PICK v \in 1..MAX_VERSION : v = srv[r].ver
  BY DEF IInv, ServerOK
<1>2. scenario.changes \in Nat /\ scenario.clicks \in Nat
      /\ scenario.changes + scenario.clicks + 1 <= MAX_VERSION /\ MAX_VERSION \in Nat
  BY Constants DEF IInv, PageOK
<1>3. v + 1 \in 1..MAX_VERSION
  BY <1>1, <1>2
<1>4. PICK x : x = [ver |-> v + 1, size |-> size]
  BY Zenon
<1>5. x \in [ver : 1..MAX_VERSION, size : 0..MAX_PAGE] /\ x.ver = v + 1
  BY <1>3, <1>4
<1>6. srv \in [Followed -> [ver : 1..MAX_VERSION, size : 0..MAX_PAGE]]
  BY DEF IInv, ServerOK
<1>7. srv' = [srv EXCEPT ![r] = x]
  BY <1>1, <1>4
<1>8. srv' \in [Followed -> [ver : 1..MAX_VERSION, size : 0..MAX_PAGE]]
  BY <1>5, <1>6, <1>7
<1>9. \A s \in Followed : srv'[s] = IF s = r THEN x ELSE srv[s]
  BY <1>6, <1>7
<1>10. \A s \in Followed : srv[s].ver \in 1..MAX_VERSION
  BY <1>6
<1>11. \A s \in Followed : srv'[s].ver \in Nat /\ srv[s].ver <= srv'[s].ver
  BY <1>1, <1>5, <1>9, <1>10
<1>12. \A s \in Followed : srv[s].ver <= scenario.changes + applied + 1 /\ confirmed[s] <= srv[s].ver
                           /\ confirmed[s] \in Nat
  BY DEF IInv, ServerOK
<1>13. applied \in Nat
  BY DEF IInv, ServerOK
<1>14. \A s \in Followed : srv'[s].ver <= scenario.changes + applied' + 1
  BY <1>1, <1>2, <1>5, <1>9, <1>10, <1>12, <1>13
<1>15. \A s \in Followed : confirmed[s] <= srv'[s].ver
  BY <1>10, <1>11, <1>12
<1>16. ServerOK'
  <2>1. Followed' = Followed
    BY DEF Followed
  <2> QED BY <1>8, <1>14, <1>15, <2>1 DEF IInv, ServerOK
<1> QED BY <1>1, <1>5, <1>9, <1>11, <1>16

\* The server's own doing.
LEMMA ChangeStep ==
  ASSUME IInv, NEW r \in Followed, Change(r)
  PROVE  IInv'
<1>1. UNCHANGED <<ui, scenario, query, stray, muts, wake, online, visible, errors, clicks, applied,
                  confirmed, overtaken>>
  BY DEF Change, page, client, network, history
<1>2. PICK size \in 0..MAX_PAGE : srv' = [srv EXCEPT ![r] = [ver |-> @.ver + 1, size |-> size]]
  <2>1. PICK n : n = (IF r = "caches" THEN MAX_PAGE ELSE 1)
    OBVIOUS
  <2>2. PICK size \in 0..n : srv' = [srv EXCEPT ![r] = [ver |-> @.ver + 1, size |-> size]]
    BY <2>1, Zenon DEF Change
  <2>3. size \in 0..MAX_PAGE
    BY <2>1, <2>2, Constants
  <2> QED BY <2>2, <2>3, Zenon
<1>3. applied \in Nat /\ applied <= scenario.clicks
  BY AppliedBound DEF IInv
<1>4. ServerOK' /\ \A s \in Followed : srv'[s].ver \in Nat /\ srv[s].ver <= srv'[s].ver
  <2>1. srv[r].ver <= scenario.changes + applied'
    BY <1>1 DEF Change
  <2>2. applied' \in Nat /\ applied <= applied' /\ applied' <= scenario.clicks
    BY <1>1, <1>3
  <2> QED BY <1>1, <1>2, <2>1, <2>2, NextVersion, Zenon
<1>5. QueriesOK'
  BY <1>1, <1>4, QueriesRest
<1>6. PageOK' /\ NetOK'
  BY <1>1 DEF IInv, PageOK, NetOK
<1>7. Unsettled' = Unsettled /\ Followed' = Followed
  BY <1>1 DEF Unsettled, Followed
<1>8. \A m \in muts : m.ver <= srv'[Target(m.kind)].ver
  <2>1. \A m \in muts : Target(m.kind) \in Followed /\ m.ver \in Nat /\ m.ver <= srv[Target(m.kind)].ver
    BY DEF IInv, MutationsOK, Mutation
  <2>2. \A s \in Followed : srv[s].ver \in Nat
    BY DEF IInv, ServerOK
  <2> QED BY <1>4, <2>1, <2>2
<1>9. MutationsOK'
  BY <1>1, <1>7, <1>8 DEF IInv, MutationsOK
<1> QED BY <1>4, <1>5, <1>6, <1>9 DEF IInv

\* While a request is on its way to the server, a click is left to be applied.
LEMMA SentCounts ==
  ASSUME IInv, NEW m \in muts, m.st = "sent"
  PROVE  applied + 1 \in Nat /\ applied <= applied + 1 /\ applied + 1 <= scenario.clicks
<1>1. PICK S : S = Unsettled /\ IsFiniteSet(S) /\ Cardinality(S) \in Nat
  BY Countable DEF IInv
<1>2. m.id \in S
  BY <1>1 DEF Unsettled
<1>3. IsFiniteSet(S \ {m.id}) /\ Cardinality(S \ {m.id}) = Cardinality(S) - 1
  BY <1>1, <1>2, FS_RemoveElement
<1>4. Cardinality(S \ {m.id}) \in Nat
  BY <1>3, FS_CardinalityType
<1>5. applied \in Nat /\ applied + Cardinality(S) <= clicks /\ clicks \in Nat
      /\ scenario.clicks \in Nat /\ clicks <= scenario.clicks
  BY <1>1, Countable DEF IInv, ServerOK, MutationsOK
<1> QED BY <1>1, <1>3, <1>4, <1>5

\* A mutation has its kind, its number and its resource.
LEMMA MutationIs ==
  ASSUME IInv, NEW m \in muts
  PROVE  /\ m \in Mutation /\ m.kind \in Kinds /\ Target(m.kind) \in Followed /\ m.ver \in Nat
         /\ m.ver <= srv[Target(m.kind)].ver
BY DEF IInv, MutationsOK, Mutation

\* A request that failed, for whatever reason.
LEMMA FailedIs ==
  ASSUME IInv, NEW m \in muts, \A r \in Followed : srv'[r].ver \in Nat /\ srv[r].ver <= srv'[r].ver,
         NEW n, n = [m EXCEPT !.st = "failed"]
  PROVE  /\ n \in Mutation /\ n.id = m.id /\ n.kind = m.kind /\ n.st = "failed"
         /\ n.ver <= srv'[Target(n.kind)].ver
<1>1. /\ n \in Mutation /\ n.id = m.id /\ n.kind = m.kind /\ n.st = "failed" /\ n.ver = m.ver
  BY MutationIs DEF Mutation
<1>2. srv[Target(m.kind)].ver \in Nat
  BY MutationIs DEF IInv, ServerOK
<1> QED BY <1>1, <1>2, MutationIs

\* The server carries a mutation out.
LEMMA ApplyStep ==
  ASSUME IInv, NEW m \in muts, Apply(m)
  PROVE  IInv'
<1>1. UNCHANGED <<ui, scenario, query, stray, wake, online, visible, clicks, confirmed, overtaken>>
      /\ m.st = "sent" /\ applied' = applied + 1
  BY DEF Apply, page
<1>2. PICK r \in Followed : r = Target(m.kind)
  BY MutationIs
<1>3. PICK size \in Leaves(m.kind, srv[r].size) :
        srv' = [srv EXCEPT ![r] = [ver |-> @.ver + 1, size |-> size]]
  BY <1>2, Zenon DEF Apply
<1>4. size \in 0..MAX_PAGE
  <2>1. srv[r].size \in 0..MAX_PAGE
    BY DEF IInv, ServerOK
  <2>2. 0 \in 0..MAX_PAGE /\ 1 \in 0..MAX_PAGE /\ 0..srv[r].size \subseteq 0..MAX_PAGE
    BY <2>1, Constants
  <2> QED BY <1>3, <2>2, MutationIs DEF Leaves, Kinds
<1>5. applied' \in Nat /\ applied <= applied' /\ applied' <= scenario.clicks
  BY <1>1, SentCounts
<1>6. srv[r].ver <= scenario.changes + applied'
  <2>1. srv[r].ver \in Nat /\ srv[r].ver <= scenario.changes + applied + 1 /\ applied \in Nat
    BY DEF IInv, ServerOK
  <2>2. scenario.changes \in Nat
    BY Constants DEF IInv, PageOK
  <2> QED BY <1>1, <2>1, <2>2
<1>7. /\ ServerOK' /\ srv'[r].ver = srv[r].ver + 1
      /\ \A s \in Followed : srv'[s].ver \in Nat /\ srv[s].ver <= srv'[s].ver
  BY <1>1, <1>3, <1>4, <1>5, <1>6, NextVersion, Zenon
<1>8. QueriesOK'
  BY <1>1, <1>7, QueriesRest
<1>9. errors' \in 0..scenario.errors
  <2>1. errors \in 0..scenario.errors /\ scenario.errors \in Nat
    BY Constants DEF IInv, NetOK, PageOK
  <2>2. errors' = errors \/ (errors > 0 /\ errors' = errors - 1)
    BY DEF Apply
  <2> QED BY <2>1, <2>2
<1>10. PageOK' /\ NetOK'
  BY <1>1, <1>9 DEF IInv, PageOK, NetOK
<1>11. PICK n : /\ muts' = (muts \ {m}) \cup {n} /\ n \in Mutation /\ n.id = m.id /\ n.kind = m.kind
                /\ n.st \in {"done", "failed"} /\ n.ver <= srv'[Target(n.kind)].ver
  <2>1. CASE muts' = (muts \ {m}) \cup {[m EXCEPT !.st = "done", !.ver = srv'[Target(m.kind)].ver]}
    <3>1. PICK v : v = srv'[r].ver
      OBVIOUS
    <3>2. v \in 0..MAX_VERSION
      <4>1. r \in Followed'
        BY <1>1, <1>2, Zenon DEF Followed
      <4> QED BY <1>7, <3>1, <4>1, Constants DEF ServerOK
    <3>3. PICK n1 : n1 = [m EXCEPT !.st = "done"]
      BY Zenon
    <3>4. n1 \in Mutation /\ n1.id = m.id /\ n1.kind = m.kind /\ n1.st = "done"
      BY <3>3, MutationIs DEF Mutation
    <3>5. PICK n : n = [n1 EXCEPT !.ver = v]
      BY Zenon
    <3>6. n \in Mutation /\ n.id = m.id /\ n.kind = m.kind /\ n.st = "done" /\ n.ver = v
      BY <3>2, <3>4, <3>5 DEF Mutation
    <3>7. muts' = (muts \ {m}) \cup {n}
      BY <1>2, <2>1, <3>1, <3>3, <3>5, Zenon
    <3>8. n.ver <= srv'[Target(n.kind)].ver
      BY <1>2, <3>1, <3>2, <3>6
    <3> QED BY <3>6, <3>7, <3>8
  <2>2. CASE muts' = (muts \ {m}) \cup {[m EXCEPT !.st = "failed"]}
    <3>1. PICK n : n = [m EXCEPT !.st = "failed"]
      BY Zenon
    <3> QED BY <1>7, <2>2, <3>1, FailedIs
  <2> QED BY <2>1, <2>2 DEF Apply
<1>12. MutationsOK'
  <2>1. PICK N : N = {n}
    BY Zenon
  <2>2. \A o \in N : /\ o \in Mutation /\ o.id = m.id /\ o.kind = m.kind
                     /\ o.st \in {"done", "failed"} /\ o.ver <= srv'[Target(o.kind)].ver
    BY <1>11, <2>1
  <2>3. muts' = (muts \ {m}) \cup N /\ \A o, l \in N : o = l
    BY <1>11, <2>1
  <2>4. UNCHANGED <<scenario, clicks, wake>> /\ applied' = applied + 1 /\ m.st \in {"held", "sent"}
    BY <1>1
  <2> QED BY <1>7, <2>2, <2>3, <2>4, MutationSettles DEF IInv
<1> QED BY <1>7, <1>8, <1>10, <1>12 DEF IInv

\* The server refuses a mutation, or never hears of it.
LEMMA RefuseStep ==
  ASSUME IInv, NEW m \in muts, Refuse(m)
  PROVE  IInv'
<1>1. UNCHANGED <<ui, scenario, query, stray, wake, online, visible, srv, clicks, applied, confirmed,
                  overtaken>>
  BY DEF Refuse, page, history
<1>2. ServerOK' /\ \A s \in Followed : srv'[s].ver \in Nat /\ srv[s].ver <= srv'[s].ver
  BY <1>1, ServerRests
<1>3. QueriesOK'
  BY <1>1, <1>2, QueriesRest
<1>4. errors' \in 0..scenario.errors
  <2>1. errors \in 0..scenario.errors /\ scenario.errors \in Nat
    BY Constants DEF IInv, NetOK, PageOK
  <2> QED BY <2>1 DEF Refuse
<1>5. PageOK' /\ NetOK'
  BY <1>1, <1>4 DEF IInv, PageOK, NetOK
<1>6. PICK n : n = [m EXCEPT !.st = "failed"]
  BY Zenon
<1>7. PICK N : N = {n}
  BY Zenon
<1>8. MutationsOK'
  <2>1. \A o \in N : /\ o \in Mutation /\ o.id = m.id /\ o.kind = m.kind
                     /\ o.st \in {"done", "failed"} /\ o.ver <= srv'[Target(o.kind)].ver
    BY <1>2, <1>6, <1>7, FailedIs
  <2>2. muts' = (muts \ {m}) \cup N /\ \A o, l \in N : o = l
    BY <1>6, <1>7 DEF Refuse
  <2>3. UNCHANGED <<scenario, clicks, wake>> /\ applied' = applied
    BY <1>1
  <2> QED BY <1>2, <2>1, <2>2, <2>3, MutationSettles DEF IInv
<1> QED BY <1>2, <1>3, <1>5, <1>8 DEF IInv

-----------------------------------------------------------------------------
\* What the page hears of a mutation

\* The callbacks leave a state of its type.
LEMMA CallbackIs ==
  ASSUME NEW u \in Components, NEW kind \in Kinds
  PROVE  onSuccess(u, kind) \in Components /\ onError(u) \in Components
<1>1. PICK u1 : u1 = [u EXCEPT !.snackbar = "success"]
  BY Zenon
<1>2. u1 \in Components
  BY <1>1 DEF Components
<1>3. PICK u2 : u2 = [u1 EXCEPT !.page = 1]
  BY Zenon
<1>4. u2 \in Components
  BY <1>2, <1>3, Constants DEF Components
<1>5. PICK u3 : u3 = [u1 EXCEPT !.dialog = FALSE]
  BY Zenon
<1>6. u3 \in Components
  BY <1>2, <1>5, Zenon DEF Components
<1>7. PICK u4 : u4 = [u3 EXCEPT !.filled = FALSE]
  BY Zenon
<1>8. u4 \in Components
  BY <1>6, <1>7, Zenon DEF Components
<1>9. onSuccess(u, kind) \in {u1, u2, u4}
  <2>1. CASE kind = "flush"
    BY <1>1, <1>3, <2>1, Zenon DEF onSuccess
  <2>2. CASE kind = "create"
    <3>1. kind # "flush"
      BY <2>2
    <3> QED BY <1>1, <1>5, <1>7, <2>2, <3>1 DEF onSuccess
  <2>3. CASE kind = "delete"
    <3>1. kind # "flush" /\ kind # "create"
      BY <2>3
    <3> QED BY <1>1, <2>3, <3>1 DEF onSuccess
  <2> QED BY <2>1, <2>2, <2>3 DEF Kinds
<1>10. onError(u) \in Components
  BY DEF onError, Components
<1> QED BY <1>2, <1>4, <1>8, <1>9, <1>10

\* The greater of two naturals.
LEMMA MaxOfTwo ==
  ASSUME NEW m \in Nat, NEW n \in Nat
  PROVE  Max({m, n}) = IF m >= n THEN m ELSE n
<1>1. \E x \in {m, n} : \A y \in {m, n} : x >= y
  OBVIOUS
<1> QED BY <1>1 DEF Max

\* A step that brings no data leaves a query as recent as it was.
LEMMA KeepsRecent ==
  ASSUME NEW q \in Query, NEW p, Keeps(q, p)
  PROVE  /\ \A v : Known(q, v) => Known(p, v)
         /\ \A c : Current(q, c) => Current(p, c)
<1>1. p \in Query
  BY DEF Keeps, Sound
<1>2. ASSUME NEW v, Known(q, v) PROVE Known(p, v)
  BY <1>1, <1>2 DEF Known, Keeps, Sound
<1>3. ASSUME NEW c, Current(q, c) PROVE Current(p, c)
  <2>1. q.invalid \in BOOLEAN /\ p.invalid \in BOOLEAN
    BY <1>1 DEF Query, QC!Query
  <2> QED BY <1>3, <2>1 DEF Current, Keeps
<1> QED BY <1>2, <1>3

\* A query of the resource that is invalidated: its data is not taken for current any
\* more, and the reply of an earlier fetch is only waited for where there is no data or
\* the query is not on the page.
LEMMA InvalidatedIs ==
  ASSUME IInv, NEW r, NEW k \in scenario.keys
  PROVE  /\ Keeps(query[k], invalidateQueries(r)[k])
         /\ Resource(k) # r => invalidateQueries(r)[k] = query[k]
         /\ Resource(k) = r =>
              /\ invalidateQueries(r)[k].data # Nothing => invalidateQueries(r)[k].invalid
              /\ invalidateQueries(r)[k].phase = "answered" =>
                   k \notin Observed(ui) \/ invalidateQueries(r)[k].data = Nothing
<1>1. Sound(query[k]) /\ online \in BOOLEAN
  BY QueriesSound DEF IInv, NetOK
<1>2. PICK i : i = QC!invalidate(query[k])
  OBVIOUS
<1>3. Keeps(query[k], i) /\ Sound(i) /\ (i.data # Nothing => i.invalid)
  BY <1>1, <1>2, InvalidateKeeps DEF Keeps
<1>4. CASE Resource(k) # r
  <2>1. invalidateQueries(r)[k] = query[k]
    BY <1>4 DEF invalidateQueries
  <2> QED BY <1>1, <1>4, <2>1, KeepsItself, Zenon
<1>5. CASE Resource(k) = r /\ k \notin Observed(ui)
  <2>1. invalidateQueries(r)[k] = i
    BY <1>2, <1>5 DEF invalidateQueries
  <2> QED BY <1>3, <1>5, <2>1
<1>6. CASE Resource(k) = r /\ k \in Observed(ui)
  <2>1. PICK f : f = QC!fetch(i, online, TRUE)
    BY Zenon
  <2>2. invalidateQueries(r)[k] = f
    BY <1>2, <1>6, <2>1, Zenon DEF invalidateQueries
  <2>3. Keeps(i, f) /\ (i.data # Nothing => f.phase # "answered")
    BY <1>1, <1>3, <2>1, FetchKeeps, Zenon
  <2>4. Keeps(query[k], f)
    BY <1>3, <2>3, KeepsOn
  <2>5. f.data = i.data /\ (f.data # Nothing => f.invalid)
    BY <1>3, <2>3 DEF Keeps
  <2> QED BY <1>6, <2>2, <2>3, <2>4, <2>5
<1> QED BY <1>4, <1>5, <1>6, Zenon

\* A mutation is reported as done: from then on its version is what current data must
\* have, and no query of its resource passes older data for current.
LEMMA SucceedsStep ==
  ASSUME IInv, NEW m \in muts, Succeeds(m)
  PROVE  IInv'
<1>1. PICK r \in Followed : r = Target(m.kind)
  BY MutationIs
<1>2. PICK qs : qs = invalidateQueries(r)
  OBVIOUS
<1>3. PICK u : u = (IF m.listened THEN onSuccess(ui, m.kind) ELSE ui)
  OBVIOUS
<1>4. PICK R : R \subseteq Observed(ui) /\ stray' = stray \cup Cancelled(R)
  <2>1. stray' = stray \cup Cancelled({k \in Observed(ui) : Resource(k) = r /\ qs[k].phase = "sent"})
    BY <1>1, <1>2, Zenon DEF Succeeds
  <2> QED BY <2>1
<1>5. /\ confirmed' = [confirmed EXCEPT ![r] = Max({confirmed[r], m.ver})]
      /\ muts' = muts \ {m}
      /\ Become(qs, u)
      /\ UNCHANGED <<scenario, wake, network, srv, clicks, applied>>
  BY <1>1, <1>2, <1>3, Zenon DEF Succeeds
<1>6. overtaken' = overtaken \cup
        {k \in scenario.keys : Resource(k) = r /\ qs[k].phase = "answered"
                               /\ (k \notin Observed(ui) \/ qs[k].data = Nothing)}
  BY <1>1, <1>2, Zenon DEF Succeeds
<1>7. UNCHANGED <<online, visible, errors>> /\ ui' = u
  BY <1>5 DEF network, Become
<1>8. PageOK' /\ NetOK'
  <2>1. u \in Components
    BY <1>3, MutationIs, CallbackIs DEF IInv, PageOK
  <2> QED BY <1>5, <1>7, <2>1 DEF IInv, PageOK, NetOK
<1>9. PICK c \in Nat : c = confirmed[r] /\ c <= srv[r].ver /\ srv[r].ver \in 1..MAX_VERSION
  BY DEF IInv, ServerOK
<1>10. PICK d \in Nat : /\ d = Max({c, m.ver}) /\ c <= d /\ d <= srv[r].ver
                        /\ confirmed' = [confirmed EXCEPT ![r] = d]
  <2>1. PICK x \in Nat : x = m.ver /\ x <= srv[r].ver
    BY <1>1, MutationIs
  <2>2. PICK d : d = Max({c, x})
    OBVIOUS
  <2>3. d = IF c >= x THEN c ELSE x
    BY <2>2, MaxOfTwo
  <2>4. d \in Nat /\ c <= d /\ d <= srv[r].ver
    BY <1>9, <2>1, <2>3
  <2>5. confirmed' = [confirmed EXCEPT ![r] = d]
    BY <1>5, <1>9, <2>1, <2>2, Zenon
  <2> QED BY <2>1, <2>2, <2>4, <2>5, Zenon
<1>11. ServerOK' /\ \A s \in Followed : srv'[s].ver \in Nat /\ srv[s].ver <= srv'[s].ver
  <2>1. Followed' = Followed
    BY <1>5 DEF Followed
  <2>2. d \in 0..MAX_VERSION
    BY <1>9, <1>10, Constants
  <2>3. confirmed' \in [Followed -> 0..MAX_VERSION]
    BY <1>10, <2>2 DEF IInv, ServerOK
  <2>4. \A s \in Followed : confirmed'[s] <= srv[s].ver
    BY <1>10 DEF IInv, ServerOK
  <2>5. \A s \in Followed : srv'[s].ver \in Nat /\ srv[s].ver <= srv'[s].ver
    BY <1>5 DEF IInv, ServerOK
  <2> QED BY <1>5, <2>1, <2>3, <2>4, <2>5, Zenon DEF IInv, ServerOK
<1>12. MutationsOK'
  <2>1. PICK N : N = {}
    BY Zenon
  <2>2. muts' = (muts \ {m}) \cup N
    BY <1>5, <2>1
  <2> QED BY <1>5, <1>11, <2>1, <2>2, MutationSettles DEF IInv
<1>13. \A k \in scenario.keys : Keeps(query[k], qs[k]) /\ Sound(qs[k])
  BY <1>2, InvalidatedIs DEF Keeps
<1>14. AllKept(qs)
  BY <1>5, <1>13, BecomeKeeps, Zenon DEF IInv, NetOK
<1>15. ASSUME NEW k \in scenario.keys
       PROVE  /\ query'[k] \in Query
              /\ Known(query'[k], srv'[Resource(k)].ver)
              /\ k \notin overtaken' => Current(query'[k], confirmed'[Resource(k)])
  <2>1. PICK q \in Query : q = query[k] /\ Known(q, srv[Resource(k)].ver)
                           /\ (k \notin overtaken => Current(q, confirmed[Resource(k)]))
    BY QueryFacts
  <2>2. PICK i \in Query : i = qs[k] /\ Keeps(q, i)
    BY <1>13, <2>1, Zenon DEF Sound
  <2>3. PICK p \in Query : p = query'[k] /\ Keeps(i, p)
    BY <1>14, <2>2 DEF AllKept, Keeps, Sound
  <2>4. Known(p, srv[Resource(k)].ver)
    BY <2>1, <2>2, <2>3, KeepsRecent
  <2>5. ASSUME k \notin overtaken', Resource(k) # r
        PROVE  Current(p, confirmed'[Resource(k)])
    <3>1. Current(q, confirmed[Resource(k)])
      BY <1>6, <2>1, <2>5
    <3>2. confirmed'[Resource(k)] = confirmed[Resource(k)]
      BY <1>10, <2>5, QueryFacts, Zenon DEF IInv, ServerOK
    <3> QED BY <2>2, <2>3, <3>1, <3>2, KeepsRecent, Zenon
  <2>6. ASSUME k \notin overtaken', Resource(k) = r
        PROVE  Current(p, confirmed'[Resource(k)])
    <3>1. /\ i.data # Nothing => i.invalid
          /\ i.phase = "answered" => k \notin Observed(ui) \/ i.data = Nothing
      BY <1>2, <2>2, <2>6, InvalidatedIs, Zenon
    <3>2. i.phase # "answered"
      BY <1>6, <2>2, <2>6, <3>1
    <3>3. Current(i, confirmed'[Resource(k)])
      BY <3>1, <3>2 DEF Current
    <3> QED BY <2>2, <2>3, <3>3, KeepsRecent, Zenon
  <2> QED BY <1>5, <2>3, <2>4, <2>5, <2>6, Zenon
<1>16. \A s \in stray' : s.key \in scenario.keys /\ s.reply \in Payload
  <2>1. R \subseteq scenario.keys
    BY <1>4, ObservedIn
  <2> QED BY <1>4, <2>1, CancelledIs DEF IInv, QueriesOK
<1>17. QueriesOK'
  <2>1. query' \in [scenario.keys -> Query]
    BY <1>14, <1>15 DEF AllKept
  <2>2. overtaken' \subseteq scenario.keys
    BY <1>6, Zenon DEF IInv, QueriesOK
  <2> QED BY <1>5, <1>15, <1>16, <2>1, <2>2, Zenon DEF QueriesOK, Query
<1> QED BY <1>8, <1>11, <1>12, <1>17 DEF IInv

\* A mutation is reported as failed.
LEMMA FailsStep ==
  ASSUME IInv, NEW m \in muts, Fails(m)
  PROVE  IInv'
<1>1. PICK u : u = (IF m.listened THEN onError(ui) ELSE ui)
  OBVIOUS
<1>2. u \in Components
  BY <1>1, MutationIs, CallbackIs DEF IInv, PageOK
<1>3. Become(query, u) /\ muts' = muts \ {m}
      /\ UNCHANGED <<scenario, stray, wake, network, srv, clicks, history>>
  BY <1>1 DEF Fails
<1>4. UNCHANGED <<applied, confirmed>>
  BY <1>3 DEF history
<1>5. \A s \in Followed : srv'[s].ver \in Nat /\ srv[s].ver <= srv'[s].ver
  BY <1>3, <1>4, ServerRests
<1>6. MutationsOK'
  <2>1. PICK N : N = {}
    BY Zenon
  <2>2. muts' = (muts \ {m}) \cup N
    BY <1>3, <2>1
  <2> QED BY <1>3, <1>4, <1>5, <2>1, <2>2, MutationSettles DEF IInv
<1> QED BY <1>2, <1>3, <1>6, TurnStep

-----------------------------------------------------------------------------
\* The network and the window

\* Held mutations are sent; the queries will hear of the event after them.
LEMMA AnnounceStep ==
  ASSUME IInv, NEW event \in {"online", "visible"}, Announce(event), {online', visible'} \subseteq BOOLEAN
  PROVE  IInv'
<1>1. UNCHANGED <<ui, scenario, query, stray, errors, srv, clicks, applied, confirmed, overtaken>>
  BY DEF Announce, page, history
<1>2. ServerOK' /\ QueriesOK'
  BY <1>1, ServerRests, QueriesRest
<1>3. PageOK' /\ NetOK'
  BY <1>1 DEF IInv, PageOK, NetOK
<1>4. Held \subseteq 1..clicks
  BY DEF Held, IInv, MutationsOK
<1>5. \A w \in wake' : w.event \in {"online", "visible"} /\ w.after \subseteq 1..clicks
  <2>1. PICK a : a = (IF online' THEN Held ELSE {}) /\ a \subseteq 1..clicks
    BY <1>4, Zenon
  <2>2. PICK e : e = [event |-> event, after |-> a]
    BY Zenon
  <2>3. wake' = wake \cup {e}
    BY <2>1, <2>2 DEF Announce
  <2>4. e.event = event /\ e.after = a
    BY <2>2
  <2> QED BY <2>1, <2>3, <2>4, Zenon DEF IInv, MutationsOK
<1>6. PICK f : /\ f \in [muts -> Mutation] /\ muts' = {f[m] : m \in muts}
               /\ \A m \in muts : /\ f[m].id = m.id /\ f[m].kind = m.kind /\ f[m].ver = m.ver
                                  /\ f[m].st \in {"held", "sent"} <=> m.st \in {"held", "sent"}
  <2>1. muts \subseteq Mutation
    BY DEF IInv, MutationsOK
  <2>2. CASE online' /\ visible'
    <3>1. PICK f : f = [m \in muts |-> [m EXCEPT !.st = IF m.st = "held" THEN "sent" ELSE m.st]]
      BY Zenon
    <3>2. ASSUME NEW m \in muts
          PROVE  /\ f[m] \in Mutation /\ f[m].id = m.id /\ f[m].kind = m.kind /\ f[m].ver = m.ver
                 /\ f[m].st \in {"held", "sent"} <=> m.st \in {"held", "sent"}
      <4>1. PICK s : s = (IF m.st = "held" THEN "sent" ELSE m.st)
        OBVIOUS
      <4>2. m \in Mutation /\ s \in {"held", "sent", "done", "failed"}
        BY <2>1, <4>1 DEF Mutation
      <4>3. PICK n : n = [m EXCEPT !.st = s]
        BY Zenon
      <4>4. n \in Mutation /\ n.id = m.id /\ n.kind = m.kind /\ n.ver = m.ver /\ n.st = s
        BY <4>2, <4>3 DEF Mutation
      <4>5. f[m] = n
        BY <3>1, <4>1, <4>3
      <4> QED BY <4>1, <4>4, <4>5
    <3>3. muts' = {f[m] : m \in muts}
      BY <2>2, <3>1 DEF Announce
    <3>4. f \in [muts -> Mutation]
      BY <3>1, <3>2, Zenon
    <3> QED BY <3>2, <3>3, <3>4
  <2>3. CASE ~(online' /\ visible')
    <3>1. PICK f : f = [m \in muts |-> m]
      BY Zenon
    <3>2. muts' = muts
      BY <2>3 DEF Announce
    <3> QED BY <2>1, <3>1, <3>2
  <2> QED BY <2>2, <2>3
<1>7. MutationsOK'
  BY <1>1, <1>5, <1>6, MutationsMove DEF IInv
<1> QED BY <1>2, <1>3, <1>7 DEF IInv

\* The network and the window come and go.
LEMMA EnvironmentStep ==
  ASSUME IInv, Environment
  PROVE  IInv'
<1>1. {online, visible} \subseteq BOOLEAN
  BY DEF IInv, NetOK
<1>2. CASE GoOnline
  BY <1>1, <1>2, AnnounceStep DEF GoOnline
<1>3. CASE Show
  BY <1>1, <1>3, AnnounceStep DEF Show
<1>4. CASE GoOffline \/ Hide
  <2>1. /\ UNCHANGED <<ui, scenario, query, stray, muts, wake, errors, srv, clicks, applied, confirmed,
                       overtaken>>
        /\ {online', visible'} \subseteq BOOLEAN
    BY <1>1, <1>4, Zenon DEF GoOffline, Hide, page, client, history
  <2>2. ServerOK' /\ QueriesOK'
    BY <2>1, ServerRests, QueriesRest
  <2>3. PageOK' /\ NetOK'
    BY <2>1 DEF IInv, PageOK, NetOK
  <2>4. MutationsOK'
    BY <2>1, MutationsRest DEF IInv
  <2> QED BY <2>2, <2>3, <2>4 DEF IInv
<1>5. CASE \E r \in Followed : Change(r)
  BY <1>5, ChangeStep
<1> QED BY <1>2, <1>3, <1>4, <1>5 DEF Environment

-----------------------------------------------------------------------------
\* The invariant

\* A step that changes nothing.
LEMMA StutterStep ==
  ASSUME IInv, UNCHANGED vars
  PROVE  IInv'
<1>1. UNCHANGED <<ui, scenario, query, stray, muts, wake, online, visible, errors, srv, clicks, applied,
                  confirmed, overtaken>>
  BY DEF vars, page, client, network, history
<1>2. ServerOK' /\ QueriesOK'
  BY <1>1, ServerRests, QueriesRest
<1>3. PageOK' /\ NetOK'
  BY <1>1 DEF IInv, PageOK, NetOK
<1>4. MutationsOK'
  BY <1>1, MutationsRest DEF IInv
<1> QED BY <1>2, <1>3, <1>4 DEF IInv

\* The dashboard is opened.
LEMMA InitHolds ==
  ASSUME Init
  PROVE  IInv
<1>1. scenario \in Scenarios /\ scenario.errors \in Nat /\ scenario.clicks \in Nat
      /\ scenario.changes \in Nat
  BY Constants DEF Init
<1>2. PageOK
  BY <1>1, MountedIs DEF Init, PageOK, Tabs
<1>3. NetOK
  BY <1>1 DEF Init, NetOK
<1>4. ServerOK
  <2>1. [ver |-> 1, size |-> 1] \in [ver : 1..MAX_VERSION, size : 0..MAX_PAGE]
    BY Constants
  <2>2. srv \in [Followed -> [ver : 1..MAX_VERSION, size : 0..MAX_PAGE]]
        /\ \A r \in Followed : srv[r].ver = 1
    BY <2>1 DEF Init
  <2>3. confirmed \in [Followed -> 0..MAX_VERSION] /\ \A r \in Followed : confirmed[r] = 0
    BY Constants DEF Init
  <2> QED BY <1>1, <2>2, <2>3 DEF Init, ServerOK
<1>5. MutationsOK
  <2>1. Unsettled = {}
    BY DEF Init, Unsettled
  <2>2. Cardinality(Unsettled) = 0
    BY <2>1, FS_EmptySet
  <2> QED BY <1>1, <2>2 DEF Init, MutationsOK
<1>6. QueriesOK
  <2>1. PICK n : n = QC!NewQuery /\ Sound(n) /\ n.data = Nothing /\ n.phase = "none"
    BY New
  <2>2. PICK b : b = QC!Begin(n, TRUE) /\ Keeps(n, b) /\ b.phase # "answered"
    BY <2>1, BeginKeeps, Zenon
  <2>3. n \in Query /\ b \in Query /\ b.data = Nothing
    BY <2>1, <2>2, Zenon DEF Keeps, Sound
  <2>4. query = [k \in scenario.keys |-> IF k \in Observed(ui) THEN b ELSE n]
    BY <2>1, <2>2, Zenon DEF Init
  <2>5. \A k \in scenario.keys : query[k] \in {n, b}
    BY <2>4
  <2>6. query \in [scenario.keys -> Query]
    BY <2>3, <2>4
  <2>7. ASSUME NEW k \in scenario.keys
        PROVE  /\ Known(query[k], srv[Resource(k)].ver)
               /\ Current(query[k], confirmed[Resource(k)])
    <3>1. PICK p : p = query[k] /\ p.data = Nothing /\ p.phase # "answered"
      BY <2>1, <2>2, <2>3, <2>5, Zenon
    <3>2. 0 <= srv[Resource(k)].ver
      BY <1>4 DEF Followed, ServerOK
    <3>3. Known(p, srv[Resource(k)].ver)
      BY <3>1, <3>2, NothingIs DEF Known
    <3>4. Current(p, confirmed[Resource(k)])
      BY <3>1 DEF Current
    <3> QED BY <3>1, <3>3, <3>4
  <2> QED BY <2>6, <2>7, Zenon DEF QueriesOK, Query, Init
<1> QED BY <1>2, <1>3, <1>4, <1>5, <1>6 DEF IInv

\* Every step keeps the invariant.
LEMMA StepHolds ==
  ASSUME IInv, [Next]_vars
  PROVE  IInv'
<1>1. CASE User
  <2>1. CASE handleFlush \/ handleAdd \/ handleDelete
    <3>1. PICK kind \in Kinds : mutate(kind)
      BY <2>1 DEF handleFlush, handleAdd, handleDelete, Kinds
    <3> QED BY <3>1, MutateStep
  <2>2. CASE Refetch
    BY <2>2, RefetchStep
  <2> QED BY <1>1, <2>1, <2>2, SelectStep, ControlsStep DEF User
<1>2. CASE \E k \in scenario.keys : Poll(k) \/ Attend(k) \/ Gc(k)
  BY <1>2, FetchStep, ServeStep, ReceiveStep, GcStep DEF Attend
<1>3. CASE \E m \in muts : Settle(m)
  BY <1>3, ApplyStep, RefuseStep, SucceedsStep, FailsStep DEF Settle
<1>4. CASE StrayArrives \/ WakeQueries \/ OverviewThrows
  BY <1>4, StrayStep, WakeStep, ControlsStep
<1>5. CASE Environment
  BY <1>5, EnvironmentStep
<1>6. CASE UNCHANGED vars
  BY <1>6, StutterStep
<1> QED BY <1>1, <1>2, <1>3, <1>4, <1>5, <1>6 DEF Next

\* The invariant holds in every behaviour of the dashboard.
THEOREM Invariance == Spec => []IInv
<1>1. Init => IInv
  BY InitHolds
<1>2. IInv /\ [Next]_vars => IInv'
  BY StepHolds
<1> QED BY <1>1, <1>2, PTL DEF Spec

\* Every variable keeps its type, and with it the bounds hold: no resource changes more
\* often than its versions can count.
THEOREM DashboardTypes == Spec => []TypeOK
<1>1. IInv => TypeOK
  BY Zenon DEF IInv, PageOK, NetOK, ServerOK, MutationsOK, QueriesOK, TypeOK
<1> QED BY <1>1, Invariance, PTL

\* The server carries out no more changes than buttons were pressed, for any number of
\* clicks, failures and disturbances.
THEOREM MutationsAtMostOnce == Spec => []AtMostOnce
<1>1. IInv => AtMostOnce
  BY AppliedBound DEF IInv, AtMostOnce
<1> QED BY <1>1, Invariance, PTL

\* Data shown as current is not older than what a mutation reported as done, but for
\* replies that were already on their way.
THEOREM ConfirmedIsFresh == Spec => []FreshAfterConfirm
<1>1. ASSUME IInv
      PROVE  FreshAfterConfirm
  <2>1. SUFFICES ASSUME NEW k \in Observed(ui) \ overtaken, query[k].data # Nothing, ~query[k].invalid
                 PROVE  query[k].data.ver >= confirmed[Resource(k)]
    BY Zenon DEF FreshAfterConfirm
  <2>2. k \in scenario.keys
    BY ObservedIn
  <2>3. Current(query[k], confirmed[Resource(k)]) /\ query[k].data.ver \in Nat
        /\ confirmed[Resource(k)] \in Nat
    BY <1>1, <2>1, <2>2, QueryFacts, Zenon
  <2> QED BY <2>1, <2>3, Zenon DEF Current
<1> QED BY <1>1, Invariance, PTL

\* Only a reply that is taken and a query that is forgotten change what a query has.
LEMMA DataStays ==
  ASSUME IInv, [Next]_vars, NEW k \in scenario.keys
  PROVE  query'[k].data = query[k].data \/ Receive(k) \/ Gc(k)
<1>1. AllKept(query) => query'[k].data = query[k].data
  BY DEF AllKept, Keeps
<1>2. /\ \A j \in scenario.keys : Sound(query[j])
      /\ online \in BOOLEAN /\ query \in [scenario.keys -> Query]
  BY QueriesSound, Zenon DEF IInv, NetOK, QueriesOK, Query
<1>3. ASSUME NEW u, Become(query, u)
      PROVE  query'[k].data = query[k].data
  BY <1>1, <1>2, <1>3, BecomeKeeps
<1>4. CASE User \/ OverviewThrows
  <2>1. CASE Refetch
    BY <1>1, <2>1, RefetchKept
  <2>2. CASE handleFlush \/ handleAdd \/ handleDelete
    BY <2>2, Zenon DEF handleFlush, handleAdd, handleDelete, mutate
  <2>3. CASE ~Refetch /\ ~(handleFlush \/ handleAdd \/ handleDelete)
    <3>1. \E u : Turn(u)
      BY <1>4, <2>3, Zenon DEF User, SelectTab, SelectSubTab, SetPage, SetFilter, SetDialog, SetSearch,
                               ToggleAuto, TypeRule, HideSnackbar, OverviewThrows
    <3> QED BY <1>3, <3>1 DEF Turn
  <2> QED BY <2>1, <2>2, <2>3
<1>5. CASE \E j \in scenario.keys : Poll(j) \/ FetchFails(j) \/ RetryDelayOver(j)
  BY <1>1, <1>5, FetchKept
<1>6. ASSUME NEW j \in scenario.keys, Serve(j)
      PROVE  query'[k].data = query[k].data
  <2>1. query' = [query EXCEPT ![j] = [[query[j] EXCEPT !.phase = "answered"]
                                         EXCEPT !.reply = srv[Resource(j)]]]
    BY <1>2, <1>6, Zenon DEF Serve
  <2>2. query[k] \in Query
    BY <1>2
  <2> QED BY <1>2, <2>1, <2>2 DEF Query, QC!Query
<1>7. ASSUME NEW j \in scenario.keys, Receive(j) \/ Gc(j)
      PROVE  j = k \/ query'[k] = query[k]
  BY <1>2, <1>7, Zenon DEF Receive, Gc
<1>8. ASSUME NEW m \in muts, Settle(m)
      PROVE  query'[k].data = query[k].data
  <2>1. CASE Apply(m) \/ Refuse(m)
    BY <2>1 DEF Apply, Refuse
  <2>2. CASE Succeeds(m)
    <3>1. PICK r : r = Target(m.kind)
      OBVIOUS
    <3>2. PICK qs : qs = invalidateQueries(r)
      OBVIOUS
    <3>3. PICK u : Become(qs, u)
      BY <2>2, <3>1, <3>2, Zenon DEF Succeeds
    <3>4. \A j \in scenario.keys : Keeps(query[j], qs[j]) /\ Sound(qs[j])
      BY <3>2, InvalidatedIs, Zenon DEF Keeps
    <3>5. AllKept(qs)
      BY <1>2, <3>3, <3>4, BecomeKeeps
    <3> QED BY <3>4, <3>5 DEF AllKept, Keeps
  <2>3. CASE Fails(m)
    BY <1>3, <2>3, Zenon DEF Fails
  <2> QED BY <1>8, <2>1, <2>2, <2>3, Zenon DEF Settle
<1>9. CASE StrayArrives
  BY <1>9 DEF StrayArrives
<1>10. CASE WakeQueries
  BY <1>1, <1>10, WakeKept
<1>11. CASE Environment
  BY <1>11 DEF Environment, GoOnline, GoOffline, Show, Hide, Announce, Change, client
<1>12. CASE UNCHANGED vars
  BY <1>12 DEF vars, client
<1> QED BY <1>4, <1>5, <1>6, <1>7, <1>8, <1>9, <1>10, <1>11, <1>12, Zenon DEF Next, Attend

\* The rows of a query never go back to an earlier version: the reply that is taken is
\* no older than what the query has.
THEOREM RowsNeverBackwards == Spec => NeverBackwards
<1>1. ASSUME IInv, [Next]_vars, NEW k \in scenario.keys, query'[k].data.ver < query[k].data.ver
      PROVE  query'[k] = QC!NewQuery
  <2>1. query[k].data.ver \in Nat /\ query[k].reply.ver \in Nat /\ query[k].reply \in Payload
        /\ Known(query[k], srv[Resource(k)].ver) /\ query \in [scenario.keys -> Query]
    BY <1>1, QueryFacts, Zenon DEF IInv, QueriesOK, Query
  <2>2. CASE query'[k].data = query[k].data
    BY <1>1, <2>1, <2>2
  <2>3. CASE Receive(k)
    <3>1. PICK p : p = QC!setData(query[k], query[k].reply)
      OBVIOUS
    <3>2. query'[k] = p
      BY <2>1, <2>3, <3>1, Zenon DEF Receive
    <3>3. p.data = query[k].reply
      BY <2>1, <3>1, SetDataIs, Zenon
    <3>4. query[k].data.ver <= query[k].reply.ver
      BY <2>1, <2>3 DEF Receive, Known
    <3> QED BY <1>1, <2>1, <3>2, <3>3, <3>4
  <2>4. CASE Gc(k)
    BY <2>1, <2>4 DEF Gc
  <2> QED BY <1>1, <2>2, <2>3, <2>4, DataStays
<1>2. IInv /\ [Next]_vars =>
        [\A k \in scenario.keys :
           query'[k].data.ver < query[k].data.ver => query'[k] = QC!NewQuery]_vars
  BY <1>1
<1> QED BY <1>2, Invariance, PTL DEF Spec, NeverBackwards

=============================================================================
