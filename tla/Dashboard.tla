----------------------------- MODULE Dashboard -----------------------------
(***************************************************************************)
(* The dashboard (src/webui/src): tabs that mount and unmount their         *)
(* queries, polling, filters and pages that are part of the query keys,     *)
(* mutations with their callbacks, and the API server as far as the         *)
(* dashboard can tell: versions of the resources it lists.                  *)
(*                                                                         *)
(* The rows of a resource are abstracted to a version and a size: pages of  *)
(* cache entries, some or no rows of anything else.  Layout, wording and    *)
(* number formats are left out, and so is the drawer of small screens.      *)
(***************************************************************************)
EXTENDS Integers, Sequences, FiniteSets, FiniteSetsExt

CONSTANTS
  Scenarios,   \* what a behaviour may do: see Scenario
  Filters,     \* what the filters of the query log may be set to
  NoFilter,    \* all three are empty
  MAX_VERSION, \* bound: how often a resource changes
  MAX_PAGE     \* bound: pages of cache entries

VARIABLES
  scenario,  \* the scenario of this behaviour, fixed by Init
  ui,        \* the state of the mounted components
  query,     \* the query cache
  stray,     \* replies on the way to fetches that were cancelled
  muts,      \* the mutations in flight
  online,    \* what onlineManager says
  visible,   \* what focusManager says
  wake,      \* events the query cache has still to hear of
  srv,       \* the resources of the server
  errors,    \* bound: requests that may still fail
  clicks,    \* buttons pressed that start a mutation
  applied,   \* history: mutations the server has carried out
  confirmed, \* history: per resource, the version a mutation reported as done
  overtaken  \* history: queries whose reply was on its way when they were invalidated

page == <<ui, scenario>>
client == <<query, stray, muts, wake>>
network == <<online, visible, errors>>
history == <<applied, confirmed, overtaken>>
vars == <<page, client, network, srv, clicks, history>>

-----------------------------------------------------------------------------
\* The hooks of lib/api.ts

Tabs == {"overview", "upstream", "cache", "rules", "querylog"}
Resources == {"stats", "caches", "cache-config", "nameservers", "query-log",
              "top-domains", "clients", "listeners", "addresses", "forwards"}

\* Query keys.  A page of the cache stands for an offset and the limit 50.
useStats == <<"stats">>
useCaches(p) == <<"caches", p>>
useCacheConfig == <<"cache-config">>
useNameservers == <<"nameservers">>
useTopDomains == <<"top-domains">>
useClients == <<"clients">>
useListeners == <<"listeners">>
useAddresses == <<"addresses">>
useForwards == <<"forwards">>
useQueryLog(f, auto) == <<"query-log", f, auto>>

Keys ==
  {useStats, useCacheConfig, useNameservers, useTopDomains, useClients,
   useListeners, useAddresses, useForwards}
    \cup {useCaches(p) : p \in 1..MAX_PAGE}
    \cup {useQueryLog(f, a) : f \in Filters, a \in BOOLEAN}

Resource(k) == k[1]

\* Mutant of Polled: the caches are read once.
PollsNoCache(k) ==
  \/ k[1] \in {"stats", "nameservers", "top-domains", "clients"}
  \/ k[1] = "query-log" /\ k[3]

\* Queries with a refetchInterval.
Polled(k) ==
  \/ k[1] \in {"stats", "caches", "nameservers", "top-domains", "clients"}
  \/ k[1] = "query-log" /\ k[3]

\* What a GET returns.
Payload == [ver : 0..MAX_VERSION, size : 0..MAX_PAGE]
Nothing == [ver |-> 0, size |-> 0]

QC == INSTANCE QueryClient WITH NoData <- Nothing, RETRY <- 1

\* A scenario: the queries that are followed (queries do not influence each other),
\* the tabs that are visited, whether the network and the window come and go; bounds:
\* requests that fail, changes of the server, mutations started.
Scenario ==
  [keys : SUBSET Keys, tabs : SUBSET Tabs, disturbed : BOOLEAN, errors : Nat,
   changes : Nat, clicks : Nat]

ASSUME DashboardAssumption ==
  /\ Scenarios \subseteq Scenario
  /\ \A s \in Scenarios : s.changes + s.clicks < MAX_VERSION
  /\ NoFilter \in Filters
  /\ MAX_VERSION \in Nat \ {0, 1}
  /\ MAX_PAGE \in Nat \ {0, 1}

-----------------------------------------------------------------------------
\* Components

Components ==
  [tab : Tabs \cup {"none"}, sub : {"address", "forward"}, page : 1..MAX_PAGE,
   search : BOOLEAN, filter : Filters, auto : BOOLEAN, dialog : BOOLEAN,
   filled : BOOLEAN, snackbar : {"none", "success", "error"}]

\* The state a tab is mounted with.  No tab: the page has crashed.
Mounted(tab) ==
  [tab |-> tab, sub |-> "address", page |-> 1, search |-> FALSE,
   filter |-> NoFilter, auto |-> TRUE, dialog |-> FALSE, filled |-> FALSE,
   snackbar |-> "none"]

\* The queries a page observes.
Observes(u) ==
  CASE u.tab = "overview" -> {useStats, useCaches(1), useTopDomains, useClients}
    [] u.tab = "upstream" -> {useNameservers, useListeners}
    [] u.tab = "cache" -> {useCaches(u.page), useCacheConfig}
    [] u.tab = "rules" -> IF u.sub = "address" THEN {useAddresses} ELSE {useForwards}
    [] u.tab = "querylog" -> {useQueryLog(u.filter, u.auto)}
    [] u.tab = "none" -> {}
Observed(u) == Observes(u) \cap scenario.keys
Followed == {Resource(k) : k \in scenario.keys}

\* A mutation: where its request is (held: not sent yet, for want of a network), the
\* version it gave its resource, whether the component that started it is mounted.
Kinds == {"flush", "create", "delete"}
Mutation ==
  [id : Nat, kind : Kinds, st : {"held", "sent", "done", "failed"},
   ver : 0..MAX_VERSION, listened : BOOLEAN]
Target(kind) == IF kind = "flush" THEN "caches" ELSE "addresses"

isPending(kind) == \E m \in muts : m.kind = kind /\ m.listened

TypeOK ==
  /\ scenario \in Scenarios
  /\ ui \in Components
  /\ query \in [scenario.keys -> QC!Query(Payload)]
  /\ \A s \in stray : s.key \in scenario.keys /\ s.reply \in Payload
  /\ muts \subseteq Mutation
  /\ {online, visible} \subseteq BOOLEAN
  /\ \A w \in wake : w.event \in {"online", "visible"} /\ w.after \subseteq 1..clicks
  /\ srv \in [Followed -> [ver : 1..MAX_VERSION, size : 0..MAX_PAGE]]
  /\ errors \in 0..scenario.errors
  /\ clicks \in 0..scenario.clicks
  /\ applied \in Nat
  /\ confirmed \in [Followed -> 0..MAX_VERSION]
  /\ overtaken \subseteq scenario.keys

Init ==
  /\ scenario \in Scenarios
  /\ ui = Mounted("overview")
  /\ query = [k \in scenario.keys |->
                IF k \in Observed(ui) THEN QC!Begin(QC!NewQuery, TRUE) ELSE QC!NewQuery]
  /\ stray = {}
  /\ muts = {}
  /\ online = TRUE
  /\ visible = TRUE
  /\ wake = {}
  /\ srv = [r \in Followed |-> [ver |-> 1, size |-> 1]]
  /\ errors = scenario.errors
  /\ clicks = 0
  /\ applied = 0
  /\ confirmed = [r \in Followed |-> 0]
  /\ overtaken = {}

-----------------------------------------------------------------------------
\* What a page shows, panel by panel

Result(k) == IF k \in scenario.keys THEN query[k] ELSE QC!NewQuery

Rows(k) ==
  IF k[1] = "caches" THEN Result(k).data.size >= k[2] ELSE Result(k).data.size > 0

\* Skeleton, alert, "nothing here" or a table.
Face(k, rows) ==
  CASE QC!isLoading(Result(k)) -> "skeleton"
    [] QC!isError(Result(k)) -> "alert"
    [] OTHER -> IF rows THEN "rows" ELSE "empty"

\* The ten cards take their values from `stats!`.
MetricCards == Face(useStats, TRUE)
ChartSeries == IF Result(useStats).data.size > 0 THEN "rows" ELSE "empty"
CachePreview == Face(useCaches(1), Rows(useCaches(1)))

\* An error looks like an empty list here.
NameCounts(k) == IF Face(k, Rows(k)) = "alert" THEN "empty" ELSE Face(k, Rows(k))
TopDomainsList == NameCounts(useTopDomains)
ClientsList == NameCounts(useClients)

OverviewTab ==
  [cards |-> MetricCards, chart |-> ChartSeries, caches |-> CachePreview,
   domains |-> TopDomainsList, clients |-> ClientsList]

\* A number, 0 without data.
Counter(k) == IF QC!isLoading(Result(k)) THEN "skeleton" ELSE "rows"
UpstreamCards == [servers |-> Counter(useNameservers), ports |-> Counter(useListeners)]
ServerTable == Face(useNameservers, Rows(useNameservers))
ListenerTable == Face(useListeners, Rows(useListeners))

UpstreamTab ==
  [servers |-> UpstreamCards.servers, ports |-> UpstreamCards.ports,
   table |-> ServerTable, listeners |-> ListenerTable]

\* `search` stands for a text that no entry of the page contains.
filteredCaches(u) == Rows(useCaches(u.page)) /\ ~u.search
CacheCards == [limit |-> Counter(useCacheConfig), total |-> Counter(useCaches(ui.page))]
CacheTable == Face(useCaches(ui.page), filteredCaches(ui))

CacheTab ==
  [limit |-> CacheCards.limit, total |-> CacheCards.total, entries |-> CacheTable]

\* More than one page is needed for the control to be there.
Pages == Result(useCaches(ui.page)).data.size
Pagination == Pages > 1

AddressRulesTab == [rules |-> Face(useAddresses, Rows(useAddresses))]
ForwardRulesTab == [rules |-> Face(useForwards, Rows(useForwards))]
RulesTab == IF ui.sub = "address" THEN AddressRulesTab ELSE ForwardRulesTab

LogKey == useQueryLog(ui.filter, ui.auto)
QueryLogTab == [log |-> Face(LogKey, Rows(LogKey))]

DashboardPage ==
  CASE ui.tab = "overview" -> OverviewTab
    [] ui.tab = "upstream" -> UpstreamTab
    [] ui.tab = "cache" -> CacheTab
    [] ui.tab = "rules" -> RulesTab
    [] ui.tab = "querylog" -> QueryLogTab
    [] ui.tab = "none" -> [error |-> "alert"]

-----------------------------------------------------------------------------
\* Rendering: observers come and go

\* The queries after the page has become u.  A query that is not stale yet may have
\* become so by age: `due`.
Render(qs, u, due) ==
  LET remount == u.tab # ui.tab \/ u.sub # ui.sub
      stays == IF remount THEN {} ELSE Observed(ui) \cap Observed(u)
      Left(k) == IF k \in Observed(ui) \ stays THEN QC!removeObserver(qs[k]) ELSE qs[k]
  IN [k \in scenario.keys |->
        IF k \in Observed(u) \ stays /\ (QC!isStale(Left(k)) \/ k \in due)
        THEN QC!fetch(Left(k), online, FALSE)
        ELSE Left(k)]

Become(qs, u) ==
  /\ ui' = u
  /\ \E due \in SUBSET Observed(u) : query' = Render(qs, u, due)

\* A control that only changes the state of a component.
Turn(u) ==
  /\ u # ui
  /\ Become(query, u)
  /\ UNCHANGED <<scenario, stray, wake, network, srv, clicks, history>>

\* The dialog is modal: nothing behind it can be reached.
SelectTab(t) ==
  /\ ui.tab # "none"
  /\ t \in scenario.tabs \ {ui.tab}
  /\ ~ui.dialog
  /\ muts' = {[m EXCEPT !.listened = FALSE] : m \in muts}
  /\ Turn(Mounted(t))

SelectSubTab(s) ==
  /\ ui.tab = "rules"
  /\ ~ui.dialog
  /\ muts' = {[m EXCEPT !.listened = FALSE] : m \in muts}
  /\ Turn([Mounted("rules") EXCEPT !.sub = s])

SetPage(p) ==
  /\ ui.tab = "cache"
  /\ Pagination
  /\ p <= Pages
  /\ Turn([ui EXCEPT !.page = p])
  /\ UNCHANGED muts

SetSearch ==
  /\ ui.tab = "cache"
  /\ Turn([ui EXCEPT !.search = ~@])
  /\ UNCHANGED muts

SetFilter(f) ==
  /\ ui.tab = "querylog"
  /\ Turn([ui EXCEPT !.filter = f])
  /\ UNCHANGED muts

ToggleAuto ==
  /\ ui.tab = "querylog"
  /\ Turn([ui EXCEPT !.auto = ~@])
  /\ UNCHANGED muts

OnRules == ui.tab = "rules" /\ ui.sub = "address"

SetDialog(open) ==
  /\ OnRules
  /\ Turn([ui EXCEPT !.dialog = open])
  /\ UNCHANGED muts

TypeRule ==
  /\ OnRules
  /\ ui.dialog
  /\ Turn([ui EXCEPT !.filled = ~@])
  /\ UNCHANGED muts

HideSnackbar ==
  /\ Turn([ui EXCEPT !.snackbar = "none"])
  /\ UNCHANGED muts

\* A component that throws while it is rendered takes the page down: no error
\* boundary keeps the dashboard.
OverviewThrows ==
  /\ ui.tab = "overview"
  /\ useStats \in scenario.keys
  /\ MetricCards = "rows"
  /\ query[useStats].data = Nothing
  /\ Turn(Mounted("none"))
  /\ UNCHANGED muts

-----------------------------------------------------------------------------
\* Fetches

\* The reply of a fetch that is cancelled still arrives.
Cancelled(ks) ==
  {[key |-> k, reply |-> query[k].reply] : k \in {x \in ks : query[x].phase = "answered"}}

\* The timer of refetchInterval, which rests while the window is hidden.
Poll(k) ==
  /\ visible
  /\ k \in Observed(ui)
  /\ Polled(k)
  /\ query' = [query EXCEPT ![k] = QC!fetch(@, online, FALSE)]
  /\ UNCHANGED <<page, stray, muts, wake, network, srv, clicks, history>>

\* The refresh button of the query log.
Refetch ==
  /\ ui.tab = "querylog"
  /\ LogKey \in scenario.keys
  /\ query' = [query EXCEPT ![LogKey] = QC!fetch(@, online, TRUE)]
  /\ stray' = stray \cup IF QC!Restarts(query[LogKey], TRUE) THEN Cancelled({LogKey}) ELSE {}
  /\ UNCHANGED <<page, muts, wake, network, srv, clicks, history>>

\* The server handles the GET (external).
Serve(k) ==
  /\ query[k].phase = "sent"
  /\ query' = [query EXCEPT ![k].phase = "answered", ![k].reply = srv[Resource(k)]]
  /\ UNCHANGED <<page, stray, muts, wake, network, srv, clicks, history>>

Receive(k) ==
  /\ query[k].phase = "answered"
  /\ query' = [query EXCEPT ![k] = QC!setData(@, @.reply)]
  /\ overtaken' = IF query[k].reply.ver < confirmed[Resource(k)] THEN overtaken
                                                              ELSE overtaken \ {k}
  /\ UNCHANGED <<page, stray, muts, wake, network, srv, clicks, applied, confirmed>>

\* The request or its reply is lost, or the status is not a success: apiGet throws.
FetchFails(k) ==
  /\ query[k].phase \in {"sent", "answered"}
  /\ errors > 0
  /\ errors' = errors - 1
  /\ query' = [query EXCEPT ![k] = QC!Failed(@)]
  /\ UNCHANGED <<page, stray, muts, wake, online, visible, srv, clicks, history>>

\* Mutant of RetryDelayOver: only a page in view goes on after the delay.
SleepsWhileHidden(k) ==
  /\ query[k].phase = "sleep"
  /\ visible
  /\ query' = [query EXCEPT ![k] = QC!RetryOrPause(@, online, visible)]
  /\ UNCHANGED <<page, stray, muts, wake, network, srv, clicks, history>>

RetryDelayOver(k) ==
  /\ query[k].phase = "sleep"
  /\ query' = [query EXCEPT ![k] = QC!RetryOrPause(@, online, visible)]
  /\ UNCHANGED <<page, stray, muts, wake, network, srv, clicks, history>>

\* Mutant of StrayArrives: whatever arrives is shown until the newer reply comes.
StrayIsKept ==
  \E s \in stray :
    /\ stray' = stray \ {s}
    /\ query' = [query EXCEPT ![s.key].data = s.reply, ![s.key].status = "success",
                              ![s.key].invalid = TRUE]
    /\ UNCHANGED <<page, muts, wake, network, srv, clicks, history>>

\* A cancelled fetch has no say any more.
StrayArrives ==
  \E s \in stray :
    /\ stray' = stray \ {s}
    /\ UNCHANGED <<page, query, muts, wake, network, srv, clicks, history>>

\* A query nobody has observed for five minutes is forgotten.
Gc(k) ==
  /\ k \notin Observed(ui)
  /\ query[k].phase = "none"
  /\ query[k] # QC!NewQuery
  /\ query' = [query EXCEPT ![k] = QC!NewQuery]
  /\ overtaken' = overtaken \ {k}
  /\ UNCHANGED <<page, stray, muts, wake, network, srv, clicks, applied, confirmed>>

-----------------------------------------------------------------------------
\* Mutations

mutate(kind) ==
  /\ clicks < scenario.clicks
  /\ Target(kind) \in Followed
  /\ ~isPending(kind)
  /\ clicks' = clicks + 1
  /\ muts' = muts \cup {[id |-> clicks', kind |-> kind, ver |-> 0, listened |-> TRUE,
                         st |-> IF online THEN "sent" ELSE "held"]}
  /\ UNCHANGED <<page, query, stray, wake, network, srv, history>>

handleFlush == ui.tab = "cache" /\ mutate("flush")
handleAdd == OnRules /\ ui.dialog /\ ui.filled /\ mutate("create")
handleDelete == OnRules /\ ~ui.dialog /\ AddressRulesTab.rules = "rows" /\ mutate("delete")

\* What a mutation that took effect leaves of its resource: no entries, a rule, or
\* with a rule less, some or none.
Leaves(kind, size) ==
  CASE kind = "flush" -> {0}
    [] kind = "create" -> {1}
    [] kind = "delete" -> 0..size

\* The server carries it out (external) and says so, or its answer is lost.
Apply(m) ==
  /\ m.st = "sent"
  /\ \E size \in Leaves(m.kind, srv[Target(m.kind)].size) :
       srv' = [srv EXCEPT ![Target(m.kind)] = [ver |-> @.ver + 1, size |-> size]]
  /\ applied' = applied + 1
  /\ \/ /\ muts' = (muts \ {m}) \cup {[m EXCEPT !.st = "done", !.ver = srv'[Target(m.kind)].ver]}
        /\ UNCHANGED errors
     \/ /\ errors > 0
        /\ errors' = errors - 1
        /\ muts' = (muts \ {m}) \cup {[m EXCEPT !.st = "failed"]}
  /\ UNCHANGED <<page, query, stray, wake, online, visible, clicks, confirmed, overtaken>>

\* The server refuses it, or never hears of it.
Refuse(m) ==
  /\ m.st = "sent"
  /\ errors > 0
  /\ errors' = errors - 1
  /\ muts' = (muts \ {m}) \cup {[m EXCEPT !.st = "failed"]}
  /\ UNCHANGED <<page, query, stray, wake, online, visible, srv, clicks, history>>

\* Mutant of invalidateQueries: a fetch in flight is taken for a fresh one.
JoinsInFlight(r) ==
  [k \in scenario.keys |->
     CASE Resource(k) = r /\ k \in Observed(ui) ->
            QC!fetch(QC!invalidate(query[k]), online, FALSE)
       [] Resource(k) = r /\ k \notin Observed(ui) -> QC!invalidate(query[k])
       [] OTHER -> query[k]]

\* All queries of the resource become stale, and those on the page are fetched again.
invalidateQueries(r) ==
  [k \in scenario.keys |->
     CASE Resource(k) = r /\ k \in Observed(ui) ->
            QC!fetch(QC!invalidate(query[k]), online, TRUE)
       [] Resource(k) = r /\ k \notin Observed(ui) -> QC!invalidate(query[k])
       [] OTHER -> query[k]]

\* Mutant of onSuccess: back to the first page, counted from 0.
BackToPageZero(u, kind) ==
  CASE kind = "flush" -> [u EXCEPT !.snackbar = "success", !.page = 0]
    [] kind = "create" ->
         [u EXCEPT !.snackbar = "success", !.dialog = FALSE, !.filled = FALSE]
    [] kind = "delete" -> [u EXCEPT !.snackbar = "success"]

\* The callbacks given to mutate, which only a mounted component has.
onSuccess(u, kind) ==
  CASE kind = "flush" -> [u EXCEPT !.snackbar = "success", !.page = 1]
    [] kind = "create" ->
         [u EXCEPT !.snackbar = "success", !.dialog = FALSE, !.filled = FALSE]
    [] kind = "delete" -> [u EXCEPT !.snackbar = "success"]
onError(u) == [u EXCEPT !.snackbar = "error"]

\* Success: the queries are invalidated first, wherever the user is by now.
Succeeds(m) ==
  LET r == Target(m.kind)
      qs == invalidateQueries(r)
      Restarted == {k \in Observed(ui) : Resource(k) = r /\ qs[k].phase = "sent"}
  IN
  /\ m.st = "done"
  /\ muts' = muts \ {m}
  /\ stray' = stray \cup Cancelled(Restarted)
  /\ confirmed' = [confirmed EXCEPT ![r] = Max({@, m.ver})]
  /\ overtaken' = overtaken \cup
       {k \in scenario.keys : Resource(k) = r /\ qs[k].phase = "answered"
                             /\ (k \notin Observed(ui) \/ qs[k].data = Nothing)}
  /\ Become(qs, IF m.listened THEN onSuccess(ui, m.kind) ELSE ui)
  /\ UNCHANGED <<scenario, wake, network, srv, clicks, applied>>

\* Mutant of Fails: a request that failed is sent again, whatever became of it.
RetriesMutation(m) ==
  /\ m.st = "failed"
  /\ muts' = (muts \ {m}) \cup {[m EXCEPT !.st = "sent"]}
  /\ UNCHANGED <<page, query, stray, wake, network, srv, clicks, history>>

\* Mutations are not retried.
Fails(m) ==
  /\ m.st = "failed"
  /\ muts' = muts \ {m}
  /\ Become(query, IF m.listened THEN onError(ui) ELSE ui)
  /\ UNCHANGED <<scenario, stray, wake, network, srv, clicks, history>>

-----------------------------------------------------------------------------
\* The network and the window

Held == {m.id : m \in {x \in muts : x.st = "held"}}

\* Held mutations go on first; the queries hear of the event when these are through.
Announce(event) ==
  /\ wake' = wake \cup {[event |-> event, after |-> IF online' THEN Held ELSE {}]}
  /\ muts' = IF online' /\ visible'
             THEN {[m EXCEPT !.st = IF @ = "held" THEN "sent" ELSE @] : m \in muts}
             ELSE muts
  /\ UNCHANGED <<page, query, stray, errors, srv, clicks, history>>

GoOnline == ~online /\ online' = TRUE /\ UNCHANGED visible /\ Announce("online")
Show == ~visible /\ visible' = TRUE /\ UNCHANGED online /\ Announce("visible")

GoOffline ==
  /\ scenario.disturbed
  /\ online
  /\ online' = FALSE
  /\ UNCHANGED <<page, client, visible, errors, srv, clicks, history>>

Hide ==
  /\ scenario.disturbed
  /\ visible
  /\ visible' = FALSE
  /\ UNCHANGED <<page, client, online, errors, srv, clicks, history>>

Heard(w) == w.after \cap {m.id : m \in muts} = {}

\* Mutant of WakeQueries: a window that is back in view is not noticed, as
\* refetchOnWindowFocus is off.
WakesOnlineOnly ==
  \E w \in wake, due \in SUBSET Observed(ui) :
    /\ Heard(w)
    /\ wake' = wake \ {w}
    /\ query' = [k \in scenario.keys |->
                   IF w.event = "online" THEN QC!continue(query[k], online, visible)
                                         ELSE query[k]]
    /\ UNCHANGED <<page, stray, muts, network, srv, clicks, history>>

\* After a reconnect what is stale on the page is fetched; a paused fetch goes on.
WakeQueries ==
  \E w \in wake, due \in SUBSET Observed(ui) :
    /\ Heard(w)
    /\ wake' = wake \ {w}
    /\ query' = [k \in scenario.keys |->
                   LET again == /\ w.event = "online"
                                /\ k \in Observed(ui)
                                /\ QC!isStale(query[k]) \/ k \in due
                   IN QC!continue(IF again THEN QC!fetch(query[k], online, FALSE)
                                           ELSE query[k], online, visible)]
    /\ UNCHANGED <<page, stray, muts, network, srv, clicks, history>>

\* The server's own doing: entries come and expire, the configuration is reloaded
\* (external).
Change(r) ==
  /\ srv[r].ver <= scenario.changes + applied
  /\ \E size \in 0..(IF r = "caches" THEN MAX_PAGE ELSE 1) :
       srv' = [srv EXCEPT ![r] = [ver |-> @.ver + 1, size |-> size]]
  /\ UNCHANGED <<page, client, network, clicks, history>>

-----------------------------------------------------------------------------
User ==
  \/ \E t \in Tabs : SelectTab(t)
  \/ \E s \in {"address", "forward"} : SelectSubTab(s)
  \/ \E p \in 1..MAX_PAGE : SetPage(p)
  \/ \E f \in Filters : SetFilter(f)
  \/ \E open \in BOOLEAN : SetDialog(open)
  \/ SetSearch \/ ToggleAuto \/ TypeRule \/ HideSnackbar \/ Refetch
  \/ handleFlush \/ handleAdd \/ handleDelete

Attend(k) == Serve(k) \/ Receive(k) \/ FetchFails(k) \/ RetryDelayOver(k)
Settle(m) == Apply(m) \/ Refuse(m) \/ Succeeds(m) \/ Fails(m)

Environment ==
  GoOnline \/ GoOffline \/ Show \/ Hide \/ (\E r \in Followed : Change(r))

Next ==
  \/ User
  \/ \E k \in scenario.keys : Poll(k) \/ Attend(k) \/ Gc(k)
  \/ \E m \in muts : Settle(m)
  \/ StrayArrives \/ WakeQueries \/ OverviewThrows
  \/ Environment

\* Timers fire, replies arrive or fail, and the event loop gets to what is queued.
\* Nothing is assumed of the user, the network or the window.
Fairness ==
  /\ \A k \in UNION {s.keys : s \in Scenarios} :
       /\ WF_vars(k \in scenario.keys /\ Poll(k))
       /\ WF_vars(k \in scenario.keys /\ Attend(k))
  /\ WF_vars(\E m \in muts : Settle(m))
  /\ WF_vars(WakeQueries)

Spec == Init /\ [][Next]_vars /\ Fairness

-----------------------------------------------------------------------------
\* Properties

\* After the server confirmed a change (useFlushCache, useCreateAddress,
\* useDeleteAddress), data that is shown as current is not older than that change,
\* whatever was being fetched, polled, retried or paused at the time: only a reply
\* that had been sent before the change, to a first load or to a page left meanwhile,
\* escapes invalidateQueries.
FreshAfterConfirm ==
  \A k \in Observed(ui) \ overtaken :
    query[k].data # Nothing /\ ~query[k].invalid /\ query[k].phase = "none"
      => query[k].data.ver >= confirmed[Resource(k)]

\* However often requests fail, the network leaves or the tab is left and entered, the
\* server carries out no more changes than buttons were pressed: unlike queries,
\* mutations are not retried, and a paused one is resumed once.
AtMostOnce == applied <= clicks

\* The rows of a query never go back to an earlier version, also when a newer fetch
\* cancelled the one whose reply arrives last.
NeverBackwards ==
  [][\A k \in scenario.keys :
       query'[k].data.ver < query[k].data.ver => query'[k] = QC!NewQuery]_vars

\* A polled panel (refetchInterval) that stays in view of a connected user comes to
\* show the state of the server: no sequence of errors, pauses and cancelled fetches
\* stops its polling for good.
PolledCatchesUp ==
  <>[](online /\ visible) /\ <>[][~User]_vars
    => <>[](\A k \in Observed(ui) \cap
                 ({useStats, useNameservers, useTopDomains, useClients}
                   \cup {useCaches(p) : p \in 1..MAX_PAGE}
                   \cup {useQueryLog(f, TRUE) : f \in Filters}) :
              query[k].data.ver = srv[Resource(k)].ver)

\* No fetch stays paused while the user is connected and looking: the event that
\* would resume it waits for the mutations it resumed, and those come to an end.
NothingStaysPaused ==
  <>[](online /\ visible) => []<>(\A k \in scenario.keys : query[k].phase # "held")

\* Once the user stops clicking, no panel is left with its skeleton, be it that its
\* request failed, its retry was paused or its tab was left and entered again.
PanelsSettle ==
  <>[][~User]_vars
    => <>[](\A p \in DOMAIN DashboardPage : DashboardPage[p] # "skeleton")

\* The cards of the overview take their values from `stats!`, which says that they
\* are only rendered when there is data.
StatsPresent ==
  ui.tab = "overview" /\ useStats \in scenario.keys /\ MetricCards = "rows"
    => query[useStats].data # Nothing
=============================================================================
