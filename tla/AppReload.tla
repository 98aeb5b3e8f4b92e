----------------------------- MODULE AppReload -----------------------------
(***************************************************************************)
(* The configuration of a running server: the handlers of the HTTP API     *)
(* that change it (api/address.rs create and delete, api/config.rs         *)
(* reload), App::reload, App::update_middleware_handler and                *)
(* App::update_listeners (app.rs), and the listeners of server/mod.rs.     *)
(*                                                                         *)
(* Nothing serialises two requests: they meet in the file address.conf,    *)
(* in `cfg`, in the lock of `cache` and in the map `listeners`.  Every     *)
(* HTTP listener has a tokio runtime of its own (server/http.rs), and what *)
(* a handler spawns or binds belongs to the runtime it runs in: it goes    *)
(* when that runtime goes.                                                 *)
(*                                                                         *)
(* A configuration is what the properties tell apart: the addresses to     *)
(* bind, whether the cache is on (`cache-size` > 0) and the domains with   *)
(* an address rule.                                                        *)
(***************************************************************************)
EXTENDS Integers, Sequences, FiniteSets

CONSTANTS
  Requests,   \* requests to the API
  Domains,    \* domains an address rule may be about
  Addrs,      \* addresses to bind
  HttpAddrs,  \* those of them served over HTTP, where the API is
  Confs,      \* what the administrator may write into the configuration file
  Partial,    \* what a read of that file may leave when an error ends it early
  Cut,        \* bound: the requests whose reading of the files may end early
  BootBinds,  \* the addresses of the configuration the server was started with, in order
  BootCaching,\* whether that configuration has a cache
  Ops,        \* what each request may ask for
  After,      \* the requests whose answer the sender of a request waits for
  MAX_EDITS,  \* bound: how often the administrator edits the file
  Absent,     \* no such file
  Nobody      \* nobody holds the lock

ASSUME ReloadAssumption ==
  /\ HttpAddrs \subseteq Addrs
  /\ Confs \cup Partial \subseteq [binds : SUBSET Addrs, caching : BOOLEAN]
  /\ BootBinds \in Seq(Addrs)
  /\ \A i, j \in DOMAIN BootBinds : BootBinds[i] = BootBinds[j] => i = j
  /\ BootCaching \in BOOLEAN
  /\ Ops \in [Requests -> SUBSET [op : {"reload", "create", "delete"}, domain : Domains]]
  /\ After \in [Requests -> SUBSET Requests]
  /\ MAX_EDITS \in Nat
  /\ Nobody \notin Requests
  /\ \A rules \in SUBSET Domains : rules # Absent

ASSUME FiniteAddrs == IsFiniteSet(Addrs)

VARIABLES
  managed_dir,  \* whether there is a configuration directory, thus a managed one
  conf_file,    \* the configuration file
  address_conf, \* the rules in managed/address.conf
  cfg,          \* AppState::cfg
  mw_handler,   \* the configuration the chain of middlewares was built from
  mw_home,      \* the runtime its background tasks run in
  dns_client,   \* the configuration the upstream client was built from
  cache,        \* the configuration the exposed cache was built from
  lock,         \* who holds cache.write()
  listeners,    \* AppState::listeners: the server registered for an address, 0 for none
  servers,      \* the listeners started so far
  shutdowns,    \* spawned tasks that will cancel servers
  cancelled,    \* servers whose token is cancelled
  req,          \* the requests
  edits,        \* edits of the file so far
  alone         \* history: requests that no other one overlapped

disk == <<managed_dir, conf_file, address_conf>>
state == <<cfg, mw_handler, mw_home, dns_client, cache, lock>>
net == <<listeners, servers, shutdowns, cancelled>>
vars == <<disk, state, net, req, edits, alone>>

Config == [binds : SUBSET Addrs, caching : BOOLEAN, rules : SUBSET Domains]
Boot == [binds |-> {BootBinds[i] : i \in DOMAIN BootBinds}, caching |-> BootCaching]
Nowhere == [binds |-> {}, caching |-> FALSE, rules |-> {}]

\* A listener: its address, the runtime its task and its socket belong to (0 is the
\* main one, s the one of the HTTP listener s), and whether it still serves.
Server == [addr : Addrs, home : Nat, st : {"serving", "deaf", "gone"}]
Servers == DOMAIN servers
IsHttp(s) == servers[s].addr \in HttpAddrs

\* Where a handler is: the await it waits at, or how it ended.
Busy == {"create", "delete", "truncate", "fill", "load_file", "load_managed",
         "store_cfg", "read_cfg", "lock", "build", "store_handler", "store_client",
         "listener_cfg", "diff", "remove", "bind", "insert"}
Ended == {"ok", "exists", "not_found", "error", "aborted"}

\* What a handler keeps across its awaits, and, as history, whether it read the managed
\* rules to their end.
Request == [pc : Busy \cup Ended \cup {"idle"},
            op : {"none", "reload", "create", "delete"}, domain : Domains \cup {"none"},
            via : Nat, text : SUBSET Domains, used : Config, fresh : SUBSET Addrs,
            stale : SUBSET Addrs, failed : SUBSET Addrs, bound : Nat, seen : {"all", "part"}]

Idle == [pc |-> "idle", op |-> "none", domain |-> "none", via |-> 0, text |-> {},
         used |-> Nowhere, fresh |-> {}, stale |-> {}, failed |-> {}, bound |-> 0,
         seen |-> "all"]

TypeOK ==
  /\ managed_dir \in BOOLEAN
  /\ conf_file \in Confs \cup {Boot}
  /\ address_conf = Absent \/ address_conf \in SUBSET Domains
  /\ cfg \in Config /\ mw_handler \in Config /\ dns_client \in Config /\ cache \in Config
  /\ lock \in Requests \cup {Nobody}
  /\ mw_home \in Nat
  /\ servers \in Seq(Server)
  /\ listeners \in [Addrs -> Servers \cup {0}]
  /\ shutdowns \subseteq [home : Nat, servers : SUBSET Nat]
  /\ cancelled \subseteq Nat
  /\ req \in [Requests -> Request]
  /\ edits \in 0..MAX_EDITS
  /\ alone \subseteq Requests

-----------------------------------------------------------------------------
\* App::new and App::init: the main runtime builds the chain and binds the addresses.
Init ==
  /\ managed_dir \in BOOLEAN
  /\ conf_file = Boot
  /\ address_conf = Absent
  /\ cfg = [binds |-> Boot.binds, caching |-> Boot.caching, rules |-> {}]
  /\ mw_handler = cfg
  /\ mw_home = 0
  /\ dns_client = cfg
  /\ cache = IF Boot.caching THEN cfg ELSE Nowhere
  /\ lock = Nobody
  /\ servers = [i \in DOMAIN BootBinds |->
                  [addr |-> BootBinds[i], home |-> 0, st |-> "serving"]]
  /\ listeners = [a \in Addrs |->
       IF a \in Boot.binds THEN CHOOSE i \in DOMAIN BootBinds : BootBinds[i] = a ELSE 0]
  /\ shutdowns = {}
  /\ cancelled = {}
  /\ req = [r \in Requests |-> Idle]
  /\ edits = 0
  /\ alone = {}

Working == {r \in Requests : req[r].pc \in Busy}

\* Request r goes on at pc, with what it keeps across the await.
Goto(r, pc) == req' = [req EXCEPT ![r].pc = pc]

\* A request ends: what it held is dropped.
End(r, result) ==
  req' = [req EXCEPT ![r] = [Idle EXCEPT !.pc = result, !.op = req[r].op,
                                         !.domain = req[r].domain]]

\* A request arrives at an HTTP listener that accepts, and is routed to its handler.
Arrive(r, s, o) ==
  /\ req[r].pc = "idle"
  /\ \A p \in After[r] : req[p].pc \in Ended
  /\ IsHttp(s) /\ servers[s].st = "serving"
  /\ req' = [req EXCEPT ![r] = [Idle EXCEPT
               !.pc = IF o.op = "reload" THEN "load_file" ELSE o.op,
               !.op = o.op, !.domain = o.domain, !.via = s]]
  /\ alone' = IF Working = {} THEN alone \cup {r} ELSE alone \ Working
  /\ UNCHANGED <<disk, state, net, edits>>

\* The administrator edits the configuration file.
Edit(c) ==
  /\ edits < MAX_EDITS
  /\ conf_file # c
  /\ conf_file' = c
  /\ edits' = edits + 1
  /\ UNCHANGED <<managed_dir, address_conf, state, net, req, alone>>

-----------------------------------------------------------------------------
\* api/address.rs create and delete.

\* The rules in the file; a file that is not there has none.
Rules == IF address_conf = Absent THEN {} ELSE address_conf

\* create reads the rules; a domain that has one is an error.
Create(r) ==
  /\ req[r].pc = "create"
  /\ \/ /\ ~managed_dir
        /\ End(r, "not_found")
     \/ /\ managed_dir /\ req[r].domain \in Rules
        /\ End(r, "exists")
     \/ /\ managed_dir /\ req[r].domain \notin Rules
        /\ req' = [req EXCEPT ![r].pc = "truncate", ![r].text = Rules \cup {req[r].domain}]
  /\ UNCHANGED <<disk, state, net, edits, alone>>

\* delete reads the rules; a domain that has none is an error.
Delete(r) ==
  /\ req[r].pc = "delete"
  /\ \/ /\ ~managed_dir \/ req[r].domain \notin Rules
        /\ End(r, "not_found")
     \/ /\ managed_dir /\ req[r].domain \in Rules
        /\ req' = [req EXCEPT ![r].pc = "truncate", ![r].text = Rules \ {req[r].domain}]
  /\ UNCHANGED <<disk, state, net, edits, alone>>

\* fs::write opens the file and truncates it ...
Truncate(r) ==
  /\ req[r].pc = "truncate"
  /\ address_conf' = {}
  /\ Goto(r, "fill")
  /\ UNCHANGED <<managed_dir, conf_file, state, net, edits, alone>>

\* ... and writes from its start.  When another handler wrote in between, lines of
\* its text may be left behind the end of this one.
Fill(r) ==
  /\ req[r].pc = "fill"
  /\ \E tail \in SUBSET (Rules \ req[r].text) : address_conf' = req[r].text \cup tail
  /\ Goto(r, "load_file")
  /\ UNCHANGED <<managed_dir, conf_file, state, net, edits, alone>>

\* A file operation fails and `?` ends the handler.
IoFails(r) ==
  /\ req[r].pc \in {"create", "delete", "truncate", "fill", "load_file"}
  /\ End(r, "error")
  /\ UNCHANGED <<disk, state, net, edits, alone>>

-----------------------------------------------------------------------------
\* App::reload.

\* Mutant of LoadFile: the managed directory is forgotten.
ForgetsManaged(r) ==
  /\ req[r].pc = "load_file"
  /\ req' = [req EXCEPT ![r].pc = "store_cfg",
                        ![r].used = [binds |-> conf_file.binds,
                                     caching |-> conf_file.caching, rules |-> {}]]
  /\ UNCHANGED <<disk, state, net, edits, alone>>

\* RuntimeConfig::reload_new reads the configuration file.  A line that cannot be read
\* ends the reading, and a file that is not there is empty: neither is an error.
LoadFile(r) ==
  /\ req[r].pc = "load_file"
  /\ \E c \in {conf_file} \cup (IF r \in Cut THEN Partial ELSE {}) :
       req' = [req EXCEPT ![r].pc = "load_managed",
                          ![r].used = [binds |-> c.binds, caching |-> c.caching, rules |-> {}]]
  /\ UNCHANGED <<disk, state, net, edits, alone>>

\* The rules there are for a reload to find.
OnDisk == IF managed_dir THEN Rules ELSE {}

\* load_managed_dir then reads the managed files.  Errors of read_dir and of load_file are
\* dropped, and the lines after one that cannot be read are not seen.
LoadManaged(r) ==
  /\ req[r].pc = "load_managed"
  /\ \E rules \in {OnDisk} \cup (IF r \in Cut THEN SUBSET OnDisk ELSE {}) :
       req' = [req EXCEPT ![r].pc = "store_cfg", ![r].used.rules = rules,
                          ![r].seen = IF rules = OnDisk THEN "all" ELSE "part"]
  /\ UNCHANGED <<disk, state, net, edits, alone>>

StoreCfg(r) ==
  /\ req[r].pc = "store_cfg"
  /\ cfg' = req[r].used
  /\ Goto(r, "read_cfg")
  /\ UNCHANGED <<disk, mw_handler, mw_home, dns_client, cache, lock, net, edits, alone>>

\* update_middleware_handler takes the configuration before it has the lock ...
ReadCfg(r) ==
  /\ req[r].pc = "read_cfg"
  /\ req' = [req EXCEPT ![r].pc = "lock", ![r].used = cfg]
  /\ UNCHANGED <<disk, state, net, edits, alone>>

Lock(r) ==
  /\ req[r].pc = "lock"
  /\ lock = Nobody
  /\ lock' = r
  /\ Goto(r, "build")
  /\ UNCHANGED <<disk, cfg, mw_handler, mw_home, dns_client, cache, net, edits, alone>>

\* ... builds the client and the chain, which replaces the cache if it has one ...
BuildMiddleware(r) ==
  /\ req[r].pc = "build"
  /\ cache' = IF req[r].used.caching THEN req[r].used ELSE cache
  /\ Goto(r, "store_handler")
  /\ UNCHANGED <<disk, cfg, mw_handler, mw_home, dns_client, lock, net, edits, alone>>

\* Mutant of StoreHandler: the guard is dropped before the client is stored.
UnlocksEarly(r) ==
  /\ req[r].pc = "store_handler"
  /\ mw_handler' = req[r].used
  /\ mw_home' = req[r].via
  /\ lock' = Nobody
  /\ Goto(r, "store_client")
  /\ UNCHANGED <<disk, cfg, dns_client, cache, net, edits, alone>>

\* ... stores the chain, whose tasks were spawned in the runtime of the request ...
StoreHandler(r) ==
  /\ req[r].pc = "store_handler"
  /\ mw_handler' = req[r].used
  /\ mw_home' = req[r].via
  /\ Goto(r, "store_client")
  /\ UNCHANGED <<disk, cfg, dns_client, cache, lock, net, edits, alone>>

\* Mutant of StoreClient: the guard outlives the function.
KeepsLock(r) ==
  /\ req[r].pc = "store_client"
  /\ dns_client' = req[r].used
  /\ Goto(r, "listener_cfg")
  /\ UNCHANGED <<disk, cfg, mw_handler, mw_home, cache, lock, net, edits, alone>>

\* ... and the client, and lets go of the lock.
StoreClient(r) ==
  /\ req[r].pc = "store_client"
  /\ dns_client' = req[r].used
  /\ lock' = Nobody
  /\ Goto(r, "listener_cfg")
  /\ UNCHANGED <<disk, cfg, mw_handler, mw_home, cache, net, edits, alone>>

-----------------------------------------------------------------------------
\* App::update_listeners.

ListenerCfg(r) ==
  /\ req[r].pc = "listener_cfg"
  /\ req' = [req EXCEPT ![r].pc = "diff", ![r].used = cfg]
  /\ UNCHANGED <<disk, state, net, edits, alone>>

Registered == {a \in Addrs : listeners[a] # 0}

\* Under the read lock: what to start and what to stop.
Diff(r) ==
  /\ req[r].pc = "diff"
  /\ LET stale == Registered \ req[r].used.binds IN
       req' = [req EXCEPT ![r].pc = IF stale = {} THEN "bind" ELSE "remove",
                          ![r].fresh = req[r].used.binds \ Registered,
                          ![r].stale = stale]
  /\ UNCHANGED <<disk, state, net, edits, alone>>

\* Mutant of Remove: the map keeps what is stopped.
KeepsKeys(r) ==
  /\ req[r].pc = "remove"
  /\ shutdowns' = shutdowns \cup {[home |-> req[r].via,
                     servers |-> {listeners[a] : a \in req[r].stale \cap Registered}]}
  /\ req' = [req EXCEPT ![r].pc = "bind", ![r].stale = {}]
  /\ UNCHANGED <<disk, state, listeners, servers, cancelled, edits, alone>>

\* Under the write lock: take out what is to be stopped, and spawn its shutdown.
Remove(r) ==
  /\ req[r].pc = "remove"
  /\ shutdowns' = shutdowns \cup {[home |-> req[r].via,
                     servers |-> {listeners[a] : a \in req[r].stale \cap Registered}]}
  /\ listeners' = [a \in Addrs |-> IF a \in req[r].stale THEN 0 ELSE listeners[a]]
  /\ req' = [req EXCEPT ![r].pc = "bind", ![r].stale = {}]
  /\ UNCHANGED <<disk, state, servers, cancelled, edits, alone>>

\* server::serve: the sockets may be shared (SO_REUSEPORT), so that an address
\* another request has just bound is no error.
Bind(r, a) ==
  /\ req[r].pc = "bind"
  /\ a \in req[r].fresh
  /\ servers' = Append(servers, [addr |-> a, home |-> req[r].via, st |-> "serving"])
  /\ req' = [req EXCEPT ![r].pc = "insert", ![r].fresh = @ \ {a},
                        ![r].bound = Len(servers) + 1]
  /\ UNCHANGED <<disk, state, listeners, shutdowns, cancelled, edits, alone>>

\* Mutant of BindFails: an address that cannot be bound is tried again.
BindsAgain(r, a) ==
  /\ req[r].pc = "bind"
  /\ a \in req[r].fresh
  /\ req' = [req EXCEPT ![r].failed = @ \cup {a}]
  /\ UNCHANGED <<disk, state, net, edits, alone>>

\* server::serve fails: the error is logged.
BindFails(r, a) ==
  /\ req[r].pc = "bind"
  /\ a \in req[r].fresh
  /\ req' = [req EXCEPT ![r].fresh = @ \ {a}, ![r].failed = @ \cup {a}]
  /\ UNCHANGED <<disk, state, net, edits, alone>>

\* Mutant of Insert: the server that was registered meanwhile is forgotten.
ForgetsPrevious(r) ==
  /\ req[r].pc = "insert"
  /\ listeners' = [listeners EXCEPT ![servers[req[r].bound].addr] = req[r].bound]
  /\ req' = [req EXCEPT ![r].pc = "bind", ![r].bound = 0]
  /\ UNCHANGED <<disk, state, servers, shutdowns, cancelled, edits, alone>>

\* Register the listener; one that was registered meanwhile is shut down.
Insert(r) ==
  /\ req[r].pc = "insert"
  /\ LET s == req[r].bound
         a == servers[s].addr
     IN /\ listeners' = [listeners EXCEPT ![a] = s]
        /\ shutdowns' = IF listeners[a] = 0 THEN shutdowns
                        ELSE shutdowns \cup {[home |-> req[r].via,
                                              servers |-> {listeners[a]}]}
  /\ req' = [req EXCEPT ![r].pc = "bind", ![r].bound = 0]
  /\ UNCHANGED <<disk, state, servers, cancelled, edits, alone>>

Respond(r) ==
  /\ req[r].pc = "bind"
  /\ req[r].fresh = {}
  /\ End(r, "ok")
  /\ UNCHANGED <<disk, state, net, edits, alone>>

-----------------------------------------------------------------------------
\* A spawned shutdown cancels its servers' tokens.
Shutdown(t) ==
  /\ shutdowns' = shutdowns \ {t}
  /\ cancelled' = cancelled \cup t.servers
  /\ UNCHANGED <<disk, state, listeners, servers, req, edits, alone>>

\* Mutant of Stop: the token is only looked at when something else arrives.
StopsOnTraffic(s) ==
  /\ s \in cancelled
  /\ servers[s].st # "gone"
  /\ ~IsHttp(s) /\ Working # {}
  /\ servers' = [servers EXCEPT ![s].st = "gone"]
  /\ UNCHANGED <<disk, state, listeners, shutdowns, cancelled, req, edits, alone>>

\* A cancelled listener leaves its loop.
Stop(s) ==
  /\ s \in cancelled
  /\ servers[s].st # "gone"
  /\ ~IsHttp(s)
  /\ servers' = [servers EXCEPT ![s].st = "gone"]
  /\ UNCHANGED <<disk, state, listeners, shutdowns, cancelled, req, edits, alone>>

\* An HTTP listener that leaves its loop takes its runtime with it: the requests that
\* run there are aborted where they wait and drop what they hold, the tasks spawned
\* there are dropped, and a socket registered there is never ready again.
StopHttp(s) ==
  /\ s \in cancelled
  /\ servers[s].st # "gone"
  /\ IsHttp(s)
  /\ servers' = [t \in Servers |->
       IF t = s \/ (servers[t].home = s /\ ~IsHttp(t)) THEN [servers[t] EXCEPT !.st = "gone"]
       ELSE IF servers[t].home = s /\ servers[t].st = "serving"
              THEN [servers[t] EXCEPT !.st = "deaf"] ELSE servers[t]]
  /\ shutdowns' = {t \in shutdowns : t.home # s}
  /\ LET hit == {r \in Working : req[r].via = s} IN
       /\ req' = [r \in Requests |->
            IF r \in hit THEN [Idle EXCEPT !.pc = "aborted", !.op = req[r].op,
                                           !.domain = req[r].domain] ELSE req[r]]
       /\ lock' = IF lock \in hit THEN Nobody ELSE lock
  /\ UNCHANGED <<disk, cfg, mw_handler, mw_home, dns_client, cache, listeners,
                 cancelled, edits, alone>>

-----------------------------------------------------------------------------
Handle(r) ==
  \/ Create(r) \/ Delete(r) \/ Truncate(r) \/ Fill(r) \/ IoFails(r)
  \/ LoadFile(r) \/ LoadManaged(r) \/ StoreCfg(r)
  \/ ReadCfg(r) \/ Lock(r) \/ BuildMiddleware(r) \/ StoreHandler(r) \/ StoreClient(r)
  \/ ListenerCfg(r) \/ Diff(r) \/ Remove(r)
  \/ (\E a \in Addrs : Bind(r, a) \/ BindFails(r, a)) \/ Insert(r) \/ Respond(r)

Next ==
  \/ \E r \in Requests :
       \/ \E s \in Servers, o \in Ops[r] : Arrive(r, s, o)
       \/ Handle(r)
  \/ \E c \in Confs : Edit(c)
  \/ \E t \in shutdowns : Shutdown(t)
  \/ \E s \in Servers : Stop(s) \/ StopHttp(s)

\* tokio runs what is ready: a handler goes on, a spawned shutdown runs, a cancelled
\* listener leaves its loop.  Requests and edits need not come.
Fairness ==
  /\ \A r \in Requests : WF_vars(Handle(r))
  /\ WF_vars(\E t \in shutdowns : Shutdown(t))
  /\ WF_vars(\E s \in Servers : Stop(s) \/ StopHttp(s))

Spec == Init /\ [][Next]_vars
FairSpec == Spec /\ Fairness

-----------------------------------------------------------------------------
\* No HTTP listener, and so no runtime, was ever stopped.
RuntimesUp == \A s \in Servers : IsHttp(s) => servers[s].st = "serving"

\* The lock of the cache covers both stores of update_middleware_handler: whoever
\* looks while nobody holds it finds the chain and the client of one configuration.
HandlerMatchesClient ==
  lock = Nobody /\ (\A r \in Requests : req[r].pc # "aborted") => mw_handler = dns_client

\* The map of listeners is exact while the runtimes are up.  What is registered is
\* served, whichever way two runs of update_listeners interleave ...
RegisteredIsServed ==
  RuntimesUp => \A a \in Registered : /\ servers[listeners[a]].addr = a
                                       /\ servers[listeners[a]].st = "serving"
                                       /\ listeners[a] \notin cancelled

\* ... and what is served is registered, about to be, or about to stop: no socket is
\* left behind that no later reload could close.
NoLeakedListener ==
  RuntimesUp => \A s \in Servers : servers[s].st = "serving" =>
    \/ s \in cancelled
    \/ listeners[servers[s].addr] = s
    \/ \E r \in Requests : req[r].bound = s
    \/ \E t \in shutdowns : s \in t.servers

\* Once the requests are over, only what is registered is served, so long as the
\* runtimes are up: every listener that was taken out of the map, or replaced in it,
\* has stopped.
ListenersSettle ==
  []RuntimesUp => <>[](\A s \in Servers :
                         servers[s].st = "serving" => listeners[servers[s].addr] = s)

\* A request that met no other one, and that reports success, left the server in the
\* configuration it loaded: chain, client and listeners follow `cfg`, whatever
\* overlapping requests had left behind before.  The rule it deleted is out of force even
\* if the managed files were not read to their end (load_managed_dir reports no error);
\* the rule it created is in force if they were.
LoneReload ==
  [][\A r \in alone : req[r].pc = "bind" /\ req'[r].pc = "ok" =>
       /\ mw_handler = cfg /\ dns_client = cfg
       /\ cfg.caching => cache = cfg
       /\ Registered = cfg.binds \ req[r].failed
       /\ req[r].op = "create" /\ req[r].seen = "all" => req[r].domain \in cfg.rules
       /\ req[r].op = "delete" => req[r].domain \notin cfg.rules]_vars

\* The steps a handler may still take: a bind and an insert for every address that is
\* left, and all addresses may be before they are compared with the map.
Rank == [remove |-> 2, diff |-> 3, listener_cfg |-> 4, store_client |-> 5,
         store_handler |-> 6, build |-> 7, lock |-> 8, read_cfg |-> 9, store_cfg |-> 10,
         load_managed |-> 11, load_file |-> 12, fill |-> 13, truncate |-> 14,
         create |-> 15, delete |-> 15]
StepsLeft(q) ==
  CASE q.pc = "bind" -> 2 * Cardinality(q.fresh) + 1
    [] q.pc = "insert" -> 2 * Cardinality(q.fresh) + 2
    [] q.pc \in DOMAIN Rank -> 2 * Cardinality(Addrs) + Rank[q.pc]
    [] OTHER -> 0

\* A handler goes round no loop: whatever the others do to the files, the configuration
\* and the map it works on, each of its steps, and its end in a runtime that is
\* dropped, brings it nearer to its answer.
HandlerProgress ==
  [][\A r \in Requests : req[r].pc \in Busy /\ req'[r] # req[r] =>
       StepsLeft(req'[r]) < StepsLeft(req[r]) /\ StepsLeft(req'[r]) >= 0]_vars

\* Every request ends: no handler waits for ever for the lock of another one.
RequestsEnd == []<>(Working = {})

\* README.md:25: "File + REST API hot-reload".  Once all requests have ended and nothing
\* is left to stop, every listener of the map serves.
HotReloadServes ==
  (Working = {} /\ shutdowns = {} /\ \A s \in cancelled : servers[s].st = "gone")
    => \A a \in Registered : servers[listeners[a]].st = "serving"
=============================================================================
