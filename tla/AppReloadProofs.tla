-------------------------- MODULE AppReloadProofs --------------------------
(***************************************************************************)
(* Proofs about AppReload: for any set of requests, addresses and          *)
(* configurations, the lock of the cache keeps the chain and the client    *)
(* together, the map of listeners is exact while the runtimes are up, and  *)
(* a request that meets no other one takes effect.                         *)
(***************************************************************************)
EXTENDS AppReload, FiniteSetTheorems, TLAPS

\* The lock is held exactly from its acquisition to the store of the client.
Locked == {"build", "store_handler", "store_client"}
LockHeld == \A r \in Requests : lock = r <=> req[r].pc \in Locked

\* Chain and client differ only between their two stores.
Agree ==
  (\A r \in Requests : req[r].pc # "aborted") =>
    /\ \A r \in Requests : req[r].pc = "store_client" => mw_handler = req[r].used
    /\ (\A r \in Requests : req[r].pc # "store_client") => mw_handler = dns_client

\* A server has one owner at a time: the map, a request that has just bound it, or the
\* tasks that stop it.
Doomed(s) == s \in cancelled \/ \E t \in shutdowns : s \in t.servers

MapOK ==
  \A a \in Addrs : listeners[a] # 0 => /\ listeners[a] \in Servers
                                      /\ servers[listeners[a]].addr = a
                                      /\ ~Doomed(listeners[a])
                                      /\ \A r \in Requests : req[r].bound # listeners[a]

BoundOK ==
  \A r \in Requests :
    /\ req[r].bound # 0 <=> req[r].pc = "insert"
    /\ req[r].bound # 0 => req[r].bound \in Servers /\ ~Doomed(req[r].bound)
    /\ \A q \in Requests : q # r /\ req[q].bound = req[r].bound => req[r].bound = 0

DoomedOK == \A s : Doomed(s) => s \in Servers

\* While the runtimes are up, only a cancelled listener stops.
GoneOK == RuntimesUp => \A s \in Servers : servers[s].st # "serving" => s \in cancelled

NetInv == MapOK /\ BoundOK /\ DoomedOK /\ GoneOK /\ NoLeakedListener

\* A rule is created for a domain.
NamedOK == \A r \in Requests : req[r].pc = "create" => req[r].domain \in Domains

\* The inductive invariant.
IInv == TypeOK /\ NamedOK /\ LockHeld /\ Agree /\ NetInv

-----------------------------------------------------------------------------
\* The variables have their types at the start.
LEMMA TypesInit == Init => TypeOK
<1> SUFFICES ASSUME Init PROVE TypeOK
  OBVIOUS
<1>1. Boot \in [binds : SUBSET Addrs, caching : BOOLEAN]
  BY ReloadAssumption DEF Boot
<1>2. cfg \in Config /\ mw_handler \in Config /\ dns_client \in Config /\ cache \in Config
  <2>1. cfg \in Config
    <3>1. Boot.binds \in SUBSET Addrs /\ Boot.caching \in BOOLEAN
      BY <1>1
    <3> QED BY <3>1 DEF Init, Config
  <2>2. Nowhere \in Config
    BY DEF Config, Nowhere
  <2> QED BY <2>1, <2>2 DEF Init
<1>3. Idle \in Request
  BY DEF Idle, Request, Config, Nowhere, Busy, Ended
<1>4. servers \in Seq(Server) /\ DOMAIN servers = DOMAIN BootBinds
  <2> DEFINE n == Len(BootBinds)
             first(i) == [addr |-> BootBinds[i], home |-> 0, st |-> "serving"]
  <2>1. n \in Nat /\ DOMAIN BootBinds = 1..n /\ \A i \in 1..n : BootBinds[i] \in Addrs
    BY ReloadAssumption
  <2>2. \A i \in 1..n : first(i) \in Server
    BY <2>1 DEF Server
  <2>3. servers = [i \in 1..n |-> first(i)]
    BY <2>1 DEF Init
  <2> HIDE DEF n, first
  <2>4. servers \in Seq(Server)
    BY <2>1, <2>2, <2>3
  <2> QED BY <2>1, <2>3, <2>4
<1>5. listeners \in [Addrs -> Servers \cup {0}]
  BY <1>4 DEF Init, Servers, Boot
<1> QED BY <1>1, <1>2, <1>3, <1>4, <1>5, ReloadAssumption DEF Init, TypeOK

\* Only r changes, and stays a request.
Only(r) == req' \in [Requests -> Request] /\ \A q \in Requests : q # r => req'[q] = req[q]

\* A step of r away from the lock, the stores and the map.
Plain(r) ==
  /\ Only(r)
  /\ req[r].pc \notin Locked \cup {"insert", "aborted"}
  /\ req'[r].pc \notin Locked \cup {"insert", "aborted"}
  /\ req'[r].bound \in {0, req[r].bound}
  /\ req'[r].pc = "create" => req'[r].domain \in Domains
  /\ UNCHANGED <<mw_handler, dns_client, lock, net>>

\* A step that moves no listener keeps what is said of them.
LEMMA NetUnseen ==
  ASSUME NetInv, UNCHANGED <<listeners, servers, shutdowns, cancelled>>,
         \A q \in Requests : /\ req'[q].bound = req[q].bound
                             /\ req'[q].pc = "insert" <=> req[q].pc = "insert"
  PROVE  NetInv'
<1>1. \A s : Doomed(s)' <=> Doomed(s)
  BY DEF Doomed
<1>2. RuntimesUp' <=> RuntimesUp
  BY DEF RuntimesUp, IsHttp, Servers
<1>3. MapOK'
  BY <1>1 DEF NetInv, MapOK, Servers
<1>4. BoundOK'
  BY <1>1 DEF NetInv, BoundOK, Servers
<1>5. DoomedOK'
  BY <1>1 DEF NetInv, DoomedOK, Servers
<1>6. GoneOK'
  BY <1>2 DEF NetInv, GoneOK, Servers
<1>7. NoLeakedListener'
  BY <1>2 DEF NetInv, NoLeakedListener, Servers
<1> QED BY <1>3, <1>4, <1>5, <1>6, <1>7 DEF NetInv

\* A plain step keeps all but the types.
LEMMA PlainPreserves ==
  ASSUME IInv, NEW r \in Requests, Plain(r)
  PROVE  NamedOK' /\ LockHeld' /\ Agree' /\ NetInv'
<1>0. NamedOK'
  BY DEF IInv, NamedOK, Plain, Only
<1>1. LockHeld'
  BY DEF IInv, LockHeld, Plain, Only
<1>2. Agree'
  BY DEF IInv, Agree, Plain, Only, Locked
<1>3. req'[r].bound = req[r].bound /\ req[r].bound = 0
  BY DEF IInv, NetInv, BoundOK, Plain
<1>4. \A q \in Requests : req'[q].bound = req[q].bound /\ (req'[q].pc = "insert" <=> req[q].pc = "insert")
  BY <1>3 DEF Plain, Only
<1>5. UNCHANGED <<listeners, servers, shutdowns, cancelled>>
  BY DEF Plain, net
<1>6. NetInv'
  BY <1>4, <1>5, NetUnseen DEF IInv
<1> QED BY <1>0, <1>1, <1>2, <1>6

\* A request takes a new value.
LEMMA Becomes ==
  ASSUME TypeOK, NEW r \in Requests, NEW v \in Request, req' = [req EXCEPT ![r] = v]
  PROVE  Only(r) /\ req'[r] = v
  BY DEF TypeOK, Only

\* What a request becomes when it ends.
LEMMA EndFacts ==
  ASSUME TypeOK, NEW r \in Requests, NEW result \in Ended, End(r, result)
  PROVE  Only(r) /\ req'[r].pc = result /\ req'[r].bound = 0
<1> DEFINE v == [Idle EXCEPT !.pc = result, !.op = req[r].op, !.domain = req[r].domain]
<1>1. req[r] \in Request
  BY DEF TypeOK
<1>2. v \in Request /\ v.pc = result /\ v.bound = 0
  BY <1>1, Zenon DEF Request, Idle, Config, Nowhere
<1>3. req' = [req EXCEPT ![r] = v]
  BY DEF End
<1> HIDE DEF v
<1> QED BY <1>2, <1>3, Becomes, Zenon

\* What a request becomes when it goes on.
LEMMA GotoFacts ==
  ASSUME TypeOK, NEW r \in Requests, NEW pc \in Busy, Goto(r, pc)
  PROVE  Only(r) /\ req'[r].pc = pc
         /\ req'[r].bound = req[r].bound /\ req'[r].used = req[r].used
<1> DEFINE v == [req[r] EXCEPT !.pc = pc]
<1>1. req[r] \in Request
  BY DEF TypeOK
<1>2. v \in Request /\ v.pc = pc /\ v.bound = req[r].bound /\ v.used = req[r].used
  BY <1>1 DEF Request
<1>3. req' = [req EXCEPT ![r] = v]
  BY DEF Goto
<1> HIDE DEF v
<1> QED BY <1>2, <1>3, Becomes, Zenon

\* A plain step that keeps the types of what it writes keeps the invariant.
LEMMA PlainStep ==
  ASSUME IInv, NEW r \in Requests, Plain(r), UNCHANGED <<mw_home, cache, edits, conf_file, managed_dir>>,
         alone' \subseteq Requests, cfg' \in Config,
         address_conf' = Absent \/ address_conf' \in SUBSET Domains
  PROVE  IInv'
<1>1. TypeOK'
  BY DEF IInv, TypeOK, Plain, Only, net, Servers
<1> QED BY <1>1, PlainPreserves DEF IInv

-----------------------------------------------------------------------------
\* The steps before and after the stores.

\* A request arrives.
LEMMA ArriveStep ==
  ASSUME IInv, NEW r \in Requests, NEW s \in Servers, NEW o \in Ops[r], Arrive(r, s, o)
  PROVE  IInv'
<1> DEFINE v == [Idle EXCEPT !.pc = IF o.op = "reload" THEN "load_file" ELSE o.op,
                             !.op = o.op, !.domain = o.domain, !.via = s]
<1>1. o.op \in {"reload", "create", "delete"} /\ o.domain \in Domains /\ s \in Nat
  BY ReloadAssumption DEF IInv, TypeOK, Servers
<1>2. v \in Request /\ v.pc \in {"load_file", "create", "delete"} /\ v.bound = 0
      /\ v.domain \in Domains
  BY <1>1, Zenon DEF Request, Idle, Config, Nowhere, Busy
<1>3. req' = [req EXCEPT ![r] = v] /\ req[r].pc = "idle"
  BY DEF Arrive
<1> HIDE DEF v
<1>4. Plain(r)
  BY <1>2, <1>3, Becomes, Zenon DEF IInv, Plain, Arrive, state, net, Locked
<1> QED BY <1>4, PlainStep DEF Arrive, disk, state, IInv, TypeOK

\* A request that ends keeps the invariant ...
LEMMA EndStep ==
  ASSUME IInv, NEW r \in Requests, NEW result \in Ended \ {"aborted"}, End(r, result),
         req[r].pc \notin Locked \cup {"insert", "aborted"},
         UNCHANGED <<disk, state, net, edits, alone>>
  PROVE  IInv'
<1>1. Plain(r)
  BY EndFacts DEF IInv, Plain, state, Ended, Locked
<1> QED BY <1>1, PlainStep DEF disk, state, IInv, TypeOK

\* ... and so does one that goes on with new values.
LEMMA ValueStep ==
  ASSUME IInv, NEW r \in Requests, NEW v \in Request, req' = [req EXCEPT ![r] = v],
         req[r].pc \notin Locked \cup {"insert", "aborted"},
         v.pc \notin Locked \cup {"insert", "aborted", "create"}, v.bound = req[r].bound,
         UNCHANGED <<mw_handler, mw_home, dns_client, cache, lock, net, edits, alone,
                     conf_file, managed_dir>>,
         cfg' \in Config, address_conf' = Absent \/ address_conf' \in SUBSET Domains
  PROVE  IInv'
<1>1. Plain(r)
  BY Becomes, Zenon DEF IInv, Plain
<1> QED BY <1>1, PlainStep DEF IInv, TypeOK

\* create reads the rules, or ends.
LEMMA CreateStep ==
  ASSUME IInv, NEW r \in Requests, Create(r)
  PROVE  IInv'
<1> DEFINE v == [req[r] EXCEPT !.pc = "truncate", !.text = Rules \cup {req[r].domain}]
<1>0. UNCHANGED <<disk, state, net, edits, alone>> /\ req[r].pc = "create"
  BY DEF Create
<1>1. CASE \E result \in Ended \ {"aborted"} : End(r, result)
  BY <1>0, <1>1, EndStep DEF Locked
<1>2. CASE req' = [req EXCEPT ![r] = v]
  <2>1. req[r] \in Request /\ Rules \in SUBSET Domains /\ req[r].domain \in Domains
    BY <1>0 DEF IInv, TypeOK, Rules, NamedOK
  <2>2. v \in Request /\ v.pc = "truncate" /\ v.bound = req[r].bound
    BY <2>1, Zenon DEF Request, Busy
  <2> HIDE DEF v
  <2> QED BY <1>0, <1>2, <2>2, ValueStep, Zenon DEF disk, state, Locked, IInv, TypeOK
<1> QED BY <1>0, <1>1, <1>2, Zenon DEF Create, Ended

\* delete reads the rules, or ends.
LEMMA DeleteStep ==
  ASSUME IInv, NEW r \in Requests, Delete(r)
  PROVE  IInv'
<1> DEFINE v == [req[r] EXCEPT !.pc = "truncate", !.text = Rules \ {req[r].domain}]
<1>0. UNCHANGED <<disk, state, net, edits, alone>> /\ req[r].pc = "delete"
  BY DEF Delete
<1>1. CASE \E result \in Ended \ {"aborted"} : End(r, result)
  BY <1>0, <1>1, EndStep DEF Locked
<1>2. CASE req' = [req EXCEPT ![r] = v]
  <2>1. req[r] \in Request /\ Rules \in SUBSET Domains
    BY DEF IInv, TypeOK, Rules
  <2>2. v \in Request /\ v.pc = "truncate" /\ v.bound = req[r].bound
    BY <2>1, Zenon DEF Request, Busy
  <2> HIDE DEF v
  <2> QED BY <1>0, <1>2, <2>2, ValueStep, Zenon DEF disk, state, Locked, IInv, TypeOK
<1> QED BY <1>0, <1>1, <1>2, Zenon DEF Delete, Ended

\* The steps that only move on, and write the rules or the configuration.
LEMMA GotoStep ==
  ASSUME IInv, NEW r \in Requests,
         Truncate(r) \/ Fill(r) \/ StoreCfg(r)
  PROVE  IInv'
<1>1. PICK pc \in {"fill", "load_file", "read_cfg"} : Goto(r, pc)
  BY DEF Truncate, Fill, StoreCfg
<1> DEFINE v == [req[r] EXCEPT !.pc = pc]
<1>2. req[r] \in Request /\ Rules \in SUBSET Domains
  BY DEF IInv, TypeOK, Rules
<1>3. v \in Request /\ v.pc = pc /\ v.bound = req[r].bound
  BY <1>2 DEF Request, Busy
<1>4. req' = [req EXCEPT ![r] = v]
  BY <1>1 DEF Goto
<1> HIDE DEF v
<1>5. cfg' \in Config
  BY <1>2 DEF Truncate, Fill, StoreCfg, state, IInv, TypeOK, Request
<1>6. address_conf' = Absent \/ address_conf' \in SUBSET Domains
  BY <1>2 DEF Truncate, Fill, StoreCfg, disk, IInv, TypeOK, Request
<1>7. UNCHANGED <<mw_handler, mw_home, dns_client, cache, lock, net, edits, alone,
                  conf_file, managed_dir>>
      /\ req[r].pc \in {"truncate", "fill", "store_cfg"}
  BY DEF Truncate, Fill, StoreCfg, disk, state
<1> QED BY <1>3, <1>4, <1>5, <1>6, <1>7, ValueStep, Zenon DEF Locked

\* A handler fails on a file, or answers.
LEMMA FailStep ==
  ASSUME IInv, NEW r \in Requests, IoFails(r) \/ Respond(r)
  PROVE  IInv'
<1>1. \E result \in {"error", "ok"} : End(r, result)
  BY DEF IoFails, Respond
<1> QED BY <1>1, EndStep DEF IoFails, Respond, Locked, Ended

\* What a request has read from the configuration file ...
LEMMA FileRead ==
  ASSUME IInv, NEW r \in Requests, LoadFile(r)
  PROVE  \E c \in Config :
           req' = [req EXCEPT ![r] = [req[r] EXCEPT !.pc = "load_managed", !.used = c]]
<1>1. PICK d \in {conf_file} \cup (IF r \in Cut THEN Partial ELSE {}) :
        req' = [req EXCEPT ![r].pc = "load_managed",
                           ![r].used = [binds |-> d.binds, caching |-> d.caching, rules |-> {}]]
  BY Zenon DEF LoadFile
<1>2. d \in [binds : SUBSET Addrs, caching : BOOLEAN]
  BY ReloadAssumption DEF IInv, TypeOK, Boot
<1>3. PICK c : c = [binds |-> d.binds, caching |-> d.caching, rules |-> {}]
  BY Zenon
<1>4. c \in Config
  BY <1>2, <1>3, Zenon DEF Config
<1>5. req' = [req EXCEPT ![r] = [req[r] EXCEPT !.pc = "load_managed", !.used = c]]
  BY <1>1, <1>3, Zenon
<1> QED BY <1>4, <1>5, Zenon

\* ... and from the managed files: rules that are there, and all of them unless it was cut
\* short.
LEMMA ManagedRead ==
  ASSUME IInv, NEW r \in Requests, LoadManaged(r)
  PROVE  \E c \in Config, seen \in {"all", "part"} :
           /\ req' = [req EXCEPT ![r] = [req[r] EXCEPT !.pc = "store_cfg", !.used = c,
                                                       !.seen = seen]]
           /\ c.rules \subseteq OnDisk
           /\ seen = "all" => c.rules = OnDisk
<1>1. PICK rules \in {OnDisk} \cup (IF r \in Cut THEN SUBSET OnDisk ELSE {}) :
        req' = [req EXCEPT ![r].pc = "store_cfg", ![r].used.rules = rules,
                           ![r].seen = IF rules = OnDisk THEN "all" ELSE "part"]
  BY Zenon DEF LoadManaged
<1>2. OnDisk \in SUBSET Domains /\ rules \subseteq OnDisk
  BY DEF IInv, TypeOK, Rules, OnDisk
<1>3. PICK seen : seen = IF rules = OnDisk THEN "all" ELSE "part"
  BY Zenon
<1>4. PICK w \in Request : w = req[r]
  BY DEF IInv, TypeOK
<1>5. PICK c : c = [w.used EXCEPT !.rules = rules]
  BY Zenon
<1>6. w.used \in Config
  BY <1>4 DEF Request
<1>7. c \in Config /\ c.rules = rules
  BY <1>2, <1>5, <1>6 DEF Config
<1>8. req' = [req EXCEPT ![r] = [req[r] EXCEPT !.pc = "store_cfg",
                                               !.used = [req[r].used EXCEPT !.rules = rules],
                                               !.seen = seen]]
  BY <1>1, <1>3, <1>4, Zenon DEF Request
<1>9. req' = [req EXCEPT ![r] = [req[r] EXCEPT !.pc = "store_cfg", !.used = c, !.seen = seen]]
  BY <1>4, <1>5, <1>8, Zenon
<1>10. seen \in {"all", "part"} /\ (seen = "all" => c.rules = OnDisk)
  BY <1>3, <1>7
<1> QED BY <1>2, <1>7, <1>9, <1>10, Zenon

\* The steps that read into the locals.
LEMMA ReadStep ==
  ASSUME IInv, NEW r \in Requests,
         LoadFile(r) \/ LoadManaged(r) \/ ReadCfg(r) \/ ListenerCfg(r)
  PROVE  IInv'
<1>1. req[r] \in Request /\ cfg \in Config
  BY DEF IInv, TypeOK
<1>2. \E v \in Request : /\ req' = [req EXCEPT ![r] = v] /\ v.bound = req[r].bound
                         /\ v.pc \in {"load_managed", "store_cfg", "lock", "diff"}
  <2>1. ASSUME NEW c \in Config, NEW pc \in {"load_managed", "lock", "diff"},
               req' = [req EXCEPT ![r] = [req[r] EXCEPT !.pc = pc, !.used = c]]
        PROVE  \E v \in Request : /\ req' = [req EXCEPT ![r] = v] /\ v.bound = req[r].bound
                                  /\ v.pc \in {"load_managed", "store_cfg", "lock", "diff"}
    <3>1. PICK v : v = [req[r] EXCEPT !.pc = pc, !.used = c]
      BY Zenon
    <3>2. v \in Request /\ v.pc = pc /\ v.bound = req[r].bound
      BY <1>1, <2>1, <3>1, Zenon DEF Request, Busy
    <3> QED BY <2>1, <3>1, <3>2, Zenon
  <2>2. CASE LoadFile(r)
    BY <2>1, <2>2, FileRead, Zenon
  <2>3. CASE LoadManaged(r)
    <3>1. PICK c \in Config, seen \in {"all", "part"} :
            req' = [req EXCEPT ![r] = [req[r] EXCEPT !.pc = "store_cfg", !.used = c,
                                                     !.seen = seen]]
      BY <2>3, ManagedRead, Zenon
    <3>2. PICK v : v = [req[r] EXCEPT !.pc = "store_cfg", !.used = c, !.seen = seen]
      BY Zenon
    <3>3. v \in Request /\ v.pc = "store_cfg" /\ v.bound = req[r].bound
      BY <1>1, <3>2, Zenon DEF Request, Busy
    <3> QED BY <3>1, <3>2, <3>3, Zenon
  <2>4. CASE ReadCfg(r)
    <3>1. req' = [req EXCEPT ![r] = [req[r] EXCEPT !.pc = "lock", !.used = cfg]]
      BY <2>4, Zenon DEF ReadCfg
    <3> QED BY <1>1, <2>1, <3>1, Zenon
  <2>5. CASE ListenerCfg(r)
    <3>1. req' = [req EXCEPT ![r] = [req[r] EXCEPT !.pc = "diff", !.used = cfg]]
      BY <2>5, Zenon DEF ListenerCfg
    <3> QED BY <1>1, <2>1, <3>1, Zenon
  <2> QED BY <2>2, <2>3, <2>4, <2>5, Zenon
<1>3. UNCHANGED <<disk, state, net, edits, alone>>
      /\ req[r].pc \in {"load_file", "load_managed", "read_cfg", "listener_cfg"}
  BY DEF LoadFile, LoadManaged, ReadCfg, ListenerCfg
<1> QED BY <1>2, <1>3, ValueStep, Zenon DEF disk, state, Locked, IInv, TypeOK

\* update_listeners compares, or fails to bind.
LEMMA DiffStep ==
  ASSUME IInv, NEW r \in Requests, Diff(r) \/ \E a \in Addrs : BindFails(r, a)
  PROVE  IInv'
<1>1. req[r] \in Request
  BY DEF IInv, TypeOK
<1>2. req[r].used.binds \in SUBSET Addrs /\ req[r].fresh \in SUBSET Addrs
      /\ req[r].failed \in SUBSET Addrs /\ Registered \in SUBSET Addrs
  BY <1>1 DEF Request, Config, Registered
<1>3. \E v \in Request : /\ req' = [req EXCEPT ![r] = v]
                         /\ v.pc \in {"bind", "remove"}
                         /\ v.bound = req[r].bound
  <2>1. CASE Diff(r)
    <3> DEFINE stale == Registered \ req[r].used.binds
               fresh == req[r].used.binds \ Registered
               pc == IF stale = {} THEN "bind" ELSE "remove"
               v == [req[r] EXCEPT !.pc = pc, !.fresh = fresh, !.stale = stale]
    <3>1. stale \in SUBSET Addrs /\ fresh \in SUBSET Addrs /\ pc \in {"bind", "remove"}
      BY <1>2
    <3>2. req' = [req EXCEPT ![r] = v]
      BY <2>1, Zenon DEF Diff
    <3> HIDE DEF stale, fresh, pc
    <3>3. v \in Request /\ v.pc \in {"bind", "remove"} /\ v.bound = req[r].bound
      BY <1>1, <3>1, Zenon DEF Request, Busy
    <3> QED BY <3>2, <3>3, Zenon
  <2>2. CASE \E a \in Addrs : BindFails(r, a)
    <3>1. PICK a \in Addrs : BindFails(r, a)
      BY <2>2
    <3> DEFINE v == [req[r] EXCEPT !.fresh = @ \ {a}, !.failed = @ \cup {a}]
    <3>2. v \in Request /\ v.pc = "bind" /\ v.bound = req[r].bound
      BY <1>1, <1>2, <3>1, Zenon DEF Request, BindFails
    <3>3. req' = [req EXCEPT ![r] = v]
      BY <3>1, Zenon DEF BindFails
    <3> QED BY <3>2, <3>3, Zenon
  <2> QED BY <2>1, <2>2
<1>4. UNCHANGED <<disk, state, net, edits, alone>> /\ req[r].pc \in {"diff", "bind"}
  BY Zenon DEF Diff, BindFails
<1> QED BY <1>3, <1>4, ValueStep, Zenon DEF disk, state, Locked, IInv, TypeOK
-----------------------------------------------------------------------------
\* The steps around the lock.

\* They leave the listeners alone.
LEMMA LockSideStep ==
  ASSUME IInv, NEW r \in Requests, NEW pc \in Busy \ {"create", "insert"}, Goto(r, pc),
         req[r].pc \in Locked \cup {"lock"}, UNCHANGED <<disk, net, cfg, edits, alone>>,
         mw_handler' \in Config, dns_client' \in Config, cache' \in Config, mw_home' \in Nat,
         lock' \in Requests \cup {Nobody}
  PROVE  TypeOK' /\ NamedOK' /\ NetInv'
<1>1. Only(r) /\ req'[r].pc = pc /\ req'[r].bound = req[r].bound
  BY GotoFacts DEF IInv
<1>2. TypeOK'
  BY <1>1 DEF IInv, TypeOK, Only, disk, net, Servers
<1>3. NamedOK'
  BY <1>1 DEF IInv, NamedOK, Only
<1>4. \A q \in Requests : /\ req'[q].bound = req[q].bound
                          /\ req'[q].pc = "insert" <=> req[q].pc = "insert"
  BY <1>1 DEF Only, Locked
<1>5. NetInv'
  BY <1>4, NetUnseen DEF IInv, net
<1> QED BY <1>2, <1>3, <1>5

\* Nobody is between the stores when the lock is taken.
LEMMA LockStep ==
  ASSUME IInv, NEW r \in Requests, Lock(r)
  PROVE  IInv'
<1>1. Goto(r, "build") /\ "build" \in Busy /\ req[r].pc = "lock"
  BY DEF Lock, Busy
<1>2. Only(r) /\ req'[r].pc = "build"
  BY <1>1, GotoFacts DEF IInv
<1>3. TypeOK' /\ NamedOK' /\ NetInv'
  BY <1>1, LockSideStep DEF Lock, IInv, TypeOK
<1>4. LockHeld'
  BY <1>1, <1>2, ReloadAssumption DEF Lock, IInv, LockHeld, Locked, Only
<1>5. Agree'
  BY <1>1, <1>2 DEF Lock, IInv, Agree, Only
<1> QED BY <1>3, <1>4, <1>5 DEF IInv

\* The chain is built under the lock.
LEMMA BuildStep ==
  ASSUME IInv, NEW r \in Requests, BuildMiddleware(r)
  PROVE  IInv'
<1>1. Goto(r, "store_handler") /\ "store_handler" \in Busy /\ req[r].pc = "build"
  BY DEF BuildMiddleware, Busy
<1>2. Only(r) /\ req'[r].pc = "store_handler"
  BY <1>1, GotoFacts DEF IInv
<1>3. cache' \in Config
  BY DEF BuildMiddleware, IInv, TypeOK, Request
<1>4. TypeOK' /\ NamedOK' /\ NetInv'
  BY <1>1, <1>3, LockSideStep DEF BuildMiddleware, IInv, TypeOK, Locked
<1>5. LockHeld'
  BY <1>1, <1>2 DEF BuildMiddleware, IInv, LockHeld, Locked, Only
<1>6. Agree'
  BY <1>1, <1>2 DEF BuildMiddleware, IInv, Agree, Only
<1> QED BY <1>4, <1>5, <1>6 DEF IInv

\* Nobody else is between the stores.
LEMMA StoreHandlerStep ==
  ASSUME IInv, NEW r \in Requests, StoreHandler(r)
  PROVE  IInv'
<1>1. Goto(r, "store_client") /\ "store_client" \in Busy /\ req[r].pc = "store_handler"
  BY DEF StoreHandler, Busy
<1>2. Only(r) /\ req'[r].pc = "store_client" /\ req'[r].used = req[r].used
  BY <1>1, GotoFacts DEF IInv
<1>3. mw_handler' \in Config /\ mw_home' \in Nat
  BY DEF StoreHandler, IInv, TypeOK, Request
<1>4. TypeOK' /\ NamedOK' /\ NetInv'
  BY <1>1, <1>3, LockSideStep DEF StoreHandler, IInv, TypeOK, Locked
<1>5. LockHeld'
  BY <1>1, <1>2 DEF StoreHandler, IInv, LockHeld, Locked, Only
<1>6. \A q \in Requests : q # r => req'[q].pc # "store_client"
  BY <1>1, <1>2 DEF IInv, LockHeld, Locked, Only
<1>7. Agree'
  BY <1>2, <1>6 DEF StoreHandler, Agree
<1> QED BY <1>4, <1>5, <1>7 DEF IInv

\* The second store makes chain and client agree again, and frees the lock.
LEMMA StoreClientStep ==
  ASSUME IInv, NEW r \in Requests, StoreClient(r)
  PROVE  IInv'
<1>1. Goto(r, "listener_cfg") /\ "listener_cfg" \in Busy /\ req[r].pc = "store_client"
  BY DEF StoreClient, Busy
<1>2. Only(r) /\ req'[r].pc = "listener_cfg"
  BY <1>1, GotoFacts DEF IInv
<1>3. dns_client' \in Config
  BY DEF StoreClient, IInv, TypeOK, Request
<1>4. TypeOK' /\ NamedOK' /\ NetInv'
  BY <1>1, <1>3, LockSideStep DEF StoreClient, IInv, TypeOK, Locked
<1>5. \A q \in Requests : q # r => req'[q].pc \notin Locked
  BY <1>1, <1>2 DEF IInv, LockHeld, Locked, Only
<1>6. LockHeld'
  BY <1>2, <1>5, ReloadAssumption DEF StoreClient, LockHeld, Locked
<1>7. Agree'
  BY <1>1, <1>2, <1>5 DEF StoreClient, IInv, Agree, Only, Locked
<1> QED BY <1>4, <1>6, <1>7 DEF IInv

-----------------------------------------------------------------------------
\* The steps of the map.

NetTypes ==
  /\ servers \in Seq(Server)
  /\ listeners \in [Addrs -> Servers \cup {0}]
  /\ shutdowns \subseteq [home : Nat, servers : SUBSET Nat]
  /\ cancelled \subseteq Nat

\* They are away from the lock.
LEMMA MapSide ==
  ASSUME IInv, NEW r \in Requests, NEW v \in Request, req' = [req EXCEPT ![r] = v],
         req[r].pc \in {"remove", "bind", "insert"}, v.pc \in {"bind", "insert"},
         UNCHANGED <<disk, state, edits, alone>>, NetTypes', NetInv'
  PROVE  IInv'
<1>1. Only(r) /\ req'[r] = v
  BY Becomes, Zenon DEF IInv
<1>2. NamedOK'
  BY <1>1 DEF IInv, NamedOK, Only
<1>3. LockHeld'
  BY <1>1 DEF IInv, LockHeld, Only, Locked, state
<1>4. Agree'
  BY <1>1 DEF IInv, Agree, Only, state
<1>5. TypeOK'
  BY <1>1 DEF IInv, TypeOK, Only, disk, state, NetTypes
<1> QED BY <1>2, <1>3, <1>4, <1>5 DEF IInv

\* The servers are numbered from 1.
LEMMA ServerFacts ==
  ASSUME TypeOK
  PROVE  /\ Len(servers) \in Nat /\ Servers = 1..Len(servers) /\ Servers \subseteq Nat
         /\ \A s \in Servers : /\ s # 0 /\ servers[s] \in Server
                              /\ servers[s].addr \in Addrs /\ servers[s].home \in Nat
<1>1. servers \in Seq(Server)
  BY DEF TypeOK
<1>2. Len(servers) \in Nat /\ Servers = 1..Len(servers)
  BY <1>1 DEF Servers
<1>3. \A s \in Servers : servers[s] \in Server
  BY <1>1, <1>2
<1> QED BY <1>2, <1>3 DEF Server

\* What is taken out of the map is handed to a task that stops it.
LEMMA RemoveStep ==
  ASSUME IInv, NEW r \in Requests, Remove(r)
  PROVE  IInv'
<1> DEFINE v == [req[r] EXCEPT !.pc = "bind", !.stale = {}]
           out == {listeners[a] : a \in req[r].stale \cap Registered}
           task == [home |-> req[r].via, servers |-> out]
<1>1. req[r] \in Request /\ req[r].pc = "remove" /\ Registered \subseteq Addrs
  BY DEF Remove, IInv, TypeOK, Registered
<1>2. v \in Request /\ v.pc = "bind" /\ v.bound = req[r].bound
  BY <1>1, Zenon DEF Request, Busy
<1>3. req' = [req EXCEPT ![r] = v]
  BY Zenon DEF Remove
<1>4. shutdowns' = shutdowns \cup {task}
      /\ listeners' = [a \in Addrs |-> IF a \in req[r].stale THEN 0 ELSE listeners[a]]
      /\ UNCHANGED <<disk, state, servers, cancelled, edits, alone>>
  BY DEF Remove
<1>5. out \subseteq Servers
  BY <1>1 DEF IInv, TypeOK, Registered
<1>6. task \in [home : Nat, servers : SUBSET Nat] /\ task.servers = out
  BY <1>1, <1>5, ServerFacts DEF Request, IInv
<1>7. \A s : s \in out <=> \E a \in Addrs : a \in req[r].stale /\ listeners[a] = s /\ s # 0
  BY <1>1 DEF Registered
<1> HIDE DEF v, out, task
<1>8. \A s : Doomed(s)' <=> Doomed(s) \/ s \in out
  BY <1>4, <1>6 DEF Doomed
<1>9. NetTypes'
  BY <1>4, <1>6 DEF NetTypes, IInv, TypeOK, Servers
<1>10. \A q \in Requests : /\ req'[q].bound = req[q].bound
                           /\ req'[q].pc = "insert" <=> req[q].pc = "insert"
  BY <1>1, <1>2, <1>3, Becomes DEF IInv, Only
<1>11. MapOK'
  BY <1>4, <1>7, <1>8, <1>10 DEF IInv, NetInv, MapOK, Servers
<1>12. BoundOK'
  BY <1>4, <1>7, <1>8, <1>10 DEF IInv, NetInv, MapOK, BoundOK, Servers
<1>13. DoomedOK'
  BY <1>4, <1>5, <1>8 DEF IInv, NetInv, DoomedOK, Servers
<1>14. GoneOK'
  BY <1>4 DEF IInv, NetInv, GoneOK, RuntimesUp, IsHttp, Servers
<1>15. NoLeakedListener'
  <2> SUFFICES ASSUME RuntimesUp', NEW s \in Servers, servers[s].st = "serving"
               PROVE  (\/ s \in cancelled
                       \/ listeners[servers[s].addr] = s
                       \/ \E q \in Requests : req[q].bound = s
                       \/ \E t \in shutdowns : s \in t.servers)'
    BY <1>4 DEF NoLeakedListener, Servers
  <2>1. RuntimesUp
    BY <1>4 DEF RuntimesUp, IsHttp, Servers
  <2>2. servers[s].addr \in Addrs /\ s # 0
    BY ServerFacts DEF IInv
  <2>3. CASE listeners[servers[s].addr] = s
    BY <1>4, <1>6, <1>7, <2>2, <2>3
  <2> QED BY <1>4, <1>10, <2>1, <2>3 DEF IInv, NetInv, NoLeakedListener
<1>16. NetInv'
  BY <1>11, <1>12, <1>13, <1>14, <1>15 DEF NetInv
<1> QED BY <1>1, <1>2, <1>3, <1>4, <1>9, <1>16, MapSide, Zenon

\* A server that was just started is a new one.
LEMMA BindStep ==
  ASSUME IInv, NEW r \in Requests, NEW a \in Addrs, Bind(r, a)
  PROVE  IInv'
<1> DEFINE n == Len(servers) + 1
           new == [addr |-> a, home |-> req[r].via, st |-> "serving"]
           v == [req[r] EXCEPT !.pc = "insert", !.fresh = @ \ {a}, !.bound = n]
<1>1. req[r] \in Request /\ req[r].pc = "bind" /\ n \in Nat
  BY ServerFacts DEF Bind, IInv, TypeOK
<1>2. v \in Request /\ v.pc = "insert" /\ v.bound = n
  BY <1>1, Zenon DEF Request, Busy
<1>3. req' = [req EXCEPT ![r] = v] /\ servers' = Append(servers, new)
      /\ UNCHANGED <<disk, state, listeners, shutdowns, cancelled, edits, alone>>
  BY Zenon DEF Bind
<1>4. new \in Server /\ new.addr = a /\ new.st = "serving"
  BY <1>1 DEF Server, Request
<1>5. n \notin Servers /\ n # 0
  BY ServerFacts DEF IInv
<1>6. servers' \in Seq(Server) /\ Servers' = Servers \cup {n} /\ servers'[n] = new
      /\ \A s \in Servers : servers'[s] = servers[s]
  <2> HIDE DEF new
  <2>1. servers \in Seq(Server) /\ Len(servers) \in Nat /\ Servers = 1..Len(servers)
    BY ServerFacts DEF IInv, TypeOK
  <2>2. servers' \in Seq(Server) /\ DOMAIN servers' = 1..n /\ servers'[n] = new
        /\ \A s \in 1..Len(servers) : servers'[s] = servers[s]
    BY <1>3, <1>4, <2>1
  <2>3. 1..n = (1..Len(servers)) \cup {n}
    BY <2>1
  <2> QED BY <2>1, <2>2, <2>3 DEF Servers
<1> HIDE DEF n, new, v
<1>7. Only(r) /\ req'[r].pc = "insert" /\ req'[r].bound = n
  BY <1>2, <1>3, Becomes, Zenon DEF IInv
<1>8. \A s : Doomed(s)' <=> Doomed(s)
  BY <1>3 DEF Doomed
<1>9. RuntimesUp' => RuntimesUp
  BY <1>6 DEF RuntimesUp, IsHttp
<1>10. ~Doomed(n) /\ \A b \in Addrs : listeners[b] # n
  BY <1>5 DEF IInv, NetInv, DoomedOK, MapOK
<1>11. req[r].bound = 0 /\ \A q \in Requests : req[q].bound # n
  BY <1>1, <1>5 DEF IInv, NetInv, BoundOK
<1>12. NetTypes'
  BY <1>3, <1>6 DEF NetTypes, IInv, TypeOK
<1>13. MapOK'
  <2> SUFFICES ASSUME NEW b \in Addrs, listeners[b] # 0
               PROVE  (/\ listeners[b] \in Servers
                       /\ servers[listeners[b]].addr = b
                       /\ ~Doomed(listeners[b])
                       /\ \A q \in Requests : req[q].bound # listeners[b])'
    BY <1>3, Zenon DEF MapOK
  <2>1. /\ listeners[b] \in Servers /\ servers[listeners[b]].addr = b
        /\ ~Doomed(listeners[b]) /\ \A q \in Requests : req[q].bound # listeners[b]
    BY DEF IInv, NetInv, MapOK
  <2>2. \A q \in Requests : req'[q].bound # listeners[b]
    BY <1>7, <1>10, <2>1 DEF Only
  <2>3. \A x : x = listeners[b] => ~Doomed(x)'
    BY <1>8, <2>1
  <2> QED BY <1>3, <1>6, <2>1, <2>2, <2>3, Zenon DEF Doomed
<1>14. BoundOK'
  <2> SUFFICES ASSUME NEW q \in Requests
               PROVE  (/\ req[q].bound # 0 <=> req[q].pc = "insert"
                       /\ req[q].bound # 0 => req[q].bound \in Servers /\ ~Doomed(req[q].bound)
                       /\ \A p \in Requests :
                            p # q /\ req[p].bound = req[q].bound => req[q].bound = 0)'
    BY DEF BoundOK
  <2>1. CASE q = r
    <3>1. \A x : x = n => ~Doomed(x)'
      BY <1>8, <1>10
    <3>2. \A p \in Requests : p # r => req'[p].bound # n
      BY <1>7, <1>11 DEF Only
    <3> QED BY <1>5, <1>6, <1>7, <2>1, <3>1, <3>2 DEF Doomed
  <2>2. CASE q # r
    <3>1. req'[q] = req[q]
      BY <1>7, <2>2 DEF Only
    <3>2. /\ req[q].bound # 0 <=> req[q].pc = "insert"
          /\ req[q].bound # 0 => req[q].bound \in Servers /\ ~Doomed(req[q].bound)
          /\ \A p \in Requests : p # q /\ req[p].bound = req[q].bound => req[q].bound = 0
      BY DEF IInv, NetInv, BoundOK
    <3>3. \A p \in Requests : p # q /\ req'[p].bound = req[q].bound => req[q].bound = 0
      BY <1>7, <1>11, <3>2 DEF Only
    <3>4. req[q].bound # 0 => \A x : x = req[q].bound => ~Doomed(x)'
      BY <1>8, <3>2
    <3> QED BY <1>6, <3>1, <3>2, <3>3, <3>4 DEF Doomed
  <2> QED BY <2>1, <2>2
<1>15. DoomedOK'
  BY <1>6, <1>8 DEF IInv, NetInv, DoomedOK
<1>16. GoneOK'
  BY <1>3, <1>4, <1>6, <1>9, Zenon DEF IInv, NetInv, GoneOK
<1>17. NoLeakedListener'
  <2>1. \A q \in Requests : req[q].bound # 0 => req'[q].bound = req[q].bound
    BY <1>7, <1>11 DEF Only
  <2>2. \A s \in Servers : s # 0
    BY ServerFacts DEF IInv
  <2> SUFFICES ASSUME RuntimesUp', NEW x \in Servers', servers'[x].st = "serving"
               PROVE  (\/ x \in cancelled
                       \/ listeners[servers[x].addr] = x
                       \/ \E q \in Requests : req[q].bound = x
                       \/ \E t \in shutdowns : x \in t.servers)'
    BY DEF NoLeakedListener
  <2>3. CASE x = n
    BY <1>7, <2>3
  <2>4. CASE x \in Servers
    <3>1. \/ x \in cancelled
          \/ listeners[servers[x].addr] = x
          \/ \E q \in Requests : req[q].bound = x
          \/ \E t \in shutdowns : x \in t.servers
      BY <1>6, <1>9, <2>4 DEF IInv, NetInv, NoLeakedListener
    <3>2. (\E q \in Requests : req[q].bound = x) => \E q \in Requests : req'[q].bound = x
      BY <2>1, <2>2, <2>4
    <3>3. servers'[x] = servers[x]
      BY <1>6, <2>4
    <3> QED BY <1>3, <3>1, <3>2, <3>3
  <2> QED BY <1>6, <2>3, <2>4
<1>18. NetInv'
  BY <1>13, <1>14, <1>15, <1>16, <1>17 DEF NetInv
<1> QED BY <1>1, <1>2, <1>3, <1>12, <1>18, MapSide, Zenon

\* The server that is replaced in the map is handed to a task that stops it.
LEMMA InsertStep ==
  ASSUME IInv, NEW r \in Requests, Insert(r)
  PROVE  IInv'
<1> DEFINE s == req[r].bound
           a == servers[s].addr
           old == listeners[a]
           v == [req[r] EXCEPT !.pc = "bind", !.bound = 0]
           task == [home |-> req[r].via, servers |-> {old}]
<1>1. req[r] \in Request /\ req[r].pc = "insert"
  BY DEF Insert, IInv, TypeOK
<1>2. v \in Request /\ v.pc = "bind" /\ v.bound = 0
  BY <1>1, Zenon DEF Request, Busy
<1>3. s # 0 /\ s \in Servers /\ ~Doomed(s)
  BY <1>1 DEF IInv, NetInv, BoundOK
<1>4. a \in Addrs
  BY <1>3, ServerFacts DEF IInv
<1>5. req' = [req EXCEPT ![r] = v] /\ listeners' = [listeners EXCEPT ![a] = s]
      /\ shutdowns' = (IF old = 0 THEN shutdowns ELSE shutdowns \cup {task})
      /\ UNCHANGED <<disk, state, servers, cancelled, edits, alone>>
  BY Zenon DEF Insert
<1>6. old \in Servers \cup {0}
  BY <1>4 DEF IInv, TypeOK
<1>7. task \in [home : Nat, servers : SUBSET Nat] /\ task.servers = {old}
  <2>1. old \in Nat /\ req[r].via \in Nat
    BY <1>1, <1>6, ServerFacts DEF Request, IInv
  <2> HIDE DEF old
  <2> QED BY <2>1
<1>8. listeners'[a] = s /\ \A b \in Addrs : b # a => listeners'[b] = listeners[b]
  BY <1>4, <1>5 DEF IInv, TypeOK
<1>9. \A b \in Addrs : listeners[b] # s
  BY <1>3 DEF IInv, NetInv, MapOK
<1>10. \A b \in Addrs : b # a /\ old # 0 => listeners[b] # old
  BY <1>4 DEF IInv, NetInv, MapOK
<1>11. \A q \in Requests : q # r => req[q].bound # s
  BY <1>3 DEF IInv, NetInv, BoundOK
<1>12. \A q \in Requests : old # 0 => req[q].bound # old
  BY <1>4 DEF IInv, NetInv, MapOK
<1>13. NetTypes'
  BY <1>3, <1>4, <1>5, <1>7 DEF NetTypes, IInv, TypeOK, Servers
<1>14. servers[s].addr = a
  OBVIOUS
<1> HIDE DEF v, task, old, a, s
<1>15. Only(r) /\ req'[r].pc = "bind" /\ req'[r].bound = 0
  BY <1>2, <1>5, Becomes, Zenon DEF IInv
<1>16. \A x : Doomed(x)' <=> Doomed(x) \/ (old # 0 /\ x = old)
  BY <1>5, <1>7 DEF Doomed
<1>17. MapOK'
  <2> SUFFICES ASSUME NEW b \in Addrs, listeners'[b] # 0
               PROVE  (/\ listeners[b] \in Servers
                       /\ servers[listeners[b]].addr = b
                       /\ ~Doomed(listeners[b])
                       /\ \A q \in Requests : req[q].bound # listeners[b])'
    BY DEF MapOK
  <2>1. CASE b = a
    <3>1. \A x : x = s => ~Doomed(x)'
      BY <1>3, <1>4, <1>9, <1>16 DEF old
    <3>2. \A q \in Requests : req'[q].bound # s
      BY <1>3, <1>11, <1>15 DEF Only
    <3> QED BY <1>3, <1>5, <1>8, <1>14, <2>1, <3>1, <3>2 DEF Servers, Doomed
  <2>2. CASE b # a
    <3>1. listeners'[b] = listeners[b] /\ listeners[b] # 0
      BY <1>8, <2>2
    <3>2. \A x : x = listeners[b] => ~Doomed(x)'
      BY <1>10, <1>16, <2>2, <3>1 DEF IInv, NetInv, MapOK
    <3>3. \A q \in Requests : req'[q].bound # listeners[b]
      BY <1>15, <3>1 DEF IInv, NetInv, MapOK, Only
    <3> QED BY <1>5, <3>1, <3>2, <3>3 DEF IInv, NetInv, MapOK, Servers, Doomed
  <2> QED BY <2>1, <2>2
<1>18. BoundOK'
  BY <1>5, <1>12, <1>15, <1>16 DEF IInv, NetInv, BoundOK, Only, Servers
<1>19. DoomedOK'
  BY <1>5, <1>6, <1>16 DEF IInv, NetInv, DoomedOK, Servers
<1>20. GoneOK'
  BY <1>5 DEF IInv, NetInv, GoneOK, RuntimesUp, IsHttp, Servers
<1>21. NoLeakedListener'
  <2> SUFFICES ASSUME RuntimesUp', NEW x \in Servers, servers[x].st = "serving"
               PROVE  (\/ x \in cancelled
                       \/ listeners[servers[x].addr] = x
                       \/ \E q \in Requests : req[q].bound = x
                       \/ \E t \in shutdowns : x \in t.servers)'
    BY <1>5 DEF NoLeakedListener, Servers
  <2>1. RuntimesUp
    BY <1>5 DEF RuntimesUp, IsHttp, Servers
  <2>2. servers[x].addr \in Addrs /\ x # 0
    BY ServerFacts DEF IInv
  <2>3. CASE listeners[servers[x].addr] = x
    <3>1. CASE servers[x].addr = a
      BY <1>5, <1>7, <2>2, <2>3, <3>1 DEF old
    <3>2. CASE servers[x].addr # a
      BY <1>5, <1>8, <2>2, <2>3, <3>2
    <3> QED BY <3>1, <3>2
  <2>4. CASE \E q \in Requests : req[q].bound = x
    <3>1. CASE x = s
      BY <1>5, <1>8, <1>14, <3>1
    <3>2. CASE x # s
      BY <1>15, <2>4, <3>2 DEF Only, s
    <3> QED BY <3>1, <3>2
  <2>5. CASE \E t \in shutdowns : x \in t.servers
    BY <1>5, <2>5
  <2> QED BY <1>5, <2>1, <2>3, <2>4, <2>5 DEF IInv, NetInv, NoLeakedListener
<1>22. NetInv'
  BY <1>17, <1>18, <1>19, <1>20, <1>21 DEF NetInv
<1> QED BY <1>1, <1>2, <1>5, <1>13, <1>22, MapSide, Zenon
-----------------------------------------------------------------------------
\* The steps of the others: the administrator, the spawned tasks, the listeners.

\* The file is edited.
LEMMA EditStep ==
  ASSUME IInv, NEW c \in Confs, Edit(c)
  PROVE  IInv'
<1>1. UNCHANGED <<managed_dir, address_conf, cfg, mw_handler, mw_home, dns_client, cache, lock,
                  listeners, servers, shutdowns, cancelled, req, alone>>
      /\ conf_file' = c /\ edits < MAX_EDITS /\ edits' = edits + 1
  BY DEF Edit, state, net
<1>2. edits' \in 0..MAX_EDITS
  BY <1>1, ReloadAssumption DEF IInv, TypeOK
<1>3. TypeOK'
  BY <1>1, <1>2 DEF IInv, TypeOK, Servers
<1>4. NetInv'
  BY <1>1, NetUnseen DEF IInv
<1> QED BY <1>1, <1>3, <1>4 DEF IInv, NamedOK, LockHeld, Agree

\* A step of the listeners alone: what is about the requests and the lock stays.
LEMMA NetSide ==
  ASSUME IInv, UNCHANGED <<disk, state, listeners, req, edits, alone>>, NetTypes', NetInv'
  PROVE  IInv'
<1>1. TypeOK'
  BY DEF IInv, TypeOK, NetTypes, disk, state
<1> QED BY <1>1, Zenon DEF IInv, NamedOK, LockHeld, Agree, state

\* What a task was to cancel is cancelled.
LEMMA ShutdownStep ==
  ASSUME IInv, NEW t \in shutdowns, Shutdown(t)
  PROVE  IInv'
<1>1. shutdowns' = shutdowns \ {t} /\ cancelled' = cancelled \cup t.servers
      /\ UNCHANGED <<disk, state, listeners, servers, req, edits, alone>>
  BY DEF Shutdown
<1>2. NetTypes'
  BY <1>1, Zenon DEF NetTypes, IInv, TypeOK, Servers
<1>3. \A s : Doomed(s)' <=> Doomed(s)
  BY <1>1 DEF Doomed
<1>4. MapOK'
  BY <1>1, <1>3 DEF IInv, NetInv, MapOK, Servers
<1>5. BoundOK'
  BY <1>1, <1>3 DEF IInv, NetInv, BoundOK, Servers
<1>6. DoomedOK'
  BY <1>1, <1>3 DEF IInv, NetInv, DoomedOK, Servers
<1>7. GoneOK'
  BY <1>1 DEF IInv, NetInv, GoneOK, RuntimesUp, IsHttp, Servers
<1>8. NoLeakedListener'
  BY <1>1 DEF IInv, NetInv, NoLeakedListener, RuntimesUp, IsHttp, Servers
<1>9. NetInv'
  BY <1>4, <1>5, <1>6, <1>7, <1>8 DEF NetInv
<1> QED BY <1>1, <1>2, <1>9, NetSide

\* A cancelled listener stops.
LEMMA StopStep ==
  ASSUME IInv, NEW s \in Servers, Stop(s)
  PROVE  IInv'
<1> DEFINE v == [servers[s] EXCEPT !.st = "gone"]
<1>1. s \in cancelled /\ ~IsHttp(s) /\ servers' = [servers EXCEPT ![s] = v]
      /\ UNCHANGED <<disk, state, listeners, shutdowns, cancelled, req, edits, alone>>
  BY DEF Stop
<1>2. v \in Server /\ v.addr = servers[s].addr /\ v.st = "gone"
  BY ServerFacts DEF IInv, Server
<1> HIDE DEF v
<1>3. servers' \in Seq(Server) /\ Servers' = Servers
      /\ servers'[s] = v /\ \A x \in Servers : x # s => servers'[x] = servers[x]
  <2>1. servers \in Seq(Server)
    BY DEF IInv, TypeOK
  <2> QED BY <1>1, <1>2, <2>1 DEF Servers
<1>4. \A x \in Servers : servers'[x].addr = servers[x].addr
  BY <1>2, <1>3
<1>5. RuntimesUp' => RuntimesUp
  BY <1>1, <1>3, <1>4 DEF RuntimesUp, IsHttp
<1>6. \A x : Doomed(x)' <=> Doomed(x)
  BY <1>1 DEF Doomed
<1>7. NetTypes'
  BY <1>1, <1>3 DEF NetTypes, IInv, TypeOK
<1>8. MapOK'
  BY <1>1, <1>3, <1>4, <1>6 DEF IInv, NetInv, MapOK
<1>9. BoundOK'
  BY <1>1, <1>3, <1>6 DEF IInv, NetInv, BoundOK
<1>10. DoomedOK'
  BY <1>3, <1>6 DEF IInv, NetInv, DoomedOK
<1>11. GoneOK'
  BY <1>1, <1>3, <1>5 DEF IInv, NetInv, GoneOK
<1>12. NoLeakedListener'
  BY <1>1, <1>3, <1>4, <1>5 DEF IInv, NetInv, NoLeakedListener
<1>13. NetInv'
  BY <1>8, <1>9, <1>10, <1>11, <1>12 DEF NetInv
<1> QED BY <1>1, <1>7, <1>13, NetSide

\* A runtime goes: its requests are aborted, which frees the lock and drops what was
\* bound and not yet registered.
LEMMA StopHttpStep ==
  ASSUME IInv, NEW s \in Servers, StopHttp(s)
  PROVE  IInv'
<1> DEFINE hit == {r \in Working : req[r].via = s}
           dead(r) == [Idle EXCEPT !.pc = "aborted", !.op = req[r].op, !.domain = req[r].domain]
           after(x) == IF x = s \/ (servers[x].home = s /\ ~IsHttp(x))
                         THEN [servers[x] EXCEPT !.st = "gone"]
                       ELSE IF servers[x].home = s /\ servers[x].st = "serving"
                         THEN [servers[x] EXCEPT !.st = "deaf"] ELSE servers[x]
<1>1. IsHttp(s) /\ servers' = [x \in Servers |-> after(x)]
      /\ shutdowns' = {t \in shutdowns : t.home # s}
      /\ req' = [r \in Requests |-> IF r \in hit THEN dead(r) ELSE req[r]]
      /\ lock' = (IF lock \in hit THEN Nobody ELSE lock)
      /\ UNCHANGED <<disk, cfg, mw_handler, mw_home, dns_client, cache, listeners,
                     cancelled, edits, alone>>
  BY Zenon DEF StopHttp
<1>2. \A r \in Requests : dead(r) \in Request /\ dead(r).pc = "aborted" /\ dead(r).bound = 0
  <2> SUFFICES ASSUME NEW r \in Requests
               PROVE  dead(r) \in Request /\ dead(r).pc = "aborted" /\ dead(r).bound = 0
    BY Zenon
  <2>1. req[r] \in Request /\ "aborted" \in Ended
    BY DEF IInv, TypeOK, Ended
  <2> QED BY <2>1, Zenon DEF Request, Idle, Config, Nowhere
<1>3. \A x \in Servers : after(x) \in Server /\ after(x).addr = servers[x].addr
  BY ServerFacts DEF IInv, Server
<1>4. after(s).st = "gone"
  BY ServerFacts DEF IInv, Server
<1>5. hit \subseteq Requests
  BY DEF Working
<1> HIDE DEF after, dead, hit
<1>6. servers' \in Seq(Server) /\ Servers' = Servers
  <2> DEFINE n == Len(servers)
  <2>1. n \in Nat /\ Servers = 1..n
    BY ServerFacts DEF IInv
  <2>2. servers' = [x \in 1..n |-> after(x)] /\ \A x \in 1..n : after(x) \in Server
    BY <1>1, <1>3, <2>1
  <2> HIDE DEF n
  <2>3. servers' \in Seq(Server) /\ DOMAIN servers' = 1..n
    BY <2>1, <2>2
  <2> QED BY <2>1, <2>3 DEF Servers
<1>7. \A x \in Servers : servers'[x].addr = servers[x].addr
  BY <1>1, <1>3
<1>8. ~RuntimesUp'
  BY <1>1, <1>4, <1>6, <1>7 DEF RuntimesUp, IsHttp
<1>9. /\ req' \in [Requests -> Request]
      /\ \A r \in hit : req'[r].pc = "aborted" /\ req'[r].bound = 0
      /\ \A r \in Requests \ hit : req'[r] = req[r]
  BY <1>1, <1>2, <1>5 DEF IInv, TypeOK
<1>10. TypeOK'
  <2>1. listeners' \in [Addrs -> Servers' \cup {0}]
        /\ shutdowns' \subseteq [home : Nat, servers : SUBSET Nat]
    BY <1>1, <1>6 DEF IInv, TypeOK
  <2> QED BY <1>1, <1>6, <1>9, <2>1 DEF IInv, TypeOK, disk
<1>11. NamedOK'
  BY <1>9 DEF IInv, NamedOK
<1>12. LockHeld'
  <2> SUFFICES ASSUME NEW r \in Requests
               PROVE  (lock = r <=> req[r].pc \in Locked)'
    BY DEF LockHeld
  <2>1. CASE r \in hit
    <3>1. lock' # r
      BY <1>1, <2>1, ReloadAssumption
    <3> QED BY <1>9, <2>1, <3>1 DEF Locked
  <2>2. CASE r \notin hit
    <3>1. lock' = r <=> lock = r
      BY <1>1, <2>2, ReloadAssumption
    <3>2. req'[r] = req[r]
      BY <1>9, <2>2
    <3> QED BY <3>1, <3>2 DEF IInv, LockHeld
  <2> QED BY <2>1, <2>2
<1>13. Agree'
  BY <1>1, <1>5, <1>9, Zenon DEF IInv, Agree
<1>14. \A x : Doomed(x)' => Doomed(x)
  BY <1>1, Zenon DEF Doomed
<1>15. MapOK'
  <2>1. \A a \in Addrs : listeners[a] # 0 => \A r \in Requests : req'[r].bound # listeners[a]
    <3> SUFFICES ASSUME NEW a \in Addrs, listeners[a] # 0, NEW r \in Requests
                 PROVE  req'[r].bound # listeners[a]
      OBVIOUS
    <3>1. req[r].bound # listeners[a]
      BY DEF IInv, NetInv, MapOK
    <3>2. req'[r].bound = 0 \/ req'[r] = req[r]
      BY <1>9
    <3> QED BY <3>1, <3>2
  <2> QED BY <1>1, <1>6, <1>7, <1>14, <2>1, Zenon DEF IInv, NetInv, MapOK
<1>16. BoundOK'
  <2> SUFFICES ASSUME NEW r \in Requests
               PROVE  (/\ req[r].bound # 0 <=> req[r].pc = "insert"
                       /\ req[r].bound # 0 => req[r].bound \in Servers /\ ~Doomed(req[r].bound)
                       /\ \A q \in Requests :
                            q # r /\ req[q].bound = req[r].bound => req[r].bound = 0)'
    BY DEF BoundOK
  <2>1. CASE r \in hit
    BY <1>9, <2>1
  <2>2. CASE r \notin hit
    <3>1. req'[r] = req[r]
      BY <1>9, <2>2
    <3>2. req[r].bound # 0 <=> req[r].pc = "insert"
      BY DEF IInv, NetInv, BoundOK
    <3>3. req[r].bound # 0 => req[r].bound \in Servers /\ \A x : x = req[r].bound => ~Doomed(x)'
      BY <1>14 DEF IInv, NetInv, BoundOK
    <3>4. \A q \in Requests : req'[q].bound = 0 \/ req'[q] = req[q]
      BY <1>9
    <3>5. \A q \in Requests : q # r /\ req'[q].bound = req[r].bound => req[r].bound = 0
      BY <3>4 DEF IInv, NetInv, BoundOK
    <3> QED BY <1>6, <3>1, <3>2, <3>3, <3>5 DEF Doomed
  <2> QED BY <2>1, <2>2
<1>17. DoomedOK'
  BY <1>6, <1>14 DEF IInv, NetInv, DoomedOK
<1>18. GoneOK' /\ NoLeakedListener'
  BY <1>8 DEF GoneOK, NoLeakedListener
<1> QED BY <1>10, <1>11, <1>12, <1>13, <1>15, <1>16, <1>17, <1>18 DEF IInv, NetInv
-----------------------------------------------------------------------------
\* The addresses of the configuration are bound, and registered, at the start.
LEMMA InitHolds == Init => IInv
<1> SUFFICES ASSUME Init PROVE IInv
  OBVIOUS
<1>1. TypeOK
  BY TypesInit
<1>2. \A r \in Requests : req[r] = Idle /\ req[r].pc = "idle" /\ req[r].bound = 0
  BY Zenon DEF Init, Idle
<1>3. NamedOK /\ LockHeld
  BY <1>2, ReloadAssumption DEF Init, NamedOK, LockHeld, Locked
<1>4. Agree
  BY <1>2 DEF Init, Agree
<1>5. \A s : ~Doomed(s)
  BY DEF Init, Doomed
<1>6. /\ Servers = DOMAIN BootBinds
      /\ \A s \in Servers : servers[s].addr = BootBinds[s] /\ servers[s].st = "serving"
  BY DEF Init, Servers
<1>7. \A s \in Servers : s # 0
  BY <1>1, ServerFacts
<1>8. \A a \in Addrs : listeners[a] # 0 => listeners[a] \in Servers /\ BootBinds[listeners[a]] = a
  <2> SUFFICES ASSUME NEW a \in Addrs, listeners[a] # 0
               PROVE  listeners[a] \in Servers /\ BootBinds[listeners[a]] = a
    OBVIOUS
  <2>1. a \in Boot.binds /\ listeners[a] = CHOOSE i \in DOMAIN BootBinds : BootBinds[i] = a
    BY DEF Init
  <2>2. \E i \in DOMAIN BootBinds : BootBinds[i] = a
    BY <2>1 DEF Boot
  <2> QED BY <1>6, <2>1, <2>2
<1>9. \A s \in Servers : listeners[BootBinds[s]] = s
  <2> SUFFICES ASSUME NEW s \in Servers
               PROVE  listeners[BootBinds[s]] = s
    OBVIOUS
  <2>1. BootBinds[s] \in Addrs /\ BootBinds[s] \in Boot.binds
    BY <1>6, ReloadAssumption DEF Boot
  <2>2. listeners[BootBinds[s]] = CHOOSE i \in DOMAIN BootBinds : BootBinds[i] = BootBinds[s]
    BY <2>1 DEF Init
  <2>3. \A i \in DOMAIN BootBinds : BootBinds[i] = BootBinds[s] => i = s
    BY <1>6, ReloadAssumption
  <2> QED BY <1>6, <2>2, <2>3
<1>10. MapOK
  BY <1>2, <1>5, <1>6, <1>8 DEF MapOK
<1>11. BoundOK /\ DoomedOK
  BY <1>2, <1>5 DEF BoundOK, DoomedOK
<1>12. GoneOK /\ NoLeakedListener
  BY <1>6, <1>9 DEF GoneOK, NoLeakedListener
<1> QED BY <1>1, <1>3, <1>4, <1>10, <1>11, <1>12 DEF IInv, NetInv

\* A handler's step keeps the invariant.
LEMMA HandleStep ==
  ASSUME IInv, NEW r \in Requests, Handle(r)
  PROVE  IInv'
<1>1. CASE Create(r) \/ Delete(r)
  BY <1>1, CreateStep, DeleteStep
<1>2. CASE Truncate(r) \/ Fill(r) \/ StoreCfg(r)
  BY <1>2, GotoStep
<1>3. CASE IoFails(r) \/ Respond(r)
  BY <1>3, FailStep
<1>4. CASE LoadFile(r) \/ LoadManaged(r) \/ ReadCfg(r) \/ ListenerCfg(r)
  BY <1>4, ReadStep
<1>5. CASE Lock(r) \/ BuildMiddleware(r) \/ StoreHandler(r) \/ StoreClient(r)
  BY <1>5, LockStep, BuildStep, StoreHandlerStep, StoreClientStep
<1>6. CASE Diff(r) \/ \E a \in Addrs : BindFails(r, a)
  BY <1>6, DiffStep
<1>7. CASE Remove(r) \/ Insert(r) \/ \E a \in Addrs : Bind(r, a)
  BY <1>7, RemoveStep, InsertStep, BindStep
<1> QED BY <1>1, <1>2, <1>3, <1>4, <1>5, <1>6, <1>7 DEF Handle

\* Every step keeps the invariant.
LEMMA StepHolds == IInv /\ [Next]_vars => IInv'
<1> SUFFICES ASSUME IInv, [Next]_vars PROVE IInv'
  OBVIOUS
<1>1. ASSUME NEW r \in Requests, \E s \in Servers, o \in Ops[r] : Arrive(r, s, o)
      PROVE  IInv'
  BY <1>1, ArriveStep
<1>2. ASSUME NEW r \in Requests, Handle(r)
      PROVE  IInv'
  BY <1>2, HandleStep
<1>3. CASE \E c \in Confs : Edit(c)
  BY <1>3, EditStep
<1>4. CASE \E t \in shutdowns : Shutdown(t)
  BY <1>4, ShutdownStep
<1>5. CASE \E s \in Servers : Stop(s) \/ StopHttp(s)
  BY <1>5, StopStep, StopHttpStep
<1>6. CASE UNCHANGED vars
  <2>1. UNCHANGED <<managed_dir, conf_file, address_conf, cfg, mw_handler, mw_home, dns_client,
                    cache, lock, listeners, servers, shutdowns, cancelled, req, edits, alone>>
    BY <1>6 DEF vars, disk, state, net
  <2>2. NetInv'
    BY <2>1, NetUnseen DEF IInv
  <2>3. TypeOK'
    BY <2>1 DEF IInv, TypeOK, Servers
  <2> QED BY <2>1, <2>2, <2>3 DEF IInv, NamedOK, LockHeld, Agree
<1> QED BY <1>1, <1>2, <1>3, <1>4, <1>5, <1>6, Zenon DEF Next

\* The invariant of the reload: one holder of the lock, one owner of each server.
THEOREM Invariance == Spec => []IInv
  BY InitHolds, StepHolds, PTL DEF Spec

\* Every variable keeps its type: a registered listener, a bound server and a cancelled
\* one are servers that were started.
THEOREM TypeCorrect == Spec => []TypeOK
<1>1. IInv => TypeOK
  BY DEF IInv
<1> QED BY <1>1, Invariance, PTL

\* Whoever looks while nobody holds the lock of the cache finds the chain and the client
\* of one configuration, however many reloads overlap (update_middleware_handler).
THEOREM LockKeepsPair == Spec => []HandlerMatchesClient
<1>1. IInv => HandlerMatchesClient
  <2> SUFFICES ASSUME IInv, lock = Nobody, \A r \in Requests : req[r].pc # "aborted"
               PROVE  mw_handler = dns_client
    BY DEF HandlerMatchesClient
  <2>1. \A r \in Requests : req[r].pc # "store_client"
    BY ReloadAssumption DEF IInv, LockHeld, Locked
  <2> QED BY <2>1 DEF IInv, Agree
<1> QED BY <1>1, Invariance, PTL

\* A registered listener serves its address and is not about to stop, however many runs
\* of update_listeners overlap.
THEOREM MapIsServed == Spec => []RegisteredIsServed
<1>1. IInv => RegisteredIsServed
  BY DEF IInv, NetInv, MapOK, GoneOK, Doomed, RegisteredIsServed, Registered
<1> QED BY <1>1, Invariance, PTL

\* A listener that serves is in the map, about to be, or about to stop: update_listeners
\* leaves no socket behind that a later reload could not close.
THEOREM NothingLeaks == Spec => []NoLeakedListener
<1>1. IInv => NoLeakedListener
  BY DEF IInv, NetInv
<1> QED BY <1>1, Invariance, PTL

-----------------------------------------------------------------------------
\* A request that no other one overlapped.

\* What a request asked for is so in these rules ...
Obeyed(w, rules) ==
  /\ w.op = "create" => w.domain \in rules
  /\ w.op = "delete" => w.domain \notin rules

\* ... and in those it has read.
InForce(w, rules) ==
  /\ w.op = "create" /\ w.seen = "all" => w.domain \in rules
  /\ w.op = "delete" => w.domain \notin rules

\* Chain, client and cache follow the configuration.
Built == mw_handler = cfg /\ dns_client = cfg /\ (cfg.caching => cache = cfg)

\* The map has the addresses of the configuration but for those still to come (those to
\* bind, and missing) and those that could not be bound.
Covered(w, missing) ==
  /\ Registered = cfg.binds \ (w.fresh \cup w.failed \cup missing)
  /\ w.fresh \cup missing \subseteq cfg.binds
  /\ (w.fresh \cup missing) \cap w.failed = {}
  /\ missing \cap w.fresh = {}

\* How far a request that is alone has come.
Written == {"truncate", "fill"}
Reading == {"load_file", "load_managed"}
Listening == {"listener_cfg", "diff", "remove", "bind", "insert"}

Rewrote(w) ==
  /\ w.pc \in {"create", "delete"} => w.op = w.pc
  /\ w.pc \in Written => managed_dir /\ Obeyed(w, w.text)
  /\ w.pc = "fill" => Rules = {}
  /\ w.pc \in Reading => Obeyed(w, OnDisk)
  /\ w.pc = "store_cfg" => InForce(w, w.used.rules)
  /\ w.pc \in {"read_cfg", "lock"} \cup Locked \cup Listening => InForce(w, cfg.rules)

Rebuilt(w) ==
  /\ w.pc \in {"lock", "diff"} \cup Locked => w.used = cfg
  /\ w.pc \in {"store_handler", "store_client"} => (cfg.caching => cache = cfg)
  /\ w.pc = "store_client" => mw_handler = cfg
  /\ w.pc \in Listening => Built

Rebound(w) ==
  /\ w.pc \notin {"bind", "insert"} => w.failed = {}
  /\ w.pc = "remove" => w.stale = Registered \ cfg.binds /\ w.fresh = cfg.binds \ Registered
  /\ w.pc = "bind" => Covered(w, {})
  /\ w.pc = "insert" => Covered(w, {servers[w.bound].addr})

Progress(w) == Rewrote(w) /\ Rebuilt(w) /\ Rebound(w)

\* A request that is alone is the only one at work, and gets its way step by step.
LoneInv ==
  \A r \in alone :
    /\ req[r].pc # "idle"
    /\ req[r].pc \in Busy => Working = {r} /\ Progress(req[r])

\* A request that is alone has come as far as Progress says.
LEMMA LoneHas ==
  ASSUME LoneInv, NEW r \in alone, req[r].pc \in Busy
  PROVE  Working = {r} /\ Progress(req[r])
BY DEF LoneInv

\* A step of one handler: if it is alone it must get on, and otherwise nobody is.
LEMMA AloneStep ==
  ASSUME IInv, LoneInv, NEW r \in Requests, Only(r), UNCHANGED alone, req[r].pc \in Busy,
         req'[r].pc # "idle",
         r \in alone /\ Progress(req[r]) /\ req'[r].pc \in Busy => Progress(req[r])'
  PROVE  LoneInv'
<1>1. ASSUME NEW q \in alone
      PROVE  req'[q].pc # "idle" /\ (req'[q].pc \in Busy => Working' = {q} /\ Progress(req[q])')
  <2>1. q \in Requests
    BY DEF IInv, TypeOK
  <2>2. CASE q = r
    <3>1. Working = {r} /\ Progress(req[r])
      BY <2>2, LoneHas
    <3>2. \A p \in Requests : p # r => req'[p].pc \notin Busy
      BY <3>1 DEF Working, Only
    <3>3. req'[r].pc \in Busy => Working' = {r}
      BY <3>2 DEF Working
    <3> QED BY <2>2, <3>1, <3>3
  <2>3. CASE q # r
    <3>1. req'[q] = req[q] /\ req[q].pc # "idle"
      BY <2>1, <2>3 DEF Only, LoneInv
    <3>2. req[q].pc \notin Busy
      BY <2>3, LoneHas DEF Working
    <3> QED BY <3>1, <3>2
  <2> QED BY <2>2, <2>3
<1> QED BY <1>1 DEF LoneInv

\* A request that ends is at work no more.
LEMMA EndLone ==
  ASSUME IInv, LoneInv, NEW r \in Requests, NEW result \in Ended, End(r, result), UNCHANGED alone,
         req[r].pc \in Busy
  PROVE  LoneInv'
<1>1. Only(r) /\ req'[r].pc = result
  BY EndFacts DEF IInv
<1>2. req'[r].pc \notin Busy /\ req'[r].pc # "idle"
  BY <1>1 DEF Ended, Busy
<1> QED BY <1>1, <1>2, AloneStep

\* What a request keeps when it goes on.
LEMMA GotoKeeps ==
  ASSUME TypeOK, NEW r \in Requests, NEW pc \in Busy, Goto(r, pc)
  PROVE  /\ Only(r) /\ req'[r].pc = pc /\ req'[r].op = req[r].op /\ req'[r].domain = req[r].domain
         /\ req'[r].text = req[r].text /\ req'[r].used = req[r].used
         /\ req'[r].fresh = req[r].fresh /\ req'[r].stale = req[r].stale
         /\ req'[r].failed = req[r].failed /\ req'[r].bound = req[r].bound
         /\ req'[r].seen = req[r].seen
<1>1. PICK w \in Request : w = req[r]
  BY DEF TypeOK
<1>2. PICK v : v = [w EXCEPT !.pc = pc]
  BY Zenon
<1>3. /\ v.pc = pc /\ v.op = w.op /\ v.domain = w.domain /\ v.text = w.text /\ v.used = w.used
      /\ v.fresh = w.fresh /\ v.stale = w.stale /\ v.failed = w.failed /\ v.bound = w.bound
      /\ v.seen = w.seen
  BY <1>2 DEF Request
<1>4. req'[r] = v
  BY <1>1, <1>2 DEF Goto, TypeOK
<1> QED BY <1>1, <1>3, <1>4, GotoFacts

\* While the rules are rewritten and loaded nothing is said of chain and listeners.
LEMMA RulesLone ==
  ASSUME IInv, LoneInv, NEW r \in Requests, Only(r), UNCHANGED alone,
         req[r].pc \in Busy \ {"bind", "insert"},
         req'[r].pc \in Written \cup Reading \cup {"store_cfg", "read_cfg"},
         req'[r].failed = req[r].failed,
         r \in alone /\ Rewrote(req[r]) => Rewrote(req[r])'
  PROVE  LoneInv'
<1>1. req'[r].pc # "idle" /\ req'[r].pc \notin {"lock", "diff"} \cup Locked \cup Listening
  BY DEF Written, Reading, Locked, Listening
<1>2. Rebuilt(req[r])'
  BY <1>1 DEF Rebuilt, Locked
<1>3. Rebound(req[r]) => Rebound(req[r])'
  BY <1>1, Zenon DEF Rebound, Listening
<1>4. r \in alone /\ Progress(req[r]) => Progress(req[r])'
  BY <1>2, <1>3 DEF Progress
<1> QED BY <1>1, <1>4, AloneStep

\* create and delete decide what they will write.
LEMMA EditLone ==
  ASSUME IInv, LoneInv, NEW r \in Requests, Create(r) \/ Delete(r)
  PROVE  LoneInv'
<1>1. UNCHANGED alone /\ req[r].pc \in {"create", "delete"} /\ req[r].pc \in Busy \ {"bind", "insert"}
  BY DEF Create, Delete, Busy
<1>2. PICK w \in Request : w = req[r]
  BY DEF IInv, TypeOK
<1>3. CASE \E result \in Ended : End(r, result)
  BY <1>1, <1>3, EndLone
<1>4. ASSUME NEW text, req' = [req EXCEPT ![r].pc = "truncate", ![r].text = text], managed_dir,
             text \in SUBSET Domains, managed_dir' = managed_dir,
             \/ w.pc = "create" /\ w.domain \in text
             \/ w.pc = "delete" /\ w.domain \notin text
      PROVE  LoneInv'
  <2>1. PICK v : v = [w EXCEPT !.pc = "truncate", !.text = text]
    OBVIOUS
  <2>2. v \in Request /\ v.pc = "truncate" /\ v.text = text /\ v.op = w.op /\ v.domain = w.domain
        /\ v.failed = w.failed
    BY <1>4, <2>1, Zenon DEF Request, Busy
  <2>3. req' = [req EXCEPT ![r] = v]
    BY <1>2, <1>4, <2>1, Zenon
  <2>4. Only(r) /\ req'[r] = v
    BY <2>2, <2>3, Becomes, Zenon DEF IInv
  <2>5. Rewrote(w) => Obeyed(v, text)
    BY <1>4, <2>2 DEF Rewrote, Obeyed
  <2>6. Rewrote(w) => Rewrote(req[r])'
    <3>1. managed_dir'
      BY <1>4
    <3> QED BY <2>2, <2>4, <2>5, <3>1, Zenon DEF Rewrote, Written, Reading, Locked, Listening, Obeyed, InForce
  <2> QED BY <1>1, <1>2, <2>2, <2>4, <2>6, RulesLone DEF Written
<1>5. CASE Create(r)
  <2>1. PICK text : text = Rules \cup {req[r].domain}
    BY Zenon
  <2>2. Rules \in SUBSET Domains /\ (req[r].pc = "create" => req[r].domain \in Domains)
    BY DEF IInv, TypeOK, Rules, NamedOK
  <2>3. text \in SUBSET Domains /\ req[r].domain \in text /\ req[r].pc = "create"
    BY <1>5, <2>1, <2>2 DEF Create
  <2> QED BY <1>2, <1>3, <1>4, <1>5, <2>1, <2>3, Zenon DEF Create, Ended, disk
<1>6. CASE Delete(r)
  <2>1. PICK text : text = Rules \ {req[r].domain}
    BY Zenon
  <2>2. Rules \in SUBSET Domains
    BY DEF IInv, TypeOK, Rules
  <2>3. text \in SUBSET Domains /\ req[r].domain \notin text /\ req[r].pc = "delete"
    BY <1>6, <2>1, <2>2 DEF Delete
  <2> QED BY <1>2, <1>3, <1>4, <1>6, <2>1, <2>3, Zenon DEF Delete, Ended, disk
<1> QED BY <1>5, <1>6

\* The file is truncated, written, and read again.
LEMMA WriteLone ==
  ASSUME IInv, LoneInv, NEW r \in Requests, Truncate(r) \/ Fill(r)
  PROVE  LoneInv'
<1>1. UNCHANGED <<alone, managed_dir>> /\ req[r].pc \in Busy \ {"bind", "insert"}
  BY Zenon DEF Truncate, Fill, Busy
<1>2. CASE Truncate(r)
  <2>1. Goto(r, "fill") /\ "fill" \in Busy /\ req[r].pc = "truncate" /\ address_conf' = {}
    BY <1>2 DEF Truncate, Busy
  <2>2. /\ Only(r) /\ req'[r].pc = "fill" /\ req'[r].op = req[r].op /\ req'[r].domain = req[r].domain
        /\ req'[r].text = req[r].text /\ req'[r].failed = req[r].failed
    BY <2>1, GotoKeeps, Zenon DEF IInv
  <2>3. Rules' = {}
    BY <2>1 DEF Rules
  <2>4. Rewrote(req[r]) => Rewrote(req[r])'
    BY <1>1, <2>1, <2>2, <2>3, Zenon DEF Rewrote, Written, Reading, Locked, Listening, Obeyed, InForce
  <2> QED BY <1>1, <2>2, <2>4, RulesLone DEF Written
<1>3. CASE Fill(r)
  <2>1. Goto(r, "load_file") /\ "load_file" \in Busy /\ req[r].pc = "fill"
    BY <1>3, Zenon DEF Fill, Busy
  <2>2. /\ Only(r) /\ req'[r].pc = "load_file" /\ req'[r].op = req[r].op
        /\ req'[r].domain = req[r].domain /\ req'[r].failed = req[r].failed
    BY <2>1, GotoKeeps DEF IInv
  <2>3. Rules = {} => Rules' = req[r].text
    <3>1. Rules = {} => address_conf' = req[r].text
      BY <1>3, Zenon DEF Fill
    <3>2. req[r].text \in SUBSET Domains
      BY DEF IInv, TypeOK, Request
    <3>3. Rules = {} => address_conf' = req[r].text /\ address_conf' # Absent
      BY <3>1, <3>2, ReloadAssumption, Zenon
    <3> QED BY <3>3 DEF Rules
  <2>4. Rewrote(req[r]) => Rewrote(req[r])'
    <3>1. ASSUME Rewrote(req[r])
          PROVE  managed_dir' /\ Rules' = req[r].text /\ Obeyed(req[r], req[r].text)
      BY <1>1, <2>1, <2>3, <3>1, Zenon DEF Rewrote, Written
    <3>2. ASSUME Rewrote(req[r])
          PROVE  OnDisk' = req[r].text /\ Obeyed(req'[r], req[r].text)
      BY <2>2, <3>1, <3>2, Zenon DEF OnDisk, Obeyed
    <3> QED BY <2>2, <3>2, Zenon DEF Rewrote, Written, Reading, Locked, Listening, Obeyed, InForce
  <2> QED BY <1>1, <2>2, <2>4, RulesLone, Zenon DEF Reading
<1> QED BY <1>2, <1>3

\* The files are read.
LEMMA LoadLone ==
  ASSUME IInv, LoneInv, NEW r \in Requests, LoadFile(r) \/ LoadManaged(r)
  PROVE  LoneInv'
<1>1. UNCHANGED <<alone, managed_dir, address_conf>> /\ req[r].pc \in Busy \ {"bind", "insert"}
  BY DEF LoadFile, LoadManaged, Busy, disk
<1>2. PICK w \in Request : w = req[r]
  BY DEF IInv, TypeOK
<1>3. OnDisk' = OnDisk
  BY <1>1 DEF Rules, OnDisk
<1>4. CASE LoadFile(r)
  <2>1. PICK c \in Config :
          req' = [req EXCEPT ![r] = [req[r] EXCEPT !.pc = "load_managed", !.used = c]]
    BY <1>4, FileRead, Zenon
  <2>2. PICK v : v = [w EXCEPT !.pc = "load_managed", !.used = c]
    BY Zenon
  <2>3. v \in Request /\ v.pc = "load_managed" /\ v.op = w.op /\ v.domain = w.domain
        /\ v.failed = w.failed
    BY <2>2, Zenon DEF Request, Busy
  <2>4. Only(r) /\ req'[r] = v
    BY <1>2, <2>1, <2>2, <2>3, Becomes, Zenon DEF IInv
  <2>5. w.pc = "load_file"
    BY <1>2, <1>4 DEF LoadFile
  <2>6. Rewrote(w) => Obeyed(v, OnDisk)
    BY <2>3, <2>5, Zenon DEF Rewrote, Reading, Obeyed
  <2>7. Rewrote(w) => Rewrote(req[r])'
    BY <1>3, <2>3, <2>4, <2>6, Zenon
       DEF Rewrote, Written, Reading, Locked, Listening, Obeyed, InForce
  <2> QED BY <1>1, <1>2, <2>3, <2>4, <2>7, RulesLone DEF Reading
<1>5. CASE LoadManaged(r)
  <2>1. PICK c \in Config, seen \in {"all", "part"} :
          /\ req' = [req EXCEPT ![r] = [req[r] EXCEPT !.pc = "store_cfg", !.used = c,
                                                      !.seen = seen]]
          /\ c.rules \subseteq OnDisk
          /\ seen = "all" => c.rules = OnDisk
    BY <1>5, ManagedRead, Zenon
  <2>2. PICK v : v = [w EXCEPT !.pc = "store_cfg", !.used = c, !.seen = seen]
    BY Zenon
  <2>3. v \in Request /\ v.pc = "store_cfg" /\ v.used = c /\ v.seen = seen /\ v.op = w.op
        /\ v.domain = w.domain /\ v.failed = w.failed
    BY <2>2, Zenon DEF Request, Busy
  <2>4. Only(r) /\ req'[r] = v
    BY <1>2, <2>1, <2>2, <2>3, Becomes, Zenon DEF IInv
  <2>5. w.pc = "load_managed"
    BY <1>2, <1>5 DEF LoadManaged
  <2>6. Rewrote(w) => Obeyed(w, OnDisk)
    BY <2>5, Zenon DEF Rewrote, Reading
  <2>7. Rewrote(w) => InForce(v, v.used.rules)
    BY <2>1, <2>3, <2>6 DEF Obeyed, InForce
  <2>8. Rewrote(w) => Rewrote(req[r])'
    BY <2>3, <2>4, <2>7, Zenon DEF Rewrote, Written, Reading, Locked, Listening, InForce
  <2> QED BY <1>1, <1>2, <2>3, <2>4, <2>8, RulesLone
<1> QED BY <1>4, <1>5

\* The configuration is stored.
LEMMA StoreLone ==
  ASSUME IInv, LoneInv, NEW r \in Requests, StoreCfg(r)
  PROVE  LoneInv'
<1>1. UNCHANGED alone /\ req[r].pc = "store_cfg" /\ Goto(r, "read_cfg") /\ cfg' = req[r].used
      /\ "read_cfg" \in Busy /\ "store_cfg" \in Busy \ {"bind", "insert"}
  BY DEF StoreCfg, Busy
<1>2. /\ Only(r) /\ req'[r].pc = "read_cfg" /\ req'[r].op = req[r].op
      /\ req'[r].domain = req[r].domain /\ req'[r].failed = req[r].failed
      /\ req'[r].seen = req[r].seen
  BY <1>1, GotoKeeps, Zenon DEF IInv
<1>3. Rewrote(req[r]) => Rewrote(req[r])'
  BY <1>1, <1>2, Zenon DEF Rewrote, Written, Reading, Locked, Listening, InForce
<1> QED BY <1>1, <1>2, <1>3, RulesLone DEF Reading

\* While chain and client are built the configuration stays, and nothing is said of the
\* listeners.
LEMMA ChainLone ==
  ASSUME IInv, LoneInv, NEW r \in Requests, Only(r), UNCHANGED <<alone, cfg>>,
         req[r].pc \in {"read_cfg", "lock", "listener_cfg"} \cup Locked,
         req'[r].pc \in {"lock", "listener_cfg", "diff"} \cup Locked,
         req'[r].op = req[r].op, req'[r].domain = req[r].domain, req'[r].failed = req[r].failed,
         req'[r].seen = req[r].seen,
         r \in alone /\ Rebuilt(req[r]) => Rebuilt(req[r])'
  PROVE  LoneInv'
<1>1. req'[r].pc # "idle" /\ req[r].pc \in Busy
  BY Zenon DEF Locked, Busy
<1>2. Rewrote(req[r]) => InForce(req[r], cfg.rules)
  BY Zenon DEF Rewrote, Locked, Listening
<1>3. Rewrote(req[r]) => Rewrote(req[r])'
  BY <1>2, Zenon DEF Rewrote, InForce, Written, Reading, Locked, Listening
<1>4. Rebound(req[r]) => Rebound(req[r])'
  BY Zenon DEF Rebound, Locked
<1>5. r \in alone /\ Progress(req[r]) => Progress(req[r])'
  BY <1>3, <1>4 DEF Progress
<1> QED BY <1>1, <1>5, AloneStep, Zenon

\* The configuration is read, for the chain and for the listeners.
LEMMA ReadLone ==
  ASSUME IInv, LoneInv, NEW r \in Requests, ReadCfg(r) \/ ListenerCfg(r)
  PROVE  LoneInv'
<1>1. UNCHANGED <<alone, cfg, mw_handler, dns_client, cache>>
  BY DEF ReadCfg, ListenerCfg, state
<1>2. PICK w \in Request : w = req[r]
  BY DEF IInv, TypeOK
<1>3. PICK pc \in {"lock", "diff"} :
        /\ req' = [req EXCEPT ![r] = [w EXCEPT !.pc = pc, !.used = cfg]]
        /\ w.pc = IF pc = "lock" THEN "read_cfg" ELSE "listener_cfg"
  <2>1. CASE ReadCfg(r)
    <3>1. req' = [req EXCEPT ![r] = [w EXCEPT !.pc = "lock", !.used = cfg]] /\ w.pc = "read_cfg"
      BY <1>2, <2>1, Zenon DEF ReadCfg
    <3> QED BY <3>1
  <2>2. CASE ListenerCfg(r)
    <3>1. req' = [req EXCEPT ![r] = [w EXCEPT !.pc = "diff", !.used = cfg]] /\ w.pc = "listener_cfg"
      BY <1>2, <2>2, Zenon DEF ListenerCfg
    <3> QED BY <3>1
  <2> QED BY <2>1, <2>2
<1>4. PICK v : v = [w EXCEPT !.pc = pc, !.used = cfg]
  OBVIOUS
<1>5. cfg \in Config
  BY DEF IInv, TypeOK
<1>6. v \in Request /\ v.pc = pc /\ v.used = cfg /\ v.op = w.op /\ v.domain = w.domain
      /\ v.failed = w.failed /\ v.seen = w.seen
  BY <1>3, <1>4, <1>5, Zenon DEF Request, Busy
<1>7. Only(r) /\ req'[r] = v
  BY <1>3, <1>4, <1>6, Becomes, Zenon DEF IInv
<1>8. w.pc = "listener_cfg" /\ Rebuilt(w) => Built'
  BY <1>1 DEF Rebuilt, Built, Listening
<1>9. Rebuilt(w) => Rebuilt(req[r])'
  BY <1>1, <1>3, <1>6, <1>7, <1>8 DEF Rebuilt, Locked, Listening
<1> QED BY <1>1, <1>2, <1>3, <1>6, <1>7, <1>9, ChainLone, Zenon

\* The lock is taken; client and chain are built and stored.
LEMMA BuildLone ==
  ASSUME IInv, LoneInv, NEW r \in Requests,
         Lock(r) \/ BuildMiddleware(r) \/ StoreHandler(r) \/ StoreClient(r)
  PROVE  LoneInv'
<1>1. UNCHANGED <<alone, cfg>> /\ req[r].pc \in {"lock"} \cup Locked
  BY Zenon DEF Lock, BuildMiddleware, StoreHandler, StoreClient, Locked
<1>2. PICK pc \in Busy : Goto(r, pc) /\ pc \in {"listener_cfg"} \cup Locked
  BY DEF Lock, BuildMiddleware, StoreHandler, StoreClient, Locked, Busy
<1>3. /\ Only(r) /\ req'[r].pc = pc /\ req'[r].op = req[r].op /\ req'[r].domain = req[r].domain
      /\ req'[r].used = req[r].used /\ req'[r].failed = req[r].failed
      /\ req'[r].seen = req[r].seen
  BY <1>2, GotoKeeps, Zenon DEF IInv
<1>4. Rebuilt(req[r]) => req[r].used = cfg
  BY <1>1 DEF Rebuilt
<1>5. Rebuilt(req[r]) => Rebuilt(req[r])'
  <2> SUFFICES ASSUME Rebuilt(req[r]) PROVE Rebuilt(req[r])'
    OBVIOUS
  <2>1. CASE Lock(r)
    <3>1. req'[r].pc = "build"
      BY <2>1, GotoKeeps, Zenon DEF Lock, Busy, IInv
    <3> QED BY <1>1, <1>3, <1>4, <3>1, Zenon DEF Rebuilt, Listening, Locked
  <2>2. CASE BuildMiddleware(r)
    <3>1. req'[r].pc = "store_handler"
      BY <2>2, GotoKeeps, Zenon DEF BuildMiddleware, Busy, IInv
    <3>2. cfg'.caching => cache' = cfg'
      BY <1>1, <1>4, <2>2 DEF BuildMiddleware
    <3> QED BY <1>1, <1>3, <1>4, <3>1, <3>2, Zenon DEF Rebuilt, Listening, Locked
  <2>3. CASE StoreHandler(r)
    <3>1. req'[r].pc = "store_client"
      BY <2>3, GotoKeeps, Zenon DEF StoreHandler, Busy, IInv
    <3>2. (cfg'.caching => cache' = cfg') /\ mw_handler' = cfg'
      BY <1>1, <1>4, <2>3, Zenon DEF StoreHandler, Rebuilt
    <3> QED BY <1>1, <1>3, <1>4, <3>1, <3>2, Zenon DEF Rebuilt, Listening, Locked
  <2>4. CASE StoreClient(r)
    <3>1. req'[r].pc = "listener_cfg"
      BY <2>4, GotoKeeps, Zenon DEF StoreClient, Busy, IInv
    <3>2. Built'
      BY <1>1, <1>4, <2>4, Zenon DEF StoreClient, Rebuilt, Built
    <3> QED BY <3>1, <3>2, Zenon DEF Rebuilt, Listening, Locked
  <2> QED BY <2>1, <2>2, <2>3, <2>4
<1> QED BY <1>1, <1>2, <1>3, <1>5, ChainLone, Zenon

\* While the listeners are changed the configuration and what was built from it stay.
LEMMA MapLone ==
  ASSUME IInv, LoneInv, NEW r \in Requests, Only(r),
         UNCHANGED <<alone, cfg, mw_handler, dns_client, cache>>,
         req[r].pc \in Listening \ {"listener_cfg"}, req'[r].pc \in {"remove", "bind", "insert"},
         req'[r].op = req[r].op, req'[r].domain = req[r].domain, req'[r].seen = req[r].seen,
         r \in alone /\ Progress(req[r]) => Rebound(req[r])'
  PROVE  LoneInv'
<1>1. req'[r].pc # "idle" /\ req[r].pc \in Busy
  BY Zenon DEF Listening, Busy
<1>2. Rewrote(req[r]) => InForce(req[r], cfg.rules)
  BY Zenon DEF Rewrote
<1>3. Rewrote(req[r]) => Rewrote(req[r])'
  BY <1>2, Zenon DEF Rewrote, InForce, Written, Reading, Locked, Listening
<1>4. Rebuilt(req[r]) => Built'
  BY Zenon DEF Rebuilt, Built
<1>5. Rebuilt(req[r]) => Rebuilt(req[r])'
  BY <1>4, Zenon DEF Rebuilt, Locked
<1>6. r \in alone /\ Progress(req[r]) => Progress(req[r])'
  BY <1>3, <1>5, Zenon DEF Progress
<1> QED BY <1>1, <1>6, AloneStep, Zenon

\* The difference between configuration and map.
LEMMA DiffLone ==
  ASSUME IInv, LoneInv, NEW r \in Requests, Diff(r)
  PROVE  LoneInv'
<1>1. UNCHANGED <<alone, cfg, mw_handler, dns_client, cache, listeners>> /\ req[r].pc = "diff"
  BY Zenon DEF Diff, state, net
<1>2. PICK w \in Request : w = req[r]
  BY DEF IInv, TypeOK
<1>3. PICK stale : stale = Registered \ w.used.binds
  BY Zenon
<1>4. PICK fresh : fresh = w.used.binds \ Registered
  BY Zenon
<1>5. PICK pc : pc = IF stale = {} THEN "bind" ELSE "remove"
  OBVIOUS
<1>6. PICK v : v = [w EXCEPT !.pc = pc, !.fresh = fresh, !.stale = stale]
  OBVIOUS
<1>7. w.used.binds \in SUBSET Addrs /\ Registered \in SUBSET Addrs
  BY DEF Request, Config, Registered
<1>8. stale \in SUBSET Addrs /\ fresh \in SUBSET Addrs
  BY <1>3, <1>4, <1>7
<1>9. pc \in {"bind", "remove"} /\ pc \in Busy
  BY <1>5 DEF Busy
<1>10. v \in Request /\ v.pc = pc /\ v.fresh = fresh /\ v.stale = stale /\ v.op = w.op
       /\ v.domain = w.domain /\ v.failed = w.failed /\ v.seen = w.seen
  BY <1>6, <1>8, <1>9, Zenon DEF Request
<1>11. req' = [req EXCEPT ![r] = v]
  BY <1>2, <1>3, <1>4, <1>5, <1>6, Zenon DEF Diff
<1>12. Only(r) /\ req'[r] = v
  BY <1>10, <1>11, Becomes, Zenon DEF IInv
<1>13. Progress(w) => w.used = cfg /\ w.failed = {}
  BY <1>1, <1>2, Zenon DEF Progress, Rebuilt, Rebound
<1>14. Registered' = Registered
  BY <1>1 DEF Registered
<1>15. ASSUME Progress(w), pc = "bind" PROVE Covered(req[r], {})'
  <2>1. Registered \subseteq cfg.binds /\ fresh = cfg.binds \ Registered
    BY <1>3, <1>4, <1>5, <1>13, <1>15
  <2>2. Registered = cfg.binds \ fresh
    BY <2>1
  <2> QED BY <1>1, <1>10, <1>12, <1>13, <1>14, <1>15, <2>1, <2>2 DEF Covered
<1>16. Progress(w) => Rebound(req[r])'
  BY <1>1, <1>3, <1>4, <1>9, <1>10, <1>12, <1>13, <1>14, <1>15, Zenon DEF Rebound
<1> QED BY <1>1, <1>2, <1>9, <1>10, <1>12, <1>16, MapLone, Zenon DEF Listening

\* What is to be stopped is taken out of the map.
LEMMA RemoveLone ==
  ASSUME IInv, LoneInv, NEW r \in Requests, Remove(r)
  PROVE  LoneInv'
<1>1. UNCHANGED <<alone, cfg, mw_handler, dns_client, cache>> /\ req[r].pc = "remove"
  BY DEF Remove, state
<1>2. PICK w \in Request : w = req[r]
  BY DEF IInv, TypeOK
<1>3. PICK v : v = [w EXCEPT !.pc = "bind", !.stale = {}]
  OBVIOUS
<1>4. v \in Request /\ v.pc = "bind" /\ v.fresh = w.fresh /\ v.op = w.op
      /\ v.domain = w.domain /\ v.failed = w.failed /\ v.seen = w.seen
  BY <1>3, Zenon DEF Request, Busy
<1>5. req' = [req EXCEPT ![r] = v]
  BY <1>2, <1>3, Zenon DEF Remove
<1>6. Only(r) /\ req'[r] = v
  BY <1>4, <1>5, Becomes, Zenon DEF IInv
<1>7. Registered' = Registered \ w.stale
  BY <1>2 DEF Remove, Registered
<1>8. ASSUME Progress(w) PROVE Covered(req[r], {})'
  <2>1. w.failed = {} /\ w.stale = Registered \ cfg.binds /\ w.fresh = cfg.binds \ Registered
    BY <1>1, <1>2, <1>8, Zenon DEF Progress, Rebound
  <2>2. Registered' = cfg.binds \ w.fresh
    BY <1>7, <2>1
  <2> QED BY <1>1, <1>4, <1>6, <2>1, <2>2, Zenon DEF Covered
<1>9. Progress(w) => Rebound(req[r])'
  BY <1>4, <1>6, <1>8, Zenon DEF Rebound
<1> QED BY <1>1, <1>2, <1>4, <1>6, <1>9, MapLone, Zenon DEF Listening

\* An address is bound, or cannot be.
LEMMA BindLone ==
  ASSUME IInv, LoneInv, NEW r \in Requests, NEW a \in Addrs, Bind(r, a) \/ BindFails(r, a)
  PROVE  LoneInv'
<1>1. UNCHANGED <<alone, cfg, mw_handler, dns_client, cache, listeners>> /\ req[r].pc = "bind"
      /\ a \in req[r].fresh
  BY DEF Bind, BindFails, state, net
<1>2. PICK w \in Request : w = req[r]
  BY DEF IInv, TypeOK
<1>3. Registered' = Registered
  BY <1>1 DEF Registered
<1>4. PICK fresh : fresh = w.fresh \ {a}
  BY Zenon
<1>5. fresh \in SUBSET Addrs
  BY <1>4 DEF Request
<1>6. Progress(w) => Covered(w, {})
  BY <1>1, <1>2, Zenon DEF Progress, Rebound
<1>7. CASE Bind(r, a)
  <2>1. PICK n : n = Len(servers) + 1
    OBVIOUS
  <2>2. n \in Nat /\ servers \in Seq(Server)
    <3>1. Len(servers) \in Nat
      BY ServerFacts DEF IInv
    <3>2. servers \in Seq(Server)
      BY DEF IInv, TypeOK
    <3> QED BY <2>1, <3>1, <3>2
  <2>3. servers'[n].addr = a
    <3>1. PICK new : new = [addr |-> a, home |-> w.via, st |-> "serving"]
      BY Zenon
    <3>2. servers' = Append(servers, new)
      BY <1>2, <1>7, <3>1 DEF Bind
    <3>3. servers'[n] = new
      BY <2>1, <2>2, <3>2
    <3>4. new.addr = a
      BY <3>1
    <3> QED BY <3>3, <3>4
  <2>4. PICK v : v = [w EXCEPT !.pc = "insert", !.fresh = fresh, !.bound = n]
    OBVIOUS
  <2>5. v \in Request /\ v.pc = "insert" /\ v.fresh = fresh /\ v.op = w.op
        /\ v.domain = w.domain /\ v.failed = w.failed /\ v.seen = w.seen /\ v.bound = n
    BY <1>5, <2>2, <2>4, Zenon DEF Request, Busy
  <2>6. req' = [req EXCEPT ![r] = v]
    BY <1>2, <1>4, <1>7, <2>1, <2>4, Zenon DEF Bind
  <2>7. Only(r) /\ req'[r] = v
    BY <2>5, <2>6, Becomes, Zenon DEF IInv
  <2>8. ASSUME Progress(w) PROVE Covered(req[r], {servers[req[r].bound].addr})'
    <3>1. /\ Registered = cfg.binds \ (w.fresh \cup w.failed)
          /\ w.fresh \subseteq cfg.binds /\ w.fresh \cap w.failed = {} /\ a \in w.fresh
      BY <1>1, <1>2, <1>6, <2>8, Zenon DEF Covered
    <3>2. /\ Registered = cfg.binds \ (fresh \cup w.failed \cup {a})
          /\ fresh \cup {a} \subseteq cfg.binds
          /\ (fresh \cup {a}) \cap w.failed = {} /\ {a} \cap fresh = {}
      BY <1>4, <3>1
    <3> QED BY <1>1, <1>3, <2>3, <2>5, <2>7, <3>2, Zenon DEF Covered
  <2>9. Progress(w) => Rebound(req[r])'
    BY <2>5, <2>7, <2>8, Zenon DEF Rebound
  <2> QED BY <1>1, <1>2, <2>5, <2>7, <2>9, MapLone, Zenon DEF Listening
<1>8. CASE BindFails(r, a)
  <2>1. PICK failed : failed = w.failed \cup {a}
    BY Zenon
  <2>2. failed \in SUBSET Addrs
    BY <2>1 DEF Request
  <2>3. PICK v : v = [w EXCEPT !.fresh = fresh, !.failed = failed]
    OBVIOUS
  <2>4. v \in Request /\ v.pc = w.pc /\ v.fresh = fresh /\ v.op = w.op
        /\ v.domain = w.domain /\ v.failed = failed /\ v.seen = w.seen
    BY <1>5, <2>2, <2>3, Zenon DEF Request
  <2>5. req' = [req EXCEPT ![r] = v]
    BY <1>2, <1>4, <1>8, <2>1, <2>3, Zenon DEF BindFails
  <2>6. Only(r) /\ req'[r] = v
    BY <2>4, <2>5, Becomes, Zenon DEF IInv
  <2>7. ASSUME Progress(w) PROVE Covered(req[r], {})'
    <3>1. /\ Registered = cfg.binds \ (w.fresh \cup w.failed)
          /\ w.fresh \subseteq cfg.binds /\ w.fresh \cap w.failed = {} /\ a \in w.fresh
      BY <1>1, <1>2, <1>6, <2>7, Zenon DEF Covered
    <3>2. /\ Registered = cfg.binds \ (fresh \cup failed)
          /\ fresh \subseteq cfg.binds /\ fresh \cap failed = {}
      BY <1>4, <2>1, <3>1, Zenon
    <3> QED BY <1>1, <1>3, <2>4, <2>6, <3>2, Zenon DEF Covered
  <2>8. Progress(w) => Rebound(req[r])'
    BY <1>1, <1>2, <2>4, <2>6, <2>7, Zenon DEF Rebound
  <2> QED BY <1>1, <1>2, <2>4, <2>6, <2>8, MapLone, Zenon DEF Listening
<1> QED BY <1>7, <1>8

\* The listener that was started is registered.
LEMMA InsertLone ==
  ASSUME IInv, LoneInv, NEW r \in Requests, Insert(r)
  PROVE  LoneInv'
<1>1. UNCHANGED <<alone, cfg, mw_handler, dns_client, cache>> /\ req[r].pc = "insert"
  BY DEF Insert, state
<1>2. PICK w \in Request : w = req[r]
  BY DEF IInv, TypeOK
<1>3. w.bound # 0 /\ w.bound \in Servers
  BY <1>1, <1>2, Zenon DEF IInv, NetInv, BoundOK
<1>4. PICK a : a = servers[w.bound].addr
  OBVIOUS
<1>5. a \in Addrs
  BY <1>3, <1>4, ServerFacts DEF IInv
<1>6. listeners' = [listeners EXCEPT ![a] = w.bound]
  BY <1>2, <1>4 DEF Insert
<1>7. listeners'[a] = w.bound /\ \A b \in Addrs : b # a => listeners'[b] = listeners[b]
  BY <1>5, <1>6 DEF IInv, TypeOK
<1>8. Registered' = Registered \cup {a}
  BY <1>3, <1>5, <1>7 DEF Registered
<1>9. PICK v : v = [w EXCEPT !.pc = "bind", !.bound = 0]
  OBVIOUS
<1>10. v \in Request /\ v.pc = "bind" /\ v.fresh = w.fresh /\ v.op = w.op
       /\ v.domain = w.domain /\ v.failed = w.failed /\ v.seen = w.seen
  BY <1>9, Zenon DEF Request, Busy
<1>11. req' = [req EXCEPT ![r] = v]
  BY <1>2, <1>9, Zenon DEF Insert
<1>12. Only(r) /\ req'[r] = v
  BY <1>10, <1>11, Becomes, Zenon DEF IInv
<1>13. ASSUME Progress(w) PROVE Covered(req[r], {})'
  <2>1. Covered(w, {a})
    BY <1>1, <1>2, <1>4, <1>13, Zenon DEF Progress, Rebound
  <2>2. /\ Registered' = cfg.binds \ (w.fresh \cup w.failed)
        /\ w.fresh \subseteq cfg.binds /\ w.fresh \cap w.failed = {}
    BY <1>8, <2>1 DEF Covered
  <2> QED BY <1>1, <1>10, <1>12, <2>2 DEF Covered
<1>14. Progress(w) => Rebound(req[r])'
  BY <1>10, <1>12, <1>13, Zenon DEF Rebound
<1> QED BY <1>1, <1>2, <1>10, <1>12, <1>14, MapLone, Zenon DEF Listening

\* A request arrives: it is alone if it meets no other one, and otherwise nobody at work is.
LEMMA ArriveLone ==
  ASSUME IInv, LoneInv, NEW r \in Requests, NEW s \in Servers, NEW o \in Ops[r], Arrive(r, s, o)
  PROVE  LoneInv'
<1>1. o.op \in {"reload", "create", "delete"} /\ o.domain \in Domains /\ s \in Nat
  BY ReloadAssumption DEF IInv, TypeOK, Servers
<1>2. PICK pc : pc = IF o.op = "reload" THEN "load_file" ELSE o.op
  OBVIOUS
<1>3. PICK v : v = [Idle EXCEPT !.pc = pc, !.op = o.op, !.domain = o.domain, !.via = s]
  OBVIOUS
<1>4. pc \in {"load_file", "create", "delete"} /\ pc \in Busy
      /\ (pc = "load_file" <=> o.op = "reload") /\ (pc # "load_file" => o.op = pc)
  BY <1>1, <1>2 DEF Busy
<1>5. v \in Request /\ v.pc = pc /\ v.op = o.op /\ v.failed = {}
  BY <1>1, <1>3, <1>4, Zenon DEF Request, Idle, Config, Nowhere
<1>6. req' = [req EXCEPT ![r] = v] /\ req[r].pc = "idle"
  BY <1>2, <1>3, Zenon DEF Arrive
<1>7. Only(r) /\ req'[r] = v
  BY <1>5, <1>6, Becomes, Zenon DEF IInv
<1>8. r \notin alone /\ alone \subseteq Requests /\ r \notin Working
  BY <1>6, Zenon DEF LoneInv, IInv, TypeOK, Working, Busy
<1>9. \A q \in alone : q # r /\ req'[q] = req[q] /\ req[q].pc # "idle"
  BY <1>7, <1>8, Zenon DEF Only, LoneInv
<1>10. \A q \in alone : q \in Working <=> req[q].pc \in Busy
  BY <1>8 DEF Working
<1>11. CASE Working = {}
  <2>1. alone' = alone \cup {r}
    BY <1>11 DEF Arrive
  <2>2. Working' = {r}
    BY <1>4, <1>5, <1>7, <1>11 DEF Working, Only
  <2>3. Progress(req[r])'
    <3>1. Rewrote(req[r])'
      BY <1>4, <1>5, <1>7, Zenon DEF Rewrote, Written, Reading, Locked, Listening, Obeyed, InForce
    <3>2. Rebuilt(req[r])'
      BY <1>4, <1>5, <1>7, Zenon DEF Rebuilt, Locked, Listening
    <3>3. Rebound(req[r])'
      BY <1>4, <1>5, <1>7, Zenon DEF Rebound
    <3> QED BY <3>1, <3>2, <3>3 DEF Progress
  <2>4. req'[r].pc # "idle"
    BY <1>4, <1>5, <1>7, Zenon
  <2>5. \A q \in alone : req'[q].pc # "idle" /\ req'[q].pc \notin Busy
    BY <1>9, <1>10, <1>11
  <2> QED BY <2>1, <2>2, <2>3, <2>4, <2>5, Zenon DEF LoneInv
<1>12. CASE Working # {}
  <2>1. alone' = alone \ Working
    BY <1>12 DEF Arrive
  <2>2. \A q \in alone' : req'[q].pc # "idle" /\ req'[q].pc \notin Busy
    BY <1>9, <1>10, <2>1
  <2> QED BY <2>2 DEF LoneInv
<1> QED BY <1>11, <1>12

\* A step of nobody's handler that leaves disk, state and map alone and at most aborts
\* requests.
LEMMA ElsewhereLone ==
  ASSUME IInv, LoneInv,
         UNCHANGED <<alone, managed_dir, address_conf, cfg, mw_handler, dns_client, cache,
                     listeners>>,
         \A s \in Servers : servers'[s].addr = servers[s].addr,
         \A q \in Requests : req'[q] = req[q] \/ req'[q].pc = "aborted"
  PROVE  LoneInv'
<1>1. ASSUME NEW q \in alone
      PROVE  req'[q].pc # "idle" /\ (req'[q].pc \in Busy => Working' = {q} /\ Progress(req[q])')
  <2>1. q \in Requests
    BY DEF IInv, TypeOK
  <2>2. CASE req'[q].pc = "aborted"
    BY <2>2 DEF Busy
  <2>3. CASE req'[q] = req[q] /\ req[q].pc \notin Busy
    BY <2>3 DEF LoneInv
  <2>4. CASE req'[q] = req[q] /\ req[q].pc \in Busy
    <3>1. Working = {q} /\ Progress(req[q])
      BY <2>4, LoneHas, Zenon
    <3>2. Working' = {q}
      BY <2>1, <2>4, <3>1 DEF Working, Busy
    <3>3. Rules' = Rules /\ OnDisk' = OnDisk /\ Registered' = Registered /\ (Built' <=> Built)
      BY DEF Rules, OnDisk, Registered, Built
    <3>4. PICK w : w = req[q]
      OBVIOUS
    <3>5. req'[q] = w /\ w.pc # "idle"
      BY <2>4, <3>4 DEF LoneInv
    <3>6. w.pc = "insert" => w.bound \in Servers
      BY <2>1, <3>4 DEF IInv, NetInv, BoundOK
    <3>7. w.pc = "insert" => servers'[w.bound].addr = servers[w.bound].addr
      BY <3>6
    <3>8. Rewrote(req[q])'
      BY <3>1, <3>3, <3>4, <3>5, Zenon DEF Progress, Rewrote, Obeyed, InForce
    <3>9. Rebuilt(req[q])'
      BY <3>1, <3>3, <3>4, <3>5, Zenon DEF Progress, Rebuilt
    <3>10. Rebound(req[q])'
      BY <3>1, <3>3, <3>4, <3>5, <3>7, Zenon DEF Progress, Rebound, Covered
    <3> QED BY <3>2, <3>5, <3>8, <3>9, <3>10, Zenon DEF Progress
  <2> QED BY <2>1, <2>2, <2>3, <2>4
<1> QED BY <1>1 DEF LoneInv

\* The steps of the administrator, of spawned shutdowns and of listeners that stop.
LEMMA EnvironmentLone ==
  ASSUME IInv, LoneInv,
         \/ \E c \in Confs : Edit(c)
         \/ \E t \in shutdowns : Shutdown(t)
         \/ \E s \in Servers : Stop(s) \/ StopHttp(s)
         \/ UNCHANGED vars
  PROVE  LoneInv'
<1>1. CASE (\E c \in Confs : Edit(c)) \/ (\E t \in shutdowns : Shutdown(t)) \/ UNCHANGED vars
  <2>1. UNCHANGED <<alone, managed_dir, address_conf, cfg, mw_handler, dns_client, cache,
                    listeners, servers, req>>
    BY <1>1, Zenon DEF Edit, Shutdown, vars, disk, state, net
  <2> QED BY <2>1, ElsewhereLone
<1>2. ASSUME NEW s \in Servers, Stop(s) PROVE LoneInv'
  <2>1. UNCHANGED <<alone, managed_dir, address_conf, cfg, mw_handler, dns_client, cache,
                    listeners, req>> /\ servers' = [servers EXCEPT ![s].st = "gone"]
    BY <1>2 DEF Stop, disk, state
  <2>2. \A x \in Servers : servers'[x].addr = servers[x].addr
    BY <2>1, ServerFacts DEF IInv, Server, Servers
  <2> QED BY <2>1, <2>2, ElsewhereLone
<1>3. ASSUME NEW s \in Servers, StopHttp(s) PROVE LoneInv'
  <2>1. UNCHANGED <<alone, managed_dir, address_conf, cfg, mw_handler, dns_client, cache,
                    listeners>>
    BY <1>3, Zenon DEF StopHttp, disk
  <2>2. \A x \in Servers : servers'[x].addr = servers[x].addr
    BY <1>3, ServerFacts, Zenon DEF StopHttp, IInv, Server
  <2>3. \A q \in Requests : req'[q] = req[q] \/ req'[q].pc = "aborted"
    <3> SUFFICES ASSUME NEW q \in Requests PROVE req'[q] = req[q] \/ req'[q].pc = "aborted"
      OBVIOUS
    <3>1. PICK v : v = [Idle EXCEPT !.pc = "aborted", !.op = req[q].op, !.domain = req[q].domain]
      OBVIOUS
    <3>2. v.pc = "aborted"
      BY <3>1, Zenon DEF Idle
    <3>3. req'[q] = req[q] \/ req'[q] = v
      BY <1>3, <3>1, Zenon DEF StopHttp
    <3> QED BY <3>2, <3>3, Zenon
  <2> QED BY <2>1, <2>2, <2>3, ElsewhereLone, Zenon
<1> QED BY <1>1, <1>2, <1>3

\* A request that is alone gets its way step by step.
LEMMA LoneStep == IInv /\ LoneInv /\ [Next]_vars => LoneInv'
<1> SUFFICES ASSUME IInv, LoneInv, [Next]_vars PROVE LoneInv'
  OBVIOUS
<1>1. ASSUME NEW r \in Requests, \E s \in Servers, o \in Ops[r] : Arrive(r, s, o)
      PROVE  LoneInv'
  BY <1>1, ArriveLone
<1>2. ASSUME NEW r \in Requests, Handle(r) PROVE LoneInv'
  <2>1. CASE Create(r) \/ Delete(r) \/ Truncate(r) \/ Fill(r)
    BY <2>1, EditLone, WriteLone
  <2>2. CASE LoadFile(r) \/ LoadManaged(r) \/ StoreCfg(r) \/ ReadCfg(r) \/ ListenerCfg(r)
    BY <2>2, LoadLone, StoreLone, ReadLone
  <2>3. CASE Lock(r) \/ BuildMiddleware(r) \/ StoreHandler(r) \/ StoreClient(r)
    BY <2>3, BuildLone
  <2>4. CASE Diff(r) \/ Remove(r) \/ Insert(r)
    BY <2>4, DiffLone, RemoveLone, InsertLone
  <2>5. CASE \E a \in Addrs : Bind(r, a) \/ BindFails(r, a)
    BY <2>5, BindLone
  <2>6. CASE IoFails(r) \/ Respond(r)
    <3>1. \E result \in Ended : End(r, result)
      BY <2>6, Zenon DEF IoFails, Respond, Ended
    <3>2. UNCHANGED alone /\ req[r].pc \in Busy
      BY <2>6, Zenon DEF IoFails, Respond, Busy
    <3> QED BY <3>1, <3>2, EndLone
  <2> QED BY <1>2, <2>1, <2>2, <2>3, <2>4, <2>5, <2>6 DEF Handle
<1> QED BY <1>1, <1>2, EnvironmentLone DEF Next

\* Only Respond reports success, and it does so when nothing is left to bind.
LEMMA SuccessIsRespond ==
  ASSUME IInv, NEW r \in Requests, [Next]_vars, req[r].pc = "bind", req'[r].pc = "ok"
  PROVE  req[r].fresh = {}
<1>1. req[r] \in Request /\ req' # req
  BY DEF IInv, TypeOK
<1>2. ASSUME NEW q \in Requests, \E s \in Servers, o \in Ops[q] : Arrive(q, s, o) PROVE FALSE
  <2>1. PICK v : req' = [req EXCEPT ![q] = v]
    BY <1>2 DEF Arrive
  <2>2. q # r
    BY <1>2 DEF Arrive
  <2> QED BY <2>1, <2>2 DEF IInv, TypeOK
<1>3. ASSUME NEW q \in Requests, Handle(q), q # r PROVE FALSE
  <2>1. \E v : req' = [req EXCEPT ![q] = v]
    <3>1. CASE Create(q) \/ Delete(q)
      BY <3>1, Zenon DEF Create, Delete, End
    <3>2. CASE Truncate(q) \/ Fill(q) \/ IoFails(q) \/ StoreCfg(q)
      BY <3>2, Zenon DEF Truncate, Fill, IoFails, StoreCfg, Goto, End
    <3>3. CASE LoadFile(q) \/ LoadManaged(q) \/ ReadCfg(q) \/ ListenerCfg(q)
      BY <3>3, Zenon DEF LoadFile, LoadManaged, ReadCfg, ListenerCfg
    <3>4. CASE Lock(q) \/ BuildMiddleware(q) \/ StoreHandler(q) \/ StoreClient(q)
      BY <3>4, Zenon DEF Lock, BuildMiddleware, StoreHandler, StoreClient, Goto
    <3>5. CASE Diff(q) \/ Respond(q)
      <4>1. PICK stale : stale = Registered \ req[q].used.binds
        BY Zenon
      <4>2. Diff(q) => req' = [req EXCEPT ![q] = [req[q] EXCEPT
                                 !.pc = IF stale = {} THEN "bind" ELSE "remove",
                                 !.fresh = req[q].used.binds \ Registered, !.stale = stale]]
        BY <4>1, Zenon DEF Diff
      <4> QED BY <3>5, <4>2, Zenon DEF Respond, End
    <3>6. CASE Remove(q) \/ Insert(q)
      <4>1. req' = [req EXCEPT ![q] = [req[q] EXCEPT !.pc = "bind", !.stale = {}]]
            \/ req' = [req EXCEPT ![q] = [req[q] EXCEPT !.pc = "bind", !.bound = 0]]
        BY <3>6, Zenon DEF Remove, Insert
      <4> QED BY <4>1, Zenon
    <3>7. ASSUME NEW a \in Addrs, Bind(q, a) \/ BindFails(q, a)
          PROVE  \E v : req' = [req EXCEPT ![q] = v]
      <4>1. req' = [req EXCEPT ![q] = [req[q] EXCEPT !.pc = "insert", !.fresh = @ \ {a},
                                                     !.bound = Len(servers) + 1]]
            \/ req' = [req EXCEPT ![q] = [req[q] EXCEPT !.fresh = @ \ {a}, !.failed = @ \cup {a}]]
        BY <3>7, Zenon DEF Bind, BindFails
      <4> QED BY <4>1, Zenon
    <3> QED BY <1>3, <3>1, <3>2, <3>3, <3>4, <3>5, <3>6, <3>7 DEF Handle
  <2> QED BY <1>3, <2>1 DEF IInv, TypeOK
<1>4. ASSUME Handle(r) PROVE req[r].fresh = {}
  <2>1. Respond(r) \/ \E a \in Addrs : Bind(r, a) \/ BindFails(r, a)
    BY <1>4 DEF Handle, Create, Delete, Truncate, Fill, IoFails, LoadFile, LoadManaged, StoreCfg,
                ReadCfg, Lock, BuildMiddleware, StoreHandler, StoreClient, ListenerCfg, Diff,
                Remove, Insert
  <2>2. ASSUME NEW a \in Addrs, Bind(r, a) PROVE FALSE
    <3>1. PICK v : v = [req[r] EXCEPT !.pc = "insert", !.fresh = @ \ {a},
                                      !.bound = Len(servers) + 1]
      OBVIOUS
    <3>2. v.pc = "insert"
      BY <1>1, <3>1, Zenon DEF Request
    <3>3. req' = [req EXCEPT ![r] = v]
      BY <2>2, <3>1, Zenon DEF Bind
    <3> QED BY <3>2, <3>3 DEF IInv, TypeOK
  <2>3. ASSUME NEW a \in Addrs, BindFails(r, a) PROVE FALSE
    <3>1. PICK v : v = [req[r] EXCEPT !.fresh = @ \ {a}, !.failed = @ \cup {a}]
      OBVIOUS
    <3>2. v.pc = req[r].pc
      BY <1>1, <3>1, Zenon DEF Request
    <3>3. req' = [req EXCEPT ![r] = v]
      BY <2>3, <3>1, Zenon DEF BindFails
    <3> QED BY <3>2, <3>3 DEF IInv, TypeOK
  <2> QED BY <2>1, <2>2, <2>3, Zenon DEF Respond
<1>5. ASSUME NEW s \in Servers, StopHttp(s) PROVE FALSE
  <2>1. PICK v : v = [Idle EXCEPT !.pc = "aborted", !.op = req[r].op, !.domain = req[r].domain]
    OBVIOUS
  <2>2. v.pc = "aborted"
    BY <2>1, Zenon DEF Idle
  <2>3. req'[r] = req[r] \/ req'[r] = v
    BY <1>5, <2>1, Zenon DEF StopHttp
  <2> QED BY <2>2, <2>3
<1>6. ~UNCHANGED vars /\ (\A c \in Confs : ~Edit(c)) /\ (\A t \in shutdowns : ~Shutdown(t))
      /\ (\A s \in Servers : ~Stop(s))
  BY <1>1 DEF vars, Edit, Shutdown, Stop
<1> QED BY <1>2, <1>3, <1>4, <1>5, <1>6 DEF Next

\* A request that is alone and reports success left what LoneReload says.
LEMMA SuccessOfLone ==
  ASSUME IInv, LoneInv, [Next]_vars, NEW r \in alone, req[r].pc = "bind", req'[r].pc = "ok"
  PROVE  /\ Built /\ Registered = cfg.binds \ req[r].failed
         /\ InForce(req[r], cfg.rules)
<1>1. req[r].fresh = {}
  BY SuccessIsRespond DEF IInv, TypeOK
<1>2. Progress(req[r])
  BY LoneHas DEF Busy
<1>3. Built /\ Covered(req[r], {}) /\ InForce(req[r], cfg.rules)
  BY <1>2, Zenon DEF Progress, Rewrote, Rebuilt, Rebound, Listening
<1> QED BY <1>1, <1>3 DEF Covered

\* A reload, create or delete that no other request overlapped and that reports success
\* leaves chain, client, cache and listeners as the configuration it loaded says, whatever
\* overlapping requests had left behind in address.conf, `cfg`, the chain and the map
\* before; the rule it deleted is out of force, and the rule it created is in force if the
\* managed files were read to their end, which load_managed_dir does not report
\* (App::reload, api/address.rs, RuntimeConfigBuilder::build).
THEOREM LoneTakesEffect == Spec => LoneReload
<1>1. Init => LoneInv
  BY Zenon DEF Init, LoneInv
<1>2. Spec => []LoneInv
  BY <1>1, LoneStep, Invariance, PTL DEF Spec
<1>3. IInv /\ LoneInv /\ [Next]_vars =>
        [\A r \in alone : req[r].pc = "bind" /\ req'[r].pc = "ok" =>
           /\ mw_handler = cfg /\ dns_client = cfg
           /\ cfg.caching => cache = cfg
           /\ Registered = cfg.binds \ req[r].failed
           /\ req[r].op = "create" /\ req[r].seen = "all" => req[r].domain \in cfg.rules
           /\ req[r].op = "delete" => req[r].domain \notin cfg.rules]_vars
  BY SuccessOfLone DEF Built, InForce
<1> QED BY <1>2, <1>3, Invariance, PTL DEF Spec, LoneReload

-----------------------------------------------------------------------------
\* Handlers come to their end

\* The places of a handler before it binds.
Before == {"create", "delete", "truncate", "fill", "load_file", "load_managed", "store_cfg",
           "read_cfg", "lock", "build", "store_handler", "store_client", "listener_cfg",
           "diff", "remove"}

\* Their ranks.
LEMMA Ranks ==
  /\ DOMAIN Rank = Before
  /\ Busy = Before \cup {"bind", "insert"}
  /\ Rank["remove"] = 2 /\ Rank["diff"] = 3 /\ Rank["listener_cfg"] = 4
  /\ Rank["store_client"] = 5 /\ Rank["store_handler"] = 6 /\ Rank["build"] = 7
  /\ Rank["lock"] = 8 /\ Rank["read_cfg"] = 9 /\ Rank["store_cfg"] = 10
  /\ Rank["load_managed"] = 11 /\ Rank["load_file"] = 12 /\ Rank["fill"] = 13
  /\ Rank["truncate"] = 14 /\ Rank["create"] = 15 /\ Rank["delete"] = 15
<1>1. DOMAIN Rank = Before
  BY DEF Rank, Before
<1>2. Busy = Before \cup {"bind", "insert"}
  BY DEF Busy, Before
<1> QED BY <1>1, <1>2, Zenon DEF Rank

\* Place q is nearer to the end than place p.
Follows(q, p) == p \in Before /\ q \in Before /\ Rank[q] < Rank[p]

\* A handler goes through its places in this order.
LEMMA Order ==
  /\ Follows("fill", "truncate") /\ Follows("load_file", "fill")
  /\ Follows("load_managed", "load_file") /\ Follows("store_cfg", "load_managed")
  /\ Follows("read_cfg", "store_cfg") /\ Follows("lock", "read_cfg")
  /\ Follows("build", "lock") /\ Follows("store_handler", "build")
  /\ Follows("store_client", "store_handler") /\ Follows("listener_cfg", "store_client")
  /\ Follows("diff", "listener_cfg")
BY Ranks DEF Follows, Before

\* What HandlerProgress says of one request.
Nearer(w, v) == StepsLeft(v) < StepsLeft(w) /\ StepsLeft(v) >= 0

\* The measure by place, in natural numbers.
LEMMA Measured ==
  ASSUME NEW w \in Request
  PROVE  /\ Cardinality(w.fresh) \in Nat /\ Cardinality(w.fresh) <= Cardinality(Addrs)
         /\ Cardinality(Addrs) \in Nat
         /\ w.pc = "bind" => StepsLeft(w) = 2 * Cardinality(w.fresh) + 1
         /\ w.pc = "insert" => StepsLeft(w) = 2 * Cardinality(w.fresh) + 2
         /\ w.pc \in Before => StepsLeft(w) = 2 * Cardinality(Addrs) + Rank[w.pc]
         /\ w.pc \in Ended => StepsLeft(w) = 0
<1>1. w.fresh \subseteq Addrs
  BY DEF Request
<1>2. /\ IsFiniteSet(w.fresh)
      /\ Cardinality(w.fresh) \in Nat /\ Cardinality(w.fresh) <= Cardinality(Addrs)
      /\ Cardinality(Addrs) \in Nat
  BY <1>1, FiniteAddrs, FS_Subset, FS_CardinalityType
<1>3. w.pc = "bind" => StepsLeft(w) = 2 * Cardinality(w.fresh) + 1
  BY Ranks DEF StepsLeft, Before
<1>4. w.pc = "insert" => StepsLeft(w) = 2 * Cardinality(w.fresh) + 2
  BY Ranks DEF StepsLeft, Before
<1>5. w.pc \in Before => StepsLeft(w) = 2 * Cardinality(Addrs) + Rank[w.pc]
  BY Ranks DEF StepsLeft, Before
<1>6. w.pc \in Ended => StepsLeft(w) = 0
  BY Ranks DEF StepsLeft, Before, Ended
<1> QED BY <1>2, <1>3, <1>4, <1>5, <1>6

\* A handler that ends.
LEMMA EndNearer ==
  ASSUME NEW w \in Request, NEW v \in Request, w.pc \in Busy, v.pc \in Ended
  PROVE  Nearer(w, v)
<1>1. StepsLeft(v) = 0
  BY Measured
<1>2. CASE w.pc \in Before
  <2>1. Rank[w.pc] \in Nat /\ Rank[w.pc] >= 1
    BY <1>2, Ranks DEF Before
  <2>2. StepsLeft(w) = 2 * Cardinality(Addrs) + Rank[w.pc] /\ Cardinality(Addrs) \in Nat
    BY <1>2, Measured
  <2> QED BY <1>1, <2>1, <2>2 DEF Nearer
<1>3. CASE w.pc \in {"bind", "insert"}
  BY <1>1, <1>3, Measured DEF Nearer
<1> QED BY <1>2, <1>3, Ranks

\* A handler that goes on before it binds, or comes to it.
LEMMA GoesNearer ==
  ASSUME NEW w \in Request, NEW v \in Request, w.pc \in Before,
         \/ v.pc \in Before /\ Rank[v.pc] < Rank[w.pc]
         \/ v.pc = "bind"
  PROVE  Nearer(w, v)
<1>1. Rank[w.pc] \in Nat /\ Rank[w.pc] >= 2
  BY Ranks DEF Before
<1>2. StepsLeft(w) = 2 * Cardinality(Addrs) + Rank[w.pc] /\ Cardinality(Addrs) \in Nat
  BY Measured
<1>3. CASE v.pc \in Before /\ Rank[v.pc] < Rank[w.pc]
  <2>1. Rank[v.pc] \in Nat
    BY <1>3, Ranks DEF Before
  <2>2. StepsLeft(v) = 2 * Cardinality(Addrs) + Rank[v.pc]
    BY <1>3, Measured
  <2> QED BY <1>1, <1>2, <1>3, <2>1, <2>2 DEF Nearer
<1>4. CASE v.pc = "bind"
  <2>1. /\ StepsLeft(v) = 2 * Cardinality(v.fresh) + 1
        /\ Cardinality(v.fresh) \in Nat /\ Cardinality(v.fresh) <= Cardinality(Addrs)
    BY <1>4, Measured
  <2> QED BY <1>1, <1>2, <2>1 DEF Nearer
<1> QED BY <1>3, <1>4

\* A handler that binds, fails to, or registers what it has bound.
LEMMA BindsNearer ==
  ASSUME NEW w \in Request, NEW v \in Request,
         \/ /\ w.pc = "bind" /\ v.pc \in {"bind", "insert"}
            /\ \E a \in w.fresh : v.fresh = w.fresh \ {a}
         \/ w.pc = "insert" /\ v.pc = "bind" /\ v.fresh = w.fresh
  PROVE  Nearer(w, v)
<1>1. CASE /\ w.pc = "bind" /\ v.pc \in {"bind", "insert"}
           /\ \E a \in w.fresh : v.fresh = w.fresh \ {a}
  <2>1. PICK a \in w.fresh : v.fresh = w.fresh \ {a}
    BY <1>1
  <2>2. IsFiniteSet(w.fresh)
    BY FiniteAddrs, FS_Subset DEF Request
  <2>3. Cardinality(v.fresh) = Cardinality(w.fresh) - 1
    BY <2>1, <2>2, FS_RemoveElement, Zenon
  <2>4. StepsLeft(w) = 2 * Cardinality(w.fresh) + 1 /\ Cardinality(w.fresh) \in Nat
    BY <1>1, Measured
  <2>5. /\ StepsLeft(v) \in {2 * Cardinality(v.fresh) + 1, 2 * Cardinality(v.fresh) + 2}
        /\ Cardinality(v.fresh) \in Nat
    BY <1>1, Measured, Zenon
  <2> QED BY <2>3, <2>4, <2>5 DEF Nearer
<1>2. CASE w.pc = "insert" /\ v.pc = "bind" /\ v.fresh = w.fresh
  BY <1>2, Measured DEF Nearer
<1> QED BY <1>1, <1>2

\* A handler that goes on to the next place.
LEMMA GotoNearer ==
  ASSUME TypeOK, NEW r \in Requests, NEW pc \in Before, Goto(r, pc), req[r].pc \in Before,
         Rank[pc] < Rank[req[r].pc]
  PROVE  Only(r) /\ Nearer(req[r], req'[r])
<1>1. Only(r) /\ req'[r].pc = pc
  BY GotoFacts, Ranks
<1>2. req[r] \in Request /\ req'[r] \in Request
  BY <1>1 DEF TypeOK, Only
<1> QED BY <1>1, <1>2, GoesNearer

\* A handler that goes on with other values.
LEMMA ValueNearer ==
  ASSUME TypeOK, NEW r \in Requests, NEW v \in Request, req' = [req EXCEPT ![r] = v],
         Nearer(req[r], v)
  PROVE  Only(r) /\ Nearer(req[r], req'[r])
BY Becomes, Zenon

\* A handler that ends.
LEMMA OverNearer ==
  ASSUME TypeOK, NEW r \in Requests, NEW result \in Ended, End(r, result), req[r].pc \in Busy
  PROVE  Only(r) /\ Nearer(req[r], req'[r])
<1>1. Only(r) /\ req'[r].pc = result
  BY EndFacts
<1>2. req[r] \in Request /\ req'[r] \in Request
  BY <1>1 DEF TypeOK, Only
<1> QED BY <1>1, <1>2, EndNearer

\* create and delete, up to the reload.
LEMMA WriteNearer ==
  ASSUME IInv, NEW r \in Requests,
         Create(r) \/ Delete(r) \/ Truncate(r) \/ Fill(r) \/ IoFails(r) \/ Respond(r)
  PROVE  Only(r) /\ Nearer(req[r], req'[r])
<1>0. TypeOK /\ req[r] \in Request
  BY DEF IInv, TypeOK
<1>1. CASE \E result \in Ended : End(r, result) /\ req[r].pc \in Busy
  BY <1>0, <1>1, OverNearer, Zenon
<1>2. CASE /\ req[r].pc \in {"create", "delete"}
           /\ \E text \in SUBSET Domains :
                req' = [req EXCEPT ![r] = [req[r] EXCEPT !.pc = "truncate", !.text = text]]
  <2>1. PICK text \in SUBSET Domains :
          req' = [req EXCEPT ![r] = [req[r] EXCEPT !.pc = "truncate", !.text = text]]
    BY <1>2, Zenon
  <2>2. PICK v : v = [req[r] EXCEPT !.pc = "truncate", !.text = text]
    BY Zenon
  <2>3. v \in Request /\ v.pc = "truncate"
    BY <1>0, <2>2, Zenon DEF Request, Busy
  <2>4. Nearer(req[r], v)
    <3>1. req[r].pc \in Before /\ v.pc \in Before /\ Rank[v.pc] < Rank[req[r].pc]
      BY <1>2, <2>3, Ranks DEF Before
    <3> QED BY <1>0, <2>3, <3>1, GoesNearer, Zenon
  <2> QED BY <1>0, <2>1, <2>2, <2>3, <2>4, ValueNearer, Zenon
<1>3. CASE Create(r)
  <2>1. req[r].pc = "create" /\ req[r].pc \in Busy
    BY <1>3 DEF Create, Busy
  <2>2. CASE End(r, "not_found") \/ End(r, "exists")
    BY <1>1, <2>1, <2>2, Zenon DEF Ended
  <2>3. CASE req' = [req EXCEPT ![r].pc = "truncate", ![r].text = Rules \cup {req[r].domain}]
    <3>1. Rules \cup {req[r].domain} \in SUBSET Domains
      BY <2>1 DEF IInv, TypeOK, Rules, NamedOK
    <3>2. req' = [req EXCEPT ![r] = [req[r] EXCEPT !.pc = "truncate",
                                                   !.text = Rules \cup {req[r].domain}]]
      BY <2>3, Zenon
    <3> QED BY <1>2, <2>1, <3>1, <3>2, Zenon
  <2> QED BY <1>3, <2>2, <2>3, Zenon DEF Create
<1>4. CASE Delete(r)
  <2>1. req[r].pc = "delete" /\ req[r].pc \in Busy
    BY <1>4 DEF Delete, Busy
  <2>2. CASE End(r, "not_found")
    BY <1>1, <2>1, <2>2, Zenon DEF Ended
  <2>3. CASE req' = [req EXCEPT ![r].pc = "truncate", ![r].text = Rules \ {req[r].domain}]
    <3>1. Rules \ {req[r].domain} \in SUBSET Domains
      BY DEF IInv, TypeOK, Rules
    <3>2. req' = [req EXCEPT ![r] = [req[r] EXCEPT !.pc = "truncate",
                                                   !.text = Rules \ {req[r].domain}]]
      BY <2>3, Zenon
    <3> QED BY <1>2, <2>1, <3>1, <3>2, Zenon
  <2> QED BY <1>4, <2>2, <2>3, Zenon DEF Delete
<1>5. CASE Truncate(r)
  <2>1. Goto(r, "fill") /\ req[r].pc = "truncate"
    BY <1>5, Zenon DEF Truncate
  <2> QED BY <1>0, <2>1, Order, GotoNearer, Zenon DEF Follows
<1>6. CASE Fill(r)
  <2>1. Goto(r, "load_file") /\ req[r].pc = "fill"
    BY <1>6, Zenon DEF Fill
  <2> QED BY <1>0, <2>1, Order, GotoNearer, Zenon DEF Follows
<1>7. CASE IoFails(r) \/ Respond(r)
  BY <1>1, <1>7, Zenon DEF IoFails, Respond, Busy, Ended
<1> QED BY <1>3, <1>4, <1>5, <1>6, <1>7, Zenon

\* App::reload reads, and update_listeners reads again.
LEMMA ReadNearer ==
  ASSUME IInv, NEW r \in Requests,
         LoadFile(r) \/ LoadManaged(r) \/ ReadCfg(r) \/ ListenerCfg(r)
  PROVE  Only(r) /\ Nearer(req[r], req'[r])
<1>1. req[r] \in Request /\ cfg \in Config
  BY DEF IInv, TypeOK
<1>3. ASSUME NEW c \in Config, NEW pc \in Before,
             req' = [req EXCEPT ![r] = [req[r] EXCEPT !.pc = pc, !.used = c]],
             req[r].pc \in Before, Rank[pc] < Rank[req[r].pc]
      PROVE  Only(r) /\ Nearer(req[r], req'[r])
  <2>1. PICK v : v = [req[r] EXCEPT !.pc = pc, !.used = c]
    BY Zenon
  <2>2. pc \in Busy
    BY Ranks
  <2>3. v \in Request /\ v.pc = pc
    BY <1>1, <2>1, <2>2, Zenon DEF Request
  <2>4. Nearer(req[r], v)
    BY <1>1, <1>3, <2>3, GoesNearer
  <2> QED BY <1>3, <2>1, <2>3, <2>4, ValueNearer, Zenon DEF IInv
<1>4. CASE LoadFile(r)
  <2>1. PICK c \in Config :
          req' = [req EXCEPT ![r] = [req[r] EXCEPT !.pc = "load_managed", !.used = c]]
    BY <1>4, FileRead, Zenon
  <2>2. Follows("load_managed", req[r].pc)
    <3>1. req[r].pc = "load_file"
      BY <1>4, Zenon DEF LoadFile
    <3> QED BY <3>1, Order, Zenon
  <2> QED BY <1>3, <2>1, <2>2, Zenon DEF Follows
<1>5. CASE LoadManaged(r)
  <2>1. PICK c \in Config, seen \in {"all", "part"} :
          req' = [req EXCEPT ![r] = [req[r] EXCEPT !.pc = "store_cfg", !.used = c, !.seen = seen]]
    BY <1>5, ManagedRead, Zenon
  <2>2. PICK v : v = [req[r] EXCEPT !.pc = "store_cfg", !.used = c, !.seen = seen]
    BY Zenon
  <2>3. v \in Request /\ v.pc = "store_cfg"
    BY <1>1, <2>2, Zenon DEF Request, Busy
  <2>4. Follows("store_cfg", req[r].pc)
    <3>1. req[r].pc = "load_managed"
      BY <1>5, Zenon DEF LoadManaged
    <3> QED BY <3>1, Order, Zenon
  <2>5. Nearer(req[r], v)
    BY <1>1, <2>3, <2>4, GoesNearer, Zenon DEF Follows
  <2> QED BY <2>1, <2>2, <2>3, <2>5, ValueNearer, Zenon DEF IInv
<1>6. CASE ReadCfg(r)
  <2>1. req' = [req EXCEPT ![r] = [req[r] EXCEPT !.pc = "lock", !.used = cfg]]
    BY <1>6, Zenon DEF ReadCfg
  <2>2. Follows("lock", req[r].pc)
    <3>1. req[r].pc = "read_cfg"
      BY <1>6, Zenon DEF ReadCfg
    <3> QED BY <3>1, Order, Zenon
  <2> QED BY <1>1, <1>3, <2>1, <2>2, Zenon DEF Follows
<1>7. CASE ListenerCfg(r)
  <2>1. req' = [req EXCEPT ![r] = [req[r] EXCEPT !.pc = "diff", !.used = cfg]]
    BY <1>7, Zenon DEF ListenerCfg
  <2>2. Follows("diff", req[r].pc)
    <3>1. req[r].pc = "listener_cfg"
      BY <1>7, Zenon DEF ListenerCfg
    <3> QED BY <3>1, Order, Zenon
  <2> QED BY <1>1, <1>3, <2>1, <2>2, Zenon DEF Follows
<1> QED BY <1>4, <1>5, <1>6, <1>7, Zenon

\* The stores, and the lock around two of them.
LEMMA StoreNearer ==
  ASSUME IInv, NEW r \in Requests,
         StoreCfg(r) \/ Lock(r) \/ BuildMiddleware(r) \/ StoreHandler(r) \/ StoreClient(r)
  PROVE  Only(r) /\ Nearer(req[r], req'[r])
<1>1. \E pc \in Before : Goto(r, pc) /\ req[r].pc \in Before /\ Rank[pc] < Rank[req[r].pc]
  <2>1. CASE StoreCfg(r)
    <3>1. Goto(r, "read_cfg") /\ req[r].pc = "store_cfg"
      BY <2>1, Zenon DEF StoreCfg
    <3> QED BY <3>1, Order, Zenon DEF Follows
  <2>2. CASE Lock(r)
    <3>1. Goto(r, "build") /\ req[r].pc = "lock"
      BY <2>2, Zenon DEF Lock
    <3> QED BY <3>1, Order, Zenon DEF Follows
  <2>3. CASE BuildMiddleware(r)
    <3>1. Goto(r, "store_handler") /\ req[r].pc = "build"
      BY <2>3, Zenon DEF BuildMiddleware
    <3> QED BY <3>1, Order, Zenon DEF Follows
  <2>4. CASE StoreHandler(r)
    <3>1. Goto(r, "store_client") /\ req[r].pc = "store_handler"
      BY <2>4, Zenon DEF StoreHandler
    <3> QED BY <3>1, Order, Zenon DEF Follows
  <2>5. CASE StoreClient(r)
    <3>1. Goto(r, "listener_cfg") /\ req[r].pc = "store_client"
      BY <2>5, Zenon DEF StoreClient
    <3> QED BY <3>1, Order, Zenon DEF Follows
  <2> QED BY <2>1, <2>2, <2>3, <2>4, <2>5, Zenon
<1> QED BY <1>1, GotoNearer, Zenon DEF IInv

\* update_listeners.
LEMMA ListenNearer ==
  ASSUME IInv, NEW r \in Requests,
         Diff(r) \/ Remove(r) \/ Insert(r) \/ \E a \in Addrs : Bind(r, a) \/ BindFails(r, a)
  PROVE  Only(r) /\ Nearer(req[r], req'[r])
<1>1. PICK w \in Request : w = req[r]
  BY DEF IInv, TypeOK
<1>2. w.used.binds \in SUBSET Addrs /\ w.fresh \in SUBSET Addrs
      /\ w.failed \in SUBSET Addrs /\ Registered \in SUBSET Addrs /\ Len(servers) + 1 \in Nat
  BY DEF Request, Config, Registered, IInv, TypeOK
<1>3. CASE Diff(r)
  <2>1. PICK stale \in SUBSET Addrs : stale = Registered \ w.used.binds
    BY <1>2, Zenon
  <2>2. PICK fresh \in SUBSET Addrs : fresh = w.used.binds \ Registered
    BY <1>2, Zenon
  <2>3. PICK pc : pc = IF stale = {} THEN "bind" ELSE "remove"
    BY Zenon
  <2>4. PICK v : v = [w EXCEPT !.pc = pc, !.fresh = fresh, !.stale = stale]
    BY Zenon
  <2>5. v \in Request /\ v.pc = pc /\ pc \in {"bind", "remove"}
    <3>1. pc \in {"bind", "remove"}
      BY <2>3
    <3> QED BY <2>4, <3>1, Zenon DEF Request, Busy
  <2>6. req' = [req EXCEPT ![r] = v]
    BY <1>1, <1>3, <2>1, <2>2, <2>3, <2>4, Zenon DEF Diff
  <2>7. w.pc \in Before /\ (v.pc = "bind" \/ (v.pc \in Before /\ Rank[v.pc] < Rank[w.pc]))
    <3>1. w.pc = "diff"
      BY <1>1, <1>3, Zenon DEF Diff
    <3> QED BY <2>5, <3>1, Ranks DEF Before
  <2> QED BY <1>1, <2>5, <2>6, <2>7, GoesNearer, ValueNearer, Zenon DEF IInv
<1>4. CASE Remove(r)
  <2>1. PICK v : v = [w EXCEPT !.pc = "bind", !.stale = {}]
    BY Zenon
  <2>2. {} \in SUBSET Addrs
    OBVIOUS
  <2>3. v \in Request /\ v.pc = "bind"
    BY <2>1, <2>2, Zenon DEF Request, Busy
  <2>4. req' = [req EXCEPT ![r] = v] /\ w.pc = "remove"
    BY <1>1, <1>4, <2>1, Zenon DEF Remove
  <2>5. w.pc \in Before
    BY <2>4 DEF Before
  <2> QED BY <1>1, <2>3, <2>4, <2>5, GoesNearer, ValueNearer, Zenon DEF IInv
<1>5. CASE Insert(r)
  <2>1. PICK v : v = [w EXCEPT !.pc = "bind", !.bound = 0]
    BY Zenon
  <2>2. 0 \in Nat
    OBVIOUS
  <2>3. v \in Request /\ v.pc = "bind" /\ v.fresh = w.fresh
    BY <2>1, <2>2, Zenon DEF Request, Busy
  <2>4. req' = [req EXCEPT ![r] = v] /\ w.pc = "insert"
    BY <1>1, <1>5, <2>1, Zenon DEF Insert
  <2> QED BY <1>1, <2>3, <2>4, BindsNearer, ValueNearer, Zenon DEF IInv
<1>6. ASSUME NEW a \in Addrs, Bind(r, a) PROVE Only(r) /\ Nearer(req[r], req'[r])
  <2>1. PICK f \in SUBSET Addrs : f = w.fresh \ {a}
    BY <1>2, Zenon
  <2>2. PICK n \in Nat : n = Len(servers) + 1
    BY <1>2
  <2>3. PICK v : v = [w EXCEPT !.pc = "insert", !.fresh = f, !.bound = n]
    BY Zenon
  <2>4. v \in Request /\ v.pc = "insert" /\ v.fresh = f
    BY <2>3, Zenon DEF Request, Busy
  <2>5. req' = [req EXCEPT ![r] = v]
    BY <1>1, <1>6, <2>1, <2>2, <2>3, Zenon DEF Bind
  <2>6. w.pc = "bind" /\ a \in w.fresh
    BY <1>1, <1>6, Zenon DEF Bind
  <2> QED BY <1>1, <2>1, <2>4, <2>5, <2>6, BindsNearer, ValueNearer, Zenon DEF IInv
<1>7. ASSUME NEW a \in Addrs, BindFails(r, a) PROVE Only(r) /\ Nearer(req[r], req'[r])
  <2>1. PICK f \in SUBSET Addrs : f = w.fresh \ {a}
    BY <1>2, Zenon
  <2>2. PICK b \in SUBSET Addrs : b = w.failed \cup {a}
    BY <1>2, Zenon
  <2>3. PICK v : v = [w EXCEPT !.fresh = f, !.failed = b]
    BY Zenon
  <2>4. v \in Request /\ v.pc = w.pc /\ v.fresh = f
    BY <2>3, Zenon DEF Request
  <2>5. req' = [req EXCEPT ![r] = v]
    BY <1>1, <1>7, <2>1, <2>2, <2>3, Zenon DEF BindFails
  <2>6. w.pc = "bind" /\ a \in w.fresh
    BY <1>1, <1>7, Zenon DEF BindFails
  <2> QED BY <1>1, <2>1, <2>4, <2>5, <2>6, BindsNearer, ValueNearer, Zenon DEF IInv
<1> QED BY <1>3, <1>4, <1>5, <1>6, <1>7, Zenon

\* Every step brings the handlers it touches nearer to their answer.
LEMMA StepNearer ==
  ASSUME IInv, Next
  PROVE  \A q \in Requests : req[q].pc \in Busy /\ req'[q] # req[q] => Nearer(req[q], req'[q])
<1>1. ASSUME NEW r \in Requests, Handle(r)
      PROVE  \A q \in Requests : req[q].pc \in Busy /\ req'[q] # req[q] => Nearer(req[q], req'[q])
  <2>1. Only(r) /\ Nearer(req[r], req'[r])
    BY <1>1, WriteNearer, ReadNearer, StoreNearer, ListenNearer, Zenon DEF Handle
  <2> QED BY <2>1, Zenon DEF Only
<1>2. ASSUME NEW r \in Requests, NEW s \in Servers, NEW o \in Ops[r], Arrive(r, s, o)
      PROVE  \A q \in Requests : req[q].pc \in Busy => req'[q] = req[q]
  <2>1. req[r].pc \notin Busy
    BY <1>2 DEF Arrive, Busy
  <2>2. \A q \in Requests : q # r => req'[q] = req[q]
    BY <1>2 DEF Arrive, IInv, TypeOK
  <2> QED BY <2>1, <2>2, Zenon
<1>3. ASSUME NEW s \in Servers, StopHttp(s)
      PROVE  \A q \in Requests : req[q].pc \in Busy /\ req'[q] # req[q] => Nearer(req[q], req'[q])
  <2> TAKE q \in Requests
  <2>1. HAVE req[q].pc \in Busy /\ req'[q] # req[q]
  <2>2. PICK w \in Request : w = req[q]
    BY DEF IInv, TypeOK
  <2>3. PICK v : v = [Idle EXCEPT !.pc = "aborted", !.op = w.op, !.domain = w.domain]
    BY Zenon
  <2>4. v \in Request /\ v.pc = "aborted"
    <3>1. Idle \in Request
      BY DEF Idle, Request, Config, Nowhere, Busy, Ended
    <3> QED BY <2>2, <2>3, <3>1, Zenon DEF Request, Ended
  <2>5. req'[q] = v
    BY <1>3, <2>1, <2>2, <2>3, Zenon DEF StopHttp
  <2> QED BY <2>1, <2>2, <2>4, <2>5, EndNearer DEF Ended
<1>4. CASE \E c \in Confs : Edit(c)
  BY <1>4 DEF Edit
<1>5. CASE \E t \in shutdowns : Shutdown(t)
  BY <1>5 DEF Shutdown
<1>6. CASE \E s \in Servers : Stop(s)
  BY <1>6 DEF Stop
<1> QED BY <1>1, <1>2, <1>3, <1>4, <1>5, <1>6, Zenon DEF Next

\* For any requests, addresses and configurations, each step of a handler of the API, and
\* its end in a runtime that is dropped, brings it nearer to its answer, whatever other
\* requests do meanwhile.
THEOREM HandlersRunOut == Spec => HandlerProgress
<1>1. IInv /\ [Next]_vars =>
        [\A r \in Requests : req[r].pc \in Busy /\ req'[r] # req[r] => Nearer(req[r], req'[r])]_vars
  BY StepNearer
<1> QED BY <1>1, Invariance, PTL DEF Spec, HandlerProgress, Nearer
=============================================================================
