-------------------------- MODULE LookupStrategy ---------------------------
(***************************************************************************)
(* How an address query is answered from the replies of several upstreams  *)
(* (src/src/dns_mw_ns.rs): lookup_ip asks all servers of a group at once    *)
(* and takes their replies, and the results of the speed tests it starts,   *)
(* in the order they arrive, by one of three strategies.                    *)
(***************************************************************************)
EXTENDS Integers, Sequences, FiniteSets, FiniteSetsExt

CONSTANTS
  Server,      \* the servers of the group
  Ip,          \* addresses
  Reply,       \* what NameServer::lookup may return
  Filter,      \* filters the rule of a domain may have: the addresses `ignored`, and
               \* an `alias` of some addresses, each a set of others
  Mode,        \* response modes that may be configured
  MAX_ELAPSED  \* bound on the measured times

ASSUME StrategyAssumption ==
  /\ \A f \in Filter : /\ f.ignored \subseteq Ip
                       /\ DOMAIN f.alias \subseteq Ip
                       /\ \A a \in DOMAIN f.alias : f.alias[a] \subseteq Ip
  /\ Mode \subseteq {"FirstPing", "FastestIp", "FastestResponse"}
  /\ MAX_ELAPSED \in Nat
  /\ IsFiniteSet(Server) /\ IsFiniteSet(Ip) /\ Ip # {}

VARIABLES
  pc,        \* "idle", "run" or "done"
  strategy,  \* the strategy of the lookup
  filter,    \* the filters it applies
  asked,     \* servers whose query is still awaited
  oks,       \* ok_tasks, in the order of arrival
  errs,      \* err_tasks, in the order of arrival
  pings,     \* speed tests still awaited, each with the addresses it tries
  timed,     \* results of the speed tests
  result     \* what the lookup returned

\* FastestResponse keeps the latest of each only.
last_ok == oks[Len(oks)]
last_error == errs[Len(errs)]

vars == <<pc, strategy, filter, asked, oks, errs, pings, timed, result>>

\* A reply is an Ok response with its code and (distinct) addresses, or an error.
Ok(code, ips) == [ok |-> TRUE, code |-> code, ips |-> ips]
Err(code) == [ok |-> FALSE, code |-> code, ips |-> {}]
NoResult == Err("none")

\* hickory reports NXDOMAIN and NODATA as the error NoRecordsFound.
Codes == {"NoError", "NXDomain", "ServFail"}
Errors == {"NoConnections", "NoRecordsFound", "Timeout"}
Replies == [ok : {TRUE}, code : Codes, ips : SUBSET Ip] \cup {Err(e) : e \in Errors}

\* Servers send addresses with NoError only.
ASSUME ReplyAssumption ==
  /\ Reply \subseteq Replies
  /\ \A r \in Reply : r.ok /\ r.code # "NoError" => r.ips = {}

TypeOK ==
  /\ pc \in {"idle", "run", "done"}
  /\ strategy \in {"FirstPing", "FastestIp", "FastestResponse"}
  /\ filter \in Filter
  /\ asked \subseteq Server
  /\ oks \in Seq(Replies) /\ Len(oks) <= Cardinality(Server)
  /\ errs \in Seq(Errors) /\ Len(errs) <= Cardinality(Server)
  /\ pings \subseteq [of : Server \cup Ip, ips : SUBSET Ip]
  /\ timed \subseteq [ip : Ip, elapsed : 0..MAX_ELAPSED]
  /\ result \in Replies \cup {NoResult}

Init ==
  /\ pc = "idle"
  /\ strategy = "FirstPing"
  /\ filter \in Filter
  /\ asked = {}
  /\ oks = <<>> /\ errs = <<>>
  /\ pings = {} /\ timed = {}
  /\ result = NoResult

-----------------------------------------------------------------------------
\* Choice of the strategy and filtering of a reply

\* Background queries look for the fastest address; without a usable speed test the
\* first response is taken.
Chosen(mode, background, speedCheck) ==
  IF ~speedCheck THEN "FastestResponse"
  ELSE IF background THEN "FastestIp" ELSE mode

\* Nothing is touched unless a filter or an alias is configured.
FiltersOn == filter.ignored # {} \/ DOMAIN filter.alias # {}

Kept(ips) ==
  UNION {IF a \in DOMAIN filter.alias THEN filter.alias[a] ELSE {a} : a \in ips \ filter.ignored}

per_nameserver_lookup_ip(reply) ==
  IF ~FiltersOn \/ ~reply.ok THEN reply
  ELSE IF Kept(reply.ips) = {} THEN Err("NoRecordsFound")
  ELSE [reply EXCEPT !.ips = Kept(@)]

-----------------------------------------------------------------------------
\* The end of a lookup

Occurrences(os, a) == Cardinality({i \in DOMAIN os : a \in os[i].ips})
Answered(os) == UNION {os[i].ips : i \in DOMAIN os}

\* A HashMap has no order: any of the addresses with the most occurrences.
most_frequent_ip(os) ==
  {a \in Answered(os) : \A b \in Answered(os) : Occurrences(os, b) <= Occurrences(os, a)}

\* Mutant: only the first response is searched.
SelectedInFirst(os, a) ==
  IF os = <<>> \/ a \notin os[1].ips THEN Err("unreachable") ELSE [os[1] EXCEPT !.ips = {a}]

\* The response that contains the address, with this one record; `unreachable!` if
\* there is none.
SelectedIp(os, a) ==
  IF a \notin Answered(os) THEN Err("unreachable")
  ELSE LET i == Min({j \in DOMAIN os : a \in os[j].ips})
       IN  [os[i] EXCEPT !.ips = {a}]

\* Mutant: an error is returned before a response without addresses.
FallbackErrorFirst(os, es) ==
  IF es # <<>> THEN Err(Head(es)) ELSE IF os # <<>> THEN Head(os) ELSE Err("NoConnections")

Fallback(os, es) ==
  IF os # <<>> THEN Head(os) ELSE IF es # <<>> THEN Err(Head(es)) ELSE Err("NoConnections")

Returns(r) ==
  /\ result' = r
  /\ pc' = "done"

\* No address was found by a speed test: the majority decides.
Undecided(os, es) ==
  \/ \E a \in most_frequent_ip(os) : Returns(SelectedIp(os, a))
  \/ most_frequent_ip(os) = {} /\ Returns(Fallback(os, es))

-----------------------------------------------------------------------------
\* lookup_ip

Start(mode, background, speedCheck, f) ==
  /\ pc # "run"
  /\ pc' = "run"
  /\ strategy' = Chosen(mode, background, speedCheck)
  /\ filter' = f
  /\ asked' = Server
  /\ oks' = <<>> /\ errs' = <<>>
  /\ pings' = {} /\ timed' = {}
  /\ result' = NoResult

\* FirstPing: one address is the answer, several (or none) are tested.
FirstPingReply(s, r) ==
  /\ strategy = "FirstPing"
  /\ IF ~r.ok
     THEN /\ errs' = Append(errs, r.code)
          /\ UNCHANGED <<pc, oks, pings, result>>
     ELSE IF Cardinality(r.ips) = 1
     THEN /\ Returns(r)
          /\ oks' = Append(oks, r)
          /\ UNCHANGED <<errs, pings>>
     ELSE /\ oks' = Append(oks, r)
          /\ pings' = pings \cup {[of |-> s, ips |-> r.ips]}
          /\ UNCHANGED <<pc, errs, result>>

\* FastestIp: every address that is new is tested.
FastestIpReply(s, r) ==
  /\ strategy = "FastestIp"
  /\ IF ~r.ok
     THEN errs' = Append(errs, r.code) /\ UNCHANGED <<oks, pings>>
     ELSE /\ oks' = Append(oks, r)
          /\ pings' = pings \cup {[of |-> a, ips |-> {a}] : a \in r.ips \ Answered(oks)}
          /\ UNCHANGED errs
  /\ UNCHANGED <<pc, result>>

\* Mutant: two servers that are skipped decide as well.
FastestResponseHasty(s, r) ==
  /\ strategy = "FastestResponse"
  /\ IF r.ok
     THEN /\ oks' = Append(oks, r)
          /\ IF r.code = "NoError" THEN Returns(r) ELSE UNCHANGED <<pc, result>>
          /\ UNCHANGED errs
     ELSE /\ errs' = Append(errs, r.code)
          /\ IF errs # <<>> /\ last_error = r.code
             THEN Returns(IF oks # <<>> THEN last_ok ELSE r)
             ELSE UNCHANGED <<pc, result>>
          /\ UNCHANGED oks
  /\ UNCHANGED pings

\* FastestResponse: the first NoError, or the same error twice in a row unless it
\* only says that a server was skipped.
FastestResponseReply(s, r) ==
  /\ strategy = "FastestResponse"
  /\ IF r.ok
     THEN /\ oks' = Append(oks, r)
          /\ IF r.code = "NoError" THEN Returns(r) ELSE UNCHANGED <<pc, result>>
          /\ UNCHANGED errs
     ELSE /\ errs' = Append(errs, r.code)
          /\ IF r.code # "NoConnections" /\ errs # <<>> /\ last_error = r.code
             THEN Returns(IF oks # <<>> THEN last_ok ELSE r)
             ELSE UNCHANGED <<pc, result>>
          /\ UNCHANGED oks
  /\ UNCHANGED pings

\* Mutant: a server that has failed is asked again.
QueryAgain(s, reply) ==
  /\ pc = "run"
  /\ s \in asked
  /\ asked' = asked
  /\ LET r == per_nameserver_lookup_ip(reply)
     IN  FirstPingReply(s, r) \/ FastestIpReply(s, r) \/ FastestResponseReply(s, r)
  /\ UNCHANGED <<strategy, filter, timed>>

Query(s, reply) ==
  /\ pc = "run"
  /\ s \in asked
  /\ asked' = asked \ {s}
  /\ LET r == per_nameserver_lookup_ip(reply)
     IN  FirstPingReply(s, r) \/ FastestIpReply(s, r) \/ FastestResponseReply(s, r)
  /\ UNCHANGED <<strategy, filter, timed>>

\* A speed test (`multi_mode_ping`, `multi_mode_ping_fastest`) tries one mode after
\* the other: it finds an address, or none in any mode.  For FirstPing either ends
\* the lookup.
PingDone(p, t) ==
  /\ pc = "run"
  /\ p \in pings
  /\ t.ip \in p.ips
  /\ pings' = pings \ {p}
  /\ timed' = timed \cup {t}
  /\ \/ strategy = "FirstPing" /\ Returns(SelectedIp(oks, t.ip))
     \/ strategy # "FirstPing" /\ UNCHANGED <<pc, result>>
  /\ UNCHANGED <<strategy, filter, asked, oks, errs>>

PingFailed(p) ==
  /\ pc = "run"
  /\ p \in pings
  /\ pings' = pings \ {p}
  /\ \/ strategy = "FirstPing" /\ Undecided(oks, errs)
     \/ strategy # "FirstPing" /\ UNCHANGED <<pc, result>>
  /\ UNCHANGED <<strategy, filter, asked, oks, errs, timed>>

\* Mutant: the comparison turned round.
Slowest(ts) == {t \in ts : \A u \in ts : t.elapsed >= u.elapsed}

\* A later result must be strictly faster to win; which of several equally fast
\* ones came first is left open.
Fastest(ts) == {t \in ts : \A u \in ts : t.elapsed <= u.elapsed}

\* All queries and all speed tests have come in.
Drained ==
  /\ pc = "run"
  /\ asked = {} /\ pings = {}
  /\ CASE strategy = "FastestResponse" ->
            Returns(IF oks # <<>> THEN last_ok
                    ELSE IF errs # <<>> THEN Err(last_error) ELSE Err("NoConnections"))
       [] strategy # "FastestResponse" /\ timed # {} ->
            \E t \in Fastest(timed) : Returns(SelectedIp(oks, t.ip))
       [] OTHER -> Undecided(oks, errs)
  /\ UNCHANGED <<strategy, filter, asked, oks, errs, pings, timed>>

Next ==
  \/ \E m \in Mode, b \in BOOLEAN, c \in BOOLEAN, f \in Filter : Start(m, b, c, f)
  \/ \E s \in Server, r \in Reply : Query(s, r)
  \/ \E p \in pings :
       PingFailed(p) \/ \E t \in [ip : p.ips, elapsed : 0..MAX_ELAPSED] : PingDone(p, t)
  \/ Drained

Spec == Init /\ [][Next]_vars

-----------------------------------------------------------------------------
\* Properties

\* Whatever replies and speed tests overtake each other: the address a strategy
\* selects is one of a response it kept (the `unreachable!` of
\* handle_strategy_result is), and a lookup to which any server has sent addresses
\* returns some of those, never an error or an empty answer.
AddressesServed ==
  pc = "done" =>
    /\ result.code # "unreachable"
    /\ result.ips \subseteq Answered(oks)
    /\ Answered(oks) # {} => result.ok /\ result.ips # {}

\* A lookup gives up servers it still waits for only for an answer, or when two
\* others agree on an error; that a server was skipped by its circuit breaker
\* decides nothing.
NoHastyEnd ==
  pc = "done" /\ asked # {} =>
    \/ oks # <<>>
    \/ \E i, j \in DOMAIN errs : i < j /\ errs[i] = errs[j] /\ errs[i] # "NoConnections"

\* The FastestIp strategy has heard of every server and tested every address, and
\* no address that answered a test was faster than the one it returns.
FastestServed ==
  pc = "done" /\ strategy = "FastestIp" /\ timed # {} =>
    /\ asked = {} /\ pings = {}
    /\ \E t \in timed : result.ips = {t.ip} /\ \A u \in timed : t.elapsed <= u.elapsed

\* The loop ends, although replies add speed tests to what it waits for: every
\* event it takes brings it nearer to the end (and while it runs there is one to
\* take, which the absence of deadlock says).
Outstanding == Cardinality(asked) * (Cardinality(Ip) + 1) + Cardinality(pings)
LoopEnds == [][pc = "run" /\ pc' = "run" => Outstanding' < Outstanding]_vars

-----------------------------------------------------------------------------
\* What a lookup promises

Heard == {oks[i] : i \in DOMAIN oks} \cup {Err(errs[i]) : i \in DOMAIN errs}

Abstract ==
  INSTANCE LookupService WITH
    Reply <- Replies, Skipped <- Err("NoConnections"), NoAnswer <- NoResult,
    state <- pc, awaited <- asked, heard <- Heard, answer <- result

\* To its caller lookup_ip is the abstract lookup, whichever strategy it follows and
\* whatever overtakes what: it returns one of the replies it has heard, whole or with
\* one of its addresses, one with addresses if any has some and a response rather
\* than an error; and it leaves servers unheard only for a response or an error two
\* of them have sent.
ImplementsLookup == Abstract!Spec

-----------------------------------------------------------------------------
\* What the repository says of the strategies and the code does not do

\* Comment of `lookup_ip_fastest_response`, and CHANGELOG of v0.13.9: FastestResponse
\* keeps a negative answer, which the errors of other servers do not mask.
NegativeNotMasked ==
  /\ pc = "done" /\ strategy = "FastestResponse" /\ ~result.ok
  /\ \E i \in DOMAIN errs : errs[i] = "NoRecordsFound"
  => result.code = "NoRecordsFound"
=============================================================================
