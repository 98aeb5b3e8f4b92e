------------------------ MODULE LookupStrategyProofs ------------------------
(***************************************************************************)
(* Proofs about LookupStrategy: what a lookup returns and when it may end,  *)
(* for any group of servers, any addresses, filters and measured times, and *)
(* any order in which replies and speed tests come in.                      *)
(***************************************************************************)
EXTENDS LookupStrategy, FiniteSetTheorems, WellFoundedInduction, TLAPS

\* The replies a lookup keeps.
OkReply == [ok : {TRUE}, code : Codes, ips : SUBSET Ip]
ErrReply == {Err(e) : e \in Errors}

Shape ==
  /\ pc \in {"idle", "run", "done"}
  /\ strategy \in {"FirstPing", "FastestIp", "FastestResponse"}
  /\ filter \in Filter
  /\ asked \subseteq Server
  /\ oks \in Seq(OkReply) /\ errs \in Seq(Errors)
  /\ pings \subseteq [of : Server \cup Ip, ips : SUBSET Ip] /\ IsFiniteSet(pings)
  /\ timed \subseteq [ip : Ip, elapsed : 0..MAX_ELAPSED]
  /\ result \in Replies \cup {NoResult}

\* Every server is awaited or has replied once.
Counted == Len(oks) + Len(errs) + Cardinality(asked) <= Cardinality(Server)

\* Speed tests are of addresses that were kept; FastestResponse goes on only as long
\* as it has none.
Sources ==
  /\ \A p \in pings : p.ips \subseteq Answered(oks)
  /\ \A t \in timed : t.ip \in Answered(oks)
  /\ pings # {} => oks # <<>>
  /\ pc = "run" /\ strategy = "FastestResponse" => Answered(oks) = {}

\* The inductive invariant.
IInv == Shape /\ Counted /\ Sources /\ AddressesServed /\ NoHastyEnd /\ FastestServed

\* What a lookup that has kept the responses os may return.
Good(r, os) ==
  /\ r \in Replies
  /\ r.code # "unreachable"
  /\ r.ips \subseteq Answered(os)
  /\ Answered(os) # {} => r.ok /\ r.ips # {}

-----------------------------------------------------------------------------
\* A set of naturals has a least element.
LEMMA LeastNat ==
  ASSUME NEW S, S \subseteq Nat, S # {}
  PROVE  \E x \in S : \A y \in S : x <= y
<1>1. PICK x \in S : \A y \in S : ~(<<y, x>> \in OpToRel(<, Nat))
  BY NatLessThanWellFounded, WFMin, Zenon
<1>2. \A y \in S : ~(y < x)
  BY <1>1, Zenon DEF OpToRel
<1> QED BY <1>2

\* Replies are responses or errors.
LEMMA ReplyKinds == Replies = OkReply \cup ErrReply
BY DEF Replies, OkReply, ErrReply

\* A response that is kept adds its addresses.
LEMMA AnsweredAppend ==
  ASSUME NEW os \in Seq(OkReply), NEW r \in OkReply
  PROVE  Answered(Append(os, r)) = Answered(os) \cup r.ips
<1>1. DOMAIN Append(os, r) = DOMAIN os \cup {Len(os) + 1}
  OBVIOUS
<1>2. \A i \in DOMAIN os : Append(os, r)[i] = os[i]
  OBVIOUS
<1>3. Append(os, r)[Len(os) + 1] = r /\ Len(os) + 1 \notin DOMAIN os
  OBVIOUS
<1> QED BY <1>1, <1>2, <1>3, Zenon DEF Answered

\* The addresses kept are addresses.
LEMMA AnsweredIps ==
  ASSUME NEW os \in Seq(OkReply)
  PROVE  Answered(os) \subseteq Ip
<1>1. \A i \in DOMAIN os : os[i].ips \subseteq Ip
  <2>1. \A i \in DOMAIN os : os[i] \in OkReply
    OBVIOUS
  <2> QED BY <2>1, Zenon DEF OkReply
<1> QED BY <1>1 DEF Answered

\* handle_strategy_result finds the response of an address that was kept.
LEMMA SelectedIsGood ==
  ASSUME NEW os \in Seq(OkReply), NEW a \in Answered(os)
  PROVE  /\ SelectedIp(os, a).ips = {a}
         /\ Good(SelectedIp(os, a), os)
<1>1. PICK J : J = {j \in DOMAIN os : a \in os[j].ips}
  BY Zenon
<1>2. J \subseteq Nat /\ J # {}
  BY <1>1 DEF Answered
<1>3. \E x \in J : \A y \in J : x <= y
  BY <1>2, LeastNat, Zenon
<1>4. Min(J) \in J
  BY <1>3 DEF Min
<1>5. PICK i \in DOMAIN os : i = Min(J)
  BY <1>1, <1>4, Zenon
<1>6. os[i] \in OkReply /\ a \in Ip
  BY AnsweredIps
<1>7. SelectedIp(os, a) = [os[i] EXCEPT !.ips = {a}]
  BY <1>1, <1>5 DEF SelectedIp
<1>8. SelectedIp(os, a) \in OkReply /\ SelectedIp(os, a).ips = {a}
  BY <1>6, <1>7, Zenon DEF OkReply
<1> QED BY <1>8, ReplyKinds, Zenon DEF Good, OkReply, Codes

\* most_frequent_ip finds an address if there is one.
LEMMA MostFrequentExists ==
  ASSUME NEW os \in Seq(OkReply), Answered(os) # {}
  PROVE  most_frequent_ip(os) # {}
<1>1. \A a \in Answered(os) : Occurrences(os, a) \in Nat /\ Occurrences(os, a) <= Len(os)
  <2> TAKE a \in Answered(os)
  <2>1. IsFiniteSet(1..Len(os)) /\ Cardinality(1..Len(os)) = Len(os)
    <3>1. Len(os) \in Nat
      OBVIOUS
    <3>2. IsFiniteSet(1..Len(os))
          /\ Cardinality(1..Len(os)) = IF 1 > Len(os) THEN 0 ELSE Len(os) - 1 + 1
      BY <3>1, FS_Interval
    <3> QED BY <3>1, <3>2
  <2>2. PICK J \in SUBSET (1..Len(os)) : J = {i \in DOMAIN os : a \in os[i].ips}
    <3>1. DOMAIN os = 1..Len(os)
      OBVIOUS
    <3> QED BY <3>1, Zenon
  <2>3. IsFiniteSet(J) /\ Cardinality(J) <= Len(os)
    BY <2>1, FS_Subset, Zenon
  <2>4. Cardinality(J) \in Nat
    BY <2>3, FS_CardinalityType
  <2> QED BY <2>2, <2>3, <2>4 DEF Occurrences
<1>2. PICK S : S = {Len(os) - Occurrences(os, a) : a \in Answered(os)}
  BY Zenon
<1>3. S \subseteq Nat /\ S # {}
  BY <1>1, <1>2
<1>4. PICK x \in S : \A y \in S : x <= y
  BY <1>3, LeastNat, Zenon
<1>5. PICK a \in Answered(os) : x = Len(os) - Occurrences(os, a)
  BY <1>2, <1>4
<1>6. \A b \in Answered(os) : Occurrences(os, b) <= Occurrences(os, a)
  <2> TAKE b \in Answered(os)
  <2>1. x <= Len(os) - Occurrences(os, b)
    BY <1>2, <1>4
  <2>2. Len(os) \in Nat
    OBVIOUS
  <2> QED BY <1>1, <1>5, <2>1, <2>2
<1> QED BY <1>6 DEF most_frequent_ip

\* A lookup that no speed test decides returns an address if it has one.
LEMMA UndecidedIsGood ==
  ASSUME NEW os \in Seq(OkReply), NEW es \in Seq(Errors), Undecided(os, es)
  PROVE  pc' = "done" /\ Good(result', os)
<1>1. CASE \E a \in most_frequent_ip(os) : Returns(SelectedIp(os, a))
  <2>1. PICK a \in Answered(os) : Returns(SelectedIp(os, a))
    BY <1>1 DEF most_frequent_ip
  <2> QED BY <2>1, SelectedIsGood DEF Returns
<1>2. CASE most_frequent_ip(os) = {} /\ Returns(Fallback(os, es))
  <2>1. Answered(os) = {}
    BY <1>2, MostFrequentExists
  <2>2. CASE os # <<>>
    <3>1. os[1] \in OkReply /\ 1 \in DOMAIN os
      BY <2>2
    <3>2. os[1].ips = {}
      BY <2>1, <3>1 DEF Answered
    <3>3. result' = os[1] /\ pc' = "done"
      BY <1>2, <2>2 DEF Returns, Fallback
    <3> QED BY <2>1, <3>1, <3>2, <3>3, ReplyKinds, Zenon DEF Good, OkReply, Codes
  <2>3. CASE os = <<>>
    <3>1. PICK e \in Errors : result' = Err(e)
      BY <1>2, <2>3 DEF Returns, Fallback, Errors
    <3>2. Err(e) \in Replies /\ Err(e).code # "unreachable" /\ Err(e).ips = {}
      BY ReplyKinds, Zenon DEF ErrReply, Err, Errors
    <3> QED BY <1>2, <2>1, <3>1, <3>2 DEF Good, Returns
  <2> QED BY <2>2, <2>3
<1> QED BY <1>1, <1>2 DEF Undecided

\* Filters leave a response a response, or make it the error NoRecordsFound.
LEMMA FilteredReply ==
  ASSUME NEW reply \in Reply, filter \in Filter
  PROVE  LET r == per_nameserver_lookup_ip(reply)
         IN  \/ r \in OkReply /\ (r.code # "NoError" => r.ips = {})
             \/ r \in ErrReply /\ ~r.ok /\ r.code \in Errors
<1>1. \/ reply \in OkReply /\ (reply.code # "NoError" => reply.ips = {})
      \/ reply \in ErrReply /\ ~reply.ok /\ reply.code \in Errors
  <2>1. reply \in OkReply \cup ErrReply /\ (reply.ok /\ reply.code # "NoError" => reply.ips = {})
    BY ReplyAssumption, ReplyKinds
  <2>2. reply \in OkReply => reply.ok
    BY Zenon DEF OkReply
  <2>3. reply \in ErrReply => ~reply.ok /\ reply.code \in Errors
    BY DEF ErrReply, Err
  <2> QED BY <2>1, <2>2, <2>3
<1>2. CASE ~FiltersOn \/ ~reply.ok
  BY <1>1, <1>2 DEF per_nameserver_lookup_ip
<1>3. CASE ~(~FiltersOn \/ ~reply.ok) /\ Kept(reply.ips) = {}
  BY <1>3 DEF per_nameserver_lookup_ip, ErrReply, Err, Errors
<1>4. CASE ~(~FiltersOn \/ ~reply.ok) /\ Kept(reply.ips) # {}
  <2>1. reply \in OkReply /\ (reply.code # "NoError" => reply.ips = {})
    BY <1>1, <1>4
  <2>2. Kept(reply.ips) \subseteq Ip
    BY <2>1, StrategyAssumption DEF Kept, OkReply
  <2>3. reply.code # "NoError" => Kept(reply.ips) = {}
    BY <2>1 DEF Kept
  <2>4. per_nameserver_lookup_ip(reply) = [reply EXCEPT !.ips = Kept(reply.ips)]
    BY <1>4 DEF per_nameserver_lookup_ip
  <2> QED BY <1>4, <2>1, <2>2, <2>3, <2>4, Zenon DEF OkReply
<1> QED BY <1>2, <1>3, <1>4

-----------------------------------------------------------------------------
\* No lookup has been started.
LEMMA InitHolds == Init => IInv
<1> SUFFICES ASSUME Init PROVE IInv
  OBVIOUS
<1>1. Shape
  BY FS_EmptySet DEF Init, Shape
<1>2. Counted
  <2>1. Cardinality({}) = 0 /\ Cardinality(Server) \in Nat
    BY FS_EmptySet, FS_CardinalityType, StrategyAssumption
  <2>2. asked = {} /\ Len(oks) = 0 /\ Len(errs) = 0
    BY DEF Init
  <2> QED BY <2>1, <2>2 DEF Counted
<1>3. pc = "idle" /\ pings = {} /\ timed = {}
  BY DEF Init
<1> QED BY <1>1, <1>2, <1>3 DEF IInv, Sources, AddressesServed, NoHastyEnd, FastestServed

\* A lookup asks all servers and has heard of none.
LEMMA StartStep ==
  ASSUME IInv, NEW m \in Mode, NEW b \in BOOLEAN, NEW c \in BOOLEAN, NEW f \in Filter,
         Start(m, b, c, f)
  PROVE  IInv'
<1>1. Shape'
  <2>1. strategy' \in {"FirstPing", "FastestIp", "FastestResponse"}
    BY StrategyAssumption DEF Start, Chosen
  <2>2. pings' \subseteq [of : Server \cup Ip, ips : SUBSET Ip] /\ IsFiniteSet(pings')
    BY FS_EmptySet DEF Start
  <2>3. /\ oks' \in Seq(OkReply) /\ errs' \in Seq(Errors)
        /\ timed' \subseteq [ip : Ip, elapsed : 0..MAX_ELAPSED]
    BY DEF Start
  <2> QED BY <2>1, <2>2, <2>3 DEF Start, Shape
<1>2. Counted'
  <2>1. Cardinality(Server) \in Nat
    BY FS_CardinalityType, StrategyAssumption
  <2>2. asked' = Server /\ Len(oks') = 0 /\ Len(errs') = 0
    BY DEF Start
  <2> QED BY <2>1, <2>2 DEF Counted
<1>3. Answered(oks)' = {}
  BY DEF Start, Answered
<1>4. pc' = "run" /\ pings' = {} /\ timed' = {}
  BY DEF Start
<1> QED BY <1>1, <1>2, <1>3, <1>4 DEF IInv, Sources, AddressesServed, NoHastyEnd, FastestServed

-----------------------------------------------------------------------------
\* One awaited query less.
LEMMA OneLess ==
  ASSUME NEW A, A \subseteq Server, NEW s \in A
  PROVE  /\ Cardinality(A) \in Nat /\ Cardinality(A \ {s}) \in Nat
         /\ Cardinality(A \ {s}) = Cardinality(A) - 1
<1>1. IsFiniteSet(A)
  BY FS_Subset, StrategyAssumption
<1> QED BY <1>1, FS_RemoveElement, FS_CardinalityType

\* An error is counted; nothing is tested or kept, and the lookup goes on or ends
\* with one that was sent twice.
LEMMA ErrorStep ==
  ASSUME IInv, pc = "run", NEW s \in asked, asked' = asked \ {s}, NEW e \in Errors,
         errs' = Append(errs, e), UNCHANGED <<strategy, filter, oks, pings, timed>>,
         \/ UNCHANGED <<pc, result>>
         \/ /\ strategy = "FastestResponse"
            /\ e # "NoConnections" /\ errs # <<>> /\ last_error = e
            /\ Returns(IF oks # <<>> THEN last_ok ELSE Err(e))
  PROVE  IInv'
<1>1. Len(errs) \in Nat /\ Len(oks) \in Nat /\ Len(errs') = Len(errs) + 1 /\ errs' \in Seq(Errors)
  BY DEF IInv, Shape
<1>2. Counted'
  <2>1. Cardinality(asked') = Cardinality(asked) - 1 /\ Cardinality(asked) \in Nat
    <3>1. asked \subseteq Server
      BY DEF IInv, Shape
    <3> QED BY <3>1, OneLess, Zenon
  <2>2. Cardinality(Server) \in Nat
    BY FS_CardinalityType, StrategyAssumption
  <2> QED BY <1>1, <2>1, <2>2 DEF IInv, Counted
<1>3. Answered(oks)' = Answered(oks)
  BY DEF Answered
<1>4. CASE UNCHANGED <<pc, result>>
  <2>1. Shape'
    BY <1>1, <1>4 DEF IInv, Shape
  <2>2. Sources'
    BY <1>3, <1>4 DEF IInv, Sources
  <2> QED BY <1>2, <1>4, <2>1, <2>2 DEF IInv, AddressesServed, NoHastyEnd, FastestServed
<1>5. CASE /\ strategy = "FastestResponse"
           /\ e # "NoConnections" /\ errs # <<>> /\ last_error = e
           /\ Returns(IF oks # <<>> THEN last_ok ELSE Err(e))
  <2>1. Answered(oks) = {}
    BY <1>5 DEF IInv, Sources
  <2>2. pc' = "done" /\ Good(result', oks)
    <3>1. CASE oks # <<>>
      <4>1. Len(oks) \in DOMAIN oks /\ oks[Len(oks)] \in OkReply
        BY <3>1 DEF IInv, Shape
      <4>2. oks[Len(oks)].ips = {}
        BY <2>1, <4>1 DEF Answered
      <4>3. result' = oks[Len(oks)]
        BY <1>5, <3>1 DEF Returns, last_ok
      <4>4. result' \in Replies /\ result'.code # "unreachable"
        BY <4>1, <4>3, ReplyKinds, Zenon DEF OkReply, Codes
      <4> QED BY <1>5, <2>1, <4>2, <4>3, <4>4 DEF Good, Returns
    <3>2. CASE oks = <<>>
      <4>1. result' = Err(e)
        BY <1>5, <3>2 DEF Returns
      <4>2. Err(e) \in Replies /\ Err(e).code # "unreachable" /\ Err(e).ips = {}
        BY ReplyKinds, Zenon DEF ErrReply, Err, Errors
      <4> QED BY <1>5, <2>1, <4>1, <4>2 DEF Good, Returns
    <3> QED BY <3>1, <3>2
  <2>3. Shape'
    BY <1>1, <2>2 DEF IInv, Shape, Good
  <2>4. AddressesServed'
    BY <1>3, <2>2 DEF AddressesServed, Good
  <2>5. NoHastyEnd'
    <3>1. Len(errs) \in DOMAIN errs' /\ Len(errs) + 1 \in DOMAIN errs'
      BY <1>1, <1>5 DEF IInv, Shape
    <3>2. errs'[Len(errs)] = e /\ errs'[Len(errs) + 1] = e
      BY <1>1, <1>5 DEF IInv, Shape, last_error
    <3> QED BY <1>1, <1>5, <3>1, <3>2 DEF NoHastyEnd
  <2> QED BY <1>2, <1>3, <1>5, <2>2, <2>3, <2>4, <2>5 DEF IInv, Sources, FastestServed
<1> QED BY <1>4, <1>5

\* A response is kept, and speed tests P of its addresses are started; the lookup goes
\* on, or ends with it.
LEMMA KeepStep ==
  ASSUME IInv, pc = "run", NEW s \in asked, asked' = asked \ {s}, NEW r \in OkReply,
         oks' = Append(oks, r), UNCHANGED <<strategy, filter, errs, timed>>,
         NEW P, pings' = pings \cup P, IsFiniteSet(P),
         P \subseteq [of : Server \cup Ip, ips : SUBSET Ip], \A p \in P : p.ips \subseteq r.ips,
         \/ UNCHANGED <<pc, result>> /\ (strategy = "FastestResponse" => r.ips = {})
         \/ Returns(r) /\ strategy # "FastestIp" /\ (Answered(oks) \cup r.ips # {} => r.ips # {})
  PROVE  IInv'
<1>1. /\ Len(errs) \in Nat /\ Len(oks) \in Nat /\ Len(oks') = Len(oks) + 1
      /\ oks' \in Seq(OkReply) /\ oks' # <<>>
  BY DEF IInv, Shape
<1>2. Counted'
  <2>1. Cardinality(asked') = Cardinality(asked) - 1 /\ Cardinality(asked) \in Nat
    <3>1. asked \subseteq Server
      BY DEF IInv, Shape
    <3> QED BY <3>1, OneLess
  <2>2. Cardinality(Server) \in Nat
    BY FS_CardinalityType, StrategyAssumption
  <2> QED BY <1>1, <2>1, <2>2 DEF IInv, Counted
<1>3. Answered(oks)' = Answered(oks) \cup r.ips
  <2>1. Answered(oks)' = Answered(oks')
    BY DEF Answered
  <2>2. oks \in Seq(OkReply)
    BY DEF IInv, Shape
  <2> QED BY <2>1, <2>2, AnsweredAppend
<1>4. Shape'
  <2>1. IsFiniteSet(pings')
    <3>1. IsFiniteSet(pings)
      BY DEF IInv, Shape
    <3> QED BY <3>1, FS_Union, Zenon
  <2>2. pings' \subseteq [of : Server \cup Ip, ips : SUBSET Ip]
    BY DEF IInv, Shape
  <2>3. pc' \in {"run", "done"} /\ result' \in Replies \cup {NoResult}
    BY ReplyKinds DEF IInv, Shape, Returns
  <2> QED BY <1>1, <2>1, <2>2, <2>3 DEF IInv, Shape
<1>5. Sources'
  <2>1. /\ \A p \in pings' : p.ips \subseteq Answered(oks)'
        /\ \A t \in timed' : t.ip \in Answered(oks)'
    BY <1>3 DEF IInv, Sources
  <2>2. pc' = "run" /\ strategy' = "FastestResponse" => Answered(oks)' = {}
    BY <1>3 DEF IInv, Sources, Returns
  <2> QED BY <1>1, <2>1, <2>2 DEF Sources
<1>6. AddressesServed'
  <2>1. CASE UNCHANGED <<pc, result>>
    BY <2>1 DEF AddressesServed
  <2>2. CASE Returns(r) /\ (Answered(oks) \cup r.ips # {} => r.ips # {})
    BY <1>3, <2>2, Zenon DEF AddressesServed, Returns, OkReply, Codes
  <2> QED BY <2>1, <2>2
<1>7. NoHastyEnd'
  BY <1>1 DEF NoHastyEnd
<1>8. FastestServed'
  BY DEF FastestServed
<1> QED BY <1>2, <1>4, <1>5, <1>6, <1>7, <1>8 DEF IInv

\* FastestIp tests each new address, by a test of its own.
LEMMA NewTests ==
  ASSUME NEW A, A \subseteq Ip
  PROVE  LET P == {[of |-> a, ips |-> {a}] : a \in A}
         IN  IsFiniteSet(P) /\ Cardinality(P) \in Nat /\ Cardinality(P) <= Cardinality(Ip)
<1>1. PICK P : P = {[of |-> a, ips |-> {a}] : a \in A}
  BY Zenon
<1>2. PICK g : g = [a \in A |-> [of |-> a, ips |-> {a}]]
  BY Zenon
<1>3. g \in Surjection(A, P)
  BY <1>1, <1>2, Zenon DEF Surjection
<1>4. IsFiniteSet(A) /\ Cardinality(A) <= Cardinality(Ip)
  BY FS_Subset, StrategyAssumption
<1>5. IsFiniteSet(P) /\ Cardinality(P) <= Cardinality(A)
  BY <1>3, <1>4, FS_Surjection
<1>6. Cardinality(P) \in Nat /\ Cardinality(A) \in Nat /\ Cardinality(Ip) \in Nat
  BY <1>4, <1>5, FS_CardinalityType, StrategyAssumption
<1> QED BY <1>1, <1>4, <1>5, <1>6

\* The reply of a server, by each of the strategies.
LEMMA QueryStep ==
  ASSUME IInv, NEW s \in Server, NEW reply \in Reply, Query(s, reply)
  PROVE  IInv'
<1>1. PICK r : r = per_nameserver_lookup_ip(reply)
  OBVIOUS
<1>2. \/ r \in OkReply /\ (r.code # "NoError" => r.ips = {})
      \/ r \in ErrReply /\ ~r.ok /\ r.code \in Errors
  BY <1>1, FilteredReply DEF IInv, Shape
<1>3. /\ pc = "run" /\ s \in asked /\ asked' = asked \ {s}
      /\ UNCHANGED <<strategy, filter, timed>>
      /\ FirstPingReply(s, r) \/ FastestIpReply(s, r) \/ FastestResponseReply(s, r)
  BY <1>1 DEF Query
<1>4. CASE r \in ErrReply /\ ~r.ok /\ r.code \in Errors
  <2>1. r = Err(r.code)
    BY <1>4 DEF ErrReply, Err
  <2>2. errs' = Append(errs, r.code) /\ UNCHANGED <<oks, pings>>
    BY <1>3, <1>4 DEF FirstPingReply, FastestIpReply, FastestResponseReply
  <2>3. \/ UNCHANGED <<pc, result>>
        \/ /\ strategy = "FastestResponse"
           /\ r.code # "NoConnections" /\ errs # <<>> /\ last_error = r.code
           /\ Returns(IF oks # <<>> THEN last_ok ELSE Err(r.code))
    BY <1>3, <1>4, <2>1 DEF FirstPingReply, FastestIpReply, FastestResponseReply
  <2> QED BY <1>3, <1>4, <2>2, <2>3, ErrorStep
<1>5. CASE r \in OkReply /\ (r.code # "NoError" => r.ips = {})
  <2>1. r.ok /\ r.ips \subseteq Ip
    BY <1>5, Zenon DEF OkReply
  <2>2. CASE FirstPingReply(s, r) /\ Cardinality(r.ips) = 1
    <3>1. oks' = Append(oks, r) /\ UNCHANGED <<errs, pings>> /\ Returns(r) /\ strategy = "FirstPing"
      BY <2>1, <2>2 DEF FirstPingReply
    <3>2. r.ips # {}
      BY <2>2, FS_EmptySet
    <3>3. pings' = pings \cup {} /\ IsFiniteSet({})
      BY <3>1, FS_EmptySet
    <3> QED BY <1>3, <1>5, <3>1, <3>2, <3>3, KeepStep
  <2>3. CASE FirstPingReply(s, r) /\ Cardinality(r.ips) # 1
    <3>1. /\ oks' = Append(oks, r) /\ UNCHANGED <<pc, errs, result>> /\ strategy = "FirstPing"
          /\ pings' = pings \cup {[of |-> s, ips |-> r.ips]}
      BY <2>1, <2>3 DEF FirstPingReply
    <3>2. PICK P : P = {[of |-> s, ips |-> r.ips]}
      BY Zenon
    <3>3. IsFiniteSet(P)
      BY <3>2, FS_Singleton, Zenon
    <3>4. P \subseteq [of : Server \cup Ip, ips : SUBSET Ip] /\ \A p \in P : p.ips \subseteq r.ips
      BY <2>1, <3>2
    <3> QED BY <1>3, <1>5, <3>1, <3>2, <3>3, <3>4, KeepStep
  <2>4. CASE FastestIpReply(s, r)
    <3>1. PICK P : P = {[of |-> a, ips |-> {a}] : a \in r.ips \ Answered(oks)}
      BY Zenon
    <3>2. /\ oks' = Append(oks, r) /\ UNCHANGED <<pc, errs, result>> /\ strategy = "FastestIp"
          /\ pings' = pings \cup P
      BY <2>1, <2>4, <3>1 DEF FastestIpReply
    <3>3. IsFiniteSet(P)
      BY <2>1, <3>1, NewTests, Zenon
    <3>4. P \subseteq [of : Server \cup Ip, ips : SUBSET Ip] /\ \A p \in P : p.ips \subseteq r.ips
      BY <2>1, <3>1
    <3> QED BY <1>3, <1>5, <3>2, <3>3, <3>4, KeepStep
  <2>5. CASE FastestResponseReply(s, r)
    <3>1. /\ oks' = Append(oks, r) /\ UNCHANGED <<errs, pings>> /\ strategy = "FastestResponse"
          /\ IF r.code = "NoError" THEN Returns(r) ELSE UNCHANGED <<pc, result>>
      BY <2>1, <2>5 DEF FastestResponseReply
    <3>2. Answered(oks) = {}
      BY <1>3, <3>1 DEF IInv, Sources
    <3>3. pings' = pings \cup {} /\ IsFiniteSet({})
      BY <3>1, FS_EmptySet
    <3>4. \/ UNCHANGED <<pc, result>> /\ (strategy = "FastestResponse" => r.ips = {})
          \/ Returns(r) /\ strategy # "FastestIp" /\ (Answered(oks) \cup r.ips # {} => r.ips # {})
      BY <1>5, <3>1, <3>2
    <3> QED BY <1>3, <1>5, <3>1, <3>3, <3>4, KeepStep
  <2> QED BY <1>3, <2>2, <2>3, <2>4, <2>5
<1> QED BY <1>2, <1>4, <1>5

-----------------------------------------------------------------------------
\* A lookup that ends with a good result, of tests whose addresses were kept.
LEMMA EndStep ==
  ASSUME IInv, pc' = "done", Good(result', oks), UNCHANGED <<strategy, filter, asked, oks, errs>>,
         pings' \subseteq pings, timed' \subseteq [ip : Ip, elapsed : 0..MAX_ELAPSED],
         \A t \in timed' : t.ip \in Answered(oks),
         asked # {} => oks # <<>>,
         FastestServed'
  PROVE  IInv'
<1>1. Answered(oks)' = Answered(oks)
  BY DEF Answered
<1>2. IsFiniteSet(pings')
  BY FS_Subset DEF IInv, Shape
<1>3. Shape'
  BY <1>2 DEF IInv, Shape, Good
<1>4. Counted'
  BY DEF IInv, Counted
<1>5. Sources'
  BY <1>1 DEF IInv, Sources
<1>6. AddressesServed'
  BY <1>1 DEF AddressesServed, Good
<1>7. NoHastyEnd'
  BY DEF NoHastyEnd
<1> QED BY <1>3, <1>4, <1>5, <1>6, <1>7 DEF IInv

\* A lookup that goes on with one test less.
LEMMA GoOnStep ==
  ASSUME IInv, pc = "run", UNCHANGED <<pc, result, strategy, filter, asked, oks, errs>>,
         pings' \subseteq pings, timed' \subseteq [ip : Ip, elapsed : 0..MAX_ELAPSED],
         \A t \in timed' : t.ip \in Answered(oks)
  PROVE  IInv'
<1>1. Answered(oks)' = Answered(oks)
  BY DEF Answered
<1>2. IsFiniteSet(pings')
  BY FS_Subset DEF IInv, Shape
<1>3. Shape'
  BY <1>2 DEF IInv, Shape
<1>4. Counted'
  BY DEF IInv, Counted
<1>5. Sources'
  BY <1>1 DEF IInv, Sources
<1> QED BY <1>3, <1>4, <1>5 DEF IInv, AddressesServed, NoHastyEnd, FastestServed

\* A speed test finds an address: for FirstPing, the answer.
LEMMA PingDoneStep ==
  ASSUME IInv, NEW p \in pings, NEW t \in [ip : p.ips, elapsed : 0..MAX_ELAPSED], PingDone(p, t)
  PROVE  IInv'
<1>1. p.ips \subseteq Answered(oks) /\ p.ips \subseteq Ip /\ oks # <<>> /\ oks \in Seq(OkReply)
  BY DEF IInv, Sources, Shape
<1>2. t.ip \in Answered(oks) /\ t \in [ip : Ip, elapsed : 0..MAX_ELAPSED]
  BY <1>1
<1>3. /\ pings' \subseteq pings /\ timed' \subseteq [ip : Ip, elapsed : 0..MAX_ELAPSED]
      /\ \A u \in timed' : u.ip \in Answered(oks)
  BY <1>2 DEF PingDone, IInv, Shape, Sources
<1>4. CASE strategy = "FirstPing" /\ Returns(SelectedIp(oks, t.ip))
  <2>1. Good(SelectedIp(oks, t.ip), oks)
    BY <1>1, <1>2, SelectedIsGood
  <2>2. FastestServed'
    BY <1>4 DEF PingDone, FastestServed
  <2> QED BY <1>1, <1>3, <1>4, <2>1, <2>2, EndStep DEF PingDone, Returns
<1>5. CASE strategy # "FirstPing" /\ UNCHANGED <<pc, result>>
  BY <1>3, <1>5, GoOnStep DEF PingDone
<1> QED BY <1>4, <1>5 DEF PingDone

\* A speed test finds none: for FirstPing, the majority decides.
LEMMA PingFailedStep ==
  ASSUME IInv, NEW p \in pings, PingFailed(p)
  PROVE  IInv'
<1>1. oks # <<>> /\ oks \in Seq(OkReply) /\ errs \in Seq(Errors)
  BY DEF IInv, Sources, Shape
<1>2. /\ pings' \subseteq pings /\ timed' \subseteq [ip : Ip, elapsed : 0..MAX_ELAPSED]
      /\ \A u \in timed' : u.ip \in Answered(oks)
  BY DEF PingFailed, IInv, Shape, Sources
<1>3. CASE strategy = "FirstPing" /\ Undecided(oks, errs)
  <2>1. pc' = "done" /\ Good(result', oks)
    BY <1>1, <1>3, UndecidedIsGood
  <2>2. FastestServed'
    BY <1>3 DEF PingFailed, FastestServed
  <2> QED BY <1>1, <1>2, <2>1, <2>2, EndStep DEF PingFailed
<1>4. CASE strategy # "FirstPing" /\ UNCHANGED <<pc, result>>
  BY <1>2, <1>4, GoOnStep DEF PingFailed
<1> QED BY <1>3, <1>4 DEF PingFailed

\* Everything has come in.
LEMMA DrainedStep ==
  ASSUME IInv, Drained
  PROVE  IInv'
<1>1. /\ pc = "run" /\ asked = {} /\ pings = {} /\ oks \in Seq(OkReply) /\ errs \in Seq(Errors)
      /\ UNCHANGED <<strategy, filter, asked, oks, errs, pings, timed>>
  BY DEF Drained, IInv, Shape
<1>2. /\ timed' \subseteq [ip : Ip, elapsed : 0..MAX_ELAPSED]
      /\ \A u \in timed' : u.ip \in Answered(oks)
  BY <1>1 DEF IInv, Shape, Sources
<1>3. CASE strategy = "FastestResponse"
  <2>1. Returns(IF oks # <<>> THEN last_ok
                ELSE IF errs # <<>> THEN Err(last_error) ELSE Err("NoConnections"))
    BY <1>3 DEF Drained
  <2>2. Answered(oks) = {}
    BY <1>1, <1>3 DEF IInv, Sources
  <2>3. Good(result', oks)
    <3>1. CASE oks # <<>>
      <4>1. Len(oks) \in DOMAIN oks /\ oks[Len(oks)] \in OkReply
        BY <1>1, <3>1
      <4>2. oks[Len(oks)].ips = {}
        BY <2>2, <4>1 DEF Answered
      <4>3. result' = oks[Len(oks)]
        BY <2>1, <3>1 DEF Returns, last_ok
      <4>4. result' \in Replies /\ result'.code # "unreachable"
        BY <4>1, <4>3, ReplyKinds, Zenon DEF OkReply, Codes
      <4> QED BY <2>2, <4>2, <4>3, <4>4 DEF Good
    <3>2. CASE oks = <<>>
      <4>1. PICK e \in Errors : result' = Err(e)
        BY <1>1, <2>1, <3>2 DEF Returns, last_error, Errors
      <4>2. Err(e) \in Replies /\ Err(e).code # "unreachable" /\ Err(e).ips = {}
        BY ReplyKinds, Zenon DEF ErrReply, Err, Errors
      <4> QED BY <2>2, <4>1, <4>2 DEF Good
    <3> QED BY <3>1, <3>2
  <2>4. FastestServed'
    BY <1>1, <1>3 DEF FastestServed
  <2> QED BY <1>1, <1>2, <2>1, <2>3, <2>4, EndStep DEF Returns
<1>4. CASE strategy # "FastestResponse" /\ timed # {}
  <2>1. PICK t \in Fastest(timed) : Returns(SelectedIp(oks, t.ip))
    BY <1>4 DEF Drained
  <2>2. t \in timed /\ t.ip \in Answered(oks) /\ \A u \in timed : t.elapsed <= u.elapsed
    BY <1>1, <1>2, <2>1 DEF Fastest
  <2>3. Good(SelectedIp(oks, t.ip), oks) /\ SelectedIp(oks, t.ip).ips = {t.ip}
    BY <1>1, <2>2, SelectedIsGood
  <2>4. FastestServed'
    BY <1>1, <2>1, <2>2, <2>3 DEF FastestServed, Returns
  <2> QED BY <1>1, <1>2, <2>1, <2>3, <2>4, EndStep DEF Returns
<1>5. CASE strategy # "FastestResponse" /\ timed = {}
  <2>1. Undecided(oks, errs)
    BY <1>5 DEF Drained
  <2>2. pc' = "done" /\ Good(result', oks)
    BY <1>1, <2>1, UndecidedIsGood
  <2>3. FastestServed'
    BY <1>1, <1>5 DEF FastestServed
  <2> QED BY <1>1, <1>2, <2>2, <2>3, EndStep
<1> QED BY <1>3, <1>4, <1>5

\* Every step of a lookup keeps the invariant.
LEMMA StepHolds == IInv /\ [Next]_vars => IInv'
<1> SUFFICES ASSUME IInv, [Next]_vars PROVE IInv'
  OBVIOUS
<1>1. CASE UNCHANGED vars
  <2>1. Shape' /\ Counted'
    BY <1>1 DEF vars, IInv, Shape, Counted
  <2>2. Sources' /\ AddressesServed' /\ NoHastyEnd' /\ FastestServed'
    BY <1>1 DEF vars, IInv, Sources, AddressesServed, NoHastyEnd, FastestServed, Answered
  <2> QED BY <2>1, <2>2 DEF IInv
<1>2. CASE \E m \in Mode, b \in BOOLEAN, c \in BOOLEAN, f \in Filter : Start(m, b, c, f)
  BY <1>2, StartStep
<1>3. CASE \E s \in Server, r \in Reply : Query(s, r)
  BY <1>3, QueryStep
<1>4. CASE \E p \in pings :
             PingFailed(p) \/ \E t \in [ip : p.ips, elapsed : 0..MAX_ELAPSED] : PingDone(p, t)
  BY <1>4, PingFailedStep, PingDoneStep
<1>5. CASE Drained
  BY <1>5, DrainedStep
<1> QED BY <1>1, <1>2, <1>3, <1>4, <1>5 DEF Next

\* The invariant always holds.
LEMMA InvariantHolds == Spec => []IInv
BY InitHolds, StepHolds, PTL DEF Spec

\* Type correctness; no more replies are kept than there are servers.
THEOREM LookupTypes == Spec => []TypeOK
<1>1. IInv => TypeOK
  <2> SUFFICES ASSUME IInv PROVE TypeOK
    OBVIOUS
  <2>1. oks \in Seq(Replies)
    BY ReplyKinds DEF IInv, Shape
  <2>2. Len(oks) <= Cardinality(Server) /\ Len(errs) <= Cardinality(Server)
    <3>1. IsFiniteSet(asked)
      BY FS_Subset, StrategyAssumption DEF IInv, Shape
    <3>2. Cardinality(asked) \in Nat /\ Cardinality(Server) \in Nat
      BY <3>1, FS_CardinalityType, StrategyAssumption
    <3>3. Len(oks) \in Nat /\ Len(errs) \in Nat
      BY DEF IInv, Shape
    <3> QED BY <3>2, <3>3 DEF IInv, Counted
  <2> QED BY <2>1, <2>2 DEF IInv, Shape, TypeOK
<1> QED BY <1>1, InvariantHolds, PTL

\* For any group of servers and any order of replies and speed tests, the address that
\* a strategy of lookup_ip selects is one of a response it kept, and a lookup to which
\* any server has sent addresses returns some of those.
THEOREM LookupServesAddresses == Spec => []AddressesServed
<1>1. IInv => AddressesServed
  BY DEF IInv
<1> QED BY <1>1, InvariantHolds, PTL

\* For any group of servers, lookup_ip gives up servers it still waits for only for an
\* answer, or when two others agree on an error other than "no connections".
THEOREM LookupNotHasty == Spec => []NoHastyEnd
<1>1. IInv => NoHastyEnd
  BY DEF IInv
<1> QED BY <1>1, InvariantHolds, PTL

\* For any addresses and measured times, the FastestIp strategy returns an address no
\* slower than any it has timed, and has waited for all.
THEOREM LookupServesFastest == Spec => []FastestServed
<1>1. IInv => FastestServed
  BY DEF IInv
<1> QED BY <1>1, InvariantHolds, PTL

-----------------------------------------------------------------------------
\* A reply outweighs the speed tests it may start.
LEMMA Outweighs ==
  ASSUME NEW n \in Nat, NEW m \in Nat, NEW q \in Nat, NEW r \in Nat, r <= q + m
  PROVE  (n - 1) * (m + 1) + r < n * (m + 1) + q
<1>1. (n - 1) * (m + 1) = n * (m + 1) - (m + 1)
  OBVIOUS
<1>2. n * (m + 1) \in Int
  OBVIOUS
<1> QED BY <1>1, <1>2

\* A reply starts no more tests than there are addresses.
LEMMA TestsStarted ==
  ASSUME IInv, NEW s \in Server, NEW reply \in Reply, Query(s, reply)
  PROVE  Cardinality(pings') \in Nat /\ Cardinality(pings') <= Cardinality(pings) + Cardinality(Ip)
<1>0. /\ IsFiniteSet(pings) /\ Cardinality(pings) \in Nat
      /\ Cardinality(Ip) \in Nat /\ Cardinality(Ip) >= 1
  <2>1. Cardinality(Ip) \in Nat /\ Cardinality(Ip) # 0
    BY FS_CardinalityType, FS_EmptySet, StrategyAssumption
  <2> QED BY <2>1, FS_CardinalityType DEF IInv, Shape
<1>1. PICK r : r = per_nameserver_lookup_ip(reply)
  OBVIOUS
<1>2. r.ok => r.ips \subseteq Ip
  BY <1>1, FilteredReply, Zenon DEF IInv, Shape, OkReply
<1>3. \/ pings' = pings
      \/ pings' = pings \cup {[of |-> s, ips |-> r.ips]}
      \/ r.ok /\ pings' = pings \cup {[of |-> a, ips |-> {a}] : a \in r.ips \ Answered(oks)}
  BY <1>1 DEF Query, FirstPingReply, FastestIpReply, FastestResponseReply
<1>4. ASSUME NEW P, IsFiniteSet(P), Cardinality(P) \in Nat, Cardinality(P) <= Cardinality(Ip),
             pings' = pings \cup P
      PROVE  /\ Cardinality(pings') \in Nat
             /\ Cardinality(pings') <= Cardinality(pings) + Cardinality(Ip)
  <2>1. /\ IsFiniteSet(pings')
        /\ Cardinality(pings') = Cardinality(pings) + Cardinality(P) - Cardinality(pings \cap P)
    BY <1>0, <1>4, FS_Union
  <2>2. IsFiniteSet(pings \cap P)
    BY <1>0, FS_Intersection
  <2>3. Cardinality(pings') \in Nat /\ Cardinality(pings \cap P) \in Nat
    BY <2>1, <2>2, FS_CardinalityType
  <2> QED BY <1>0, <1>4, <2>1, <2>3
<1>5. CASE pings' = pings
  BY <1>0, <1>5
<1>6. CASE pings' = pings \cup {[of |-> s, ips |-> r.ips]}
  <2>1. PICK P : P = {[of |-> s, ips |-> r.ips]}
    BY Zenon
  <2>2. IsFiniteSet(P) /\ Cardinality(P) = 1
    BY <2>1, FS_Singleton, Zenon
  <2> QED BY <1>0, <1>4, <1>6, <2>1, <2>2
<1>7. CASE r.ok /\ pings' = pings \cup {[of |-> a, ips |-> {a}] : a \in r.ips \ Answered(oks)}
  <2>1. PICK A : A = r.ips \ Answered(oks)
    BY Zenon
  <2>2. PICK P : P = {[of |-> a, ips |-> {a}] : a \in A}
    BY Zenon
  <2>3. A \subseteq Ip
    BY <1>2, <1>7, <2>1
  <2>4. IsFiniteSet(P) /\ Cardinality(P) \in Nat /\ Cardinality(P) <= Cardinality(Ip)
    BY <2>2, <2>3, NewTests, Zenon
  <2> QED BY <1>4, <1>7, <2>1, <2>2, <2>4, Zenon
<1> QED BY <1>3, <1>5, <1>6, <1>7

\* What a running lookup waits for shrinks with every event it takes.
LEMMA EventBringsNearer ==
  ASSUME IInv, Next, pc = "run", pc' = "run"
  PROVE  Outstanding' < Outstanding
<1>0. Cardinality(Ip) \in Nat /\ Cardinality(pings) \in Nat /\ IsFiniteSet(pings) /\ asked \subseteq Server
  BY FS_CardinalityType, StrategyAssumption DEF IInv, Shape
<1>1. CASE \E s \in Server, r \in Reply : Query(s, r)
  <2>1. PICK s \in Server, r \in Reply : Query(s, r)
    BY <1>1
  <2>2. s \in asked /\ asked' = asked \ {s}
    BY <2>1 DEF Query
  <2>3. Cardinality(asked) \in Nat /\ Cardinality(asked') = Cardinality(asked) - 1
    BY <1>0, <2>2, OneLess
  <2>4. Cardinality(pings') \in Nat /\ Cardinality(pings') <= Cardinality(pings) + Cardinality(Ip)
    BY <2>1, TestsStarted
  <2>5. (Cardinality(asked) - 1) * (Cardinality(Ip) + 1) + Cardinality(pings')
          < Cardinality(asked) * (Cardinality(Ip) + 1) + Cardinality(pings)
    BY <1>0, <2>3, <2>4, Outweighs
  <2> QED BY <2>3, <2>5 DEF Outstanding
<1>2. CASE \E p \in pings :
             PingFailed(p) \/ \E t \in [ip : p.ips, elapsed : 0..MAX_ELAPSED] : PingDone(p, t)
  <2>1. PICK p \in pings : pings' = pings \ {p} /\ asked' = asked
    BY <1>2 DEF PingFailed, PingDone
  <2>2. Cardinality(pings') = Cardinality(pings) - 1
    BY <1>0, <2>1, FS_RemoveElement
  <2>3. IsFiniteSet(asked)
    BY <1>0, FS_Subset, StrategyAssumption
  <2>4. Cardinality(asked) * (Cardinality(Ip) + 1) \in Int
    BY <1>0, <2>3, FS_CardinalityType
  <2> QED BY <1>0, <2>1, <2>2, <2>4 DEF Outstanding
<1>3. ~Drained /\ ~\E m \in Mode, b \in BOOLEAN, c \in BOOLEAN, f \in Filter : Start(m, b, c, f)
  BY DEF Drained, Undecided, Returns, Start
<1> QED BY <1>1, <1>2, <1>3 DEF Next

\* For any group of servers and any addresses, each event the loop of lookup_ip takes
\* brings it nearer to its end, although replies start further speed tests.
THEOREM LookupLoopEnds == Spec => LoopEnds
<1>1. IInv /\ [Next]_vars => [pc = "run" /\ pc' = "run" => Outstanding' < Outstanding]_vars
  BY EventBringsNearer
<1> QED BY <1>1, InvariantHolds, PTL DEF Spec, LoopEnds

-----------------------------------------------------------------------------
\* The replies a lookup has heard when it has kept os and counted es.
HeardOf(os, es) == {os[i] : i \in DOMAIN os} \cup {Err(es[i]) : i \in DOMAIN es}

\* A response that is kept is heard.
LEMMA HeardKept ==
  ASSUME NEW os \in Seq(OkReply), NEW es \in Seq(Errors), NEW r \in OkReply
  PROVE  HeardOf(Append(os, r), es) = HeardOf(os, es) \cup {r}
<1>1. DOMAIN Append(os, r) = DOMAIN os \cup {Len(os) + 1}
  OBVIOUS
<1>2. \A i \in DOMAIN os : Append(os, r)[i] = os[i]
  OBVIOUS
<1>3. Append(os, r)[Len(os) + 1] = r
  OBVIOUS
<1> QED BY <1>1, <1>2, <1>3, Zenon DEF HeardOf

\* An error that is counted is heard.
LEMMA HeardCounted ==
  ASSUME NEW os \in Seq(OkReply), NEW es \in Seq(Errors), NEW e \in Errors
  PROVE  HeardOf(os, Append(es, e)) = HeardOf(os, es) \cup {Err(e)}
<1>1. DOMAIN Append(es, e) = DOMAIN es \cup {Len(es) + 1}
  OBVIOUS
<1>2. \A i \in DOMAIN es : Append(es, e)[i] = es[i]
  OBVIOUS
<1>3. Append(es, e)[Len(es) + 1] = e
  OBVIOUS
<1> QED BY <1>1, <1>2, <1>3, Zenon DEF HeardOf

\* The responses among them are those that were kept, and they have the addresses.
LEMMA HeardResponses ==
  ASSUME NEW os \in Seq(OkReply), NEW es \in Seq(Errors)
  PROVE  /\ Abstract!Responses(HeardOf(os, es)) = {os[i] : i \in DOMAIN os}
         /\ Abstract!Addressed(HeardOf(os, es)) = {os[i] : i \in {j \in DOMAIN os : os[j].ips # {}}}
         /\ Abstract!Addressed(HeardOf(os, es)) # {} <=> Answered(os) # {}
<1>1. \A i \in DOMAIN os : os[i].ok
  <2>1. \A i \in DOMAIN os : os[i] \in OkReply
    OBVIOUS
  <2> QED BY <2>1, Zenon DEF OkReply
<1>2. \A e : ~Err(e).ok
  BY DEF Err
<1>3. Abstract!Responses(HeardOf(os, es)) = {os[i] : i \in DOMAIN os}
  BY <1>1, <1>2, Zenon DEF Abstract!Responses, HeardOf
<1>4. Abstract!Addressed(HeardOf(os, es)) = {os[i] : i \in {j \in DOMAIN os : os[j].ips # {}}}
  BY <1>1, <1>2, Zenon DEF Abstract!Addressed, HeardOf
<1>5. {os[i] : i \in {j \in DOMAIN os : os[j].ips # {}}} # {} <=> Answered(os) # {}
  BY Zenon DEF Answered
<1> QED BY <1>3, <1>4, <1>5, Zenon

\* handle_strategy_result narrows a response that was heard to the address.
LEMMA SelectedOffered ==
  ASSUME NEW os \in Seq(OkReply), NEW es \in Seq(Errors), NEW a \in Answered(os)
  PROVE  SelectedIp(os, a) \in Abstract!Offers(HeardOf(os, es))
<1>1. PICK i \in DOMAIN os : a \in os[i].ips /\ SelectedIp(os, a) = [os[i] EXCEPT !.ips = {a}]
  <2>1. PICK J : J = {j \in DOMAIN os : a \in os[j].ips}
    BY Zenon
  <2>2. J \subseteq Nat /\ J # {}
    BY <2>1 DEF Answered
  <2>3. \E x \in J : \A y \in J : x <= y
    BY <2>2, LeastNat, Zenon
  <2>4. Min(J) \in J
    BY <2>3 DEF Min
  <2> QED BY <2>1, <2>4, Zenon DEF SelectedIp
<1>2. PICK R : R = Abstract!Addressed(HeardOf(os, es))
  BY Zenon
<1>3. os[i] \in R /\ R # {}
  <2>1. R = {os[k] : k \in {j \in DOMAIN os : os[j].ips # {}}}
    BY <1>2, HeardResponses, Zenon
  <2>2. i \in {j \in DOMAIN os : os[j].ips # {}}
    BY <1>1, Zenon
  <2> QED BY <2>1, <2>2, Zenon
<1>4. SelectedIp(os, a) \in UNION {{[r EXCEPT !.ips = {b}] : b \in r.ips} : r \in R}
  <2>1. PICK T : T = {[os[i] EXCEPT !.ips = {b}] : b \in os[i].ips}
    BY Zenon
  <2>2. SelectedIp(os, a) \in T
    BY <1>1, <2>1, Zenon
  <2>3. T \in {{[r EXCEPT !.ips = {b}] : b \in r.ips} : r \in R}
    BY <1>3, <2>1, Zenon
  <2> QED BY <2>2, <2>3, Zenon
<1> QED BY <1>2, <1>3, <1>4, Zenon DEF Abstract!Offers

\* A response may be returned as it came, with addresses if any response has some.
LEMMA ResponseOffered ==
  ASSUME NEW os \in Seq(OkReply), NEW es \in Seq(Errors), NEW i \in DOMAIN os,
         Answered(os) # {} => os[i].ips # {}
  PROVE  os[i] \in Abstract!Offers(HeardOf(os, es))
<1>1. PICK R : R = Abstract!Addressed(HeardOf(os, es))
  BY Zenon
<1>2. PICK Q : Q = Abstract!Responses(HeardOf(os, es))
  BY Zenon
<1>3. os[i] \in Q
  <2>1. Q = {os[k] : k \in DOMAIN os}
    BY <1>2, HeardResponses, Zenon
  <2> QED BY <2>1, Zenon
<1>4. CASE R # {}
  <2>1. os[i].ips # {}
    BY <1>1, <1>4, HeardResponses, Zenon
  <2>2. R = {os[k] : k \in {j \in DOMAIN os : os[j].ips # {}}}
    BY <1>1, HeardResponses, Zenon
  <2>3. os[i] \in R
    BY <2>1, <2>2, Zenon
  <2> QED BY <1>1, <1>4, <2>3, Zenon DEF Abstract!Offers
<1>5. CASE R = {}
  BY <1>1, <1>2, <1>3, <1>5, Zenon DEF Abstract!Offers
<1> QED BY <1>4, <1>5, Zenon

\* Without a response, an error may be returned; without any reply, the lookup's own.
LEMMA ErrorOffered ==
  ASSUME NEW es \in Seq(Errors), NEW e,
         \/ \E i \in DOMAIN es : e = es[i]
         \/ es = <<>> /\ e = "NoConnections"
  PROVE  Err(e) \in Abstract!Offers(HeardOf(<<>>, es))
<1>0. <<>> \in Seq(OkReply) /\ DOMAIN <<>> = {}
  OBVIOUS
<1>1. Abstract!Addressed(HeardOf(<<>>, es)) = {} /\ Abstract!Responses(HeardOf(<<>>, es)) = {}
  BY <1>0, HeardResponses, Zenon
<1>2. CASE \E i \in DOMAIN es : e = es[i]
  <2>1. Err(e) \in HeardOf(<<>>, es)
    BY <1>2, Zenon DEF HeardOf
  <2> QED BY <1>1, <2>1, Zenon DEF Abstract!Offers
<1>3. CASE es = <<>> /\ e = "NoConnections"
  <2>1. HeardOf(<<>>, es) = {}
    BY <1>0, <1>3, Zenon DEF HeardOf
  <2> QED BY <1>1, <1>3, <2>1, Zenon DEF Abstract!Offers
<1> QED BY <1>2, <1>3

\* A lookup that no speed test decides returns what it may.
LEMMA UndecidedOffered ==
  ASSUME NEW os \in Seq(OkReply), NEW es \in Seq(Errors), Undecided(os, es)
  PROVE  pc' = "done" /\ result' \in Abstract!Offers(HeardOf(os, es))
<1>1. CASE \E a \in most_frequent_ip(os) : Returns(SelectedIp(os, a))
  <2>1. PICK a \in Answered(os) : Returns(SelectedIp(os, a))
    BY <1>1 DEF most_frequent_ip
  <2>2. SelectedIp(os, a) \in Abstract!Offers(HeardOf(os, es))
    BY SelectedOffered
  <2> QED BY <2>1, <2>2, Zenon DEF Returns
<1>2. CASE most_frequent_ip(os) = {} /\ Returns(Fallback(os, es))
  <2>1. Answered(os) = {}
    BY <1>2, MostFrequentExists
  <2>2. CASE os # <<>>
    <3>1. 1 \in DOMAIN os /\ Fallback(os, es) = os[1]
      BY <2>2 DEF Fallback
    <3>2. os[1] \in Abstract!Offers(HeardOf(os, es))
      BY <2>1, <3>1, ResponseOffered
    <3> QED BY <1>2, <3>1, <3>2, Zenon DEF Returns
  <2>3. CASE os = <<>>
    <3>1. PICK e : /\ Fallback(os, es) = Err(e)
                   /\ \/ \E i \in DOMAIN es : e = es[i]
                      \/ es = <<>> /\ e = "NoConnections"
      <4>1. CASE es # <<>>
        <5>1. 1 \in DOMAIN es /\ Fallback(os, es) = Err(es[1])
          BY <2>3, <4>1 DEF Fallback
        <5> QED BY <5>1, Zenon
      <4>2. CASE es = <<>>
        BY <2>3, <4>2 DEF Fallback
      <4> QED BY <4>1, <4>2
    <3>2. Err(e) \in Abstract!Offers(HeardOf(<<>>, es))
      BY <3>1, ErrorOffered
    <3> QED BY <1>2, <2>3, <3>1, <3>2, Zenon DEF Returns
  <2> QED BY <2>2, <2>3
<1> QED BY <1>1, <1>2 DEF Undecided

\* The mapping, before and after a step.
LEMMA HeardMapped == Heard = HeardOf(oks, errs) /\ Heard' = HeardOf(oks', errs')
BY DEF Heard, HeardOf

\* A lookup that ends without a reply of its own, with what it may return.
LEMMA EndDecides ==
  ASSUME IInv, pc = "run", pc' = "done", UNCHANGED <<asked, oks, errs>>,
         asked = {} \/ oks # <<>>,
         result' \in Abstract!Offers(HeardOf(oks, errs))
  PROVE  Abstract!Decide
<1>1. Heard = HeardOf(oks, errs) /\ Heard' = Heard
  BY HeardMapped
<1>2. asked = {} \/ Abstract!Responses(Heard) # {}
  <2>1. oks \in Seq(OkReply) /\ errs \in Seq(Errors)
    BY DEF IInv, Shape
  <2>2. Abstract!Responses(Heard) = {oks[i] : i \in DOMAIN oks}
    BY <1>1, <2>1, HeardResponses, Zenon
  <2>3. oks # <<>> => 1 \in DOMAIN oks
    BY <2>1
  <2> QED BY <2>2, <2>3, Zenon
<1>3. Abstract!Answer(Heard)
  BY <1>1, Zenon DEF Abstract!Answer
<1> QED BY <1>1, <1>2, <1>3 DEF Abstract!Decide

\* Starting a lookup.
LEMMA StartAsks ==
  ASSUME NEW m \in Mode, NEW b \in BOOLEAN, NEW c \in BOOLEAN, NEW f \in Filter,
         Start(m, b, c, f)
  PROVE  Abstract!Ask
<1>1. Heard' = {}
  <2>1. oks' = <<>> /\ errs' = <<>> /\ DOMAIN <<>> = {}
    BY DEF Start
  <2> QED BY <2>1, HeardMapped, Zenon DEF HeardOf
<1> QED BY <1>1 DEF Start, Abstract!Ask

\* A speed test that ends a lookup or leaves it as it is.
LEMMA PingDoneDecides ==
  ASSUME IInv, NEW p \in pings, NEW t \in [ip : p.ips, elapsed : 0..MAX_ELAPSED], PingDone(p, t)
  PROVE  Abstract!Decide \/ UNCHANGED Abstract!vars
<1>1. /\ t.ip \in Answered(oks) /\ oks # <<>> /\ oks \in Seq(OkReply) /\ errs \in Seq(Errors)
  BY DEF IInv, Sources, Shape
<1>2. CASE strategy = "FirstPing" /\ Returns(SelectedIp(oks, t.ip))
  <2>1. SelectedIp(oks, t.ip) \in Abstract!Offers(HeardOf(oks, errs))
    BY <1>1, SelectedOffered
  <2>2. result' \in Abstract!Offers(HeardOf(oks, errs)) /\ pc' = "done"
    BY <1>2, <2>1, Zenon DEF Returns
  <2> QED BY <1>1, <2>2, EndDecides DEF PingDone
<1>3. CASE strategy # "FirstPing" /\ UNCHANGED <<pc, result>>
  BY <1>3, HeardMapped DEF PingDone, Abstract!vars
<1> QED BY <1>2, <1>3 DEF PingDone

\* A speed test without result that ends a lookup or leaves it as it is.
LEMMA PingFailedDecides ==
  ASSUME IInv, NEW p \in pings, PingFailed(p)
  PROVE  Abstract!Decide \/ UNCHANGED Abstract!vars
<1>1. oks # <<>> /\ oks \in Seq(OkReply) /\ errs \in Seq(Errors)
  BY DEF IInv, Sources, Shape
<1>2. CASE strategy = "FirstPing" /\ Undecided(oks, errs)
  <2>1. result' \in Abstract!Offers(HeardOf(oks, errs)) /\ pc' = "done"
    BY <1>1, <1>2, UndecidedOffered
  <2> QED BY <1>1, <2>1, EndDecides DEF PingFailed
<1>3. CASE strategy # "FirstPing" /\ UNCHANGED <<pc, result>>
  BY <1>3, HeardMapped DEF PingFailed, Abstract!vars
<1> QED BY <1>2, <1>3 DEF PingFailed

\* The end of a lookup that has heard of everyone.
LEMMA DrainedDecides ==
  ASSUME IInv, Drained
  PROVE  Abstract!Decide
<1>1. /\ pc = "run" /\ asked = {} /\ oks \in Seq(OkReply) /\ errs \in Seq(Errors)
      /\ UNCHANGED <<asked, oks, errs>>
  BY DEF Drained, IInv, Shape
<1>2. result' \in Abstract!Offers(HeardOf(oks, errs)) /\ pc' = "done"
  <2>1. CASE strategy = "FastestResponse"
    <3>1. Returns(IF oks # <<>> THEN last_ok
                  ELSE IF errs # <<>> THEN Err(last_error) ELSE Err("NoConnections"))
      BY <2>1 DEF Drained
    <3>2. CASE oks # <<>>
      <4>1. Len(oks) \in DOMAIN oks /\ Answered(oks) = {}
        BY <1>1, <2>1, <3>2 DEF IInv, Sources
      <4>2. oks[Len(oks)] \in Abstract!Offers(HeardOf(oks, errs))
        BY <1>1, <4>1, ResponseOffered
      <4> QED BY <3>1, <3>2, <4>2, Zenon DEF Returns, last_ok
    <3>3. CASE oks = <<>>
      <4>1. PICK e : /\ result' = Err(e)
                     /\ \/ \E i \in DOMAIN errs : e = errs[i]
                        \/ errs = <<>> /\ e = "NoConnections"
        <5>1. CASE errs # <<>>
          <6>1. Len(errs) \in DOMAIN errs /\ result' = Err(errs[Len(errs)])
            BY <1>1, <3>1, <3>3, <5>1 DEF Returns, last_error
          <6> QED BY <6>1, Zenon
        <5>2. CASE errs = <<>>
          BY <3>1, <3>3, <5>2 DEF Returns
        <5> QED BY <5>1, <5>2
      <4>2. Err(e) \in Abstract!Offers(HeardOf(<<>>, errs))
        BY <1>1, <4>1, ErrorOffered
      <4> QED BY <3>1, <3>3, <4>1, <4>2, Zenon DEF Returns
    <3> QED BY <3>2, <3>3
  <2>2. CASE strategy # "FastestResponse" /\ timed # {}
    <3>1. PICK t \in timed : Returns(SelectedIp(oks, t.ip))
      BY <2>2 DEF Drained, Fastest
    <3>2. SelectedIp(oks, t.ip) \in Abstract!Offers(HeardOf(oks, errs))
      BY <1>1, SelectedOffered DEF IInv, Sources
    <3> QED BY <3>1, <3>2, Zenon DEF Returns
  <2>3. CASE strategy # "FastestResponse" /\ timed = {}
    <3>1. Undecided(oks, errs)
      BY <2>3 DEF Drained
    <3> QED BY <1>1, <3>1, UndecidedOffered
  <2> QED BY <2>1, <2>2, <2>3
<1> QED BY <1>1, <1>2, EndDecides

\* A reply that is heard, and goes on or settles the lookup.
LEMMA ReplyHeard ==
  ASSUME pc = "run", NEW s \in asked, asked' = asked \ {s}, s \in Server,
         NEW r \in Replies, Heard' = Heard \cup {r},
         \/ UNCHANGED <<pc, result>>
         \/ /\ r.ok \/ (r \in Heard /\ r # Err("NoConnections"))
            /\ pc' = "done" /\ result' \in Abstract!Offers(Heard')
  PROVE  Abstract!Next
<1>1. Abstract!Hear(s, r)
  <2>1. CASE UNCHANGED <<pc, result>>
    BY <2>1 DEF Abstract!Hear
  <2>2. CASE /\ r.ok \/ (r \in Heard /\ r # Err("NoConnections"))
             /\ pc' = "done" /\ result' \in Abstract!Offers(Heard')
    <3>1. Abstract!Settles(r)
      BY <2>2, Zenon DEF Abstract!Settles
    <3>2. Abstract!Answer(Heard')
      BY <2>2, Zenon DEF Abstract!Answer
    <3> QED BY <3>1, <3>2, Zenon DEF Abstract!Hear
  <2> QED BY <2>1, <2>2
<1> QED BY <1>1, Zenon DEF Abstract!Next

\* The reply of a server is heard as the filters leave it; FirstPing ends with a
\* single address, FastestResponse with a NoError or the same error twice.
LEMMA QueryHears ==
  ASSUME IInv, NEW s \in Server, NEW reply \in Reply, Query(s, reply)
  PROVE  Abstract!Next
<1>0. oks \in Seq(OkReply) /\ errs \in Seq(Errors)
  BY DEF IInv, Shape
<1>1. PICK r : r = per_nameserver_lookup_ip(reply)
  OBVIOUS
<1>2. \/ r \in OkReply
      \/ r \in ErrReply /\ ~r.ok /\ r.code \in Errors
  BY <1>1, FilteredReply DEF IInv, Shape
<1>3. /\ pc = "run" /\ s \in asked /\ asked' = asked \ {s} /\ r \in Replies
      /\ FirstPingReply(s, r) \/ FastestIpReply(s, r) \/ FastestResponseReply(s, r)
  BY <1>1, <1>2, ReplyKinds DEF Query
<1>4. CASE r \in ErrReply /\ ~r.ok /\ r.code \in Errors
  <2>1. r = Err(r.code)
    BY <1>4 DEF ErrReply, Err
  <2>2. errs' = Append(errs, r.code) /\ oks' = oks
    BY <1>3, <1>4 DEF FirstPingReply, FastestIpReply, FastestResponseReply
  <2>3. Heard' = Heard \cup {r}
    <3>1. HeardOf(oks, Append(errs, r.code)) = HeardOf(oks, errs) \cup {Err(r.code)}
      BY <1>0, <1>4, HeardCounted
    <3> QED BY <2>1, <2>2, <3>1, HeardMapped, Zenon
  <2>4. CASE UNCHANGED <<pc, result>>
    BY <1>3, <2>3, <2>4, ReplyHeard
  <2>5. CASE /\ strategy = "FastestResponse"
             /\ r.code # "NoConnections" /\ errs # <<>> /\ last_error = r.code
             /\ Returns(IF oks # <<>> THEN last_ok ELSE r)
    <3>1. r \in Heard
      <4>1. Len(errs) \in DOMAIN errs /\ errs[Len(errs)] = r.code
        BY <1>0, <2>5 DEF last_error
      <4> QED BY <2>1, <4>1, Zenon DEF Heard
    <3>2. r # Err("NoConnections")
      BY <2>5 DEF Err
    <3>3. result' \in Abstract!Offers(Heard')
      <4>0. Heard' = HeardOf(oks, errs') /\ errs' \in Seq(Errors)
        BY <1>0, <1>4, <2>2, HeardMapped
      <4>1. CASE oks # <<>>
        <5>1. Len(oks) \in DOMAIN oks /\ Answered(oks) = {}
          BY <1>0, <1>3, <2>5, <4>1 DEF IInv, Sources
        <5>2. oks[Len(oks)] \in Abstract!Offers(HeardOf(oks, errs'))
          BY <1>0, <4>0, <5>1, ResponseOffered
        <5> QED BY <2>5, <4>0, <4>1, <5>2, Zenon DEF Returns, last_ok
      <4>2. CASE oks = <<>>
        <5>1. Len(errs) + 1 \in DOMAIN errs' /\ errs'[Len(errs) + 1] = r.code
          BY <1>0, <1>4, <2>2
        <5>2. Err(r.code) \in Abstract!Offers(HeardOf(<<>>, errs'))
          BY <4>0, <5>1, ErrorOffered
        <5> QED BY <2>1, <2>5, <4>0, <4>2, <5>2, Zenon DEF Returns
      <4> QED BY <4>1, <4>2
    <3> QED BY <1>3, <2>3, <2>5, <3>1, <3>2, <3>3, ReplyHeard, Zenon DEF Returns
  <2> QED BY <1>3, <1>4, <2>4, <2>5 DEF FirstPingReply, FastestIpReply, FastestResponseReply
<1>5. CASE r \in OkReply
  <2>1. r.ok
    BY <1>5, Zenon DEF OkReply
  <2>2. oks' = Append(oks, r) /\ errs' = errs
    BY <1>3, <2>1 DEF FirstPingReply, FastestIpReply, FastestResponseReply
  <2>3. Heard' = Heard \cup {r}
    <3>1. HeardOf(Append(oks, r), errs) = HeardOf(oks, errs) \cup {r}
      BY <1>0, <1>5, HeardKept
    <3> QED BY <2>2, <3>1, HeardMapped, Zenon
  <2>4. CASE UNCHANGED <<pc, result>>
    BY <1>3, <2>3, <2>4, ReplyHeard
  <2>5. CASE Returns(r) /\ (Answered(oks) # {} => r.ips # {})
    <3>1. oks' \in Seq(OkReply) /\ Len(oks) + 1 \in DOMAIN oks' /\ oks'[Len(oks) + 1] = r
      BY <1>0, <1>5, <2>2
    <3>2. Answered(oks') = Answered(oks) \cup r.ips
      BY <1>0, <1>5, <2>2, AnsweredAppend
    <3>3. Answered(oks') # {} => r.ips # {}
      BY <2>5, <3>2, Zenon
    <3>4. r \in Abstract!Offers(HeardOf(oks', errs))
      BY <1>0, <3>1, <3>3, ResponseOffered
    <3>5. pc' = "done" /\ result' \in Abstract!Offers(Heard')
      BY <2>2, <2>5, <3>4, HeardMapped, Zenon DEF Returns
    <3> QED BY <1>3, <2>1, <2>3, <3>5, ReplyHeard, Zenon
  <2>6. UNCHANGED <<pc, result>> \/ (Returns(r) /\ (Answered(oks) # {} => r.ips # {}))
    <3>1. CASE FirstPingReply(s, r)
      <4>1. Cardinality(r.ips) = 1 => r.ips # {}
        BY FS_EmptySet
      <4> QED BY <2>1, <3>1, <4>1, Zenon DEF FirstPingReply
    <3>2. CASE FastestIpReply(s, r)
      BY <3>2 DEF FastestIpReply
    <3>3. CASE FastestResponseReply(s, r)
      BY <1>3, <2>1, <3>3 DEF FastestResponseReply, IInv, Sources
    <3> QED BY <1>3, <3>1, <3>2, <3>3
  <2> QED BY <2>4, <2>5, <2>6
<1> QED BY <1>2, <1>4, <1>5

\* Every step of a lookup is a step of the abstract one, or none.
LEMMA StepImplements == IInv /\ [Next]_vars => [Abstract!Next]_(Abstract!vars)
<1> SUFFICES ASSUME IInv, [Next]_vars PROVE Abstract!Next \/ UNCHANGED Abstract!vars
  OBVIOUS
<1>1. CASE UNCHANGED vars
  BY <1>1, HeardMapped DEF vars, Abstract!vars
<1>2. CASE \E m \in Mode, b \in BOOLEAN, c \in BOOLEAN, f \in Filter : Start(m, b, c, f)
  BY <1>2, StartAsks DEF Abstract!Next
<1>3. CASE \E s \in Server, r \in Reply : Query(s, r)
  BY <1>3, QueryHears
<1>4. CASE \E p \in pings :
             PingFailed(p) \/ \E t \in [ip : p.ips, elapsed : 0..MAX_ELAPSED] : PingDone(p, t)
  BY <1>4, PingFailedDecides, PingDoneDecides DEF Abstract!Next
<1>5. CASE Drained
  BY <1>5, DrainedDecides DEF Abstract!Next
<1> QED BY <1>1, <1>2, <1>3, <1>4, <1>5 DEF Next

\* For any servers, addresses, filters and times, and whatever overtakes what, lookup_ip
\* is to its caller the abstract lookup: it returns a reply it has heard, whole or with
\* one of its addresses, one with addresses if there is any and a response rather than
\* an error, and leaves servers unheard only for a response or an error sent twice.
THEOREM LookupImplementsService == Spec => ImplementsLookup
<1>1. Init => Abstract!Init
  <2> SUFFICES ASSUME Init PROVE Abstract!Init
    OBVIOUS
  <2>1. Heard = {}
    <3>1. oks = <<>> /\ errs = <<>> /\ DOMAIN <<>> = {}
      BY DEF Init
    <3> QED BY <3>1, Zenon DEF Heard
  <2> QED BY <2>1 DEF Init, Abstract!Init
<1> QED BY <1>1, StepImplements, InvariantHolds, PTL DEF Spec, ImplementsLookup, Abstract!Spec
=============================================================================
