---------------------------- MODULE QueryService ----------------------------
(***************************************************************************)
(* What the dispatcher promises to those who call `DnsHandle::send`          *)
(* (src/src/server/mod.rs), without batches, permits, tasks or counters: a  *)
(* query is answered, refused or dropped at most once; no more than          *)
(* `max-query-limit` queries are processed when a client query is let in;    *)
(* and a client query is refused only while more queries than that have been *)
(* received and not been seen to end.  These include queries answered since  *)
(* somebody last looked, and all those that were dropped: the service does   *)
(* not promise to refuse only what exceeds the limit.                        *)
(***************************************************************************)
EXTENDS Integers, FiniteSets

CONSTANTS
  Req,         \* queries
  Background   \* those of the prefetcher

VARIABLES
  service,  \* per query, what has become of it
  limit,    \* `max-query-limit` as last read
  counted   \* queries received and not seen to have ended

vars == <<service, limit, counted>>

States == {"unsent", "queued", "inflight", "answered", "refused", "dropped"}

InState(s) == {q \in Req : service[q] = s}

Init ==
  /\ service = [q \in Req |-> "unsent"]
  /\ limit = 0
  /\ counted = {}

Move(Q, from, to) ==
  /\ Q # {}
  /\ Q \subseteq InState(from)
  /\ service' = [q \in Req |-> IF q \in Q THEN to ELSE service[q]]

Send(q) == Move({q}, "unsent", "queued") /\ UNCHANGED <<limit, counted>>

\* Queries are taken in, and counted together.
Receive ==
  /\ \E Q \in SUBSET (InState("queued") \ counted) : counted' = counted \cup Q
  /\ UNCHANGED <<service, limit>>

Admit(q) ==
  /\ q \in counted
  /\ Move({q}, "queued", "inflight")
  /\ q \notin Background /\ limit > 0 => Cardinality(InState("inflight") \cup {q}) <= limit
  /\ UNCHANGED <<limit, counted>>

Refuse(q) ==
  /\ q \in counted \ Background
  /\ limit > 0 /\ Cardinality(counted) > limit
  /\ Move({q}, "queued", "refused")
  /\ counted' = counted \ {q}
  /\ UNCHANGED limit

Answer(q) == Move({q}, "inflight", "answered") /\ UNCHANGED <<limit, counted>>

\* A batch is given up: its senders are dropped together.
Drop == (\E Q \in SUBSET Req : Move(Q, "inflight", "dropped")) /\ UNCHANGED <<limit, counted>>

\* Queries are seen to have ended.
Notice ==
  /\ \E Q \in SUBSET (counted \ (InState("queued") \cup InState("inflight"))) :
       counted' = counted \ Q
  /\ UNCHANGED <<service, limit>>

SetLimit == limit' \in Nat /\ UNCHANGED <<service, counted>>

Next ==
  \/ \E q \in Req : Send(q) \/ Admit(q) \/ Refuse(q) \/ Answer(q)
  \/ Receive \/ Drop \/ Notice
  \/ SetLimit

Spec == Init /\ [][Next]_vars
=============================================================================
