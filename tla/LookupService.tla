---------------------------- MODULE LookupService ----------------------------
(***************************************************************************)
(* What `lookup_ip` (src/src/dns_mw_ns.rs) promises to its caller, whatever *)
(* the strategy, without speed tests, times, counts or orders of arrival:   *)
(* which of the replies it has heard it may return, and when it may stop    *)
(* waiting for the others.                                                  *)
(***************************************************************************)
EXTENDS Integers

CONSTANTS
  Server,   \* the servers of the group
  Reply,    \* replies as the filters leave them: [ok, code, ips]
  Skipped,  \* the error of a server that was not asked
  NoAnswer  \* stands for the answer of a lookup that has not ended

VARIABLES
  state,    \* "idle", "run" or "done"
  awaited,  \* servers that have not replied
  heard,    \* the replies
  answer    \* what was returned

vars == <<state, awaited, heard, answer>>

Init ==
  /\ state = "idle"
  /\ awaited = {}
  /\ heard = {}
  /\ answer = NoAnswer

Addressed(H) == {r \in H : r.ok /\ r.ips # {}}
Responses(H) == {r \in H : r.ok}

\* A response with addresses, as it came or with one of them, before any response
\* without, a response before any error, and an error of the servers before one of
\* the lookup's own.
Offers(H) ==
  IF Addressed(H) # {}
  THEN Addressed(H) \cup UNION {{[r EXCEPT !.ips = {a}] : a \in r.ips} : r \in Addressed(H)}
  ELSE IF Responses(H) # {} THEN Responses(H)
  ELSE IF H # {} THEN H ELSE {Skipped}

Answer(H) ==
  /\ state' = "done"
  /\ answer' \in Offers(H)

Ask ==
  /\ state # "run"
  /\ state' = "run"
  /\ awaited' = Server
  /\ heard' = {}
  /\ answer' = NoAnswer

\* A response may settle the lookup, and so may an error that was heard before, unless
\* it only says that a server was skipped.
Settles(r) == r.ok \/ (r \in heard /\ r # Skipped)

Hear(s, r) ==
  /\ state = "run"
  /\ s \in awaited
  /\ awaited' = awaited \ {s}
  /\ heard' = heard \cup {r}
  /\ \/ UNCHANGED <<state, answer>>
     \/ Settles(r) /\ Answer(heard')

\* Without a reply of its own the lookup ends when there is a response, or when there
\* is nothing left to wait for.
Decide ==
  /\ state = "run"
  /\ awaited = {} \/ Responses(heard) # {}
  /\ Answer(heard)
  /\ UNCHANGED <<awaited, heard>>

Next == Ask \/ (\E s \in Server, r \in Reply : Hear(s, r)) \/ Decide

Spec == Init /\ [][Next]_vars
=============================================================================
