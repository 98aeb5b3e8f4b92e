-------------------------- MODULE MCLookupStrategy -------------------------
(* Instances of LookupStrategy for TLC. *)
EXTENDS LookupStrategy

CONSTANTS s1, s2, s3, a, b, c

TwoServers == {s1, s2}
ThreeServers == {s1, s2, s3}
TwoIps == {a, b}
ThreeIps == {a, b, c}

NoFilter == [ignored |-> {}, alias |-> [x \in {} |-> {}]]
Unfiltered == {NoFilter}
\* b is dropped, and a stands for b and c: answers shrink, grow and become empty.
MCFilter == {NoFilter, [ignored |-> {b}, alias |-> [x \in {a} |-> {b, c}]]}

AllModes == {"FirstPing", "FastestIp", "FastestResponse"}
OnlyFastestResponse == {"FastestResponse"}

\* One address, both, or none; negative answers and failures, as Ok and as Err.
SomeReplies ==
  {Ok("NoError", {a}), Ok("NoError", {a, b}), Ok("NoError", {}), Ok("ServFail", {}),
   Err("NoConnections"), Err("NoRecordsFound"), Err("Timeout")}
AllErrors == {Err("NoConnections"), Err("NoRecordsFound"), Err("Timeout")}
=============================================================================
