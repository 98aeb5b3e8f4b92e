------------------------- MODULE MCNameServerGroup -------------------------
(* Instances of NameServerGroup for TLC. *)
EXTENDS NameServerGroup

CONSTANTS s1, s2, l1, l2

TwoServers == {s1, s2}
TwoLookups == {l1, l2}
=============================================================================
