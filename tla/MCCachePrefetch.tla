--------------------------- MODULE MCCachePrefetch --------------------------
(* Instances of CachePrefetch for TLC. *)
EXTENDS CachePrefetch, TLC

CONSTANTS a, b, client, slot, slot2

OneKey == {a}
TwoKeys == {a, b}
NoKey == {}
ShortTTL == {1}
LongTTL == {2}
OneClient == {client}
NoClient == {}
OneSlot == {slot}
TwoSlots == {slot, slot2}

\* The permits are interchangeable.
SlotsAlike == Permutations(TwoSlots)
=============================================================================
