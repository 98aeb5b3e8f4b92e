--------------------------- MODULE MCCachePersist ---------------------------
(* Instances of CachePersist for TLC. *)
EXTENDS CachePersist, TLC

CONSTANTS a, b

TwoShards == <<a, b>>
\* One entry is longer than the other, so that overlapping writes need not align.
TwoSizes == (a :> 2) @@ (b :> 1)
=============================================================================
