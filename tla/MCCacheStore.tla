---------------------------- MODULE MCCacheStore ----------------------------
(* Instances of CacheStore for TLC. *)
EXTENDS CacheStore, TLC

CONSTANTS a, b, c, d, t1, t2, loader

\* Three keys compete for the two places of the first shard, the fourth is alone
\* in the second: both kinds of eviction happen, and a budget of 3 with sizes 1
\* and 2 is exceeded by one insert and needs up to two evictions.
MCKey == {a, b, c, d}
MCShardOf == (a :> 1) @@ (b :> 1) @@ (c :> 1) @@ (d :> 2)
MCSizes == {1, 2}
MCFile == {a, d}
NoFile == {}
OneTask == {t1}
=============================================================================
