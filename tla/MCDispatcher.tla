---------------------------- MODULE MCDispatcher ----------------------------
(* Instances of Dispatcher for TLC. *)
EXTENDS Dispatcher, TLC

CONSTANTS f1, f2, f3, b1, b2

\* Two client queries, one of which panics, and two prefetches, with one permit of
\* each kind: batches of one and two, full semaphores, late reaps, a limit
\* that is lifted and set by reloads.
MCReq == {f1, f2, b1, b2}
MCBackground == {b1, b2}
MCPanicking == {f2}
MCLimits == {0, 2}

\* Without panics and reloads: what the repository says of the plain loop.
ClientReq == {f1, f2, f3}
PrefetchReq == {b1, b2}
NoReq == {}
Unlimited == {0}
=============================================================================
