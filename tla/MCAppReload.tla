---------------------------- MODULE MCAppReload ----------------------------
(***************************************************************************)
(* Instances of AppReload.                                                 *)
(***************************************************************************)
EXTENDS AppReload

Conf(b, c) == [binds |-> b, caching |-> c]

\* Two addresses for the API and two for queries.
MCAddrs == {"http", "http2", "udp", "tls"}
MCHttpAddrs == {"http", "http2"}
MCBootBinds == <<"http", "udp">>

\* One more listener, and the cache off; the API moved.
MCConfs == {Conf({"http", "udp", "tls"}, FALSE), Conf({"http2", "udp"}, TRUE)}

\* Only the first two lines are read, and the cache is on by default.
MCPartial == {Conf({"http", "udp"}, TRUE)}

MCDomains == {"a.com", "b.com"}
Op(o, d) == [op |-> o, domain |-> d]

\* Two requests that may overlap, and one that follows them, whose reading may be cut short.
CONSTANTS r1, r2, r3
MCRequests == {r1, r2, r3}
MCOps == [r \in MCRequests |->
            CASE r = r1 -> {Op("reload", "a.com"), Op("create", "a.com")}
              [] r = r2 -> {Op("create", "b.com")}
              [] r = r3 -> {Op("create", "a.com"), Op("delete", "a.com")}]
MCCut == {r3}
MCAfter == [r \in MCRequests |-> IF r = r3 THEN {r1, r2} ELSE {}]
=============================================================================
