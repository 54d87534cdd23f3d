------------------------------ MODULE MCProxyUse ------------------------------
(* Values for model-checking ProxyUse: a request of one or two chunks, one     *)
(* probing request and one whole fetch, of which two are out at a time, over   *)
(* two proxies.                                                                *)
EXTENDS ProxyUse

CONSTANTS p1, p2, c1, c2, named

MCProxies == {p1, p2}
MCChunks  == {c1, c2}
MCHeads   == {"h"}
MCWholes  == {"w"}
MCPools   == {named}

\* p1 is in the named pool.
MCConfigTags == [p \in MCProxies |-> IF p = p1 THEN {named} ELSE {}]

Scenario(chunks, heads, wholes, name, removable, rounds) ==
    [chunks |-> chunks, heads |-> heads, wholes |-> wholes, concurrent |-> 2,
     names |-> {name}, removable |-> removable, rounds |-> rounds]

\* Two chunks of a request while p2 comes and goes; fetches of two kinds while
\* health is checked; health checks of a proxy that comes and goes; all kinds of
\* fetches; a named pool while p2 comes and goes, in it or not.
MCBounds ==
    {Scenario(MCChunks, {}, {}, AnyPool, {p2}, FALSE),
     Scenario({c1}, {}, MCWholes, AnyPool, {}, TRUE),
     Scenario({c1}, {}, {}, named, {p2}, TRUE),
     Scenario({c1}, MCHeads, MCWholes, AnyPool, {}, FALSE),
     Scenario({c1}, {}, MCWholes, named, {p2}, FALSE)}
==============================================================================
