------------------------------- MODULE HeadFetch -------------------------------
(***************************************************************************)
(* The requests of proxy/fetchers/head.py.  get_head_info asks for the     *)
(* length of a resource through several proxies at once;                   *)
(* fetch_whole fetches a resource that cannot be cut into chunks.  Both    *)
(* report to the circuit breaker, and only fetch_whole asks it.            *)
(*                                                                         *)
(* The second stage of get_head_info asks and reports nothing, so it is    *)
(* not a step here.                                                        *)
(***************************************************************************)
EXTENDS Registry, Functions

CONSTANTS
    HeadTasks,      \* the requests that probe
    HeadRetries,    \* head_retries: the HEAD requests sent at once
    WholeTasks,     \* the calls of fetch_whole
    WholeRetries    \* retries of fetch_whole

ASSUME HeadAssumption ==
    /\ HeadRetries \in Nat \ {0}
    /\ WholeRetries \in Nat \ {0}

VARIABLES
    probing,        \* how many HEAD requests of a task are out through a proxy
    whole           \* the calls of fetch_whole

headVars == <<probing, whole>>

Probes   == [Proxies -> 0 .. HeadRetries]
NoProbes == [p \in Proxies |-> 0]

WholeEnded == [at |-> "ended", proxy |-> NoProxy, attempt |-> 1, pool |-> AnyPool]

WholeCalls ==
    [at : {"check", "inflight", "retry"}, proxy : Proxies, attempt : 1 .. WholeRetries,
     pool : PoolNames]

HeadInit ==
    /\ probing = [h \in HeadTasks |-> NoProbes]
    /\ whole = [f \in WholeTasks |-> WholeEnded]

-----------------------------------------------------------------------------
(* get_head_info, first stage.                                             *)

\* Through distinct proxies of the pool; but pick_proxy ignores an exclude_set
\* that holds every candidate, so in a small pool proxies repeat.
SendProbes(h, name) ==
    /\ probing[h] = NoProbes
    /\ \E sent \in Probes :
          /\ \A p \in Proxies : sent[p] > 0 => p \in Available(name)
          /\ \/ \A p \in Proxies : sent[p] <= 1
             \/ \A p \in Available(name) : sent[p] >= 1
          /\ SumFunction(sent) = HeadRetries
          /\ probing' = [probing EXCEPT ![h] = sent]
    /\ UNCHANGED <<breakerVars, registryVars, whole>>

OneLess(h, p) == probing' = [probing EXCEPT ![h][p] = @ - 1]

\* An answer that does not say the length is not reported.
ProbeUseless(h, p) ==
    /\ probing[h][p] > 0
    /\ OneLess(h, p)
    /\ UNCHANGED <<breakerVars, registryVars, whole>>

ProbeFails(h, p) ==
    /\ probing[h][p] > 0
    /\ RecordFailure(p)
    /\ OneLess(h, p)
    /\ UNCHANGED <<registryVars, whole>>

\* The first answer with a length is not reported either, and the requests that
\* are still out are cancelled.  (When the deadline cancels get_head_info, they
\* are not: asyncio.wait leaves them to end, and to report, by themselves.)
ProbesEnd(h) ==
    /\ probing[h] # NoProbes
    /\ probing' = [probing EXCEPT ![h] = NoProbes]
    /\ UNCHANGED <<breakerVars, registryVars, whole>>

-----------------------------------------------------------------------------
(* fetch_whole.                                                            *)

\* Through a proxy of the pool that is available now, or through the request's
\* own: the pinned one, or the one that handle_inner picked before it probed.
\* Without any proxy nothing that is modelled changes.
BeginWhole(f, name) ==
    /\ whole[f].at = "ended"
    /\ \E p \in Proxies :
          whole' = [whole EXCEPT ![f] = [at |-> "check", proxy |-> p, attempt |-> 1,
                                         pool |-> name]]
    /\ UNCHANGED <<breakerVars, registryVars, probing>>

\* As fetch_chunk: the proxy picked instead is not asked about.  There is no
\* budget to wait for.
WholeCheck(f) ==
    LET p == whole[f].proxy IN
    /\ whole[f].at \in {"check", "retry"}
    /\ \/ /\ AllowRequest(p, TRUE)
          /\ whole' = [whole EXCEPT ![f].at = "inflight"]
       \/ /\ AllowRequest(p, FALSE)
          /\ \E q \in Pick(Available(whole[f].pool), {p}) :
                whole' = [whole EXCEPT ![f].at = "inflight", ![f].proxy = Else(q, p)]
    /\ UNCHANGED <<registryVars, probing>>

EndWhole(f) == whole' = [whole EXCEPT ![f] = WholeEnded]

\* An answer, whatever its status.
WholeSucceeds(f) ==
    /\ whole[f].at = "inflight"
    /\ RecordSuccess(whole[f].proxy)
    /\ EndWhole(f)
    /\ UNCHANGED <<registryVars, probing>>

\* A retry goes through another proxy unless the request has one of its own: a
\* pinned one or, without chunk_proxy, the one picked for it.
WholeFails(f) ==
    LET p == whole[f].proxy IN
    /\ whole[f].at = "inflight"
    /\ RecordFailure(p)
    /\ UNCHANGED <<registryVars, probing>>
    /\ \/ /\ whole[f].attempt = WholeRetries
          /\ EndWhole(f)
       \/ /\ whole[f].attempt < WholeRetries
          /\ \E q \in Proxies :
                /\ whole' = [whole EXCEPT ![f].at = "retry", ![f].proxy = q,
                                          ![f].attempt = @ + 1]
                /\ \/ q = p
                   \/ /\ ChunkProxy
                      /\ \E x \in Pick(Available(whole[f].pool)', {p}) : q = Else(x, p)

\* The deadline of the request, which cancels handle_inner.
WholeCancelled(f) ==
    /\ whole[f].at \in {"check", "inflight"}
    /\ EndWhole(f)
    /\ UNCHANGED <<breakerVars, registryVars, probing>>
==============================================================================
