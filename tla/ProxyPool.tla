----------------------------- MODULE ProxyPool -----------------------------
(***************************************************************************)
(* The server around its pool of proxies: the start of proxy_server.main,  *)
(* the registry (proxy/registry.py) and the administrative requests that   *)
(* change it (proxy/handlers/admin.py), the fetches that use the sessions  *)
(* of its proxies, and the end of the server.                              *)
(***************************************************************************)
EXTENDS TorManager

CONSTANTS
    Fetches,            \* fetch_chunk calls that run at a time
    Bounds,             \* bound: the fetches and refreshes that may overlap,
                        \* whether the registry is administered meanwhile, and
                        \* how many sessions are made
    Nothing

ASSUME PoolAssumption ==
    /\ Nothing \notin Urls
    /\ Bounds \subseteq [fetches : SUBSET Fetches, refreshers : SUBSET Refreshers,
                         administered : BOOLEAN, sessions : Nat]

Static == Urls \ {TorUrl[i] : i \in Ids}

VARIABLES
    bound,      \* the member of Bounds that applies
    pool,       \* self._all
    reload,     \* the sources that a /proxy/reload has read, or Nothing
    url,        \* the proxy each fetch goes through, or Nothing
    session     \* the session it got, 0 before

registry_vars == <<pool, reload>>
fetch_vars    == <<url, session>>
vars          == <<tor_vars, pool_vars, registry_vars, fetch_vars, bound>>

Init ==
    /\ TorInit /\ PoolInit
    /\ bound \in Bounds
    /\ pool = {}
    /\ reload = Nothing
    /\ url = [f \in Fetches |-> Nothing]
    /\ session = [f \in Fetches |-> 0]

\* The circuit a connection through u gets now.
CircuitOf(u) == IF u \in Static THEN 0 ELSE circuit[CHOOSE i \in Ids : TorUrl[i] = u]

-----------------------------------------------------------------------------
(* The start and the end.                                                  *)

\* The static proxies that pass the check, and the Tor instances alive before
\* it; fewer than two proxies, and the server exits without stopping Tor.
Serve ==
    /\ main = "ready"
    /\ \E live \in SUBSET Static :
          LET proxies == live \cup TorUrls
          IN  IF Cardinality(proxies) < 2
              THEN main' = "failed" /\ pool' = pool
              ELSE main' = "serving" /\ pool' = proxies
    /\ UNCHANGED <<next, proc, reader, event, error, booted, listed, refresh_vars,
                   pool_vars, reload, fetch_vars>>

\* SIGTERM stops the loop under everything that runs on it: nothing is
\* drained and close_all is not reached.
Shutdown ==
    /\ main = "serving"
    /\ StopAll
    /\ sessions' = <<>> /\ pooled' = [u \in Urls |-> 0]
    /\ pool' = {}
    /\ reload' = Nothing
    /\ url' = [f \in Fetches |-> Nothing]
    /\ session' = [f \in Fetches |-> 0]

-----------------------------------------------------------------------------
(* The registry.                                                           *)

Add(u) ==
    /\ main = "serving" /\ u \notin pool
    /\ pool' = pool \cup {u}
    /\ UNCHANGED <<reload, fetch_vars, tor_vars, pool_vars>>

\* /proxy/remove: the session is closed too.
Remove(u) ==
    /\ main = "serving" /\ u \in pool
    /\ pool' = pool \ {u}
    /\ Invalidate(u)
    /\ UNCHANGED <<reload, fetch_vars, tor_vars>>

\* The sources are read, with the Tor instances alive now ...
ReloadBegin ==
    /\ main = "serving" /\ reload = Nothing
    /\ \E static \in SUBSET Static : reload' = [static |-> static, tor |-> TorUrls]
    /\ UNCHANGED <<pool, fetch_vars, tor_vars, pool_vars>>

\* ... and replace the pool, whatever it has become, when the check is over.
\* The sessions of the proxies that go stay as they are.
ReloadEnd ==
    /\ main = "serving" /\ reload # Nothing
    /\ \E live \in SUBSET reload.static : pool' = live \cup reload.tor
    /\ reload' = Nothing
    /\ UNCHANGED <<fetch_vars, tor_vars, pool_vars>>

-----------------------------------------------------------------------------
(* The fetches.                                                            *)

\* A proxy is picked; the limiter may keep the fetch waiting.
Pick(f) ==
    /\ main = "serving" /\ url[f] = Nothing
    /\ \E u \in pool : url' = [url EXCEPT ![f] = u]
    /\ UNCHANGED <<session, tor_vars, pool_vars, registry_vars>>

\* The session of the proxy, which may have left the pool by now.
Use(f) ==
    /\ main = "serving" /\ url[f] # Nothing /\ session[f] = 0
    /\ Usable(url[f]) \/ Len(sessions) < bound.sessions
    /\ Get(url[f], CircuitOf(url[f]))
    /\ session' = [session EXCEPT ![f] = pooled'[url[f]]]
    /\ UNCHANGED <<url, tor_vars, registry_vars>>

\* The attempt ends; a connector error drops the session of the proxy, which
\* need not be the one the fetch has used.
AttemptEnds(f) ==
    /\ main = "serving" /\ session[f] # 0
    /\ url' = [url EXCEPT ![f] = Nothing]
    /\ session' = [session EXCEPT ![f] = 0]
    /\ \/ UNCHANGED pool_vars
       \/ InvalidateSync(url[f])
    /\ UNCHANGED <<tor_vars, registry_vars>>

-----------------------------------------------------------------------------
Registry ==
    ReloadBegin \/ ReloadEnd \/ \E u \in Urls : Add(u) \/ Remove(u)

Step ==
    \/ (Launching \/ \E i \in Ids : TorProcess(i))
          /\ UNCHANGED <<pool_vars, registry_vars, fetch_vars>>
    \/ Serve \/ Shutdown
    \/ bound.administered /\ Registry
    \/ \E f \in bound.fetches : Pick(f) \/ Use(f) \/ AttemptEnds(f)
    \/ \E r \in bound.refreshers : Refresh(r) /\ UNCHANGED <<registry_vars, fetch_vars>>

Next == Step /\ UNCHANGED bound

Spec == Init /\ [][Next]_vars

-----------------------------------------------------------------------------
(* Properties.                                                             *)

\* A session that a fetch is using is closed only when its proxy leaves the
\* pool by /proxy/remove or has its circuit renewed: one fetch that cannot
\* connect drops the session for those to come and does not close it under
\* the others (session_pool.py:154-160, chunk.py:114-118).
ClosedOnlyOnPurpose ==
    [][main' = "serving" => \A f \in Fetches :
          session[f] # 0 /\ sessions[session[f]].open /\ ~ sessions'[session[f]].open
          => LET u == sessions[session[f]].url
             IN  \/ u \in pool \ pool'
                 \/ \E r \in Refreshers, i \in Ids : TorUrl[i] = u /\ Dropping(r, i)]_vars
=============================================================================
