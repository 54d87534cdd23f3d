------------------------------- MODULE Registry -------------------------------
(***************************************************************************)
(* The proxies to choose from (proxy/registry.py): the registered ones and *)
(* the named pools that their tags put them in, without those that the     *)
(* circuit breaker bans.  The operator adds, removes and reloads proxies   *)
(* (proxy/handlers/admin.py), and the background health checker            *)
(* (proxy/fetchers/health.py) reinstates those whose ban has run out.      *)
(***************************************************************************)
EXTENDS CircuitBreaker, FiniteSets

CONSTANTS
    Pools,          \* the named pools, each a tag
    AnyPool,        \* the pool of a request that names none
    ConfigTags,     \* the pools of each proxy in the configuration file
    ChunkProxy,     \* chunk_proxy: every attempt takes a proxy of its own
    NoProxy         \* pick_proxy returned None

ASSUME RegistryAssumption ==
    /\ IsFiniteSet(Proxies)
    /\ AnyPool \notin Pools
    /\ ConfigTags \in [Proxies -> SUBSET Pools]
    /\ ChunkProxy \in BOOLEAN
    /\ NoProxy \notin Proxies

VARIABLES
    members,        \* ProxyRegistry._all
    tags,           \* PROXY_TAGS
    todo            \* candidates that the health checker has yet to retest

registryVars == <<members, tags, todo>>

PoolNames == Pools \cup {AnyPool}

RegistryInit ==
    /\ members = Proxies
    /\ tags = ConfigTags
    /\ todo = {}

\* urls_for_pool
InPool(p, pool) == pool = AnyPool \/ pool \in tags[p]

\* REGISTRY.available
Available(pool) == {p \in members \ Blocked : InPool(p, pool)}

\* What pick_proxy may return: an exclude_set as large as the candidates is
\* ignored altogether.
Pick(available, excluded) ==
    IF available = {} THEN {NoProxy}
    ELSE IF Cardinality(available) > Cardinality(excluded)
         THEN available \ excluded
         ELSE available

\* The proxy used next when pick_proxy offers q.
Else(q, p) == IF q = NoProxy THEN p ELSE q

-----------------------------------------------------------------------------
(* background_health_checker                                               *)

\* The list of candidates is read once per round ...
HealthRound ==
    /\ todo = {}
    /\ ExpiredOpen # {}
    /\ todo' = ExpiredOpen
    /\ UNCHANGED <<breakerVars, members, tags>>

\* ... and worked off one awaited probe after the other.  A proxy that is not
\* registered is added without its tags.
HealthPasses(p) ==
    /\ p \in todo
    /\ Release(p)
    /\ members' = members \cup {p}
    /\ todo' = todo \ {p}
    /\ UNCHANGED tags

HealthFails(p) ==
    /\ p \in todo
    /\ RetestFailed(p)
    /\ todo' = todo \ {p}
    /\ UNCHANGED <<members, tags>>

-----------------------------------------------------------------------------
(* The operator.                                                           *)

\* Mutation: /proxy/remove resets the breaker as well.
RemoveAndRelease(p) ==
    /\ p \in members
    /\ members' = members \ {p}
    /\ tags' = [tags EXCEPT ![p] = {}]
    /\ Release(p)
    /\ UNCHANGED todo

\* /proxy/remove forgets the statistics and leaves the breaker alone.
Remove(p) ==
    /\ p \in members
    /\ members' = members \ {p}
    /\ tags' = [tags EXCEPT ![p] = {}]
    /\ EvictStats(p)
    /\ UNCHANGED todo

\* /proxy/add: tags are set only when some are given.
Add(p, given) ==
    /\ p \notin members
    /\ members' = members \cup {p}
    /\ tags' = IF given = {} THEN tags ELSE [tags EXCEPT ![p] = given]
    /\ UNCHANGED <<breakerVars, todo>>

\* /proxy/reload: the proxies of the file that answer, with the tags of the file.
\* Breaker and statistics keep what they know.
Reload(gone) ==
    /\ members' = Proxies \ gone
    /\ tags' = ConfigTags
    /\ UNCHANGED <<breakerVars, todo>>
==============================================================================
