------------------------------- MODULE ProxyUse -------------------------------
(***************************************************************************)
(* All that uses a proxy at the same time: the chunks of a request         *)
(* (ChunkFetch), the probes and whole fetches of other requests            *)
(* (HeadFetch), and the upkeep of the registry (Registry), over one        *)
(* circuit breaker.                                                        *)
(***************************************************************************)
EXTENDS ChunkFetch, HeadFetch

CONSTANT Bounds         \* bounds on a behaviour: see BoundType

VARIABLE bound          \* the bounds of this behaviour

vars == <<breakerVars, registryVars, fetchVars, headVars, bound>>

\* Bounds of the model: the tasks that may run, how many at a time, the pools that
\* requests name, the proxies that come and go, and whether health is checked.
BoundType ==
    [chunks : SUBSET ChunkTasks, heads : SUBSET HeadTasks, wholes : SUBSET WholeTasks,
     concurrent : Nat, names : SUBSET PoolNames, removable : SUBSET Proxies,
     rounds : BOOLEAN]

ASSUME BoundAssumption == Bounds \subseteq BoundType

Init == BreakerInit /\ RegistryInit /\ FetchInit /\ HeadInit /\ bound \in Bounds

\* fetch_chunk and fetch_whole go from a failed attempt to the breaker check of
\* the next one without a suspension: the loop is not free for anyone else.
LoopFree ==
    /\ \A r \in ChunkTasks : pc[r] # "retry"
    /\ \A f \in WholeTasks : whole[f].at # "retry"

ActiveChunks == {r \in ChunkTasks : pc[r] # "ended"}
ActiveHeads  == {h \in HeadTasks : probing[h] # NoProbes}
ActiveWholes == {f \in WholeTasks : whole[f].at # "ended"}

Room == bound.concurrent - Cardinality(ActiveChunks) - Cardinality(ActiveHeads)
                         - Cardinality(ActiveWholes)

\* A fetch begins.
Begin ==
    \E name \in bound.names :
       \/ \E chunks \in SUBSET bound.chunks :
             /\ Cardinality(chunks) \in 1 .. Room
             /\ BeginRequest(chunks, name)
             /\ UNCHANGED headVars
       \/ /\ Room > 0
          /\ \/ \E h \in bound.heads : SendProbes(h, name)
             \/ \E f \in bound.wholes : BeginWhole(f, name)
          /\ UNCHANGED fetchVars

Chunk(r) ==
    /\ \/ (pc[r] = "retry" \/ LoopFree) /\ Check(r)
       \/ LoopFree /\ Resume(r)
    /\ UNCHANGED headVars

Probe(h) ==
    /\ LoopFree
    /\ \/ \E p \in Proxies : ProbeUseless(h, p) \/ ProbeFails(h, p)
       \/ ProbesEnd(h)
    /\ UNCHANGED fetchVars

Whole(f) ==
    /\ \/ (whole[f].at = "retry" \/ LoopFree) /\ WholeCheck(f)
       \/ LoopFree /\ (WholeSucceeds(f) \/ WholeFails(f))
    /\ UNCHANGED fetchVars

Abort ==
    \/ \E r \in ChunkTasks : Cancel(r) /\ UNCHANGED headVars
    \/ \E f \in WholeTasks : WholeCancelled(f) /\ UNCHANGED fetchVars

\* The health checker and the operator.
Upkeep ==
    /\ \/ bound.rounds /\ HealthRound
       \/ \E p \in Proxies :
             \/ HealthPasses(p) \/ HealthFails(p)
             \/ \E given \in SUBSET Pools : Add(p, given)
       \/ \E p \in bound.removable : Remove(p)
       \/ bound.removable # {} /\ \E gone \in SUBSET bound.removable : Reload(gone)
    /\ UNCHANGED <<fetchVars, headVars>>

Clock == \E p \in Proxies : BanElapses(p) /\ UNCHANGED <<registryVars, fetchVars, headVars>>

Next ==
    /\ \/ \E r \in ChunkTasks : Chunk(r)
       \/ \E h \in HeadTasks : Probe(h)
       \/ \E f \in WholeTasks : Whole(f)
       \/ LoopFree /\ (Begin \/ Abort \/ Upkeep)
       \/ Clock
    /\ UNCHANGED bound

\* Every wait of a fetch has a timeout (30 s for the budget, head_timeout, the
\* adaptive timeout or chunk_timeout for a transfer) or ends by itself (the
\* limiter's sleep), and the event loop resumes in order of readiness: what other
\* fetches do between a failure and their next check delays a fetch, and does not
\* shut it out.  Hence strong fairness.
Fairness ==
    /\ \A r \in ChunkTasks : SF_vars(Chunk(r) /\ UNCHANGED bound)
    /\ \A f \in WholeTasks : SF_vars(Whole(f) /\ UNCHANGED bound)

Spec == Init /\ [][Next]_vars /\ Fairness

-----------------------------------------------------------------------------
(* Properties.                                                             *)

\* The types of all variables.  A call of fetch_whole that runs has a proxy, and
\* the retry budget is never overdrawn (chunk.py:73-75).
FetchTypeOK ==
    /\ BreakerTypeOK
    /\ members \subseteq Proxies
    /\ tags \in [Proxies -> SUBSET Pools]
    /\ todo \subseteq Proxies
    /\ pool \in PoolNames
    /\ pc \in [ChunkTasks -> Active \cup {"ended"}]
    /\ current \in [ChunkTasks -> Proxies \cup {NoProxy}]
    /\ attempt \in [ChunkTasks -> 1 .. ChunkRetries]
    /\ budget \in 0 .. RetryBudget
    /\ probing \in [HeadTasks -> Probes]
    /\ whole \in [WholeTasks -> WholeCalls \cup {WholeEnded}]
    /\ bound \in Bounds

\* Slots that chunk r has taken so far: one for each attempt beyond the first
\* that it has sent.
Paid ==
    [r \in ChunkTasks |->
        IF pc[r] = "inflight" THEN attempt[r] - 1
        ELSE IF pc[r] \in {"retry", "budget"} THEN attempt[r] - 2
        ELSE 0]

\* "each retry attempt (beyond the first) consumes one slot so total retries are
\* bounded even when many chunks fail at once" (chunk.py:55): however failures,
\* timeouts and cancellations interleave, every retry on its way has a slot of
\* its own, and no slot is handed out twice.
RetriesPaid == SumFunctionOnSet(Paid, ChunkTasks) <= RetryBudget - budget

\* An attempt that leaves its breaker check does so through a banned proxy only
\* when the pool that the request names has no available proxy left, although
\* other pools may have some: the refusal falls through to the refused proxy
\* (chunk.py:67-70, head.py:145-148) and to nothing else.  A retry of a chunk may
\* still be sent through a proxy that is banned while it waits for its slot: the
\* check is not repeated (chunk.py:73-91).
BannedOnlyAsLastResort ==
    [][/\ \A r \in ChunkTasks :
             pc[r] \in {"check", "retry"} /\ pc'[r] \in {"budget", "inflight"}
               /\ current'[r] \in Blocked' => Available(pool) = {}
       /\ \A f \in WholeTasks :
             whole[f].at \in {"check", "retry"} /\ whole'[f].at = "inflight"
               /\ whole'[f].proxy \in Blocked' => Available(whole[f].pool) = {}]_vars

\* A ban that has not run out ends early only by a health check, working off a
\* list of candidates that is older than the ban; no traffic result, late or
\* not, and no operator action reopens a banned proxy.
BanCutShortOnlyByHealthCheck ==
    [][\A p \in Blocked : state'[p] # "OPEN" => HealthPasses(p)]_vars

\* A success or a failure of a request through p comes in.
Succeeds(p) ==
    \/ \E r \in ChunkTasks : current[r] = p /\ Succeed(r)
    \/ \E f \in WholeTasks : whole[f].proxy = p /\ WholeSucceeds(f)

Fails(p) ==
    \/ \E r \in ChunkTasks : current[r] = p /\ Fail(r)
    \/ \E f \in WholeTasks : whole[f].proxy = p /\ WholeFails(f)
    \/ \E h \in HeadTasks : ProbeFails(h, p)

\* A trial ends with a result through the proxy on trial, and as that result says:
\* in service again by a success or a passed health check, banned by a failure or
\* a failed one.  Being removed, added or reloaded, cancelled or timed out ends
\* none.  The result need not be the trial's own: one of a request sent before
\* the ban, or of a HEAD request, which asks no breaker, decides as well
\* (head.py:64, circuit_breaker.py:58, 68).
TrialDecidedByResult ==
    [][\A p \in Proxies :
          state[p] = "HALF_OPEN" /\ state'[p] # "HALF_OPEN" =>
              \/ state'[p] = "CLOSED" /\ (Succeeds(p) \/ HealthPasses(p))
              \/ state'[p] = "OPEN" /\ (Fails(p) \/ HealthFails(p))]_vars

\* Every fetch ends, that is, each task is time and again without one: none waits
\* for ever on the budget or on the breaker.
FetchEnds ==
    /\ \A r \in ChunkTasks : []<>(pc[r] = "ended")
    /\ \A f \in WholeTasks : []<>(whole[f].at = "ended")

\* "exactly ONE probe passes through; all others block ... until the probe
\* finishes" (circuit_breaker.py:83): a proxy is HALF_OPEN only while a request
\* that can be its probe is out.
ProbeIsOut ==
    \A p \in Proxies :
        state[p] = "HALF_OPEN" =>
            \/ \E r \in ChunkTasks : current[r] = p /\ pc[r] \in Active
            \/ \E f \in WholeTasks : whole[f].proxy = p
            \/ \E h \in HeadTasks : probing[h][p] > 0
==============================================================================
