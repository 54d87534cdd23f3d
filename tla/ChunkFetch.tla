------------------------------ MODULE ChunkFetch ------------------------------
(***************************************************************************)
(* The chunks of one request being fetched (fetch_chunk,                   *)
(* proxy/fetchers/chunk.py) through proxies that the registry offers and   *)
(* the circuit breaker bans.                                               *)
(*                                                                         *)
(* A step is what a coroutine does between two suspensions.  The chunks    *)
(* share one retry budget, the asyncio.Semaphore of handle_inner, which    *)
(* nobody releases.                                                        *)
(***************************************************************************)
EXTENDS Registry, Functions

CONSTANTS
    ChunkTasks,     \* the chunks of the request
    ChunkRetries,   \* chunk_retries, the attempts of a chunk
    RetryBudget     \* slots of the budget

ASSUME FetchAssumption ==
    /\ IsFiniteSet(ChunkTasks)
    /\ ChunkRetries \in Nat \ {0}
    /\ RetryBudget \in Nat

VARIABLES
    pool,           \* the pool that the request names
    pc,             \* where each fetch_chunk is suspended
    current,        \* the proxy of its current attempt
    attempt,
    budget          \* free slots of the retry budget

fetchVars == <<pool, pc, current, attempt, budget>>

Waiting == {"check", "budget", "inflight"}
Active  == Waiting \cup {"retry"}

FetchInit ==
    /\ pool = AnyPool
    /\ pc = [r \in ChunkTasks |-> "ended"]
    /\ current = [r \in ChunkTasks |-> NoProxy]
    /\ attempt = [r \in ChunkTasks |-> 1]
    /\ budget = RetryBudget

\* handle_inner takes a request and cuts it into some chunks:
\* distribute_proxies gives each of them a proxy of the pool that is available
\* now, or the pinned one whatever its state, and the request gets a budget of
\* its own.
BeginRequest(chunks, name) ==
    /\ \A r \in ChunkTasks : pc[r] = "ended"
    /\ pool' = name
    /\ \E given \in [chunks -> Proxies] :
          /\ \/ \A r \in chunks : given[r] \in Available(name)
             \/ \A r, s \in chunks : given[r] = given[s]
          /\ current' = [r \in ChunkTasks |-> IF r \in chunks THEN given[r] ELSE NoProxy]
    /\ pc' = [r \in ChunkTasks |-> IF r \in chunks THEN "check" ELSE "ended"]
    /\ attempt' = [r \in ChunkTasks |-> 1]
    /\ budget' = RetryBudget
    /\ UNCHANGED <<breakerVars, registryVars>>

\* Mutation: the alternative is looked for in the whole registry.
PickOutsidePool(r) ==
    LET p == current[r] IN
    /\ pc[r] \in {"check", "retry"}
    /\ \/ /\ AllowRequest(p, TRUE)
          /\ UNCHANGED current
       \/ /\ AllowRequest(p, FALSE)
          /\ \E q \in Pick(members, {p}) : current' = [current EXCEPT ![r] = Else(q, p)]
    /\ pc' = [pc EXCEPT ![r] = IF attempt[r] > 1 THEN "budget" ELSE "inflight"]
    /\ UNCHANGED <<registryVars, pool, attempt, budget>>

\* The breaker is asked about the current proxy; the proxy picked instead is
\* not asked about, and without one the refused proxy is used all the same.  The
\* first attempt is then sent; a retry needs a slot of the budget.
Check(r) ==
    LET p == current[r] IN
    /\ pc[r] \in {"check", "retry"}
    /\ \/ /\ AllowRequest(p, TRUE)
          /\ UNCHANGED current
       \/ /\ AllowRequest(p, FALSE)
          /\ \E q \in Pick(Available(pool), {p}) :
                current' = [current EXCEPT ![r] = Else(q, p)]
    /\ pc' = [pc EXCEPT ![r] = IF attempt[r] > 1 THEN "budget" ELSE "inflight"]
    /\ UNCHANGED <<registryVars, pool, attempt, budget>>

\* Mutation: the budget is decremented without looking.
TakeSlotUnguarded(r) ==
    /\ pc[r] = "budget"
    /\ budget' = budget - 1
    /\ pc' = [pc EXCEPT ![r] = "inflight"]
    /\ UNCHANGED <<breakerVars, registryVars, pool, current, attempt>>

\* A retry takes a slot of the shared budget and is sent.
TakeSlot(r) ==
    /\ pc[r] = "budget"
    /\ budget > 0
    /\ budget' = budget - 1
    /\ pc' = [pc EXCEPT ![r] = "inflight"]
    /\ UNCHANGED <<breakerVars, registryVars, pool, current, attempt>>

\* fetch_chunk returns, raises or is cancelled: its local variables are gone.
End(r) ==
    /\ pc' = [pc EXCEPT ![r] = "ended"]
    /\ current' = [current EXCEPT ![r] = NoProxy]
    /\ attempt' = [attempt EXCEPT ![r] = 1]
    /\ UNCHANGED <<registryVars, pool, budget>>

\* Mutation: after 30 s the retry goes out all the same.
SlotTimeoutSends(r) ==
    /\ pc[r] = "budget"
    /\ budget = 0
    /\ pc' = [pc EXCEPT ![r] = "inflight"]
    /\ UNCHANGED <<breakerVars, registryVars, pool, current, attempt, budget>>

\* Mutation: acquire() without wait_for.
SlotNeverTimesOut(r) ==
    /\ pc[r] = "budget"
    /\ budget = 0
    /\ UNCHANGED <<breakerVars, registryVars, fetchVars>>

\* No slot came free in 30 s.
SlotTimeout(r) ==
    /\ pc[r] = "budget"
    /\ budget = 0
    /\ End(r)
    /\ UNCHANGED breakerVars

\* The whole range arrived.
Succeed(r) ==
    /\ pc[r] = "inflight"
    /\ RecordSuccess(current[r])
    /\ End(r)

\* A short body, a timeout or a connection error: give up after the last
\* attempt, else pick a proxy with this failure already counted.
Fail(r) ==
    LET p == current[r] IN
    /\ pc[r] = "inflight"
    /\ RecordFailure(p)
    /\ UNCHANGED <<registryVars, pool, budget>>
    /\ \/ /\ attempt[r] = ChunkRetries
          /\ End(r)
       \/ /\ attempt[r] < ChunkRetries
          /\ pc' = [pc EXCEPT ![r] = "retry"]
          /\ attempt' = [attempt EXCEPT ![r] = @ + 1]
          /\ IF ChunkProxy
             THEN \E q \in Pick(Available(pool)', {p}) :
                      current' = [current EXCEPT ![r] = Else(q, p)]
             ELSE UNCHANGED current

\* The stream was aborted: CancelledError records nothing.
Cancel(r) ==
    /\ pc[r] \in Waiting
    /\ End(r)
    /\ UNCHANGED breakerVars

\* fetch_chunk goes on by itself: its waits have timeouts (30 s for the budget,
\* the adaptive timeout for the transfer) or end by themselves (the limiter's
\* sleep, which is part of "inflight").
Resume(r) == TakeSlot(r) \/ SlotTimeout(r) \/ Succeed(r) \/ Fail(r)
==============================================================================
