---------------------------- MODULE CircuitBreaker ----------------------------
(***************************************************************************)
(* The circuit breaker (proxy/circuit_breaker.py) together with the        *)
(* counter that drives it, the consecutive failures of ProxyStats          *)
(* (proxy/stats/proxy_stats.py), joined as session_pool.record_failure and *)
(* record_success join them.  Each operation is one step: its body runs    *)
(* under the breaker's lock and is called from the event loop's thread.    *)
(*                                                                         *)
(* BreakerSpec lets any caller call any operation at any time; ProxyUse is *)
(* the program's callers.                                                  *)
(***************************************************************************)
EXTENDS Naturals

CONSTANTS
    Proxies,
    Threshold,      \* ban_threshold
    MaxStrike       \* the strike from which a ban lasts max_delay

ASSUME BreakerAssumption ==
    /\ Threshold \in Nat \ {0}
    /\ MaxStrike \in Nat \ {0}

VARIABLES
    state,          \* CLOSED, OPEN or HALF_OPEN; no entry counts as CLOSED
    strike,         \* counted up to MaxStrike, where the delay stops growing
    elapsed,        \* the ban's open_until has passed
    probeEvent,     \* keys of _probe_events
    consecutive     \* consecutive_failures, counted up to Threshold

breakerVars == <<state, strike, elapsed, probeEvent, consecutive>>

States == {"CLOSED", "OPEN", "HALF_OPEN"}

\* n + 1, saturated at bound: nothing in the code tells larger values apart.
Count(n, bound) == IF n < bound THEN n + 1 ELSE bound

BreakerInit ==
    /\ state = [p \in Proxies |-> "CLOSED"]
    /\ strike = [p \in Proxies |-> 0]
    /\ elapsed = [p \in Proxies |-> FALSE]
    /\ probeEvent = {}
    /\ consecutive = [p \in Proxies |-> 0]

\* BREAKER.blocked_urls
Blocked == {p \in Proxies : state[p] = "OPEN" /\ ~elapsed[p]}

\* BREAKER.expired_open
ExpiredOpen == {p \in Proxies : state[p] = "OPEN" /\ elapsed[p]}

\* _open: one more strike, a new ban, and the probe's event fires.
Open(p) ==
    /\ state' = [state EXCEPT ![p] = "OPEN"]
    /\ strike' = [strike EXCEPT ![p] = Count(@, MaxStrike)]
    /\ elapsed' = [elapsed EXCEPT ![p] = FALSE]
    /\ probeEvent' = probeEvent \ {p}

\* Mutation: a ban that runs is tripped again.
TripAgain(p, n) ==
    IF n >= Threshold THEN Open(p)
    ELSE UNCHANGED <<state, strike, elapsed, probeEvent>>

\* BREAKER.record_failure with a count of n consecutive failures.
Trip(p, n) ==
    IF n >= Threshold /\ state[p] # "OPEN"
    THEN Open(p)
    ELSE UNCHANGED <<state, strike, elapsed, probeEvent>>

\* session_pool.record_failure
RecordFailure(p) ==
    /\ consecutive' = [consecutive EXCEPT ![p] = Count(@, Threshold)]
    /\ Trip(p, consecutive'[p])

\* Mutation: the event of the probe is not fired.
CloseAndForgetProbe(p) ==
    /\ state' = [state EXCEPT ![p] = "CLOSED"]
    /\ strike' = [strike EXCEPT ![p] = 0]
    /\ elapsed' = [elapsed EXCEPT ![p] = FALSE]
    /\ UNCHANGED probeEvent

\* Mutation: the strikes are kept.
CloseWithStrikes(p) ==
    /\ state' = [state EXCEPT ![p] = "CLOSED"]
    /\ elapsed' = [elapsed EXCEPT ![p] = FALSE]
    /\ probeEvent' = probeEvent \ {p}
    /\ UNCHANGED strike

\* CLOSED, strike 0, event fired; open_until means nothing until the next ban.
CloseBreaker(p) ==
    /\ state' = [state EXCEPT ![p] = "CLOSED"]
    /\ strike' = [strike EXCEPT ![p] = 0]
    /\ elapsed' = [elapsed EXCEPT ![p] = FALSE]
    /\ probeEvent' = probeEvent \ {p}

\* Mutation: a success closes a breaker in any state.
SuccessClosesAny(p) ==
    /\ consecutive' = [consecutive EXCEPT ![p] = 0]
    /\ CloseBreaker(p)

\* session_pool.record_success
RecordSuccess(p) ==
    /\ consecutive' = [consecutive EXCEPT ![p] = 0]
    /\ IF state[p] = "HALF_OPEN"
       THEN CloseBreaker(p)
       ELSE UNCHANGED <<state, strike, elapsed, probeEvent>>

\* BREAKER.allow_request returns ok.  In HALF_OPEN the caller blocks the thread
\* of the event loop for the 30 s of evt.wait: nothing can end the probe
\* meanwhile, so the state it reads again is still HALF_OPEN.
AllowRequest(p, ok) ==
    /\ \/ /\ state[p] = "CLOSED"
          /\ ok
          /\ UNCHANGED <<state, probeEvent>>
       \/ /\ p \in Blocked
          /\ ~ok
          /\ UNCHANGED <<state, probeEvent>>
       \/ /\ p \in ExpiredOpen
          /\ ok
          /\ state' = [state EXCEPT ![p] = "HALF_OPEN"]
          /\ probeEvent' = probeEvent \cup {p}
       \/ /\ state[p] = "HALF_OPEN"
          /\ ~ok
          /\ UNCHANGED <<state, probeEvent>>
    /\ UNCHANGED <<strike, elapsed, consecutive>>

\* BREAKER.release: the manual reset that the health checker uses.
Release(p) ==
    /\ CloseBreaker(p)
    /\ consecutive' = [consecutive EXCEPT ![p] = 0]

\* The health checker's BREAKER.record_failure(url, max(consec, threshold)).
RetestFailed(p) ==
    /\ Trip(p, Threshold)
    /\ UNCHANGED consecutive

\* STATS.evict, when the registry drops the proxy; its breaker entry stays.
EvictStats(p) ==
    /\ consecutive' = [consecutive EXCEPT ![p] = 0]
    /\ UNCHANGED <<state, strike, elapsed, probeEvent>>

\* The clock passes open_until.
BanElapses(p) ==
    /\ p \in Blocked
    /\ elapsed' = [elapsed EXCEPT ![p] = TRUE]
    /\ UNCHANGED <<state, strike, probeEvent, consecutive>>

BreakerNext ==
    \E p \in Proxies :
        \/ RecordFailure(p)
        \/ RecordSuccess(p)
        \/ \E ok \in BOOLEAN : AllowRequest(p, ok)
        \/ Release(p)
        \/ RetestFailed(p)
        \/ EvictStats(p)
        \/ BanElapses(p)

BreakerSpec == BreakerInit /\ [][BreakerNext]_breakerVars

-----------------------------------------------------------------------------
(* Properties.                                                             *)

BreakerTypeOK ==
    /\ state \in [Proxies -> States]
    /\ strike \in [Proxies -> 0 .. MaxStrike]
    /\ elapsed \in [Proxies -> BOOLEAN]
    /\ probeEvent \subseteq Proxies
    /\ consecutive \in [Proxies -> 0 .. Threshold]

\* A probe event exists exactly while its proxy is HALF_OPEN: no operation
\* leaves a waiter on an event that nobody will fire, or a HALF_OPEN entry
\* without one (the branch on line 107 cannot be taken).
ProbeEventMatchesState ==
    \A p \in Proxies : p \in probeEvent <=> state[p] = "HALF_OPEN"

\* Strikes and state agree: a proxy has strikes exactly while it is out of
\* service or on trial, so a proxy that came back starts from the base delay.
StrikesMatchState ==
    \A p \in Proxies : state[p] = "CLOSED" <=> strike[p] = 0

\* A running ban is not extended: late failures of requests sent before the ban
\* add no strike, a further strike takes a HALF_OPEN trial that failed.
EscalatesOnlyFromTrial ==
    [][\A p \in Proxies :
          (strike[p] > 0 /\ strike'[p] > strike[p]) =>
              state[p] = "HALF_OPEN" /\ state'[p] = "OPEN"]_breakerVars
==============================================================================
