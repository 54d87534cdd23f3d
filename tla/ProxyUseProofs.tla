---------------------------- MODULE ProxyUseProofs ----------------------------
(***************************************************************************)
(* First the circuit breaker's invariants, for any proxies, threshold and  *)
(* callers: BreakerSpec lets every operation happen at any time.  A step   *)
(* of the program is one operation of the breaker or none, which makes     *)
(* them invariants of the program.  The rest takes the callers as well:    *)
(* who uses a banned proxy, who ends a ban or a trial, that no retry is    *)
(* sent without a slot of the budget, and that fetches go on.              *)
(***************************************************************************)
EXTENDS ProxyUse, SumLemmas

\* The inductive invariant: the type, and the two ties between the state of an
\* entry and the data kept beside it.
BreakerInv ==
    /\ BreakerTypeOK
    /\ ProbeEventMatchesState
    /\ StrikesMatchState

\* A saturated counter stays within its bound and leaves zero.
LEMMA CountBounds ==
    ASSUME NEW limit \in Nat \ {0}, NEW n \in 0 .. limit
    PROVE  Count(n, limit) \in 1 .. limit
BY DEF Count

\* Opening an entry, whatever it was, keeps the invariant.
LEMMA OpenKeepsInv ==
    ASSUME BreakerInv, NEW p \in Proxies, Open(p),
           consecutive' \in [Proxies -> 0 .. Threshold]
    PROVE  BreakerInv'
<1>1. Count(strike[p], MaxStrike) \in 1 .. MaxStrike
    BY CountBounds, BreakerAssumption DEF BreakerInv, BreakerTypeOK
<1> USE DEF BreakerInv, BreakerTypeOK, Open
<1>a. state' \in [Proxies -> States]
    BY DEF States
<1>b. strike' \in [Proxies -> 0 .. MaxStrike]
    BY <1>1, BreakerAssumption
<1>c. elapsed' \in [Proxies -> BOOLEAN]
    BY Zenon
<1>2. BreakerTypeOK'
    BY <1>a, <1>b, <1>c
<1>3. ProbeEventMatchesState'
    BY DEF BreakerInv, BreakerTypeOK, ProbeEventMatchesState, Open
<1>4. StrikesMatchState'
    BY <1>1, BreakerAssumption
    DEF BreakerInv, BreakerTypeOK, StrikesMatchState, Open
<1>5. QED BY <1>2, <1>3, <1>4 DEF BreakerInv

\* So does closing one.
LEMMA CloseKeepsInv ==
    ASSUME BreakerInv, NEW p \in Proxies, CloseBreaker(p),
           consecutive' \in [Proxies -> 0 .. Threshold]
    PROVE  BreakerInv'
<1> USE DEF BreakerInv, BreakerTypeOK, CloseBreaker
<1>a. state' \in [Proxies -> States]
    BY DEF States
<1>b. strike' \in [Proxies -> 0 .. MaxStrike]
    BY BreakerAssumption
<1>c. elapsed' \in [Proxies -> BOOLEAN]
    BY Zenon
<1>1. BreakerTypeOK'
    BY <1>a, <1>b, <1>c
<1>2. ProbeEventMatchesState'
    BY DEF BreakerInv, BreakerTypeOK, ProbeEventMatchesState, CloseBreaker
<1>3. StrikesMatchState'
    BY DEF BreakerInv, BreakerTypeOK, StrikesMatchState, CloseBreaker
<1>4. QED BY <1>1, <1>2, <1>3 DEF BreakerInv

\* And so does counting failures or successes alone.
LEMMA CountersKeepInv ==
    ASSUME BreakerInv, UNCHANGED <<state, strike, elapsed, probeEvent>>,
           consecutive' \in [Proxies -> 0 .. Threshold]
    PROVE  BreakerInv'
BY DEF BreakerInv, BreakerTypeOK, ProbeEventMatchesState, StrikesMatchState

\* Trip either opens the entry or leaves it.
LEMMA TripKeepsInv ==
    ASSUME BreakerInv, NEW p \in Proxies, NEW n, Trip(p, n),
           consecutive' \in [Proxies -> 0 .. Threshold]
    PROVE  BreakerInv'
BY OpenKeepsInv, CountersKeepInv DEF Trip

\* No proxy is banned, struck or on trial at first.
LEMMA BreakerInitInv == BreakerInit => BreakerInv
BY BreakerAssumption
DEF BreakerInit, BreakerInv, BreakerTypeOK, ProbeEventMatchesState,
    StrikesMatchState, States

\* Every operation keeps the invariant.
LEMMA BreakerStepInv == BreakerInv /\ [BreakerNext]_breakerVars => BreakerInv'
<1> SUFFICES ASSUME BreakerInv, [BreakerNext]_breakerVars PROVE BreakerInv'
    OBVIOUS
<1>u. CASE UNCHANGED breakerVars
    BY <1>u DEF breakerVars, BreakerInv, BreakerTypeOK, ProbeEventMatchesState,
                StrikesMatchState
<1> SUFFICES ASSUME NEW p \in Proxies,
                    \/ RecordFailure(p)
                    \/ RecordSuccess(p)
                    \/ \E ok \in BOOLEAN : AllowRequest(p, ok)
                    \/ Release(p)
                    \/ RetestFailed(p)
                    \/ EvictStats(p)
                    \/ BanElapses(p)
             PROVE  BreakerInv'
    BY <1>u DEF BreakerNext
<1>1. CASE RecordFailure(p)
    <2>1. Count(consecutive[p], Threshold) \in 0 .. Threshold
        BY CountBounds, BreakerAssumption DEF BreakerInv, BreakerTypeOK
    <2>2. consecutive' \in [Proxies -> 0 .. Threshold]
        BY <1>1, <2>1 DEF RecordFailure, BreakerInv, BreakerTypeOK
    <2>3. QED BY <1>1, <2>2, TripKeepsInv DEF RecordFailure
<1>2. CASE RecordSuccess(p)
    <2>1. consecutive' \in [Proxies -> 0 .. Threshold]
        BY <1>2, BreakerAssumption DEF RecordSuccess, BreakerInv, BreakerTypeOK
    <2>2. QED BY <1>2, <2>1, CloseKeepsInv, CountersKeepInv DEF RecordSuccess
<1>3. CASE \E ok \in BOOLEAN : AllowRequest(p, ok)
    <2>1. CASE UNCHANGED <<state, probeEvent>>
        BY <1>3, <2>1 DEF AllowRequest, BreakerInv, BreakerTypeOK,
                          ProbeEventMatchesState, StrikesMatchState
    <2>2. CASE /\ p \in ExpiredOpen
               /\ state' = [state EXCEPT ![p] = "HALF_OPEN"]
               /\ probeEvent' = probeEvent \cup {p}
        BY <1>3, <2>2 DEF AllowRequest, BreakerInv, BreakerTypeOK, ExpiredOpen,
                          ProbeEventMatchesState, StrikesMatchState, States
    <2>3. QED BY <1>3, <2>1, <2>2 DEF AllowRequest
<1>4. CASE Release(p)
    <2>1. consecutive' \in [Proxies -> 0 .. Threshold]
        BY <1>4, BreakerAssumption DEF Release, BreakerInv, BreakerTypeOK
    <2>2. QED BY <1>4, <2>1, CloseKeepsInv DEF Release
<1>5. CASE RetestFailed(p)
    <2>1. consecutive' \in [Proxies -> 0 .. Threshold]
        BY <1>5 DEF RetestFailed, BreakerInv, BreakerTypeOK
    <2>2. QED BY <1>5, <2>1, TripKeepsInv DEF RetestFailed
<1>6. CASE EvictStats(p)
    <2>1. consecutive' \in [Proxies -> 0 .. Threshold]
        BY <1>6, BreakerAssumption DEF EvictStats, BreakerInv, BreakerTypeOK
    <2>2. QED BY <1>6, <2>1, CountersKeepInv DEF EvictStats
<1>7. CASE BanElapses(p)
    BY <1>7 DEF BanElapses, BreakerInv, BreakerTypeOK, ProbeEventMatchesState,
                StrikesMatchState
<1>8. QED BY <1>1, <1>2, <1>3, <1>4, <1>5, <1>6, <1>7

\* The invariant holds under any sequence of calls.
LEMMA BreakerAlwaysInv == BreakerSpec => []BreakerInv
BY BreakerInitInv, BreakerStepInv, PTL DEF BreakerSpec

\* Every variable of the breaker keeps its type.
THEOREM BreakerTypeCorrect == BreakerSpec => []BreakerTypeOK
BY BreakerAlwaysInv, PTL DEF BreakerInv

\* circuit_breaker.py's _probe_events: an event exists exactly while its proxy
\* is HALF_OPEN, under any sequence of calls.
THEOREM ProbeEventSafe == BreakerSpec => []ProbeEventMatchesState
BY BreakerAlwaysInv, PTL DEF BreakerInv

\* A proxy in service has no strikes, and one out of service has some.
THEOREM StrikesSafe == BreakerSpec => []StrikesMatchState
BY BreakerAlwaysInv, PTL DEF BreakerInv

\* What one operation may do to the strikes of a proxy.
LEMMA BreakerStepActions ==
    ASSUME BreakerInv, [BreakerNext]_breakerVars, NEW q \in Proxies,
           strike[q] > 0, strike'[q] > strike[q]
    PROVE  state[q] = "HALF_OPEN" /\ state'[q] = "OPEN"
<1>u. CASE UNCHANGED breakerVars
    BY <1>u DEF breakerVars, BreakerInv, BreakerTypeOK
<1> SUFFICES ASSUME NEW p \in Proxies,
                    \/ RecordFailure(p)
                    \/ RecordSuccess(p)
                    \/ \E ok \in BOOLEAN : AllowRequest(p, ok)
                    \/ Release(p)
                    \/ RetestFailed(p)
                    \/ EvictStats(p)
                    \/ BanElapses(p)
             PROVE  state[q] = "HALF_OPEN" /\ state'[q] = "OPEN"
    BY <1>u DEF BreakerNext
<1>1. CASE Open(p) /\ state[p] # "OPEN"
    BY <1>1 DEF Open, BreakerInv, BreakerTypeOK, StrikesMatchState, States
<1>2. CASE CloseBreaker(p)
    BY <1>2 DEF CloseBreaker, BreakerInv, BreakerTypeOK, States
<1>3. CASE UNCHANGED strike
    BY <1>3 DEF BreakerInv, BreakerTypeOK
<1>4. QED
    BY <1>1, <1>2, <1>3
    DEF RecordFailure, RecordSuccess, AllowRequest, Release, RetestFailed,
        EvictStats, BanElapses, Trip

\* Strikes grow only through a trial that failed: a running ban is not extended
\* by late failures, nor by the health checker's retest.
THEOREM EscalationSafe == BreakerSpec => EscalatesOnlyFromTrial
<1>1. BreakerInv /\ [BreakerNext]_breakerVars =>
          [\A p \in Proxies :
              (strike[p] > 0 /\ strike'[p] > strike[p]) =>
                  state[p] = "HALF_OPEN" /\ state'[p] = "OPEN"]_breakerVars
    BY BreakerStepActions
<1>2. QED BY <1>1, BreakerAlwaysInv, PTL DEF BreakerSpec, EscalatesOnlyFromTrial

-----------------------------------------------------------------------------
(* The callers of the breaker.                                             *)

\* The callers' own part of the invariant: types, and a fetch_chunk that runs
\* has a proxy.
ChunkInv ==
    /\ pool \in PoolNames
    /\ pc \in [ChunkTasks -> Active \cup {"ended"}]
    /\ current \in [ChunkTasks -> Proxies \cup {NoProxy}]
    /\ attempt \in [ChunkTasks -> 1 .. ChunkRetries]
    /\ budget \in 0 .. RetryBudget
    /\ \A r \in ChunkTasks : pc[r] # "ended" => current[r] \in Proxies

RegistryInv ==
    /\ members \subseteq Proxies
    /\ tags \in [Proxies -> SUBSET Pools]
    /\ todo \subseteq Proxies

HeadInv ==
    /\ probing \in [HeadTasks -> Probes]
    /\ whole \in [WholeTasks -> WholeCalls \cup {WholeEnded}]

CallerInv ==
    /\ ChunkInv
    /\ RegistryInv
    /\ HeadInv
    /\ bound \in Bounds

\* pick_proxy offers an available proxy, or none when there is none.
LEMMA PickIsAvailable ==
    ASSUME NEW available, NEW excluded, NEW q \in Pick(available, excluded)
    PROVE  IF available = {} THEN q = NoProxy ELSE q \in available
BY DEF Pick

\* Whatever pick_proxy offers, the attempt has a proxy.
LEMMA ElseIsProxy ==
    ASSUME NEW p \in Proxies, NEW available \in SUBSET Proxies,
           NEW q \in Pick(available, {p})
    PROVE  Else(q, p) \in Proxies
BY PickIsAvailable DEF Else

\* A fetch_whole that runs has a proxy.
LEMMA WholeHasProxy ==
    ASSUME HeadInv, NEW f \in WholeTasks, whole[f].at # "ended"
    PROVE  whole[f] \in WholeCalls /\ whole[f].proxy \in Proxies
BY DEF HeadInv, WholeCalls, WholeEnded

\* One step of the program, by what it does to the breaker.
LEMMA StepOperations ==
    ASSUME CallerInv, Next
    PROVE  \/ UNCHANGED breakerVars
           \/ \E p \in Proxies :
                 \/ Succeeds(p) /\ RecordSuccess(p)
                 \/ Fails(p) /\ RecordFailure(p)
                 \/ \E ok \in BOOLEAN : AllowRequest(p, ok)
                 \/ HealthPasses(p) /\ Release(p)
                 \/ HealthFails(p) /\ RetestFailed(p)
                 \/ EvictStats(p)
                 \/ BanElapses(p)
<1> DEFINE Operation ==
               \/ UNCHANGED breakerVars
               \/ \E p \in Proxies :
                     \/ Succeeds(p) /\ RecordSuccess(p)
                     \/ Fails(p) /\ RecordFailure(p)
                     \/ \E ok \in BOOLEAN : AllowRequest(p, ok)
                     \/ HealthPasses(p) /\ Release(p)
                     \/ HealthFails(p) /\ RetestFailed(p)
                     \/ EvictStats(p)
                     \/ BanElapses(p)
<1> USE DEF CallerInv
<1>1. ASSUME NEW r \in ChunkTasks, Check(r) \/ Resume(r) PROVE Operation
    <2>1. CASE Check(r)
        <3>1. current[r] \in Proxies
            BY <2>1 DEF Check, ChunkInv
        <3>2. \E ok \in BOOLEAN : AllowRequest(current[r], ok)
            BY <2>1 DEF Check
        <3>3. QED BY <3>1, <3>2
    <2>2. CASE TakeSlot(r) \/ SlotTimeout(r)
        BY <2>2 DEF TakeSlot, SlotTimeout
    <2>3. CASE Succeed(r)
        <3>1. current[r] \in Proxies /\ RecordSuccess(current[r])
            BY <2>3 DEF Succeed, ChunkInv
        <3>2. Succeeds(current[r])
            BY <2>3 DEF Succeeds
        <3>3. QED BY <3>1, <3>2
    <2>4. CASE Fail(r)
        <3>1. current[r] \in Proxies /\ RecordFailure(current[r])
            BY <2>4 DEF Fail, ChunkInv
        <3>2. Fails(current[r])
            BY <2>4 DEF Fails
        <3>3. QED BY <3>1, <3>2
    <2>5. QED BY <1>1, <2>1, <2>2, <2>3, <2>4 DEF Resume
<1>2. ASSUME NEW h \in HeadTasks, Probe(h) PROVE Operation
    <2>1. ASSUME NEW p \in Proxies, ProbeFails(h, p) PROVE Operation
        <3>1. RecordFailure(p) /\ Fails(p)
            BY <2>1 DEF ProbeFails, Fails
        <3>2. QED BY <3>1
    <2>2. ASSUME NEW p \in Proxies, ProbeUseless(h, p) PROVE Operation
        BY <2>2 DEF ProbeUseless
    <2>3. CASE ProbesEnd(h)
        BY <2>3 DEF ProbesEnd
    <2>4. QED BY <1>2, <2>1, <2>2, <2>3 DEF Probe
<1>3. ASSUME NEW f \in WholeTasks, Whole(f) PROVE Operation
    <2> DEFINE p == whole[f].proxy
    <2>1. CASE WholeCheck(f)
        <3>1. p \in Proxies
            BY <2>1, WholeHasProxy DEF WholeCheck
        <3>2. \E ok \in BOOLEAN : AllowRequest(p, ok)
            BY <2>1 DEF WholeCheck
        <3>3. QED BY <3>1, <3>2
    <2>2. CASE WholeSucceeds(f)
        <3>1. p \in Proxies /\ RecordSuccess(p)
            BY <2>2, WholeHasProxy DEF WholeSucceeds
        <3>2. Succeeds(p)
            BY <2>2 DEF Succeeds
        <3>3. QED BY <3>1, <3>2
    <2>3. CASE WholeFails(f)
        <3>1. p \in Proxies /\ RecordFailure(p)
            BY <2>3, WholeHasProxy DEF WholeFails
        <3>2. Fails(p)
            BY <2>3 DEF Fails
        <3>3. QED BY <3>1, <3>2
    <2>4. QED BY <1>3, <2>1, <2>2, <2>3 DEF Whole
<1>4. CASE Begin \/ Abort
    BY <1>4 DEF Begin, Abort, BeginRequest, SendProbes, BeginWhole, Cancel,
                WholeCancelled
<1>5. CASE Upkeep
    <2>1. CASE HealthRound
        BY <2>1 DEF HealthRound
    <2>2. ASSUME NEW p \in Proxies, HealthPasses(p) \/ HealthFails(p)
          PROVE  Operation
        BY <2>2 DEF HealthPasses, HealthFails
    <2>3. ASSUME NEW p \in Proxies, NEW given \in SUBSET Pools, Add(p, given)
          PROVE  Operation
        BY <2>3 DEF Add
    <2>4. ASSUME NEW p \in bound.removable, Remove(p) PROVE Operation
        <3>1. EvictStats(p) /\ p \in Proxies
            BY <2>4 DEF Remove, CallerInv, RegistryInv
        <3>2. QED BY <3>1
    <2>5. ASSUME NEW gone \in SUBSET bound.removable, Reload(gone) PROVE Operation
        BY <2>5 DEF Reload
    <2>6. QED BY <1>5, <2>1, <2>2, <2>3, <2>4, <2>5 DEF Upkeep
<1>6. CASE Clock
    BY <1>6 DEF Clock
<1>7. QED BY <1>1, <1>2, <1>3, <1>4, <1>5, <1>6 DEF Next, Chunk

\* Every step of the program is one breaker operation or leaves it alone.
LEMMA FetchStepIsBreakerStep ==
    CallerInv /\ [Next]_vars => [BreakerNext]_breakerVars
<1>1. ASSUME CallerInv, Next PROVE [BreakerNext]_breakerVars
    BY <1>1, StepOperations DEF BreakerNext
<1>2. QED BY <1>1 DEF vars

\* Nothing is fetched at first.
LEMMA CallerInitInv == Init => CallerInv
<1> SUFFICES ASSUME Init PROVE CallerInv
    OBVIOUS
<1>1. ChunkInv
    BY FetchAssumption DEF Init, FetchInit, ChunkInv, PoolNames
<1>2. RegistryInv
    BY RegistryAssumption DEF Init, RegistryInit, RegistryInv
<1>3. HeadInv
    BY HeadAssumption DEF Init, HeadInit, HeadInv, NoProbes, Probes
<1>4. QED BY <1>1, <1>2, <1>3 DEF Init, CallerInv

\* The bounds of the behaviour, and what follows for the requests and the operator.
LEMMA BoundsType ==
    ASSUME CallerInv
    PROVE  /\ bound.chunks \subseteq ChunkTasks
           /\ bound.heads \subseteq HeadTasks
           /\ bound.wholes \subseteq WholeTasks
           /\ bound.names \subseteq PoolNames
           /\ bound.removable \subseteq Proxies
<1>1. bound \in BoundType
    BY BoundAssumption DEF CallerInv
<1>2. QED BY <1>1 DEF BoundType

\* What steps other than its own leave of fetch_chunk.
LEMMA ChunkSteps ==
    ASSUME CallerInv, Next
    PROVE  \/ \E r \in ChunkTasks : Check(r) \/ Resume(r) \/ Cancel(r)
           \/ \E name \in PoolNames, chunks \in SUBSET ChunkTasks :
                 BeginRequest(chunks, name)
           \/ UNCHANGED fetchVars
<1>1. CASE Begin
    <2>1. bound.names \subseteq PoolNames /\ bound.chunks \subseteq ChunkTasks
        BY BoundsType
    <2>2. QED BY <1>1, <2>1 DEF Begin
<1>2. QED
    BY <1>1 DEF Next, Chunk, Probe, Whole, Abort, Upkeep, Clock

\* End leaves no proxy behind.
LEMMA EndKeepsChunkInv ==
    ASSUME ChunkInv, NEW r \in ChunkTasks, End(r)
    PROVE  ChunkInv'
BY FetchAssumption DEF ChunkInv, End

\* The breaker check keeps a proxy, the refused one or another.
LEMMA CheckKeepsChunkInv ==
    ASSUME ChunkInv, RegistryInv, NEW r \in ChunkTasks, Check(r)
    PROVE  ChunkInv'
<1> DEFINE p == current[r]
<1>1. p \in Proxies
    BY DEF Check, ChunkInv
<1>2. Available(pool) \in SUBSET Proxies
    BY DEF Available, RegistryInv
<1>3. \/ current' = current
      \/ \E q \in Proxies : current' = [current EXCEPT ![r] = q]
    BY <1>1, <1>2, ElseIsProxy DEF Check
<1>4. pc' \in [ChunkTasks -> Active \cup {"ended"}]
    BY DEF Check, ChunkInv, Active, Waiting
<1>5. current' \in [ChunkTasks -> Proxies \cup {NoProxy}]
    BY <1>3 DEF ChunkInv
<1>6. \A s \in ChunkTasks : pc'[s] # "ended" => current'[s] \in Proxies
    BY <1>1, <1>3 DEF Check, ChunkInv
<1>7. QED
    BY <1>4, <1>5, <1>6 DEF Check, ChunkInv

\* A failed attempt ends its chunk or goes on with a proxy and one attempt more.
LEMMA FailKeepsChunkInv ==
    ASSUME ChunkInv, RegistryInv, NEW r \in ChunkTasks, Fail(r)
    PROVE  ChunkInv'
<1> DEFINE p == current[r]
<1>1. UNCHANGED <<registryVars, pool, budget>>
    BY DEF Fail
<1>2. CASE attempt[r] = ChunkRetries /\ End(r)
    BY <1>2, EndKeepsChunkInv
<1>3. CASE /\ attempt[r] < ChunkRetries
           /\ pc' = [pc EXCEPT ![r] = "retry"]
           /\ attempt' = [attempt EXCEPT ![r] = @ + 1]
           /\ IF ChunkProxy
              THEN \E q \in Pick(Available(pool)', {p}) :
                       current' = [current EXCEPT ![r] = Else(q, p)]
              ELSE UNCHANGED current
    <2>1. p \in Proxies
        BY DEF Fail, ChunkInv
    <2>2. Available(pool)' \in SUBSET Proxies
        BY <1>1 DEF Available, RegistryInv, registryVars
    <2>3. \/ current' = current
          \/ \E q \in Proxies : current' = [current EXCEPT ![r] = q]
        BY <1>3, <2>1, <2>2, ElseIsProxy
    <2>4. attempt' \in [ChunkTasks -> 1 .. ChunkRetries]
        BY <1>3, FetchAssumption DEF ChunkInv
    <2>5. pc' \in [ChunkTasks -> Active \cup {"ended"}]
        BY <1>3 DEF ChunkInv, Active
    <2>6. \A s \in ChunkTasks : pc'[s] # "ended" => current'[s] \in Proxies
        BY <1>3, <2>1, <2>3 DEF ChunkInv
    <2>7. current' \in [ChunkTasks -> Proxies \cup {NoProxy}]
        BY <2>3 DEF ChunkInv
    <2>8. QED BY <1>1, <2>4, <2>5, <2>6, <2>7 DEF ChunkInv
<1>4. QED BY <1>2, <1>3 DEF Fail

\* Every step keeps the part about the chunks ...
LEMMA ChunkStepInv ==
    ASSUME CallerInv, Next
    PROVE  ChunkInv'
<1> USE DEF CallerInv
<1>1. ASSUME NEW r \in ChunkTasks, Check(r) \/ Resume(r) PROVE ChunkInv'
    <2>1. CASE Check(r)
        BY <2>1, CheckKeepsChunkInv
    <2>2. CASE TakeSlot(r)
        BY <2>2, FetchAssumption DEF TakeSlot, ChunkInv, Active, Waiting
    <2>3. CASE SlotTimeout(r) \/ Succeed(r)
        BY <2>3, EndKeepsChunkInv DEF SlotTimeout, Succeed
    <2>4. CASE Fail(r)
        BY <2>4, FailKeepsChunkInv
    <2>5. QED BY <1>1, <2>1, <2>2, <2>3, <2>4 DEF Resume
<1>2. ASSUME NEW r \in ChunkTasks, Cancel(r) PROVE ChunkInv'
    BY <1>2, EndKeepsChunkInv DEF Cancel
<1>3. ASSUME NEW name \in PoolNames, NEW chunks \in SUBSET ChunkTasks,
             BeginRequest(chunks, name)
      PROVE  ChunkInv'
    BY <1>3, FetchAssumption DEF BeginRequest, ChunkInv, Active, Waiting
<1>4. CASE UNCHANGED fetchVars
    BY <1>4 DEF fetchVars, ChunkInv
<1>5. QED BY <1>1, <1>2, <1>3, <1>4, ChunkSteps

\* ... the part about the registry ...
LEMMA RegistryStepInv ==
    ASSUME CallerInv, Next
    PROVE  RegistryInv'
<1>1. CASE UNCHANGED registryVars
    BY <1>1 DEF registryVars, CallerInv, RegistryInv
<1>2. CASE Upkeep
    <2>1. CASE HealthRound
        BY <2>1 DEF HealthRound, CallerInv, RegistryInv, ExpiredOpen
    <2>2. ASSUME NEW p \in Proxies, HealthPasses(p) \/ HealthFails(p)
          PROVE  RegistryInv'
        BY <2>2 DEF HealthPasses, HealthFails, CallerInv, RegistryInv
    <2>3. ASSUME NEW p \in Proxies, NEW given \in SUBSET Pools, Add(p, given)
          PROVE  RegistryInv'
        BY <2>3 DEF Add, CallerInv, RegistryInv
    <2>4. ASSUME NEW p, Remove(p) PROVE RegistryInv'
        BY <2>4 DEF Remove, CallerInv, RegistryInv
    <2>5. ASSUME NEW gone, Reload(gone) PROVE RegistryInv'
        BY <2>5, RegistryAssumption DEF Reload, CallerInv, RegistryInv
    <2>6. QED BY <1>2, <2>1, <2>2, <2>3, <2>4, <2>5 DEF Upkeep
<1>3. ASSUME NEW r \in ChunkTasks, Chunk(r) \/ Cancel(r)
      PROVE  UNCHANGED registryVars
    BY <1>3 DEF Chunk, Check, Resume, TakeSlot, SlotTimeout, Succeed, Fail, Cancel,
                End
<1>4. ASSUME NEW f \in WholeTasks, Whole(f) \/ WholeCancelled(f)
      PROVE  UNCHANGED registryVars
    BY <1>4 DEF Whole, WholeCheck, WholeSucceeds, WholeFails, WholeCancelled
<1>5. ASSUME NEW h \in HeadTasks, Probe(h) PROVE UNCHANGED registryVars
    BY <1>5 DEF Probe, ProbeUseless, ProbeFails, ProbesEnd
<1>6. CASE Begin
    BY <1>1, <1>6 DEF Begin, BeginRequest, SendProbes, BeginWhole
<1>7. QED BY <1>1, <1>2, <1>3, <1>4, <1>5, <1>6 DEF Next, Abort, Clock

\* A HEAD request less is out.
LEMMA OneLessType ==
    ASSUME HeadInv, NEW h \in HeadTasks, NEW p \in Proxies, probing[h][p] > 0,
           OneLess(h, p)
    PROVE  probing' \in [HeadTasks -> Probes]
<1>1. probing[h] \in Probes
    BY DEF HeadInv
<1>2. probing[h][p] - 1 \in 0 .. HeadRetries
    BY <1>1, HeadAssumption DEF Probes
<1>3. [probing[h] EXCEPT ![p] = @ - 1] \in Probes
    BY <1>1, <1>2 DEF Probes
<1>4. QED BY <1>3 DEF OneLess, HeadInv

\* ... and the part about the requests of head.py.
LEMMA HeadStepInv ==
    ASSUME CallerInv, Next
    PROVE  HeadInv'
<1> USE DEF CallerInv
<1>1. CASE UNCHANGED headVars
    BY <1>1 DEF headVars, HeadInv
<1>2. ASSUME NEW h \in HeadTasks, Probe(h) PROVE HeadInv'
    <2>1. ASSUME NEW p \in Proxies, ProbeUseless(h, p) \/ ProbeFails(h, p)
          PROVE  HeadInv'
        BY <2>1, OneLessType DEF ProbeUseless, ProbeFails, HeadInv
    <2>2. CASE ProbesEnd(h)
        BY <2>2, HeadAssumption DEF ProbesEnd, HeadInv, NoProbes, Probes
    <2>3. QED BY <1>2, <2>1, <2>2 DEF Probe
<1>3. ASSUME NEW f \in WholeTasks, Whole(f) \/ WholeCancelled(f) PROVE HeadInv'
    <2> DEFINE p == whole[f].proxy
               n == whole[f].attempt
    <2>1. CASE EndWhole(f) /\ UNCHANGED probing
        BY <2>1 DEF EndWhole, HeadInv
    <2>2. CASE WholeCheck(f)
        <3>1. p \in Proxies /\ n \in 1 .. WholeRetries /\ whole[f].at # "ended"
              /\ whole[f] \in WholeCalls
            BY <2>2, WholeHasProxy DEF WholeCheck, WholeCalls
        <3>2. Available(whole[f].pool) \in SUBSET Proxies
            BY DEF Available, RegistryInv
        <3>3. UNCHANGED probing
            BY <2>2 DEF WholeCheck
        <3>4. CASE whole' = [whole EXCEPT ![f].at = "inflight"]
            <4>1. [whole[f] EXCEPT !.at = "inflight"] \in WholeCalls
                BY <3>1 DEF WholeCalls
            <4>2. QED BY <3>3, <3>4, <4>1 DEF HeadInv
        <3>5. ASSUME NEW q \in Proxies,
                     whole' = [whole EXCEPT ![f].at = "inflight", ![f].proxy = q]
              PROVE  HeadInv'
            <4>1. [[whole[f] EXCEPT !.at = "inflight"] EXCEPT !.proxy = q] \in WholeCalls
                BY <3>1 DEF WholeCalls
            <4>2. whole' = [whole EXCEPT ![f] =
                               [[whole[f] EXCEPT !.at = "inflight"] EXCEPT !.proxy = q]]
                BY <3>5 DEF HeadInv
            <4>3. QED BY <3>3, <4>1, <4>2 DEF HeadInv
        <3>6. QED BY <2>2, <3>1, <3>2, <3>4, <3>5, ElseIsProxy DEF WholeCheck
    <2>3. CASE WholeFails(f) /\ whole[f].attempt < WholeRetries
        <3>1. n \in 1 .. WholeRetries /\ whole[f] \in WholeCalls
            BY <2>3, WholeHasProxy DEF WholeFails, WholeCalls
        <3>2. n + 1 \in 1 .. WholeRetries
            BY <2>3, <3>1, HeadAssumption
        <3>3. whole[f].attempt # WholeRetries
            BY <2>3, <3>1, HeadAssumption
        <3>4. PICK q \in Proxies :
                  whole' = [whole EXCEPT ![f].at = "retry", ![f].proxy = q,
                                         ![f].attempt = @ + 1]
            BY <2>3, <3>3 DEF WholeFails
        <3> DEFINE next == [[[whole[f] EXCEPT !.at = "retry"] EXCEPT !.proxy = q]
                               EXCEPT !.attempt = n + 1]
        <3>5. next \in WholeCalls
            BY <3>1, <3>2 DEF WholeCalls
        <3>6. whole' = [whole EXCEPT ![f] = next]
            BY <3>1, <3>4 DEF HeadInv, WholeCalls
        <3>7. UNCHANGED probing
            BY <2>3 DEF WholeFails
        <3>8. QED BY <3>5, <3>6, <3>7 DEF HeadInv
    <2>4. QED
        BY <1>3, <2>1, <2>2, <2>3 DEF Whole, WholeSucceeds, WholeFails, WholeCancelled
<1>4. CASE Begin
    <2>1. ASSUME NEW name \in bound.names, NEW h \in bound.heads, SendProbes(h, name)
          PROVE  HeadInv'
        BY <2>1, BoundsType DEF SendProbes, HeadInv
    <2>2. ASSUME NEW name \in bound.names, NEW f \in bound.wholes, BeginWhole(f, name)
          PROVE  HeadInv'
        <3>1. name \in PoolNames /\ f \in WholeTasks
            BY BoundsType
        <3>2. PICK p \in Proxies :
                  whole' = [whole EXCEPT ![f] = [at |-> "check", proxy |-> p,
                                                 attempt |-> 1, pool |-> name]]
            BY <2>2 DEF BeginWhole
        <3>3. [at |-> "check", proxy |-> p, attempt |-> 1, pool |-> name] \in WholeCalls
            BY <3>1, HeadAssumption DEF WholeCalls
        <3>4. QED BY <2>2, <3>2, <3>3 DEF BeginWhole, HeadInv
    <2>3. QED BY <1>1, <1>4, <2>1, <2>2 DEF Begin
<1>5. QED
    BY <1>1, <1>2, <1>3, <1>4 DEF Next, Chunk, Abort, Upkeep, Clock

\* Every step of the program keeps the callers' part of the invariant.
LEMMA CallerStepInv == CallerInv /\ [Next]_vars => CallerInv'
<1>1. ASSUME CallerInv, Next PROVE CallerInv'
    <2>1. UNCHANGED bound
        BY <1>1 DEF Next
    <2>2. QED
        BY <1>1, <2>1, ChunkStepInv, RegistryStepInv, HeadStepInv DEF CallerInv
<1>2. ASSUME CallerInv, UNCHANGED vars PROVE CallerInv'
    BY <1>2 DEF vars, registryVars, fetchVars, headVars, CallerInv, ChunkInv,
                RegistryInv, HeadInv
<1>3. QED BY <1>1, <1>2

\* So it holds always.
LEMMA CallersAlwaysInv == Spec => []CallerInv
BY CallerInitInv, CallerStepInv, PTL DEF Spec

\* A behaviour of the program is one of the breaker: fetch_chunk, fetch_whole, the
\* HEAD requests, the health checker, the registry and the clock go through the
\* breaker's operations, one per step.
LEMMA ProgramUsesBreaker == Spec => BreakerSpec
<1>1. Init => BreakerInit
    BY DEF Init
<1>2. QED
    BY <1>1, CallersAlwaysInv, FetchStepIsBreakerStep, PTL DEF Spec, BreakerSpec

\* So the breaker's invariants are invariants of the program, and with them its
\* type correctness: the budget is never overdrawn, and a fetch that runs has a
\* proxy.
THEOREM FetchTypeCorrect == Spec => []FetchTypeOK
<1>1. BreakerTypeOK /\ CallerInv => FetchTypeOK
    BY DEF FetchTypeOK, CallerInv, ChunkInv, RegistryInv, HeadInv
<1>2. QED
    BY <1>1, CallersAlwaysInv, ProgramUsesBreaker, BreakerTypeCorrect, PTL

\* No caller of the breaker can leave a HALF_OPEN proxy without its probe event,
\* or an event that outlives the trial.
THEOREM ProgramProbeEventSafe == Spec => []ProbeEventMatchesState
BY ProgramUsesBreaker, ProbeEventSafe, PTL

\* A proxy in service has no strikes, and one out of service has some, as a fact
\* about the program.
THEOREM ProgramStrikesSafe == Spec => []StrikesMatchState
BY ProgramUsesBreaker, StrikesSafe, PTL

\* Late failures recorded by fetch_chunk, fetch_whole or a HEAD request do not
\* extend a ban or add a strike.
THEOREM ProgramEscalationSafe == Spec => EscalatesOnlyFromTrial
BY ProgramUsesBreaker, EscalationSafe, PTL

\* The types of the breaker's variables, as a fact about the program.
LEMMA BreakerTypeAlways == Spec => []BreakerTypeOK
BY ProgramUsesBreaker, BreakerTypeCorrect, PTL

-----------------------------------------------------------------------------
(* Who uses a banned proxy, and who ends a ban or a trial.                 *)

\* Whoever is let through by the breaker has a proxy that is not banned, and a
\* proxy that pick_proxy offers instead is not banned either.
LEMMA AllowedIsNotBanned ==
    ASSUME BreakerTypeOK, NEW p \in Proxies, AllowRequest(p, TRUE)
    PROVE  p \notin Blocked'
BY DEF AllowRequest, Blocked, ExpiredOpen, BreakerTypeOK

LEMMA OfferedIsNotBanned ==
    ASSUME RegistryInv, NEW name, NEW p \in Proxies, AllowRequest(p, FALSE),
           NEW q, q \in Pick(Available(name), {p}), Available(name) # {}
    PROVE  Else(q, p) \notin Blocked'
<1>1. Blocked' = Blocked
    BY DEF AllowRequest, Blocked
<1>2. q \in Available(name)
    BY PickIsAvailable
<1>3. q \in Proxies /\ q \notin Blocked /\ q # NoProxy
    BY <1>2, RegistryAssumption DEF Available, RegistryInv
<1>4. QED BY <1>1, <1>3 DEF Else

\* A check that ends with a banned proxy found no available proxy in the pool.
LEMMA CheckAvoidsBanned ==
    ASSUME CallerInv, BreakerTypeOK, NEW r \in ChunkTasks, Check(r),
           current'[r] \in Blocked'
    PROVE  Available(pool) = {}
<1> DEFINE p == current[r]
<1>1. p \in Proxies /\ current \in [ChunkTasks -> Proxies \cup {NoProxy}]
    BY DEF Check, CallerInv, ChunkInv
<1>2. CASE AllowRequest(p, TRUE) /\ UNCHANGED current
    BY <1>1, <1>2, AllowedIsNotBanned
<1>3. CASE /\ AllowRequest(p, FALSE)
           /\ \E q \in Pick(Available(pool), {p}) :
                  current' = [current EXCEPT ![r] = Else(q, p)]
    <2>1. PICK q \in Pick(Available(pool), {p}) :
                  current' = [current EXCEPT ![r] = Else(q, p)]
        BY <1>3
    <2>2. current'[r] = Else(q, p)
        BY <1>1, <2>1
    <2>3. RegistryInv
        BY DEF CallerInv
    <2>4. p \in Proxies /\ AllowRequest(p, FALSE) /\ q \in Pick(Available(pool), {p})
        BY <1>1, <1>3
    <2> HIDE DEF p
    <2>5. Available(pool) # {} => Else(q, p) \notin Blocked'
        BY <2>3, <2>4, OfferedIsNotBanned
    <2>6. QED BY <2>2, <2>5
<1>4. QED BY <1>2, <1>3 DEF Check

\* So does that of fetch_whole.
LEMMA WholeCheckAvoidsBanned ==
    ASSUME CallerInv, BreakerTypeOK, NEW f \in WholeTasks, WholeCheck(f),
           whole'[f].proxy \in Blocked'
    PROVE  Available(whole[f].pool) = {}
<1> DEFINE p == whole[f].proxy
           name == whole[f].pool
<1>1. p \in Proxies /\ whole[f] \in WholeCalls /\ HeadInv /\ RegistryInv
    BY WholeHasProxy DEF WholeCheck, CallerInv
<1>2. CASE /\ AllowRequest(p, TRUE)
           /\ whole' = [whole EXCEPT ![f].at = "inflight"]
    <2>1. whole'[f].proxy = p
        BY <1>1, <1>2 DEF HeadInv, WholeCalls
    <2>2. QED BY <1>1, <1>2, <2>1, AllowedIsNotBanned
<1>3. CASE /\ AllowRequest(p, FALSE)
           /\ \E q \in Pick(Available(name), {p}) :
                 whole' = [whole EXCEPT ![f].at = "inflight", ![f].proxy = Else(q, p)]
    <2>1. PICK q \in Pick(Available(name), {p}) :
                 whole' = [whole EXCEPT ![f].at = "inflight", ![f].proxy = Else(q, p)]
        BY <1>3
    <2>2. whole'[f].proxy = Else(q, p)
        BY <1>1, <2>1 DEF HeadInv, WholeCalls
    <2>3. p \in Proxies /\ AllowRequest(p, FALSE) /\ q \in Pick(Available(name), {p})
        BY <1>1, <1>3
    <2> HIDE DEF p, name
    <2>4. Available(name) # {} => Else(q, p) \notin Blocked'
        BY <1>1, <2>3, OfferedIsNotBanned
    <2>5. QED BY <2>2, <2>4 DEF name
<1>4. QED BY <1>2, <1>3 DEF WholeCheck

\* Only its own breaker check takes a chunk from there to the budget or to flight.
LEMMA ChunkLeavesCheck ==
    ASSUME CallerInv, Next, NEW r \in ChunkTasks,
           pc[r] \in {"check", "retry"}, pc'[r] \in {"budget", "inflight"}
    PROVE  Check(r)
<1> USE DEF CallerInv, ChunkInv
<1>1. ASSUME NEW s \in ChunkTasks, Check(s) PROVE s = r
    BY <1>1 DEF Check
<1>2. ASSUME NEW s \in ChunkTasks, Resume(s) \/ Cancel(s) PROVE FALSE
    BY <1>2 DEF Resume, TakeSlot, SlotTimeout, Succeed, Fail, Cancel, End
<1>3. ASSUME NEW name, NEW chunks, BeginRequest(chunks, name) PROVE FALSE
    BY <1>3 DEF BeginRequest
<1>4. CASE UNCHANGED fetchVars
    BY <1>4 DEF fetchVars
<1>5. QED BY <1>1, <1>2, <1>3, <1>4, ChunkSteps

\* And only its own check sends a fetch_whole.
LEMMA WholeLeavesCheck ==
    ASSUME CallerInv, Next, NEW f \in WholeTasks,
           whole[f].at \in {"check", "retry"}, whole'[f].at = "inflight"
    PROVE  WholeCheck(f)
<1>1. whole \in [WholeTasks -> WholeCalls \cup {WholeEnded}] /\ whole[f] \in WholeCalls
    BY WholeHasProxy DEF CallerInv, HeadInv
<1>2. ASSUME NEW g \in WholeTasks, WholeCheck(g) PROVE g = f
    BY <1>1, <1>2 DEF WholeCheck
<1>3. ASSUME NEW g \in WholeTasks, EndWhole(g) PROVE FALSE
    BY <1>1, <1>3 DEF EndWhole, WholeEnded
<1>4. ASSUME NEW g \in WholeTasks, WholeFails(g) PROVE FALSE
    <2>1. whole[g].at = "inflight"
        BY <1>4 DEF WholeFails
    <2>2. whole'[f] = whole[f] \/ EndWhole(g)
        BY <1>1, <1>4, <2>1 DEF WholeFails
    <2>3. QED BY <1>3, <2>2
<1>5. ASSUME NEW name, NEW g, BeginWhole(g, name) PROVE FALSE
    BY <1>1, <1>5 DEF BeginWhole
<1>6. ASSUME UNCHANGED whole PROVE FALSE
    BY <1>6
<1>7. ASSUME NEW h \in HeadTasks, Probe(h) PROVE UNCHANGED whole
    BY <1>7 DEF Probe, ProbeUseless, ProbeFails, ProbesEnd
<1>8. CASE Begin
    BY <1>5, <1>6, <1>8 DEF Begin, headVars, SendProbes
<1>9. QED
    BY <1>2, <1>3, <1>4, <1>6, <1>7, <1>8
    DEF Next, Chunk, Whole, WholeSucceeds, WholeCancelled, Abort, Upkeep, Clock, headVars

\* The use of the breaker by fetch_chunk and fetch_whole: an attempt leaves its
\* check with a banned proxy only when the pool of the request has no proxy that
\* is not banned.
THEOREM BannedIsLastResort == Spec => BannedOnlyAsLastResort
<1>1. CallerInv /\ BreakerTypeOK /\ [Next]_vars =>
          [/\ \A r \in ChunkTasks :
                 pc[r] \in {"check", "retry"} /\ pc'[r] \in {"budget", "inflight"}
                   /\ current'[r] \in Blocked' => Available(pool) = {}
           /\ \A f \in WholeTasks :
                 whole[f].at \in {"check", "retry"} /\ whole'[f].at = "inflight"
                   /\ whole'[f].proxy \in Blocked'
                     => Available(whole[f].pool) = {}]_vars
    BY ChunkLeavesCheck, CheckAvoidsBanned, WholeLeavesCheck, WholeCheckAvoidsBanned
<1>2. QED
    BY <1>1, BreakerTypeAlways, CallersAlwaysInv, PTL DEF Spec, BannedOnlyAsLastResort

\* No result of traffic ends a ban.
LEMMA TrafficKeepsBan ==
    ASSUME BreakerTypeOK, NEW p \in Blocked, NEW q \in Proxies,
           \/ RecordFailure(q)
           \/ RecordSuccess(q)
           \/ \E ok \in BOOLEAN : AllowRequest(q, ok)
           \/ RetestFailed(q)
           \/ EvictStats(q)
           \/ BanElapses(q)
    PROVE  state'[p] = "OPEN"
BY DEF BreakerTypeOK, Blocked, ExpiredOpen, RecordFailure, RecordSuccess,
       AllowRequest, RetestFailed, EvictStats, BanElapses, Trip, Open,
       CloseBreaker

\* A ban that runs is ended by the health checker and by nobody else: not by a
\* late success of a request sent before it, nor by removing the proxy.
THEOREM BanCutShortSafe == Spec => BanCutShortOnlyByHealthCheck
<1>1. ASSUME CallerInv, BreakerTypeOK, Next, NEW p \in Blocked, state'[p] # "OPEN"
      PROVE  HealthPasses(p)
    <2>1. p \in Proxies /\ state[p] = "OPEN"
        BY DEF Blocked
    <2>2. CASE UNCHANGED breakerVars
        BY <1>1, <2>1, <2>2 DEF breakerVars
    <2>3. ASSUME NEW q \in Proxies, HealthPasses(q) /\ Release(q)
          PROVE  HealthPasses(p)
        BY <1>1, <2>1, <2>3 DEF Release, CloseBreaker, BreakerTypeOK
    <2>4. QED
        BY <1>1, <2>2, <2>3, StepOperations, TrafficKeepsBan
<1>2. CallerInv /\ BreakerTypeOK /\ [Next]_vars =>
          [\A p \in Blocked : state'[p] # "OPEN" => HealthPasses(p)]_vars
    BY <1>1
<1>3. QED
    BY <1>2, CallersAlwaysInv, BreakerTypeAlways, PTL
    DEF Spec, BanCutShortOnlyByHealthCheck

\* What ends a trial is about the proxy on trial, and says how it ends.
LEMMA ResultsOfTrial ==
    ASSUME BreakerTypeOK, NEW p \in Proxies, state[p] = "HALF_OPEN",
           NEW q \in Proxies
    PROVE  /\ RecordSuccess(q) \/ Release(q) =>
                  IF p = q THEN state'[p] = "CLOSED" ELSE state'[p] = "HALF_OPEN"
           /\ RecordFailure(q) \/ RetestFailed(q) =>
                  state'[p] = "HALF_OPEN" \/ (p = q /\ state'[p] = "OPEN")
           /\ (\E ok \in BOOLEAN : AllowRequest(q, ok)) \/ EvictStats(q) \/ BanElapses(q) =>
                  state'[p] = "HALF_OPEN"
BY DEF BreakerTypeOK, RecordFailure, RecordSuccess, RetestFailed, Release,
       AllowRequest, EvictStats, BanElapses, Trip, Open, CloseBreaker, Blocked,
       ExpiredOpen

\* A trial is decided by a result of a request through the proxy or of a health
\* check, and as the result says.  Removing the proxy, adding or reloading it,
\* cancelling its request or letting it time out at the budget decides nothing.
THEOREM TrialDecidedSafe == Spec => TrialDecidedByResult
<1>1. ASSUME CallerInv, BreakerTypeOK, Next, NEW p \in Proxies,
             state[p] = "HALF_OPEN", state'[p] # "HALF_OPEN"
      PROVE  \/ state'[p] = "CLOSED" /\ (Succeeds(p) \/ HealthPasses(p))
             \/ state'[p] = "OPEN" /\ (Fails(p) \/ HealthFails(p))
    <2>1. CASE UNCHANGED breakerVars
        BY <1>1, <2>1 DEF breakerVars
    <2>2. ASSUME NEW q \in Proxies,
                 \/ Succeeds(q) /\ RecordSuccess(q)
                 \/ HealthPasses(q) /\ Release(q)
          PROVE  state'[p] = "CLOSED" /\ (Succeeds(p) \/ HealthPasses(p))
        <3>1. RecordSuccess(q) \/ Release(q)
            BY <2>2
        <3>2. p = q /\ state'[p] = "CLOSED"
            BY <1>1, <3>1, ResultsOfTrial
        <3>3. QED BY <2>2, <3>2
    <2>3. ASSUME NEW q \in Proxies,
                 \/ Fails(q) /\ RecordFailure(q)
                 \/ HealthFails(q) /\ RetestFailed(q)
          PROVE  state'[p] = "OPEN" /\ (Fails(p) \/ HealthFails(p))
        <3>1. RecordFailure(q) \/ RetestFailed(q)
            BY <2>3
        <3>2. p = q /\ state'[p] = "OPEN"
            BY <1>1, <3>1, ResultsOfTrial
        <3>3. QED BY <2>3, <3>2
    <2>4. ASSUME NEW q \in Proxies,
                 \/ \E ok \in BOOLEAN : AllowRequest(q, ok)
                 \/ EvictStats(q)
                 \/ BanElapses(q)
          PROVE  FALSE
        BY <1>1, <2>4, ResultsOfTrial
    <2>5. QED BY <1>1, <2>1, <2>2, <2>3, <2>4, StepOperations
<1>2. CallerInv /\ BreakerTypeOK /\ [Next]_vars =>
          [\A p \in Proxies :
              state[p] = "HALF_OPEN" /\ state'[p] # "HALF_OPEN" =>
                  \/ state'[p] = "CLOSED" /\ (Succeeds(p) \/ HealthPasses(p))
                  \/ state'[p] = "OPEN" /\ (Fails(p) \/ HealthFails(p))]_vars
    BY <1>1
<1>3. QED
    BY <1>2, CallersAlwaysInv, BreakerTypeAlways, PTL
    DEF Spec, TrialDecidedByResult

-----------------------------------------------------------------------------
(* The retry budget.                                                       *)

\* What the place of a task says of its attempts: the first goes out without a
\* slot, a retry is at least the second.
AttemptInv ==
    \A r \in ChunkTasks :
        /\ pc[r] = "check" => attempt[r] = 1
        /\ pc[r] \in {"retry", "budget"} => attempt[r] > 1

\* Every step keeps places and attempts together.
LEMMA AttemptStep == CallerInv /\ AttemptInv /\ [Next]_vars => AttemptInv'
<1> SUFFICES ASSUME CallerInv, AttemptInv, [Next]_vars PROVE AttemptInv'
    OBVIOUS
<1>a. \A r \in ChunkTasks : attempt[r] \in Nat /\ attempt[r] >= 1
    BY FetchAssumption DEF CallerInv, ChunkInv
<1>b. ASSUME UNCHANGED <<pc, attempt>> PROVE AttemptInv'
    BY <1>b DEF AttemptInv
<1>c. ASSUME NEW r \in ChunkTasks, End(r) PROVE AttemptInv'
    BY <1>c DEF End, AttemptInv, CallerInv, ChunkInv
<1>u. CASE UNCHANGED vars
    BY <1>b, <1>u DEF vars, fetchVars
<1>1. ASSUME NEW r \in ChunkTasks, Check(r) \/ Resume(r) PROVE AttemptInv'
    <2>1. CASE Check(r)
        BY <1>a, <2>1 DEF Check, AttemptInv, CallerInv, ChunkInv
    <2>2. CASE TakeSlot(r)
        BY <2>2 DEF TakeSlot, AttemptInv, CallerInv, ChunkInv
    <2>3. CASE SlotTimeout(r) \/ Succeed(r)
        BY <1>c, <2>3 DEF SlotTimeout, Succeed
    <2>4. CASE Fail(r)
        <3>1. CASE End(r)
            BY <1>c, <3>1
        <3>2. CASE /\ pc' = [pc EXCEPT ![r] = "retry"]
                   /\ attempt' = [attempt EXCEPT ![r] = @ + 1]
            BY <1>a, <3>2 DEF AttemptInv, CallerInv, ChunkInv
        <3>3. QED BY <2>4, <3>1, <3>2 DEF Fail
    <2>5. QED BY <1>1, <2>1, <2>2, <2>3, <2>4 DEF Resume
<1>2. ASSUME NEW r \in ChunkTasks, Cancel(r) PROVE AttemptInv'
    BY <1>c, <1>2 DEF Cancel
<1>3. ASSUME NEW name, NEW chunks, BeginRequest(chunks, name) PROVE AttemptInv'
    BY <1>3 DEF BeginRequest, AttemptInv
<1>4. CASE UNCHANGED fetchVars
    BY <1>b, <1>4 DEF fetchVars
<1>5. QED BY <1>u, <1>1, <1>2, <1>3, <1>4, ChunkSteps

\* A task's slots are a number, before and after a step.
LEMMA PaidType ==
    /\ CallerInv /\ AttemptInv => Paid \in [ChunkTasks -> Nat]
    /\ CallerInv' /\ AttemptInv' => Paid' \in [ChunkTasks -> Nat]
<1>1. ASSUME NEW p \in [ChunkTasks -> Active \cup {"ended"}],
             NEW a \in [ChunkTasks -> 1 .. ChunkRetries],
             NEW r \in ChunkTasks,
             p[r] \in {"retry", "budget"} => a[r] > 1
      PROVE  (IF p[r] = "inflight" THEN a[r] - 1
              ELSE IF p[r] \in {"retry", "budget"} THEN a[r] - 2
              ELSE 0) \in Nat
    <2>1. a[r] \in Nat /\ a[r] >= 1
        BY FetchAssumption
    <2>2. QED BY <1>1, <2>1
<1>2. QED BY <1>1 DEF Paid, CallerInv, ChunkInv, AttemptInv

\* The slots of all the tasks, before and after a step that moves one of them.
LEMMA PaidChange ==
    ASSUME CallerInv, AttemptInv, CallerInv', AttemptInv', NEW r \in ChunkTasks,
           \A s \in ChunkTasks \ {r} :
               pc'[s] = pc[s] /\ attempt'[s] = attempt[s]
    PROVE  /\ SumFunctionOnSet(Paid', ChunkTasks) + Paid[r] =
                  SumFunctionOnSet(Paid, ChunkTasks) + Paid'[r]
           /\ SumFunctionOnSet(Paid', ChunkTasks) \in Nat
           /\ SumFunctionOnSet(Paid, ChunkTasks) \in Nat
           /\ Paid[r] \in Nat
           /\ Paid'[r] \in Nat
<1>1. Paid \in [ChunkTasks -> Nat] /\ Paid' \in [ChunkTasks -> Nat]
    BY PaidType
<1>2. \A s \in ChunkTasks \ {r} : Paid[s] = Paid'[s]
    BY DEF Paid
<1>3. IsFiniteSet(ChunkTasks)
    BY FetchAssumption
<1> DEFINE f == Paid
           g == Paid'
<1> HIDE DEF f, g
<1>4. f \in [ChunkTasks -> Nat] /\ g \in [ChunkTasks -> Nat]
    BY <1>1 DEF f, g
<1>5. \A s \in ChunkTasks \ {r} : f[s] = g[s]
    BY <1>2 DEF f, g
<1>6. SumFunctionOnSet(g, ChunkTasks) + f[r] = SumFunctionOnSet(f, ChunkTasks) + g[r]
    BY <1>3, <1>4, <1>5, SumUpdate
<1>7. /\ SumFunctionOnSet(f, ChunkTasks) \in Nat
      /\ SumFunctionOnSet(g, ChunkTasks) \in Nat
    BY <1>3, <1>4, SumType
<1>8. f[r] \in Nat /\ g[r] \in Nat
    BY <1>4
<1>9. QED BY <1>6, <1>7, <1>8 DEF f, g

\* Nothing is paid for before a retry.
LEMMA NothingPaid ==
    ASSUME CallerInv, AttemptInv,
           \A r \in ChunkTasks : pc[r] \in {"check", "ended"}
    PROVE  SumFunctionOnSet(Paid, ChunkTasks) = 0
<1>1. Paid \in [ChunkTasks -> Nat]
    BY PaidType
<1>2. \A r \in ChunkTasks : Paid[r] = 0
    BY DEF Paid
<1>3. QED BY <1>1, <1>2, FetchAssumption, SumZeros

\* Every step pays for the retries it sends.
LEMMA RetriesStep ==
    CallerInv /\ AttemptInv /\ RetriesPaid /\ [Next]_vars => RetriesPaid'
<1> SUFFICES ASSUME CallerInv, AttemptInv, RetriesPaid, [Next]_vars
             PROVE  RetriesPaid'
    OBVIOUS
<1>a. CallerInv' /\ AttemptInv'
    BY CallerStepInv, AttemptStep
<1>b. /\ budget \in Int /\ budget' \in Int /\ RetryBudget \in Int
      /\ \A r \in ChunkTasks : attempt[r] \in Int /\ attempt'[r] \in Int
    BY <1>a, FetchAssumption DEF CallerInv, ChunkInv
<1>c. ASSUME NEW r \in ChunkTasks, budget' - budget <= Paid[r] - Paid'[r],
             \A s \in ChunkTasks \ {r} :
                 pc'[s] = pc[s] /\ attempt'[s] = attempt[s]
      PROVE  RetriesPaid'
    <2> DEFINE before == SumFunctionOnSet(Paid, ChunkTasks)
               after  == SumFunctionOnSet(Paid', ChunkTasks)
    <2>1. /\ after + Paid[r] = before + Paid'[r]
          /\ after \in Nat /\ before \in Nat
          /\ Paid[r] \in Nat /\ Paid'[r] \in Nat
        BY <1>a, <1>c, PaidChange
    <2>2. before <= RetryBudget - budget
        BY DEF RetriesPaid
    <2> HIDE DEF before, after
    <2>3. after <= RetryBudget - budget'
        BY <1>b, <1>c, <2>1, <2>2
    <2>4. QED BY <2>3, FetchAssumption DEF RetriesPaid, after
<1>d. ASSUME NEW r \in ChunkTasks, End(r), UNCHANGED budget PROVE RetriesPaid'
    <2>1. Paid[r] \in Nat /\ Paid'[r] = 0
        BY <1>d, PaidType DEF End, Paid, CallerInv, ChunkInv
    <2>2. \A s \in ChunkTasks \ {r} : pc'[s] = pc[s] /\ attempt'[s] = attempt[s]
        BY <1>d DEF End, CallerInv, ChunkInv
    <2>3. QED BY <1>b, <1>c, <1>d, <2>1, <2>2
<1>e. ASSUME UNCHANGED <<pc, attempt, budget>> PROVE RetriesPaid'
    <2>1. Paid' = Paid
        BY <1>e DEF Paid
    <2>2. QED BY <1>e, <2>1 DEF RetriesPaid
<1>u. CASE UNCHANGED vars
    BY <1>e, <1>u DEF vars, fetchVars
<1>1. ASSUME NEW r \in ChunkTasks, Check(r) \/ Resume(r) PROVE RetriesPaid'
    <2>1. CASE Check(r)
        <3>1. UNCHANGED <<attempt, budget>> /\ pc[r] \in {"check", "retry"}
            BY <2>1 DEF Check
        <3>2. pc' = [pc EXCEPT ![r] = IF attempt[r] > 1 THEN "budget" ELSE "inflight"]
            BY <2>1 DEF Check
        <3>3. Paid'[r] = Paid[r]
            BY <1>b, <3>1, <3>2 DEF Paid, AttemptInv, CallerInv, ChunkInv
        <3>4. budget' - budget <= Paid[r] - Paid'[r]
            BY <1>a, <1>b, <3>1, <3>3, PaidType
        <3>5. QED BY <1>c, <3>1, <3>2, <3>4 DEF CallerInv, ChunkInv
    <2>2. CASE TakeSlot(r)
        <3>1. /\ UNCHANGED attempt /\ budget' = budget - 1
              /\ pc' = [pc EXCEPT ![r] = "inflight"] /\ pc[r] = "budget"
            BY <2>2 DEF TakeSlot
        <3>2. Paid[r] = attempt[r] - 2 /\ Paid'[r] = attempt[r] - 1
            BY <3>1 DEF Paid, CallerInv, ChunkInv
        <3>3. budget' - budget <= Paid[r] - Paid'[r]
            BY <1>b, <3>1, <3>2
        <3>4. QED BY <1>c, <3>1, <3>3 DEF CallerInv, ChunkInv
    <2>3. CASE SlotTimeout(r) \/ Succeed(r)
        BY <1>d, <2>3 DEF SlotTimeout, Succeed, End
    <2>4. CASE Fail(r)
        <3>1. CASE End(r)
            BY <1>d, <2>4, <3>1 DEF Fail
        <3>2. CASE /\ pc' = [pc EXCEPT ![r] = "retry"]
                   /\ attempt' = [attempt EXCEPT ![r] = @ + 1]
            <4>1. UNCHANGED budget /\ pc[r] = "inflight"
                BY <2>4 DEF Fail
            <4>2. Paid[r] = attempt[r] - 1 /\ Paid'[r] = attempt[r] + 1 - 2
                BY <3>2, <4>1 DEF Paid, CallerInv, ChunkInv
            <4>3. budget' - budget <= Paid[r] - Paid'[r]
                BY <1>b, <4>1, <4>2
            <4>4. QED BY <1>c, <3>2, <4>3 DEF CallerInv, ChunkInv
        <3>3. QED BY <2>4, <3>1, <3>2 DEF Fail
    <2>5. QED BY <1>1, <2>1, <2>2, <2>3, <2>4 DEF Resume
<1>2. ASSUME NEW r \in ChunkTasks, Cancel(r) PROVE RetriesPaid'
    BY <1>d, <1>2 DEF Cancel, End
<1>3. ASSUME NEW name, NEW chunks, BeginRequest(chunks, name) PROVE RetriesPaid'
    <2>1. /\ \A r \in ChunkTasks : pc'[r] \in {"check", "ended"}
          /\ budget' = RetryBudget
        BY <1>3 DEF BeginRequest
    <2>2. Paid' \in [ChunkTasks -> Nat] /\ \A r \in ChunkTasks : Paid'[r] = 0
        BY <1>a, <2>1, PaidType DEF Paid
    <2>3. SumFunctionOnSet(Paid', ChunkTasks) = 0
        BY <2>2, FetchAssumption, SumZeros
    <2>4. QED BY <1>b, <2>1, <2>3 DEF RetriesPaid
<1>4. CASE UNCHANGED fetchVars
    BY <1>e, <1>4 DEF fetchVars
<1>5. QED BY <1>u, <1>1, <1>2, <1>3, <1>4, ChunkSteps

\* Places and attempts always go together.
LEMMA AttemptAlways == Spec => []AttemptInv
<1>1. Init => AttemptInv
    BY DEF Init, FetchInit, AttemptInv
<1>2. QED
    BY <1>1, CallersAlwaysInv, AttemptStep, PTL DEF Spec

\* The retry budget bounds the retries of a request: for any number of chunks
\* and slots, and whatever fails, times out or is cancelled, the slots taken
\* cover every retry that was sent.
THEOREM RetriesPaidSafe == Spec => []RetriesPaid
<1>1. Init => AttemptInv
    BY DEF Init, FetchInit, AttemptInv
<1>2. Init => RetriesPaid
    <2> SUFFICES ASSUME Init PROVE RetriesPaid
        OBVIOUS
    <2>1. SumFunctionOnSet(Paid, ChunkTasks) = 0
        BY <1>1, CallerInitInv, NothingPaid DEF Init, FetchInit
    <2>2. QED BY <2>1, FetchAssumption DEF Init, FetchInit, RetriesPaid
<1>3. QED
    BY <1>2, CallersAlwaysInv, AttemptAlways, RetriesStep, PTL DEF Spec

-----------------------------------------------------------------------------
(* Every chunk ends: what FetchEnds rests on.                              *)

\* The steps that a chunk has left, at most: three for each attempt.
StepsLeft(r) ==
    IF pc[r] = "ended" THEN 0
    ELSE 3 * (ChunkRetries - attempt[r])
         + CASE pc[r] \in {"check", "retry"} -> 3
             [] pc[r] = "budget"             -> 2
             [] OTHER                        -> 1

\* A step of r's own lowers it, and nobody else's raises it.
Advances(r) ==
    /\ StepsLeft(r)' \in 0 .. StepsLeft(r)
    /\ Chunk(r) => StepsLeft(r)' < StepsLeft(r)

\* The numbers of a chunk, before and after a step.
LEMMA StepsType ==
    ASSUME CallerInv, CallerInv', NEW r \in ChunkTasks
    PROVE  /\ ChunkRetries \in Nat
           /\ attempt[r] \in Nat /\ attempt[r] <= ChunkRetries
           /\ attempt'[r] \in Nat /\ attempt'[r] <= ChunkRetries
           /\ StepsLeft(r) \in Nat
           /\ pc[r] # "ended" => StepsLeft(r) > 0
<1>1. /\ ChunkRetries \in Nat
      /\ attempt[r] \in 1 .. ChunkRetries /\ attempt'[r] \in 1 .. ChunkRetries
    BY FetchAssumption DEF CallerInv, ChunkInv
<1>2. attempt[r] \in Nat /\ attempt[r] <= ChunkRetries
    BY <1>1
<1>3. QED BY <1>1, <1>2 DEF StepsLeft

\* A chunk that ends has no step left.
LEMMA EndAdvances ==
    ASSUME CallerInv, CallerInv', NEW r \in ChunkTasks, End(r), pc[r] # "ended"
    PROVE  \A s \in ChunkTasks :
               /\ StepsLeft(s)' \in 0 .. StepsLeft(s)
               /\ s = r => StepsLeft(s)' < StepsLeft(s)
<1> TAKE s \in ChunkTasks
<1>1. CASE s = r
    <2>1. StepsLeft(s)' = 0
        BY <1>1 DEF End, StepsLeft, CallerInv, ChunkInv
    <2>2. QED BY <1>1, <2>1, StepsType
<1>2. CASE s # r
    <2>1. pc'[s] = pc[s] /\ attempt'[s] = attempt[s]
        BY <1>2 DEF End, CallerInv, ChunkInv
    <2>2. StepsLeft(s)' = StepsLeft(s)
        BY <2>1 DEF StepsLeft
    <2>3. QED BY <1>2, <2>2, StepsType
<1>3. QED BY <1>1, <1>2

\* A step that leaves the chunks where they are.
LEMMA IdleAdvances ==
    ASSUME CallerInv, CallerInv', UNCHANGED <<pc, attempt>>
    PROVE  \A r \in ChunkTasks : StepsLeft(r)' \in 0 .. StepsLeft(r)
<1> TAKE r \in ChunkTasks
<1>1. StepsLeft(r)' = StepsLeft(r)
    BY DEF StepsLeft
<1>2. QED BY <1>1, StepsType

\* The step of one chunk lowers its own count and no other.
LEMMA FetchAdvances ==
    ASSUME CallerInv, CallerInv', AttemptInv, NEW r \in ChunkTasks,
           Check(r) \/ Resume(r)
    PROVE  \A s \in ChunkTasks :
               /\ StepsLeft(s)' \in 0 .. StepsLeft(s)
               /\ s = r => StepsLeft(s)' < StepsLeft(s)
<1>1. CASE SlotTimeout(r) \/ Succeed(r) \/ (Fail(r) /\ End(r))
    BY <1>1, EndAdvances DEF SlotTimeout, Succeed, Fail
<1>2. CASE Check(r) \/ TakeSlot(r) \/ (Fail(r) /\ ~ End(r))
    <2>1. \A s \in ChunkTasks \ {r} : pc'[s] = pc[s] /\ attempt'[s] = attempt[s]
        BY <1>2 DEF Check, TakeSlot, Fail, CallerInv, ChunkInv
    <2>2. \/ /\ pc[r] \in {"check", "retry"} /\ pc'[r] \in {"budget", "inflight"}
             /\ attempt'[r] = attempt[r]
          \/ /\ pc[r] = "budget" /\ pc'[r] = "inflight"
             /\ attempt'[r] = attempt[r]
          \/ /\ pc[r] = "inflight" /\ pc'[r] = "retry"
             /\ attempt'[r] = attempt[r] + 1
        BY <1>2 DEF Check, TakeSlot, Fail, CallerInv, ChunkInv
    <2>3. StepsLeft(r)' < StepsLeft(r) /\ StepsLeft(r)' >= 0
        <3>1. /\ ChunkRetries \in Nat
              /\ attempt[r] \in Nat /\ attempt[r] <= ChunkRetries
              /\ attempt'[r] \in Nat /\ attempt'[r] <= ChunkRetries
            BY StepsType
        <3>2. CASE pc[r] \in {"check", "retry"} /\ pc'[r] \in {"budget", "inflight"}
                   /\ attempt'[r] = attempt[r]
            BY <3>1, <3>2 DEF StepsLeft
        <3>3. CASE pc[r] = "budget" /\ pc'[r] = "inflight"
                   /\ attempt'[r] = attempt[r]
            BY <3>1, <3>3 DEF StepsLeft
        <3>4. CASE pc[r] = "inflight" /\ pc'[r] = "retry"
                   /\ attempt'[r] = attempt[r] + 1
            <4>1. /\ StepsLeft(r) = 3 * (ChunkRetries - attempt[r]) + 1
                  /\ StepsLeft(r)' = 3 * (ChunkRetries - attempt'[r]) + 3
                BY <3>4 DEF StepsLeft
            <4>2. 3 * (ChunkRetries - attempt'[r]) + 3
                      < 3 * (ChunkRetries - attempt[r]) + 1
                BY <3>1, <3>4
            <4>3. 3 * (ChunkRetries - attempt'[r]) + 3 >= 0
                BY <3>1
            <4>4. QED BY <4>1, <4>2, <4>3
        <3>5. QED BY <2>2, <3>2, <3>3, <3>4
    <2>4. ASSUME NEW s \in ChunkTasks, s # r
          PROVE  StepsLeft(s)' = StepsLeft(s)
        BY <2>1, <2>4 DEF StepsLeft
    <2>5. \A s \in ChunkTasks : StepsLeft(s) \in Nat
        BY StepsType
    <2>6. StepsLeft(r)' \in Int
        <3>1. /\ ChunkRetries \in Nat /\ attempt'[r] \in Nat
            BY StepsType
        <3>2. QED BY <3>1 DEF StepsLeft
    <2>7. QED BY <2>3, <2>4, <2>5, <2>6
<1>3. QED BY <1>1, <1>2 DEF Resume

\* However the chunks of a request, other fetches, the health checker, the clock
\* and the operator interleave, each fetch_chunk takes at most 3 * chunk_retries
\* steps of its own: every step of its own brings it nearer to its end and, until
\* the next request begins, nobody sets it back.
THEOREM ChunksMakeProgress ==
    Spec => /\ [](\A r \in ChunkTasks : StepsLeft(r) \in 0 .. 3 * ChunkRetries)
            /\ [][\/ \E name \in PoolNames, chunks \in SUBSET ChunkTasks :
                        BeginRequest(chunks, name)
                  \/ \A r \in ChunkTasks : Advances(r)]_vars
<1>1. ASSUME CallerInv, NEW r \in ChunkTasks
      PROVE  StepsLeft(r) \in 0 .. 3 * ChunkRetries
    <2>1. ChunkRetries \in Nat /\ attempt[r] \in 1 .. ChunkRetries
        BY <1>1, FetchAssumption DEF CallerInv, ChunkInv
    <2>2. QED BY <2>1 DEF StepsLeft
<1>2. ASSUME CallerInv, CallerInv', AttemptInv, Next,
             ~ \E name \in PoolNames, chunks \in SUBSET ChunkTasks :
                   BeginRequest(chunks, name),
             NEW r \in ChunkTasks
      PROVE  Advances(r)
    <2>1. Chunk(r) => StepsLeft(r)' < StepsLeft(r)
        BY <1>2, FetchAdvances DEF Chunk
    <2>2. ASSUME NEW s \in ChunkTasks, Check(s) \/ Resume(s)
          PROVE  StepsLeft(r)' \in 0 .. StepsLeft(r)
        BY <1>2, <2>2, FetchAdvances
    <2>3. ASSUME NEW s \in ChunkTasks, Cancel(s)
          PROVE  StepsLeft(r)' \in 0 .. StepsLeft(r)
        <3>1. End(s) /\ pc[s] # "ended"
            BY <2>3 DEF Cancel, Waiting
        <3>2. QED BY <1>2, <3>1, EndAdvances
    <2>4. ASSUME UNCHANGED fetchVars
          PROVE  StepsLeft(r)' \in 0 .. StepsLeft(r)
        <3>1. UNCHANGED <<pc, attempt>>
            BY <2>4 DEF fetchVars
        <3>2. QED BY <1>2, <3>1, IdleAdvances
    <2>5. QED BY <1>2, <2>1, <2>2, <2>3, <2>4, ChunkSteps DEF Advances
<1>3. CallerInv /\ CallerInv' /\ AttemptInv /\ [Next]_vars =>
          [\/ \E name \in PoolNames, chunks \in SUBSET ChunkTasks :
                 BeginRequest(chunks, name)
           \/ \A r \in ChunkTasks : Advances(r)]_vars
    BY <1>2
<1>4. CallerInv => \A r \in ChunkTasks : StepsLeft(r) \in 0 .. 3 * ChunkRetries
    BY <1>1
<1>5. QED
    BY <1>3, <1>4, AttemptAlways, CallersAlwaysInv, CallerStepInv, PTL DEF Spec

\* The guards of the breaker check of a fetch through p of a pool: the breaker
\* lets it go, or refuses and pick_proxy has an answer.
CanCheck(p, name) ==
    \/ state[p] = "CLOSED"
    \/ p \in ExpiredOpen
    \/ /\ p \in Blocked \/ state[p] = "HALF_OPEN"
       /\ Pick(Available(name), {p}) # {}

\* Of fetch_chunk: at the check those, at the budget there is a slot or none.
CanFetch(r) ==
    \/ /\ pc[r] = "retry" \/ (pc[r] = "check" /\ LoopFree)
       /\ CanCheck(current[r], pool)
    \/ pc[r] = "budget" /\ LoopFree /\ (budget > 0 \/ budget = 0)
    \/ pc[r] = "inflight" /\ LoopFree

\* Of fetch_whole.
CanFetchWhole(f) ==
    \/ /\ whole[f].at = "retry" \/ (whole[f].at = "check" /\ LoopFree)
       /\ CanCheck(whole[f].proxy, whole[f].pool)
    \/ whole[f].at = "inflight" /\ LoopFree

\* Another fetch is between a failure and its next check, and can make it.
LoopBusy ==
    \/ \E s \in ChunkTasks : pc[s] = "retry" /\ CanFetch(s)
    \/ \E g \in WholeTasks : whole[g].at = "retry" /\ CanFetchWhole(g)

\* A fetch that has not ended can go on, now or as soon as the loop is free.
FetchNeverStuck ==
    /\ \A r \in ChunkTasks : pc[r] \in Active => CanFetch(r) \/ LoopBusy
    /\ \A f \in WholeTasks : whole[f].at # "ended" => CanFetchWhole(f) \/ LoopBusy

\* pick_proxy always has an answer, if only None.
LEMMA PickAnswers ==
    ASSUME RegistryInv, NEW p \in Proxies, NEW name
    PROVE  Pick(Available(name), {p}) # {}
<1> DEFINE A == Available(name)
<1>1. CASE A = {}
    BY <1>1 DEF Pick
<1>2. CASE A # {}
    <2>1. A \subseteq Proxies
        BY DEF Available, RegistryInv
    <2> HIDE DEF A
    <2>2. IsFiniteSet(A)
        BY <2>1, RegistryAssumption, FS_Subset
    <2>3. IsFiniteSet({p}) /\ Cardinality({p}) = 1
        BY FS_Singleton
    <2>4. ASSUME A \subseteq {p} PROVE Cardinality(A) <= 1
        BY <2>3, <2>4, FS_Subset
    <2>5. Cardinality(A) \in Nat
        BY <2>2, FS_CardinalityType
    <2>6. Cardinality(A) > Cardinality({p}) => A \ {p} # {}
        BY <2>3, <2>4, <2>5
    <2>7. QED BY <1>2, <2>6 DEF Pick, A
<1>3. QED BY <1>1, <1>2 DEF A

\* So the check can be made, whatever the breaker says.
LEMMA CheckPossible ==
    ASSUME RegistryInv, BreakerTypeOK, NEW p \in Proxies, NEW name
    PROVE  CanCheck(p, name)
<1>1. Pick(Available(name), {p}) # {}
    BY PickAnswers
<1>2. \/ state[p] = "CLOSED" \/ state[p] = "HALF_OPEN"
      \/ p \in Blocked \/ p \in ExpiredOpen
    BY DEF BreakerTypeOK, States, Blocked, ExpiredOpen
<1>3. QED BY <1>1, <1>2 DEF CanCheck

\* No fetch_chunk and no fetch_whole is ever left without a next step, whatever
\* the breaker says of its proxy, whatever was removed, and with the budget spent.
\* With ChunksMakeProgress: every chunk ends.
THEOREM FetchNeverStuckSafe == Spec => []FetchNeverStuck
<1>1. CallerInv /\ BreakerTypeOK => FetchNeverStuck
    <2> SUFFICES ASSUME CallerInv, BreakerTypeOK PROVE FetchNeverStuck
        OBVIOUS
    <2>1. ASSUME NEW s \in ChunkTasks,
                 pc[s] = "retry" \/ (pc[s] = "check" /\ LoopFree)
          PROVE  CanFetch(s)
        <3>1. current[s] \in Proxies
            BY <2>1 DEF CallerInv, ChunkInv
        <3>2. CanCheck(current[s], pool)
            BY <3>1, CheckPossible DEF CallerInv
        <3>3. QED BY <2>1, <3>2 DEF CanFetch
    <2>2. ASSUME NEW g \in WholeTasks,
                 whole[g].at = "retry" \/ (whole[g].at = "check" /\ LoopFree)
          PROVE  CanFetchWhole(g)
        <3>1. whole[g].proxy \in Proxies
            BY <2>2, WholeHasProxy DEF CallerInv
        <3>2. CanCheck(whole[g].proxy, whole[g].pool)
            BY <3>1, CheckPossible DEF CallerInv
        <3>3. QED BY <2>2, <3>2 DEF CanFetchWhole
    <2>3. CASE LoopFree
        <3>1. budget > 0 \/ budget = 0
            BY FetchAssumption DEF CallerInv, ChunkInv
        <3>2. ASSUME NEW r \in ChunkTasks, pc[r] \in Active PROVE CanFetch(r)
            BY <2>1, <2>3, <3>1, <3>2 DEF CanFetch, Active, Waiting
        <3>3. ASSUME NEW f \in WholeTasks, whole[f].at # "ended" PROVE CanFetchWhole(f)
            <4>1. whole[f].at \in {"check", "inflight", "retry"}
                BY <3>3, WholeHasProxy DEF CallerInv, WholeCalls
            <4>2. QED BY <2>2, <2>3, <4>1 DEF CanFetchWhole
        <3>4. QED BY <3>2, <3>3 DEF FetchNeverStuck
    <2>4. CASE ~ LoopFree
        <3>1. LoopBusy
            BY <2>1, <2>2, <2>4 DEF LoopFree, LoopBusy
        <3>2. QED BY <3>1 DEF FetchNeverStuck
    <2>5. QED BY <2>3, <2>4
<1>2. QED
    BY <1>1, CallersAlwaysInv, BreakerTypeAlways, PTL
==============================================================================
