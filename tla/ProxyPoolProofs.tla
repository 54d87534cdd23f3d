-------------------------- MODULE ProxyPoolProofs --------------------------
(***************************************************************************)
(* The properties of ProxyPool, for any number of Tor instances, proxies,  *)
(* fetches and refreshes.  The invariant has a part for each of the three  *)
(* parts of the state: launching, the session pool with its users, and the *)
(* circuits, where a renewed circuit is never newer than the current one.  *)
(***************************************************************************)
EXTENDS ProxyPool, SequenceTheorems, TLAPS

Mains == {"launch", "wait", "ready", "serving", "failed", "stopped"}

\* The start is at an instance; what it has been told is in its two sets; and
\* a process that runs is listed or is the one being started.
LaunchInv ==
    /\ main \in Mains
    /\ next \in Nat
    /\ main \in {"launch", "wait"} => next \in Ids
    /\ proc \in [Ids -> {"none", "running", "ended"}]
    /\ event \subseteq error \cup booted
    /\ listed \subseteq booted /\ booted \subseteq Ids
    /\ \A i \in Ids : proc[i] = "running" => i \in listed \/ (main = "wait" /\ i = next)
    /\ main = "stopped" => \A i \in Ids : proc[i] # "running"

Session == [url : Urls, open : BOOLEAN, circuit : Nat]

\* The session of a URL, and that of a fetch, are sessions that were made; the
\* first was made for that URL.
SessionInv ==
    /\ sessions \in Seq(Session)
    /\ pooled \in [Urls -> 0 .. Len(sessions)]
    /\ session \in [Fetches -> 0 .. Len(sessions)]
    /\ url \in [Fetches -> Urls \cup {Nothing}]
    /\ pool \subseteq Urls
    /\ reload # Nothing => reload.static \subseteq Urls /\ reload.tor \subseteq Urls
    /\ \A u \in Urls : pooled[u] # 0 => sessions[pooled[u]].url = u

CircuitInv ==
    /\ circuit \in [Ids -> Nat]
    /\ step \in [Refreshers -> {"idle", "asking", "dropping"}]
    /\ answer \in [Refreshers -> [Ids -> {"none", "asked", "ok", "failed"}]]
    /\ todo \in [Refreshers -> SUBSET Ids]
    /\ renewed \in [Refreshers -> [Ids -> Nat]]
    /\ \A r \in Refreshers, i \in Ids : renewed[r][i] <= circuit[i]
    /\ FreshCircuitAfterRefresh

PoolInv == LaunchInv /\ SessionInv /\ CircuitInv

\* What the assumptions say of the URLs of the instances.
LEMMA TorFacts ==
    /\ Instances \in Nat
    /\ \A i \in Ids : TorUrl[i] \in Urls
    /\ \A i, j \in Ids : TorUrl[i] = TorUrl[j] => i = j
    /\ Nothing \notin Urls
    /\ \A i \in Ids : TorUrl[i] \notin Static
    /\ Static \subseteq Urls
BY TorAssumption, PoolAssumption DEF Ids, Static

\* The invariant holds at the start.
LEMMA PoolInitInv == Init => PoolInv
<1> SUFFICES ASSUME Init PROVE PoolInv
    OBVIOUS
<1> USE DEF Init, TorInit, PoolInit
<1>1. LaunchInv
    <2>1. main \in {"launch", "wait"} => next \in Ids
        BY TorFacts DEF Ids
    <2>2. QED
        BY <2>1 DEF LaunchInv, Mains
<1>2. SessionInv
    <2>1. sessions = <<>> /\ Len(sessions) = 0
        OBVIOUS
    <2>2. QED
        BY <2>1 DEF SessionInv
<1>3. CircuitInv
    <2>1. \A r \in Refreshers, i \in Ids : renewed[r][i] = 0 /\ circuit[i] = 0 /\ answer[r][i] = "none"
        OBVIOUS
    <2>2. FreshCircuitAfterRefresh
        BY <2>1 DEF FreshCircuitAfterRefresh
    <2>3. QED
        BY <2>1, <2>2 DEF CircuitInv
<1>4. QED
    BY <1>1, <1>2, <1>3 DEF PoolInv

-----------------------------------------------------------------------------
(* Launching.                                                              *)

\* The steps of the start, the reader threads and the processes.
LEMMA LaunchingKeeps ==
    ASSUME PoolInv, Launching \/ \E i \in Ids : TorProcess(i)
    PROVE  LaunchInv' /\ UNCHANGED refresh_vars
<1> USE DEF PoolInv, LaunchInv, Mains
<1>1. CASE Launch
    BY <1>1 DEF Launch, refresh_vars
<1>2. CASE Started
    <2>1. next \in Ids /\ next \in booted
        BY <1>2 DEF Started
    <2>2. main' \in {"launch", "wait"} => next' \in Ids
        BY <1>2, <2>1, TorFacts DEF Started, Ids
    <2>3. next' \in Nat /\ main' \in {"launch", "ready"}
        BY <1>2 DEF Started
    <2>4. listed' = listed \cup {next} /\ UNCHANGED <<proc, event, error, booted, refresh_vars>>
        BY <1>2 DEF Started
    <2>5. QED
        BY <1>2, <2>1, <2>2, <2>3, <2>4
<1>3. CASE StartFails
    BY <1>3 DEF StartFails, refresh_vars
<1>4. ASSUME NEW i \in Ids, TorProcess(i)
      PROVE  LaunchInv' /\ UNCHANGED refresh_vars
    <2>1. CASE ReadError(i)
        BY <2>1 DEF ReadError, Heeded
    <2>2. CASE AnnounceError(i)
        BY <2>2 DEF AnnounceError, Heeded
    <2>3. CASE ReadBootstrapped(i)
        BY <2>3 DEF ReadBootstrapped, Heeded
    <2>4. CASE ProcessEnds(i)
        BY <2>4 DEF ProcessEnds
    <2>5. QED
        BY <1>4, <2>1, <2>2, <2>3, <2>4 DEF TorProcess
<1>5. QED
    BY <1>1, <1>2, <1>3, <1>4 DEF Launching

-----------------------------------------------------------------------------
(* The session pool.                                                       *)

\* get() hands out a session of the URL; no other is touched.
LEMMA GetKeeps ==
    ASSUME SessionInv, NEW u \in Urls, NEW c \in Nat, Get(u, c)
    PROVE  /\ sessions' \in Seq(Session) /\ Len(sessions') >= Len(sessions)
           /\ pooled' \in [Urls -> 0 .. Len(sessions')]
           /\ pooled'[u] \in 1 .. Len(sessions')
           /\ \A n \in 1 .. Len(sessions) : sessions'[n] = sessions[n]
           /\ \A v \in Urls : pooled'[v] # 0 => sessions'[pooled'[v]].url = v
           /\ \A v \in Urls : \/ pooled'[v] = pooled[v]
                              \/ v = u /\ sessions'[pooled'[v]].circuit = c
<1>1. CASE Usable(u)
    BY <1>1 DEF Get, Usable, pool_vars, SessionInv
<1>2. CASE ~ Usable(u)
    <2> DEFINE s == [url |-> u, open |-> TRUE, circuit |-> c]
    <2>1. sessions' = Append(sessions, s) /\ pooled' = [pooled EXCEPT ![u] = Len(sessions) + 1]
        BY <1>2 DEF Get
    <2>2. s \in Session
        BY DEF Session
    <2>3. /\ sessions' \in Seq(Session) /\ Len(sessions') = Len(sessions) + 1
          /\ sessions'[Len(sessions) + 1] = s
          /\ \A n \in 1 .. Len(sessions) : sessions'[n] = sessions[n]
        BY <2>1, <2>2 DEF SessionInv
    <2>4. pooled \in [Urls -> 0 .. Len(sessions)] /\ Len(sessions) \in Nat
        BY DEF SessionInv
    <2>5. pooled' \in [Urls -> 0 .. Len(sessions')] /\ pooled'[u] = Len(sessions) + 1
        BY <2>1, <2>3, <2>4
    <2>6. \A v \in Urls : v # u => pooled'[v] = pooled[v]
        BY <2>1, <2>4
    <2>7. s.url = u /\ s.circuit = c
        OBVIOUS
    <2>8. ASSUME NEW v \in Urls, pooled'[v] # 0 PROVE sessions'[pooled'[v]].url = v
        <3>1. CASE v = u
            BY <3>1, <2>3, <2>5, <2>7
        <3>2. CASE v # u
            BY <3>2, <2>3, <2>4, <2>6, <2>8 DEF SessionInv
        <3>3. QED
            BY <3>1, <3>2
    <2>9. QED
        BY <2>3, <2>4, <2>5, <2>6, <2>7, <2>8
<1>3. QED
    BY <1>1, <1>2

\* invalidate() and invalidate_sync() empty the URL's place; of a session only
\* `open` may change, and only of the one that was in that place.
LEMMA InvalidateKeeps ==
    ASSUME SessionInv, NEW u \in Urls, Invalidate(u) \/ InvalidateSync(u)
    PROVE  /\ sessions' \in Seq(Session) /\ Len(sessions') = Len(sessions)
           /\ pooled' \in [Urls -> 0 .. Len(sessions')]
           /\ pooled'[u] = 0
           /\ \A v \in Urls : v # u => pooled'[v] = pooled[v]
           /\ \A n \in 1 .. Len(sessions) :
                 /\ sessions'[n].url = sessions[n].url
                 /\ sessions'[n].circuit = sessions[n].circuit
                 /\ sessions'[n] # sessions[n] => sessions[n].url = u
           /\ \A v \in Urls : pooled'[v] # 0 => sessions'[pooled'[v]].url = v
<1>1. /\ pooled' = [pooled EXCEPT ![u] = 0]
      /\ \/ sessions' = sessions
         \/ pooled[u] # 0 /\ sessions' = [sessions EXCEPT ![pooled[u]].open = FALSE]
    BY DEF Invalidate, InvalidateSync, Usable
<1>2. /\ sessions \in Seq(Session) /\ pooled \in [Urls -> 0 .. Len(sessions)]
      /\ pooled[u] # 0 => sessions[pooled[u]].url = u
      /\ \A v \in Urls : pooled[v] # 0 => sessions[pooled[v]].url = v
    BY DEF SessionInv
<1>3. /\ sessions' \in Seq(Session) /\ Len(sessions') = Len(sessions)
      /\ \A n \in 1 .. Len(sessions) :
            /\ sessions'[n].url = sessions[n].url
            /\ sessions'[n].circuit = sessions[n].circuit
            /\ sessions'[n] # sessions[n] => sessions[n].url = u
    <2>1. CASE sessions' = sessions
        BY <1>2, <2>1
    <2>2. CASE pooled[u] # 0 /\ sessions' = [sessions EXCEPT ![pooled[u]].open = FALSE]
        <3>1. pooled[u] \in 1 .. Len(sessions)
            BY <1>2, <2>2
        <3> DEFINE closed == [sessions[pooled[u]] EXCEPT !.open = FALSE]
        <3>2. sessions[pooled[u]] \in Session
            BY <1>2, <3>1
        <3>3. /\ closed \in Session /\ closed.url = sessions[pooled[u]].url
              /\ closed.circuit = sessions[pooled[u]].circuit
            BY <3>2 DEF Session
        <3>4. sessions' = [sessions EXCEPT ![pooled[u]] = closed]
            BY <2>2
        <3> HIDE DEF closed
        <3>5. /\ sessions' \in Seq(Session) /\ Len(sessions') = Len(sessions)
              /\ \A n \in 1 .. Len(sessions) :
                    sessions'[n] = IF n = pooled[u] THEN closed ELSE sessions[n]
            BY <1>2, <3>1, <3>3, <3>4, ExceptSeq
        <3>6. QED
            BY <1>2, <2>2, <3>3, <3>5
    <2>3. QED
        BY <1>1, <2>1, <2>2
<1>4. /\ pooled' \in [Urls -> 0 .. Len(sessions')] /\ pooled'[u] = 0
      /\ \A v \in Urls : v # u => pooled'[v] = pooled[v]
    BY <1>1, <1>2, <1>3
<1>5. ASSUME NEW v \in Urls, pooled'[v] # 0 PROVE sessions'[pooled'[v]].url = v
    BY <1>2, <1>3, <1>4, <1>5
<1>6. QED
    BY <1>3, <1>4, <1>5
-----------------------------------------------------------------------------
(* The circuits.                                                           *)

\* While circuits stay, what the pool does leaves them respected if each place
\* in it is as before, empty, or taken by a session on the current circuit.
LEMMA PoolKeepsCircuits ==
    ASSUME PoolInv, UNCHANGED refresh_vars,
           \A i \in Ids :
              \/ pooled'[TorUrl[i]] = 0
              \/ /\ pooled'[TorUrl[i]] = pooled[TorUrl[i]]
                 /\ pooled[TorUrl[i]] # 0 =>
                       sessions'[pooled[TorUrl[i]]].circuit = sessions[pooled[TorUrl[i]]].circuit
              \/ sessions'[pooled'[TorUrl[i]]].circuit = circuit[i]
    PROVE  CircuitInv'
<1>1. FreshCircuitAfterRefresh'
    <2>1. SUFFICES ASSUME NEW r \in Refreshers, NEW i \in Ids, answer[r][i] = "ok",
                          step[r] = "idle" \/ (step[r] = "dropping" /\ i \notin todo[r]),
                          pooled'[TorUrl[i]] # 0
                   PROVE  sessions'[pooled'[TorUrl[i]]].circuit >= renewed[r][i]
        BY DEF FreshCircuitAfterRefresh, refresh_vars
    <2>2. CASE sessions'[pooled'[TorUrl[i]]].circuit = circuit[i]
        BY <2>2 DEF PoolInv, CircuitInv
    <2>3. CASE /\ pooled'[TorUrl[i]] = pooled[TorUrl[i]]
               /\ sessions'[pooled[TorUrl[i]]].circuit = sessions[pooled[TorUrl[i]]].circuit
        BY <2>1, <2>3 DEF PoolInv, CircuitInv, FreshCircuitAfterRefresh
    <2>4. QED
        BY <2>1, <2>2, <2>3
<1>2. QED
    BY <1>1 DEF PoolInv, CircuitInv, refresh_vars

\* Emptying a place leaves the circuits respected.
LEMMA InvalidateKeepsCircuits ==
    ASSUME PoolInv, UNCHANGED refresh_vars, NEW u \in Urls,
           Invalidate(u) \/ InvalidateSync(u)
    PROVE  CircuitInv'
<1>1. SessionInv
    BY DEF PoolInv
<1>2. /\ pooled'[u] = 0
      /\ \A v \in Urls : v # u => pooled'[v] = pooled[v]
      /\ \A n \in 1 .. Len(sessions) : sessions'[n].circuit = sessions[n].circuit
    BY <1>1, InvalidateKeeps
<1>3. \A v \in Urls : pooled[v] # 0 => pooled[v] \in 1 .. Len(sessions)
    BY <1>1 DEF SessionInv
<1>4. QED
    BY <1>2, <1>3, TorFacts, PoolKeepsCircuits

\* One step of a refresh.
LEMMA RefreshKeeps ==
    ASSUME PoolInv, NEW r \in Refreshers, Refresh(r), UNCHANGED <<registry_vars, fetch_vars>>
    PROVE  PoolInv'
<1> USE DEF PoolInv
<1>1. CASE RefreshStart(r)
    <2>1. LaunchInv' /\ SessionInv'
        BY <1>1 DEF RefreshStart, launch_vars, pool_vars, registry_vars, fetch_vars,
                    LaunchInv, SessionInv
    <2>2. FreshCircuitAfterRefresh'
        BY <1>1 DEF RefreshStart, pool_vars, CircuitInv, FreshCircuitAfterRefresh
    <2>3. CircuitInv'
        BY <1>1, <2>2 DEF RefreshStart, CircuitInv
    <2>4. QED
        BY <2>1, <2>3
<1>2. ASSUME NEW i \in Ids, Newnym(r, i) PROVE PoolInv'
    <2>1. LaunchInv' /\ SessionInv'
        BY <1>2 DEF Newnym, launch_vars, pool_vars, registry_vars, fetch_vars,
                    LaunchInv, SessionInv
    <2>2. PICK result \in {"ok", "failed"}, signalled \in BOOLEAN :
             /\ result = "ok" => signalled
             /\ answer' = [answer EXCEPT ![r][i] = result]
             /\ circuit' = [circuit EXCEPT ![i] = IF signalled THEN @ + 1 ELSE @]
             /\ renewed' = [renewed EXCEPT ![r][i] = IF result = "ok" THEN circuit[i] + 1 ELSE 0]
        BY <1>2 DEF Newnym
    <2>3. step[r] = "asking" /\ UNCHANGED <<step, todo, pool_vars>>
        BY <1>2 DEF Newnym
    <2>4. /\ circuit' \in [Ids -> Nat]
          /\ answer' \in [Refreshers -> [Ids -> {"none", "asked", "ok", "failed"}]]
          /\ renewed' \in [Refreshers -> [Ids -> Nat]]
        BY <2>2 DEF CircuitInv
    <2>5. \A q \in Refreshers, j \in Ids : renewed'[q][j] <= circuit'[j]
        BY <2>2 DEF CircuitInv
    <2>6. \A q \in Refreshers : q # r => answer'[q] = answer[q] /\ renewed'[q] = renewed[q]
        BY <2>2 DEF CircuitInv
    <2>7. FreshCircuitAfterRefresh'
        BY <2>3, <2>6 DEF CircuitInv, FreshCircuitAfterRefresh, pool_vars
    <2>8. QED
        BY <2>1, <2>3, <2>4, <2>5, <2>7 DEF CircuitInv
<1>3. CASE Gathered(r)
    <2>1. LaunchInv' /\ SessionInv'
        BY <1>3 DEF Gathered, launch_vars, pool_vars, registry_vars, fetch_vars,
                    LaunchInv, SessionInv
    <2>2. FreshCircuitAfterRefresh'
        BY <1>3 DEF Gathered, pool_vars, CircuitInv, FreshCircuitAfterRefresh
    <2>3. CircuitInv'
        BY <1>3, <2>2 DEF Gathered, CircuitInv
    <2>4. QED
        BY <2>1, <2>3
<1>4. CASE DropSession(r)
    <2>1. PICK i \in Ids : /\ Dropping(r, i) /\ Invalidate(TorUrl[i])
                          /\ todo' = [todo EXCEPT ![r] = @ \ {i}]
        BY <1>4 DEF DropSession
    <2>2. UNCHANGED <<circuit, step, answer, renewed, launch_vars>>
        BY <1>4 DEF DropSession
    <2>3. LaunchInv'
        BY <2>2 DEF launch_vars, LaunchInv
    <2>4. TorUrl[i] \in Urls
        BY TorFacts
    <2>5. /\ sessions' \in Seq(Session) /\ Len(sessions') = Len(sessions)
          /\ pooled' \in [Urls -> 0 .. Len(sessions')]
          /\ pooled'[TorUrl[i]] = 0
          /\ \A v \in Urls : v # TorUrl[i] => pooled'[v] = pooled[v]
          /\ \A n \in 1 .. Len(sessions) : sessions'[n].circuit = sessions[n].circuit
          /\ \A v \in Urls : pooled'[v] # 0 => sessions'[pooled'[v]].url = v
        BY <2>1, <2>4, InvalidateKeeps
    <2>6. SessionInv'
        BY <2>5 DEF SessionInv, registry_vars, fetch_vars
    <2>7. todo' \in [Refreshers -> SUBSET Ids]
        BY <2>1 DEF CircuitInv
    <2>8. FreshCircuitAfterRefresh'
        <3>1. SUFFICES ASSUME NEW q \in Refreshers, NEW j \in Ids, answer[q][j] = "ok",
                              step[q] = "idle" \/ (step[q] = "dropping" /\ j \notin todo'[q]),
                              pooled'[TorUrl[j]] # 0
                       PROVE  sessions'[pooled'[TorUrl[j]]].circuit >= renewed[q][j]
            BY <2>2 DEF FreshCircuitAfterRefresh
        <3>2. TorUrl[j] \in Urls /\ TorUrl[j] # TorUrl[i] /\ j # i
            BY <2>5, <3>1, TorFacts
        <3>3. pooled'[TorUrl[j]] = pooled[TorUrl[j]] /\ pooled[TorUrl[j]] \in 1 .. Len(sessions)
            BY <2>5, <3>1, <3>2 DEF SessionInv
        <3>4. step[q] = "idle" \/ (step[q] = "dropping" /\ j \notin todo[q])
            BY <2>1, <3>1, <3>2 DEF CircuitInv
        <3>5. sessions[pooled[TorUrl[j]]].circuit >= renewed[q][j]
            BY <3>1, <3>3, <3>4 DEF CircuitInv, FreshCircuitAfterRefresh
        <3>6. QED
            BY <2>5, <3>3, <3>5
    <2>9. QED
        BY <2>2, <2>3, <2>6, <2>7, <2>8 DEF CircuitInv
<1>5. CASE RefreshReturns(r)
    <2>1. LaunchInv' /\ SessionInv'
        BY <1>5 DEF RefreshReturns, launch_vars, pool_vars, registry_vars, fetch_vars,
                    LaunchInv, SessionInv
    <2>2. FreshCircuitAfterRefresh'
        BY <1>5 DEF RefreshReturns, pool_vars, CircuitInv, FreshCircuitAfterRefresh
    <2>3. CircuitInv'
        BY <1>5, <2>2 DEF RefreshReturns, CircuitInv
    <2>4. QED
        BY <2>1, <2>3
<1>6. QED
    BY <1>1, <1>2, <1>3, <1>4, <1>5 DEF Refresh
-----------------------------------------------------------------------------
(* The server, its registry and its fetches.                               *)

\* The start of the service and its end.
LEMMA ServerKeeps == ASSUME PoolInv, Serve \/ Shutdown PROVE PoolInv'
<1> USE DEF PoolInv
<1>1. CASE Serve
    <2>1. TorUrls \subseteq Urls
        BY TorFacts DEF LaunchInv, TorUrls, Alive
    <2>2. /\ main = "ready" /\ main' \in {"failed", "serving"}
          /\ pool' \subseteq Urls
          /\ UNCHANGED <<next, proc, reader, event, error, booted, listed, refresh_vars,
                         pool_vars, reload, fetch_vars>>
        BY <1>1, <2>1, TorFacts DEF Serve, SessionInv
    <2>3. LaunchInv'
        BY <2>2 DEF LaunchInv, Mains
    <2>4. SessionInv'
        BY <2>2 DEF SessionInv, pool_vars, fetch_vars
    <2>5. CircuitInv'
        BY <2>2, PoolKeepsCircuits DEF pool_vars
    <2>6. QED
        BY <2>3, <2>4, <2>5
<1>2. CASE Shutdown
    <2>1. main = "serving" /\ StopAll
        BY <1>2 DEF Shutdown
    <2>2. /\ proc' = [i \in Ids |-> IF i \in listed THEN "ended" ELSE proc[i]]
          /\ main' = "stopped" /\ next' = 1
          /\ event' = {} /\ error' = {} /\ booted' = {} /\ listed' = {}
        BY <2>1 DEF StopAll
    <2>3. \A i \in Ids : proc'[i] # "running"
        BY <2>1, <2>2 DEF LaunchInv
    <2>4. LaunchInv'
        BY <2>2, <2>3 DEF LaunchInv, Mains
    <2>5. SessionInv'
        <3>1. /\ sessions' = <<>> /\ pooled' = [u \in Urls |-> 0] /\ pool' = {}
              /\ reload' = Nothing /\ url' = [f \in Fetches |-> Nothing]
              /\ session' = [f \in Fetches |-> 0]
            BY <1>2 DEF Shutdown
        <3>2. sessions' \in Seq(Session) /\ Len(sessions') = 0
            BY <3>1
        <3>3. QED
            BY <3>1, <3>2 DEF SessionInv
    <2>6. CircuitInv'
        <3>1. /\ circuit' = [i \in Ids |-> 0]
              /\ step' = [r \in Refreshers |-> "idle"]
              /\ answer' = [r \in Refreshers |-> [i \in Ids |-> "none"]]
              /\ todo' = [r \in Refreshers |-> {}]
              /\ renewed' = [r \in Refreshers |-> [i \in Ids |-> 0]]
            BY <2>1 DEF StopAll
        <3>2. FreshCircuitAfterRefresh'
            BY <3>1 DEF FreshCircuitAfterRefresh
        <3>3. QED
            BY <3>1, <3>2 DEF CircuitInv
    <2>7. QED
        BY <2>4, <2>5, <2>6
<1>3. QED
    BY <1>1, <1>2

\* The administrative requests.
LEMMA RegistryKeeps == ASSUME PoolInv, Registry PROVE PoolInv'
<1> USE DEF PoolInv
<1>1. ASSUME UNCHANGED <<tor_vars, pool_vars, fetch_vars>>, pool' \subseteq Urls,
             reload' # Nothing => reload'.static \subseteq Urls /\ reload'.tor \subseteq Urls
      PROVE  PoolInv'
    <2>1. LaunchInv' /\ SessionInv'
        BY <1>1 DEF tor_vars, launch_vars, pool_vars, fetch_vars, LaunchInv, SessionInv
    <2>2. CircuitInv'
        BY <1>1, PoolKeepsCircuits DEF tor_vars, pool_vars
    <2>3. QED
        BY <2>1, <2>2
<1>2. CASE ReloadBegin
    <2>1. TorUrls \subseteq Urls
        BY TorFacts DEF LaunchInv, TorUrls, Alive
    <2>2. PICK static \in SUBSET Static : reload' = [static |-> static, tor |-> TorUrls]
        BY <1>2 DEF ReloadBegin
    <2>3. reload'.static \subseteq Urls /\ reload'.tor \subseteq Urls
        BY <2>1, <2>2, TorFacts
    <2>4. QED
        BY <1>1, <1>2, <2>3 DEF ReloadBegin, SessionInv
<1>3. CASE ReloadEnd
    BY <1>1, <1>3 DEF ReloadEnd, SessionInv
<1>4. ASSUME NEW u \in Urls, Add(u) PROVE PoolInv'
    BY <1>1, <1>4 DEF Add, SessionInv
<1>5. ASSUME NEW u \in Urls, Remove(u) PROVE PoolInv'
    <2>1. /\ Invalidate(u) /\ pool' = pool \ {u}
          /\ UNCHANGED <<reload, fetch_vars, tor_vars>>
        BY <1>5 DEF Remove
    <2>2. LaunchInv'
        BY <2>1 DEF tor_vars, launch_vars, LaunchInv
    <2>3. SessionInv'
        BY <2>1, InvalidateKeeps DEF SessionInv, fetch_vars
    <2>4. CircuitInv'
        BY <2>1, InvalidateKeepsCircuits DEF tor_vars
    <2>5. QED
        BY <2>2, <2>3, <2>4
<1>6. QED
    BY <1>2, <1>3, <1>4, <1>5 DEF Registry

\* A new connection is on the current circuit of its instance.
LEMMA CurrentCircuit ==
    ASSUME CircuitInv, NEW u \in Urls
    PROVE  /\ CircuitOf(u) \in Nat
           /\ \A i \in Ids : TorUrl[i] = u => CircuitOf(u) = circuit[i]
<1>1. CASE u \in Static
    BY <1>1, TorFacts DEF CircuitOf
<1>2. CASE u \notin Static
    <2>1. PICK i \in Ids : TorUrl[i] = u
        BY <1>2 DEF Static
    <2>2. (CHOOSE j \in Ids : TorUrl[j] = u) = i
        BY <2>1, TorFacts
    <2>3. QED
        BY <1>2, <2>1, <2>2, TorFacts DEF CircuitOf, CircuitInv
<1>3. QED
    BY <1>1, <1>2

\* One step of a fetch.
LEMMA FetchKeeps ==
    ASSUME PoolInv, NEW f \in Fetches, Pick(f) \/ Use(f) \/ AttemptEnds(f)
    PROVE  PoolInv'
<1> USE DEF PoolInv
<1>1. LaunchInv'
    BY DEF Pick, Use, AttemptEnds, tor_vars, launch_vars, LaunchInv
<1>2. CASE Pick(f)
    <2>1. SessionInv'
        BY <1>2 DEF Pick, pool_vars, registry_vars, SessionInv
    <2>2. CircuitInv'
        BY <1>2, PoolKeepsCircuits DEF Pick, tor_vars, pool_vars
    <2>3. QED
        BY <1>1, <2>1, <2>2
<1>3. CASE Use(f)
    <2>1. url[f] \in Urls /\ Get(url[f], CircuitOf(url[f]))
        BY <1>3 DEF Use, SessionInv
    <2>2. UNCHANGED <<url, tor_vars, registry_vars>>
        BY <1>3 DEF Use
    <2>3. session' = [session EXCEPT ![f] = pooled'[url[f]]]
        BY <1>3 DEF Use
    <2>4. /\ CircuitOf(url[f]) \in Nat
          /\ \A i \in Ids : TorUrl[i] = url[f] => CircuitOf(url[f]) = circuit[i]
        BY <2>1, CurrentCircuit
    <2>5. /\ sessions' \in Seq(Session) /\ Len(sessions') >= Len(sessions)
          /\ pooled' \in [Urls -> 0 .. Len(sessions')]
          /\ pooled'[url[f]] \in 1 .. Len(sessions')
          /\ \A n \in 1 .. Len(sessions) : sessions'[n] = sessions[n]
          /\ \A v \in Urls : pooled'[v] # 0 => sessions'[pooled'[v]].url = v
          /\ \A v \in Urls : \/ pooled'[v] = pooled[v]
                             \/ v = url[f] /\ sessions'[pooled'[v]].circuit = CircuitOf(url[f])
        BY <2>1, <2>4, GetKeeps
    <2>6. session' \in [Fetches -> 0 .. Len(sessions')]
        BY <2>3, <2>5 DEF SessionInv
    <2>7. SessionInv'
        BY <2>2, <2>5, <2>6 DEF SessionInv, registry_vars
    <2>8. ASSUME NEW i \in Ids, pooled'[TorUrl[i]] = pooled[TorUrl[i]], pooled[TorUrl[i]] # 0
          PROVE  sessions'[pooled[TorUrl[i]]].circuit = sessions[pooled[TorUrl[i]]].circuit
        BY <2>5, <2>8, TorFacts DEF SessionInv
    <2>9. \A i \in Ids : \/ pooled'[TorUrl[i]] = pooled[TorUrl[i]]
                        \/ sessions'[pooled'[TorUrl[i]]].circuit = circuit[i]
        BY <2>4, <2>5, TorFacts
    <2>10. UNCHANGED refresh_vars
        BY <2>2 DEF tor_vars
    <2>11. CircuitInv'
        BY <2>8, <2>9, <2>10, PoolKeepsCircuits
    <2>12. QED
        BY <1>1, <2>7, <2>11
<1>4. CASE AttemptEnds(f)
    <2>1. /\ url' = [url EXCEPT ![f] = Nothing] /\ session' = [session EXCEPT ![f] = 0]
          /\ UNCHANGED <<tor_vars, registry_vars>>
        BY <1>4 DEF AttemptEnds
    <2>2. CASE UNCHANGED pool_vars
        <3>1. SessionInv'
            BY <2>1, <2>2 DEF SessionInv, pool_vars, registry_vars
        <3>2. CircuitInv'
            BY <2>1, <2>2, PoolKeepsCircuits DEF tor_vars, pool_vars
        <3>3. QED
            BY <1>1, <3>1, <3>2
    <2>3. CASE url[f] \in Urls /\ InvalidateSync(url[f])
        <3>1. SessionInv'
            BY <2>1, <2>3, InvalidateKeeps DEF SessionInv, registry_vars
        <3>2. CircuitInv'
            BY <2>1, <2>3, InvalidateKeepsCircuits DEF tor_vars
        <3>3. QED
            BY <1>1, <3>1, <3>2
    <2>4. CASE url[f] = Nothing /\ InvalidateSync(url[f])
        <3>1. UNCHANGED pool_vars
            BY <2>4, TorFacts DEF InvalidateSync, SessionInv, pool_vars
        <3>2. QED
            BY <2>2, <3>1
    <2>5. QED
        BY <1>4, <2>2, <2>3, <2>4 DEF AttemptEnds, SessionInv
<1>5. QED
    BY <1>2, <1>3, <1>4

\* The bounds of a behaviour do not change, and name fetches and refreshes.
BoundInv == bound \in Bounds

\* Every step keeps the invariant.
LEMMA StepKeeps == ASSUME BoundInv, PoolInv, [Next]_vars PROVE PoolInv'
<1> DEFINE Own == bound.fetches \subseteq Fetches /\ bound.refreshers \subseteq Refreshers
<1>0. Own
    BY PoolAssumption DEF BoundInv
<1>1. CASE UNCHANGED vars
    <2>1. LaunchInv' /\ SessionInv'
        BY <1>1 DEF vars, tor_vars, launch_vars, pool_vars, registry_vars, fetch_vars,
                    PoolInv, LaunchInv, SessionInv
    <2>2. CircuitInv'
        BY <1>1, PoolKeepsCircuits DEF vars, tor_vars, pool_vars
    <2>3. QED
        BY <2>1, <2>2 DEF PoolInv
<1>2. CASE /\ Launching \/ \E i \in Ids : TorProcess(i)
           /\ UNCHANGED <<pool_vars, registry_vars, fetch_vars>>
    <2>1. LaunchInv' /\ UNCHANGED refresh_vars
        BY <1>2, LaunchingKeeps
    <2>2. SessionInv'
        BY <1>2 DEF pool_vars, registry_vars, fetch_vars, PoolInv, SessionInv
    <2>3. CircuitInv'
        BY <1>2, <2>1, PoolKeepsCircuits DEF pool_vars
    <2>4. QED
        BY <2>1, <2>2, <2>3 DEF PoolInv
<1>3. CASE Serve \/ Shutdown
    BY <1>3, ServerKeeps
<1>4. CASE Registry
    BY <1>4, RegistryKeeps
<1>5. ASSUME NEW f \in bound.fetches,
             Pick(f) \/ Use(f) \/ AttemptEnds(f)
      PROVE  PoolInv'
    BY <1>0, <1>5, FetchKeeps
<1>6. ASSUME NEW r \in bound.refreshers, Refresh(r), UNCHANGED <<registry_vars, fetch_vars>>
      PROVE  PoolInv'
    BY <1>0, <1>6, RefreshKeeps
<1>7. QED
    BY <1>1, <1>2, <1>3, <1>4, <1>5, <1>6 DEF Next, Step

\* The invariant holds throughout.
THEOREM PoolAlways == Spec => [](BoundInv /\ PoolInv)
<1>1. Init => BoundInv /\ PoolInv
    BY PoolInitInv DEF Init, BoundInv
<1>2. BoundInv /\ PoolInv /\ [Next]_vars => (BoundInv /\ PoolInv)'
    <2>1. BoundInv /\ [Next]_vars => BoundInv'
        BY DEF BoundInv, Next, vars
    <2>2. QED
        BY <2>1, StepKeeps
<1>3. QED
    BY <1>1, <1>2, PTL DEF Spec

-----------------------------------------------------------------------------
(* The properties.                                                         *)

\* An instance is put to use only when its process has announced that it is
\* bootstrapped, wherever its output falls (tor_manager.py:77-102).
THEOREM StartedIsBootstrappedSafe == Spec => []StartedIsBootstrapped
<1>1. PoolInv => StartedIsBootstrapped
    BY DEF PoolInv, LaunchInv, StartedIsBootstrapped
<1>2. QED
    BY <1>1, PoolAlways, PTL

\* No Tor process runs that the manager does not know, and none after the
\* service has ended (tor_manager.py:81-86, 167-185).
THEOREM NoStrayTorSafe == Spec => []NoStrayTor
<1>1. PoolInv => NoStrayTor
    BY DEF PoolInv, LaunchInv, NoStrayTor
<1>2. QED
    BY <1>1, PoolAlways, PTL

\* Once a refresh has passed an instance, no session on an earlier circuit is
\* handed out for it (tor_manager.py:191-200).
THEOREM FreshCircuitAfterRefreshSafe == Spec => []FreshCircuitAfterRefresh
<1>1. PoolInv => FreshCircuitAfterRefresh
    BY DEF PoolInv, CircuitInv
<1>2. QED
    BY <1>1, PoolAlways, PTL

\* The sessions that fetches use are closed only by /proxy/remove and by the
\* renewal of their circuits (session_pool.py:154-190).
THEOREM ClosedOnlyOnPurposeSafe == Spec => ClosedOnlyOnPurpose
<1> DEFINE Purposeful(f) ==
        session[f] # 0 /\ sessions[session[f]].open /\ ~ sessions'[session[f]].open
        => LET u == sessions[session[f]].url
           IN  \/ u \in pool \ pool'
               \/ \E r \in Refreshers, i \in Ids : TorUrl[i] = u /\ Dropping(r, i)
<1>1. ASSUME BoundInv, PoolInv, Next, main' = "serving", NEW f \in Fetches
      PROVE  Purposeful(f)
    <2>1. SessionInv /\ (session[f] # 0 => session[f] \in 1 .. Len(sessions))
        BY <1>1 DEF PoolInv, SessionInv
    <2>2. CASE UNCHANGED sessions
        BY <2>2
    <2>3. ASSUME NEW g \in bound.fetches, Use(g) PROVE Purposeful(f)
        <3>1. g \in Fetches
            BY <1>1, PoolAssumption DEF BoundInv
        <3>2. url[g] \in Urls /\ Get(url[g], CircuitOf(url[g]))
            BY <2>1, <2>3, <3>1 DEF Use, SessionInv
        <3>3. CircuitOf(url[g]) \in Nat
            BY <1>1, <3>2, CurrentCircuit DEF PoolInv
        <3>4. \A n \in 1 .. Len(sessions) : sessions'[n] = sessions[n]
            BY <2>1, <3>2, <3>3, GetKeeps
        <3>5. QED
            BY <2>1, <3>4
    <2>4. ASSUME NEW u \in Urls, Remove(u) PROVE Purposeful(f)
        <3>1. \A n \in 1 .. Len(sessions) : sessions'[n] # sessions[n] => sessions[n].url = u
            BY <2>1, <2>4, InvalidateKeeps DEF Remove
        <3>2. u \in pool \ pool'
            BY <2>4 DEF Remove
        <3>3. QED
            BY <2>1, <3>1, <3>2
    <2>5. ASSUME NEW r \in bound.refreshers, DropSession(r) PROVE Purposeful(f)
        <3>1. PICK i \in Ids : Dropping(r, i) /\ Invalidate(TorUrl[i])
            BY <2>5 DEF DropSession
        <3>2. TorUrl[i] \in Urls /\ r \in Refreshers
            BY <1>1, PoolAssumption, TorFacts DEF BoundInv
        <3>3. \A n \in 1 .. Len(sessions) :
                 sessions'[n] # sessions[n] => sessions[n].url = TorUrl[i]
            BY <2>1, <3>1, <3>2, InvalidateKeeps
        <3>4. QED
            BY <2>1, <3>1, <3>2, <3>3
    <2>6. ASSUME NEW r \in bound.refreshers, Refresh(r) PROVE Purposeful(f)
        <3>1. DropSession(r) \/ UNCHANGED sessions
            BY <2>6 DEF Refresh, RefreshStart, Gathered, RefreshReturns, Newnym, pool_vars
        <3>2. QED
            BY <2>2, <2>5, <2>6, <3>1
    <2>7. ASSUME NEW g \in bound.fetches, Pick(g) \/ AttemptEnds(g) PROVE Purposeful(f)
        BY <2>2, <2>7 DEF Pick, AttemptEnds, InvalidateSync, pool_vars
    <2>8. CASE Registry
        BY <2>2, <2>4, <2>8 DEF Registry, ReloadBegin, ReloadEnd, Add, pool_vars
    <2>9. CASE Serve \/ Shutdown
        BY <1>1, <2>2, <2>9 DEF Serve, Shutdown, StopAll, pool_vars
    <2>10. CASE UNCHANGED pool_vars
        BY <2>2, <2>10 DEF pool_vars
    <2>11. QED
        BY <1>1, <2>3, <2>6, <2>7, <2>8, <2>9, <2>10 DEF Next, Step
<1>2. ASSUME BoundInv, PoolInv, [Next]_vars
      PROVE  [main' = "serving" => \A f \in Fetches : Purposeful(f)]_vars
    BY <1>1, <1>2
<1>3. QED
    BY <1>2, PoolAlways, PTL DEF Spec, ClosedOnlyOnPurpose
=============================================================================
