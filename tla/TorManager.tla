----------------------------- MODULE TorManager -----------------------------
(***************************************************************************)
(* The Tor processes of the server (proxy/tor_manager.py): they are        *)
(* launched one after the other, each watched by a thread that reads its   *)
(* output; afterwards their circuits are renewed by the refresh loop and by *)
(* /tor/refresh, and they are stopped when the server is.                  *)
(*                                                                         *)
(* The cooldown between two NEWNYM signals only delays a refresh, so it is *)
(* left to the interleaving.                                               *)
(***************************************************************************)
EXTENDS SessionPool

CONSTANTS
    Instances,          \* how many Tor processes
    TorUrl,             \* the proxy URL of each
    Refreshers,         \* callers of refresh_all_circuits that overlap
    MaxCircuit          \* bound: the circuits of each instance

ASSUME TorAssumption ==
    /\ Instances \in Nat
    /\ TorUrl \in [1 .. Instances -> Urls]
    /\ \A i, j \in 1 .. Instances : TorUrl[i] = TorUrl[j] => i = j
    /\ MaxCircuit \in [1 .. Instances -> Nat]

Ids == 1 .. Instances

VARIABLES
    main,       \* "launch", "wait", "ready", "serving", "failed", "stopped"
    next,       \* the instance start_all is at
    proc,       \* the process of each: "none", "running", "ended"
    reader,     \* its _read_stdout thread: "none", "reading", "failing"
    event,      \* instances whose _bootstrap_ev is set
    error,      \* those whose _bootstrap_err is set
    booted,     \* those that have written "Bootstrapped 100%"
    listed,     \* self.instances
    circuit,    \* the circuit that a new connection of each gets
    step,       \* of each refresh: "idle", "asking", "dropping"
    answer,     \* what each instance answered it: "none", "asked", "ok", "failed"
    todo,       \* the instances whose sessions it has still to drop
    renewed     \* the circuits that its successful NEWNYM signals made

launch_vars  == <<main, next, proc, reader, event, error, booted, listed>>
refresh_vars == <<circuit, step, answer, todo, renewed>>
tor_vars     == <<launch_vars, refresh_vars>>

TorInit ==
    /\ main = IF Instances = 0 THEN "ready" ELSE "launch"
    /\ next = 1
    /\ proc = [i \in Ids |-> "none"]
    /\ reader = [i \in Ids |-> "none"]
    /\ event = {} /\ error = {} /\ booted = {} /\ listed = {}
    /\ circuit = [i \in Ids |-> 0]
    /\ step = [r \in Refreshers |-> "idle"]
    /\ answer = [r \in Refreshers |-> [i \in Ids |-> "none"]]
    /\ todo = [r \in Refreshers |-> {}]
    /\ renewed = [r \in Refreshers |-> [i \in Ids |-> 0]]

-----------------------------------------------------------------------------
(* Launching.                                                              *)

\* Popen and the reader thread; without a tor binary the start fails.
Launch ==
    /\ main = "launch"
    /\ \/ /\ main' = "wait"
          /\ proc' = [proc EXCEPT ![next] = "running"]
          /\ reader' = [reader EXCEPT ![next] = "reading"]
       \/ /\ main' = "failed"
          /\ UNCHANGED <<proc, reader>>
    /\ UNCHANGED <<next, event, error, booted, listed, refresh_vars>>

\* What a process writes once start() has returned is read too, and changes
\* nothing that is looked at again.
Heeded(i) == main = "wait" /\ next = i

\* Mutation: an error wakes the start before it is recorded.
ReadErrorWakesFirst(i) ==
    /\ Heeded(i) /\ reader[i] = "reading" /\ proc[i] = "running"
    /\ event' = event \cup {i}
    /\ reader' = [reader EXCEPT ![i] = "failing"]
    /\ UNCHANGED <<main, next, proc, error, booted, listed, refresh_vars>>

\* A line with an error: recorded first ...
ReadError(i) ==
    /\ Heeded(i) /\ reader[i] = "reading" /\ proc[i] = "running"
    /\ error' = error \cup {i}
    /\ reader' = [reader EXCEPT ![i] = "failing"]
    /\ UNCHANGED <<main, next, proc, event, booted, listed, refresh_vars>>

\* ... and then announced.
AnnounceError(i) ==
    /\ Heeded(i) /\ reader[i] = "failing"
    /\ event' = event \cup {i}
    /\ error' = error \cup {i}
    /\ reader' = [reader EXCEPT ![i] = "reading"]
    /\ UNCHANGED <<main, next, proc, booted, listed, refresh_vars>>

ReadBootstrapped(i) ==
    /\ Heeded(i) /\ reader[i] = "reading" /\ proc[i] = "running"
    /\ event' = event \cup {i}
    /\ booted' = booted \cup {i}
    /\ UNCHANGED <<main, next, proc, reader, error, listed, refresh_vars>>

\* Its output ends with it, and the thread, which announces nothing.
ProcessEnds(i) ==
    /\ proc[i] = "running"
    /\ proc' = [proc EXCEPT ![i] = "ended"]
    /\ UNCHANGED <<main, next, reader, event, error, booted, listed, refresh_vars>>

\* The event is set and no error is there: on to the next instance.
Started ==
    /\ main = "wait"
    /\ next \in event \ error
    /\ listed' = listed \cup {next}
    /\ next' = next + 1
    /\ main' = IF next = Instances THEN "ready" ELSE "launch"
    /\ UNCHANGED <<proc, reader, event, error, booted, refresh_vars>>

\* Mutation: a start that took too long does not stop the process.
StartFailsUnstopped ==
    /\ main = "wait"
    /\ next \in error \cap event \/ next \notin event
    /\ proc' = [proc EXCEPT ![next] = IF next \in event THEN "ended" ELSE @]
    /\ main' = "failed"
    /\ UNCHANGED <<next, reader, event, error, booted, listed, refresh_vars>>

\* An error, or launch_timeout: the process is stopped, and the server exits.
\* Those launched before it are not stopped.
StartFails ==
    /\ main = "wait"
    /\ next \in error \cap event \/ next \notin event
    /\ proc' = [proc EXCEPT ![next] = "ended"]
    /\ main' = "failed"
    /\ UNCHANGED <<next, reader, event, error, booted, listed, refresh_vars>>

Alive == {i \in listed : proc[i] = "running"}
TorUrls == {TorUrl[i] : i \in Alive}

\* The end of the server: stop_all runs in its finally, and what it kept in
\* memory is gone.
StopAll ==
    /\ proc' = [i \in Ids |-> IF i \in listed THEN "ended" ELSE proc[i]]
    /\ main' = "stopped"
    /\ next' = 1
    /\ reader' = [i \in Ids |-> "none"]
    /\ event' = {} /\ error' = {} /\ booted' = {} /\ listed' = {}
    /\ circuit' = [i \in Ids |-> 0]
    /\ step' = [r \in Refreshers |-> "idle"]
    /\ answer' = [r \in Refreshers |-> [i \in Ids |-> "none"]]
    /\ todo' = [r \in Refreshers |-> {}]
    /\ renewed' = [r \in Refreshers |-> [i \in Ids |-> 0]]

-----------------------------------------------------------------------------
(* Renewing the circuits.                                                  *)

RefreshStart(r) ==
    /\ main = "serving" /\ step[r] = "idle"
    /\ step' = [step EXCEPT ![r] = "asking"]
    /\ answer' = [answer EXCEPT ![r] = [i \in Ids |-> "asked"]]
    /\ renewed' = [renewed EXCEPT ![r] = [i \in Ids |-> 0]]
    /\ UNCHANGED <<circuit, todo, launch_vars, pool_vars>>

\* refresh_circuit of one instance; its signal may take effect and yet the
\* answer be an error.
Newnym(r, i) ==
    /\ main = "serving" /\ step[r] = "asking" /\ answer[r][i] = "asked"
    /\ \E result \in {"ok", "failed"}, signalled \in BOOLEAN :
          /\ result = "ok" => signalled
          /\ signalled => proc[i] = "running" /\ circuit[i] < MaxCircuit[i]
          /\ answer' = [answer EXCEPT ![r][i] = result]
          /\ circuit' = [circuit EXCEPT ![i] = IF signalled THEN @ + 1 ELSE @]
          /\ renewed' = [renewed EXCEPT ![r][i] = IF result = "ok" THEN circuit[i] + 1 ELSE 0]
    /\ UNCHANGED <<step, todo, launch_vars, pool_vars>>

\* Mutation: sessions are dropped only when every instance has agreed.
GatheredAllOrNothing(r) ==
    /\ main = "serving" /\ step[r] = "asking"
    /\ \A i \in Ids : answer[r][i] # "asked"
    /\ IF \A i \in Ids : answer[r][i] = "ok"
       THEN step' = [step EXCEPT ![r] = "dropping"] /\ todo' = [todo EXCEPT ![r] = Ids]
       ELSE step' = [step EXCEPT ![r] = "idle"] /\ todo' = todo
    /\ UNCHANGED <<circuit, answer, renewed, launch_vars, pool_vars>>

\* gather() has the answers of all instances.
Gathered(r) ==
    /\ main = "serving" /\ step[r] = "asking"
    /\ \A i \in Ids : answer[r][i] # "asked"
    /\ step' = [step EXCEPT ![r] = "dropping"]
    /\ todo' = [todo EXCEPT ![r] = Ids]
    /\ UNCHANGED <<circuit, answer, renewed, launch_vars, pool_vars>>

\* The sessions of the instances are dropped in order, each close awaited.
Dropping(r, i) == step[r] = "dropping" /\ i \in todo[r] /\ \A j \in todo[r] : i <= j

DropSession(r) ==
    /\ main = "serving"
    /\ \E i \in Ids :
          /\ Dropping(r, i)
          /\ Invalidate(TorUrl[i])
          /\ todo' = [todo EXCEPT ![r] = @ \ {i}]
    /\ UNCHANGED <<circuit, step, answer, renewed, launch_vars>>

RefreshReturns(r) ==
    /\ main = "serving" /\ step[r] = "dropping" /\ todo[r] = {}
    /\ step' = [step EXCEPT ![r] = "idle"]
    /\ UNCHANGED <<circuit, answer, todo, renewed, launch_vars, pool_vars>>

Refresh(r) ==
    \/ RefreshStart(r) \/ Gathered(r) \/ DropSession(r) \/ RefreshReturns(r)
    \/ \E i \in Ids : Newnym(r, i)

\* What runs whatever the event loop does.
TorProcess(i) ==
    ReadError(i) \/ AnnounceError(i) \/ ReadBootstrapped(i) \/ ProcessEnds(i)

Launching == Launch \/ Started \/ StartFails

-----------------------------------------------------------------------------
(* Properties.                                                             *)

\* start() returns, and the instance is put to use, only when its process has
\* announced that it is bootstrapped: an error and the announcement use one
\* event, and the thread that sets it runs beside the one that waits
\* (tor_manager.py:77-102).
StartedIsBootstrapped == listed \subseteq booted

\* No Tor process is left running that the manager does not know, and after
\* serving none at all, whether it ended, hung or failed in its start
\* (tor_manager.py:81-86, 167-185, proxy_server.py:274-279).  A server that
\* fails to start does leave running those it had listed.
NoStrayTor ==
    LET running == {i \in Ids : proc[i] = "running"}
    IN  /\ main # "wait" => running \subseteq listed
        /\ main = "stopped" => running = {}

\* Once a refresh has passed an instance that answered it well, no session
\* made on an earlier circuit is handed out for that instance, though fetches
\* go on and refreshes overlap (tor_manager.py:191-200).
FreshCircuitAfterRefresh ==
    \A r \in Refreshers, i \in Ids :
        /\ answer[r][i] = "ok"
        /\ step[r] = "idle" \/ (step[r] = "dropping" /\ i \notin todo[r])
        /\ pooled[TorUrl[i]] # 0
        => sessions[pooled[TorUrl[i]]].circuit >= renewed[r][i]
=============================================================================
