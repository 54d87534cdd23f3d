---------------------------- MODULE SessionPool ----------------------------
(***************************************************************************)
(* The client sessions of the proxies (proxy/session_pool.py, class        *)
(* SessionPool): one per proxy URL, made on first use.  A session is named *)
(* by its place in the order of making, and remembers the circuit that its *)
(* proxy, when it is a Tor instance, gave connections at that time.        *)
(***************************************************************************)
EXTENDS Naturals, Sequences, FiniteSets

CONSTANT Urls           \* proxy URLs

VARIABLES
    sessions,           \* every session ever made
    pooled              \* self._sessions: the session of a URL, 0 for none

pool_vars == <<sessions, pooled>>

PoolInit == sessions = <<>> /\ pooled = [u \in Urls |-> 0]

\* Several tasks may hold one session; s.closed is of the session itself.
Usable(u) == pooled[u] # 0 /\ sessions[pooled[u]].open

\* get(u), with the circuit that u is on: the session is pooled'[u].
Get(u, circuit) ==
    IF Usable(u)
    THEN UNCHANGED pool_vars
    ELSE /\ sessions' = Append(sessions, [url |-> u, open |-> TRUE, circuit |-> circuit])
         /\ pooled' = [pooled EXCEPT ![u] = Len(sessions) + 1]

\* invalidate(u): the session is closed, whoever uses it.
Invalidate(u) ==
    /\ pooled' = [pooled EXCEPT ![u] = 0]
    /\ sessions' = IF Usable(u) THEN [sessions EXCEPT ![pooled[u]].open = FALSE]
                                ELSE sessions

\* Mutation: the dropped session is closed.
InvalidateAndClose(u) == Invalidate(u)

\* invalidate_sync(u): it is dropped and left to those who use it.
InvalidateSync(u) ==
    /\ pooled' = [pooled EXCEPT ![u] = 0]
    /\ UNCHANGED sessions
=============================================================================
