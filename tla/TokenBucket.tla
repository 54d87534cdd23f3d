----------------------------- MODULE TokenBucket -----------------------------
(***************************************************************************)
(* The rate limiter of one proxy (proxy/rate_limiter.py): a token bucket   *)
(* behind an asyncio.Lock, made on first use with the global rate of that  *)
(* moment, dropped when the proxy is removed from the pool.                *)
(*                                                                         *)
(* Time is counted in ticks of which Second make a second.  A rate of rps  *)
(* requests a second is an interval of Second / rps ticks, and tokens are  *)
(* counted in the ticks they took to collect: one token is interval ticks, *)
(* and the cap of rps tokens is Second ticks.                              *)
(***************************************************************************)
EXTENDS Integers, SequencesExt

CONSTANTS
    Tasks,          \* fetch tasks that use the proxy
    Second,         \* ticks per second
    Intervals,      \* the intervals of the rates proxy_rps may have, 0: no limit
    MaxTime,        \* bound: the clock
    Nobody

ASSUME BucketAssumption ==
    /\ Second \in Nat \ {0}
    /\ Intervals \subseteq Nat
    /\ MaxTime \in Nat
    /\ Nobody \notin Tasks

VARIABLES
    now,
    rate,       \* _GLOBAL_RPS, as an interval
    interval,   \* self.rps of the bucket, as an interval
    credit,     \* self._tokens, in ticks
    last,       \* self._last
    holder,     \* the task that sleeps with the lock
    wait,       \* how long it asked to sleep
    queue,      \* tasks that wait for the lock
    since,      \* when an observer began to count
    granted,    \* the requests let through of those that got the lock after that
    slept       \* the waits imposed on them

bucket == <<interval, credit, last, holder, wait, queue, since, granted, slept>>
vars   == <<now, rate, interval, credit, last, holder, wait, queue, since, granted,
            slept>>

\* TokenBucket(_GLOBAL_RPS): full.
NewBucket(i) ==
    /\ interval' = i
    /\ credit' = IF i = 0 THEN 0 ELSE Second
    /\ last' = now
    /\ holder' = Nobody
    /\ wait' = 0
    /\ queue' = <<>>
    /\ since' = now
    /\ granted' = 0
    /\ slept' = 0

Init ==
    /\ now = 0
    /\ rate \in Intervals
    /\ interval = rate
    /\ credit = IF rate = 0 THEN 0 ELSE Second
    /\ last = 0
    /\ holder = Nobody
    /\ wait = 0
    /\ queue = <<>>
    /\ since = 0
    /\ granted = 0
    /\ slept = 0

Waiting(t) == holder = t \/ \E i \in DOMAIN queue : queue[i] = t

LesserOf(a, b) == IF a < b THEN a ELSE b

\* Mutation: a refill without the cap.
UncappedRefill == credit + (now - last)

\* self._tokens after the refill.
Refilled == LesserOf(Second, credit + (now - last))

\* acquire() up to the lock; without a limit it returns at once.
Enter(t) ==
    /\ ~ Waiting(t)
    /\ interval > 0
    /\ queue' = Append(queue, t)
    /\ UNCHANGED <<now, rate, interval, credit, last, holder, wait, since, granted, slept>>

\* The lock goes to the task that has waited longest.  It takes a token and
\* leaves, or sleeps with the lock until one has been collected.
TakeLock ==
    /\ holder = Nobody
    /\ queue # <<>>
    /\ queue' = Tail(queue)
    /\ last' = now
    /\ \/ /\ Refilled >= interval
          /\ credit' = Refilled - interval
          /\ granted' = granted + 1
          /\ UNCHANGED <<holder, wait>>
       \/ /\ Refilled < interval
          /\ credit' = Refilled
          /\ holder' = Head(queue)
          /\ wait' = interval - Refilled
          /\ UNCHANGED granted
    /\ UNCHANGED <<now, rate, interval, since, slept>>

\* The sleeper counts if it got the lock after `since`.
CountSleeper ==
    /\ granted' = IF last >= since THEN granted + 1 ELSE granted
    /\ slept' = IF last >= since THEN slept + wait ELSE slept

\* The end of the sleep, perhaps late.  _last stays where it was before it.
Wake ==
    /\ holder # Nobody
    /\ now >= last + wait
    /\ credit' = 0
    /\ holder' = Nobody
    /\ wait' = 0
    /\ CountSleeper
    /\ UNCHANGED <<now, rate, interval, last, queue, since>>

\* The fetch is cancelled: asleep it gives the lock back and takes nothing.
Cancel(t) ==
    /\ \/ /\ holder = t
          /\ holder' = Nobody
          /\ wait' = 0
          /\ UNCHANGED queue
       \/ \E i \in DOMAIN queue :
             /\ queue[i] = t
             /\ queue' = RemoveAt(queue, i)
             /\ UNCHANGED <<holder, wait>>
    /\ UNCHANGED <<now, rate, interval, credit, last, since, granted, slept>>

\* remove_limiter, and get_limiter when the proxy is used again: a new bucket.
\* Tasks that wait at the old one go on waiting there.
Replace ==
    /\ NewBucket(rate)
    /\ UNCHANGED <<now, rate>>

\* set_global_rps: buckets that exist keep their rate.
SetGlobalRps(i) ==
    /\ rate' = i
    /\ UNCHANGED <<now, bucket>>

\* The observer of GrantsBounded begins again, at any moment.
Observe ==
    /\ since' = now
    /\ granted' = 0
    /\ slept' = 0
    /\ UNCHANGED <<now, rate, interval, credit, last, holder, wait, queue>>

Tick ==
    /\ now < MaxTime
    /\ now' = now + 1
    /\ UNCHANGED <<rate, bucket>>

Next ==
    \/ \E t \in Tasks : Enter(t) \/ Cancel(t)
    \/ TakeLock \/ Wake \/ Replace \/ Observe \/ Tick
    \/ \E i \in Intervals : SetGlobalRps(i)

Spec == Init /\ [][Next]_vars

-----------------------------------------------------------------------------
(* Properties.                                                             *)

\* The rate a bucket really enforces: of the requests that come to it in any
\* stretch of time it lets through at most its burst and TWICE its rate, however
\* long it was idle before and however its waiters are cancelled or oversleep.
\* Twice, because a request that slept is charged nothing for the time slept,
\* which the next refill counts again (rate_limiter.py:28-33).
GrantsBounded ==
    interval > 0 => granted * interval <= Second + 2 * (now - since)
=============================================================================
