------------------------- MODULE TokenBucketProofs -------------------------
(***************************************************************************)
(* What the bucket of TokenBucket lets through, for any tasks, rates and   *)
(* times.  The invariant is an account: what was granted and what is left  *)
(* has been paid for by the burst, by the time up to the last refill, and, *)
(* for a second time, by the sleeps.  Before the first refill that the     *)
(* observer sees, nothing has been granted and the cap is all there is.    *)
(***************************************************************************)
EXTENDS TokenBucket, TLAPS

\* The ranges of the variables, as far as the account needs them.
BucketRange ==
    /\ now \in Nat /\ last \in Nat /\ since \in Nat
    /\ granted \in Nat /\ slept \in Nat /\ wait \in Nat
    /\ rate \in Intervals /\ interval \in Intervals
    /\ credit \in 0 .. Second
    /\ holder \in Tasks \cup {Nobody}
    /\ queue \in Seq(Tasks)
    /\ since <= now /\ last <= now

\* A task asleep was short of exactly what it waits for.
SleeperInv ==
    holder # Nobody =>
        /\ credit + wait = interval
        /\ since <= last => slept <= last - since

\* The sleeps do not overlap.
SleptInv == slept <= now - since

\* The account.
AccountInv ==
    interval > 0 =>
        IF since <= last
        THEN granted * interval + credit <= Second + (last - since) + slept
        ELSE granted = 0 /\ slept = 0

BucketInv == BucketRange /\ SleeperInv /\ SleptInv /\ AccountInv

\* One grant more is one interval more.
LEMMA OneMore ==
    ASSUME NEW g \in Nat, NEW i \in Nat
    PROVE  (g + 1) * i = g * i + i /\ g * i \in Nat
OBVIOUS

\* A bucket starts full and has granted nothing.
LEMMA BucketInit == Init => BucketInv
<1> SUFFICES ASSUME Init PROVE BucketInv
    OBVIOUS
<1>1. rate \in Nat /\ Second \in Nat /\ Nobody \notin Tasks
    BY BucketAssumption DEF Init
<1>2. granted * interval = 0
    BY <1>1 DEF Init
<1>3. BucketRange
    BY <1>1 DEF Init, BucketRange
<1>4. QED
    BY <1>1, <1>2, <1>3 DEF Init, BucketInv, SleeperInv, SleptInv, AccountInv

\* So is the one that replaces it.
LEMMA ReplaceKeeps == BucketInv /\ Replace => BucketInv'
<1> SUFFICES ASSUME BucketInv, Replace PROVE BucketInv'
    OBVIOUS
<1>1. rate \in Nat /\ Second \in Nat /\ rate \in Intervals /\ now \in Nat
    BY BucketAssumption DEF BucketInv, BucketRange
<1>2. /\ interval' = rate /\ credit' \in 0 .. Second /\ last' = now /\ holder' = Nobody
      /\ wait' = 0 /\ queue' = <<>> /\ since' = now /\ granted' = 0 /\ slept' = 0
      /\ now' = now /\ rate' = rate
    BY <1>1 DEF Replace, NewBucket
<1>3. BucketRange'
    BY <1>1, <1>2 DEF BucketRange
<1>4. granted' * interval' = 0
    BY <1>1, <1>2
<1>5. /\ credit' <= Second /\ credit' \in Nat
      /\ since' <= last' /\ last' - since' = 0 /\ now' - since' = 0 /\ slept' = 0
    BY <1>1, <1>2
<1>6. AccountInv'
    BY <1>1, <1>4, <1>5 DEF AccountInv
<1>7. SleptInv' /\ SleeperInv'
    BY <1>2, <1>5 DEF SleptInv, SleeperInv
<1>8. QED
    BY <1>3, <1>6, <1>7 DEF BucketInv

\* A refill adds no more than the time since the last.
LEMMA TakeLockKeeps == BucketInv /\ TakeLock => BucketInv'
<1> SUFFICES ASSUME BucketInv, TakeLock PROVE BucketInv'
    OBVIOUS
<1>1. /\ interval \in Nat /\ Second \in Nat /\ granted \in Nat /\ now \in Nat
      /\ last \in Nat /\ since \in Nat /\ slept \in Nat /\ credit \in 0 .. Second
      /\ since <= now /\ last <= now /\ slept <= now - since
    BY BucketAssumption DEF BucketInv, BucketRange, SleptInv
<1>2. Refilled \in 0 .. Second /\ Refilled <= credit + (now - last)
    BY <1>1 DEF Refilled, LesserOf
<1>3. queue' = Tail(queue) /\ queue' \in Seq(Tasks) /\ Head(queue) \in Tasks
    BY DEF TakeLock, BucketInv, BucketRange
<1>4. /\ now' = now /\ rate' = rate /\ interval' = interval /\ since' = since
      /\ slept' = slept /\ last' = now
    BY DEF TakeLock
<1>a. interval > 0 =>
        granted * interval + Refilled <= Second + (now - since) + slept
    <2>1. CASE since <= last
        BY <1>1, <1>2, <2>1, OneMore DEF BucketInv, AccountInv
    <2>2. CASE last < since
        <3>1. interval > 0 => granted = 0 /\ slept = 0
            BY <1>1, <2>2 DEF BucketInv, AccountInv
        <3>2. 0 * interval = 0
            BY <1>1
        <3>3. QED BY <1>1, <1>2, <3>1, <3>2
    <2>3. QED BY <1>1, <2>1, <2>2
<1>5. CASE Refilled >= interval /\ credit' = Refilled - interval
           /\ granted' = granted + 1 /\ UNCHANGED <<holder, wait>>
    <2>1. granted' * interval' = granted * interval + interval /\ granted * interval \in Nat
        BY <1>1, <1>4, <1>5, OneMore
    <2>2. BucketRange'
        BY <1>1, <1>2, <1>3, <1>4, <1>5 DEF BucketInv, BucketRange
    <2>3. holder' = Nobody
        BY <1>5 DEF TakeLock
    <2>4. AccountInv'
        BY <1>1, <1>2, <1>a, <1>4, <1>5, <2>1 DEF AccountInv
    <2>5. QED BY <1>1, <1>4, <2>2, <2>3, <2>4 DEF BucketInv, SleeperInv, SleptInv
<1>6. CASE Refilled < interval /\ credit' = Refilled /\ holder' = Head(queue)
           /\ wait' = interval - Refilled /\ UNCHANGED granted
    <2>1. granted' * interval' = granted * interval /\ granted * interval \in Nat
        BY <1>1, <1>4, <1>6, OneMore
    <2>2. BucketRange'
        BY <1>1, <1>2, <1>3, <1>4, <1>6 DEF BucketInv, BucketRange
    <2>3. AccountInv'
        BY <1>1, <1>2, <1>a, <1>4, <1>6, <2>1 DEF AccountInv
    <2>4. QED BY <1>1, <1>2, <1>4, <1>6, <2>2, <2>3 DEF BucketInv, SleeperInv, SleptInv
<1>7. QED BY <1>5, <1>6 DEF TakeLock

\* A grant after a sleep is paid with what there was and with the sleep.
LEMMA WakeKeeps == BucketInv /\ Wake => BucketInv'
<1> SUFFICES ASSUME BucketInv, Wake PROVE BucketInv'
    OBVIOUS
<1>1. /\ interval \in Nat /\ Second \in Nat /\ granted \in Nat /\ now \in Nat
      /\ last \in Nat /\ since \in Nat /\ slept \in Nat /\ wait \in Nat
      /\ credit \in 0 .. Second /\ since <= now /\ last <= now
      /\ slept <= now - since
    BY BucketAssumption DEF BucketInv, BucketRange, SleptInv
<1>2. /\ credit + wait = interval /\ now >= last + wait
      /\ since <= last => slept <= last - since
    BY DEF Wake, BucketInv, SleeperInv
<1>3. /\ credit' = 0 /\ holder' = Nobody /\ wait' = 0 /\ now' = now /\ rate' = rate
      /\ interval' = interval /\ last' = last /\ queue' = queue /\ since' = since
    BY DEF Wake
<1>4. CASE since <= last
    <2>1. granted' = granted + 1 /\ slept' = slept + wait
        BY <1>1, <1>4 DEF Wake, CountSleeper
    <2>2. granted' * interval' = granted * interval + interval /\ granted * interval \in Nat
        BY <1>1, <1>3, <2>1, OneMore
    <2>3. BucketRange'
        BY <1>1, <1>3, <2>1 DEF BucketInv, BucketRange
    <2>4. AccountInv'
        BY <1>1, <1>2, <1>3, <1>4, <2>1, <2>2 DEF AccountInv, BucketInv
    <2>5. SleptInv'
        BY <1>1, <1>2, <1>3, <1>4, <2>1 DEF SleptInv
    <2>6. QED BY <1>3, <2>3, <2>4, <2>5 DEF BucketInv, SleeperInv
<1>5. CASE last < since
    <2>1. granted' = granted /\ slept' = slept
        BY <1>1, <1>5 DEF Wake, CountSleeper
    <2>2. BucketRange' /\ SleptInv'
        BY <1>1, <1>3, <2>1 DEF BucketInv, BucketRange, SleptInv
    <2>3. AccountInv'
        BY <1>1, <1>3, <1>5, <2>1 DEF AccountInv, BucketInv
    <2>4. QED BY <1>3, <2>2, <2>3 DEF BucketInv, SleeperInv
<1>6. QED BY <1>1, <1>4, <1>5

\* An observer begins with what the bucket holds, which is no more than its cap.
LEMMA ObserveKeeps == BucketInv /\ Observe => BucketInv'
<1> SUFFICES ASSUME BucketInv, Observe PROVE BucketInv'
    OBVIOUS
<1>1. /\ interval \in Nat /\ Second \in Nat /\ now \in Nat /\ last \in Nat
      /\ credit \in 0 .. Second /\ last <= now
    BY BucketAssumption DEF BucketInv, BucketRange
<1>2. /\ since' = now /\ granted' = 0 /\ slept' = 0 /\ now' = now /\ rate' = rate
      /\ interval' = interval /\ credit' = credit /\ last' = last /\ holder' = holder
      /\ wait' = wait /\ queue' = queue
    BY DEF Observe
<1>3. BucketRange' /\ SleptInv'
    BY <1>1, <1>2 DEF BucketInv, BucketRange, SleptInv
<1>4. 0 * interval = 0
    BY <1>1
<1>5. AccountInv'
    BY <1>1, <1>2, <1>4 DEF AccountInv
<1>6. SleeperInv'
    BY <1>1, <1>2 DEF BucketInv, SleeperInv
<1>7. QED BY <1>3, <1>5, <1>6 DEF BucketInv

\* Giving up takes nothing out of the bucket.
LEMMA CancelKeeps ==
    ASSUME NEW t \in Tasks, BucketInv, Cancel(t)
    PROVE  BucketInv'
<1>1. /\ now' = now /\ rate' = rate /\ interval' = interval /\ credit' = credit
      /\ last' = last /\ since' = since /\ granted' = granted /\ slept' = slept
    BY DEF Cancel
<1>2. CASE holder = t /\ holder' = Nobody /\ wait' = 0 /\ UNCHANGED queue
    BY <1>1, <1>2
    DEF BucketInv, BucketRange, SleeperInv, SleptInv, AccountInv
<1>3. CASE /\ \E i \in DOMAIN queue : queue' = RemoveAt(queue, i)
           /\ UNCHANGED <<holder, wait>>
    <2>1. PICK i \in DOMAIN queue : queue' = RemoveAt(queue, i)
        BY <1>3
    <2>2. queue \in Seq(Tasks) /\ Len(queue) \in Nat /\ i \in 1 .. Len(queue)
        BY DEF BucketInv, BucketRange
    <2>3. /\ SubSeq(queue, 1, i - 1) \in Seq(Tasks)
          /\ SubSeq(queue, i + 1, Len(queue)) \in Seq(Tasks)
        BY <2>2
    <2>4. queue' \in Seq(Tasks)
        BY <2>1, <2>3 DEF RemoveAt
    <2>5. QED
        BY <1>1, <1>3, <2>4
        DEF BucketInv, BucketRange, SleeperInv, SleptInv, AccountInv
<1>4. QED BY <1>2, <1>3 DEF Cancel

\* Every step keeps the account.
LEMMA BucketStep == BucketInv /\ [Next]_vars => BucketInv'
<1> SUFFICES ASSUME BucketInv, [Next]_vars PROVE BucketInv'
    OBVIOUS
<1>1. ASSUME NEW t \in Tasks, Enter(t) PROVE BucketInv'
    <2>1. queue' \in Seq(Tasks)
        BY <1>1 DEF Enter, BucketInv, BucketRange
    <2>2. QED
        BY <1>1, <2>1
        DEF Enter, BucketInv, BucketRange, SleeperInv, SleptInv, AccountInv
<1>2. CASE Tick
    <2>1. now' = now + 1 /\ UNCHANGED <<rate, bucket>>
        BY <1>2 DEF Tick
    <2>2. QED
        BY <2>1 DEF bucket, BucketInv, BucketRange, SleeperInv, SleptInv, AccountInv
<1>3. ASSUME NEW i \in Intervals, SetGlobalRps(i) PROVE BucketInv'
    BY <1>3
    DEF SetGlobalRps, bucket, BucketInv, BucketRange, SleeperInv, SleptInv, AccountInv
<1>4. CASE UNCHANGED vars
    BY <1>4 DEF vars, BucketInv, BucketRange, SleeperInv, SleptInv, AccountInv
<1>5. QED
    BY <1>1, <1>2, <1>3, <1>4, ReplaceKeeps, TakeLockKeeps, WakeKeeps, CancelKeeps,
       ObserveKeeps
    DEF Next

\* The account always balances.
THEOREM BucketAlways == Spec => []BucketInv
BY BucketInit, BucketStep, PTL DEF Spec

\* In any stretch of time a bucket lets through its burst and twice its rate at
\* most, for every rate and every number of tasks, however they are cancelled or
\* oversleep.
THEOREM GrantsBoundedSafe == Spec => []GrantsBounded
<1>1. BucketInv => GrantsBounded
    <2> SUFFICES ASSUME BucketInv, interval > 0
                 PROVE  granted * interval <= Second + 2 * (now - since)
        BY DEF GrantsBounded
    <2>1. /\ interval \in Nat /\ granted \in Nat /\ now \in Nat /\ last \in Nat
          /\ since \in Nat /\ slept \in Nat /\ Second \in Nat /\ credit \in 0 .. Second
          /\ last <= now
        BY BucketAssumption DEF BucketInv, BucketRange
    <2>2. granted * interval \in Nat
        BY <2>1, OneMore
    <2>3. slept <= now - since /\ since <= now /\ slept \in Nat
        BY DEF BucketInv, BucketRange, SleptInv
    <2>4. CASE since <= last
        BY <2>1, <2>2, <2>3, <2>4 DEF BucketInv, AccountInv
    <2>5. CASE last < since
        <3>1. granted = 0
            BY <2>1, <2>5 DEF BucketInv, AccountInv
        <3>2. 0 * interval = 0
            BY <2>1
        <3>3. QED BY <2>1, <2>3, <3>1, <3>2
    <2>6. QED BY <2>1, <2>4, <2>5
<1>2. QED BY <1>1, BucketAlways, PTL
=============================================================================
