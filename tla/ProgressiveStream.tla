-------------------------- MODULE ProgressiveStream --------------------------
(***************************************************************************)
(* _ProgressiveStream.send (proxy/streaming/progressive.py): one asyncio   *)
(* task per chunk fetches, a write loop sends the chunks to the client in  *)
(* order.  Prefetch gates, a FIFO semaphore and a byte counter hold the    *)
(* fetch tasks back; chunk 0 may be raced through two proxies.             *)
(*                                                                         *)
(* A step is what a coroutine does between two suspensions.  Line 200 of   *)
(* the source ("nonlocal _buf_bytes" in the function that owns the         *)
(* variable) is rejected by the compiler; the model is the function        *)
(* without that line, which is what the two closures above it share.       *)
(***************************************************************************)
EXTENDS Integers, FiniteSets, SequencesExt

CONSTANTS
    NumChunks,          \* len(ranges)
    Plans               \* the streams handle_inner can build: see StreamPlan

Chunks == 0 .. NumChunks - 1

\* The arguments of a stream that its control depends on.
StreamPlan ==
    [prefetch : Nat,                    \* prefetch_ahead
     workers  : Nat,                    \* max_workers, permits of fetch_sem
     buffer   : Nat,                    \* max_buffer_bytes
     size     : [Chunks -> Nat \ {0}],  \* length of each range
     race     : BOOLEAN]                \* race_first_chunk and race_proxy

ASSUME StreamAssumption ==
    /\ NumChunks \in Nat \ {0}
    /\ Plans \subseteq StreamPlan

VARIABLES
    plan,       \* the arguments of this stream
    gate,       \* the prefetch gates that are set
    pc,         \* where the task of each chunk is suspended, or how it ended
    semq,       \* tasks queued on fetch_sem, first come first served
    results,    \* results[i]: nothing yet, the data, or the exception
    ready,      \* the chunks whose ready event is set
    buf,        \* _buf_bytes
    cand,       \* the two sub-tasks of the chunk-0 race
    w,          \* index of the write loop
    wpc,        \* where send() itself is suspended
    failedAt,   \* failed_at
    out         \* chunks the client has been sent, in order

taskVars  == <<pc, semq, results, ready, cand>>
writeVars == <<w, wpc, failedAt, out>>
vars      == <<plan, gate, buf, pc, semq, results, ready, cand, w, wpc, failedAt, out>>

NoFailure  == -2        \* failed_at is None
Unexpected == -1        \* resp.write raised
Aborted    == -3        \* send() itself was cancelled; failed_at stays None

Candidates == {"a", "b"}

HoldsSem == {"fetch", "bufwait", "woken"}
Ended    == {"done", "cancelled"}
RacePC   == {"race", "reap"}
TaskPC   == {"gate", "sem"} \cup HoldsSem \cup RacePC \cup Ended

Holders == {i \in Chunks : pc[i] \in HoldsSem}

\* The pipeline runs until the finally block of the write loop cancels it.
Running == wpc \in {"await", "writing"}

\* Mutation: a window one chunk too wide.
WiderGateOf(i) == IF i <= plan.prefetch THEN 0 ELSE i - plan.prefetch - 1

GateOf(i) == IF i <= plan.prefetch THEN 0 ELSE i - plan.prefetch

Init ==
    /\ plan \in Plans
    /\ gate = {i \in Chunks : i < plan.prefetch}
    /\ pc = [i \in Chunks |-> IF i = 0 /\ plan.race THEN "race" ELSE "gate"]
    /\ semq = <<>>
    /\ results = [i \in Chunks |-> "none"]
    /\ ready = {}
    /\ buf = 0
    /\ cand = [c \in Candidates |-> IF plan.race THEN "run" ELSE "idle"]
    /\ w = 0
    /\ wpc = "await"
    /\ failedAt = NoFailure
    /\ out = <<>>

-----------------------------------------------------------------------------
(* Fetch tasks.                                                            *)

\* The tasks are created in index order and the gates open in index order, so
\* the event loop brings the tasks to the semaphore in index order.
PassGate(i) ==
    /\ Running
    /\ pc[i] = "gate"
    /\ GateOf(i) \in gate
    /\ \A j \in Chunks : j < i => pc[j] # "gate"
    /\ pc' = [pc EXCEPT ![i] = "sem"]
    /\ semq' = Append(semq, i)
    /\ UNCHANGED <<plan, gate, buf, results, ready, cand, writeVars>>

Acquire ==
    /\ Running
    /\ semq # <<>>
    /\ Cardinality(Holders) < plan.workers
    /\ pc' = [pc EXCEPT ![Head(semq)] = "fetch"]
    /\ semq' = Tail(semq)
    /\ UNCHANGED <<plan, gate, buf, results, ready, cand, writeVars>>

Fits(i) == buf + plan.size[i] <= plan.buffer

\* The body of the loop under _buf_lock.  A task that does not fit clears
\* _buf_has_space and waits for it; it still holds its permit.
TryStore(i) ==
    \/ /\ Fits(i)
       /\ buf' = buf + plan.size[i]
       /\ results' = [results EXCEPT ![i] = "data"]
       /\ ready' = ready \cup {i}
       /\ pc' = [pc EXCEPT ![i] = "done"]
    \/ /\ ~Fits(i)
       /\ pc' = [pc EXCEPT ![i] = "bufwait"]
       /\ UNCHANGED <<buf, results, ready>>

FetchOk(i) ==
    /\ Running
    /\ pc[i] = "fetch"
    /\ TryStore(i)
    /\ UNCHANGED <<plan, gate, semq, cand, writeVars>>

\* Mutation: ready[i] is set only with data, not in the finally block.
SilentFetchFail(i) ==
    /\ Running
    /\ pc[i] = "fetch"
    /\ results' = [results EXCEPT ![i] = "exc"]
    /\ pc' = [pc EXCEPT ![i] = "done"]
    /\ UNCHANGED <<plan, gate, buf, semq, ready, cand, writeVars>>

\* fetch_chunk gave up after its retries.
FetchFail(i) ==
    /\ Running
    /\ pc[i] = "fetch"
    /\ results' = [results EXCEPT ![i] = "exc"]
    /\ ready' = ready \cup {i}
    /\ pc' = [pc EXCEPT ![i] = "done"]
    /\ UNCHANGED <<plan, gate, buf, semq, cand, writeVars>>

\* Mutation: "if" for "while": a woken task stores without measuring again.
UncheckedRecheck(i) ==
    /\ Running
    /\ pc[i] = "woken"
    /\ buf' = buf + plan.size[i]
    /\ results' = [results EXCEPT ![i] = "data"]
    /\ ready' = ready \cup {i}
    /\ pc' = [pc EXCEPT ![i] = "done"]
    /\ UNCHANGED <<plan, gate, semq, cand, writeVars>>

\* _buf_has_space woke the task: it measures the buffer again.
Recheck(i) ==
    /\ Running
    /\ pc[i] = "woken"
    /\ TryStore(i)
    /\ UNCHANGED <<plan, gate, semq, cand, writeVars>>

-----------------------------------------------------------------------------
(* The chunk-0 race: outside fetch_sem and outside the byte counter.       *)

\* A sub-task ends by itself, whatever became of the race.
CandidateEnds(c, outcome) ==
    /\ cand[c] = "run"
    /\ cand' = [cand EXCEPT ![c] = outcome]
    /\ UNCHANGED <<plan, gate, buf, pc, semq, results, ready, writeVars>>

StoreRace(r) ==
    /\ results' = [results EXCEPT ![0] = r]
    /\ ready' = ready \cup {0}
    /\ pc' = [pc EXCEPT ![0] = "done"]

\* Mutation: the winner is stored and the loser left to itself.
RaceWakeForgetsLoser ==
    /\ Running
    /\ pc[0] = "race"
    /\ \E c \in Candidates : cand[c] \in {"ok", "exc"}
    /\ \/ /\ \E c \in Candidates : cand[c] = "ok"
          /\ StoreRace("data")
       \/ /\ \A c \in Candidates : cand[c] \in {"exc", "lost"}
          /\ StoreRace("exc")
    /\ UNCHANGED <<plan, gate, buf, semq, cand, writeVars>>

\* asyncio.wait(FIRST_COMPLETED) returns with all that finished by then.
RaceWake ==
    /\ Running
    /\ pc[0] = "race"
    /\ \E c \in Candidates : cand[c] \in {"ok", "exc"}
    /\ \/ /\ \E c \in Candidates : cand[c] = "ok"
          /\ \A c \in Candidates : cand[c] # "run"
          /\ StoreRace("data")
          /\ UNCHANGED cand
       \/ \* A winner with the loser still pending: cancel it and await it.
          /\ \E c \in Candidates : cand[c] = "ok"
          /\ \E c \in Candidates :
                /\ cand[c] = "run"
                /\ cand' = [cand EXCEPT ![c] = "cancelled"]
          /\ pc' = [pc EXCEPT ![0] = "reap"]
          /\ UNCHANGED <<results, ready>>
       \/ \* No winner yet, one candidate left: wait again.
          /\ \A c \in Candidates : cand[c] # "ok"
          /\ \E c \in Candidates : cand[c] = "run"
          /\ cand' = [c \in Candidates |->
                        IF cand[c] = "exc" THEN "lost" ELSE cand[c]]
          /\ UNCHANGED <<pc, results, ready>>
       \/ /\ \A c \in Candidates : cand[c] \in {"exc", "lost"}
          /\ StoreRace("exc")
          /\ UNCHANGED cand
    /\ UNCHANGED <<plan, gate, buf, semq, writeVars>>

\* "await t" raises the CancelledError of the cancelled loser, which "except
\* Exception" does not catch: the race task dies before results[0] and
\* ready[0] are set.
ReapLoser ==
    /\ Running
    /\ pc[0] = "reap"
    /\ pc' = [pc EXCEPT ![0] = "cancelled"]
    /\ UNCHANGED <<plan, gate, buf, semq, results, ready, cand, writeVars>>

-----------------------------------------------------------------------------
(* The write loop and its finally block.                                   *)

\* Mutation: the write loop takes whatever chunk is ready.
TakeAnyChunk ==
    /\ wpc = "await"
    /\ \E i \in ready : results[i] = "data" /\ w' = i
    /\ wpc' = "writing"
    /\ UNCHANGED <<plan, gate, buf, taskVars, failedAt, out>>

\* Mutation: "continue" for "break" after a failed chunk.
SkipBadChunk ==
    /\ wpc = "await"
    /\ w \in ready
    /\ \/ /\ results[w] = "data"
          /\ wpc' = "writing"
          /\ UNCHANGED <<w, failedAt>>
       \/ /\ results[w] = "exc"
          /\ failedAt' = w
          /\ w' = w + 1
          /\ wpc' = IF w + 1 < NumChunks THEN "await" ELSE "cleanup"
    /\ UNCHANGED <<plan, gate, buf, taskVars, out>>

TakeChunk ==
    /\ wpc = "await"
    /\ w \in ready
    /\ \/ /\ results[w] = "data"
          /\ wpc' = "writing"
          /\ UNCHANGED failedAt
       \/ /\ results[w] = "exc"
          /\ wpc' = "cleanup"
          /\ failedAt' = w
    /\ UNCHANGED <<plan, gate, buf, taskVars, w, out>>

\* Mutation: no max(0, ...): a raced chunk 0 was never counted.
UnclampedReleased == buf - plan.size[w]

Released == IF buf > plan.size[w] THEN buf - plan.size[w] ELSE 0

\* Mutation: _buf_has_space.set() is left out.
WriteDoneNoWake ==
    /\ wpc = "writing"
    /\ out' = Append(out, w)
    /\ buf' = Released
    /\ gate' = IF w + 1 < NumChunks THEN gate \cup {w + 1} ELSE gate
    /\ w' = w + 1
    /\ wpc' = IF w + 1 < NumChunks THEN "await" ELSE "cleanup"
    /\ UNCHANGED <<plan, pc, semq, results, ready, cand, failedAt>>

\* resp.write returned: release the bytes, wake the waiters, open a gate.
WriteDone ==
    /\ wpc = "writing"
    /\ out' = Append(out, w)
    /\ buf' = Released
    /\ pc' = [i \in Chunks |-> IF pc[i] = "bufwait" THEN "woken" ELSE pc[i]]
    /\ gate' = IF w + 1 < NumChunks THEN gate \cup {w + 1} ELSE gate
    /\ w' = w + 1
    /\ wpc' = IF w + 1 < NumChunks THEN "await" ELSE "cleanup"
    /\ UNCHANGED <<plan, semq, results, ready, cand, failedAt>>

\* resp.write raised: the client went away.
WriteFail ==
    /\ wpc = "writing"
    /\ wpc' = "cleanup"
    /\ failedAt' = Unexpected
    /\ UNCHANGED <<plan, gate, buf, taskVars, w, out>>

\* The handler's own task is cancelled (the server shuts down) while send() awaits
\* a chunk or a write: CancelledError passes "except Exception".
Abort ==
    /\ Running
    /\ wpc' = "cleanup"
    /\ failedAt' = Aborted
    /\ UNCHANGED <<plan, gate, buf, taskVars, w, out>>

\* What a cancelled chunk-0 race does to its sub-tasks.  The handler cancels the
\* first that runs, and "await t" raises that CancelledError out of the handler;
\* the finally clause then goes through "pending", a set, in either order, and
\* is left in the same way at the first cancelled sub-task it awaits.  So with
\* both running, the second is reached only if the set yields it first.
CancelRace ==
    \E reached \in {Candidates, {"a"}} :
        /\ reached = {"a"} => cand["a"] = "run"
        /\ cand' = [c \in Candidates |->
                      IF c \in reached /\ cand[c] = "run" THEN "cancelled" ELSE cand[c]]

\* A cancelled task leaves the queue of fetch_sem.
Without(s, i) ==
    IF \E k \in DOMAIN s : s[k] = i
    THEN RemoveAt(s, CHOOSE k \in DOMAIN s : s[k] = i)
    ELSE s

\* CancelledError reaches a task that had not finished; one that was inside
\* the semaphore still sets its ready event on the way out.
CancelTask(i) ==
    /\ wpc = "cleanup"
    /\ pc[i] \notin Ended
    /\ pc' = [pc EXCEPT ![i] = "cancelled"]
    /\ semq' = Without(semq, i)
    /\ ready' = IF pc[i] \in HoldsSem THEN ready \cup {i} ELSE ready
    /\ IF pc[i] = "race" THEN CancelRace ELSE UNCHANGED cand
    /\ UNCHANGED <<plan, gate, buf, results, writeVars>>

\* gather() has returned; write_eof is sent unless send() was cancelled.
Close ==
    /\ wpc = "cleanup"
    /\ \A i \in Chunks : pc[i] \in Ended
    /\ wpc' = "closed"
    /\ UNCHANGED <<plan, gate, buf, taskVars, w, failedAt, out>>

Terminated == wpc = "closed" /\ UNCHANGED vars

Task(i) ==
    PassGate(i) \/ FetchOk(i) \/ FetchFail(i) \/ Recheck(i) \/ CancelTask(i)

Race ==
    \/ \E c \in Candidates, o \in {"ok", "exc"} : CandidateEnds(c, o)
    \/ RaceWake
    \/ ReapLoser

WriteLoop == TakeChunk \/ WriteDone \/ WriteFail \/ Close

Next ==
    \/ \E i \in Chunks : Task(i)
    \/ Acquire
    \/ Race
    \/ WriteLoop
    \/ Abort
    \/ Terminated

\* The event loop runs every coroutine that can run; a fetch ends by its own
\* timeouts, and a socket write ends by the client reading or leaving.  Nobody
\* has to cancel send().
Fairness ==
    /\ \A i \in Chunks : WF_vars(Task(i))
    /\ WF_vars(Acquire)
    /\ WF_vars(Race)
    /\ WF_vars(WriteLoop)

Spec == Init /\ [][Next]_vars /\ Fairness

-----------------------------------------------------------------------------
(* Properties.                                                             *)

\* Every variable has its type.
TypeOK ==
    /\ plan \in Plans
    /\ gate \subseteq Chunks
    /\ pc \in [Chunks -> TaskPC]
    /\ semq \in Seq(Chunks)
    /\ results \in [Chunks -> {"none", "data", "exc"}]
    /\ ready \subseteq Chunks
    /\ buf \in Nat
    /\ cand \in [Candidates ->
                    {"idle", "run", "ok", "exc", "lost", "cancelled"}]
    /\ w \in 0 .. NumChunks
    /\ wpc \in {"await", "writing", "cleanup", "closed"}
    /\ failedAt \in Chunks \cup {NoFailure, Unexpected, Aborted}
    /\ out \in Seq(Chunks)

\* The chunks in memory that the client has not received: what the comment on
\* line 41 calls buffered chunks.
Held == {i \in Chunks : i >= w /\ results[i] = "data"}

HeldBytes == SumFunctionOnSet(plan.size, Held)

\* A raced chunk 0 is stored without being counted, yet released.
Uncounted == IF plan.race THEN plan.size[0] ELSE 0

\* _buf_bytes is exactly the bytes stored and not yet sent, whatever order the
\* fetch tasks store in and wherever the stream fails, so the cap it is compared
\* with (lines 125 and 202) is a cap on memory: a chunk is neither released
\* twice nor forgotten.  After a race it may be short, for the whole stream, but
\* by no more than chunk 0.
BufferAccounting ==
    /\ buf <= HeldBytes /\ HeldBytes <= buf + Uncounted
    /\ buf <= plan.buffer

\* No lost wake-up: a task is asleep on _buf_has_space (line 129) only while its
\* chunk really does not fit; every release wakes all that slept.
NoLostWakeup ==
    Running => \A i \in Chunks : pc[i] = "bufwait" => ~Fits(i)

\* What the gates bound.  The first 2 * plan.prefetch tasks start at once (gates
\* 0 .. plan.prefetch - 1 are set and task i watches gate i - plan.prefetch);
\* after that, no task is further than plan.prefetch beyond the chunk that the
\* write loop is at.  (With no prefetch, only chunk 0 could pass.)
PrefetchWindow ==
    \A i \in Chunks :
        (pc[i] \notin {"gate", "cancelled"} /\ pc[i] \notin RacePC) =>
            i < 2 * plan.prefetch \/ i <= w + plan.prefetch

\* A failed fetch ends the stream at that very chunk: the client has everything
\* before it, and nothing at or after it was sent (lines 189 - 195).
FailsAtFirstBadChunk ==
    failedAt \in Chunks =>
        /\ results[failedAt] = "exc"
        /\ \A i \in Chunks : i < failedAt <=> \E k \in DOMAIN out : out[k] = i

\* A sub-task of the race runs on without its race task only if send() was
\* cancelled, and then it is the second one, alone, the first one cancelled: a
\* race that ends by itself, with a winner or without, leaves nobody downloading.
OrphanOnlyOnAbort ==
    \A c \in Candidates :
        (pc[0] \in Ended /\ cand[c] = "run") =>
            /\ failedAt = Aborted
            /\ c = "b" /\ cand["a"] = "cancelled"

\* The client's view, refined from the pipeline.
Status ==
    IF wpc # "closed" THEN "open"
    ELSE IF failedAt = NoFailure THEN "complete" ELSE "truncated"

Delivery == INSTANCE OrderedDelivery WITH delivered <- out, status <- Status

\* The pipeline implements in-order, exactly-once, all-or-truncated delivery,
\* under every plan, the ones that hang included.
DeliversInOrder == Delivery!Safety

\* The chunks that can be in flight while the write loop waits for chunk i.
WindowAt(i) ==
    {j \in Chunks : i <= j /\ (j < 2 * plan.prefetch \/ j <= i + plan.prefetch)}

\* The plans under which nobody can wait for ever: a single worker with room for
\* its chunk, or room for the whole window.  Two workers with less let a later
\* chunk fill the buffer before the chunk that the write loop waits for.
Sufficient ==
    /\ ~plan.race
    /\ plan.prefetch > 0
    /\ plan.workers > 0
    /\ \A i \in Chunks : plan.size[i] <= plan.buffer
    /\ plan.workers > 1 =>
          \A i \in Chunks :
              SumFunctionOnSet(plan.size, WindowAt(i)) <= plan.buffer

\* send() returns: no interleaving of fetches, buffer waits, gates and writes
\* leaves everyone waiting.
StreamEnds == Sufficient ~> wpc = "closed"



\* "The outer task list was cancelled (stream aborted).  Ensure both sub-tasks are
\* cleaned up before propagating" (lines 150 - 151): when the race task has
\* ended, neither sub-task runs.
BothCleanedUp ==
    pc[0] \in Ended => \A c \in Candidates : cand[c] # "run"
==============================================================================
