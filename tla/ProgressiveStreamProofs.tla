----------------------- MODULE ProgressiveStreamProofs -----------------------
(***************************************************************************)
(* Safety of a progressive stream for any number of chunks, any sizes and  *)
(* any prefetch, workers and buffer: the plans that hang included.         *)
(***************************************************************************)
EXTENDS ProgressiveStream, SequenceTheorems, SumLemmas

\* While the pipeline runs, the write loop is at a chunk.
TypeInv == TypeOK /\ (Running => w < NumChunks)

\* Where the write loop is, what it has sent, and how it ended.
PositionInv ==
    /\ Running => failedAt = NoFailure
    /\ ~Running => (failedAt = NoFailure <=> w = NumChunks)
    /\ Len(out) = w
    /\ \A k \in 1 .. w : out[k] = k - 1

\* A task reports once, when it ends.
ReportInv ==
    /\ \A i \in Chunks : results[i] # "none" => pc[i] = "done"
    /\ \A i \in ready : pc[i] \in Ended
    /\ failedAt \in Chunks => failedAt = w /\ results[w] = "exc"

\* The write loop gets past chunk 0 only when that has reported; a sub-task of the
\* race runs beside its race task, or was left by one that send() cancelled.
RaceInv ==
    /\ (wpc # "await" \/ w > 0) => 0 \in ready \/ failedAt = Aborted
    /\ \A c \in Candidates : cand[c] = "run" =>
          \/ pc[0] = "race"
          \/ /\ pc[0] = "cancelled" /\ failedAt = Aborted
             /\ c = "b" /\ cand["a"] = "cancelled"

\* The gates that are open.
GateInv == \A g \in gate : g < plan.prefetch \/ g <= w

\* The tasks reach the semaphore, and leave its queue, in index order.
Arrived == {i \in Chunks : pc[i] \in HoldsSem \cup {"sem"}}

QueueInv ==
    /\ \A k \in 1 .. Len(semq) : pc[semq[k]] = "sem"
    /\ \A j, k \in 1 .. Len(semq) : j < k => semq[j] < semq[k]
    /\ \A j \in Holders : \A k \in 1 .. Len(semq) : j < semq[k]
    /\ \A i \in Chunks : pc[i] = "gate" => \A j \in Arrived : j < i
    /\ Cardinality(Holders) <= plan.workers

-----------------------------------------------------------------------------

\* The types of the stream's arguments.
LEMMA PlanType ==
    ASSUME plan \in Plans
    PROVE  /\ plan.prefetch \in Nat
           /\ plan.workers \in Nat
           /\ plan.buffer \in Nat
           /\ plan.size \in [Chunks -> Nat \ {0}]
           /\ plan.race \in BOOLEAN
BY StreamAssumption DEF StreamPlan

\* Chunks are natural numbers, the first is 0.
LEMMA ChunkType ==
    NumChunks \in Nat \ {0} /\ 0 \in Chunks /\ \A i \in Chunks : i \in Nat
BY StreamAssumption DEF Chunks

\* Without removes an element and keeps the order of the others.
LEMMA WithoutKeepsOrder ==
    ASSUME NEW s \in Seq(Chunks), NEW i \in Chunks
    PROVE  /\ Without(s, i) \in Seq(Chunks)
           /\ \A k \in 1 .. Len(Without(s, i)) :
                 \E m \in 1 .. Len(s) : Without(s, i)[k] = s[m]
           /\ (\A j, k \in 1 .. Len(s) : j < k => s[j] < s[k]) =>
                 /\ \A k \in 1 .. Len(Without(s, i)) : Without(s, i)[k] # i
                 /\ \A j, k \in 1 .. Len(Without(s, i)) :
                       j < k => Without(s, i)[j] < Without(s, i)[k]
<1>1. CASE ~ \E k \in DOMAIN s : s[k] = i
    BY <1>1, LenProperties DEF Without, Chunks
<1>2. CASE \E k \in DOMAIN s : s[k] = i
    <2> DEFINE d == CHOOSE k \in DOMAIN s : s[k] = i
               t == SubSeq(s, 1, d - 1)
               u == SubSeq(s, d + 1, Len(s))
    <2>1. d \in 1 .. Len(s) /\ s[d] = i /\ Len(s) \in Nat
        BY <1>2, LenProperties
    <2>2. Without(s, i) = t \o u
        BY <1>2 DEF Without, RemoveAt
    <2> HIDE DEF d
    <2>3. /\ t \in Seq(Chunks)
          /\ Len(t) = d - 1
          /\ \A k \in 1 .. d - 1 : t[k] = s[k]
        BY <2>1, ElementOfSeq, SubSeqProperties
    <2>4. /\ u \in Seq(Chunks)
          /\ Len(u) = Len(s) - d
          /\ \A k \in 1 .. Len(s) - d : u[k] = s[d + k]
        BY <2>1, ElementOfSeq, SubSeqProperties
    <2> HIDE DEF t, u
    <2> DEFINE r == t \o u
    <2>5. /\ r \in Seq(Chunks)
          /\ Len(r) = Len(s) - 1
        <3>1. r \in Seq(Chunks) /\ Len(r) = Len(t) + Len(u)
            BY <2>3, <2>4, ConcatProperties
        <3>2. QED BY <2>1, <2>3, <2>4, <3>1
    <2>6. ASSUME NEW k \in 1 .. Len(s) - 1
          PROVE  r[k] = IF k < d THEN s[k] ELSE s[k + 1]
        <3>1. r[k] = IF k <= Len(t) THEN t[k] ELSE u[k - Len(t)]
            BY <2>1, <2>3, <2>4, ConcatProperties
        <3> HIDE DEF r
        <3>2. CASE k < d
            BY <2>1, <2>3, <3>1, <3>2
        <3>3. CASE k >= d
            <4>1. k - Len(t) \in 1 .. Len(s) - d /\ d + (k - Len(t)) = k + 1
                BY <2>1, <2>3, <3>3
            <4>2. r[k] = u[k - Len(t)]
                BY <2>1, <2>3, <3>1, <3>3
            <4>3. u[k - Len(t)] = s[d + (k - Len(t))]
                BY <2>4, <4>1
            <4>4. QED BY <2>1, <3>3, <4>1, <4>2, <4>3
        <3>4. k \in Int /\ d \in Int
            BY <2>1
        <3>5. QED BY <3>2, <3>3, <3>4
    <2> HIDE DEF r
    <2>7. ASSUME NEW k \in 1 .. Len(s)
          PROVE  s[k] \in Int
        <3>1. s[k] \in Chunks
            BY ElementOfSeq
        <3>2. QED BY <3>1, ChunkType
    <2>8. \A k \in 1 .. Len(r) : \E m \in 1 .. Len(s) : r[k] = s[m]
        <3>1. TAKE k \in 1 .. Len(r)
        <3>2. k \in 1 .. Len(s) - 1 /\ k \in 1 .. Len(s) /\ k + 1 \in 1 .. Len(s)
            BY <2>1, <2>5
        <3>3. r[k] = s[k] \/ r[k] = s[k + 1]
            BY <2>6, <3>2
        <3>4. QED BY <3>2, <3>3
    <2>9. ASSUME \A j, k \in 1 .. Len(s) : j < k => s[j] < s[k],
                 NEW k \in 1 .. Len(r)
          PROVE  /\ r[k] # i
                 /\ \A j \in 1 .. Len(r) : j < k => r[j] < r[k]
        <3>1. /\ k \in 1 .. Len(s)
              /\ k + 1 \in 1 .. Len(s)
              /\ r[k] = IF k < d THEN s[k] ELSE s[k + 1]
            BY <2>1, <2>5, <2>6
        <3>2. r[k] # i
            BY <2>1, <2>7, <2>9, <3>1
        <3>3. ASSUME NEW j \in 1 .. Len(r), j < k
              PROVE  r[j] < r[k]
            <4>1. /\ j \in 1 .. Len(s)
                  /\ j + 1 \in 1 .. Len(s)
                  /\ r[j] = IF j < d THEN s[j] ELSE s[j + 1]
                BY <2>1, <2>5, <2>6
            <4>2. QED BY <2>1, <2>7, <2>9, <3>1, <3>3, <4>1
        <3>4. QED BY <3>2, <3>3
    <2>10. QED BY <2>2, <2>5, <2>8, <2>9 DEF r
<1>3. QED BY <1>1, <1>2

-----------------------------------------------------------------------------
(* Type correctness.                                                       *)

\* The initial state is well typed.
LEMMA TypeInit == Init => TypeInv
<1> SUFFICES ASSUME Init PROVE TypeInv
    OBVIOUS
<1>1. <<>> \in Seq(Chunks)
    BY EmptySeq
<1>2. QED BY <1>1, ChunkType
    DEF Init, TypeInv, TypeOK, Running, TaskPC, RacePC, Candidates, Chunks,
        NoFailure

\* Storing a result, or going to wait for space, keeps the types.
LEMMA TryStoreType ==
    ASSUME TypeOK, NEW i \in Chunks, TryStore(i)
    PROVE  /\ buf' \in Nat
           /\ results' \in [Chunks -> {"none", "data", "exc"}]
           /\ ready' \subseteq Chunks
           /\ pc' \in [Chunks -> TaskPC]
<1>1. plan.size[i] \in Nat
    BY PlanType DEF TypeOK
<1>2. /\ buf \in Nat /\ ready \subseteq Chunks
      /\ results \in [Chunks -> {"none", "data", "exc"}]
      /\ pc \in [Chunks -> TaskPC]
      /\ "done" \in TaskPC /\ "bufwait" \in TaskPC
    BY DEF TypeOK, TaskPC, HoldsSem, Ended
<1>3. QED BY <1>1, <1>2 DEF TryStore

\* The steps of a fetch task keep the types.
LEMMA TaskType ==
    ASSUME TypeInv, NEW i \in Chunks, Task(i)
    PROVE  TypeInv'
<1>1. CASE PassGate(i)
    <2>1. semq' \in Seq(Chunks)
        BY <1>1, AppendProperties DEF PassGate, TypeInv, TypeOK
    <2>2. QED BY <1>1, <2>1
        DEF PassGate, TypeInv, TypeOK, Running, TaskPC, writeVars
<1>2. CASE FetchOk(i)
    BY <1>2, TryStoreType DEF FetchOk, TypeInv, TypeOK, Running, writeVars
<1>3. CASE FetchFail(i)
    BY <1>3 DEF FetchFail, TypeInv, TypeOK, Running, TaskPC, Ended, writeVars
<1>4. CASE Recheck(i)
    BY <1>4, TryStoreType DEF Recheck, TypeInv, TypeOK, Running, writeVars
<1>5. CASE CancelTask(i)
    <2>1. semq' \in Seq(Chunks)
        BY <1>5, WithoutKeepsOrder DEF CancelTask, TypeInv, TypeOK
    <2>2. cand' \in [Candidates ->
                        {"idle", "run", "ok", "exc", "lost", "cancelled"}]
        BY <1>5 DEF CancelTask, CancelRace, TypeInv, TypeOK
    <2>3. QED BY <1>5, <2>1, <2>2
        DEF CancelTask, TypeInv, TypeOK, Running, TaskPC, Ended, writeVars
<1>6. QED BY <1>1, <1>2, <1>3, <1>4, <1>5 DEF Task

\* Granting a permit keeps the types.
LEMMA AcquireType ==
    ASSUME TypeInv, Acquire
    PROVE  TypeInv'
<1>1. Head(semq) \in Chunks /\ semq' \in Seq(Chunks)
    BY HeadTailProperties DEF Acquire, TypeInv, TypeOK
<1>2. QED BY <1>1
    DEF Acquire, TypeInv, TypeOK, Running, TaskPC, HoldsSem, writeVars

\* The steps of the race keep the types.
LEMMA RaceType ==
    ASSUME TypeInv, Race
    PROVE  TypeInv'
<1>1. ASSUME NEW c \in Candidates, NEW o \in {"ok", "exc"}, CandidateEnds(c, o)
      PROVE  TypeInv'
    BY <1>1 DEF CandidateEnds, TypeInv, TypeOK, Running, writeVars
<1>2. CASE RaceWake
    <2>1. /\ results' \in [Chunks -> {"none", "data", "exc"}]
          /\ ready' \subseteq Chunks
          /\ pc' \in [Chunks -> TaskPC]
        BY <1>2, ChunkType
        DEF RaceWake, StoreRace, TypeInv, TypeOK, TaskPC, RacePC, Ended
    <2>2. cand' \in [Candidates ->
                        {"idle", "run", "ok", "exc", "lost", "cancelled"}]
        BY <1>2 DEF RaceWake, TypeInv, TypeOK
    <2>3. QED BY <1>2, <2>1, <2>2
        DEF RaceWake, TypeInv, TypeOK, Running, writeVars
<1>3. CASE ReapLoser
    BY <1>3, ChunkType
    DEF ReapLoser, TypeInv, TypeOK, Running, TaskPC, Ended, writeVars
<1>4. QED BY <1>1, <1>2, <1>3 DEF Race

\* The steps of send() keep the types, and its chunk in range.
LEMMA WriteLoopType ==
    ASSUME TypeInv, WriteLoop \/ Abort
    PROVE  TypeInv'
<1>1. w \in Nat /\ (Running => w \in Chunks)
    BY ChunkType DEF TypeInv, TypeOK, Running, Chunks
<1>2. CASE TakeChunk
    BY <1>1, <1>2 DEF TakeChunk, TypeInv, TypeOK, Running, taskVars
<1>3. CASE WriteDone
    <2>1. w \in Chunks /\ w + 1 \in 0 .. NumChunks
        BY <1>1, <1>3, ChunkType DEF WriteDone, Running, TypeInv
    <2>2. out' \in Seq(Chunks)
        BY <1>3, <2>1, AppendProperties DEF WriteDone, TypeInv, TypeOK
    <2>3. buf' \in Nat
        <3>1. plan.size[w] \in Nat
            BY <2>1, PlanType DEF TypeInv, TypeOK
        <3>2. QED BY <1>3, <3>1 DEF WriteDone, Released, TypeInv, TypeOK
    <2>4. pc' \in [Chunks -> TaskPC]
        BY <1>3 DEF WriteDone, TypeInv, TypeOK, TaskPC, HoldsSem
    <2>5. gate' \subseteq Chunks
        BY <1>3, <2>1, ChunkType DEF WriteDone, TypeInv, TypeOK, Chunks
    <2>6. QED BY <1>3, <2>1, <2>2, <2>3, <2>4, <2>5
        DEF WriteDone, TypeInv, TypeOK, Running
<1>4. CASE WriteFail
    BY <1>4 DEF WriteFail, TypeInv, TypeOK, Running, Unexpected, taskVars
<1>5. CASE Close \/ Abort
    BY <1>5 DEF Close, Abort, TypeInv, TypeOK, Running, taskVars
<1>6. QED BY <1>2, <1>3, <1>4, <1>5 DEF WriteLoop

\* Every step keeps the types.
LEMMA TypeStep == TypeInv /\ [Next]_vars => TypeInv'
<1> SUFFICES ASSUME TypeInv, [Next]_vars PROVE TypeInv'
    OBVIOUS
<1>1. CASE UNCHANGED vars
    BY <1>1 DEF vars, TypeInv, TypeOK, Running
<1>2. CASE Terminated
    BY <1>1, <1>2 DEF Terminated
<1>3. QED BY <1>1, <1>2, TaskType, AcquireType, RaceType, WriteLoopType DEF Next

\* The types hold always.
LEMMA TypeAlways == Spec => []TypeInv
BY TypeInit, TypeStep, PTL DEF Spec

\* Type correctness: among the rest, _buf_bytes is never negative and the write
\* loop never runs past the last chunk.
THEOREM StreamTypeCorrect == Spec => []TypeOK
<1>1. TypeInv => TypeOK
    BY DEF TypeInv
<1>2. QED BY <1>1, TypeAlways, PTL

-----------------------------------------------------------------------------
(* Only the write loop moves what the client sees.                         *)

\* Fetch tasks, the semaphore and the race leave the write loop's variables alone.
LEMMA PipelineLeavesWriter ==
    ASSUME NEW i \in Chunks, Task(i) \/ Acquire \/ Race
    PROVE  UNCHANGED writeVars
BY DEF Task, PassGate, FetchOk, FetchFail, Recheck, CancelTask, Acquire, Race,
       CandidateEnds, RaceWake, ReapLoser

\* The write loop starts at chunk 0 with nothing sent.
LEMMA PositionInit == Init => PositionInv
BY ChunkType DEF Init, PositionInv, Running, NoFailure

\* A chunk that was written is the next one in order.
LEMMA WriteDonePosition ==
    ASSUME TypeInv, PositionInv, WriteDone
    PROVE  /\ PositionInv'
           /\ Len(out) = w
           /\ w < NumChunks
           /\ out' = Append(out, w)
           /\ wpc' # "closed"
<1>1. w \in Chunks /\ w < NumChunks /\ failedAt = NoFailure /\ w \in Nat
    BY ChunkType DEF WriteDone, TypeInv, TypeOK, PositionInv, Running, Chunks
<1>2. Len(out') = w + 1 /\ \A k \in 1 .. w + 1 : out'[k] = k - 1
    BY <1>1, AppendProperties DEF WriteDone, PositionInv, TypeInv, TypeOK
<1>3. w' = w + 1 /\ failedAt' = NoFailure
    BY <1>1 DEF WriteDone
<1>4. QED BY <1>1, <1>2, <1>3, ChunkType DEF WriteDone, PositionInv, Running

\* Every step keeps the position of the write loop right.
LEMMA PositionStep == TypeInv /\ PositionInv /\ [Next]_vars => PositionInv'
<1> SUFFICES ASSUME TypeInv, PositionInv, [Next]_vars PROVE PositionInv'
    OBVIOUS
<1>1. CASE UNCHANGED vars \/ Terminated
    BY <1>1 DEF Terminated, vars, PositionInv, Running
<1>2. ASSUME NEW i \in Chunks, Task(i) \/ Acquire \/ Race PROVE PositionInv'
    BY <1>2, PipelineLeavesWriter DEF writeVars, PositionInv, Running
<1>3. CASE TakeChunk
    <2>1. w \in Chunks /\ w < NumChunks
        BY <1>3, ChunkType DEF TakeChunk, TypeInv, TypeOK, Running, Chunks
    <2>2. w # NoFailure /\ w # NumChunks
        BY <2>1, ChunkType DEF NoFailure
    <2>3. QED BY <1>3, <2>2 DEF TakeChunk, PositionInv, Running
<1>4. CASE WriteDone
    BY <1>4, WriteDonePosition
<1>5. CASE WriteFail \/ Abort
    <2>1. w # NumChunks
        BY <1>5, ChunkType DEF WriteFail, Abort, TypeInv, TypeOK, Running
    <2>2. QED BY <1>5, <2>1
        DEF WriteFail, Abort, PositionInv, Running, NoFailure, Unexpected, Aborted
<1>6. CASE Close
    BY <1>6 DEF Close, PositionInv, Running
<1>7. QED BY <1>1, <1>2, <1>3, <1>4, <1>5, <1>6, ChunkType DEF Next, WriteLoop

\* Whatever the pipeline does, the client's view takes a step of OrderedDelivery
\* or none.
LEMMA StreamStepDelivers ==
    TypeInv /\ PositionInv /\ [Next]_vars =>
        [Delivery!Next]_(Delivery!vars)
<1> SUFFICES ASSUME TypeInv, PositionInv, [Next]_vars
             PROVE  [Delivery!Next]_(Delivery!vars)
    OBVIOUS
<1> USE DEF Delivery!vars, Status
<1>1. CASE UNCHANGED vars \/ Terminated
    BY <1>1 DEF Terminated, vars
<1>2. ASSUME NEW i \in Chunks, Task(i) \/ Acquire \/ Race
      PROVE  UNCHANGED Delivery!vars
    BY <1>2, PipelineLeavesWriter DEF writeVars
<1>3. CASE TakeChunk
    BY <1>3 DEF TakeChunk
<1>4. CASE WriteDone
    <2>1. Delivery!Deliver
        BY <1>4, WriteDonePosition DEF WriteDone, Delivery!Deliver
    <2>2. QED BY <2>1 DEF Delivery!Next
<1>5. CASE WriteFail \/ Abort
    BY <1>5 DEF WriteFail, Abort, Running
<1>6. CASE Close
    <2>1. CASE failedAt = NoFailure
        BY <1>6, <2>1
        DEF Close, PositionInv, Running, Delivery!Next, Delivery!Complete
    <2>2. CASE failedAt # NoFailure
        <3>1. Len(out) < NumChunks
            BY <1>6, <2>2, ChunkType
            DEF Close, PositionInv, Running, TypeInv, TypeOK
        <3>2. QED BY <1>6, <2>2, <3>1
            DEF Close, Delivery!Next, Delivery!Truncate
    <2>3. QED BY <2>1, <2>2
<1>7. QED BY <1>1, <1>2, <1>3, <1>4, <1>5, <1>6, ChunkType DEF Next, WriteLoop

\* The position is right always.
LEMMA PositionAlways == Spec => []PositionInv
BY TypeAlways, PositionInit, PositionStep, PTL DEF Spec

\* send() implements OrderedDelivery under every plan: the client receives the
\* chunks in order, each once, and the response is complete exactly when it has
\* them all, however fetches, races, buffer waits and failures interleave.
THEOREM StreamDeliversInOrder == Spec => DeliversInOrder
<1>1. Init => Delivery!Init
    BY DEF Init, Delivery!Init, Status
<1>2. QED
    BY <1>1, TypeAlways, PositionAlways, StreamStepDelivers, PTL
    DEF Spec, DeliversInOrder, Delivery!Safety

-----------------------------------------------------------------------------
(* fetch_sem.                                                              *)

\* The holders of a permit can be counted.
LEMMA HoldersFinite == IsFiniteSet(Holders) /\ Cardinality(Holders) \in Nat
<1>1. IsFiniteSet(Chunks)
    BY FS_Interval, ChunkType DEF Chunks
<1>2. Holders \subseteq Chunks
    BY DEF Holders
<1>3. QED BY <1>1, <1>2, FS_Subset, FS_CardinalityType

\* Nobody queues at first.
LEMMA QueueInit == Init => QueueInv
<1> SUFFICES ASSUME Init PROVE QueueInv
    OBVIOUS
<1>1. Holders = {} /\ Arrived = {}
    BY DEF Init, Holders, Arrived, HoldsSem
<1>2. Cardinality(Holders) <= plan.workers
    BY <1>1, FS_EmptySet, PlanType DEF Init
<1>3. QED BY <1>1, <1>2 DEF Init, QueueInv

\* A step that only takes tasks out of the semaphore's hands keeps QueueInv.
LEMMA FewerKeepQueueInv ==
    ASSUME TypeInv, QueueInv,
           UNCHANGED <<plan, semq>>,
           \A i \in Chunks : pc'[i] = "gate" => pc[i] = "gate",
           \A i \in Chunks : pc'[i] = "sem" <=> pc[i] = "sem",
           \A i \in Chunks : pc'[i] \in HoldsSem => pc[i] \in HoldsSem
    PROVE  QueueInv'
<1>1. Holders' \subseteq Holders /\ Arrived' \subseteq Arrived
    BY DEF Holders, Arrived
<1>2. Cardinality(Holders') <= Cardinality(Holders)
    BY <1>1, HoldersFinite, FS_Subset
<1>3. Cardinality(Holders') \in Nat /\ plan.workers \in Nat
    BY <1>1, HoldersFinite, FS_Subset, FS_CardinalityType, PlanType
    DEF TypeInv, TypeOK
<1>4. Cardinality(Holders') <= plan'.workers
    BY <1>2, <1>3, HoldersFinite DEF QueueInv
<1>5. \A k \in 1 .. Len(semq) : semq[k] \in Chunks
    BY ElementOfSeq DEF TypeInv, TypeOK
<1>6. QED BY <1>1, <1>4, <1>5 DEF QueueInv

\* A task that passes its gate queues behind the lower chunks.
LEMMA PassGateQueue ==
    ASSUME TypeInv, QueueInv, NEW i \in Chunks, PassGate(i)
    PROVE  QueueInv'
<1>1. /\ semq \in Seq(Chunks)
      /\ Len(semq) \in Nat
      /\ Len(semq') = Len(semq) + 1
      /\ semq'[Len(semq) + 1] = i
      /\ \A k \in 1 .. Len(semq) : semq'[k] = semq[k] /\ semq[k] \in Chunks
    BY AppendProperties, ElementOfSeq, LenProperties
    DEF PassGate, TypeInv, TypeOK
<1>2. Holders' = Holders /\ Arrived' = Arrived \cup {i}
    BY DEF PassGate, Holders, Arrived, HoldsSem, TypeInv, TypeOK
<1>3. \A j \in Arrived : j < i
    BY DEF PassGate, QueueInv
<1>4. \A k \in 1 .. Len(semq) : semq[k] \in Arrived
    BY <1>1 DEF QueueInv, Arrived
<1>5. Holders \subseteq Arrived
    BY DEF Holders, Arrived
<1>6. \A k \in 1 .. Len(semq') : pc'[semq'[k]] = "sem"
    BY <1>1 DEF PassGate, QueueInv, TypeInv, TypeOK
<1>7. \A j, k \in 1 .. Len(semq') : j < k => semq'[j] < semq'[k]
    BY <1>1, <1>3, <1>4 DEF QueueInv
<1>8. \A j \in Holders' : \A k \in 1 .. Len(semq') : j < semq'[k]
    BY <1>1, <1>2, <1>3, <1>5 DEF QueueInv
<1>9. ASSUME NEW g \in Chunks, pc'[g] = "gate", NEW j \in Arrived'
      PROVE  j < g
    <2>1. pc[g] = "gate" /\ g # i
        BY <1>9 DEF PassGate, TypeInv, TypeOK
    <2>2. i < g
        BY <2>1, ChunkType DEF PassGate
    <2>3. QED BY <1>2, <2>1, <2>2 DEF QueueInv
<1>10. Cardinality(Holders') <= plan'.workers
    BY <1>2 DEF PassGate, QueueInv
<1>11. QED BY <1>6, <1>7, <1>8, <1>9, <1>10 DEF QueueInv

\* The task that gets the permit was waiting for it.
LEMMA HeadWaits ==
    ASSUME TypeInv, QueueInv, Acquire
    PROVE  Head(semq) \in Chunks /\ pc[Head(semq)] = "sem"
<1>1. Len(semq) \in Nat \ {0} /\ Head(semq) = semq[1]
    BY EmptySeq DEF Acquire, TypeInv, TypeOK
<1>2. QED BY <1>1, ElementOfSeq DEF QueueInv, TypeInv, TypeOK

\* The head of the queue takes a free permit.
LEMMA AcquireQueue ==
    ASSUME TypeInv, QueueInv, Acquire
    PROVE  QueueInv'
<1> DEFINE h == Head(semq)
<1>1. /\ h \in Chunks
      /\ h = semq[1]
      /\ Len(semq) \in Nat
      /\ Len(semq) >= 1
      /\ Len(semq') = Len(semq) - 1
      /\ \A k \in 1 .. Len(semq') : semq'[k] = semq[k + 1]
      /\ \A k \in 1 .. Len(semq) : semq[k] \in Chunks
    BY HeadTailProperties, ElementOfSeq, LenProperties, EmptySeq
    DEF Acquire, TypeInv, TypeOK
<1>2. pc[h] = "sem" /\ \A k \in 1 .. Len(semq') : h < semq'[k]
    BY <1>1 DEF QueueInv
<1>3. pc' = [pc EXCEPT ![h] = "fetch"] /\ plan' = plan
    BY DEF Acquire
<1> HIDE DEF h
<1>4. Holders' = Holders \cup {h} /\ h \notin Holders /\ Arrived' = Arrived
    BY <1>1, <1>2, <1>3 DEF Holders, Arrived, HoldsSem, TypeInv, TypeOK
<1>5. ASSUME NEW k \in 1 .. Len(semq')
      PROVE  pc'[semq'[k]] = "sem"
    <2>1. k + 1 \in 1 .. Len(semq) /\ semq'[k] = semq[k + 1]
        BY <1>1
    <2>2. semq[k + 1] \in Chunks /\ pc[semq[k + 1]] = "sem"
        BY <1>1, <2>1 DEF QueueInv
    <2>3. semq[k + 1] # h
        BY <1>1, <1>2, <2>1, <2>2, ChunkType
    <2>4. QED BY <1>3, <2>1, <2>2, <2>3 DEF TypeInv, TypeOK
<1>6. \A j, k \in 1 .. Len(semq') : j < k => semq'[j] < semq'[k]
    BY <1>1 DEF QueueInv
<1>7. \A j \in Holders' : \A k \in 1 .. Len(semq') : j < semq'[k]
    BY <1>1, <1>2, <1>4 DEF QueueInv
<1>8. \A i \in Chunks : pc'[i] = "gate" => \A j \in Arrived' : j < i
    BY <1>3, <1>4 DEF QueueInv, TypeInv, TypeOK
<1>9. Cardinality(Holders') = Cardinality(Holders) + 1
    BY <1>4, HoldersFinite, FS_AddElement
<1>10. Cardinality(Holders') <= plan'.workers
    BY <1>3, <1>9, HoldersFinite, PlanType DEF Acquire, TypeInv, TypeOK
<1>11. QED BY <1>5, <1>6, <1>7, <1>8, <1>10 DEF QueueInv

\* A cancelled task leaves the queue or gives its permit back.
LEMMA CancelTaskQueue ==
    ASSUME TypeInv, QueueInv, NEW i \in Chunks, CancelTask(i)
    PROVE  QueueInv'
<1>1. /\ \A k \in 1 .. Len(semq') :
            semq'[k] # i /\ \E m \in 1 .. Len(semq) : semq'[k] = semq[m]
      /\ \A j, k \in 1 .. Len(semq') : j < k => semq'[j] < semq'[k]
    <2>1. semq \in Seq(Chunks) /\ semq' = Without(semq, i)
        BY DEF CancelTask, TypeInv, TypeOK
    <2>2. \A j, k \in 1 .. Len(semq) : j < k => semq[j] < semq[k]
        BY DEF QueueInv
    <2> DEFINE rest == Without(semq, i)
    <2>3. /\ \A k \in 1 .. Len(rest) : \E m \in 1 .. Len(semq) : rest[k] = semq[m]
          /\ \A k \in 1 .. Len(rest) : rest[k] # i
          /\ \A j, k \in 1 .. Len(rest) : j < k => rest[j] < rest[k]
        BY <2>1, <2>2, WithoutKeepsOrder, Zenon
    <2>4. semq' = rest
        BY <2>1
    <2> HIDE DEF rest
    <2>5. QED BY <2>3, <2>4
<1>2. \A k \in 1 .. Len(semq) : semq[k] \in Chunks
    BY ElementOfSeq DEF TypeInv, TypeOK
<1>3. Holders' \subseteq Holders /\ Arrived' \subseteq Arrived
    BY DEF CancelTask, Holders, Arrived, HoldsSem, TypeInv, TypeOK
<1>4. Cardinality(Holders') <= plan'.workers
    <2>1. /\ Cardinality(Holders') <= Cardinality(Holders)
          /\ Cardinality(Holders') \in Nat
        BY <1>3, HoldersFinite, FS_Subset, FS_CardinalityType
    <2>2. QED BY <2>1, HoldersFinite, PlanType
        DEF CancelTask, QueueInv, TypeInv, TypeOK
<1>5. \A k \in 1 .. Len(semq') : pc'[semq'[k]] = "sem"
    BY <1>1, <1>2 DEF CancelTask, QueueInv, TypeInv, TypeOK
<1>6. \A j \in Holders' : \A k \in 1 .. Len(semq') : j < semq'[k]
    BY <1>1, <1>3 DEF QueueInv
<1>7. \A g \in Chunks : pc'[g] = "gate" => \A j \in Arrived' : j < g
    BY <1>3 DEF CancelTask, QueueInv, TypeInv, TypeOK
<1>8. QED BY <1>1, <1>4, <1>5, <1>6, <1>7 DEF QueueInv

\* Every step keeps the queue and its permits in order.
LEMMA QueueStep == TypeInv /\ QueueInv /\ [Next]_vars => QueueInv'
<1> SUFFICES ASSUME TypeInv, QueueInv, [Next]_vars PROVE QueueInv'
    OBVIOUS
<1>1. CASE UNCHANGED vars \/ Terminated
    BY <1>1, FewerKeepQueueInv DEF Terminated, vars
<1>2. ASSUME NEW i \in Chunks, Task(i) PROVE QueueInv'
    <2>1. CASE FetchOk(i) \/ FetchFail(i) \/ Recheck(i)
        BY <2>1, FewerKeepQueueInv
        DEF FetchOk, FetchFail, Recheck, TryStore, HoldsSem, TypeInv, TypeOK
    <2>2. QED BY <1>2, <2>1, PassGateQueue, CancelTaskQueue DEF Task
<1>3. CASE Race
    BY <1>3, ChunkType, FewerKeepQueueInv
    DEF Race, CandidateEnds, RaceWake, StoreRace, ReapLoser, HoldsSem, TypeInv,
        TypeOK
<1>4. CASE WriteLoop \/ Abort
    BY <1>4, FewerKeepQueueInv
    DEF WriteLoop, TakeChunk, WriteDone, WriteFail, Close, Abort, taskVars,
        HoldsSem, TypeInv, TypeOK
<1>5. QED BY <1>1, <1>2, <1>3, <1>4, AcquireQueue DEF Next

\* The queue is in order always.
LEMMA QueueAlways == Spec => []QueueInv
BY TypeAlways, QueueInit, QueueStep, PTL DEF Spec

-----------------------------------------------------------------------------
(* A task reports once.                                                    *)

\* Nothing has reported at first.
LEMMA ReportInit == Init => ReportInv
BY ChunkType DEF Init, ReportInv, NoFailure, Chunks, Candidates

\* A stored result reports its task; a wait for space reports nothing.
LEMMA TryStoreReport ==
    ASSUME TypeInv, ReportInv, NEW i \in Chunks, pc[i] \in {"fetch", "woken"},
           TryStore(i), UNCHANGED writeVars
    PROVE  ReportInv'
<1>1. pc[i] # "done" /\ results[i] = "none"
    BY DEF ReportInv, TypeInv, TypeOK
<1>2. failedAt \in Chunks => failedAt # i
    BY <1>1 DEF ReportInv
<1>3. CASE Fits(i)
    <2>1. /\ pc' = [pc EXCEPT ![i] = "done"] /\ pc \in [Chunks -> TaskPC]
          /\ results' = [results EXCEPT ![i] = "data"]
          /\ results \in [Chunks -> {"none", "data", "exc"}]
          /\ ready' = ready \cup {i} /\ ready \subseteq Chunks
          /\ UNCHANGED <<w, failedAt>>
        BY <1>3 DEF TryStore, TypeInv, TypeOK, writeVars
    <2>2. \A j \in Chunks : results'[j] # "none" => pc'[j] = "done"
        BY <2>1 DEF ReportInv
    <2>3. \A j \in ready' : pc'[j] \in Ended
        BY <2>1 DEF ReportInv, Ended
    <2>4. failedAt' \in Chunks => failedAt' = w' /\ results'[w'] = "exc"
        BY <1>2, <2>1 DEF ReportInv
    <2>5. QED BY <2>2, <2>3, <2>4 DEF ReportInv
<1>4. CASE ~Fits(i)
    <2>1. /\ pc' = [pc EXCEPT ![i] = "bufwait"] /\ pc \in [Chunks -> TaskPC]
          /\ UNCHANGED <<results, ready, w, wpc, failedAt>>
        BY <1>4 DEF TryStore, TypeInv, TypeOK, writeVars
    <2>2. \A j \in Chunks \ {i} : pc'[j] = pc[j]
        BY <2>1
    <2>3. i \notin ready /\ ready \subseteq Chunks
        BY DEF ReportInv, TypeInv, TypeOK, Ended
    <2>4. \A j \in Chunks : results'[j] # "none" => pc'[j] = "done"
        BY <1>1, <2>1, <2>2 DEF ReportInv
    <2>5. \A j \in ready' : pc'[j] \in Ended
        BY <2>1, <2>2, <2>3 DEF ReportInv
    <2>6. QED BY <2>1, <2>4, <2>5 DEF ReportInv
<1>5. QED BY <1>3, <1>4

\* The steps of a fetch task report at most once, at its end.
LEMMA TaskReport ==
    ASSUME TypeInv, ReportInv, NEW i \in Chunks, Task(i)
    PROVE  ReportInv'
<1>1. CASE PassGate(i)
    BY <1>1, ChunkType
    DEF PassGate, ReportInv, TypeInv, TypeOK, writeVars, Ended
<1>2. CASE FetchOk(i)
    BY <1>2, TryStoreReport DEF FetchOk
<1>3. CASE FetchFail(i)
    <2>1. pc[i] # "done" /\ results[i] = "none"
        BY <1>3 DEF FetchFail, ReportInv, TypeInv, TypeOK
    <2>2. failedAt \in Chunks => failedAt # i
        BY <2>1 DEF ReportInv
    <2>3. QED BY <1>3, <2>1, <2>2, ChunkType
        DEF FetchFail, ReportInv, TypeInv, TypeOK, writeVars, Ended
<1>4. CASE Recheck(i)
    BY <1>4, TryStoreReport DEF Recheck
<1>5. CASE CancelTask(i)
    BY <1>5 DEF CancelTask, ReportInv, TypeInv, TypeOK, writeVars, Ended
<1>6. QED BY <1>1, <1>2, <1>3, <1>4, <1>5 DEF Task

\* The race reports at most once, at its end.
LEMMA RaceReport ==
    ASSUME TypeInv, ReportInv, Race
    PROVE  ReportInv'
<1>1. ASSUME NEW c \in Candidates, NEW o \in {"ok", "exc"}, CandidateEnds(c, o)
      PROVE  ReportInv'
    BY <1>1 DEF CandidateEnds, ReportInv, TypeInv, TypeOK, writeVars
<1>2. CASE RaceWake
    <2>1. pc[0] = "race" /\ results[0] = "none" /\ 0 \notin ready
        BY <1>2, ChunkType DEF RaceWake, ReportInv, TypeInv, TypeOK, Ended
    <2>2. UNCHANGED <<w, wpc, failedAt>>
        BY <1>2 DEF RaceWake, writeVars
    <2>3. ASSUME NEW r \in {"data", "exc"}, StoreRace(r)
          PROVE  ReportInv'
        BY <2>1, <2>2, <2>3, ChunkType
        DEF StoreRace, ReportInv, TypeInv, TypeOK, Ended
    <2>4. CASE /\ pc' = [pc EXCEPT ![0] = "reap"]
               /\ UNCHANGED <<results, ready>>
        BY <2>1, <2>2, <2>4, ChunkType DEF ReportInv, TypeInv, TypeOK, Ended
    <2>5. CASE UNCHANGED <<pc, results, ready>>
        BY <2>1, <2>2, <2>5 DEF ReportInv
    <2>6. QED
        BY <1>2, <2>3, <2>4, <2>5 DEF RaceWake
<1>3. CASE ReapLoser
    BY <1>3, ChunkType
    DEF ReapLoser, ReportInv, TypeInv, TypeOK, writeVars, Ended
<1>4. QED BY <1>1, <1>2, <1>3 DEF Race

\* The write loop goes on only past chunks that have reported.
LEMMA WriteLoopReport ==
    ASSUME TypeInv, PositionInv, ReportInv, WriteLoop \/ Abort
    PROVE  ReportInv'
<1>1. CASE TakeChunk
    BY <1>1, ChunkType
    DEF TakeChunk, ReportInv, PositionInv, TypeInv, TypeOK, Running, taskVars,
        NoFailure, Chunks
<1>2. CASE WriteDone
    <2>1. failedAt' \notin Chunks
        BY <1>2, ChunkType
        DEF WriteDone, ReportInv, PositionInv, Running, NoFailure, Chunks
    <2>2. \A i \in Chunks : pc[i] \in Ended => pc'[i] = pc[i]
        BY <1>2 DEF WriteDone, Ended
    <2>3. \A i \in ready : pc[i] \in Ended /\ i \in Chunks
        BY DEF ReportInv, TypeInv, TypeOK
    <2>4. QED BY <1>2, <2>1, <2>2, <2>3, ChunkType
        DEF WriteDone, ReportInv, TypeInv, TypeOK, Ended
<1>3. CASE WriteFail \/ Abort
    <2>1. failedAt' \notin Chunks
        BY <1>3, ChunkType DEF WriteFail, Abort, Unexpected, Aborted
    <2>2. QED BY <1>3, <2>1 DEF WriteFail, Abort, ReportInv, taskVars
<1>4. CASE Close
    BY <1>4 DEF Close, ReportInv, taskVars
<1>5. QED BY <1>1, <1>2, <1>3, <1>4 DEF WriteLoop

\* Every step keeps the reports right.
LEMMA ReportStep ==
    TypeInv /\ PositionInv /\ QueueInv /\ ReportInv /\ [Next]_vars => ReportInv'
<1> SUFFICES ASSUME TypeInv, PositionInv, QueueInv, ReportInv, [Next]_vars
             PROVE  ReportInv'
    OBVIOUS
<1>1. CASE UNCHANGED vars \/ Terminated
    BY <1>1 DEF Terminated, vars, ReportInv
<1>2. CASE Acquire
    <2>1. Head(semq) \in Chunks /\ pc[Head(semq)] = "sem"
        BY <1>2, HeadWaits
    <2>2. QED BY <1>2, <2>1, ChunkType
        DEF Acquire, ReportInv, TypeInv, TypeOK, writeVars, Ended
<1>3. QED BY <1>1, <1>2, TaskReport, RaceReport, WriteLoopReport DEF Next

\* The reports are right always.
LEMMA ReportAlways == Spec => []ReportInv
BY TypeAlways, PositionAlways, QueueAlways, ReportInit, ReportStep, PTL DEF Spec

\* A failed chunk ends the stream exactly there: everything before it was sent,
\* nothing at or after it.
THEOREM FailsAtFirstBadChunkSafe == Spec => []FailsAtFirstBadChunk
<1>1. TypeInv /\ PositionInv /\ ReportInv => FailsAtFirstBadChunk
    <2> SUFFICES ASSUME TypeInv, PositionInv, ReportInv, failedAt \in Chunks
                 PROVE  /\ results[failedAt] = "exc"
                        /\ \A i \in Chunks :
                              i < failedAt <=> \E k \in DOMAIN out : out[k] = i
        BY DEF FailsAtFirstBadChunk
    <2>1. failedAt = w /\ results[failedAt] = "exc" /\ w \in Nat
        BY ChunkType DEF ReportInv
    <2>2. DOMAIN out = 1 .. w /\ \A k \in 1 .. w : out[k] = k - 1
        BY LenProperties DEF PositionInv, TypeInv, TypeOK
    <2>3. ASSUME NEW i \in Chunks
          PROVE  i < w <=> \E k \in DOMAIN out : out[k] = i
        <3>1. i \in Nat
            BY ChunkType
        <3>2. ASSUME i < w PROVE \E k \in DOMAIN out : out[k] = i
            <4>1. i + 1 \in 1 .. w /\ out[i + 1] = i
                BY <2>1, <2>2, <3>1, <3>2
            <4>2. QED BY <2>2, <4>1
        <3>3. ASSUME NEW k \in DOMAIN out, out[k] = i PROVE i < w
            BY <2>1, <2>2, <3>1, <3>3
        <3>4. QED BY <3>2, <3>3
    <2>4. QED BY <2>1, <2>3
<1>2. QED BY <1>1, TypeAlways, PositionAlways, ReportAlways, PTL

-----------------------------------------------------------------------------
(* The race and its sub-tasks.                                             *)

\* A fetch task, or the semaphore, does nothing to a race: chunk 0 has one task.
LEMMA TaskRace ==
    ASSUME TypeInv, ReportInv, RaceInv, NEW i \in Chunks, Task(i)
    PROVE  RaceInv'
<1>1. UNCHANGED writeVars /\ ready \subseteq ready'
    BY DEF Task, PassGate, FetchOk, FetchFail, Recheck, TryStore, CancelTask
<1>2. CASE ~CancelTask(i)
    <2>1. UNCHANGED cand /\ pc[i] \in {"gate", "fetch", "woken"}
        BY <1>2 DEF Task, PassGate, FetchOk, FetchFail, Recheck
    <2>2. \A j \in Chunks \ {i} : pc'[j] = pc[j]
        BY <1>2
        DEF Task, PassGate, FetchOk, FetchFail, Recheck, TryStore, TypeInv, TypeOK
    <2>3. QED BY <1>1, <2>1, <2>2, ChunkType DEF RaceInv, writeVars
<1>3. CASE CancelTask(i)
    <2>1. pc' = [pc EXCEPT ![i] = "cancelled"] /\ pc[i] \notin Ended
          /\ pc \in [Chunks -> TaskPC] /\ wpc = "cleanup"
        BY <1>3 DEF CancelTask, TypeInv, TypeOK
    <2>2. CASE pc[i] # "race"
        <3>1. UNCHANGED cand
            BY <1>3, <2>2 DEF CancelTask
        <3>2. pc'[0] = pc[0] \/ \A c \in Candidates : cand[c] # "run"
            BY <2>1, <2>2, ChunkType DEF RaceInv, Ended
        <3>3. QED BY <1>1, <3>1, <3>2 DEF RaceInv, writeVars
    <2>3. CASE i # 0
        <3>1. pc'[0] = pc[0]
            BY <2>1, <2>3, ChunkType
        <3>2. QED BY <1>1, <1>3, <2>2, <2>3, <3>1, ChunkType
            DEF RaceInv, CancelTask, CancelRace, writeVars, TypeInv, TypeOK,
                Candidates
    <2>4. CASE pc[i] = "race" /\ i = 0
        <3>1. failedAt = Aborted
            BY <2>1, <2>4 DEF RaceInv, ReportInv
        <3>2. pc'[0] = "cancelled" /\ failedAt' = Aborted /\ CancelRace
            BY <1>1, <1>3, <2>1, <2>4, <3>1, ChunkType DEF CancelTask, writeVars
        <3>3. ASSUME NEW c \in Candidates, cand'[c] = "run"
              PROVE  c = "b" /\ cand'["a"] = "cancelled"
            BY <3>2, <3>3 DEF CancelRace, Candidates
        <3>4. QED BY <3>2, <3>3 DEF RaceInv
    <2>5. QED BY <2>2, <2>3, <2>4
<1>4. QED BY <1>2, <1>3

\* The race itself: whoever wins or fails, its sub-tasks end with it.
LEMMA RaceRace ==
    ASSUME TypeInv, ReportInv, RaceInv, Race
    PROVE  RaceInv'
<1>1. UNCHANGED writeVars /\ ready \subseteq ready'
    BY DEF Race, CandidateEnds, RaceWake, StoreRace, ReapLoser
<1>2. \A c \in Candidates : cand'[c] = "run" => cand[c] = "run"
    BY DEF Race, CandidateEnds, RaceWake, ReapLoser, TypeInv, TypeOK
<1>3. CASE \E c \in Candidates, o \in {"ok", "exc"} : CandidateEnds(c, o)
    BY <1>1, <1>3 DEF CandidateEnds, RaceInv, writeVars, TypeInv, TypeOK
<1>4. CASE RaceWake
    <2>1. pc'[0] = "race" \/ \A c \in Candidates : cand'[c] # "run"
        BY <1>4 DEF RaceWake, TypeInv, TypeOK, Candidates
    <2>2. QED BY <1>1, <2>1 DEF RaceInv, writeVars
<1>5. CASE ReapLoser
    <2>1. \A c \in Candidates : cand'[c] # "run"
        BY <1>5 DEF ReapLoser, RaceInv
    <2>2. QED BY <1>1, <2>1 DEF RaceInv, writeVars
<1>6. QED BY <1>3, <1>4, <1>5 DEF Race

\* The write loop, or a cancelled send(), leaves the race to the clean-up.
LEMMA WriteLoopRace ==
    ASSUME TypeInv, PositionInv, ReportInv, RaceInv, WriteLoop \/ Abort
    PROVE  RaceInv'
<1>1. /\ UNCHANGED <<cand, ready>> /\ w \in Nat /\ NoFailure # Aborted
      /\ pc[0] \in {"race", "cancelled"} => pc'[0] = pc[0]
    BY ChunkType
    DEF WriteLoop, TakeChunk, WriteDone, WriteFail, Close, Abort, taskVars,
        TypeInv, TypeOK, NoFailure, Aborted
<1>2. \A c \in Candidates : cand[c] = "run" => pc'[0] = pc[0]
    BY <1>1 DEF RaceInv
<1>3. Running => failedAt # Aborted
    BY <1>1 DEF PositionInv
<1>4. \/ 0 \in ready'
      \/ failedAt' = Aborted
      \/ wpc = "await" /\ ~(w > 0) /\ wpc' = wpc /\ w' = w
    BY <1>1, <1>3
    DEF RaceInv, WriteLoop, TakeChunk, WriteDone, WriteFail, Close, Abort,
        Running
<1>5. failedAt = Aborted => failedAt' = Aborted
    BY <1>3
    DEF WriteLoop, TakeChunk, WriteDone, WriteFail, Close, Abort, Running
<1>6. QED BY <1>1, <1>2, <1>4, <1>5 DEF RaceInv

\* Every step keeps the race right.
LEMMA RaceStep ==
    TypeInv /\ PositionInv /\ QueueInv /\ ReportInv /\ RaceInv /\ [Next]_vars =>
        RaceInv'
<1> SUFFICES ASSUME TypeInv, PositionInv, QueueInv, ReportInv, RaceInv,
                    [Next]_vars
             PROVE  RaceInv'
    OBVIOUS
<1>1. CASE UNCHANGED vars \/ Terminated
    BY <1>1 DEF Terminated, vars, RaceInv
<1>2. CASE Acquire
    <2>1. Head(semq) \in Chunks /\ pc[Head(semq)] = "sem"
        BY <1>2, HeadWaits
    <2>2. QED BY <1>2, <2>1, ChunkType
        DEF Acquire, RaceInv, TypeInv, TypeOK, writeVars
<1>3. QED BY <1>1, <1>2, TaskRace, RaceRace, WriteLoopRace DEF Next

\* A race that ends by itself, with a winner or without, leaves no sub-task
\* downloading; one that ends because send() was cancelled leaves at most the
\* second, however fetches, writes and the cancellation interleave.
THEOREM OrphanOnlyOnAbortSafe == Spec => []OrphanOnlyOnAbort
<1>1. Init => RaceInv
    BY ChunkType DEF Init, RaceInv, Candidates
<1>2. RaceInv => OrphanOnlyOnAbort
    BY DEF RaceInv, OrphanOnlyOnAbort, Ended
<1>3. QED
    BY <1>1, <1>2, RaceStep, TypeAlways, PositionAlways, QueueAlways,
       ReportAlways, PTL DEF Spec

-----------------------------------------------------------------------------
(* Gates and wake-ups.                                                     *)

\* Every step opens gates only within the prefetch window.
LEMMA GateStep ==
    TypeInv /\ QueueInv /\ GateInv /\ PrefetchWindow /\ [Next]_vars =>
        GateInv' /\ PrefetchWindow'
<1> SUFFICES ASSUME TypeInv, QueueInv, GateInv, PrefetchWindow, [Next]_vars
             PROVE  GateInv' /\ PrefetchWindow'
    OBVIOUS
<1> DEFINE Waits(i) == pc[i] \in {"gate", "cancelled"} \cup RacePC
<1>a. plan.prefetch \in Nat /\ w \in Nat
    BY PlanType, ChunkType DEF TypeInv, TypeOK
<1>b. ASSUME UNCHANGED <<plan, gate, w>>,
             \A i \in Chunks : i # 0 /\ Waits(i) => Waits(i)'
      PROVE  GateInv' /\ PrefetchWindow'
    BY <1>a, <1>b, ChunkType DEF GateInv, PrefetchWindow
<1>1. CASE UNCHANGED vars \/ Terminated
    BY <1>1, <1>b DEF Terminated, vars
<1>2. ASSUME NEW i \in Chunks, PassGate(i) PROVE GateInv' /\ PrefetchWindow'
    <2>1. i < 2 * plan.prefetch \/ i <= w + plan.prefetch
        BY <1>2, <1>a, ChunkType DEF PassGate, GateOf, GateInv
    <2>2. \A j \in Chunks : j # i => pc'[j] = pc[j]
        BY <1>2 DEF PassGate, TypeInv, TypeOK
    <2>3. QED BY <1>2, <2>1, <2>2
        DEF PassGate, GateInv, PrefetchWindow, writeVars
<1>3. ASSUME NEW i \in Chunks,
             FetchOk(i) \/ FetchFail(i) \/ Recheck(i) \/ CancelTask(i)
      PROVE  GateInv' /\ PrefetchWindow'
    BY <1>3, <1>b
    DEF FetchOk, FetchFail, Recheck, TryStore, CancelTask, RacePC, writeVars,
        TypeInv, TypeOK
<1>4. CASE Acquire
    <2>1. Head(semq) \in Chunks /\ pc[Head(semq)] = "sem"
        BY <1>4, HeadWaits
    <2>2. QED BY <1>4, <1>b, <2>1
        DEF Acquire, RacePC, writeVars, TypeInv, TypeOK
<1>5. CASE Race
    BY <1>5, <1>b, ChunkType
    DEF Race, CandidateEnds, RaceWake, StoreRace, ReapLoser, RacePC, writeVars,
        TypeInv, TypeOK
<1>6. CASE WriteDone
    <2>1. w' = w + 1 /\ plan' = plan
        BY <1>6 DEF WriteDone
    <2>2. \A i \in Chunks : Waits(i) => Waits(i)'
        BY <1>6 DEF WriteDone, RacePC
    <2>3. QED BY SMTT(30), <1>6, <1>a, <2>1, <2>2, ChunkType
        DEF WriteDone, GateInv, PrefetchWindow, TypeInv, TypeOK
<1>7. CASE TakeChunk \/ WriteFail \/ Close \/ Abort
    BY <1>7, <1>b DEF TakeChunk, WriteFail, Close, Abort, taskVars
<1>8. QED BY <1>1, <1>2, <1>3, <1>4, <1>5, <1>6, <1>7
    DEF Next, Task, WriteLoop

\* What the gates bound: a task that is past its gate, its chunk fetched or not, is
\* one of the first 2 * plan.prefetch, which may all start at once, or at most
\* plan.prefetch ahead of the write loop.
THEOREM PrefetchWindowSafe == Spec => []PrefetchWindow
<1>1. Init => GateInv /\ PrefetchWindow
    <2> SUFFICES ASSUME Init PROVE GateInv /\ PrefetchWindow
        OBVIOUS
    <2>1. plan.prefetch \in Nat
        BY PlanType DEF Init
    <2>2. QED BY <2>1, ChunkType
        DEF Init, GateInv, PrefetchWindow, RacePC
<1>2. QED
    BY <1>1, GateStep, TypeAlways, QueueAlways, PTL DEF Spec

\* Every step that makes a task wait, or leaves it waiting, leaves its chunk without
\* room; every step that makes room wakes the tasks that wait.
LEMMA WakeupStep == TypeInv /\ NoLostWakeup /\ [Next]_vars => NoLostWakeup'
<1> SUFFICES ASSUME TypeInv, NoLostWakeup, [Next]_vars PROVE NoLostWakeup'
    OBVIOUS
<1>a. /\ buf \in Nat /\ plan.buffer \in Nat
      /\ \A i \in Chunks : plan.size[i] \in Nat
    BY PlanType DEF TypeInv, TypeOK
<1>b. ASSUME UNCHANGED plan,
             Running' => Running,
             buf' \in Nat, buf <= buf',
             \A i \in Chunks :
                pc'[i] = "bufwait" => pc[i] = "bufwait" \/ ~Fits(i)
      PROVE  NoLostWakeup'
    BY <1>a, <1>b DEF NoLostWakeup, Fits
<1>1. CASE UNCHANGED vars \/ Terminated
    BY <1>1, <1>a, <1>b DEF Terminated, vars, Running
<1>2. ASSUME NEW i \in Chunks, Task(i) PROVE NoLostWakeup'
    <2>1. CASE FetchOk(i) \/ Recheck(i)
        BY <2>1, <1>a, <1>b
        DEF FetchOk, Recheck, TryStore, Running, writeVars, TypeInv, TypeOK
    <2>2. CASE PassGate(i) \/ FetchFail(i) \/ CancelTask(i)
        BY <2>2, <1>a, <1>b
        DEF PassGate, FetchFail, CancelTask, Running, writeVars, TypeInv, TypeOK
    <2>3. QED BY <1>2, <2>1, <2>2 DEF Task
<1>3. CASE Acquire
    BY <1>3, <1>a, <1>b DEF Acquire, Running, writeVars, TypeInv, TypeOK
<1>4. CASE Race
    BY <1>4, <1>a, <1>b
    DEF Race, CandidateEnds, RaceWake, StoreRace, ReapLoser, Running, writeVars,
        TypeInv, TypeOK
<1>5. CASE WriteDone
    BY <1>5 DEF WriteDone, NoLostWakeup
<1>6. CASE TakeChunk \/ WriteFail \/ Close \/ Abort
    BY <1>6, <1>a, <1>b DEF TakeChunk, WriteFail, Close, Abort, Running, taskVars
<1>7. QED BY <1>1, <1>2, <1>3, <1>4, <1>5, <1>6 DEF Next, WriteLoop

\* A task asleep on _buf_has_space has a chunk that does not fit.
THEOREM NoLostWakeupSafe == Spec => []NoLostWakeup
<1>1. Init => NoLostWakeup
    BY DEF Init, NoLostWakeup
<1>2. QED
    BY <1>1, WakeupStep, TypeAlways, PTL DEF Spec

-----------------------------------------------------------------------------
(* The byte counter.                                                       *)

\* What has been written, and what is being written, is data; without a race
\* nothing is in the race's places.
SentInv ==
    /\ \A i \in Chunks : i < w => results[i] = "data"
    /\ wpc = "writing" => results[w] = "data"
    /\ ~plan.race => pc[0] \notin RacePC

\* A stored result is for a chunk that the write loop has yet to send.
LEMMA ReporterIsUnsent ==
    ASSUME TypeInv, ReportInv, SentInv, NEW i \in Chunks, pc[i] # "done"
    PROVE  /\ results[i] = "none"
           /\ i >= w
           /\ wpc = "writing" => i # w
<1>1. results[i] = "none"
    BY DEF ReportInv, TypeInv, TypeOK
<1>2. w \in Nat /\ i \in Nat
    BY ChunkType DEF TypeInv, TypeOK
<1>3. ~ (i < w)
    BY <1>1 DEF SentInv
<1>4. QED BY <1>1, <1>2, <1>3 DEF SentInv

\* A step that changes at most the result of one task that has not reported.
LEMMA ResultKeepsSent ==
    ASSUME TypeInv, ReportInv, SentInv, NEW i \in Chunks, pc[i] # "done",
           \A j \in Chunks \ {i} : results'[j] = results[j],
           UNCHANGED <<plan, w, wpc>>,
           ~plan.race => pc'[0] \notin RacePC
    PROVE  SentInv'
<1>1. results[i] = "none" /\ i >= w /\ (wpc = "writing" => i # w)
    BY ReporterIsUnsent
<1>2. w \in Nat /\ \A j \in Chunks : j \in Nat
    BY ChunkType DEF TypeInv, TypeOK
<1>3. ASSUME NEW j \in Chunks, j < w PROVE results'[j] = "data"
    BY <1>1, <1>2, <1>3 DEF SentInv
<1>4. wpc = "writing" => w \in Chunks
    BY ChunkType DEF TypeInv, TypeOK, Running, Chunks
<1>5. QED BY <1>1, <1>3, <1>4 DEF SentInv

\* Every step keeps what was sent.
LEMMA SentStep ==
    TypeInv /\ QueueInv /\ ReportInv /\ SentInv /\ [Next]_vars => SentInv'
<1> SUFFICES ASSUME TypeInv, QueueInv, ReportInv, SentInv, [Next]_vars
             PROVE  SentInv'
    OBVIOUS
<1>1. CASE UNCHANGED vars \/ Terminated
    BY <1>1 DEF Terminated, vars, SentInv
<1>2. ASSUME NEW i \in Chunks, Task(i) PROVE SentInv'
    <2>1. CASE FetchOk(i) \/ FetchFail(i) \/ Recheck(i)
        <3>1. pc[i] # "done" /\ UNCHANGED <<plan, w, wpc>>
            BY <2>1 DEF FetchOk, FetchFail, Recheck, writeVars
        <3>2. \A j \in Chunks \ {i} : results'[j] = results[j]
            BY <2>1 DEF FetchOk, FetchFail, Recheck, TryStore, TypeInv, TypeOK
        <3>3. ~plan.race => pc'[0] \notin RacePC
            BY <2>1, ChunkType
            DEF FetchOk, FetchFail, Recheck, TryStore, SentInv, TypeInv, TypeOK,
                RacePC
        <3>4. QED BY <3>1, <3>2, <3>3, ResultKeepsSent
    <2>2. CASE PassGate(i) \/ CancelTask(i)
        BY <2>2, ChunkType
        DEF PassGate, CancelTask, SentInv, TypeInv, TypeOK, RacePC, writeVars
    <2>3. QED BY <1>2, <2>1, <2>2 DEF Task
<1>3. CASE Acquire
    <2>1. Head(semq) \in Chunks
        BY <1>3, HeadWaits
    <2>2. QED BY <1>3, <2>1, ChunkType
        DEF Acquire, SentInv, TypeInv, TypeOK, RacePC, writeVars
<1>4. CASE Race
    <2>1. CASE RaceWake
        <3>1. plan.race /\ pc[0] # "done" /\ 0 \in Chunks
            BY <2>1, ChunkType DEF RaceWake, SentInv, RacePC
        <3>2. /\ UNCHANGED <<plan, w, wpc>>
              /\ \A j \in Chunks \ {0} : results'[j] = results[j]
            BY <2>1 DEF RaceWake, StoreRace, writeVars, TypeInv, TypeOK
        <3>3. QED BY <3>1, <3>2, ResultKeepsSent
    <2>2. CASE ReapLoser
        BY <2>2, ChunkType
        DEF ReapLoser, SentInv, TypeInv, TypeOK, RacePC, writeVars
    <2>3. CASE \E c \in Candidates, o \in {"ok", "exc"} : CandidateEnds(c, o)
        BY <2>3 DEF CandidateEnds, SentInv, writeVars
    <2>4. QED BY <1>4, <2>1, <2>2, <2>3 DEF Race
<1>5. CASE TakeChunk
    BY <1>5 DEF TakeChunk, SentInv, taskVars
<1>6. CASE WriteDone
    <2>1. w \in Nat /\ \A j \in Chunks : j \in Nat
        BY ChunkType DEF TypeInv, TypeOK
    <2>2. results[w] = "data" /\ w' = w + 1 /\ UNCHANGED <<plan, results>>
        BY <1>6 DEF WriteDone, SentInv
    <2>3. \A j \in Chunks : j < w + 1 => results'[j] = "data"
        BY <2>1, <2>2 DEF SentInv
    <2>4. ~plan.race => pc'[0] \notin RacePC
        BY <1>6, ChunkType DEF WriteDone, SentInv, RacePC
    <2>5. QED BY <1>6, <2>2, <2>3, <2>4 DEF WriteDone, SentInv
<1>7. CASE WriteFail \/ Close \/ Abort
    BY <1>7 DEF WriteFail, Close, Abort, SentInv, taskVars
<1>8. QED BY <1>1, <1>2, <1>3, <1>4, <1>5, <1>6, <1>7 DEF Next, WriteLoop

\* What was sent stays right always.
LEMMA SentAlways == Spec => []SentInv
<1>1. Init => SentInv
    BY ChunkType DEF Init, SentInv, RacePC
<1>2. QED
    BY <1>1, SentStep, TypeAlways, QueueAlways, ReportAlways, PTL DEF Spec

\* Sums over any set of chunks are numbers.
LEMMA BytesType ==
    ASSUME plan \in Plans, NEW S \in SUBSET Chunks
    PROVE  /\ IsFiniteSet(S)
           /\ SumFunctionOnSet(plan.size, S) \in Nat
           /\ \A i \in S : SumFunctionOnSet(plan.size, S) =
                  plan.size[i] + SumFunctionOnSet(plan.size, S \ {i})
           /\ \A i \in Chunks \ S : SumFunctionOnSet(plan.size, S \cup {i}) =
                  plan.size[i] + SumFunctionOnSet(plan.size, S)
<1>1. IsFiniteSet(Chunks)
    BY FS_Interval, ChunkType DEF Chunks
<1>2. IsFiniteSet(S)
    BY <1>1, FS_Subset
<1>3. plan.size \in [Chunks -> Nat]
    BY PlanType
<1>4. QED BY <1>2, <1>3, SumType, SumSplit, SumAdd

\* The inductive invariant of the counter: it is exact until a race has stored
\* chunk 0.
CounterInv ==
    /\ BufferAccounting
    /\ results[0] = "none" => buf = HeldBytes

\* The numbers that the counter is compared with.
LEMMA CounterType ==
    ASSUME TypeInv
    PROVE  /\ buf \in Nat
           /\ plan.buffer \in Nat
           /\ \A i \in Chunks : plan.size[i] \in Nat
           /\ HeldBytes \in Nat
           /\ Uncounted \in Nat
<1>1. plan \in Plans /\ Held \in SUBSET Chunks
    BY DEF TypeInv, TypeOK, Held
<1>2. HeldBytes \in Nat
    BY <1>1, BytesType DEF HeldBytes
<1>3. QED
    BY <1>1, <1>2, PlanType, ChunkType DEF Uncounted, TypeInv, TypeOK

\* One chunk more in memory.
LEMMA HeldGrows ==
    ASSUME TypeInv, ReportInv, SentInv, NEW i \in Chunks, pc[i] # "done",
           results' = [results EXCEPT ![i] = "data"], UNCHANGED <<plan, w>>
    PROVE  HeldBytes' = plan.size[i] + HeldBytes
<1>1. results[i] = "none" /\ i >= w
    BY ReporterIsUnsent
<1>2. Held' = Held \cup {i} /\ i \notin Held
    BY <1>1 DEF Held, TypeInv, TypeOK
<1>3. Held \in SUBSET Chunks
    BY DEF Held
<1>4. SumFunctionOnSet(plan.size, Held \cup {i}) =
          plan.size[i] + SumFunctionOnSet(plan.size, Held)
    BY <1>2, <1>3, BytesType DEF TypeInv, TypeOK
<1>5. QED BY <1>2, <1>4 DEF HeldBytes

\* Storing counts the chunk's bytes, and waiting counts nothing.
LEMMA TryStoreCounts ==
    ASSUME TypeInv, ReportInv, SentInv, CounterInv, NEW i \in Chunks,
           pc[i] # "done", TryStore(i), UNCHANGED <<plan, w>>
    PROVE  CounterInv'
<1>1. CASE Fits(i)
    <2>1. /\ HeldBytes' = plan.size[i] + HeldBytes
          /\ buf' = buf + plan.size[i]
          /\ buf + plan.size[i] <= plan.buffer
        BY <1>1, HeldGrows DEF TryStore, Fits
    <2>2. results'[0] = "none" => results[0] = "none"
        BY <1>1, ChunkType DEF TryStore, TypeInv, TypeOK
    <2>3. Uncounted' = Uncounted
        BY DEF Uncounted
    <2>4. QED BY <2>1, <2>2, <2>3, CounterType DEF CounterInv, BufferAccounting
<1>2. CASE ~ Fits(i)
    <2>1. UNCHANGED <<buf, results>>
        BY <1>2 DEF TryStore
    <2>2. HeldBytes' = HeldBytes /\ Uncounted' = Uncounted
        BY <2>1 DEF HeldBytes, Held, Uncounted
    <2>3. QED BY <2>1, <2>2 DEF CounterInv, BufferAccounting
<1>3. QED BY <1>1, <1>2

\* A raced chunk 0 is stored beside the counter, which was exact until then.
LEMMA RaceCounts ==
    ASSUME TypeInv, ReportInv, SentInv, CounterInv, RaceWake
    PROVE  CounterInv'
<1>1. /\ plan.race /\ pc[0] # "done" /\ 0 \in Chunks
      /\ UNCHANGED <<plan, w, buf>>
    BY ChunkType DEF RaceWake, SentInv, RacePC, writeVars
<1>2. results[0] = "none" /\ buf = HeldBytes
    BY <1>1, ReporterIsUnsent DEF CounterInv
<1>3. Uncounted' = plan.size[0] /\ plan'.buffer = plan.buffer
    BY <1>1 DEF Uncounted
<1>4. CASE StoreRace("data")
    <2>1. results' = [results EXCEPT ![0] = "data"]
        BY <1>4 DEF StoreRace
    <2>2. HeldBytes' = plan.size[0] + HeldBytes /\ results'[0] # "none"
        BY <1>1, <2>1, HeldGrows DEF TypeInv, TypeOK
    <2>3. QED BY <1>1, <1>2, <1>3, <2>2, CounterType
        DEF CounterInv, BufferAccounting
<1>5. CASE StoreRace("exc") \/ UNCHANGED results
    <2>1. Held' = Held
        BY <1>1, <1>2, <1>5 DEF StoreRace, Held, TypeInv, TypeOK
    <2>2. HeldBytes' = HeldBytes
        BY <1>1, <2>1 DEF HeldBytes
    <2>3. QED BY <1>1, <1>2, <1>3, <2>2, CounterType
        DEF CounterInv, BufferAccounting
<1>6. QED BY <1>4, <1>5 DEF RaceWake

\* A write releases the bytes of the chunk that was written, or what is left of
\* them.
LEMMA WriteDoneReleases ==
    ASSUME TypeInv, SentInv, CounterInv, WriteDone
    PROVE  CounterInv'
<1>1. w \in Chunks /\ results[w] = "data" /\ \A i \in Chunks : i \in Nat
    BY ChunkType DEF WriteDone, SentInv, TypeInv, TypeOK, Running, Chunks
<1>2. w \in Held /\ Held \in SUBSET Chunks
    BY <1>1 DEF Held
<1>3. Held' = Held \ {w}
    BY <1>1 DEF WriteDone, Held
<1>4. /\ SumFunctionOnSet(plan.size, Held) =
             plan.size[w] + SumFunctionOnSet(plan.size, Held \ {w})
      /\ SumFunctionOnSet(plan.size, Held \ {w}) \in Nat
    BY <1>2, BytesType DEF TypeInv, TypeOK
<1>5. HeldBytes = plan.size[w] + HeldBytes' /\ HeldBytes' \in Nat
    BY <1>3, <1>4 DEF HeldBytes, WriteDone
<1>6. buf' = IF buf > plan.size[w] THEN buf - plan.size[w] ELSE 0
    BY DEF WriteDone, Released
<1>7. Uncounted' = Uncounted /\ plan'.buffer = plan.buffer
    BY DEF WriteDone, Uncounted
<1>8. results'[0] = "data"
    <2>1. w = 0 \/ 0 < w
        BY <1>1
    <2>2. QED BY <1>1, <2>1, ChunkType DEF WriteDone, SentInv
<1>9. plan.size[w] \in Nat
    BY <1>1, CounterType
<1>10. QED
    BY <1>5, <1>6, <1>7, <1>8, <1>9, CounterType DEF CounterInv, BufferAccounting

\* Every step keeps the counter right.
LEMMA CounterStep ==
    TypeInv /\ ReportInv /\ SentInv /\ CounterInv /\ [Next]_vars => CounterInv'
<1> SUFFICES ASSUME TypeInv, ReportInv, SentInv, CounterInv, [Next]_vars
             PROVE  CounterInv'
    OBVIOUS
<1>a. ASSUME UNCHANGED <<plan, buf, w>>,
             \A i \in Chunks : results'[i] = "data" <=> results[i] = "data",
             results'[0] = "none" => results[0] = "none"
      PROVE  CounterInv'
    <2>1. Held' = Held
        BY <1>a DEF Held
    <2>2. HeldBytes' = HeldBytes /\ Uncounted' = Uncounted
        BY <1>a, <2>1 DEF HeldBytes, Uncounted
    <2>3. QED BY <1>a, <2>2 DEF CounterInv, BufferAccounting
<1>1. CASE UNCHANGED vars \/ Terminated
    BY <1>1, <1>a DEF Terminated, vars
<1>2. ASSUME NEW i \in Chunks, Task(i) PROVE CounterInv'
    <2>1. CASE FetchOk(i) \/ Recheck(i)
        BY <2>1, TryStoreCounts DEF FetchOk, Recheck, writeVars
    <2>2. CASE FetchFail(i)
        <3>1. results[i] = "none"
            BY <2>2, ReporterIsUnsent DEF FetchFail
        <3>2. QED BY <1>a, <2>2, <3>1, ChunkType
            DEF FetchFail, TypeInv, TypeOK, writeVars
    <2>3. CASE PassGate(i) \/ CancelTask(i)
        BY <1>a, <2>3 DEF PassGate, CancelTask, writeVars
    <2>4. QED BY <1>2, <2>1, <2>2, <2>3 DEF Task
<1>3. CASE Acquire
    BY <1>3, <1>a DEF Acquire, writeVars
<1>4. CASE Race
    <2>1. CASE RaceWake
        BY <2>1, RaceCounts
    <2>2. CASE ReapLoser \/ \E c \in Candidates, o \in {"ok", "exc"} : CandidateEnds(c, o)
        BY <1>a, <2>2 DEF CandidateEnds, ReapLoser, writeVars
    <2>3. QED BY <1>4, <2>1, <2>2 DEF Race
<1>5. CASE WriteDone
    BY <1>5, WriteDoneReleases
<1>6. CASE TakeChunk \/ WriteFail \/ Close \/ Abort
    BY <1>6, <1>a DEF TakeChunk, WriteFail, Close, Abort, taskVars
<1>7. QED BY <1>1, <1>2, <1>3, <1>4, <1>5, <1>6 DEF Next, WriteLoop

\* The counter is right always.
LEMMA CounterAlways == Spec => []CounterInv
<1>1. Init => CounterInv
    <2> SUFFICES ASSUME Init PROVE CounterInv
        OBVIOUS
    <2>1. Held = {}
        BY DEF Init, Held
    <2>2. plan.size \in [Chunks -> Nat] /\ plan.buffer \in Nat
        BY PlanType DEF Init
    <2>3. HeldBytes = 0
        BY <2>1, <2>2, SumEmpty DEF HeldBytes
    <2>4. Uncounted \in Nat
        BY <2>2, ChunkType DEF Uncounted
    <2>5. QED BY <2>2, <2>3, <2>4 DEF Init, CounterInv, BufferAccounting
<1>2. QED
    BY <1>1, CounterStep, TypeAlways, ReportAlways, SentAlways, PTL DEF Spec

\* _buf_bytes is the number of bytes stored and not yet sent, and never more
\* than max_buffer_bytes, for any number of chunks of any size, wherever the
\* stream fails or is cancelled; a race lets the memory exceed the cap by chunk 0
\* and no more.
THEOREM BufferAccountingSafe == Spec => []BufferAccounting
<1>1. CounterInv => BufferAccounting
    BY DEF CounterInv
<1>2. QED
    BY <1>1, CounterAlways, PTL

-----------------------------------------------------------------------------
(* Nobody waits for ever: the safety half of StreamEnds.                   *)

\* While the pipeline runs: a task at the semaphore is in its queue, a task that
\* is done has reported, the gates up to the write loop are open ...
WaitingInv ==
    Running =>
        /\ \A i \in Chunks :
              pc[i] = "sem" => \E k \in 1 .. Len(semq) : semq[k] = i
        /\ \A i \in Chunks :
              pc[i] = "done" => i \in ready /\ results[i] # "none"
        /\ ~plan.race =>
              \A i \in Chunks : pc[i] \notin RacePC \cup {"cancelled"}
        /\ \A g \in Chunks :
              g < plan.prefetch \/ (1 <= g /\ g <= w) => g \in gate

\* ... and a single worker fetches the chunks one after the other.
SingleFile ==
    (Running /\ ~plan.race /\ plan.workers = 1) =>
        \A i, j \in Chunks :
            i < j /\ pc[j] \in HoldsSem \cup {"done"} => pc[i] = "done"

\* Storing keeps both.
LEMMA TryStoreWaiting ==
    ASSUME TypeInv, WaitingInv, SingleFile, NEW i \in Chunks,
           pc[i] \in {"fetch", "woken"}, TryStore(i), Running,
           UNCHANGED <<plan, gate, semq, cand, writeVars>>
    PROVE  WaitingInv' /\ SingleFile'
<1>1. /\ pc \in [Chunks -> TaskPC]
      /\ \A j \in Chunks \ {i} : pc'[j] = pc[j] /\ results'[j] = results[j]
      /\ pc'[i] \in {"done", "bufwait"}
      /\ pc'[i] = "done" => i \in ready' /\ results'[i] = "data"
      /\ ready \subseteq ready'
    BY DEF TryStore, TypeInv, TypeOK
<1>2. Running'
    BY DEF Running, writeVars
<1>3. \A j \in Chunks : pc'[j] = "sem" => pc[j] = "sem"
    BY <1>1
<1>4. \A j \in Chunks : pc'[j] = "done" => j \in ready' /\ results'[j] # "none"
    BY <1>1 DEF WaitingInv
<1>5. ~plan.race => \A j \in Chunks : pc'[j] \notin RacePC \cup {"cancelled"}
    BY <1>1 DEF WaitingInv, RacePC
<1>6. WaitingInv'
    BY <1>3, <1>4, <1>5 DEF WaitingInv, writeVars
<1>7. \A j \in Chunks : pc'[j] \in HoldsSem \cup {"done"} => pc[j] \in HoldsSem \cup {"done"}
    BY <1>1 DEF HoldsSem
<1>8. \A j \in Chunks : pc[j] = "done" => pc'[j] = "done"
    BY <1>1
<1>9. SingleFile'
    BY <1>7, <1>8 DEF SingleFile
<1>10. QED BY <1>6, <1>9

\* The other steps of a fetch task keep both.
LEMMA TaskWaiting ==
    ASSUME TypeInv, WaitingInv, SingleFile, NEW i \in Chunks, Task(i)
    PROVE  WaitingInv' /\ SingleFile'
<1>1. CASE PassGate(i)
    <2>1. /\ semq \in Seq(Chunks)
          /\ Len(semq) \in Nat
          /\ Len(semq') = Len(semq) + 1
          /\ semq'[Len(semq) + 1] = i
          /\ \A k \in 1 .. Len(semq) : semq'[k] = semq[k]
        BY <1>1, AppendProperties, LenProperties DEF PassGate, TypeInv, TypeOK
    <2>2. /\ pc'[i] = "sem" /\ pc[i] = "gate"
          /\ \A j \in Chunks \ {i} : pc'[j] = pc[j]
          /\ UNCHANGED <<plan, gate, results, ready, w, wpc>>
        BY <1>1 DEF PassGate, TypeInv, TypeOK, writeVars
    <2>3. Running /\ Running'
        BY <1>1, <2>2 DEF PassGate, Running
    <2>4. ASSUME NEW j \in Chunks, pc'[j] = "sem"
          PROVE  \E k \in 1 .. Len(semq') : semq'[k] = j
        <3>1. CASE j = i
            BY <2>1, <3>1
        <3>2. CASE j # i
            <4>1. PICK k \in 1 .. Len(semq) : semq[k] = j
                BY <2>2, <2>3, <2>4, <3>2 DEF WaitingInv
            <4>2. k \in 1 .. Len(semq') /\ semq'[k] = j
                BY <2>1, <4>1
            <4>3. QED BY <4>2
        <3>3. QED BY <3>1, <3>2
    <2>5. WaitingInv'
        BY <2>2, <2>3, <2>4 DEF WaitingInv, RacePC
    <2>6. SingleFile'
        BY <2>2, <2>3 DEF SingleFile, HoldsSem
    <2>7. QED BY <2>5, <2>6
<1>2. CASE FetchOk(i)
    BY <1>2, TryStoreWaiting DEF FetchOk
<1>3. CASE FetchFail(i)
    <2>1. /\ pc'[i] = "done" /\ pc[i] = "fetch"
          /\ results'[i] = "exc" /\ ready' = ready \cup {i}
          /\ \A j \in Chunks \ {i} : pc'[j] = pc[j] /\ results'[j] = results[j]
          /\ UNCHANGED <<plan, gate, semq, w, wpc>>
        BY <1>3 DEF FetchFail, TypeInv, TypeOK, writeVars
    <2>2. Running /\ Running'
        BY <1>3, <2>1 DEF FetchFail, Running
    <2>3. \A j \in Chunks : pc'[j] = "done" => j \in ready' /\ results'[j] # "none"
        BY <2>1, <2>2 DEF WaitingInv
    <2>4. WaitingInv'
        BY <2>1, <2>2, <2>3 DEF WaitingInv, RacePC
    <2>5. SingleFile'
        BY <2>1, <2>2 DEF SingleFile, HoldsSem
    <2>6. QED BY <2>4, <2>5
<1>4. CASE Recheck(i)
    BY <1>4, TryStoreWaiting DEF Recheck
<1>5. CASE CancelTask(i)
    <2>1. ~ Running'
        BY <1>5 DEF CancelTask, Running, writeVars
    <2>2. QED BY <2>1 DEF WaitingInv, SingleFile
<1>6. QED BY <1>1, <1>2, <1>3, <1>4, <1>5 DEF Task

\* Granting a permit to the head of the queue keeps both.
LEMMA AcquireWaiting ==
    ASSUME TypeInv, QueueInv, WaitingInv, SingleFile, Acquire
    PROVE  WaitingInv' /\ SingleFile'
<1> DEFINE h == Head(semq)
<1>1. /\ h \in Chunks
      /\ h = semq[1]
      /\ Len(semq) \in Nat
      /\ Len(semq') = Len(semq) - 1
      /\ \A k \in 1 .. Len(semq') : semq'[k] = semq[k + 1]
    BY HeadTailProperties, LenProperties, EmptySeq, HeadWaits
    DEF Acquire, TypeInv, TypeOK
<1>2. pc[h] = "sem" /\ Running
    BY HeadWaits DEF Acquire
<1>3. /\ pc' = [pc EXCEPT ![h] = "fetch"] /\ pc \in [Chunks -> TaskPC]
      /\ UNCHANGED <<plan, gate, results, ready, w, wpc>>
    BY DEF Acquire, writeVars, TypeInv, TypeOK
<1> HIDE DEF h
<1>4. pc'[h] = "fetch" /\ \A j \in Chunks \ {h} : pc'[j] = pc[j]
    BY <1>1, <1>3
<1>5. ASSUME NEW j \in Chunks, pc'[j] = "sem"
      PROVE  \E k \in 1 .. Len(semq') : semq'[k] = j
    <2>1. j # h /\ pc[j] = "sem"
        BY <1>4, <1>5
    <2>2. PICK k \in 1 .. Len(semq) : semq[k] = j
        BY <1>2, <2>1 DEF WaitingInv
    <2>3. k # 1
        BY <1>1, <2>1, <2>2
    <2>4. k - 1 \in 1 .. Len(semq') /\ (k - 1) + 1 = k
        BY <1>1, <2>3
    <2>5. semq'[k - 1] = j
        BY <1>1, <2>2, <2>4
    <2>6. QED BY <2>4, <2>5
<1>6. WaitingInv'
    BY <1>2, <1>3, <1>4, <1>5 DEF WaitingInv, RacePC
<1>7. ASSUME ~plan.race, plan.workers = 1, NEW i \in Chunks, i < h
      PROVE  pc[i] = "done"
    <2>1. Holders = {}
        BY <1>7, HoldersFinite, FS_EmptySet DEF Acquire
    <2>2. pc[i] \notin HoldsSem
        BY <2>1 DEF Holders
    <2>3. pc[i] # "gate"
        <3>1. h \in Arrived
            BY <1>1, <1>2 DEF Arrived
        <3>2. pc[i] = "gate" => h < i
            BY <3>1 DEF QueueInv
        <3>3. QED BY <1>1, <1>7, <3>2, ChunkType
    <2>4. pc[i] # "sem"
        <3>1. ASSUME pc[i] = "sem" PROVE FALSE
            <4>1. PICK k \in 1 .. Len(semq) : semq[k] = i
                BY <1>2, <3>1 DEF WaitingInv
            <4>2. k = 1 \/ 1 < k
                BY <1>1
            <4>3. i = h \/ h < i
                BY <1>1, <4>1, <4>2 DEF QueueInv
            <4>4. QED BY <1>1, <1>7, <4>3, ChunkType
        <3>2. QED BY <3>1
    <2>5. pc[i] \notin RacePC \cup {"cancelled"}
        BY <1>2, <1>7 DEF WaitingInv
    <2>6. pc[i] \in TaskPC
        BY DEF TypeInv, TypeOK
    <2>7. QED BY <2>2, <2>3, <2>4, <2>5, <2>6 DEF TaskPC, Ended
<1>8. SingleFile'
    <2>1. SUFFICES ASSUME ~plan.race, plan.workers = 1, NEW i \in Chunks,
                          NEW j \in Chunks, i < j,
                          pc'[j] \in HoldsSem \cup {"done"}
                   PROVE  pc'[i] = "done"
        BY <1>3 DEF SingleFile
    <2>2. pc[i] = "done"
        BY <1>2, <1>4, <1>7, <2>1 DEF SingleFile
    <2>3. QED BY <1>2, <1>4, <2>2
<1>9. QED BY <1>6, <1>8

\* The race keeps both.
LEMMA RaceWaiting ==
    ASSUME TypeInv, SentInv, WaitingInv, SingleFile, Race
    PROVE  WaitingInv' /\ SingleFile'
<1>2. CASE \E c \in Candidates, o \in {"ok", "exc"} : CandidateEnds(c, o)
    BY <1>2 DEF CandidateEnds, writeVars, WaitingInv, SingleFile, Running
<1>3. CASE RaceWake \/ ReapLoser
    <2>1. plan.race /\ plan' = plan /\ 0 \in Chunks
        BY <1>3, ChunkType DEF RaceWake, ReapLoser, SentInv, RacePC
    <2>2. /\ \A j \in Chunks \ {0} : pc'[j] = pc[j] /\ results'[j] = results[j]
          /\ pc'[0] # "sem"
          /\ pc'[0] = "done" => 0 \in ready' /\ results'[0] # "none"
          /\ ready \subseteq ready'
          /\ UNCHANGED <<gate, semq, w, wpc>>
        BY <1>3, <2>1
        DEF RaceWake, StoreRace, ReapLoser, writeVars, TypeInv, TypeOK
    <2>3. WaitingInv'
        BY <2>1, <2>2 DEF WaitingInv, Running
    <2>4. QED BY <2>1, <2>3 DEF SingleFile
<1>4. QED BY <1>2, <1>3 DEF Race

\* The write loop keeps both.
LEMMA WriteLoopWaiting ==
    ASSUME TypeInv, WaitingInv, SingleFile, WriteLoop \/ Abort
    PROVE  WaitingInv' /\ SingleFile'
<1>1. CASE TakeChunk
    <2>1. Running' => Running
        BY <1>1 DEF TakeChunk, Running
    <2>2. QED BY <1>1, <2>1 DEF TakeChunk, taskVars, WaitingInv, SingleFile
<1>2. CASE WriteDone
    <2>1. Running /\ w \in Nat /\ w < NumChunks
        BY <1>2, ChunkType DEF WriteDone, Running, TypeInv, TypeOK
    <2>2. /\ UNCHANGED <<plan, semq, results, ready>>
          /\ gate \subseteq gate'
          /\ w + 1 < NumChunks => w + 1 \in gate'
          /\ w' = w + 1
        BY <1>2 DEF WriteDone
    <2>3. \A i \in Chunks : pc'[i] = IF pc[i] = "bufwait" THEN "woken" ELSE pc[i]
        BY <1>2 DEF WriteDone
    <2>4. ASSUME NEW g \in Chunks, g < plan.prefetch \/ (1 <= g /\ g <= w + 1)
          PROVE  g \in gate'
        <3>1. g \in Nat /\ g < NumChunks
            BY ChunkType DEF Chunks
        <3>2. CASE g = w + 1
            BY <2>2, <3>1, <3>2
        <3>3. CASE g # w + 1
            <4>1. g < plan.prefetch \/ (1 <= g /\ g <= w)
                BY <2>1, <2>4, <3>1, <3>3
            <4>2. QED BY <2>1, <2>2, <4>1 DEF WaitingInv
        <3>4. QED BY <3>2, <3>3
    <2>5. WaitingInv'
        BY <2>1, <2>2, <2>3, <2>4 DEF WaitingInv, RacePC
    <2>6. SingleFile'
        BY <2>1, <2>2, <2>3 DEF SingleFile, HoldsSem
    <2>7. QED BY <2>5, <2>6
<1>3. CASE WriteFail \/ Close \/ Abort
    <2>1. ~ Running'
        BY <1>3 DEF WriteFail, Close, Abort, Running
    <2>2. QED BY <2>1 DEF WaitingInv, SingleFile
<1>4. QED BY <1>1, <1>2, <1>3 DEF WriteLoop

\* Both hold always.
LEMMA WaitingAlways == Spec => [](WaitingInv /\ SingleFile)
<1>1. Init => WaitingInv /\ SingleFile
    <2> SUFFICES ASSUME Init PROVE WaitingInv /\ SingleFile
        OBVIOUS
    <2>1. plan.prefetch \in Nat /\ w = 0 /\ \A g \in Chunks : g \in Nat
        BY PlanType, ChunkType DEF Init
    <2>2. \A g \in Chunks : g < plan.prefetch \/ (1 <= g /\ g <= w) => g \in gate
        BY <2>1 DEF Init
    <2>3. WaitingInv
        BY <2>2 DEF Init, WaitingInv, RacePC
    <2>4. SingleFile
        BY DEF Init, SingleFile, HoldsSem
    <2>5. QED BY <2>3, <2>4
<1>2. TypeInv /\ QueueInv /\ SentInv /\ WaitingInv /\ SingleFile /\ [Next]_vars =>
          WaitingInv' /\ SingleFile'
    <2> SUFFICES ASSUME TypeInv, QueueInv, SentInv, WaitingInv, SingleFile,
                        [Next]_vars
                 PROVE  WaitingInv' /\ SingleFile'
        OBVIOUS
    <2>1. CASE UNCHANGED vars \/ Terminated
        BY <2>1 DEF Terminated, vars, WaitingInv, SingleFile, Running
    <2>2. QED
        BY <2>1, TaskWaiting, AcquireWaiting, RaceWaiting, WriteLoopWaiting DEF Next
<1>3. QED
    BY <1>1, <1>2, TypeAlways, QueueAlways, SentAlways, PTL DEF Spec

\* The guards of the fetch tasks: a task that is suspended for nothing that
\* another coroutine must do first.
CanStep(i) ==
    \/ /\ pc[i] = "gate"
       /\ GateOf(i) \in gate
       /\ \A j \in Chunks : j < i => pc[j] # "gate"
    \/ pc[i] \in {"fetch", "woken"}

\* A coroutine of an unraced stream can run.
CanMove ==
    \/ Running /\ \E i \in Chunks : CanStep(i)
    \/ Running /\ semq # <<>> /\ Cardinality(Holders) < plan.workers
    \/ wpc = "await" /\ w \in ready /\ results[w] \in {"data", "exc"}
    \/ wpc \in {"writing", "cleanup"}

\* Under a sufficient plan an open stream is never left with everyone waiting.
NeverStuck == Sufficient /\ wpc # "closed" => CanMove

\* The buffer has room for the chunk the write loop waits for.
LEMMA NextChunkFits ==
    ASSUME TypeInv, ReportInv, CounterInv, PrefetchWindow, WaitingInv,
           SingleFile, Sufficient, wpc = "await",
           pc[w] \in HoldsSem
    PROVE  Fits(w)
<1>1. /\ plan \in Plans /\ w \in Chunks /\ w \in Nat /\ Running
      /\ \A i \in Chunks : i \in Nat
      /\ pc \in [Chunks -> TaskPC] /\ results \in [Chunks -> {"none", "data", "exc"}]
    BY ChunkType DEF TypeInv, TypeOK, Running, Chunks
<1>2. /\ buf \in Nat /\ plan.buffer \in Nat /\ plan.size[w] \in Nat
      /\ HeldBytes \in Nat /\ buf <= HeldBytes
    BY <1>1, CounterType DEF CounterInv, BufferAccounting
<1>3. Held \in SUBSET Chunks /\ w \notin Held
    BY <1>1 DEF Held, ReportInv, HoldsSem
<1>4. SumFunctionOnSet(plan.size, Held \cup {w}) = plan.size[w] + HeldBytes
    BY <1>1, <1>3, BytesType DEF HeldBytes
<1>5. CASE plan.workers = 1
    <2>1. ASSUME NEW i \in Held PROVE FALSE
        <3>1. i \in Chunks /\ w < i
            BY <1>1, <1>3, <2>1 DEF Held
        <3>2. pc[i] = "done"
            BY <2>1, <3>1 DEF Held, ReportInv
        <3>3. pc[w] = "done"
            BY <1>1, <1>5, <3>1, <3>2 DEF SingleFile, Sufficient
        <3>4. QED BY <3>3 DEF HoldsSem
    <2>2. plan.size \in [Chunks -> Nat]
        BY <1>1, PlanType
    <2>3. HeldBytes = 0
        BY <2>1, <2>2, SumEmpty DEF HeldBytes
    <2>4. plan.size[w] <= plan.buffer
        BY <1>1 DEF Sufficient
    <2>5. QED BY <1>2, <2>3, <2>4 DEF Fits
<1>6. CASE plan.workers # 1
    <2>1. plan.workers > 1
        BY <1>1, <1>6, PlanType DEF Sufficient
    <2>2. ASSUME NEW i \in Held \cup {w} PROVE i \in WindowAt(w)
        <3>1. i \in Chunks /\ w <= i /\ pc[i] \in HoldsSem \cup {"done"}
            BY <1>1, <2>2 DEF Held, ReportInv
        <3>2. i < 2 * plan.prefetch \/ i <= w + plan.prefetch
            BY <3>1 DEF PrefetchWindow, HoldsSem, RacePC
        <3>3. QED BY <3>1, <3>2 DEF WindowAt
    <2>3. WindowAt(w) \in SUBSET Chunks /\ (Held \cup {w}) \in SUBSET WindowAt(w)
        BY <2>2 DEF WindowAt
    <2>4. IsFiniteSet(WindowAt(w))
        BY <1>1, <2>3, BytesType
    <2>5. plan.size \in [Chunks -> Nat]
        BY <1>1, PlanType
    <2>6. SumFunctionOnSet(plan.size, Held \cup {w}) <=
              SumFunctionOnSet(plan.size, WindowAt(w))
        BY <2>3, <2>4, <2>5, SumMonotonic
    <2>7. SumFunctionOnSet(plan.size, WindowAt(w)) <= plan.buffer
        BY <1>1, <2>1 DEF Sufficient
    <2>8. SumFunctionOnSet(plan.size, WindowAt(w)) \in Nat
        BY <1>1, <2>3, BytesType
    <2>9. QED BY <1>2, <1>4, <2>6, <2>7, <2>8 DEF Fits
<1>7. QED BY <1>5, <1>6

\* The chunk the write loop waits for is at the semaphore: a permit is free.
LEMMA PermitIsFree ==
    ASSUME TypeInv, QueueInv, ReportInv, SentInv, WaitingInv, Sufficient,
           wpc = "await", pc[w] = "sem"
    PROVE  semq # <<>> /\ Cardinality(Holders) < plan.workers
<1>1. /\ plan \in Plans /\ w \in Chunks /\ w \in Nat /\ Running
      /\ \A i \in Chunks : i \in Nat
      /\ semq \in Seq(Chunks)
    BY ChunkType DEF TypeInv, TypeOK, Running, Chunks
<1>2. PICK k \in 1 .. Len(semq) : semq[k] = w
    BY <1>1 DEF WaitingInv
<1>3. semq # <<>>
    BY <1>1, <1>2, EmptySeq, LenProperties
<1>4. ASSUME NEW j \in Holders PROVE FALSE
    <2>1. j \in Chunks /\ pc[j] \in HoldsSem /\ j < w
        BY <1>2 DEF Holders, QueueInv
    <2>2. results[j] = "data"
        BY <2>1 DEF SentInv
    <2>3. pc[j] = "done"
        BY <2>1, <2>2 DEF ReportInv
    <2>4. QED BY <2>1, <2>3 DEF HoldsSem
<1>5. Cardinality(Holders) = 0
    BY <1>4, FS_EmptySet
<1>6. plan.workers > 0
    BY DEF Sufficient
<1>7. QED BY <1>3, <1>5, <1>6

\* The chunk the write loop waits for is at its gate: the gate is open.
LEMMA GateIsOpen ==
    ASSUME TypeInv, ReportInv, SentInv, WaitingInv, Sufficient,
           wpc = "await", pc[w] = "gate"
    PROVE  CanStep(w)
<1>1. /\ plan \in Plans /\ w \in Chunks /\ w \in Nat /\ Running
      /\ 0 \in Chunks /\ \A i \in Chunks : i \in Nat
      /\ plan.prefetch \in Nat /\ plan.prefetch > 0
    BY ChunkType, PlanType DEF TypeInv, TypeOK, Running, Chunks, Sufficient
<1>2. GateOf(w) \in gate
    <2>1. CASE w <= plan.prefetch
        <3>1. GateOf(w) = 0
            BY <2>1 DEF GateOf
        <3>2. QED BY <1>1, <3>1 DEF WaitingInv
    <2>2. CASE ~ (w <= plan.prefetch)
        <3>1. GateOf(w) = w - plan.prefetch
            BY <2>2 DEF GateOf
        <3>2. w - plan.prefetch \in Chunks
            BY <1>1, <2>2, ChunkType DEF Chunks
        <3>3. 1 <= w - plan.prefetch /\ w - plan.prefetch <= w
            BY <1>1, <2>2
        <3>4. QED BY <1>1, <3>1, <3>2, <3>3 DEF WaitingInv
    <2>3. QED BY <2>1, <2>2
<1>3. ASSUME NEW j \in Chunks, j < w PROVE pc[j] # "gate"
    BY <1>3 DEF SentInv, ReportInv
<1>4. QED BY <1>2, <1>3 DEF CanStep

\* Under a sufficient plan (room for the window, or one worker with room for its
\* chunk) no interleaving of fetches, gates, permits, buffer waits and writes
\* leaves every coroutine of an open stream waiting: the safety half of
\* StreamEnds, for any number of chunks of any size.
THEOREM StreamNeverStuck == Spec => []NeverStuck
<1>1. TypeInv /\ QueueInv /\ ReportInv /\ SentInv /\ CounterInv /\ NoLostWakeup
          /\ PrefetchWindow /\ WaitingInv /\ SingleFile => NeverStuck
    <2> SUFFICES ASSUME TypeInv, QueueInv, ReportInv, SentInv, CounterInv,
                        NoLostWakeup, PrefetchWindow, WaitingInv, SingleFile,
                        Sufficient, wpc # "closed"
                 PROVE  CanMove
        BY DEF NeverStuck
    <2>1. CASE wpc # "await"
        BY <2>1 DEF CanMove, TypeInv, TypeOK
    <2>2. CASE wpc = "await"
        <3>1. w \in Chunks /\ Running /\ ~plan.race
            BY <2>2, ChunkType DEF TypeInv, TypeOK, Running, Chunks, Sufficient
        <3>2. pc[w] \in TaskPC /\ results[w] \in {"none", "data", "exc"}
            BY <3>1 DEF TypeInv, TypeOK
        <3>3. CASE pc[w] \in {"fetch", "woken"}
            BY <3>1, <3>3 DEF CanMove, CanStep
        <3>4. CASE pc[w] = "bufwait"
            <4>1. ~ Fits(w)
                BY <3>1, <3>4 DEF NoLostWakeup
            <4>2. QED BY <2>2, <3>4, <4>1, NextChunkFits DEF HoldsSem
        <3>5. CASE pc[w] = "gate"
            BY <2>2, <3>1, <3>5, GateIsOpen DEF CanMove
        <3>6. CASE pc[w] = "sem"
            BY <2>2, <3>1, <3>6, PermitIsFree DEF CanMove
        <3>7. CASE pc[w] = "done"
            BY <2>2, <3>1, <3>2, <3>7 DEF CanMove, WaitingInv
        <3>8. pc[w] \notin RacePC \cup {"cancelled"}
            BY <3>1 DEF WaitingInv
        <3>9. QED BY <3>2, <3>3, <3>4, <3>5, <3>6, <3>7, <3>8
            DEF TaskPC, HoldsSem, Ended
    <2>3. QED BY <2>1, <2>2
<1>2. Spec => []CounterInv
    BY CounterAlways
<1>3. QED
    BY <1>1, <1>2, TypeAlways, QueueAlways, ReportAlways, SentAlways,
       NoLostWakeupSafe, PrefetchWindowSafe, WaitingAlways, PTL

-----------------------------------------------------------------------------
(* Nobody goes round in circles: every step brings the stream closer to    *)
(* its end.                                                                *)

\* How far a chunk's task is from its end.  A write moves a task back from
\* bufwait to woken: what it costs is paid by the chunk that was written.
TaskRank(s) ==
    CASE s = "gate"    -> 5
      [] s = "sem"     -> 4
      [] s = "fetch"   -> 3
      [] s = "woken"   -> 2
      [] s = "bufwait" -> 1
      [] s = "race"    -> 3
      [] s = "reap"    -> 1
      [] OTHER         -> 0

CandRank(s) == IF s = "run" THEN 2 ELSE IF s \in {"ok", "exc"} THEN 1 ELSE 0

WriterRank ==
    CASE wpc = "await"   -> 3
      [] wpc = "writing" -> 2
      [] wpc = "cleanup" -> 1
      [] OTHER           -> 0

Ranks(p)      == [i \in Chunks |-> TaskRank(p[i])]
TasksRank(p)  == SumFunctionOnSet(Ranks(p), Chunks)
UnsentRank(n) == (NumChunks - n) * (NumChunks + 3)

\* The steps that the stream has left, at most.
Variant ==
    TasksRank(pc) + CandRank(cand["a"]) + CandRank(cand["b"])
        + UnsentRank(w) + WriterRank

\* The ranks of the tasks and their sum are numbers.
LEMMA RanksType ==
    \A p \in [Chunks -> TaskPC] :
        /\ Ranks(p) \in [Chunks -> Nat]
        /\ \A i \in Chunks : Ranks(p)[i] = TaskRank(p[i])
        /\ TasksRank(p) \in Nat
<1> SUFFICES ASSUME NEW p \in [Chunks -> TaskPC]
             PROVE  /\ Ranks(p) \in [Chunks -> Nat]
                    /\ \A i \in Chunks : Ranks(p)[i] = TaskRank(p[i])
                    /\ TasksRank(p) \in Nat
    OBVIOUS
<1>1. \A s \in TaskPC : TaskRank(s) \in Nat
    BY DEF TaskRank
<1>2. Ranks(p) \in [Chunks -> Nat]
    BY <1>1 DEF Ranks
<1>3. IsFiniteSet(Chunks)
    BY FS_Interval, ChunkType DEF Chunks
<1>4. TasksRank(p) \in Nat
    BY <1>2, <1>3, SumType DEF TasksRank
<1>5. QED BY <1>2, <1>4 DEF Ranks

\* A task that moves on lowers the sum.
LEMMA OneTaskMoves ==
    \A p, q \in [Chunks -> TaskPC] : \A i \in Chunks :
        (\A j \in Chunks \ {i} : q[j] = p[j]) /\ TaskRank(q[i]) < TaskRank(p[i]) =>
            TasksRank(q) < TasksRank(p)
<1> SUFFICES ASSUME NEW p \in [Chunks -> TaskPC], NEW q \in [Chunks -> TaskPC],
                    NEW i \in Chunks, \A j \in Chunks \ {i} : q[j] = p[j],
                    TaskRank(q[i]) < TaskRank(p[i])
             PROVE  TasksRank(q) < TasksRank(p)
    OBVIOUS
<1>1. /\ Ranks(p) \in [Chunks -> Nat] /\ Ranks(q) \in [Chunks -> Nat]
      /\ TasksRank(p) \in Nat /\ TasksRank(q) \in Nat
      /\ Ranks(p)[i] = TaskRank(p[i]) /\ Ranks(q)[i] = TaskRank(q[i])
      /\ \A j \in Chunks \ {i} : Ranks(p)[j] = Ranks(q)[j]
    BY RanksType
<1>2. IsFiniteSet(Chunks)
    BY FS_Interval, ChunkType DEF Chunks
<1>3. TasksRank(q) + Ranks(p)[i] = TasksRank(p) + Ranks(q)[i]
    BY <1>1, <1>2, SumUpdate DEF TasksRank
<1>4. Ranks(p)[i] \in Nat /\ Ranks(q)[i] \in Nat
    BY <1>1
<1>5. QED BY <1>1, <1>3, <1>4

\* Waking the sleepers raises it by one for each of them at most.
LEMMA WakingCosts ==
    \A p, q \in [Chunks -> TaskPC] :
        (\A i \in Chunks : q[i] = IF p[i] = "bufwait" THEN "woken" ELSE p[i]) =>
            TasksRank(q) <= TasksRank(p) + NumChunks
<1> SUFFICES ASSUME NEW p \in [Chunks -> TaskPC], NEW q \in [Chunks -> TaskPC],
                    \A i \in Chunks :
                        q[i] = IF p[i] = "bufwait" THEN "woken" ELSE p[i]
             PROVE  TasksRank(q) <= TasksRank(p) + NumChunks
    OBVIOUS
<1>1. /\ Ranks(p) \in [Chunks -> Nat] /\ Ranks(q) \in [Chunks -> Nat]
      /\ \A i \in Chunks : /\ Ranks(p)[i] = TaskRank(p[i])
                           /\ Ranks(q)[i] = TaskRank(q[i])
    BY RanksType
<1>2. ASSUME NEW i \in Chunks PROVE Ranks(q)[i] <= Ranks(p)[i] + 1
    <2>1. Ranks(p)[i] \in Nat
        BY <1>1
    <2>2. CASE p[i] = "bufwait"
        BY <1>1, <2>2 DEF TaskRank
    <2>3. CASE p[i] # "bufwait"
        <3>1. Ranks(q)[i] = Ranks(p)[i]
            BY <1>1, <2>3
        <3>2. QED BY <2>1, <3>1
    <2>4. QED BY <2>2, <2>3
<1>3. IsFiniteSet(Chunks) /\ Cardinality(Chunks) = NumChunks
    BY FS_Interval, ChunkType DEF Chunks
<1>4. QED BY <1>1, <1>2, <1>3, SumGrowth DEF TasksRank

\* What the chunks not yet sent are worth, and what sending one pays.
LEMMA UnsentType ==
    /\ \A n \in 0 .. NumChunks : UnsentRank(n) \in Nat
    /\ \A n \in 0 .. NumChunks - 1 :
          UnsentRank(n) = UnsentRank(n + 1) + NumChunks + 3
<1>1. NumChunks \in Nat
    BY ChunkType
<1>2. ASSUME NEW n \in 0 .. NumChunks PROVE UnsentRank(n) \in Nat
    <2>1. NumChunks - n \in Nat /\ NumChunks + 3 \in Nat
        BY <1>1
    <2>2. QED BY <2>1 DEF UnsentRank
<1>3. ASSUME NEW n \in 0 .. NumChunks - 1
      PROVE  UnsentRank(n) = UnsentRank(n + 1) + NumChunks + 3
    <2>1. \A a, b \in Int : a * b = (a - 1) * b + b
        OBVIOUS
    <2>2. NumChunks - n \in Int /\ NumChunks + 3 \in Int
          /\ (NumChunks - n) - 1 = NumChunks - (n + 1)
        BY <1>1
    <2>3. (NumChunks - n) * (NumChunks + 3) =
              (NumChunks - (n + 1)) * (NumChunks + 3) + (NumChunks + 3)
        BY <2>1, <2>2
    <2>4. UnsentRank(n) = UnsentRank(n + 1) + (NumChunks + 3)
        BY <2>3 DEF UnsentRank
    <2>5. n + 1 \in 0 .. NumChunks
        BY <1>1
    <2>6. UnsentRank(n + 1) \in Nat
        BY <1>2, <2>5
    <2>7. QED BY <1>1, <2>4, <2>6
<1>4. QED BY <1>2, <1>3

\* The parts of the variant are numbers.
LEMMA VariantType ==
    ASSUME TypeInv
    PROVE  /\ TasksRank(pc) \in Nat
           /\ CandRank(cand["a"]) \in 0 .. 2 /\ CandRank(cand["b"]) \in 0 .. 2
           /\ UnsentRank(w) \in Nat
           /\ WriterRank \in 0 .. 3
           /\ Variant \in Nat
<1>1. TasksRank(pc) \in Nat
    BY RanksType DEF TypeInv, TypeOK
<1>2. CandRank(cand["a"]) \in 0 .. 2 /\ CandRank(cand["b"]) \in 0 .. 2
    BY DEF CandRank
<1>3. UnsentRank(w) \in Nat
    BY UnsentType DEF TypeInv, TypeOK
<1>4. WriterRank \in 0 .. 3
    BY DEF WriterRank
<1>5. QED BY <1>1, <1>2, <1>3, <1>4 DEF Variant

\* A step of one fetch task.
LEMMA TaskProgress ==
    ASSUME TypeInv, TypeInv', NEW i \in Chunks,
           \A j \in Chunks \ {i} : pc'[j] = pc[j],
           TaskRank(pc'[i]) < TaskRank(pc[i]),
           CandRank(cand'["a"]) <= CandRank(cand["a"]),
           CandRank(cand'["b"]) <= CandRank(cand["b"]),
           UNCHANGED <<w, wpc>>
    PROVE  Variant' < Variant
<1>1. pc \in [Chunks -> TaskPC] /\ pc' \in [Chunks -> TaskPC]
    BY DEF TypeInv, TypeOK
<1>2. TasksRank(pc') < TasksRank(pc) /\ TasksRank(pc') \in Nat
    BY <1>1, OneTaskMoves, RanksType
<1>3. /\ CandRank(cand'["a"]) \in 0 .. 2
      /\ CandRank(cand'["b"]) \in 0 .. 2
      /\ UnsentRank(w') = UnsentRank(w)
      /\ WriterRank' = WriterRank
    BY DEF WriterRank, CandRank
<1>4. Variant' = TasksRank(pc') + CandRank(cand'["a"]) + CandRank(cand'["b"])
                     + UnsentRank(w') + WriterRank'
    BY DEF Variant
<1>5. QED BY <1>2, <1>3, <1>4, VariantType DEF Variant

\* The steps of the race.
LEMMA RaceProgress ==
    ASSUME TypeInv, TypeInv', Race
    PROVE  Variant' < Variant
<1>1. /\ pc \in [Chunks -> TaskPC] /\ pc' \in [Chunks -> TaskPC] /\ 0 \in Chunks
      /\ Candidates = {"a", "b"} /\ DOMAIN cand = Candidates
    BY ChunkType DEF TypeInv, TypeOK, Candidates
<1>2. UNCHANGED <<w, wpc>>
    BY DEF Race, CandidateEnds, RaceWake, ReapLoser, writeVars
<1>3. /\ UnsentRank(w') = UnsentRank(w)
      /\ WriterRank' = WriterRank
    BY <1>2 DEF WriterRank
<1>4. Variant' = TasksRank(pc') + CandRank(cand'["a"]) + CandRank(cand'["b"])
                     + UnsentRank(w') + WriterRank'
    BY DEF Variant
<1>5. /\ CandRank(cand'["a"]) \in 0 .. 2 /\ CandRank(cand'["b"]) \in 0 .. 2
      /\ TasksRank(pc') \in Nat
    BY <1>1, RanksType DEF CandRank
<1>6. SUFFICES
        /\ TasksRank(pc') <= TasksRank(pc)
        /\ CandRank(cand'["a"]) <= CandRank(cand["a"])
        /\ CandRank(cand'["b"]) <= CandRank(cand["b"])
        /\ \/ TasksRank(pc') < TasksRank(pc)
           \/ CandRank(cand'["a"]) < CandRank(cand["a"])
           \/ CandRank(cand'["b"]) < CandRank(cand["b"])
    BY <1>3, <1>4, <1>5, VariantType DEF Variant
<1>7. CASE \E c \in Candidates, o \in {"ok", "exc"} : CandidateEnds(c, o)
    <2>1. PICK c \in Candidates, o \in {"ok", "exc"} : CandidateEnds(c, o)
        BY <1>7
    <2>2. /\ cand[c] = "run" /\ cand'[c] = o /\ pc' = pc
          /\ \A d \in Candidates \ {c} : cand'[d] = cand[d]
        BY <1>1, <2>1 DEF CandidateEnds
    <2>3. CandRank(cand'[c]) < CandRank(cand[c])
        BY <2>2 DEF CandRank
    <2>4. TasksRank(pc') = TasksRank(pc)
        BY <2>2
    <2>5. CASE c = "a"
        <3>1. cand'["b"] = cand["b"]
            BY <1>1, <2>2, <2>5
        <3>2. CandRank(cand'["b"]) = CandRank(cand["b"])
            BY <3>1
        <3>3. CandRank(cand'["a"]) < CandRank(cand["a"])
            BY <2>3, <2>5
        <3>4. QED BY <1>5, <2>4, <3>2, <3>3, VariantType
    <2>6. CASE c = "b"
        <3>1. cand'["a"] = cand["a"]
            BY <1>1, <2>2, <2>6
        <3>2. CandRank(cand'["a"]) = CandRank(cand["a"])
            BY <3>1
        <3>3. CandRank(cand'["b"]) < CandRank(cand["b"])
            BY <2>3, <2>6
        <3>4. QED BY <1>5, <2>4, <3>2, <3>3, VariantType
    <2>7. QED BY <1>1, <2>5, <2>6
<1>8. CASE RaceWake \/ ReapLoser
    <2>1. \A c \in Candidates :
              cand'[c] = cand[c] \/ cand'[c] \in {"cancelled", "lost"}
        BY <1>1, <1>8 DEF RaceWake, ReapLoser
    <2>2. \A c \in Candidates : CandRank(cand'[c]) <= CandRank(cand[c])
        BY <2>1 DEF CandRank
    <2>3. CASE pc' = pc
        <3>1. PICK c \in Candidates : cand[c] = "exc" /\ cand'[c] = "lost"
            BY <1>1, <1>8, <2>3 DEF RaceWake, ReapLoser, StoreRace
        <3>2. CandRank(cand'[c]) < CandRank(cand[c])
            BY <3>1 DEF CandRank
        <3>3. QED BY <1>1, <2>2, <2>3, <3>2, VariantType
    <2>4. CASE pc' # pc
        <3>1. /\ \A j \in Chunks \ {0} : pc'[j] = pc[j]
              /\ \/ pc[0] = "race" /\ pc'[0] \in {"done", "reap"}
                 \/ pc[0] = "reap" /\ pc'[0] = "cancelled"
            BY <1>1, <1>8, <2>4 DEF RaceWake, ReapLoser, StoreRace
        <3>2. TaskRank(pc'[0]) < TaskRank(pc[0])
            BY <3>1 DEF TaskRank
        <3>3. TasksRank(pc') < TasksRank(pc)
            BY <1>1, <3>1, <3>2, OneTaskMoves
        <3>4. QED BY <1>1, <1>5, <2>2, <3>3, VariantType
    <2>5. QED BY <2>3, <2>4
<1>9. QED BY <1>7, <1>8 DEF Race

\* The steps of the write loop, and its cancellation.
LEMMA WriteLoopProgress ==
    ASSUME TypeInv, TypeInv', WriteLoop \/ Abort
    PROVE  Variant' < Variant
<1>1. pc \in [Chunks -> TaskPC] /\ pc' \in [Chunks -> TaskPC]
    BY DEF TypeInv, TypeOK
<1>2. UNCHANGED cand
    BY DEF WriteLoop, TakeChunk, WriteDone, WriteFail, Close, Abort, taskVars
<1>3. Variant' = TasksRank(pc') + CandRank(cand["a"]) + CandRank(cand["b"])
                     + UnsentRank(w') + WriterRank'
    BY <1>2 DEF Variant
<1>4. CASE TakeChunk \/ WriteFail \/ Close \/ Abort
    <2>1. pc' = pc /\ w' = w
        BY <1>4 DEF TakeChunk, WriteFail, Close, Abort, taskVars
    <2>2. WriterRank' < WriterRank
        BY <1>4 DEF TakeChunk, WriteFail, Close, Abort, Running, WriterRank
    <2>3. TasksRank(pc') = TasksRank(pc) /\ UnsentRank(w') = UnsentRank(w)
        BY <2>1
    <2>4. WriterRank' \in 0 .. 3
        BY DEF WriterRank
    <2>5. QED BY <1>3, <2>2, <2>3, <2>4, VariantType DEF Variant
<1>5. CASE WriteDone
    <2>1. \A i \in Chunks : pc'[i] = IF pc[i] = "bufwait" THEN "woken" ELSE pc[i]
        BY <1>5 DEF WriteDone
    <2>2. TasksRank(pc') <= TasksRank(pc) + NumChunks /\ TasksRank(pc') \in Nat
        BY <1>1, <2>1, WakingCosts, RanksType
    <2>3. w \in 0 .. NumChunks - 1 /\ w' = w + 1 /\ NumChunks \in Nat
        BY <1>5, ChunkType DEF WriteDone, Running, TypeInv, TypeOK
    <2>4. UnsentRank(w) = UnsentRank(w') + NumChunks + 3 /\ UnsentRank(w') \in Nat
        BY <2>3, UnsentType
    <2>5. WriterRank = 2 /\ WriterRank' \in 0 .. 3
        BY <1>5 DEF WriteDone, WriterRank
    <2>6. QED BY <1>3, <2>2, <2>3, <2>4, <2>5, VariantType DEF Variant
<1>6. QED BY <1>4, <1>5 DEF WriteLoop

\* Every step of a stream lowers a natural number, under every plan, the ones
\* that hang included: a stream makes finitely many steps and then either has
\* closed or waits for ever.  With StreamNeverStuck: a stream under a sufficient
\* plan whose coroutines are run closes.
THEOREM StreamMakesProgress ==
    Spec => [](Variant \in Nat) /\ [][Variant' < Variant]_vars
<1>1. TypeInv => Variant \in Nat
    BY VariantType
<1>2. TypeInv /\ TypeInv' /\ QueueInv /\ [Next]_vars => [Variant' < Variant]_vars
    <2> SUFFICES ASSUME TypeInv, TypeInv', QueueInv, Next, vars' # vars
                 PROVE  Variant' < Variant
        OBVIOUS
    <2>1. ASSUME NEW i \in Chunks, Task(i) PROVE Variant' < Variant
        <3>1. /\ \A j \in Chunks \ {i} : pc'[j] = pc[j]
              /\ UNCHANGED <<w, wpc>>
            BY <2>1
            DEF Task, PassGate, FetchOk, FetchFail, Recheck, CancelTask, TryStore,
                writeVars, TypeInv, TypeOK
        <3>2. \/ pc[i] = "gate" /\ pc'[i] = "sem"
              \/ pc[i] \in {"fetch", "woken"} /\ pc'[i] \in {"done", "bufwait"}
              \/ pc[i] \in TaskPC \ Ended /\ pc'[i] = "cancelled"
            BY <2>1
            DEF Task, PassGate, FetchOk, FetchFail, Recheck, CancelTask, TryStore,
                TypeInv, TypeOK
        <3>3. TaskRank(pc'[i]) < TaskRank(pc[i])
            BY <3>2 DEF TaskRank, TaskPC, HoldsSem, RacePC, Ended
        <3>4. \A c \in Candidates : cand'[c] = cand[c] \/ cand'[c] = "cancelled"
            BY <2>1
            DEF Task, PassGate, FetchOk, FetchFail, Recheck, CancelTask, CancelRace
        <3>5. /\ CandRank(cand'["a"]) <= CandRank(cand["a"])
              /\ CandRank(cand'["b"]) <= CandRank(cand["b"])
            BY <3>4 DEF Candidates, CandRank
        <3>6. QED BY <3>1, <3>3, <3>5, TaskProgress
    <2>2. CASE Acquire
        <3>1. Head(semq) \in Chunks /\ pc[Head(semq)] = "sem"
            BY <2>2, HeadWaits
        <3>2. /\ pc' = [pc EXCEPT ![Head(semq)] = "fetch"]
              /\ UNCHANGED <<cand, w, wpc>>
            BY <2>2 DEF Acquire, writeVars
        <3>3. /\ \A j \in Chunks \ {Head(semq)} : pc'[j] = pc[j]
              /\ pc'[Head(semq)] = "fetch"
            BY <3>1, <3>2 DEF TypeInv, TypeOK
        <3>4. TaskRank(pc'[Head(semq)]) < TaskRank(pc[Head(semq)])
            BY <3>1, <3>3 DEF TaskRank
        <3>5. /\ CandRank(cand'["a"]) <= CandRank(cand["a"])
              /\ CandRank(cand'["b"]) <= CandRank(cand["b"])
            BY <3>2 DEF CandRank
        <3>6. QED BY <3>1, <3>2, <3>3, <3>4, <3>5, TaskProgress
    <2>3. CASE Race
        BY <2>3, RaceProgress
    <2>4. CASE WriteLoop \/ Abort
        BY <2>4, WriteLoopProgress
    <2>5. QED BY <2>1, <2>2, <2>3, <2>4 DEF Next, Terminated
<1>3. QED
    BY <1>1, <1>2, TypeAlways, QueueAlways, PTL DEF Spec
==============================================================================
