---------------------------- MODULE RequestCache ----------------------------
(***************************************************************************)
(* The request handler (proxy/handlers/request.py) over its two caches:    *)
(* the lookup in memory, the conditional request to the origin, the        *)
(* lookup on disk, the fetch, and the two stores that follow it.  Disk     *)
(* work runs on an executor of two threads, and only committed rows        *)
(* survive the death of the process.                                       *)
(*                                                                         *)
(* A step is what the handler's coroutine does between two suspensions, or *)
(* what a disk thread does while it holds DiskCache._lock between two      *)
(* commits.  The handler is modelled with both caches enabled and bound;   *)
(* README.md says which of the bindings main() really makes.               *)
(***************************************************************************)
EXTENDS CacheTiers

CONSTANTS
    Requests,       \* connections: each has one request at a time
    Workers,        \* the threads of _DISK_EXECUTOR
    OldTables,      \* what a database file may hold when the program starts
    Bounds,         \* bounds on a behaviour: see BoundType
    NoRequest       \* of a job that nobody awaits

VARIABLES
    now,        \* real time
    boot,       \* when the machine booted: time.monotonic() is now - boot
    origin,     \* version of the content at the origin
    mem,        \* ResponseCache._store
    rows,       \* the table responses, as committed
    queue,      \* jobs submitted to _DISK_EXECUTOR
    worker,     \* what each of its threads is doing
    req,        \* the requests
    overrun,    \* the last trimming of the table is not known to have ended
    bound,      \* the bounds of this behaviour
    crashes,    \* deaths of the process so far
    arrivals    \* requests so far

env   == <<now, boot, origin, bound, crashes>>
disk  == <<rows, queue, worker, overrun>>
vars  == <<now, boot, origin, mem, rows, queue, worker, req, overrun, bound,
           crashes, arrivals>>

Mono == now - boot

(* A copy of a response: the version of its content, whether it has an     *)
(* ETag or Last-Modified, its Cache-Control, when the tier that TTLs are   *)
(* counted from stored it, and how long its promotion to memory took.      *)
Copies == [ver : Nat, tag : BOOLEAN, cc : Directives, since : Nat, lag : Nat]

NoCopy == [ver |-> 0, tag |-> FALSE, cc |-> "keep", since |-> 0, lag |-> 0]

Entries == [url : Urls, copy : Copies, expires : Nat]
Rows    == [row : {TRUE}, copy : Copies, expires : Nat, cachedAt : Nat]
Tables  == [Urls -> Rows \cup {NoRow}]

Jobs == [op : {"get", "put"}, url : Urls, req : Requests \cup {NoRequest},
         copy : Copies]

Idle    == [phase |-> "idle"]
Working == [phase : {"lock", "trim"}, job : Jobs, at : Nat]

\* GET, GET with no-cache, a method with a body (POST, PUT, PATCH), another.
Kinds    == {"get", "bypass", "upload", "other"}
Awaiting == {"body", "reval", "disk", "inner"}
Phases   == {"idle", "done"} \cup Awaiting
Answers  == {"none", "304", "200", "failed", "hit", "miss", "response", "stream"}
Vias     == {"none", "L1", "L1-304", "fresh", "L2", "fetched"}

RequestType ==
    [phase : Phases, url : Urls, kind : Kinds,
     copy  : Copies,        \* what was captured, received or served
     t0    : Nat,           \* when it came in
     seen  : Nat,           \* the version the origin had at that time
     got   : Answers,       \* the answer to what it awaits
     at    : Nat,           \* time.monotonic() of the disk lookup
     via   : Vias]          \* X-Cache of the response, once sent

\* Bounds of the model: the clock, changes of the content, deaths of the
\* process, requests in all, the connections they come on, their URLs and the
\* kinds of those that are not looked up.
BoundType ==
    [time : Nat, versions : Nat, crashes : Nat, arrivals : Nat,
     urls : SUBSET Urls, requests : SUBSET Requests, kinds : SUBSET Kinds]

NotYet ==
    [phase |-> "idle", url |-> CHOOSE u \in Urls : TRUE, kind |-> "get",
     copy |-> NoCopy, t0 |-> 0, seen |-> 0, got |-> "none", at |-> 0, via |-> "none"]

\* Its rows were stored before the current boot, which is at time 1.
ASSUME RequestCacheAssumption ==
    /\ \A t \in OldTables :
          t \in Tables /\ \A u \in Stored(t) : t[u].copy.since = 0 /\ t[u].copy.ver = 0
    /\ NoRequest \notin Requests
    /\ Bounds \subseteq BoundType

Init ==
    /\ now = 1
    /\ boot = 1
    /\ origin = 0
    /\ mem = <<>>
    /\ rows \in OldTables
    /\ queue = <<>>
    /\ worker = [w \in Workers |-> Idle]
    /\ req = [r \in Requests |-> NotYet]
    /\ overrun = TRUE
    /\ bound \in Bounds
    /\ crashes = 0
    /\ arrivals = 0

-----------------------------------------------------------------------------
(* The handler, up to its first suspension.                                *)

Arrive(r, u, k, phase) ==
    [NotYet EXCEPT !.phase = phase, !.url = u, !.kind = k, !.t0 = now, !.seen = origin]

Free(r) == req[r].phase \notin Awaiting

Counted == arrivals < bound.arrivals /\ arrivals' = arrivals + 1

Submit(job) == queue' = Append(queue, job)

\* A hit in memory: served at once, or after asking the origin when the
\* response had a validator.  get and get_validators run without a suspension
\* between them, so both speak of the same entry.
Hit(r, u) ==
    /\ Free(r) /\ Counted
    /\ Unexpired(mem, u, Mono)
    /\ LET copy == mem[Place(mem, u)].copy
       IN  req' = [req EXCEPT ![r] =
                     [Arrive(r, u, "get", IF copy.tag THEN "reval" ELSE "done")
                        EXCEPT !.copy = copy, !.via = IF copy.tag THEN "none" ELSE "L1"]]
    /\ mem' = Touched(mem, u)
    /\ UNCHANGED <<env, disk>>

\* A miss in memory, where an expired entry is deleted: the disk is asked.
Miss(r, u) ==
    /\ Free(r) /\ Counted
    /\ ~ Unexpired(mem, u, Mono)
    /\ mem' = Dropped(mem, u)
    /\ req' = [req EXCEPT ![r] = Arrive(r, u, "get", "disk")]
    /\ Submit([op |-> "get", url |-> u, req |-> r, copy |-> NoCopy])
    /\ UNCHANGED <<env, rows, worker, overrun>>

\* no-cache, or a method other than GET: no lookup.  A body is awaited first.
Bypass(r, u, k) ==
    /\ Free(r) /\ Counted
    /\ k # "get"
    /\ req' = [req EXCEPT ![r] =
                  Arrive(r, u, k, IF k = "upload" THEN "body" ELSE "inner")]
    /\ UNCHANGED <<env, mem, disk>>

\* request.read() returns with the body.  It stands before the try and before
\* wait_for, and has no time limit: the client may take as long as it likes.
BodyArrives(r) ==
    /\ req[r].phase = "body"
    /\ req' = [req EXCEPT ![r].phase = "inner", ![r].got = "none"]
    /\ UNCHANGED <<env, arrivals, mem, disk>>

\* It raises: the client went away, or its body is larger than the server takes.
BodyFails(r) ==
    /\ req[r].phase = "body"
    /\ req' = [req EXCEPT ![r] = NotYet]
    /\ UNCHANGED <<env, arrivals, mem, disk>>

-----------------------------------------------------------------------------
(* The origin.                                                             *)

Answer(r, answer, copy) ==
    req' = [req EXCEPT ![r].got = answer, ![r].copy = copy]

FromOrigin(tag, cc) ==
    [ver |-> origin, tag |-> tag, cc |-> cc, since |-> 0, lag |-> 0]

\* Mutation: the origin's answer is not looked at, any hit counts as 304.
BlindConditionalGet(r) ==
    /\ req[r].phase = "reval" /\ req[r].got = "none"
    /\ Answer(r, "304", req[r].copy)
    /\ UNCHANGED <<env, arrivals, mem, disk>>

\* The conditional GET: 304 when the content is what the validator names, 200
\* with the content, or another status, an error or the timeout.
ConditionalGet(r) ==
    /\ req[r].phase = "reval" /\ req[r].got = "none"
    /\ \/ /\ req[r].copy.ver = origin
          /\ Answer(r, "304", req[r].copy)
       \/ \E tag \in BOOLEAN, cc \in Directives :
             Answer(r, "200", FromOrigin(tag, cc))
       \/ Answer(r, "failed", req[r].copy)
    /\ UNCHANGED <<env, arrivals, mem, disk>>

\* handle_inner.  What it builds has a Content-Type of its own and none of the
\* origin's headers, so neither a validator nor a Cache-Control.
Fetch(r) ==
    /\ req[r].phase = "inner" /\ req[r].got = "none"
    /\ \/ Answer(r, "response", FromOrigin(FALSE, "keep"))
       \/ Answer(r, "stream", NoCopy)
       \/ Answer(r, "failed", NoCopy)
    /\ UNCHANGED <<env, arrivals, mem, disk>>

-----------------------------------------------------------------------------
(* The handler, resumed.                                                   *)

Reply(r, via, copy) ==
    req' = [req EXCEPT ![r] = [NotYet EXCEPT !.phase = "done", !.via = via,
                                             !.copy = copy, !.t0 = req[r].t0,
                                             !.seen = req[r].seen]]

\* A stream, an error page: nothing that a cache has to answer for.
ReplyOther(r) == req' = [req EXCEPT ![r] = NotYet]

AsStoredNow(copy) == [copy EXCEPT !.since = now, !.lag = 0]

\* 304 and failures serve the copy captured before the request, 200 replaces
\* the entry in memory (not the row on disk).
FinishReval(r) ==
    /\ req[r].phase = "reval" /\ req[r].got # "none"
    /\ LET q == req[r]
       IN  \/ /\ q.got = "304"
              /\ Reply(r, "L1-304", q.copy)
              /\ UNCHANGED mem
           \/ /\ q.got = "200"
              /\ mem' = MemPut(mem, q.url, AsStoredNow(q.copy), Mono)
              /\ Reply(r, "fresh", q.copy)
           \/ /\ q.got = "failed"
              /\ Reply(r, "L1", q.copy)
              /\ UNCHANGED mem
    /\ UNCHANGED <<env, arrivals, disk>>

\* A hit on disk is promoted to memory, where a new TTL starts.  An error is
\* not caught and ends the request.
FinishDisk(r) ==
    /\ req[r].phase = "disk" /\ req[r].got # "none"
    /\ LET q        == req[r]
           promoted == [q.copy EXCEPT !.lag = Mono - q.at]
       IN  \/ /\ q.got = "hit"
              /\ mem' = MemPut(mem, q.url, promoted, Mono)
              /\ Reply(r, "L2", q.copy)
           \/ /\ q.got = "miss"
              /\ req' = [req EXCEPT ![r].phase = "inner", ![r].got = "none"]
              /\ UNCHANGED mem
           \/ q.got = "failed" /\ ReplyOther(r) /\ UNCHANGED mem
    /\ UNCHANGED <<env, arrivals, disk>>

\* A whole response to a GET is stored in memory and, by a task nobody awaits,
\* on disk, whatever its status.  A stream is sent and never stored.
FinishInner(r) ==
    /\ req[r].phase = "inner" /\ req[r].got # "none"
    /\ LET q == req[r]
       IN  \/ /\ q.got = "response" /\ q.kind \in {"get", "bypass"}
              /\ mem' = MemPut(mem, q.url, AsStoredNow(q.copy), Mono)
              /\ Submit([op |-> "put", url |-> q.url, req |-> NoRequest,
                         copy |-> q.copy])
              /\ Reply(r, "fetched", q.copy)
           \/ /\ q.got = "response" /\ q.kind \notin {"get", "bypass"}
              /\ Reply(r, "fetched", q.copy)
              /\ UNCHANGED <<mem, queue>>
           \/ /\ q.got \in {"stream", "failed"}
              /\ ReplyOther(r)
              /\ UNCHANGED <<mem, queue>>
    /\ UNCHANGED <<env, arrivals, rows, worker, overrun>>

\* request_timeout cancels handle_inner: 504, and nothing is stored.
Timeout(r) ==
    /\ req[r].phase = "inner"
    /\ ReplyOther(r)
    /\ UNCHANGED <<env, arrivals, mem, disk>>

-----------------------------------------------------------------------------
(* The threads of the disk cache.                                          *)

LockFree == \A w \in Workers : worker[w].phase # "trim"

\* A thread takes a job, in order, and reads the clock before it waits for the
\* lock.  A put that the early returns refuse ends here.
TakeJob(w) ==
    /\ worker[w] = Idle
    /\ queue # <<>>
    /\ queue' = Tail(queue)
    /\ LET job == Head(queue)
       IN  worker' = [worker EXCEPT ![w] =
                        IF job.op = "put" /\ ~ DiskAccepts(job.url, job.copy.cc)
                        THEN Idle
                        ELSE [phase |-> "lock", job |-> job, at |-> Mono]]
    /\ UNCHANGED <<env, arrivals, mem, rows, req, overrun>>

AtLock(w, op) ==
    /\ worker[w].phase = "lock"
    /\ worker[w].job.op = op
    /\ LockFree

\* The answer reaches the request that awaits the job.
Deliver(w, answer, copy) ==
    /\ req' = [req EXCEPT ![worker[w].job.req].got = answer,
                          ![worker[w].job.req].copy = copy,
                          ![worker[w].job.req].at = worker[w].at]
    /\ worker' = [worker EXCEPT ![w] = Idle]

\* Mutation: the expiry of a row is not looked at.
CarelessDiskGet(w) ==
    /\ AtLock(w, "get")
    /\ LET u == worker[w].job.url
       IN  \/ /\ rows[u] # NoRow
              /\ Deliver(w, "hit", rows[u].copy)
           \/ Deliver(w, "miss", NoCopy)
    /\ UNCHANGED <<env, arrivals, mem, rows, queue, overrun>>

\* Mutation: an sqlite error ends the job without an answer.
SilentDiskGet(w) ==
    /\ AtLock(w, "get")
    /\ LET u == worker[w].job.url
       IN  \/ /\ rows[u] # NoRow
              /\ worker[w].at <= rows[u].expires
              /\ Deliver(w, "hit", rows[u].copy)
           \/ worker' = [worker EXCEPT ![w] = Idle] /\ UNCHANGED req
    /\ UNCHANGED <<env, arrivals, mem, rows, queue, overrun>>

\* DiskCache.get: an expired row is deleted.  An sqlite error is a miss, but
\* one that the deletion meets is raised.
DiskGet(w) ==
    /\ AtLock(w, "get")
    /\ LET u == worker[w].job.url
       IN  \/ /\ rows[u] # NoRow
              /\ worker[w].at <= rows[u].expires
              /\ Deliver(w, "hit", rows[u].copy)
              /\ UNCHANGED rows
           \/ /\ rows[u] # NoRow
              /\ worker[w].at > rows[u].expires
              /\ \/ Deliver(w, "miss", NoCopy) /\ rows' = WithoutRows(rows, {u})
                 \/ Deliver(w, "failed", NoCopy) /\ UNCHANGED rows
           \/ /\ Deliver(w, "miss", NoCopy)
              /\ UNCHANGED rows
    /\ UNCHANGED <<env, arrivals, mem, queue, overrun>>

\* DiskCache.put, up to the commit of its INSERT OR REPLACE: the thread keeps
\* the lock.  An sqlite error ends it with nothing stored.
DiskInsert(w) ==
    /\ AtLock(w, "put")
    /\ LET job    == worker[w].job
           at     == worker[w].at
           stored == [job.copy EXCEPT !.since = boot + at]
       IN  \/ /\ rows' = [rows EXCEPT ![job.url] =
                            [row |-> TRUE, copy |-> stored,
                             expires |-> at + DiskLife(job.copy.cc),
                             cachedAt |-> now]]
              /\ worker' = [worker EXCEPT ![w].phase = "trim"]
           \/ /\ worker' = [worker EXCEPT ![w] = Idle]
              /\ UNCHANGED rows
    /\ UNCHANGED <<env, arrivals, mem, queue, req, overrun>>

\* Mutation: one eviction per put, whatever the size of the new row.
DiskTrimOnce(w) ==
    /\ worker[w].phase = "trim"
    /\ worker' = [worker EXCEPT ![w] = Idle]
    /\ overrun' = FALSE
    /\ \E e \in Stored(rows) :
          /\ \A u \in Stored(rows) : rows[e].cachedAt <= rows[u].cachedAt
          /\ rows' = IF Total(rows) > DiskSize THEN WithoutRows(rows, {e}) ELSE rows
    /\ UNCHANGED <<env, arrivals, mem, queue, req>>

\* _enforce_limit and its commit, a transaction of its own.  When sqlite fails
\* the table stays too large.
DiskTrim(w) ==
    /\ worker[w].phase = "trim"
    /\ worker' = [worker EXCEPT ![w] = Idle]
    /\ \/ \E E \in SUBSET Urls :
             /\ EvictsOldest(rows, E)
             /\ rows' = WithoutRows(rows, E)
             /\ overrun' = FALSE
       \/ overrun' = TRUE /\ UNCHANGED rows
    /\ UNCHANGED <<env, arrivals, mem, queue, req>>

-----------------------------------------------------------------------------
(* The environment.                                                        *)

Tick ==
    /\ now < bound.time
    /\ now' = now + 1
    /\ UNCHANGED <<boot, origin, bound, crashes, mem, disk, req, arrivals>>

ContentChanges ==
    /\ origin < bound.versions
    /\ origin' = origin + 1
    /\ UNCHANGED <<now, boot, bound, crashes, mem, disk, req, arrivals>>

\* The process dies.  Memory, jobs and requests are gone; committed rows stay,
\* trimmed or not.
Dies ==
    /\ crashes < bound.crashes
    /\ crashes' = crashes + 1
    /\ mem' = <<>>
    /\ queue' = <<>>
    /\ worker' = [w \in Workers |-> Idle]
    /\ req' = [r \in Requests |-> NotYet]
    /\ overrun' = (overrun \/ ~ LockFree)
    /\ UNCHANGED <<rows, origin, bound, arrivals>>

Restart == Dies /\ UNCHANGED <<now, boot>>

\* The machine too: time.monotonic() starts again.
Reboot ==
    /\ now < bound.time
    /\ Dies
    /\ now' = now + 1
    /\ boot' = now + 1

HandlerStep(r) ==
    \/ ConditionalGet(r) \/ Fetch(r)
    \/ FinishReval(r) \/ FinishDisk(r) \/ FinishInner(r)

WorkerStep(w) == TakeJob(w) \/ DiskGet(w) \/ DiskInsert(w) \/ DiskTrim(w)

Next ==
    \/ \E r \in bound.requests, u \in bound.urls :
          Hit(r, u) \/ Miss(r, u) \/ \E k \in bound.kinds : Bypass(r, u, k)
    \/ \E r \in bound.requests :
          HandlerStep(r) \/ Timeout(r) \/ BodyArrives(r) \/ BodyFails(r)
    \/ \E w \in Workers : WorkerStep(w)
    \/ Tick \/ ContentChanges \/ Restart \/ Reboot

\* Every await of the handler from the lookup to the reply is bounded by a
\* timeout (head_timeout, the fetches') or by a disk job, and the threads run
\* on; only the client's body is not, and nothing obliges a client to send it.
Fairness ==
    /\ \A r \in Requests : WF_vars(HandlerStep(r))
    /\ \A w \in Workers : WF_vars(WorkerStep(w))

Spec == Init /\ [][Next]_vars /\ Fairness
-----------------------------------------------------------------------------
(* Properties.                                                             *)

\* The types of the variables.  The memory cache holds at most max_size
\* entries, and one per URL (cache.py:131).
CacheTypeOK ==
    /\ {now, boot, origin, crashes, arrivals} \subseteq Nat /\ boot <= now
    /\ mem \in Seq(Entries)
    /\ Len(mem) <= MemSize
    /\ \A i, j \in DOMAIN mem : mem[i].url = mem[j].url => i = j
    /\ rows \in Tables
    /\ queue \in Seq(Jobs)
    /\ worker \in [Workers -> {Idle} \cup Working]
    /\ req \in [Requests -> RequestType]
    /\ overrun \in BOOLEAN
    /\ bound \in Bounds

\* However the inserts and lookups of the two threads, sqlite errors and the
\* death of the process between an insert and its trimming fall, the table is
\* within max_size again as soon as one put has run to its end, and stays so
\* while no thread is between its two commits (disk_cache.py:163-187).
DiskWithinLimit == LockFree /\ ~ overrun => Total(rows) <= DiskSize

\* A copy that a lookup serves was stored, when its request came in, at most
\* one disk TTL and one memory TTL ago, plus what the promotion between the two
\* took: the tiers hand a copy on once, never back and forth
\* (request.py:159).  Rows from before the boot are exempt, their expiry was
\* reckoned on another monotonic clock (disk_cache.py:156).
ServedWithinLifetime ==
    \A r \in Requests :
       LET q == req[r]
       IN  q.phase = "done" /\ q.via \in {"L1", "L2"} /\ q.copy.since >= boot =>
              q.t0 <= q.copy.since + DiskLife(q.copy.cc) + q.copy.lag
                        + MemLife(q.copy.cc)

\* An answer that the origin confirmed or gave is no older than the content it
\* had when the request came in, although the entry may have been replaced,
\* evicted or have expired during the wait (request.py:122-128).
ConfirmedIsCurrent ==
    \A r \in Requests :
       req[r].phase = "done" /\ req[r].via \in {"L1-304", "fresh", "fetched"} =>
          req[r].copy.ver >= req[r].seen

\* Every request whose body has arrived, if its method has one, comes to its
\* reply, unless the process dies under it: no lookup waits for a disk job that
\* is never run (request.py:153, disk_cache.py:254).  A client that stalls its
\* body holds its handler for ever, request_timeout or not (request.py:170-171).
RequestEnds ==
    \A r \in Requests :
       ~ Free(r) /\ req[r].phase # "body" ~> Free(r)
=============================================================================
