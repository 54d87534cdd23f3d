------------------------- MODULE RequestCacheProofs -------------------------
(***************************************************************************)
(* What RequestCache serves, for any caches, requests and threads.  The    *)
(* bound on the age of what is served is an account of where a copy has    *)
(* been: a row is good for one disk TTL from when it was stored, an entry  *)
(* for one memory TTL more and the time its promotion took.  It needs to   *)
(* know that a disk job answers only the request that awaits it, and that  *)
(* the clock it read has not run backwards since.                          *)
(***************************************************************************)
EXTENDS RequestCache, SumLemmas

\* The last moment at which a copy may be asked for and served.
Limit(copy) == copy.since + DiskLife(copy.cc) + copy.lag + MemLife(copy.cc)

\* When an entry in memory and a row on disk expire.
MemAge ==
    \A i \in DOMAIN mem :
       /\ mem[i].copy.since <= now
       /\ mem[i].copy.since >= boot => boot + mem[i].expires <= Limit(mem[i].copy)

RowAge ==
    \A u \in Urls : rows[u] # NoRow =>
       /\ rows[u].copy.since <= now
       /\ rows[u].copy.since >= boot =>
             boot + rows[u].expires <= rows[u].copy.since + DiskLife(rows[u].copy.cc)

Waits(r) == req[r].phase = "disk" /\ req[r].got = "none"

\* A lookup that is queued or runs is awaited, and each by its own request.
QueuedAwaited ==
    \A i \in DOMAIN queue : queue[i].op = "get" =>
       queue[i].req \in Requests /\ Waits(queue[i].req)

Looks(w) == worker[w].phase = "lock" /\ worker[w].job.op = "get"

RunningAwaited ==
    \A w \in Workers : Looks(w) =>
       /\ worker[w].job.req \in Requests
       /\ Waits(worker[w].job.req)
       /\ req[worker[w].job.req].t0 <= boot + worker[w].at

ClockRead == \A w \in Workers : worker[w].phase = "lock" => worker[w].at <= Mono

OneJobEach ==
    /\ \A i, j \in DOMAIN queue :
          queue[i].op = "get" /\ queue[j].op = "get" /\ queue[i].req = queue[j].req
             => i = j
    /\ \A w \in Workers, i \in DOMAIN queue :
          Looks(w) /\ queue[i].op = "get" => worker[w].job.req # queue[i].req
    /\ \A w, v \in Workers :
          Looks(w) /\ Looks(v) /\ worker[w].job.req = worker[v].job.req => w = v

JobsInv == QueuedAwaited /\ RunningAwaited /\ ClockRead /\ OneJobEach

\* A request that the disk has answered.
FoundOK(q) ==
    /\ q.at <= Mono
    /\ q.t0 <= boot + q.at
    /\ q.copy.since <= now
    /\ q.copy.since >= boot => boot + q.at <= q.copy.since + DiskLife(q.copy.cc)

InLimit(q) == q.copy.since >= boot => q.t0 <= Limit(q.copy)

RequestOK(q) ==
    /\ q.t0 <= now /\ q.seen <= origin
    /\ q.phase = "disk" /\ q.got = "hit" => FoundOK(q)
    /\ q.phase = "reval" /\ q.got # "200" => InLimit(q)
    /\ q.phase = "reval" /\ q.got \in {"304", "200"} => q.copy.ver >= q.seen
    /\ q.phase = "inner" /\ q.got = "response" => q.copy.ver >= q.seen
    /\ q.phase = "done" =>
          /\ q.via \in {"L1", "L2"} => InLimit(q)
          /\ q.via \in {"L1-304", "fresh", "fetched"} => q.copy.ver >= q.seen

RequestInv == \A r \in Requests : RequestOK(req[r])

AgeInv == CacheTypeOK /\ MemAge /\ RowAge /\ JobsInv /\ RequestInv

-----------------------------------------------------------------------------
(* The two stores.                                                         *)

\* TTLs are natural numbers.
LEMMA LifeNat ==
    ASSUME NEW cc \in Directives
    PROVE  MemLife(cc) \in Nat /\ DiskLife(cc) \in Nat
BY TiersAssumption DEF MemLife, DiskLife, Life

\* The empty copy and the request that has not come in are of their types.
LEMMA EmptyCopy == NoCopy \in Copies /\ NoCopy.ver = 0 /\ NotYet \in RequestType
<1>1. NoCopy \in Copies /\ NoCopy.ver = 0
    BY DEF NoCopy, Copies, Directives
<1>2. (CHOOSE u \in Urls : TRUE) \in Urls
    BY TiersAssumption
<1>3. QED
    BY <1>1, <1>2 DEF NotYet, RequestType, Phases, Awaiting, Kinds, Answers, Vias

\* One entry for each URL.
OnePerUrl(s) == \A i, j \in DOMAIN s : s[i].url = s[j].url => i = j

\* Deleting an entry removes nothing else and adds nothing.
LEMMA DroppedKeeps ==
    ASSUME NEW s \in Seq(Entries), OnePerUrl(s), NEW u \in Urls
    PROVE  /\ Dropped(s, u) \in Seq(Entries)
           /\ OnePerUrl(Dropped(s, u))
           /\ Len(Dropped(s, u)) <= Len(s)
           /\ Held(s, u) => Len(Dropped(s, u)) < Len(s)
           /\ \A i \in DOMAIN Dropped(s, u) : Dropped(s, u)[i].url # u
           /\ \A i \in DOMAIN Dropped(s, u) :
                 \E j \in DOMAIN s : Dropped(s, u)[i] = s[j]
<1>1. CASE ~ Held(s, u)
    BY <1>1 DEF Dropped, Held
<1>2. CASE Held(s, u)
  <2> DEFINE p == Place(s, u)
             d == Dropped(s, u)
  <2>1. p \in DOMAIN s /\ s[p].url = u
    BY <1>2 DEF Held, Place
  <2>2. p \in 1 .. Len(s) /\ Len(s) \in Nat
    BY <2>1
  <2>3. d = SubSeq(s, 1, p - 1) \o SubSeq(s, p + 1, Len(s))
    BY <1>2 DEF Dropped, RemoveAt
  <2> HIDE DEF p, d
  <2>4. /\ d \in Seq(Entries)
        /\ Len(d) = Len(s) - 1
        /\ \A i \in 1 .. Len(s) - 1 : d[i] = s[IF i < p THEN i ELSE i + 1]
    <3> DEFINE a == SubSeq(s, 1, p - 1)
               b == SubSeq(s, p + 1, Len(s))
    <3>1. /\ a \in Seq(Entries) /\ Len(a) = p - 1
          /\ \A i \in 1 .. p - 1 : a[i] = s[i]
      BY <2>2
    <3>2. /\ b \in Seq(Entries) /\ Len(b) = Len(s) - p
          /\ \A i \in 1 .. Len(s) - p : b[i] = s[p + i]
      BY <2>2
    <3> HIDE DEF a, b
    <3>3. d = a \o b
      BY <2>3 DEF a, b
    <3>4. /\ a \o b \in Seq(Entries)
          /\ Len(a \o b) = Len(s) - 1
          /\ \A i \in 1 .. Len(s) - 1 :
                (a \o b)[i] = IF i <= p - 1 THEN a[i] ELSE b[i - (p - 1)]
      <4>1. a \o b \in Seq(Entries)
        BY <3>1, <3>2
      <4>2. Len(a \o b) = Len(a) + Len(b)
        BY <3>1, <3>2
      <4>3. \A i \in 1 .. Len(a) + Len(b) :
               (a \o b)[i] = IF i <= Len(a) THEN a[i] ELSE b[i - Len(a)]
        <5> TAKE i \in 1 .. Len(a) + Len(b)
        <5>1. a \in Seq(Entries) /\ b \in Seq(Entries)
          BY <3>1, <3>2
        <5>2. CASE i <= Len(a)
          BY <5>1, <5>2
        <5>3. CASE i > Len(a)
          BY <5>1, <5>3
        <5>4. QED
          BY <5>1, <5>2, <5>3
      <4>4. Len(a) + Len(b) = Len(s) - 1
        BY <2>2, <3>1, <3>2
      <4>5. QED
        BY <3>1, <4>1, <4>2, <4>3, <4>4
    <3>5. \A i \in 1 .. Len(s) - 1 : d[i] = s[IF i < p THEN i ELSE i + 1]
      <4> TAKE i \in 1 .. Len(s) - 1
      <4>1. d[i] = IF i <= p - 1 THEN a[i] ELSE b[i - (p - 1)]
        BY <3>3, <3>4
      <4>2. i \in Nat /\ p \in Nat /\ Len(s) \in Nat /\ 1 <= p /\ p <= Len(s)
        BY <2>2
      <4>3. CASE i < p
        <5>1. i \in 1 .. p - 1 /\ i <= p - 1
          BY <4>2, <4>3
        <5>2. d[i] = s[i]
          BY <3>1, <4>1, <5>1
        <5>3. QED
          BY <4>3, <5>2
      <4>4. CASE ~ i < p
        <5>1. i - (p - 1) \in 1 .. Len(s) - p /\ ~ i <= p - 1
          BY <4>2, <4>4
        <5>2. p + (i - (p - 1)) = i + 1
          BY <4>2
        <5>3. d[i] = s[i + 1]
          BY <3>2, <4>1, <5>1, <5>2
        <5>4. QED
          BY <4>4, <5>3
      <4>5. QED
        BY <4>3, <4>4
    <3>6. QED
      BY <3>3, <3>4, <3>5
  <2>5. DOMAIN d = 1 .. Len(s) - 1 /\ DOMAIN s = 1 .. Len(s)
    BY <2>4
  <2>6. \A i \in DOMAIN d :
           (IF i < p THEN i ELSE i + 1) \in (DOMAIN s) \ {p}
    BY <2>2, <2>5
  <2>7. \A i \in DOMAIN d : d[i].url # u
    BY <2>1, <2>4, <2>5, <2>6 DEF OnePerUrl
  <2>8. OnePerUrl(d)
    BY SMTT(30), <2>2, <2>4, <2>5, <2>6 DEF OnePerUrl
  <2>9. \A i \in DOMAIN d : \E j \in DOMAIN s : d[i] = s[j]
    BY <2>4, <2>5, <2>6
  <2>10. QED
    BY <2>2, <2>4, <2>7, <2>8, <2>9 DEF d
<1>3. QED
    BY <1>1, <1>2

\* Using an entry reorders the entries.
LEMMA TouchedKeeps ==
    ASSUME NEW s \in Seq(Entries), OnePerUrl(s), NEW u \in Urls, Held(s, u)
    PROVE  /\ Touched(s, u) \in Seq(Entries)
           /\ OnePerUrl(Touched(s, u))
           /\ Len(Touched(s, u)) <= Len(s)
           /\ \A i \in DOMAIN Touched(s, u) :
                 \E j \in DOMAIN s : Touched(s, u)[i] = s[j]
<1> DEFINE d == Dropped(s, u)
           e == s[Place(s, u)]
<1>1. Place(s, u) \in DOMAIN s /\ e.url = u
    BY DEF Held, Place
<1>2. e \in Entries
    BY <1>1
<1>3. /\ d \in Seq(Entries) /\ OnePerUrl(d) /\ Len(d) < Len(s)
      /\ \A i \in DOMAIN d : d[i].url # u
      /\ \A i \in DOMAIN d : \E j \in DOMAIN s : d[i] = s[j]
    BY DroppedKeeps
<1>4. Touched(s, u) = Append(d, e)
    BY DEF Touched
<1> HIDE DEF d
<1>5. \E j \in DOMAIN s : e = s[j]
    BY <1>1
<1> HIDE DEF e
<1>6. /\ Append(d, e) \in Seq(Entries)
      /\ Len(Append(d, e)) = Len(d) + 1
      /\ \A i \in DOMAIN Append(d, e) :
            \/ i \in DOMAIN d /\ Append(d, e)[i] = d[i]
            \/ i = Len(d) + 1 /\ Append(d, e)[i] = e
    BY <1>2, <1>3
<1>7. OnePerUrl(Append(d, e))
    BY <1>1, <1>3, <1>6 DEF OnePerUrl
<1>8. Len(Append(d, e)) <= Len(s)
    BY <1>3, <1>6
<1>9. QED
    BY <1>3, <1>4, <1>5, <1>6, <1>7, <1>8

\* What eviction leaves fits and was there.
LEMMA EvictedFits ==
    ASSUME NEW s \in Seq(Entries), OnePerUrl(s)
    PROVE  /\ Evicted(s) \in Seq(Entries)
           /\ OnePerUrl(Evicted(s))
           /\ Len(Evicted(s)) <= MemSize
           /\ \A i \in DOMAIN Evicted(s) : \E j \in DOMAIN s : Evicted(s)[i] = s[j]
<1>1. MemSize \in Nat /\ MemSize > 0 /\ Len(s) \in Nat /\ DOMAIN s = 1 .. Len(s)
    BY TiersAssumption
<1>2. CASE Len(s) <= MemSize
    BY <1>1, <1>2 DEF Evicted
<1>3. CASE Len(s) > MemSize
  <2> DEFINE k == Len(s) - MemSize
             t == SubSeq(s, Len(s) - MemSize + 1, Len(s))
  <2>1. Evicted(s) = t
    BY <1>3 DEF Evicted
  <2>2. k \in 1 .. Len(s)
    BY <1>1, <1>3
  <2>3. /\ t \in Seq(Entries)
        /\ Len(t) = MemSize
        /\ DOMAIN t = 1 .. MemSize
        /\ \A i \in 1 .. MemSize : t[i] = s[i + k]
    BY <1>1, <1>3
  <2>4. \A i \in DOMAIN t : i + k \in DOMAIN s /\ t[i] = s[i + k]
    BY <1>1, <2>2, <2>3
  <2> HIDE DEF k, t
  <2>5. OnePerUrl(t)
    BY <1>1, <2>2, <2>3, <2>4 DEF OnePerUrl
  <2>6. QED
    BY <1>1, <2>1, <2>3, <2>4, <2>5
<1>4. QED
    BY <1>1, <1>2, <1>3

\* put() leaves what was there, except what it evicts, and the new entry.
LEMMA MemPutKeeps ==
    ASSUME NEW s \in Seq(Entries), OnePerUrl(s), Len(s) <= MemSize,
           NEW u \in Urls, NEW copy \in Copies, NEW mono \in Nat
    PROVE  /\ MemPut(s, u, copy, mono) \in Seq(Entries)
           /\ OnePerUrl(MemPut(s, u, copy, mono))
           /\ Len(MemPut(s, u, copy, mono)) <= MemSize
           /\ \A i \in DOMAIN MemPut(s, u, copy, mono) :
                 \/ \E j \in DOMAIN s : MemPut(s, u, copy, mono)[i] = s[j]
                 \/ MemPut(s, u, copy, mono)[i] =
                      [url |-> u, copy |-> copy, expires |-> mono + MemLife(copy.cc)]
<1> DEFINE d == Dropped(s, u)
           e == [url |-> u, copy |-> copy, expires |-> mono + MemLife(copy.cc)]
           a == Append(d, e)
<1>1. copy.cc \in Directives
    BY DEF Copies
<1>2. e \in Entries /\ e.url = u
    BY <1>1, LifeNat DEF Entries
<1>3. /\ d \in Seq(Entries) /\ OnePerUrl(d)
      /\ \A i \in DOMAIN d : d[i].url # u
      /\ \A i \in DOMAIN d : \E j \in DOMAIN s : d[i] = s[j]
    BY DroppedKeeps
<1>4. CASE MemAccepts(u, copy.cc)
  <2>1. MemPut(s, u, copy, mono) = Evicted(a)
    BY <1>4 DEF MemPut
  <2> HIDE DEF d, e
  <2>2. /\ a \in Seq(Entries)
        /\ \A i \in DOMAIN a : \/ i \in DOMAIN d /\ a[i] = d[i]
                               \/ i = Len(d) + 1 /\ a[i] = e
    BY <1>2, <1>3
  <2>3. OnePerUrl(a)
    BY <1>2, <1>3, <2>2 DEF OnePerUrl
  <2> HIDE DEF a
  <2>4. \A i \in DOMAIN a : (\E j \in DOMAIN s : a[i] = s[j]) \/ a[i] = e
    BY <1>3, <2>2
  <2>5. /\ Evicted(a) \in Seq(Entries) /\ OnePerUrl(Evicted(a))
        /\ Len(Evicted(a)) <= MemSize
        /\ \A i \in DOMAIN Evicted(a) : \E j \in DOMAIN a : Evicted(a)[i] = a[j]
    BY <2>2, <2>3, EvictedFits
  <2>6. QED
    BY <2>1, <2>4, <2>5 DEF e
<1>5. CASE ~ MemAccepts(u, copy.cc)
    BY <1>5 DEF MemPut
<1>6. QED
    BY <1>4, <1>5

-----------------------------------------------------------------------------
(* What an action on one request, one entry or no job leaves as it was.    *)

Still == UNCHANGED <<now, boot, origin>>

MemTypeOK == mem \in Seq(Entries) /\ Len(mem) <= MemSize /\ OnePerUrl(mem)

\* The parts of the type invariant that most steps use.
LEMMA TypeParts ==
    ASSUME CacheTypeOK
    PROVE  /\ now \in Nat /\ boot \in Nat /\ origin \in Nat /\ crashes \in Nat
           /\ arrivals \in Nat /\ boot <= now
           /\ Mono \in Nat /\ boot + Mono = now
           /\ MemTypeOK
           /\ bound \in BoundType
<1>1. {now, boot, origin, crashes, arrivals} \subseteq Nat /\ boot <= now
    BY DEF CacheTypeOK
<1>2. Mono \in Nat /\ boot + Mono = now
    BY <1>1 DEF Mono
<1>3. MemTypeOK /\ bound \in BoundType
    BY RequestCacheAssumption DEF CacheTypeOK, MemTypeOK, OnePerUrl
<1>4. QED
    BY <1>1, <1>2, <1>3

\* A request replaced by one that fits.
LEMMA OneRequest ==
    ASSUME AgeInv, Still, NEW r \in Requests, NEW q \in RequestType,
           RequestOK(q), req' = [req EXCEPT ![r] = q]
    PROVE  /\ req' \in [Requests -> RequestType]
           /\ RequestInv'
           /\ \A x \in Requests \ {r} : req'[x] = req[x]
<1>1. req \in [Requests -> RequestType]
    BY DEF AgeInv, CacheTypeOK
<1>2. \A x \in Requests : req'[x] = IF x = r THEN q ELSE req[x]
    BY <1>1
<1>3. \A x \in Requests : RequestOK(req'[x])
    BY <1>2 DEF AgeInv, RequestInv
<1>4. now' = now /\ boot' = boot /\ origin' = origin
    BY DEF Still
<1>5. \A x \in Requests : RequestOK(req[x])'
    BY <1>3, <1>4 DEF RequestOK, FoundOK, InLimit, Mono
<1>6. QED
    BY <1>1, <1>2, <1>5 DEF RequestInv

\* The jobs do not mind what happens to a request that awaits none.
LEMMA JobsKept ==
    ASSUME AgeInv, Still, UNCHANGED <<queue, worker>>, NEW r \in Requests,
           ~ Waits(r), \A x \in Requests \ {r} : req'[x] = req[x]
    PROVE  JobsInv'
<1>1. now' = now /\ boot' = boot /\ queue' = queue /\ worker' = worker
    BY DEF Still
<1>2. \A x \in Requests : Waits(x) => req'[x] = req[x] /\ Waits(x)'
    BY DEF Waits
<1>3. QueuedAwaited'
    BY <1>1, <1>2 DEF AgeInv, JobsInv, QueuedAwaited
<1>4. RunningAwaited'
    BY <1>1, <1>2 DEF AgeInv, JobsInv, RunningAwaited, Looks
<1>5. ClockRead' /\ OneJobEach'
    BY <1>1 DEF AgeInv, JobsInv, ClockRead, OneJobEach, Looks, Mono
<1>6. QED
    BY <1>3, <1>4, <1>5 DEF JobsInv

\* A store whose entries were all there before.
LEMMA SameEntries ==
    ASSUME AgeInv, Still, NEW s \in Seq(Entries), mem' = s,
           \A i \in DOMAIN s : \E j \in DOMAIN mem : s[i] = mem[j]
    PROVE  MemAge'
BY DEF AgeInv, MemAge, Still, Limit

\* A put into memory.
LEMMA MemoryPut ==
    ASSUME AgeInv, Still, NEW u \in Urls, NEW copy \in Copies,
           mem' = MemPut(mem, u, copy, Mono),
           copy.since <= now,
           copy.since >= boot => now + MemLife(copy.cc) <= Limit(copy)
    PROVE  MemTypeOK' /\ MemAge'
<1>1. MemTypeOK /\ now \in Nat /\ boot \in Nat /\ Mono \in Nat /\ boot + Mono = now
    BY TypeParts DEF AgeInv
<1>2. copy.cc \in Directives
    BY DEF Copies
<1>3. MemLife(copy.cc) \in Nat
    BY <1>2, LifeNat
<1> DEFINE e == [url |-> u, copy |-> copy, expires |-> Mono + MemLife(copy.cc)]
<1>4. /\ mem' \in Seq(Entries) /\ OnePerUrl(mem') /\ Len(mem') <= MemSize
      /\ \A i \in DOMAIN mem' : (\E j \in DOMAIN mem : mem'[i] = mem[j]) \/ mem'[i] = e
    BY <1>1, MemPutKeeps DEF MemTypeOK
<1>5. MemTypeOK'
    BY <1>4 DEF MemTypeOK, OnePerUrl
<1>6. e.copy = copy /\ boot + e.expires = now + MemLife(copy.cc)
    BY <1>1, <1>3
<1> HIDE DEF e
<1>7. ASSUME NEW i \in DOMAIN mem'
      PROVE  /\ mem'[i].copy.since <= now
             /\ mem'[i].copy.since >= boot =>
                   boot + mem'[i].expires <= Limit(mem'[i].copy)
    BY <1>4, <1>6, <1>7 DEF AgeInv, MemAge
<1>8. QED
    BY <1>5, <1>7 DEF MemAge, Still, Limit

\* The rows only depend on the clock.
LEMMA RowsKept == ASSUME AgeInv, Still, UNCHANGED rows PROVE RowAge'
BY DEF AgeInv, RowAge, Still

\* So do the entries.
LEMMA MemKept == ASSUME AgeInv, Still, UNCHANGED mem PROVE MemAge'
BY DEF AgeInv, MemAge, Still, Limit

\* The type invariant, from the parts a step may change.
LEMMA TypeKept ==
    ASSUME CacheTypeOK, Still, UNCHANGED <<origin, bound, crashes>>,
           arrivals' \in Nat, MemTypeOK', rows' \in Tables, queue' \in Seq(Jobs),
           worker' \in [Workers -> {Idle} \cup Working],
           req' \in [Requests -> RequestType], overrun' \in BOOLEAN
    PROVE  CacheTypeOK'
BY DEF CacheTypeOK, Still, MemTypeOK, OnePerUrl

-----------------------------------------------------------------------------
(* The handler, up to its first suspension.                                *)

\* What a request is when it comes in.
LEMMA Arrival ==
    ASSUME CacheTypeOK, NEW r \in Requests, NEW u \in Urls, NEW k \in Kinds,
           NEW ph \in Phases
    PROVE  /\ Arrive(r, u, k, ph) \in RequestType
           /\ Arrive(r, u, k, ph).phase = ph /\ Arrive(r, u, k, ph).url = u
           /\ Arrive(r, u, k, ph).t0 = now /\ Arrive(r, u, k, ph).seen = origin
           /\ Arrive(r, u, k, ph).got = "none" /\ Arrive(r, u, k, ph).via = "none"
BY EmptyCopy, TypeParts DEF Arrive, NotYet, RequestType

\* A hit in memory is within its limit, because the entry has not expired.
LEMMA HitKeeps ==
    ASSUME AgeInv, NEW r \in Requests, NEW u \in Urls, Hit(r, u)
    PROVE  AgeInv'
<1> DEFINE e  == mem[Place(mem, u)]
           ph == IF e.copy.tag THEN "reval" ELSE "done"
           q  == [Arrive(r, u, "get", ph) EXCEPT !.copy = e.copy,
                    !.via = IF e.copy.tag THEN "none" ELSE "L1"]
<1>1. /\ MemTypeOK /\ now \in Nat /\ boot \in Nat /\ Mono \in Nat /\ origin \in Nat
      /\ boot + Mono = now /\ arrivals \in Nat /\ CacheTypeOK
    BY TypeParts DEF AgeInv
<1>2. /\ Free(r) /\ arrivals' = arrivals + 1 /\ Held(mem, u) /\ Mono <= e.expires
      /\ req' = [req EXCEPT ![r] = q] /\ mem' = Touched(mem, u)
      /\ UNCHANGED <<now, boot, origin, bound, crashes, rows, queue, worker, overrun>>
    BY DEF Hit, Counted, Unexpired, env, disk
<1>3. Place(mem, u) \in DOMAIN mem /\ e \in Entries
    BY <1>1, <1>2 DEF Held, Place, MemTypeOK
<1>4. e.copy \in Copies /\ e.expires \in Nat /\ e.copy.since \in Nat
    BY <1>3 DEF Entries, Copies
<1>5. e.copy.since >= boot => boot + e.expires <= Limit(e.copy)
    BY <1>3 DEF AgeInv, MemAge
<1>6. e.copy.since >= boot => now <= Limit(e.copy)
  <2>1. Limit(e.copy) \in Int
    BY <1>4, LifeNat DEF Limit, Copies
  <2>2. QED
    BY <1>1, <1>2, <1>4, <1>5, <2>1
<1> HIDE DEF e
<1>7. ph \in Phases /\ ph \notin {"disk", "inner"}
    BY DEF Phases, Awaiting
<1>8. /\ Arrive(r, u, "get", ph) \in RequestType
      /\ Arrive(r, u, "get", ph).phase = ph /\ Arrive(r, u, "get", ph).t0 = now
      /\ Arrive(r, u, "get", ph).got = "none"
      /\ Arrive(r, u, "get", ph).seen = origin
    BY <1>1, <1>7, Arrival DEF Kinds
<1>9. /\ q \in RequestType /\ q.phase = ph /\ q.t0 = now /\ q.copy = e.copy
      /\ q.seen = origin /\ q.got = "none" /\ q.via \in {"none", "L1"}
    BY <1>4, <1>8 DEF RequestType, Vias
<1>10. RequestOK(q)
    BY <1>1, <1>6, <1>7, <1>9 DEF RequestOK, InLimit
<1>11. ~ Waits(r) /\ Still
    BY <1>2 DEF Free, Waits, Awaiting, Still
<1> HIDE DEF q, ph
<1>12. /\ req' \in [Requests -> RequestType] /\ RequestInv'
       /\ \A x \in Requests \ {r} : req'[x] = req[x]
    BY <1>2, <1>9, <1>10, <1>11, OneRequest
<1>13. JobsInv'
    BY <1>2, <1>11, <1>12, JobsKept
<1>14. /\ mem' \in Seq(Entries) /\ OnePerUrl(mem') /\ Len(mem') <= Len(mem)
       /\ \A i \in DOMAIN mem' : \E j \in DOMAIN mem : mem'[i] = mem[j]
    BY <1>1, <1>2, TouchedKeeps DEF MemTypeOK
<1>15. MemTypeOK'
    BY <1>1, <1>14, TiersAssumption DEF MemTypeOK, OnePerUrl
<1>16. MemAge' /\ RowAge'
    BY <1>2, <1>11, <1>14, SameEntries, RowsKept
<1>17. CacheTypeOK'
    BY <1>1, <1>2, <1>11, <1>12, <1>15, TypeKept DEF CacheTypeOK
<1>18. QED
    BY <1>12, <1>13, <1>16, <1>17 DEF AgeInv

\* A miss queues the only lookup of its request.
LEMMA MissKeeps ==
    ASSUME AgeInv, NEW r \in Requests, NEW u \in Urls, Miss(r, u)
    PROVE  AgeInv'
<1> DEFINE q   == Arrive(r, u, "get", "disk")
           job == [op |-> "get", url |-> u, req |-> r, copy |-> NoCopy]
<1>1. /\ MemTypeOK /\ now \in Nat /\ origin \in Nat /\ arrivals \in Nat /\ CacheTypeOK
    BY TypeParts DEF AgeInv
<1>2. /\ Free(r) /\ arrivals' = arrivals + 1 /\ mem' = Dropped(mem, u)
      /\ req' = [req EXCEPT ![r] = q] /\ queue' = Append(queue, job)
      /\ UNCHANGED <<now, boot, origin, bound, crashes, rows, worker, overrun>>
    BY DEF Miss, Counted, Submit, env
<1>3. /\ q \in RequestType /\ q.phase = "disk" /\ q.t0 = now /\ q.got = "none"
      /\ q.seen = origin
    BY <1>1, Arrival DEF Kinds, Phases, Awaiting
<1>4. job \in Jobs /\ job.op = "get" /\ job.req = r
    BY EmptyCopy DEF Jobs
<1>5. RequestOK(q)
    BY <1>1, <1>3 DEF RequestOK
<1>6. ~ Waits(r) /\ Still
    BY <1>2 DEF Free, Waits, Awaiting, Still
<1> HIDE DEF q, job
<1>7. /\ req' \in [Requests -> RequestType] /\ RequestInv'
      /\ \A x \in Requests \ {r} : req'[x] = req[x]
    BY <1>2, <1>3, <1>5, <1>6, OneRequest
<1>8. Waits(r)' /\ \A x \in Requests : Waits(x) => req'[x] = req[x] /\ Waits(x)' /\ x # r
  <2>1. req \in [Requests -> RequestType]
    BY <1>1 DEF CacheTypeOK
  <2>2. QED
    BY <1>2, <1>3, <1>6, <1>7, <2>1 DEF Waits
<1>9. queue \in Seq(Jobs)
    BY <1>1 DEF CacheTypeOK
<1>10. /\ queue' \in Seq(Jobs)
       /\ \A i \in DOMAIN queue' :
             \/ i \in DOMAIN queue /\ queue'[i] = queue[i]
             \/ i = Len(queue) + 1 /\ queue'[i] = job
    BY <1>2, <1>4, <1>9
<1>11. QueuedAwaited'
    BY <1>4, <1>8, <1>10 DEF AgeInv, JobsInv, QueuedAwaited
<1>12. RunningAwaited' /\ ClockRead'
    BY <1>2, <1>8 DEF AgeInv, JobsInv, RunningAwaited, ClockRead, Looks, Mono
<1>13. /\ \A i \in DOMAIN queue : queue[i].op = "get" => queue[i].req # r
       /\ \A w \in Workers : Looks(w) => worker[w].job.req # r
    BY <1>8 DEF AgeInv, JobsInv, QueuedAwaited, RunningAwaited
<1>14. OneJobEach'
    BY <1>2, <1>4, <1>10, <1>13 DEF AgeInv, JobsInv, OneJobEach, Looks
<1>15. /\ mem' \in Seq(Entries) /\ OnePerUrl(mem') /\ Len(mem') <= Len(mem)
       /\ \A i \in DOMAIN mem' : \E j \in DOMAIN mem : mem'[i] = mem[j]
    BY <1>1, <1>2, DroppedKeeps DEF MemTypeOK
<1>16. MemTypeOK'
    BY <1>1, <1>15, TiersAssumption DEF MemTypeOK, OnePerUrl
<1>17. MemAge' /\ RowAge'
    BY <1>2, <1>6, <1>15, SameEntries, RowsKept
<1>18. CacheTypeOK'
    BY <1>1, <1>2, <1>6, <1>7, <1>10, <1>16, TypeKept DEF CacheTypeOK
<1>19. QED
    BY <1>7, <1>11, <1>12, <1>14, <1>17, <1>18 DEF AgeInv, JobsInv

\* A request without a lookup.
LEMMA BypassKeeps ==
    ASSUME AgeInv, NEW r \in Requests, NEW u \in Urls, NEW k \in Kinds,
           Bypass(r, u, k)
    PROVE  AgeInv'
<1> DEFINE ph == IF k = "upload" THEN "body" ELSE "inner"
           q  == Arrive(r, u, k, ph)
<1>1. now \in Nat /\ origin \in Nat /\ arrivals \in Nat /\ CacheTypeOK /\ MemTypeOK
    BY TypeParts DEF AgeInv
<1>2. /\ Free(r) /\ arrivals' = arrivals + 1 /\ req' = [req EXCEPT ![r] = q]
      /\ UNCHANGED <<now, boot, origin, bound, crashes, mem, rows, queue, worker, overrun>>
    BY DEF Bypass, Counted, env, disk
<1>3. /\ q \in RequestType /\ q.phase \in {"body", "inner"} /\ q.t0 = now
      /\ q.got = "none" /\ q.seen = origin
    BY <1>1, Arrival DEF Phases, Awaiting
<1>4. RequestOK(q) /\ ~ Waits(r) /\ Still
    BY <1>1, <1>2, <1>3 DEF RequestOK, Free, Waits, Awaiting, Still
<1> HIDE DEF q
<1>5. /\ req' \in [Requests -> RequestType] /\ RequestInv'
      /\ \A x \in Requests \ {r} : req'[x] = req[x]
    BY <1>2, <1>3, <1>4, OneRequest
<1>6. JobsInv' /\ MemAge' /\ RowAge'
    BY <1>2, <1>4, <1>5, JobsKept, MemKept, RowsKept
<1>7. CacheTypeOK'
    BY <1>1, <1>2, <1>4, <1>5, TypeKept DEF CacheTypeOK, MemTypeOK, OnePerUrl
<1>8. QED
    BY <1>5, <1>6, <1>7 DEF AgeInv

-----------------------------------------------------------------------------
(* The origin's answers.                                                   *)

\* What all of them share: one request gets a fitting answer.
LEMMA AnswerKeeps ==
    ASSUME AgeInv, NEW r \in Requests, NEW answer \in Answers, NEW copy \in Copies,
           Answer(r, answer, copy), req[r].phase \in {"reval", "inner"},
           UNCHANGED <<env, arrivals, mem, disk>>,
           RequestOK([req[r] EXCEPT !.got = answer, !.copy = copy])
    PROVE  AgeInv'
<1> DEFINE q == [req[r] EXCEPT !.got = answer, !.copy = copy]
<1>1. arrivals \in Nat /\ CacheTypeOK /\ MemTypeOK
    BY TypeParts DEF AgeInv
<1>2. UNCHANGED <<now, boot, origin, bound, crashes, mem, rows, queue, worker,
                  overrun, arrivals>>
    BY DEF env, disk
<1>3. req \in [Requests -> RequestType]
    BY <1>1 DEF CacheTypeOK
<1>4. q \in RequestType
    BY <1>3 DEF RequestType
<1>5. req' = [req EXCEPT ![r] = q]
    BY <1>3 DEF Answer
<1>6. ~ Waits(r) /\ Still
    BY <1>2 DEF Waits, Still
<1>7. RequestOK(q)
    OBVIOUS
<1> HIDE DEF q
<1>8. /\ req' \in [Requests -> RequestType] /\ RequestInv'
      /\ \A x \in Requests \ {r} : req'[x] = req[x]
    BY <1>4, <1>5, <1>6, <1>7, OneRequest
<1>9. JobsInv' /\ MemAge' /\ RowAge'
    BY <1>2, <1>6, <1>8, JobsKept, MemKept, RowsKept
<1>10. CacheTypeOK'
    BY <1>1, <1>2, <1>6, <1>8, TypeKept DEF CacheTypeOK, MemTypeOK, OnePerUrl
<1>11. QED
    BY <1>8, <1>9, <1>10 DEF AgeInv

\* A 304 confirms the version that was captured; a 200 brings the current one.
LEMMA ConditionalGetKeeps ==
    ASSUME AgeInv, NEW r \in Requests, ConditionalGet(r)
    PROVE  AgeInv'
<1>1. CacheTypeOK /\ origin \in Nat
    BY TypeParts DEF AgeInv
<1>2. req[r] \in RequestType /\ RequestOK(req[r]) /\ req[r].phase = "reval"
      /\ req[r].got = "none" /\ UNCHANGED <<env, arrivals, mem, disk>>
    BY <1>1 DEF ConditionalGet, CacheTypeOK, AgeInv, RequestInv
<1>3. req[r].copy \in Copies /\ req[r].seen \in Nat /\ req[r].seen <= origin
    BY <1>2 DEF RequestType, RequestOK
<1>4. CASE req[r].copy.ver = origin /\ Answer(r, "304", req[r].copy)
  <2>1. RequestOK([req[r] EXCEPT !.got = "304", !.copy = req[r].copy])
    BY <1>1, <1>2, <1>3, <1>4 DEF RequestOK, RequestType, InLimit, FoundOK
  <2>2. QED
    BY <1>2, <1>3, <1>4, <2>1, AnswerKeeps DEF Answers
<1>5. CASE Answer(r, "failed", req[r].copy)
  <2>1. RequestOK([req[r] EXCEPT !.got = "failed", !.copy = req[r].copy])
    BY <1>1, <1>2, <1>3, <1>5 DEF RequestOK, RequestType, InLimit, FoundOK
  <2>2. QED
    BY <1>2, <1>3, <1>5, <2>1, AnswerKeeps DEF Answers
<1>6. ASSUME NEW tag \in BOOLEAN, NEW cc \in Directives,
             Answer(r, "200", FromOrigin(tag, cc))
      PROVE  AgeInv'
  <2>1. FromOrigin(tag, cc) \in Copies /\ FromOrigin(tag, cc).ver = origin
    BY <1>1 DEF FromOrigin, Copies
  <2>2. RequestOK([req[r] EXCEPT !.got = "200", !.copy = FromOrigin(tag, cc)])
    BY <1>1, <1>2, <1>3, <2>1 DEF RequestOK, RequestType, InLimit, FoundOK
  <2>3. QED
    BY <1>2, <1>6, <2>1, <2>2, AnswerKeeps DEF Answers
<1>7. QED
    BY <1>4, <1>5, <1>6 DEF ConditionalGet

\* A fetch brings the current version.
LEMMA FetchKeeps ==
    ASSUME AgeInv, NEW r \in Requests, Fetch(r)
    PROVE  AgeInv'
<1>1. CacheTypeOK /\ origin \in Nat
    BY TypeParts DEF AgeInv
<1>2. req[r] \in RequestType /\ RequestOK(req[r]) /\ req[r].phase = "inner"
      /\ UNCHANGED <<env, arrivals, mem, disk>>
    BY <1>1 DEF Fetch, CacheTypeOK, AgeInv, RequestInv
<1>3. req[r].seen \in Nat /\ req[r].seen <= origin
    BY <1>2 DEF RequestType, RequestOK
<1>4. CASE Answer(r, "response", FromOrigin(FALSE, "keep"))
  <2>1. /\ FromOrigin(FALSE, "keep") \in Copies
        /\ FromOrigin(FALSE, "keep").ver = origin
    BY <1>1 DEF FromOrigin, Copies, Directives
  <2>2. RequestOK([req[r] EXCEPT !.got = "response",
                                 !.copy = FromOrigin(FALSE, "keep")])
    BY <1>1, <1>2, <1>3, <2>1 DEF RequestOK, RequestType
  <2>3. QED
    BY <1>2, <1>4, <2>1, <2>2, AnswerKeeps DEF Answers
<1>5. ASSUME NEW answer \in {"stream", "failed"}, Answer(r, answer, NoCopy)
      PROVE  AgeInv'
  <2>1. RequestOK([req[r] EXCEPT !.got = answer, !.copy = NoCopy])
    BY <1>1, <1>2, <1>3 DEF RequestOK, RequestType
  <2>2. QED
    BY <1>2, <1>5, <2>1, EmptyCopy, AnswerKeeps DEF Answers
<1>6. QED
    BY <1>4, <1>5 DEF Fetch

-----------------------------------------------------------------------------
(* The handler, resumed.                                                   *)

\* A request that is answered, with its clock and version kept.
LEMMA ReplyKeeps ==
    ASSUME AgeInv, Still, NEW r \in Requests, NEW via \in Vias \ {"none"},
           NEW copy \in Copies, Reply(r, via, copy), ~ Waits(r),
           via \in {"L1", "L2"} /\ copy.since >= boot => req[r].t0 <= Limit(copy),
           via \in {"L1-304", "fresh", "fetched"} => copy.ver >= req[r].seen
    PROVE  /\ req' \in [Requests -> RequestType]
           /\ RequestInv'
           /\ \A x \in Requests \ {r} : req'[x] = req[x]
<1> DEFINE q == [NotYet EXCEPT !.phase = "done", !.via = via, !.copy = copy,
                               !.t0 = req[r].t0, !.seen = req[r].seen]
<1>1. req[r] \in RequestType /\ RequestOK(req[r])
    BY DEF AgeInv, CacheTypeOK, RequestInv
<1>2. /\ q \in RequestType /\ q.phase = "done" /\ q.via = via /\ q.copy = copy
      /\ q.t0 = req[r].t0 /\ q.seen = req[r].seen /\ req' = [req EXCEPT ![r] = q]
    BY <1>1, EmptyCopy DEF NotYet, RequestType, Phases, Reply
<1> HIDE DEF q
<1>3. RequestOK(q)
    BY <1>1, <1>2 DEF RequestOK, InLimit
<1>4. QED
    BY <1>2, <1>3, OneRequest

\* A request that is over.
LEMMA NotYetKeeps ==
    ASSUME AgeInv, Still, NEW r \in Requests, ReplyOther(r)
    PROVE  /\ req' \in [Requests -> RequestType]
           /\ RequestInv'
           /\ \A x \in Requests \ {r} : req'[x] = req[x]
<1>1. now \in Nat /\ origin \in Nat
    BY TypeParts DEF AgeInv
<1>2. RequestOK(NotYet)
    BY <1>1 DEF RequestOK, NotYet
<1>3. QED
    BY <1>2, EmptyCopy, OneRequest DEF ReplyOther

\* A response that is stored in memory as it arrives.
LEMMA StoreKeeps ==
    ASSUME AgeInv, Still, NEW u \in Urls, NEW copy \in Copies,
           mem' = MemPut(mem, u, AsStoredNow(copy), Mono)
    PROVE  MemTypeOK' /\ MemAge'
<1> DEFINE c == AsStoredNow(copy)
<1>1. now \in Nat /\ boot \in Nat
    BY TypeParts DEF AgeInv
<1>2. c \in Copies /\ c.since = now /\ c.lag = 0
    BY <1>1 DEF AsStoredNow, Copies
<1>3. DiskLife(c.cc) \in Nat /\ MemLife(c.cc) \in Nat
    BY <1>2, LifeNat DEF Copies
<1>4. now + MemLife(c.cc) <= Limit(c) /\ c.since <= now
    BY <1>1, <1>2, <1>3 DEF Limit
<1> HIDE DEF c
<1>5. mem' = MemPut(mem, u, c, Mono)
    BY DEF c
<1>6. QED
    BY <1>2, <1>4, <1>5, MemoryPut

\* After the conditional request.
LEMMA FinishRevalKeeps ==
    ASSUME AgeInv, NEW r \in Requests, FinishReval(r)
    PROVE  AgeInv'
<1> DEFINE q == req[r]
<1>1. CacheTypeOK /\ MemTypeOK /\ arrivals \in Nat
    BY TypeParts DEF AgeInv
<1>2. /\ q.phase = "reval" /\ UNCHANGED <<now, boot, origin, bound, crashes, arrivals,
                                          rows, queue, worker, overrun>>
    BY DEF FinishReval, env, disk
<1>3. Still /\ ~ Waits(r)
    BY <1>2 DEF Still, Waits
<1>4. q \in RequestType /\ RequestOK(q)
    BY <1>1 DEF CacheTypeOK, AgeInv, RequestInv
<1>5. q.copy \in Copies /\ q.url \in Urls
    BY <1>4 DEF RequestType
<1> DEFINE Good == /\ req' \in [Requests -> RequestType]
                   /\ RequestInv'
                   /\ \A x \in Requests \ {r} : req'[x] = req[x]
                   /\ MemTypeOK'
                   /\ MemAge'
<1>6. ASSUME q.got = "304", Reply(r, "L1-304", q.copy), UNCHANGED mem
      PROVE  Good
  <2>1. q.copy.ver >= q.seen
    BY <1>2, <1>4, <1>6 DEF RequestOK
  <2>2. MemTypeOK'
    BY <1>1, <1>6 DEF MemTypeOK, OnePerUrl
  <2>3. QED
    BY <1>3, <1>5, <1>6, <2>1, <2>2, ReplyKeeps, MemKept DEF Vias
<1>7. ASSUME q.got = "200", Reply(r, "fresh", q.copy),
             mem' = MemPut(mem, q.url, AsStoredNow(q.copy), Mono)
      PROVE  Good
  <2>1. q.copy.ver >= q.seen
    BY <1>2, <1>4, <1>7 DEF RequestOK
  <2>2. QED
    BY <1>3, <1>5, <1>7, <2>1, ReplyKeeps, StoreKeeps DEF Vias
<1>8. ASSUME q.got = "failed", Reply(r, "L1", q.copy), UNCHANGED mem
      PROVE  Good
  <2>1. q.copy.since >= boot => q.t0 <= Limit(q.copy)
    BY <1>2, <1>4, <1>8 DEF RequestOK, InLimit
  <2>2. MemTypeOK'
    BY <1>1, <1>8 DEF MemTypeOK, OnePerUrl
  <2>3. QED
    BY <1>3, <1>5, <1>8, <2>1, <2>2, ReplyKeeps, MemKept DEF Vias
<1>9. Good
    BY <1>6, <1>7, <1>8 DEF FinishReval
<1>10. JobsInv' /\ RowAge'
    BY <1>2, <1>3, <1>9, JobsKept, RowsKept
<1>11. CacheTypeOK'
    BY <1>1, <1>2, <1>3, <1>9, TypeKept DEF CacheTypeOK
<1>12. QED
    BY <1>9, <1>10, <1>11 DEF AgeInv

\* After the lookup on disk.
LEMMA FinishDiskKeeps ==
    ASSUME AgeInv, NEW r \in Requests, FinishDisk(r)
    PROVE  AgeInv'
<1> DEFINE q == req[r]
           c == [q.copy EXCEPT !.lag = Mono - q.at]
<1>1. /\ CacheTypeOK /\ MemTypeOK /\ arrivals \in Nat
      /\ now \in Nat /\ boot \in Nat /\ Mono \in Nat /\ boot + Mono = now
      /\ origin \in Nat
    BY TypeParts DEF AgeInv
<1>2. /\ q.phase = "disk" /\ q.got # "none"
      /\ UNCHANGED <<now, boot, origin, bound, crashes, arrivals,
                     rows, queue, worker, overrun>>
    BY DEF FinishDisk, env, disk
<1>3. Still /\ ~ Waits(r)
    BY <1>2 DEF Still, Waits
<1>4. q \in RequestType /\ RequestOK(q)
    BY <1>1 DEF CacheTypeOK, AgeInv, RequestInv
<1>5. /\ q.copy \in Copies /\ q.url \in Urls /\ q.at \in Nat /\ q.t0 \in Nat
      /\ q.copy.since \in Nat /\ q.copy.lag \in Nat /\ q.copy.cc \in Directives
    BY <1>4 DEF RequestType, Copies
<1>6. DiskLife(q.copy.cc) \in Nat /\ MemLife(q.copy.cc) \in Nat
    BY <1>5, LifeNat
<1> DEFINE Good == /\ req' \in [Requests -> RequestType]
                   /\ RequestInv'
                   /\ \A x \in Requests \ {r} : req'[x] = req[x]
                   /\ MemTypeOK'
                   /\ MemAge'
<1>7. ASSUME q.got = "hit", Reply(r, "L2", q.copy),
             mem' = MemPut(mem, q.url, c, Mono)
      PROVE  Good
  <2>1. FoundOK(q)
    BY <1>2, <1>4, <1>7 DEF RequestOK
  <2>2. q.at <= Mono /\ Mono - q.at \in Nat
    BY <1>1, <1>5, <2>1 DEF FoundOK
  <2>3. c \in Copies /\ c.since = q.copy.since /\ c.cc = q.copy.cc /\ c.lag = Mono - q.at
    BY <1>5, <2>2 DEF Copies
  <2>4. c.since <= now /\ (c.since >= boot => now + MemLife(c.cc) <= Limit(c))
    BY <1>1, <1>5, <1>6, <2>1, <2>2, <2>3 DEF FoundOK, Limit
  <2>5. q.copy.since >= boot => q.t0 <= Limit(q.copy)
    BY <1>1, <1>5, <1>6, <2>1 DEF FoundOK, Limit
  <2> HIDE DEF c
  <2>6. MemTypeOK' /\ MemAge'
    BY <1>3, <1>5, <1>7, <2>3, <2>4, MemoryPut
  <2>7. QED
    BY <1>3, <1>5, <1>7, <2>5, <2>6, ReplyKeeps DEF Vias
<1>8. ASSUME q.got = "miss", UNCHANGED mem,
             req' = [req EXCEPT ![r].phase = "inner", ![r].got = "none"]
      PROVE  Good
  <2> DEFINE p == [q EXCEPT !.phase = "inner", !.got = "none"]
  <2>1. req \in [Requests -> RequestType]
    BY <1>1 DEF CacheTypeOK
  <2>2. req' = [req EXCEPT ![r] = p]
    BY <1>8, <2>1
  <2>3. p \in RequestType
    BY <1>4 DEF RequestType, Phases, Awaiting, Answers
  <2>4. RequestOK(p)
    BY <1>1, <1>4 DEF RequestOK, RequestType
  <2> HIDE DEF p
  <2>5. MemTypeOK'
    BY <1>1, <1>8 DEF MemTypeOK, OnePerUrl
  <2>6. QED
    BY <1>3, <1>8, <2>2, <2>3, <2>4, <2>5, OneRequest, MemKept
<1>9. ASSUME ReplyOther(r), UNCHANGED mem
      PROVE  Good
  <2>1. MemTypeOK'
    BY <1>1, <1>9 DEF MemTypeOK, OnePerUrl
  <2>2. QED
    BY <1>3, <1>9, <2>1, NotYetKeeps, MemKept
<1>10. Good
    BY <1>7, <1>8, <1>9 DEF FinishDisk
<1>11. JobsInv' /\ RowAge'
    BY <1>2, <1>3, <1>10, JobsKept, RowsKept
<1>12. CacheTypeOK'
    BY <1>1, <1>2, <1>3, <1>10, TypeKept DEF CacheTypeOK
<1>13. QED
    BY <1>10, <1>11, <1>12 DEF AgeInv

\* A put in the queue is nobody's lookup.
LEMMA PutQueued ==
    ASSUME AgeInv, Still, UNCHANGED worker, NEW r \in Requests, ~ Waits(r),
           \A x \in Requests \ {r} : req'[x] = req[x],
           NEW job \in Jobs, job.op = "put", queue' = Append(queue, job)
    PROVE  queue' \in Seq(Jobs) /\ JobsInv'
<1>1. now' = now /\ boot' = boot /\ worker' = worker
    BY DEF Still
<1>2. \A x \in Requests : Waits(x) => req'[x] = req[x] /\ Waits(x)'
    BY DEF Waits
<1>3. queue \in Seq(Jobs)
    BY DEF AgeInv, CacheTypeOK
<1>4. /\ queue' \in Seq(Jobs)
      /\ \A i \in DOMAIN queue' : queue'[i].op = "get" =>
            i \in DOMAIN queue /\ queue'[i] = queue[i]
  <2>1. /\ Append(queue, job) \in Seq(Jobs)
        /\ \A i \in DOMAIN Append(queue, job) :
              \/ i \in DOMAIN queue /\ Append(queue, job)[i] = queue[i]
              \/ Append(queue, job)[i] = job
    BY <1>3
  <2>2. QED
    BY <2>1
<1>5. QueuedAwaited'
    BY <1>2, <1>4 DEF AgeInv, JobsInv, QueuedAwaited
<1>6. RunningAwaited' /\ ClockRead'
    BY <1>1, <1>2 DEF AgeInv, JobsInv, RunningAwaited, ClockRead, Looks, Mono
<1>7. OneJobEach'
    BY <1>1, <1>4 DEF AgeInv, JobsInv, OneJobEach, Looks
<1>8. QED
    BY <1>4, <1>5, <1>6, <1>7 DEF JobsInv

\* After the fetch.
LEMMA FinishInnerKeeps ==
    ASSUME AgeInv, NEW r \in Requests, FinishInner(r)
    PROVE  AgeInv'
<1> DEFINE q   == req[r]
           job == [op |-> "put", url |-> q.url, req |-> NoRequest, copy |-> q.copy]
<1>1. CacheTypeOK /\ MemTypeOK /\ arrivals \in Nat
    BY TypeParts DEF AgeInv
<1>2. /\ q.phase = "inner"
      /\ UNCHANGED <<now, boot, origin, bound, crashes, arrivals, rows, worker, overrun>>
    BY DEF FinishInner, env
<1>3. Still /\ ~ Waits(r)
    BY <1>2 DEF Still, Waits
<1>4. q \in RequestType /\ RequestOK(q) /\ queue \in Seq(Jobs)
    BY <1>1 DEF CacheTypeOK, AgeInv, RequestInv
<1>5. q.copy \in Copies /\ q.url \in Urls
    BY <1>4 DEF RequestType
<1> DEFINE Good == /\ req' \in [Requests -> RequestType]
                   /\ RequestInv'
                   /\ queue' \in Seq(Jobs)
                   /\ JobsInv'
                   /\ MemTypeOK'
                   /\ MemAge'
<1>6. ASSUME UNCHANGED <<mem, queue>>,
             req' \in [Requests -> RequestType] /\ RequestInv',
             \A x \in Requests \ {r} : req'[x] = req[x]
      PROVE  Good
  <2>1. MemTypeOK'
    BY <1>1, <1>6 DEF MemTypeOK, OnePerUrl
  <2>2. QED
    BY <1>2, <1>3, <1>4, <1>6, <2>1, JobsKept, MemKept
<1>7. ASSUME q.got = "response", Reply(r, "fetched", q.copy)
      PROVE  /\ req' \in [Requests -> RequestType] /\ RequestInv'
             /\ \A x \in Requests \ {r} : req'[x] = req[x]
  <2>1. q.copy.ver >= q.seen
    BY <1>2, <1>4, <1>7 DEF RequestOK
  <2>2. QED
    BY <1>3, <1>5, <1>7, <2>1, ReplyKeeps DEF Vias
<1>8. ASSUME q.got = "response", Submit(job), Reply(r, "fetched", q.copy),
             mem' = MemPut(mem, q.url, AsStoredNow(q.copy), Mono)
      PROVE  Good
  <2>1. job \in Jobs /\ job.op = "put"
    BY <1>5 DEF Jobs
  <2> HIDE DEF job
  <2>2. queue' = Append(queue, job)
    BY <1>8 DEF Submit
  <2>3. /\ req' \in [Requests -> RequestType] /\ RequestInv'
        /\ \A x \in Requests \ {r} : req'[x] = req[x]
    BY <1>7, <1>8
  <2>4. queue' \in Seq(Jobs) /\ JobsInv'
    BY <1>2, <1>3, <2>1, <2>2, <2>3, PutQueued
  <2>5. MemTypeOK' /\ MemAge'
    BY <1>3, <1>5, <1>8, StoreKeeps
  <2>6. QED
    BY <2>3, <2>4, <2>5
<1>9. ASSUME q.got = "response", Reply(r, "fetched", q.copy), UNCHANGED <<mem, queue>>
      PROVE  Good
    BY <1>6, <1>7, <1>9
<1>10. ASSUME ReplyOther(r), UNCHANGED <<mem, queue>>
       PROVE  Good
    BY <1>3, <1>6, <1>10, NotYetKeeps
<1>11. Good
    BY <1>8, <1>9, <1>10 DEF FinishInner
<1>12. RowAge'
    BY <1>2, <1>3, RowsKept
<1>13. CacheTypeOK'
    BY <1>1, <1>2, <1>3, <1>11, TypeKept DEF CacheTypeOK
<1>14. QED
    BY <1>11, <1>12, <1>13 DEF AgeInv

\* After the deadline.
LEMMA TimeoutKeeps ==
    ASSUME AgeInv, NEW r \in Requests, Timeout(r)
    PROVE  AgeInv'
<1>1. CacheTypeOK /\ MemTypeOK /\ arrivals \in Nat
    BY TypeParts DEF AgeInv
<1>2. /\ ReplyOther(r) /\ req[r].phase = "inner"
      /\ UNCHANGED <<now, boot, origin, bound, crashes, arrivals, mem, rows, queue,
                     worker, overrun>>
    BY DEF Timeout, env, disk
<1>3. Still /\ ~ Waits(r)
    BY <1>2 DEF Still, Waits
<1>4. /\ req' \in [Requests -> RequestType] /\ RequestInv'
      /\ \A x \in Requests \ {r} : req'[x] = req[x]
    BY <1>2, <1>3, NotYetKeeps
<1>5. JobsInv' /\ MemAge' /\ RowAge'
    BY <1>2, <1>3, <1>4, JobsKept, MemKept, RowsKept
<1>6. CacheTypeOK'
    BY <1>1, <1>2, <1>3, <1>4, TypeKept DEF CacheTypeOK, MemTypeOK, OnePerUrl
<1>7. QED
    BY <1>4, <1>5, <1>6 DEF AgeInv

\* The body has been read, or will not be.
LEMMA BodyKeeps ==
    ASSUME AgeInv, NEW r \in Requests, BodyArrives(r) \/ BodyFails(r)
    PROVE  AgeInv'
<1>1. CacheTypeOK /\ MemTypeOK /\ arrivals \in Nat /\ req \in [Requests -> RequestType]
    BY TypeParts DEF AgeInv, CacheTypeOK
<1>2. /\ req[r].phase = "body"
      /\ UNCHANGED <<now, boot, origin, bound, crashes, arrivals, mem, rows, queue,
                     worker, overrun>>
    BY DEF BodyArrives, BodyFails, env, disk
<1>3. Still /\ ~ Waits(r)
    BY <1>2 DEF Still, Waits
<1>4. /\ req' \in [Requests -> RequestType] /\ RequestInv'
      /\ \A x \in Requests \ {r} : req'[x] = req[x]
  <2>1. CASE BodyArrives(r)
    <3> DEFINE q == [req[r] EXCEPT !.phase = "inner", !.got = "none"]
    <3>1. req' = [req EXCEPT ![r] = q]
      BY <2>1 DEF BodyArrives
    <3>2. RequestOK(req[r]) /\ req[r] \in RequestType
      BY <1>1 DEF AgeInv, RequestInv
    <3>3. q \in RequestType /\ q.phase = "inner" /\ q.got = "none"
          /\ q.t0 = req[r].t0 /\ q.seen = req[r].seen
      BY <3>2 DEF RequestType, Phases, Awaiting, Answers
    <3> HIDE DEF q
    <3>4. RequestOK(q)
      BY <3>2, <3>3 DEF RequestOK
    <3>5. QED
      BY <1>3, <3>1, <3>3, <3>4, OneRequest
  <2>2. CASE BodyFails(r)
    <3>1. ReplyOther(r)
      BY <2>2 DEF BodyFails, ReplyOther
    <3>2. QED
      BY <1>3, <3>1, NotYetKeeps
  <2>3. QED
    BY <2>1, <2>2
<1>5. JobsInv' /\ MemAge' /\ RowAge'
    BY <1>2, <1>3, <1>4, JobsKept, MemKept, RowsKept
<1>6. CacheTypeOK'
    BY <1>1, <1>2, <1>3, <1>4, TypeKept DEF CacheTypeOK, MemTypeOK, OnePerUrl
<1>7. QED
    BY <1>4, <1>5, <1>6 DEF AgeInv

-----------------------------------------------------------------------------
(* The threads of the disk cache.                                          *)

\* What the requests need is unchanged when only jobs and rows move.
LEMMA RequestsKept == ASSUME AgeInv, Still, UNCHANGED req PROVE RequestInv'
BY DEF AgeInv, RequestInv, RequestOK, FoundOK, InLimit, Limit, Mono, Still

\* A thread takes over the job and its request.
LEMMA TakeJobKeeps ==
    ASSUME AgeInv, NEW w \in Workers, TakeJob(w)
    PROVE  AgeInv'
<1> DEFINE job == Head(queue)
           x   == IF job.op = "put" /\ ~ DiskAccepts(job.url, job.copy.cc)
                  THEN Idle ELSE [phase |-> "lock", job |-> job, at |-> Mono]
<1>1. /\ CacheTypeOK /\ MemTypeOK /\ arrivals \in Nat
      /\ now \in Nat /\ boot \in Nat /\ Mono \in Nat /\ boot + Mono = now
    BY TypeParts DEF AgeInv
<1>2. /\ worker[w] = Idle /\ queue # <<>> /\ queue' = Tail(queue)
      /\ worker' = [worker EXCEPT ![w] = x]
      /\ UNCHANGED <<now, boot, origin, bound, crashes, arrivals, mem, rows, req, overrun>>
    BY DEF TakeJob, env
<1>3. Still
    BY <1>2 DEF Still
<1>4. queue \in Seq(Jobs) /\ worker \in [Workers -> {Idle} \cup Working]
    BY <1>1 DEF CacheTypeOK
<1>5. /\ 1 \in DOMAIN queue /\ job = queue[1] /\ job \in Jobs
      /\ Tail(queue) \in Seq(Jobs)
      /\ \A i \in DOMAIN Tail(queue) :
            i + 1 \in DOMAIN queue /\ i + 1 # 1 /\ Tail(queue)[i] = queue[i + 1]
      /\ \A i \in DOMAIN Tail(queue) : i \in Int
    BY <1>2, <1>4
<1>6. /\ x \in {Idle} \cup Working
      /\ x.phase = "lock" => x.job = job /\ x.at = Mono
    BY <1>1, <1>5 DEF Working, Idle
<1> HIDE DEF job, x
<1>7. \A v \in Workers : worker'[v] = IF v = w THEN x ELSE worker[v]
    BY <1>2, <1>4
<1>8. \A v \in Workers : Looks(v)' =>
         \/ v # w /\ Looks(v) /\ worker'[v] = worker[v]
         \/ v = w /\ worker'[v] = x /\ x.job = job /\ x.at = Mono /\ job.op = "get"
    BY <1>6, <1>7 DEF Looks
<1>9. QueuedAwaited'
    BY <1>2, <1>5 DEF AgeInv, JobsInv, QueuedAwaited, Waits
<1>10. RunningAwaited'
  <2>1. job.op = "get" =>
           /\ job.req \in Requests /\ Waits(job.req) /\ req[job.req].t0 <= now
    BY <1>5 DEF AgeInv, JobsInv, QueuedAwaited, RequestInv, RequestOK
  <2>2. QED
    BY <1>1, <1>2, <1>8, <2>1 DEF AgeInv, JobsInv, RunningAwaited, Waits
<1>11. ClockRead'
    BY <1>1, <1>2, <1>6, <1>7 DEF AgeInv, JobsInv, ClockRead, Mono
<1>12. OneJobEach'
  <2>1. \A i, j \in DOMAIN queue' :
           queue'[i].op = "get" /\ queue'[j].op = "get" /\ queue'[i].req = queue'[j].req
             => i = j
    BY <1>2, <1>5 DEF AgeInv, JobsInv, OneJobEach
  <2>2. \A v \in Workers, i \in DOMAIN queue' :
           Looks(v)' /\ queue'[i].op = "get" => worker'[v].job.req # queue'[i].req
    BY <1>2, <1>5, <1>8 DEF AgeInv, JobsInv, OneJobEach
  <2>3. \A v, z \in Workers :
           Looks(v)' /\ Looks(z)' /\ worker'[v].job.req = worker'[z].job.req => v = z
    BY <1>5, <1>8 DEF AgeInv, JobsInv, OneJobEach
  <2>4. QED
    BY <2>1, <2>2, <2>3 DEF OneJobEach, Looks
<1>13. RequestInv' /\ MemAge' /\ RowAge'
    BY <1>2, <1>3, RequestsKept, MemKept, RowsKept
<1>14. worker' \in [Workers -> {Idle} \cup Working]
    BY <1>2, <1>4, <1>6
<1>15. CacheTypeOK'
    BY <1>1, <1>2, <1>3, <1>5, <1>14, TypeKept DEF CacheTypeOK, MemTypeOK, OnePerUrl
<1>16. QED
    BY <1>9, <1>10, <1>11, <1>12, <1>13, <1>15 DEF AgeInv, JobsInv

\* A job less: the thread is idle again, or keeps the lock for its trimming.
LEMMA JobDone ==
    ASSUME AgeInv, Still, NEW w \in Workers, NEW x \in {Idle} \cup Working,
           x.phase # "lock", worker' = [worker EXCEPT ![w] = x],
           UNCHANGED <<queue, req>>
    PROVE  worker' \in [Workers -> {Idle} \cup Working] /\ JobsInv'
<1>1. worker \in [Workers -> {Idle} \cup Working]
    BY DEF AgeInv, CacheTypeOK
<1>2. \A v \in Workers : worker'[v] = IF v = w THEN x ELSE worker[v]
    BY <1>1
<1>3. \A v \in Workers : Looks(v)' => Looks(v) /\ worker'[v] = worker[v]
    BY <1>2 DEF Looks
<1>4. QueuedAwaited' /\ RunningAwaited'
    BY <1>3 DEF AgeInv, JobsInv, QueuedAwaited, RunningAwaited, Waits, Still
<1>5. ClockRead'
    BY <1>2 DEF AgeInv, JobsInv, ClockRead, Mono, Still
<1>6. OneJobEach'
    BY <1>3 DEF AgeInv, JobsInv, OneJobEach, Looks
<1>7. QED
    BY <1>1, <1>4, <1>5, <1>6 DEF JobsInv

\* The answer of a lookup reaches the one request that awaits it.
LEMMA DeliverKeeps ==
    ASSUME AgeInv, Still, NEW w \in Workers, Looks(w), UNCHANGED queue,
           NEW answer \in {"hit", "miss", "failed"}, NEW copy \in Copies,
           Deliver(w, answer, copy),
           answer = "hit" =>
              /\ copy.since <= now
              /\ copy.since >= boot =>
                    boot + worker[w].at <= copy.since + DiskLife(copy.cc)
    PROVE  /\ req' \in [Requests -> RequestType] /\ RequestInv'
           /\ worker' \in [Workers -> {Idle} \cup Working] /\ JobsInv'
<1> DEFINE r  == worker[w].job.req
           at == worker[w].at
           q  == [req[r] EXCEPT !.got = answer, !.copy = copy, !.at = at]
<1>1. /\ req \in [Requests -> RequestType]
      /\ worker \in [Workers -> {Idle} \cup Working]
    BY DEF AgeInv, CacheTypeOK
<1>2. r \in Requests /\ Waits(r) /\ req[r].t0 <= boot + at /\ at <= Mono
    BY DEF AgeInv, JobsInv, RunningAwaited, ClockRead, Looks
<1>3. at \in Nat
    BY <1>1 DEF Looks, Idle, Working
<1>4. req[r] \in RequestType /\ RequestOK(req[r])
    BY <1>1, <1>2 DEF AgeInv, RequestInv
<1>5. /\ q \in RequestType /\ q.phase = "disk" /\ q.got = answer /\ q.copy = copy
      /\ q.at = at /\ q.t0 = req[r].t0 /\ q.seen = req[r].seen
    BY <1>2, <1>3, <1>4 DEF RequestType, Answers, Waits
<1>6. req' = [req EXCEPT ![r] = q]
    BY <1>1, <1>2 DEF Deliver
<1>7. worker' = [worker EXCEPT ![w] = Idle]
    BY DEF Deliver
<1> HIDE DEF r, at, q
<1>8. RequestOK(q)
    BY <1>2, <1>4, <1>5 DEF RequestOK, FoundOK, at
<1>9. /\ req' \in [Requests -> RequestType] /\ RequestInv'
      /\ \A x \in Requests \ {r} : req'[x] = req[x]
    BY <1>2, <1>5, <1>6, <1>8, OneRequest
<1>10. worker' \in [Workers -> {Idle} \cup Working]
    BY <1>1, <1>7
<1>11. \A v \in Workers : worker'[v] = IF v = w THEN Idle ELSE worker[v]
    BY <1>1, <1>7
<1>12. \A v \in Workers : Looks(v)' =>
          v # w /\ Looks(v) /\ worker'[v] = worker[v] /\ worker[v].job.req # r
    BY <1>11 DEF Looks, Idle, AgeInv, JobsInv, OneJobEach, r
<1>13. \A i \in DOMAIN queue : queue[i].op = "get" => queue[i].req # r
    BY DEF AgeInv, JobsInv, OneJobEach, r
<1>14. QueuedAwaited'
    BY <1>9, <1>13 DEF AgeInv, JobsInv, QueuedAwaited, Waits
<1>15. RunningAwaited'
    BY <1>9, <1>12 DEF AgeInv, JobsInv, RunningAwaited, Waits, Still
<1>16. ClockRead'
    BY <1>11 DEF AgeInv, JobsInv, ClockRead, Idle, Mono, Still
<1>17. OneJobEach'
    BY <1>12 DEF AgeInv, JobsInv, OneJobEach, Looks
<1>18. QED
    BY <1>9, <1>10, <1>14, <1>15, <1>16, <1>17 DEF JobsInv

\* A table without some of its rows.
LEMMA FewerRows ==
    ASSUME AgeInv, Still, NEW E, rows' = WithoutRows(rows, E)
    PROVE  rows' \in Tables /\ RowAge'
<1>1. rows \in Tables
    BY DEF AgeInv, CacheTypeOK
<1>2. rows' \in Tables
    BY <1>1 DEF WithoutRows, Tables
<1>3. \A u \in Urls : rows'[u] # NoRow => rows'[u] = rows[u]
    BY DEF WithoutRows
<1>4. RowAge'
    BY <1>3 DEF AgeInv, RowAge, Still
<1>5. QED
    BY <1>2, <1>4

\* A row that is found is good for the moment the thread looked at the clock.
LEMMA DiskGetKeeps ==
    ASSUME AgeInv, NEW w \in Workers, DiskGet(w)
    PROVE  AgeInv'
<1> DEFINE u == worker[w].job.url
<1>1. /\ CacheTypeOK /\ MemTypeOK /\ arrivals \in Nat /\ now \in Nat /\ boot \in Nat
    BY TypeParts DEF AgeInv
<1>2. /\ Looks(w) /\ UNCHANGED <<now, boot, origin, bound, crashes, arrivals, mem,
                                 queue, overrun>>
    BY DEF DiskGet, AtLock, Looks, env
<1>3. Still
    BY <1>2 DEF Still
<1>4. worker[w] \in Working /\ rows \in Tables
    BY <1>1, <1>2 DEF CacheTypeOK, Looks, Idle
<1>5. u \in Urls /\ worker[w].at \in Nat
    BY <1>4 DEF Working, Jobs
<1> DEFINE Good == /\ req' \in [Requests -> RequestType] /\ RequestInv'
                   /\ worker' \in [Workers -> {Idle} \cup Working] /\ JobsInv'
                   /\ rows' \in Tables /\ RowAge'
<1>6. ASSUME rows[u] # NoRow, worker[w].at <= rows[u].expires,
             Deliver(w, "hit", rows[u].copy), UNCHANGED rows
      PROVE  Good
  <2>1. rows[u] \in Rows
    BY <1>4, <1>5, <1>6 DEF Tables
  <2>2. /\ rows[u].copy \in Copies /\ rows[u].expires \in Nat
        /\ rows[u].copy.since \in Nat /\ DiskLife(rows[u].copy.cc) \in Nat
    BY <2>1, LifeNat DEF Rows, Copies
  <2>3. /\ rows[u].copy.since <= now
        /\ rows[u].copy.since >= boot =>
              boot + rows[u].expires <= rows[u].copy.since + DiskLife(rows[u].copy.cc)
    BY <1>5, <1>6 DEF AgeInv, RowAge
  <2>4. rows[u].copy.since >= boot =>
           boot + worker[w].at <= rows[u].copy.since + DiskLife(rows[u].copy.cc)
    <3>1. \A b \in Nat, e \in Nat, a \in Nat, x \in Nat, l \in Nat :
             b + e <= x + l /\ a <= e => b + a <= x + l
      OBVIOUS
    <3>2. worker[w].at <= rows[u].expires /\ worker[w].at \in Nat /\ boot \in Nat
      BY <1>1, <1>5, <1>6
    <3> DEFINE b == boot
               e == rows[u].expires
               a == worker[w].at
               x == rows[u].copy.since
               l == DiskLife(rows[u].copy.cc)
    <3>3. /\ b \in Nat /\ e \in Nat /\ a \in Nat /\ x \in Nat /\ l \in Nat /\ a <= e
          /\ x >= b => b + e <= x + l
      BY <2>2, <2>3, <3>2
    <3> HIDE DEF b, e, a, x, l
    <3>4. x >= b => b + a <= x + l
      BY <3>1, <3>3
    <3>5. QED
      BY <3>4 DEF b, e, a, x, l
  <2>5. RowAge'
    BY <1>3, <1>6, RowsKept
  <2> HIDE DEF u
  <2>6. QED
    BY <1>2, <1>3, <1>4, <1>6, <2>2, <2>3, <2>4, <2>5, DeliverKeeps
<1> HIDE DEF u
<1>7. ASSUME NEW answer \in {"miss", "failed"}, Deliver(w, answer, NoCopy)
      PROVE  /\ req' \in [Requests -> RequestType] /\ RequestInv'
             /\ worker' \in [Workers -> {Idle} \cup Working] /\ JobsInv'
    BY <1>2, <1>3, <1>7, EmptyCopy, DeliverKeeps
<1>8. ASSUME Deliver(w, "miss", NoCopy), rows' = WithoutRows(rows, {u})
      PROVE  Good
    BY <1>3, <1>7, <1>8, FewerRows
<1>9. ASSUME NEW answer \in {"miss", "failed"}, Deliver(w, answer, NoCopy),
             UNCHANGED rows
      PROVE  Good
    BY <1>3, <1>4, <1>7, <1>9, RowsKept
<1>10. Good
    BY <1>6, <1>8, <1>9 DEF DiskGet, u
<1>11. MemAge'
    BY <1>2, <1>3, MemKept
<1>12. CacheTypeOK'
    BY <1>1, <1>2, <1>3, <1>10, TypeKept DEF CacheTypeOK, MemTypeOK, OnePerUrl
<1>13. QED
    BY <1>10, <1>11, <1>12 DEF AgeInv

\* A row that is written is good for one TTL from the moment the thread looked
\* at the clock.
LEMMA DiskInsertKeeps ==
    ASSUME AgeInv, NEW w \in Workers, DiskInsert(w)
    PROVE  AgeInv'
<1> DEFINE job    == worker[w].job
           at     == worker[w].at
           stored == [job.copy EXCEPT !.since = boot + at]
           row    == [row |-> TRUE, copy |-> stored,
                      expires |-> at + DiskLife(job.copy.cc), cachedAt |-> now]
<1>1. /\ CacheTypeOK /\ MemTypeOK /\ arrivals \in Nat
      /\ now \in Nat /\ boot \in Nat /\ Mono \in Nat /\ boot + Mono = now
    BY TypeParts DEF AgeInv
<1>2. /\ worker[w].phase = "lock"
      /\ UNCHANGED <<now, boot, origin, bound, crashes, arrivals, mem, queue, req, overrun>>
    BY DEF DiskInsert, AtLock, env
<1>3. Still
    BY <1>2 DEF Still
<1>4. worker[w] \in Working /\ rows \in Tables
    BY <1>1, <1>2 DEF CacheTypeOK, Idle
<1>5. /\ job \in Jobs /\ job.url \in Urls /\ job.copy \in Copies /\ at \in Nat
      /\ at <= Mono
    BY <1>2, <1>4 DEF Working, Jobs, AgeInv, JobsInv, ClockRead
<1>6. /\ stored \in Copies /\ stored.since = boot + at /\ stored.cc = job.copy.cc
      /\ DiskLife(job.copy.cc) \in Nat
    BY <1>1, <1>5, LifeNat DEF Copies
<1>7. row \in Rows
    BY <1>1, <1>5, <1>6 DEF Rows
<1>8. row.copy = stored /\ row.expires = at + DiskLife(job.copy.cc)
    OBVIOUS
<1>9. /\ row.copy.since <= now
      /\ boot + row.expires <= row.copy.since + DiskLife(row.copy.cc)
  <2> HIDE DEF row, stored, job, at
  <2>1. row.copy.since = boot + at /\ row.copy.cc = job.copy.cc
    BY <1>6, <1>8
  <2>2. QED
    BY <1>1, <1>5, <1>6, <1>8, <2>1
<1> DEFINE Good == /\ worker' \in [Workers -> {Idle} \cup Working] /\ JobsInv'
                   /\ rows' \in Tables /\ RowAge'
<1> HIDE DEF row
<1>10. ASSUME rows' = [rows EXCEPT ![job.url] = row],
              worker' = [worker EXCEPT ![w].phase = "trim"]
       PROVE  Good
  <2> DEFINE x == [worker[w] EXCEPT !.phase = "trim"]
  <2>1. x \in Working /\ x.phase = "trim"
    BY <1>4 DEF Working
  <2>2. worker' = [worker EXCEPT ![w] = x]
    BY <1>1, <1>10 DEF CacheTypeOK
  <2> HIDE DEF x
  <2>3. worker' \in [Workers -> {Idle} \cup Working] /\ JobsInv'
    BY <1>2, <1>3, <2>1, <2>2, JobDone
  <2>4. rows' \in Tables
    BY <1>4, <1>5, <1>7, <1>10 DEF Tables
  <2>5. \A u \in Urls : rows'[u] = IF u = job.url THEN row ELSE rows[u]
    BY <1>4, <1>10 DEF Tables
  <2>6. RowAge'
    BY <1>3, <1>9, <2>5 DEF AgeInv, RowAge, Still
  <2>7. QED
    BY <2>3, <2>4, <2>6
<1>11. ASSUME worker' = [worker EXCEPT ![w] = Idle], UNCHANGED rows
       PROVE  Good
  <2>1. Idle.phase # "lock"
    BY DEF Idle
  <2>2. QED
    BY <1>2, <1>3, <1>4, <1>11, <2>1, JobDone, RowsKept
<1>12. Good
    BY <1>10, <1>11 DEF DiskInsert, row
<1>13. MemAge' /\ RequestInv'
    BY <1>2, <1>3, MemKept, RequestsKept
<1>14. CacheTypeOK'
    BY <1>1, <1>2, <1>3, <1>12, TypeKept DEF CacheTypeOK, MemTypeOK, OnePerUrl
<1>15. QED
    BY <1>12, <1>13, <1>14 DEF AgeInv

\* Trimming removes rows.
LEMMA DiskTrimKeeps ==
    ASSUME AgeInv, NEW w \in Workers, DiskTrim(w)
    PROVE  AgeInv'
<1>1. CacheTypeOK /\ MemTypeOK /\ arrivals \in Nat
    BY TypeParts DEF AgeInv
<1>2. /\ worker' = [worker EXCEPT ![w] = Idle]
      /\ UNCHANGED <<now, boot, origin, bound, crashes, arrivals, mem, queue, req>>
    BY DEF DiskTrim, env
<1>3. Still /\ Idle.phase # "lock" /\ rows \in Tables
    BY <1>1, <1>2 DEF Still, Idle, CacheTypeOK
<1>4. worker' \in [Workers -> {Idle} \cup Working] /\ JobsInv'
    BY <1>2, <1>3, JobDone
<1>5. rows' \in Tables /\ RowAge' /\ overrun' \in BOOLEAN
  <2>1. ASSUME NEW E \in SUBSET Urls, rows' = WithoutRows(rows, E)
        PROVE  rows' \in Tables /\ RowAge'
    BY <1>3, <2>1, FewerRows
  <2>2. ASSUME UNCHANGED rows
        PROVE  rows' \in Tables /\ RowAge'
    BY <1>3, <2>2, RowsKept
  <2>3. QED
    BY <2>1, <2>2 DEF DiskTrim
<1>6. MemAge' /\ RequestInv'
    BY <1>2, <1>3, MemKept, RequestsKept
<1>7. CacheTypeOK'
    BY <1>1, <1>2, <1>3, <1>4, <1>5, TypeKept DEF CacheTypeOK, MemTypeOK, OnePerUrl
<1>8. QED
    BY <1>4, <1>5, <1>6, <1>7 DEF AgeInv

-----------------------------------------------------------------------------
(* The environment, and the theorem.                                       *)

\* What the clock and the origin leave alone.
LEMMA TickKeeps == AgeInv /\ Tick => AgeInv'
<1> SUFFICES ASSUME AgeInv, Tick PROVE AgeInv'
    OBVIOUS
<1>1. /\ CacheTypeOK /\ now \in Nat /\ boot \in Nat /\ now' = now + 1
      /\ Mono \in Nat /\ Mono' = Mono + 1
      /\ UNCHANGED <<boot, origin, bound, crashes, arrivals, mem, rows, queue, worker,
                     req, overrun>>
    BY TypeParts DEF AgeInv, Tick, disk, Mono
<1>2. CacheTypeOK'
    BY <1>1 DEF CacheTypeOK
<1>3. MemAge'
  <2>1. \A i \in DOMAIN mem : mem[i].copy.since \in Nat
    <3>1. mem \in Seq(Entries)
      BY <1>1 DEF CacheTypeOK
    <3>2. \A i \in DOMAIN mem : mem[i] \in Entries
      BY <3>1
    <3>3. \A e \in Entries : e.copy.since \in Nat
      BY DEF Entries, Copies
    <3>4. QED
      BY <3>2, <3>3
  <2>2. QED
    BY <1>1, <2>1 DEF AgeInv, MemAge, Limit
<1>4. RowAge'
  <2>1. \A u \in Urls : rows[u] # NoRow => rows[u].copy.since \in Nat
    BY <1>1 DEF CacheTypeOK, Tables, Rows, Copies
  <2>2. QED
    BY <1>1, <2>1 DEF AgeInv, RowAge
<1>5. QueuedAwaited' /\ RunningAwaited' /\ OneJobEach'
    BY <1>1 DEF AgeInv, JobsInv, QueuedAwaited, RunningAwaited, OneJobEach, Looks, Waits
<1>6. ClockRead'
  <2>1. \A w \in Workers : worker[w].phase = "lock" => worker[w].at \in Nat
    BY <1>1 DEF CacheTypeOK, Idle, Working
  <2>2. QED
    BY <1>1, <2>1 DEF AgeInv, JobsInv, ClockRead
<1>7. RequestInv'
  <2>1. ASSUME NEW r \in Requests PROVE RequestOK(req[r])'
    <3>1. req[r] \in RequestType /\ RequestOK(req[r])
      BY <1>1 DEF CacheTypeOK, AgeInv, RequestInv
    <3>2. req[r].t0 \in Nat /\ req[r].at \in Nat /\ req[r].copy.since \in Nat
      BY <3>1 DEF RequestType, Copies
    <3>3. QED
      BY <1>1, <3>1, <3>2 DEF RequestOK, FoundOK, InLimit, Limit
  <2>2. QED
    BY <2>1 DEF RequestInv
<1>8. QED
    BY <1>2, <1>3, <1>4, <1>5, <1>6, <1>7 DEF AgeInv, JobsInv

\* A new version only makes what was seen older.
LEMMA ContentChangesKeeps == AgeInv /\ ContentChanges => AgeInv'
<1> SUFFICES ASSUME AgeInv, ContentChanges PROVE AgeInv'
    OBVIOUS
<1>1. /\ CacheTypeOK /\ origin \in Nat /\ origin' = origin + 1
      /\ UNCHANGED <<now, boot, bound, crashes, arrivals, mem, rows, queue, worker,
                     req, overrun>>
    BY TypeParts DEF AgeInv, ContentChanges, disk
<1>2. CacheTypeOK'
    BY <1>1 DEF CacheTypeOK
<1>3. MemAge' /\ RowAge'
    BY <1>1 DEF AgeInv, MemAge, RowAge, Limit
<1>4. JobsInv'
    BY <1>1 DEF AgeInv, JobsInv, QueuedAwaited, RunningAwaited, ClockRead, OneJobEach,
                Looks, Waits, Mono
<1>5. RequestInv'
  <2>1. ASSUME NEW r \in Requests PROVE RequestOK(req[r])'
    <3>1. req[r].seen \in Nat /\ RequestOK(req[r])
      BY <1>1 DEF CacheTypeOK, AgeInv, RequestInv, RequestType
    <3>2. QED
      BY <1>1, <3>1 DEF RequestOK, FoundOK, InLimit, Limit, Mono
  <2>2. QED
    BY <2>1 DEF RequestInv
<1>6. QED
    BY <1>2, <1>3, <1>4, <1>5 DEF AgeInv

\* Requests, jobs and entries that are gone fit whatever the clock is.
LEMMA NothingLeft ==
    ASSUME CacheTypeOK, now' \in Nat, origin' \in Nat,
           mem' = <<>>, queue' = <<>>, worker' = [w \in Workers |-> Idle],
           req' = [r \in Requests |-> NotYet]
    PROVE  MemAge' /\ JobsInv' /\ RequestInv'
<1>1. NotYet.phase = "idle" /\ NotYet.t0 = 0 /\ NotYet.seen = 0
    BY DEF NotYet
<1>2. \A r \in Requests : RequestOK(req[r])'
    BY <1>1 DEF RequestOK
<1>3. \A w \in Workers : ~ Looks(w)' /\ (worker[w].phase # "lock")'
    BY DEF Looks, Idle
<1>4. JobsInv'
    BY <1>3 DEF JobsInv, QueuedAwaited, RunningAwaited, ClockRead, OneJobEach
<1>5. MemAge'
    BY DEF MemAge
<1>6. QED
    BY <1>2, <1>4, <1>5 DEF RequestInv

\* After its death the process starts with the rows of the table; after a
\* boot they are all from before it.
LEMMA DiesKeeps ==
    ASSUME AgeInv, Dies, \/ UNCHANGED <<now, boot>>
                         \/ now' = now + 1 /\ boot' = now + 1
    PROVE  AgeInv'
<1>1. /\ CacheTypeOK /\ now \in Nat /\ boot \in Nat /\ boot <= now
      /\ origin \in Nat /\ crashes \in Nat
    BY TypeParts DEF AgeInv
<1>2. /\ mem' = <<>> /\ queue' = <<>> /\ worker' = [w \in Workers |-> Idle]
      /\ req' = [r \in Requests |-> NotYet] /\ overrun' = (overrun \/ ~ LockFree)
      /\ crashes' = crashes + 1 /\ UNCHANGED <<rows, origin, bound, arrivals>>
    BY DEF Dies
<1>3. now' \in Nat /\ boot' \in Nat /\ boot' <= now' /\ now <= now'
    BY <1>1
<1>4. MemAge' /\ JobsInv' /\ RequestInv'
    BY <1>1, <1>2, <1>3, NothingLeft
<1>5. RowAge'
  <2>1. \A u \in Urls : rows[u] # NoRow => rows[u].copy.since \in Nat
    BY <1>1 DEF CacheTypeOK, Tables, Rows, Copies
  <2>2. QED
    BY <1>1, <1>2, <1>3, <2>1 DEF AgeInv, RowAge
<1>6. CacheTypeOK'
  <2>1. /\ mem' \in Seq(Entries) /\ queue' \in Seq(Jobs) /\ Len(mem') = 0
    BY <1>2
  <2>2. Len(mem') <= MemSize
    BY <2>1, TiersAssumption
  <2>3. \A i, j \in DOMAIN mem' : mem'[i].url = mem'[j].url => i = j
    BY <1>2
  <2>4. worker' \in [Workers -> {Idle} \cup Working]
    BY <1>2
  <2>5. req' \in [Requests -> RequestType]
    BY <1>2, EmptyCopy
  <2>6. overrun' \in BOOLEAN
    BY <1>1, <1>2 DEF CacheTypeOK
  <2>7. QED
    BY <1>1, <1>2, <1>3, <2>1, <2>2, <2>3, <2>4, <2>5, <2>6 DEF CacheTypeOK
<1>7. QED
    BY <1>4, <1>5, <1>6 DEF AgeInv

\* At the start the table's rows are from before the boot.
LEMMA AgeInit == Init => AgeInv
<1> SUFFICES ASSUME Init PROVE AgeInv
    OBVIOUS
<1>1. /\ now = 1 /\ boot = 1 /\ origin = 0 /\ mem = <<>> /\ queue = <<>>
      /\ worker = [w \in Workers |-> Idle] /\ req = [r \in Requests |-> NotYet]
      /\ rows \in OldTables /\ bound \in Bounds /\ crashes = 0 /\ arrivals = 0
      /\ overrun = TRUE
    BY DEF Init
<1>2. rows \in Tables /\ \A u \in Urls : rows[u] # NoRow => rows[u].copy.since = 0
  <2>1. rows \in Tables /\ \A u \in Stored(rows) : rows[u].copy.since = 0
    BY <1>1, RequestCacheAssumption
  <2>2. \A u \in Urls : rows[u] # NoRow => u \in Stored(rows)
    BY <2>1 DEF Tables, Rows, Stored
  <2>3. QED
    BY <2>1, <2>2
<1>3. RowAge
    BY <1>1, <1>2 DEF RowAge
<1>4. MemAge
    BY <1>1 DEF MemAge
<1>5. JobsInv
    BY <1>1 DEF JobsInv, QueuedAwaited, RunningAwaited, ClockRead, OneJobEach, Looks, Idle
<1>6. RequestInv
  <2>1. NotYet.phase = "idle" /\ NotYet.t0 = 0 /\ NotYet.seen = 0
    BY DEF NotYet
  <2>2. RequestOK(NotYet)
    BY <1>1, <2>1 DEF RequestOK
  <2>3. QED
    BY <1>1, <2>2 DEF RequestInv
<1>7. CacheTypeOK
  <2>1. mem \in Seq(Entries) /\ queue \in Seq(Jobs) /\ Len(mem) <= MemSize
    BY <1>1, TiersAssumption
  <2>2. \A i, j \in DOMAIN mem : mem[i].url = mem[j].url => i = j
    BY <1>1
  <2>3. req \in [Requests -> RequestType] /\ worker \in [Workers -> {Idle} \cup Working]
    BY <1>1, EmptyCopy
  <2>4. QED
    BY <1>1, <1>2, <2>1, <2>2, <2>3 DEF CacheTypeOK
<1>8. QED
    BY <1>3, <1>4, <1>5, <1>6, <1>7 DEF AgeInv

\* Every step keeps the account.
LEMMA AgeStep == AgeInv /\ [Next]_vars => AgeInv'
<1> SUFFICES ASSUME AgeInv, [Next]_vars PROVE AgeInv'
    OBVIOUS
<1>1. bound.requests \subseteq Requests /\ bound.urls \subseteq Urls
      /\ bound.kinds \subseteq Kinds
    BY TypeParts DEF AgeInv, BoundType
<1>2. ASSUME NEW r \in Requests, NEW u \in Urls,
             Hit(r, u) \/ Miss(r, u) \/ \E k \in Kinds : Bypass(r, u, k)
      PROVE  AgeInv'
    BY <1>2, HitKeeps, MissKeeps, BypassKeeps
<1>3. ASSUME NEW r \in Requests,
             HandlerStep(r) \/ Timeout(r) \/ BodyArrives(r) \/ BodyFails(r)
      PROVE  AgeInv'
    BY <1>3, ConditionalGetKeeps, FetchKeeps, FinishRevalKeeps, FinishDiskKeeps,
       FinishInnerKeeps, TimeoutKeeps, BodyKeeps DEF HandlerStep
<1>4. ASSUME NEW w \in Workers, WorkerStep(w)
      PROVE  AgeInv'
    BY <1>4, TakeJobKeeps, DiskGetKeeps, DiskInsertKeeps, DiskTrimKeeps DEF WorkerStep
<1>5. CASE Tick \/ ContentChanges
    BY <1>5, TickKeeps, ContentChangesKeeps
<1>6. CASE Restart
    BY <1>6, DiesKeeps DEF Restart
<1>7. CASE Reboot
    BY <1>7, DiesKeeps DEF Reboot
<1>8. CASE UNCHANGED vars
  <2>1. Still /\ CacheTypeOK' /\ UNCHANGED <<mem, rows, queue, worker, req>>
    BY <1>8 DEF vars, Still, AgeInv, CacheTypeOK
  <2>2. JobsInv'
    BY <2>1 DEF AgeInv, JobsInv, QueuedAwaited, RunningAwaited, ClockRead, OneJobEach,
                Looks, Waits, Mono, Still
  <2>3. QED
    BY <2>1, <2>2, MemKept, RowsKept, RequestsKept DEF AgeInv
<1>9. QED
    BY <1>1, <1>2, <1>3, <1>4, <1>5, <1>6, <1>7, <1>8 DEF Next

\* The account holds for ever.
THEOREM AgeAlways == Spec => []AgeInv
<1>1. QED
    BY AgeInit, AgeStep, PTL DEF Spec

\* Type correctness of the request handler and its two caches: one entry per
\* URL and at most max_size of them, whatever is stored, promoted, touched and
\* evicted (cache.py:92-138).
THEOREM CacheTypeCorrect == Spec => []CacheTypeOK
<1>1. AgeInv => CacheTypeOK
    BY DEF AgeInv
<1>2. QED
    BY <1>1, AgeAlways, PTL

\* For any TTLs, threads, requests and deaths of the process, no lookup serves a
\* copy past one disk TTL, its promotion and one memory TTL (request.py:159).
THEOREM ServedWithinLifetimeSafe == Spec => []ServedWithinLifetime
<1>1. AgeInv => ServedWithinLifetime
    BY DEF AgeInv, RequestInv, RequestOK, InLimit, Limit, ServedWithinLifetime
<1>2. QED
    BY <1>1, AgeAlways, PTL

\* What the origin confirmed or gave is as new as the content was when the
\* request came in (request.py:122-128).
THEOREM ConfirmedIsCurrentSafe == Spec => []ConfirmedIsCurrent
<1>1. AgeInv => ConfirmedIsCurrent
    BY DEF AgeInv, RequestInv, RequestOK, ConfirmedIsCurrent
<1>2. QED
    BY <1>1, AgeAlways, PTL

-----------------------------------------------------------------------------
(* The size of the table.                                                  *)

\* Fewer rows, no larger total; no rows, nothing.
LEMMA TotalOfFewer ==
    \A t \in Tables :
        /\ IsFiniteSet(Stored(t)) /\ Stored(t) \subseteq Urls
        /\ Total(t) \in Nat
        /\ \A E : Stored(WithoutRows(t, E)) = Stored(t) \ E
        /\ \A E : Total(WithoutRows(t, E)) <= Total(t)
        /\ Total(WithoutRows(t, Stored(t))) = 0
<1> TAKE t \in Tables
<1>1. IsFiniteSet(Stored(t)) /\ Stored(t) \in SUBSET Urls
    BY TiersAssumption, FS_Subset DEF Stored
<1>2. SizeOf \in [Urls -> Nat]
    BY TiersAssumption
<1>3. \A E : Stored(WithoutRows(t, E)) = Stored(t) \ E
    BY DEF Stored, WithoutRows, NoRow
<1>4. Total(t) \in Nat
    BY <1>1, <1>2, SumType DEF Total
<1>5. ASSUME NEW E PROVE Total(WithoutRows(t, E)) <= Total(t)
    <2>1. Stored(t) \ E \in SUBSET Stored(t)
        OBVIOUS
    <2>2. SumFunctionOnSet(SizeOf, Stored(t) \ E) <= SumFunctionOnSet(SizeOf, Stored(t))
        BY <1>1, <1>2, <2>1, SumMonotonic
    <2>3. QED BY <1>3, <2>2 DEF Total
<1>6. Total(WithoutRows(t, Stored(t))) = 0
    <2>1. Stored(WithoutRows(t, Stored(t))) = {}
        BY <1>3
    <2>2. QED BY <1>2, <2>1, SumEmpty DEF Total
<1>7. QED BY <1>1, <1>3, <1>4, <1>5, <1>6

\* _enforce_limit always comes to an end that the model allows: whatever the
\* table, its sizes and the order its rows were stored in, some set of oldest
\* rows is what the deletions take (disk_cache.py:169-185).
THEOREM TrimmingPossible ==
    \A t \in Tables : \E E \in SUBSET Urls : EvictsOldest(t, E)
<1> TAKE t \in Tables
<1> DEFINE Oldest(E) ==
             \A e \in E, u \in Stored(t) \ E : t[e].cachedAt <= t[u].cachedAt
           Fits(E) == Total(WithoutRows(t, E)) <= DiskSize
           B == {E \in SUBSET Stored(t) : Oldest(E) /\ Fits(E)}
<1>1. /\ IsFiniteSet(Stored(t)) /\ Stored(t) \subseteq Urls
      /\ \A u \in Stored(t) : t[u].cachedAt \in Nat
    <2>1. ASSUME NEW u \in Stored(t) PROVE t[u].cachedAt \in Nat
        <3>1. u \in Urls /\ t[u].row
            BY DEF Stored
        <3>2. t[u] \in Rows \/ t[u] = NoRow
            BY <3>1 DEF Tables
        <3>3. t[u] \in Rows
            BY <3>1, <3>2 DEF NoRow
        <3>4. QED BY <3>3 DEF Rows
    <2>2. QED BY <2>1, TotalOfFewer
<1>2. Stored(t) \in B
    <2>1. Oldest(Stored(t))
        OBVIOUS
    <2>2. Fits(Stored(t))
        BY TotalOfFewer, TiersAssumption
    <2>3. QED BY <2>1, <2>2
<1>3. B \in SUBSET (SUBSET Stored(t))
    OBVIOUS
<1>4. \A E \in SUBSET Stored(t) : E \in B <=> Oldest(E) /\ Fits(E)
    OBVIOUS
<1> HIDE DEF B
<1>5. PICK E \in B : \A D \in B : D \subseteq E => D = E
    BY <1>1, <1>2, <1>3, MinimalSubset
<1>6. E \in SUBSET Stored(t) /\ Oldest(E) /\ Fits(E)
    BY <1>3, <1>4, <1>5
<1>7. ASSUME E # {}
      PROVE  \E last \in E :
                /\ \A e \in E : t[e].cachedAt <= t[last].cachedAt
                /\ Total(WithoutRows(t, E \ {last})) > DiskSize
    <2> DEFINE at == [e \in E |-> t[e].cachedAt]
    <2>1. IsFiniteSet(E)
        BY <1>1, <1>6, FS_Subset
    <2>2. at \in [E -> Nat]
        BY <1>1, <1>6
    <2> HIDE DEF at
    <2>3. PICK last \in E : \A e \in E : at[e] <= at[last]
        BY <1>7, <2>1, <2>2, LargestValue
    <2>4. \A e \in E : t[e].cachedAt <= t[last].cachedAt
        BY <2>3 DEF at
    <2>5. E \ {last} \in SUBSET Stored(t) /\ E \ {last} \notin B
        BY <1>5, <1>6
    <2>6. Oldest(E \ {last})
        <3>1. TAKE e \in E \ {last}, u \in Stored(t) \ (E \ {last})
        <3>2. u = last \/ u \in Stored(t) \ E
            OBVIOUS
        <3>3. QED BY <1>6, <2>4, <3>2
    <2>7. ~ Fits(E \ {last})
        BY <1>4, <2>5, <2>6
    <2>8. Total(WithoutRows(t, E \ {last})) \in Int /\ DiskSize \in Int
        <3>1. SumFunctionOnSet(SizeOf, Stored(t) \ (E \ {last})) \in Nat
            <4>1. /\ IsFiniteSet(Stored(t) \ (E \ {last}))
                  /\ Stored(t) \ (E \ {last}) \in SUBSET Urls
                BY <1>1, FS_Difference
            <4>2. QED BY <4>1, TiersAssumption, SumType
        <3>2. Stored(WithoutRows(t, E \ {last})) = Stored(t) \ (E \ {last})
            BY TotalOfFewer
        <3>3. QED BY <3>1, <3>2, TiersAssumption DEF Total
    <2>9. Total(WithoutRows(t, E \ {last})) > DiskSize
        BY <2>7, <2>8
    <2>10. QED BY <2>4, <2>9
<1>8. EvictsOldest(t, E)
    BY <1>6, <1>7 DEF EvictsOldest
<1>9. QED BY <1>1, <1>6, <1>8

\* The threads of the disk cache keep the table within its limit.
LEMMA WorkerKeepsLimit ==
    ASSUME AgeInv, DiskWithinLimit, NEW w \in Workers, WorkerStep(w)
    PROVE  DiskWithinLimit'
<1>1. rows \in Tables /\ worker \in [Workers -> {Idle} \cup Working]
    BY DEF AgeInv, CacheTypeOK
<1>2. Total(rows) \in Nat /\ DiskSize \in Nat
    BY <1>1, TotalOfFewer, TiersAssumption
<1>3. CASE TakeJob(w)
    <2>1. UNCHANGED <<rows, overrun>> /\ worker[w] = Idle
        BY <1>3 DEF TakeJob
    <2>2. \A x \in Workers \ {w} : worker'[x] = worker[x]
        BY <1>1, <1>3 DEF TakeJob
    <2>3. LockFree' => LockFree
        BY <2>1, <2>2 DEF LockFree, Idle
    <2>4. QED BY <2>1, <2>3 DEF DiskWithinLimit
<1>4. CASE DiskGet(w)
    <2>1. LockFree /\ UNCHANGED overrun
        BY <1>4 DEF DiskGet, AtLock
    <2>2. rows' = rows \/ \E E : rows' = WithoutRows(rows, E)
        BY <1>4 DEF DiskGet
    <2>3. \A E : Total(WithoutRows(rows, E)) <= Total(rows) /\ Total(WithoutRows(rows, E)) \in Int
        <3>1. TAKE E
        <3>2. WithoutRows(rows, E) \in Tables
            BY <1>1 DEF WithoutRows, Tables
        <3>3. QED BY <1>1, <3>2, TotalOfFewer
    <2>4. Total(rows') <= Total(rows) /\ Total(rows') \in Int
        BY <1>2, <2>2, <2>3
    <2>5. QED BY <1>2, <2>1, <2>4 DEF DiskWithinLimit
<1>5. CASE DiskInsert(w)
    <2>1. LockFree /\ UNCHANGED overrun /\ worker[w].phase = "lock"
        BY <1>5 DEF DiskInsert, AtLock
    <2>2. CASE worker' = [worker EXCEPT ![w].phase = "trim"]
        <3>1. worker[w] \in Working
            BY <1>1, <2>1 DEF Idle
        <3>2. worker'[w].phase = "trim"
            BY <1>1, <2>2, <3>1 DEF Working
        <3>3. QED BY <3>2 DEF DiskWithinLimit, LockFree
    <2>3. CASE UNCHANGED rows
        BY <2>1, <2>3 DEF DiskWithinLimit
    <2>4. QED BY <1>5, <2>2, <2>3 DEF DiskInsert
<1>6. CASE DiskTrim(w)
    BY <1>6 DEF DiskTrim, EvictsOldest, DiskWithinLimit
<1>7. QED BY <1>3, <1>4, <1>5, <1>6 DEF WorkerStep

\* Every step keeps the table within its limit.
LEMMA LimitStep ==
    AgeInv /\ DiskWithinLimit /\ [Next]_vars => DiskWithinLimit'
<1> SUFFICES ASSUME AgeInv, DiskWithinLimit, [Next]_vars
             PROVE  DiskWithinLimit'
    OBVIOUS
<1>a. ASSUME UNCHANGED <<rows, worker, overrun>> PROVE DiskWithinLimit'
    BY <1>a DEF DiskWithinLimit, LockFree
<1>1. CASE UNCHANGED vars
    BY <1>a, <1>1 DEF vars
<1>2. ASSUME NEW r \in bound.requests, NEW u \in bound.urls,
             Hit(r, u) \/ Miss(r, u) \/ \E k \in bound.kinds : Bypass(r, u, k)
      PROVE  DiskWithinLimit'
    BY <1>a, <1>2 DEF Hit, Miss, Bypass, disk
<1>3. ASSUME NEW r \in bound.requests,
             HandlerStep(r) \/ Timeout(r) \/ BodyArrives(r) \/ BodyFails(r)
      PROVE  DiskWithinLimit'
    BY <1>a, <1>3
    DEF HandlerStep, ConditionalGet, Fetch, FinishReval, FinishDisk, FinishInner,
        Timeout, BodyArrives, BodyFails, disk
<1>4. ASSUME NEW w \in Workers, WorkerStep(w) PROVE DiskWithinLimit'
    BY <1>4, WorkerKeepsLimit
<1>5. CASE Tick \/ ContentChanges
    BY <1>a, <1>5 DEF Tick, ContentChanges, disk
<1>6. CASE Dies
    BY <1>6 DEF Dies, DiskWithinLimit
<1>7. QED BY <1>1, <1>2, <1>3, <1>4, <1>5, <1>6 DEF Next, Restart, Reboot

\* For any sizes, limit, number of threads and order of their inserts and
\* lookups, and after any death of the process: once a put has run to its end the
\* table is within max_size whenever no thread is between its two commits
\* (disk_cache.py:163-187).
THEOREM DiskWithinLimitSafe == Spec => []DiskWithinLimit
<1>1. Init => DiskWithinLimit
    BY DEF Init, DiskWithinLimit
<1>2. QED
    BY <1>1, LimitStep, AgeAlways, PTL DEF Spec
-----------------------------------------------------------------------------
(* No lookup is lost: the safety half of RequestEnds.                      *)

\* A lookup of this request is in the executor's queue, or a thread runs it.
Queued(r) == \E k \in DOMAIN queue : queue[k].op = "get" /\ queue[k].req = r

Running(r) == \E w \in Workers : Looks(w) /\ worker[w].job.req = r

\* A request that waits for the disk has a job that will answer it.
LookupPending == \A r \in Requests : Waits(r) => Queued(r) \/ Running(r)

\* The conditions of this thread's steps.
CanWork(w) ==
    \/ worker[w].phase = "idle" /\ queue # <<>>
    \/ worker[w].phase = "lock" /\ LockFree
    \/ worker[w].phase = "trim"

\* Only one thread at a time is between its two commits, so whoever waits, some
\* thread can move on.
LookupNeverLost ==
    \A r \in Requests : Waits(r) /\ Workers # {} =>
       /\ Queued(r) \/ Running(r)
       /\ \E w \in Workers : CanWork(w)

\* Where nobody starts to wait and no job ends, nothing is lost.
LEMMA PendingKept ==
    ASSUME LookupPending,
           \A r \in Requests :
              Waits(r)' => Waits(r) /\ (Queued(r) => Queued(r)' \/ Running(r)')
                                    /\ (Running(r) => Running(r)')
    PROVE  LookupPending'
BY DEF LookupPending

\* A step that leaves the jobs alone.
LEMMA PendingUnchanged ==
    ASSUME LookupPending, UNCHANGED <<queue, worker>>,
           \A r \in Requests : Waits(r)' => Waits(r)
    PROVE  LookupPending'
<1>1. \A r \in Requests : (Queued(r) => Queued(r)') /\ (Running(r) => Running(r)')
    BY DEF Queued, Running, Looks
<1>2. QED
    BY <1>1, PendingKept

\* What a job added at the end of the queue leaves there.
LEMMA AppendKeeps ==
    ASSUME queue \in Seq(Jobs), NEW job \in Jobs, queue' = Append(queue, job)
    PROVE  /\ \A r : Queued(r) => Queued(r)'
           /\ job.op = "get" => Queued(job.req)'
<1>1. /\ DOMAIN Append(queue, job) = 1 .. Len(queue) + 1
      /\ DOMAIN queue = 1 .. Len(queue) /\ Len(queue) \in Nat
      /\ \A k \in DOMAIN queue : Append(queue, job)[k] = queue[k]
      /\ Append(queue, job)[Len(queue) + 1] = job
    OBVIOUS
<1>2. /\ DOMAIN queue \subseteq DOMAIN queue'
      /\ \A k \in DOMAIN queue : queue'[k] = queue[k]
    BY <1>1
<1>3. Len(queue) + 1 \in DOMAIN queue' /\ queue'[Len(queue) + 1] = job
    BY <1>1
<1>4. QED
    BY <1>2, <1>3 DEF Queued

\* A request changed by the handler waits for no disk job that it did not queue.
LEMMA HandlerPending ==
    ASSUME AgeInv, LookupPending, NEW r \in Requests,
           HandlerStep(r) \/ Timeout(r) \/ BodyArrives(r) \/ BodyFails(r)
    PROVE  LookupPending'
<1>1. req \in [Requests -> RequestType] /\ queue \in Seq(Jobs)
    BY DEF AgeInv, CacheTypeOK
<1>2. \A q : req' = [req EXCEPT ![r] = q] =>
         req'[r] = q /\ \A x \in Requests \ {r} : req'[x] = req[x]
    BY <1>1
<1>3. NotYet.phase = "idle"
    BY DEF NotYet
<1>4. \A x \in Requests : Waits(x)' => Waits(x)
  <2>1. \A x \in Requests \ {r} : req'[x] = req[x]
    BY <1>2 DEF HandlerStep, ConditionalGet, Fetch, FinishReval, FinishDisk,
                FinishInner, Timeout, BodyArrives, BodyFails, Answer, Reply, ReplyOther
  <2>2. \A x \in Requests \ {r} : Waits(x)' => Waits(x)
    BY <2>1 DEF Waits
  <2>3. ~ Waits(r)'
    <3>1. CASE ConditionalGet(r) \/ Fetch(r)
      <4>1. req[r].phase # "disk"
        BY <3>1 DEF ConditionalGet, Fetch
      <4>2. \A answer, copy : Answer(r, answer, copy) => req'[r].phase = req[r].phase
        BY <1>1 DEF Answer, RequestType
      <4>3. req'[r].phase = req[r].phase
        BY <3>1, <4>2 DEF ConditionalGet, Fetch
      <4>4. QED
        BY <4>1, <4>3 DEF Waits
    <3>2. CASE \/ ReplyOther(r) \/ \E via, copy : Reply(r, via, copy)
      <4>1. CASE ReplyOther(r)
        BY <1>2, <1>3, <4>1 DEF ReplyOther, Waits
      <4>2. ASSUME NEW via, NEW copy, Reply(r, via, copy) PROVE req'[r].phase = "done"
        BY <1>2, <4>2 DEF Reply, NotYet
      <4>3. QED
        BY <3>2, <4>1, <4>2 DEF Waits
    <3>3. CASE req' = [req EXCEPT ![r].phase = "inner", ![r].got = "none"]
      <4>1. req'[r].phase = "inner"
        BY <1>1, <3>3 DEF RequestType
      <4>2. QED
        BY <4>1 DEF Waits
    <3>4. QED
      BY <3>1, <3>2, <3>3
      DEF HandlerStep, FinishReval, FinishDisk, FinishInner, Timeout, BodyArrives,
          BodyFails, ReplyOther
  <2>4. QED
    BY <2>2, <2>3
<1>5. CASE UNCHANGED <<queue, worker>>
    BY <1>4, <1>5, PendingUnchanged
<1>6. CASE FinishInner(r)
  <2> DEFINE job == [op |-> "put", url |-> req[r].url, req |-> NoRequest,
                     copy |-> req[r].copy]
  <2>1. worker' = worker /\ (queue' = queue \/ queue' = Append(queue, job))
    BY <1>6 DEF FinishInner, Submit
  <2>2. job \in Jobs
    BY <1>1 DEF RequestType, Jobs
  <2> HIDE DEF job
  <2>3. \A x \in Requests : Queued(x) => Queued(x)'
    <3>1. CASE queue' = queue
      BY <3>1 DEF Queued
    <3>2. CASE queue' = Append(queue, job)
      BY <1>1, <2>2, <3>2, AppendKeeps
    <3>3. QED
      BY <2>1, <3>1, <3>2
  <2>4. \A x \in Requests : Running(x) => Running(x)'
    BY <2>1 DEF Running, Looks
  <2>5. QED
    BY <1>4, <2>3, <2>4, PendingKept
<1>7. QED
    BY <1>5, <1>6
    DEF HandlerStep, ConditionalGet, Fetch, FinishReval, FinishDisk, Timeout,
        BodyArrives, BodyFails, disk

\* A new request queues the lookup it waits for.
LEMMA RequestPending ==
    ASSUME AgeInv, LookupPending, NEW r \in Requests, NEW u \in Urls,
           Hit(r, u) \/ Miss(r, u) \/ \E k \in Kinds : Bypass(r, u, k)
    PROVE  LookupPending'
<1>1. req \in [Requests -> RequestType] /\ queue \in Seq(Jobs)
    BY DEF AgeInv, CacheTypeOK
<1>2. \A q : req' = [req EXCEPT ![r] = q] =>
         req'[r] = q /\ \A x \in Requests \ {r} : req'[x] = req[x]
    BY <1>1
<1>3. \A x \in Requests \ {r} : Waits(x)' => Waits(x)
    BY <1>2 DEF Hit, Miss, Bypass, Waits
<1>4. \A k, phase : Arrive(r, u, k, phase).phase = phase
    BY DEF Arrive, NotYet
<1>5. CASE \E k \in Kinds : Bypass(r, u, k)
  <2>1. PICK k \in Kinds : Bypass(r, u, k)
    BY <1>5
  <2>2. UNCHANGED <<queue, worker>>
        /\ \E phase \in {"body", "inner"} : req'[r] = Arrive(r, u, k, phase)
    BY <1>2, <2>1 DEF Bypass, disk
  <2>3. req'[r].phase \in {"body", "inner"}
    BY <1>4, <2>2
  <2>4. \A x \in Requests : Waits(x)' => Waits(x)
    BY <1>3, <2>3 DEF Waits
  <2>5. QED
    BY <2>2, <2>4, PendingUnchanged
<1>6. CASE Hit(r, u)
  <2> DEFINE copy  == mem[Place(mem, u)].copy
             phase == IF copy.tag THEN "reval" ELSE "done"
             q     == [Arrive(r, u, "get", phase)
                         EXCEPT !.copy = copy,
                                !.via = IF copy.tag THEN "none" ELSE "L1"]
  <2>1. req' = [req EXCEPT ![r] = q] /\ UNCHANGED <<queue, worker>>
    BY <1>6 DEF Hit, disk
  <2>2. q.phase = phase
    BY DEF Arrive, NotYet
  <2>3. phase # "disk"
    OBVIOUS
  <2> HIDE DEF q, phase
  <2>4. ~ Waits(r)'
    BY <1>2, <2>1, <2>2, <2>3 DEF Waits
  <2>5. QED
    BY <1>3, <2>1, <2>4, PendingUnchanged
<1>7. CASE Miss(r, u)
  <2> DEFINE job == [op |-> "get", url |-> u, req |-> r, copy |-> NoCopy]
  <2>1. queue' = Append(queue, job) /\ worker' = worker
    BY <1>7 DEF Miss, Submit
  <2>2. job \in Jobs /\ job.op = "get" /\ job.req = r
    BY EmptyCopy DEF Jobs
  <2> HIDE DEF job
  <2>3. Queued(r)' /\ \A x \in Requests : Queued(x) => Queued(x)'
    BY <1>1, <2>1, <2>2, AppendKeeps
  <2>4. \A x \in Requests : Running(x) => Running(x)'
    BY <2>1 DEF Running, Looks
  <2>5. QED
    BY <1>3, <2>3, <2>4 DEF LookupPending
<1>8. QED
    BY <1>5, <1>6, <1>7

\* The thread that takes a lookup from the queue runs it.
LEMMA TakeJobPending ==
    ASSUME AgeInv, LookupPending, NEW w \in Workers, TakeJob(w)
    PROVE  LookupPending'
<1> DEFINE job == Head(queue)
<1>1. worker \in [Workers -> {Idle} \cup Working] /\ queue \in Seq(Jobs)
    BY DEF AgeInv, CacheTypeOK
<1>2. /\ worker[w] = Idle /\ queue # <<>> /\ queue' = Tail(queue) /\ req' = req
      /\ worker' = [worker EXCEPT ![w] =
                      IF job.op = "put" /\ ~ DiskAccepts(job.url, job.copy.cc)
                      THEN Idle ELSE [phase |-> "lock", job |-> job, at |-> Mono]]
    BY DEF TakeJob
<1>3. \A x \in Requests : Waits(x)' => Waits(x)
    BY <1>2 DEF Waits
<1>4. \A x \in Requests : Running(x) => Running(x)'
  <2>1. ~ Looks(w) /\ \A v \in Workers \ {w} : worker'[v] = worker[v]
    BY <1>1, <1>2 DEF Looks, Idle
  <2>2. QED
    BY <2>1 DEF Running, Looks
<1>5. /\ job = queue[1]
      /\ \A k \in DOMAIN queue : k # 1 =>
            k - 1 \in DOMAIN Tail(queue) /\ Tail(queue)[k - 1] = queue[k]
    BY <1>1, <1>2
<1>6. job.op = "get" => Looks(w)' /\ worker'[w].job = job
  <2> HIDE DEF job
  <2>1. QED
    BY <1>1, <1>2 DEF Looks
<1> HIDE DEF job
<1>7. ASSUME NEW x \in Requests, Queued(x) PROVE Queued(x)' \/ Running(x)'
  <2>1. PICK k \in DOMAIN queue : queue[k].op = "get" /\ queue[k].req = x
    BY <1>7 DEF Queued
  <2>2. CASE k = 1
    BY <1>5, <1>6, <2>1, <2>2 DEF Running
  <2>3. CASE k # 1
    BY <1>2, <1>5, <2>1, <2>3 DEF Queued
  <2>4. QED
    BY <2>2, <2>3
<1>8. QED
    BY <1>3, <1>4, <1>7, PendingKept

\* A lookup ends with its answer, however the disk answers.
LEMMA DiskGetPending ==
    ASSUME AgeInv, LookupPending, NEW w \in Workers, DiskGet(w)
    PROVE  LookupPending'
<1>1. /\ worker \in [Workers -> {Idle} \cup Working]
      /\ req \in [Requests -> RequestType] /\ queue' = queue
    BY DEF AgeInv, CacheTypeOK, DiskGet
<1>2. \E answer, copy : answer # "none" /\ Deliver(w, answer, copy)
    BY DEF DiskGet
<1>3. PICK answer, copy : answer # "none" /\ Deliver(w, answer, copy)
    BY <1>2
<1>4. Looks(w) /\ \E r \in Requests : r = worker[w].job.req
    BY DEF DiskGet, AtLock, Looks, AgeInv, JobsInv, RunningAwaited
<1> PICK r \in Requests : r = worker[w].job.req
    BY <1>4
<1>5. /\ worker' = [worker EXCEPT ![w] = Idle]
      /\ req' = [req EXCEPT ![r].got = answer, ![r].copy = copy, ![r].at = worker[w].at]
    BY <1>3 DEF Deliver
<1>6. req'[r].got = answer /\ \A x \in Requests \ {r} : req'[x] = req[x]
    BY <1>1, <1>4, <1>5 DEF RequestType
<1>7. ~ Waits(r)' /\ \A x \in Requests \ {r} : Waits(x)' => Waits(x)
  <2>1. answer # "none"
    BY <1>3
  <2>2. QED
    BY <1>6, <2>1 DEF Waits
<1>8. \A x \in Requests : Queued(x) => Queued(x)'
    BY <1>1 DEF Queued
<1>9. \A x \in Requests \ {r} : Running(x) => Running(x)'
  <2>1. \A v \in Workers \ {w} : worker'[v] = worker[v]
    BY <1>1, <1>5
  <2>2. ASSUME NEW x \in Requests \ {r}, Running(x) PROVE Running(x)'
    <3>1. PICK v \in Workers : Looks(v) /\ worker[v].job.req = x
      BY <2>2 DEF Running
    <3>2. v # w
      BY <3>1
    <3>3. worker'[v] = worker[v]
      BY <2>1, <3>2
    <3>4. QED
      BY <3>1, <3>3 DEF Running, Looks
  <2>3. QED
    BY <2>2
<1>10. QED
    BY <1>7, <1>8, <1>9 DEF LookupPending

\* A put is nobody's lookup.
LEMMA PutPending ==
    ASSUME AgeInv, LookupPending, NEW w \in Workers, DiskInsert(w) \/ DiskTrim(w)
    PROVE  LookupPending'
<1>1. worker \in [Workers -> {Idle} \cup Working] /\ queue' = queue /\ req' = req
    BY DEF AgeInv, CacheTypeOK, DiskInsert, DiskTrim
<1>2. ~ Looks(w)
    BY DEF DiskInsert, DiskTrim, AtLock, Looks
<1>3. \A v \in Workers \ {w} : worker'[v] = worker[v]
    BY <1>1 DEF DiskInsert, DiskTrim
<1>4. \A x \in Requests : (Queued(x) => Queued(x)') /\ (Running(x) => Running(x)')
    BY <1>1, <1>2, <1>3 DEF Queued, Running, Looks
<1>5. \A x \in Requests : Waits(x)' => Waits(x)
    BY <1>1 DEF Waits
<1>6. QED
    BY <1>4, <1>5, PendingKept

\* Every step keeps a job for each lookup that is awaited.
LEMMA PendingStep == AgeInv /\ LookupPending /\ [Next]_vars => LookupPending'
<1> SUFFICES ASSUME AgeInv, LookupPending, [Next]_vars PROVE LookupPending'
    OBVIOUS
<1>1. bound.requests \subseteq Requests /\ bound.urls \subseteq Urls
      /\ bound.kinds \subseteq Kinds
    BY TypeParts DEF AgeInv, BoundType
<1>2. ASSUME NEW r \in Requests, NEW u \in Urls,
             Hit(r, u) \/ Miss(r, u) \/ \E k \in Kinds : Bypass(r, u, k)
      PROVE  LookupPending'
    BY <1>2, RequestPending
<1>3. ASSUME NEW r \in Requests,
             HandlerStep(r) \/ Timeout(r) \/ BodyArrives(r) \/ BodyFails(r)
      PROVE  LookupPending'
    BY <1>3, HandlerPending
<1>4. ASSUME NEW w \in Workers, WorkerStep(w) PROVE LookupPending'
    BY <1>4, TakeJobPending, DiskGetPending, PutPending DEF WorkerStep
<1>5. CASE Tick \/ ContentChanges \/ UNCHANGED vars
  <2>1. UNCHANGED <<queue, worker, req>>
    BY <1>5 DEF Tick, ContentChanges, vars, disk
  <2>2. QED
    BY <2>1, PendingUnchanged DEF Waits
<1>6. CASE Dies
  <2>1. \A r \in Requests : ~ Waits(r)'
    BY <1>6 DEF Dies, Waits, NotYet
  <2>2. QED
    BY <2>1 DEF LookupPending
<1>7. QED
    BY <1>1, <1>2, <1>3, <1>4, <1>5, <1>6 DEF Next, Restart, Reboot

\* Some thread can always move on: the one that holds the lock, or else one that
\* waits for it, or else one that takes the next job.
LEMMA SomeThreadWorks ==
    ASSUME CacheTypeOK, NEW r \in Requests, Queued(r) \/ Running(r), Workers # {}
    PROVE  \E w \in Workers : CanWork(w)
<1>1. worker \in [Workers -> {Idle} \cup Working]
    BY DEF CacheTypeOK
<1>2. \A w \in Workers : worker[w].phase \in {"idle", "lock", "trim"}
    BY <1>1 DEF Idle, Working
<1>3. CASE ~ LockFree
    BY <1>3 DEF LockFree, CanWork
<1>4. CASE LockFree /\ \E w \in Workers : worker[w].phase = "lock"
    BY <1>4 DEF CanWork
<1>5. CASE LockFree /\ \A w \in Workers : worker[w].phase # "lock"
  <2>1. \A w \in Workers : worker[w].phase = "idle"
    BY <1>2, <1>5 DEF LockFree
  <2>2. ~ Running(r)
    BY <1>5 DEF Running, Looks
  <2>3. queue # <<>>
    BY <2>2 DEF Queued
  <2>4. QED
    BY <2>1, <2>3 DEF CanWork
<1>6. QED
    BY <1>3, <1>4, <1>5

\* For any number of requests, threads and jobs, whatever sqlite raises and
\* however the executor's threads interleave: a request that waits for the disk
\* has its job in the queue or in the hands of a thread, and some thread can do
\* its next step (request.py:153, disk_cache.py:254).
THEOREM LookupNeverLostSafe == Spec => []LookupNeverLost
<1>1. Init => LookupPending
  <2> SUFFICES ASSUME Init PROVE LookupPending
    OBVIOUS
  <2>1. \A r \in Requests : ~ Waits(r)
    BY DEF Init, Waits, NotYet
  <2>2. QED
    BY <2>1 DEF LookupPending
<1>2. AgeInv /\ LookupPending => LookupNeverLost
    BY SomeThreadWorks DEF AgeInv, LookupPending, LookupNeverLost
<1>3. QED
    BY <1>1, <1>2, PendingStep, AgeAlways, PTL DEF Spec
=============================================================================
