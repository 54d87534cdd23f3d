----------------------------- MODULE CacheTiers -----------------------------
(***************************************************************************)
(* The two response caches as data types: ResponseCache (proxy/cache.py),  *)
(* an OrderedDict kept in order of use, and DiskCache                      *)
(* (proxy/disk_cache.py), a table of rows.  A memory store is a sequence   *)
(* of entries, least recently used first; a table is a function from URLs  *)
(* to rows.  Times are readings of time.monotonic().                       *)
(***************************************************************************)
EXTENDS Integers, FiniteSets, SequencesExt

CONSTANTS
    Urls,           \* the keys: a URL with its query string
    SizeOf,         \* the length of the body found at each URL
    MemSize,        \* ResponseCache.max_size, in entries
    MemMaxBody,     \* ResponseCache.max_body
    MemTTL,         \* ResponseCache.default_ttl
    DiskSize,       \* DiskCache.max_size, in units of body length
    DiskMaxBody,    \* DiskCache.max_body
    DiskTTL,        \* DiskCache.default_ttl
    MaxAges         \* the max-age values that responses carry

ASSUME TiersAssumption ==
    /\ IsFiniteSet(Urls) /\ Urls # {}
    /\ SizeOf \in [Urls -> Nat]
    /\ MemSize \in Nat \ {0}        \* 0 disables the cache
    /\ {MemMaxBody, MemTTL, DiskSize, DiskMaxBody, DiskTTL} \subseteq Nat
    /\ MaxAges \subseteq Nat

\* What put() reads in Cache-Control: "keep" stands for a header without
\* max-age, "refuse" for no-store, no-cache or private.
Directives == {"keep", "refuse"} \cup MaxAges

Life(cc, default) == IF cc \in MaxAges THEN cc ELSE default
MemLife(cc)  == Life(cc, MemTTL)
DiskLife(cc) == Life(cc, DiskTTL)

\* The early returns of ResponseCache.put and of DiskCache.put.
MemAccepts(u, cc) ==
    /\ SizeOf[u] <= MemMaxBody
    /\ cc # "refuse"
    /\ MemLife(cc) > 0

DiskAccepts(u, cc) ==
    /\ SizeOf[u] <= DiskMaxBody
    /\ cc # "refuse"
    /\ DiskLife(cc) > 0

-----------------------------------------------------------------------------
(* ResponseCache.                                                          *)

Held(s, u)  == \E i \in DOMAIN s : s[i].url = u
Place(s, u) == CHOOSE i \in DOMAIN s : s[i].url = u

\* del self._store[url]
Dropped(s, u) == IF Held(s, u) THEN RemoveAt(s, Place(s, u)) ELSE s

\* move_to_end: the entry found is the most recently used one.
Touched(s, u) == Append(Dropped(s, u), s[Place(s, u)])

\* An entry is served up to and including the instant it expires.
Unexpired(s, u, mono) == Held(s, u) /\ mono <= s[Place(s, u)].expires

\* Mutation: a loop that stops one entry early.
EvictedLate(s) ==
    IF Len(s) > MemSize + 1 THEN SubSeq(s, Len(s) - MemSize, Len(s)) ELSE s

\* The loop of popitem(last=False): the oldest go until max_size are left.
Evicted(s) ==
    IF Len(s) > MemSize THEN SubSeq(s, Len(s) - MemSize + 1, Len(s)) ELSE s

MemPut(s, u, copy, mono) ==
    IF MemAccepts(u, copy.cc)
    THEN Evicted(Append(Dropped(s, u),
                        [url |-> u, copy |-> copy,
                         expires |-> mono + MemLife(copy.cc)]))
    ELSE s

-----------------------------------------------------------------------------
(* DiskCache.                                                              *)

NoRow == [row |-> FALSE]

Stored(rows) == {u \in Urls : rows[u].row}

\* SELECT SUM(size) FROM responses
Total(rows) == SumFunctionOnSet(SizeOf, Stored(rows))

WithoutRows(rows, E) == [u \in Urls |-> IF u \in E THEN NoRow ELSE rows[u]]

\* _enforce_limit: rows go in the order of cached_at (ties in any order), one
\* by one, until what is left fits.  E is what may have gone.
EvictsOldest(rows, E) ==
    /\ E \subseteq Stored(rows)
    /\ \A e \in E, u \in Stored(rows) \ E : rows[e].cachedAt <= rows[u].cachedAt
    /\ Total(WithoutRows(rows, E)) <= DiskSize
    /\ E # {} =>
        \E last \in E :
            /\ \A e \in E : rows[e].cachedAt <= rows[last].cachedAt
            /\ Total(WithoutRows(rows, E \ {last})) > DiskSize
=============================================================================
