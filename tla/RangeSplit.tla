------------------------------ MODULE RangeSplit ------------------------------
(***************************************************************************)
(* How handle_inner (proxy/handlers/inner.py) cuts a download into byte    *)
(* ranges and gives each a proxy: the client's Range header,               *)
(* build_ranges, distribute_proxies (proxy/session_pool.py) and            *)
(* apply_per_proxy_chunk_sizes.  No step of it suspends, so the registry   *)
(* does not change on the way; a step here is one turn of one loop.        *)
(***************************************************************************)
EXTENDS Integers, Sequences, FiniteSets

CONSTANTS
    Proxies,
    MaxLength,          \* bound: the longest content_length
    MaxWindow,          \* bound: the largest exclude_window
    BaseChunkSizes,     \* values of chunk_size
    ScaledSizes,        \* what per_proxy_chunk_size may return for a proxy
    NoProxy             \* None: no X-Proxy-Pin, or no proxy to race with

ASSUME SplitAssumption ==
    /\ IsFiniteSet(Proxies)
    /\ MaxLength \in Nat
    /\ MaxWindow \in Nat
    /\ BaseChunkSizes \subseteq Nat \ {0}
    /\ ScaledSizes \subseteq Nat \ {0} /\ ScaledSizes # {}
    /\ NoProxy \notin Proxies

VARIABLES
    job,        \* the request: see Jobs
    first,      \* effective_start
    last,       \* effective_end
    partial,    \* is_partial
    phase,      \* which loop runs
    cur,        \* start of the next range to cut
    ranges,     \* ranges, 1-indexed here: element k has index k - 1
    assigned,   \* assigned
    cut,        \* per_proxy_ranges
    spread,     \* new_assigned
    rival       \* race_proxy

vars == <<job, first, last, partial, phase, cur, ranges, assigned, cut, spread,
          rival>>

\* What the split depends on.  A Range header is a pair of positions, "bytes=N-"
\* one that ends at MaxLength; pairs that cannot be satisfied are among them.
Jobs ==
    [length    : 1 .. MaxLength,        \* content_length, not zero
     header    : {<<>>} \cup (0 .. MaxLength) \X (0 .. MaxLength),
     base      : BaseChunkSizes,        \* chunk_size
     window    : 0 .. MaxWindow,        \* exclude_window
     pin       : Proxies \cup {NoProxy},
     available : SUBSET Proxies,        \* REGISTRY.available
     rebalance : BOOLEAN,               \* per_proxy_chunks
     race      : BOOLEAN]               \* race_first_chunk

SmallerOf(a, b) == IF a < b THEN a ELSE b

Init ==
    /\ job \in Jobs
    /\ first = 0
    /\ last = 0
    /\ partial = FALSE
    /\ phase = "parse"
    /\ cur = 0
    /\ ranges = <<>>
    /\ assigned = <<>>
    /\ cut = <<>>
    /\ spread = <<>>
    /\ rival = NoProxy

\* Mutation: the end of the client's range is not clamped.
ParseRangeUnclamped ==
    /\ phase = "parse"
    /\ partial' = (job.header # <<>> /\ job.header[1] <= job.header[2])
    /\ first' = IF partial' THEN job.header[1] ELSE 0
    /\ last' = IF partial' THEN job.header[2] ELSE job.length - 1
    /\ cur' = first'
    /\ phase' = "build"
    /\ UNCHANGED <<job, ranges, assigned, cut, spread, rival>>

\* Lines 186 - 203: honour a Range header that can be satisfied.
ParseRange ==
    LET to == SmallerOf(job.header[2], job.length - 1) IN
    /\ phase = "parse"
    /\ partial' = (job.header # <<>> /\ job.header[1] <= to)
    /\ first' = IF partial' THEN job.header[1] ELSE 0
    /\ last' = IF partial' THEN to ELSE job.length - 1
    /\ cur' = first'
    /\ phase' = "build"
    /\ UNCHANGED <<job, ranges, assigned, cut, spread, rival>>

\* Mutation: the last range is as long as the others.
WholePiece(size) == [from |-> cur, to |-> cur + size - 1]

\* The range that starts at cur and is size bytes long, or what is left.
Piece(size) == [from |-> cur, to |-> SmallerOf(cur + size - 1, last)]

\* build_ranges
BuildRange ==
    /\ phase = "build"
    /\ cur <= last
    /\ ranges' = Append(ranges, Piece(job.base))
    /\ cur' = Piece(job.base).to + 1
    /\ UNCHANGED <<job, first, last, partial, phase, assigned, cut, spread, rival>>

BuildDone ==
    /\ phase = "build"
    /\ cur > last
    /\ phase' = "assign"
    /\ UNCHANGED <<job, first, last, partial, cur, ranges, assigned, cut, spread,
                   rival>>

\* min(len(available) - 1, exclude_window)
Window == SmallerOf(Cardinality(job.available) - 1, job.window)

\* Mutation: one proxy too few is excluded.
FewerRecent ==
    {assigned[k] : k \in {j \in DOMAIN assigned :
                             Window = 0 \/ j > Len(assigned) - Window + 1}}

\* set(assigned[-win:]): a win of 0 takes the whole list.
RecentlyAssigned ==
    {assigned[k] : k \in {j \in DOMAIN assigned :
                             Window = 0 \/ j > Len(assigned) - Window}}

\* Mutation: None is assigned when there is no proxy.
CandidatesOrNone ==
    IF job.pin # NoProxy THEN {job.pin}
    ELSE IF job.available = {} THEN {NoProxy}
    ELSE IF Cardinality(job.available) > Cardinality(RecentlyAssigned)
         THEN job.available \ RecentlyAssigned
         ELSE job.available

\* One proxy of distribute_proxies.  An exclude set as large as the pool is
\* ignored by the registry, so the pick never comes back empty.
Candidates ==
    IF job.pin # NoProxy THEN {job.pin}
    ELSE IF Cardinality(job.available) > Cardinality(RecentlyAssigned)
         THEN job.available \ RecentlyAssigned
         ELSE job.available

AssignProxy ==
    /\ phase = "assign"
    /\ Len(assigned) < Len(ranges)
    /\ \E p \in Candidates : assigned' = Append(assigned, p)
    /\ UNCHANGED <<job, first, last, partial, phase, cur, ranges, cut, spread, rival>>

\* Mutation: wait for a proxy instead of answering 503.
NoProxiesWait ==
    /\ phase = "assign"
    /\ job.pin = NoProxy
    /\ job.available = {}
    /\ UNCHANGED vars

\* No proxy at all: 503.
NoProxies ==
    /\ phase = "assign"
    /\ job.pin = NoProxy
    /\ job.available = {}
    /\ phase' = "unavailable"
    /\ UNCHANGED <<job, first, last, partial, cur, ranges, assigned, cut, spread,
                   rival>>

\* Rebalance only a download that uses more than one proxy.
AssignDone ==
    LET several == \E j, k \in DOMAIN assigned : assigned[j] # assigned[k] IN
    /\ phase = "assign"
    /\ Len(assigned) = Len(ranges)
    /\ IF job.rebalance /\ several
       THEN phase' = "cut" /\ cur' = first /\ spread' = assigned
       ELSE phase' = "race" /\ UNCHANGED <<cur, spread>>
    /\ UNCHANGED <<job, first, last, partial, ranges, assigned, cut, rival>>

\* First loop of apply_per_proxy_chunk_sizes: a range of its own size for each
\* assigned proxy, until the bytes run out.
CutForProxy ==
    /\ phase = "cut"
    /\ Len(cut) < Len(assigned)
    /\ cur <= last
    /\ \E size \in ScaledSizes :
          /\ cut' = Append(cut, Piece(size))
          /\ cur' = Piece(size).to + 1
    /\ UNCHANGED <<job, first, last, partial, phase, ranges, assigned, spread, rival>>

\* Second loop: what is left goes to the last proxy.
FillRest ==
    /\ phase = "cut"
    /\ Len(cut) >= Len(assigned)
    /\ cur <= last
    /\ cut' = Append(cut, Piece(job.base))
    /\ cur' = Piece(job.base).to + 1
    /\ spread' = Append(spread, spread[Len(spread)])
    /\ UNCHANGED <<job, first, last, partial, phase, ranges, assigned, rival>>

\* Mutation: new_assigned is not trimmed.
CutDoneUntrimmed ==
    /\ phase = "cut"
    /\ cur > last
    /\ ranges' = cut
    /\ assigned' = spread
    /\ phase' = "race"
    /\ UNCHANGED <<job, first, last, partial, cur, cut, spread, rival>>

\* new_assigned is trimmed to the ranges, and both replace the first division.
CutDone ==
    /\ phase = "cut"
    /\ cur > last
    /\ ranges' = cut
    /\ assigned' = SubSeq(spread, 1, SmallerOf(Len(spread), Len(cut)))
    /\ phase' = "race"
    /\ UNCHANGED <<job, first, last, partial, cur, cut, spread, rival>>

\* Lines 259 - 263: the second proxy for chunk 0.  The pin is not asked for.
RivalCandidates ==
    IF job.available = {} THEN {NoProxy}
    ELSE IF Cardinality(job.available) > 1
         THEN job.available \ {assigned[1]}
         ELSE job.available

PickRival ==
    /\ phase = "race"
    /\ phase' = "done"
    /\ IF job.race
       THEN \E p \in RivalCandidates : rival' = p
       ELSE UNCHANGED rival
    /\ UNCHANGED <<job, first, last, partial, cur, ranges, assigned, cut, spread>>

Terminated == phase \in {"done", "unavailable"} /\ UNCHANGED vars

Next ==
    \/ ParseRange
    \/ BuildRange
    \/ BuildDone
    \/ AssignProxy
    \/ NoProxies
    \/ AssignDone
    \/ CutForProxy
    \/ FillRest
    \/ CutDone
    \/ PickRival
    \/ Terminated

\* The loops run to their end.
Spec == Init /\ [][Next]_vars /\ WF_vars(Next)

-----------------------------------------------------------------------------
(* Properties.                                                             *)

ByteRange == [from : Nat, to : Nat]

TypeOK ==
    /\ job \in Jobs
    /\ first \in Nat
    /\ last \in Nat
    /\ partial \in BOOLEAN
    /\ phase \in {"parse", "build", "assign", "cut", "race", "done",
                  "unavailable"}
    /\ cur \in Nat
    /\ ranges \in Seq(ByteRange)
    /\ assigned \in Seq(Proxies)
    /\ cut \in Seq(ByteRange)
    /\ spread \in Seq(Proxies)
    /\ rival \in Proxies \cup {NoProxy}

\* rs is a division of the bytes a .. b: it starts at a, ends at b, and each
\* range is not empty and starts right after the one before it.
Divides(rs, a, b) ==
    /\ rs # <<>>
    /\ rs[1].from = a
    /\ rs[Len(rs)].to = b
    /\ \A k \in DOMAIN rs : rs[k].from <= rs[k].to
    /\ \A k \in DOMAIN rs : k > 1 => rs[k].from = rs[k - 1].to + 1

\* Whatever sizes the proxies earn, the ranges that are fetched cover the bytes
\* asked for exactly once and in order, so the chunks laid end to end are the
\* body (lines 322 - 336 count on it).
RangesDivideBody == phase \in {"race", "done"} => Divides(ranges, first, last)

\* Every range has its own proxy, however early or late the rebalancing loop
\* stopped: assigned[i] exists and nothing is left over (the "Fix #2" of
\* apply_per_proxy_chunk_sizes).
ProxiesAligned == phase \in {"race", "done"} => Len(assigned) = Len(ranges)

\* The effective window lies within the resource, and it is the client's
\* window when the response says 206.
WindowWithinResource ==
    phase # "parse" =>
        /\ first <= last
        /\ last < job.length
        /\ IF partial
           THEN first = job.header[1] /\ last <= job.header[2]
           ELSE first = 0 /\ last = job.length - 1

\* With a window of at least one, consecutive chunks avoid the last
\* min(pool_size - 1, exclude_window) proxies ("Consecutive chunks avoid",
\* session_pool.py:89).  It is stated of the first division: rebalancing gives
\* the remaining bytes to one proxy.
NeighboursDiffer ==
    (job.pin = NoProxy /\ Window > 0 /\ phase \in {"assign", "cut"}) =>
        \A j, k \in DOMAIN assigned :
            (j < k /\ k - j <= Window) => assigned[j] # assigned[k]

\* The loops end: with a proxy to use the split is made.
SplitEnds ==
    <>(phase = "done" \/ (phase = "unavailable" /\ job.available = {}))
==============================================================================
