--------------------------- MODULE RangeSplitProofs ---------------------------
(***************************************************************************)
(* The division of a download into ranges is right for every length, chunk *)
(* size, Range header and set of proxies.                                  *)
(***************************************************************************)
EXTENDS RangeSplit, SequenceTheorems, FiniteSetTheorems, TLAPS

\* rs divides the bytes from a up to, not including, c.
DividesUpTo(rs, a, c) ==
    IF rs = <<>> THEN c = a ELSE Divides(rs, a, c - 1)

\* What each loop has done so far.
LoopInv ==
    /\ phase # "parse" => cur <= last + 1
    /\ phase = "parse" => ranges = <<>>
    /\ phase = "build" => DividesUpTo(ranges, first, cur)
    /\ phase = "cut" => DividesUpTo(cut, first, cur)
    /\ phase \in {"assign", "cut", "race", "done"} => Divides(ranges, first, last)

\* The proxies that go with the ranges.
AlignInv ==
    /\ phase = "assign" => Len(assigned) <= Len(ranges)
    /\ phase \in {"parse", "build"} => assigned = <<>>
    /\ phase \in {"parse", "build", "assign"} => cut = <<>>
    /\ phase = "cut" =>
          /\ assigned # <<>>
          /\ Len(spread) =
                IF Len(cut) > Len(assigned) THEN Len(cut) ELSE Len(assigned)
    /\ phase \in {"race", "done"} => Len(assigned) = Len(ranges)

SplitInv == TypeOK /\ WindowWithinResource /\ LoopInv /\ AlignInv

-----------------------------------------------------------------------------

\* The types of a request.
LEMMA JobType ==
    ASSUME job \in Jobs
    PROVE  /\ job.length \in Nat \ {0}
           /\ job.base \in Nat \ {0}
           /\ job.pin \in Proxies \cup {NoProxy}
           /\ job.available \subseteq Proxies
           /\ job.header # <<>> => job.header[1] \in Nat /\ job.header[2] \in Nat
<1>1. /\ job.length \in 1 .. MaxLength
      /\ job.base \in BaseChunkSizes
      /\ job.pin \in Proxies \cup {NoProxy}
      /\ job.available \subseteq Proxies
      /\ job.header \in {<<>>} \cup (0 .. MaxLength) \X (0 .. MaxLength)
    BY DEF Jobs
<1>2. ASSUME job.header # <<>>
      PROVE  job.header[1] \in Nat /\ job.header[2] \in Nat
    <2>1. job.header \in (0 .. MaxLength) \X (0 .. MaxLength)
        BY <1>1, <1>2
    <2>2. QED BY <2>1, SplitAssumption
<1>3. job.length \in Nat \ {0}
    <2>1. job.length \in 1 .. MaxLength /\ MaxLength \in Nat
        BY <1>1, SplitAssumption
    <2>2. QED BY <2>1
<1>4. job.base \in Nat \ {0}
    <2>1. job.base \in BaseChunkSizes /\ BaseChunkSizes \subseteq Nat \ {0}
        BY <1>1, SplitAssumption
    <2>2. QED BY <2>1
<1>5. QED BY <1>1, <1>2, <1>3, <1>4

\* One more piece carries the division to the end of the piece.
LEMMA PieceExtends ==
    ASSUME first \in Nat, last \in Nat, cur \in Nat, cur <= last,
           NEW rs \in Seq(ByteRange), DividesUpTo(rs, first, cur),
           NEW size \in Nat \ {0}
    PROVE  /\ Piece(size) \in ByteRange
           /\ Piece(size).to + 1 \in Nat
           /\ Piece(size).to + 1 <= last + 1
           /\ Append(rs, Piece(size)) \in Seq(ByteRange)
           /\ Len(Append(rs, Piece(size))) = Len(rs) + 1
           /\ DividesUpTo(Append(rs, Piece(size)), first, Piece(size).to + 1)
<1> DEFINE x == Piece(size)
           more == Append(rs, x)
<1>1. /\ x \in ByteRange
      /\ x.from = cur
      /\ x.to \in Nat
      /\ cur <= x.to
      /\ x.to <= last
    BY DEF Piece, SmallerOf, ByteRange
<1> HIDE DEF x
<1>2. /\ more \in Seq(ByteRange)
      /\ more # <<>>
      /\ Len(rs) \in Nat
      /\ Len(more) = Len(rs) + 1
      /\ \A k \in 1 .. Len(rs) : more[k] = rs[k]
      /\ more[Len(rs) + 1] = x
      /\ DOMAIN more = 1 .. Len(rs) + 1
      /\ DOMAIN rs = 1 .. Len(rs)
    BY <1>1, AppendProperties, LenProperties
<1> HIDE DEF more
<1>3. more[Len(more)].to = x.to
    BY <1>2
<1>4. more[1].from = first
    <2>1. CASE rs = <<>>
        BY <1>1, <1>2, <2>1 DEF DividesUpTo
    <2>2. CASE rs # <<>>
        <3>1. Len(rs) >= 1
            BY <1>2, <2>2, EmptySeq
        <3>2. QED BY <1>2, <2>2, <3>1 DEF DividesUpTo, Divides
    <2>3. QED BY <2>1, <2>2
<1>5. \A k \in DOMAIN more : more[k].from <= more[k].to
    BY <1>1, <1>2 DEF DividesUpTo, Divides
<1>6. ASSUME NEW k \in DOMAIN more, k > 1
      PROVE  more[k].from = more[k - 1].to + 1
    <2>1. rs # <<>>
        BY <1>2, <1>6
    <2>2. Divides(rs, first, cur - 1)
        BY <2>1 DEF DividesUpTo
    <2>3. CASE k = Len(rs) + 1
        <3>1. more[k].from = cur /\ more[k - 1] = rs[Len(rs)]
            BY <1>1, <1>2, <1>6, <2>3
        <3>2. rs[Len(rs)].to = cur - 1
            BY <2>2 DEF Divides
        <3>3. QED BY <3>1, <3>2
    <2>4. CASE k # Len(rs) + 1
        <3>1. k \in 1 .. Len(rs) /\ k - 1 \in 1 .. Len(rs)
            BY <1>2, <1>6, <2>4
        <3>2. QED BY <1>2, <1>6, <2>2, <3>1 DEF Divides
    <2>5. QED BY <2>3, <2>4
<1>7. DividesUpTo(more, first, x.to + 1)
    BY <1>1, <1>2, <1>3, <1>4, <1>5, <1>6 DEF DividesUpTo, Divides
<1>8. QED BY <1>1, <1>2, <1>7 DEF x, more

-----------------------------------------------------------------------------
(* Every step keeps SplitInv.                                              *)

\* No bytes are divided at first.
LEMMA SplitInit == Init => SplitInv
<1> SUFFICES ASSUME Init PROVE SplitInv
    OBVIOUS
<1>1. /\ <<>> \in Seq(ByteRange)
      /\ <<>> \in Seq(Proxies)
    BY EmptySeq
<1>2. QED BY <1>1
    DEF Init, SplitInv, TypeOK, WindowWithinResource, LoopInv, AlignInv

\* The effective window is not empty and lies within the resource.
LEMMA ParseStep ==
    ASSUME SplitInv, ParseRange
    PROVE  SplitInv'
<1> DEFINE to == SmallerOf(job.header[2], job.length - 1)
<1>1. /\ job.length \in Nat \ {0}
      /\ job.header # <<>> => job.header[1] \in Nat /\ job.header[2] \in Nat
    BY JobType DEF SplitInv, TypeOK
<1>2. /\ job' = job /\ cur' = first' /\ phase' = "build" /\ ranges' = ranges
      /\ partial' = (job.header # <<>> /\ job.header[1] <= to)
      /\ first' = IF partial' THEN job.header[1] ELSE 0
      /\ last' = IF partial' THEN to ELSE job.length - 1
    BY DEF ParseRange
<1>3. job.header # <<>> => /\ to \in Int
                           /\ to <= job.header[2]
                           /\ to <= job.length - 1
    BY <1>1 DEF SmallerOf
<1> HIDE DEF to
<1>4. /\ first' \in Nat
      /\ last' \in Nat
      /\ first' <= last'
      /\ last' < job.length
      /\ IF partial'
         THEN first' = job.header[1] /\ last' <= job.header[2]
         ELSE first' = 0 /\ last' = job.length - 1
    <2>1. CASE job.header # <<>> /\ job.header[1] <= to
        <3>1. partial'
            BY <1>2, <2>1
        <3>2. first' = job.header[1] /\ last' = to
            BY <1>2, <3>1, Zenon
        <3>3. QED BY <1>1, <1>3, <2>1, <3>1, <3>2
    <2>2. CASE ~(job.header # <<>> /\ job.header[1] <= to)
        <3>1. ~partial'
            BY <1>2, <2>2
        <3>2. first' = 0 /\ last' = job.length - 1
            BY <1>2, <3>1, Zenon
        <3>3. QED BY <1>1, <3>1, <3>2
    <2>3. QED BY <2>1, <2>2, Zenon
<1>5. partial' \in BOOLEAN
    BY <1>2
<1>6. ranges = <<>> /\ assigned = <<>> /\ cut = <<>>
    BY DEF SplitInv, LoopInv, AlignInv, ParseRange
<1>7. QED BY <1>2, <1>4, <1>5, <1>6
    DEF ParseRange, SplitInv, TypeOK, WindowWithinResource, LoopInv, AlignInv,
        DividesUpTo

\* build_ranges goes on from where its last range ended.
LEMMA BuildStep ==
    ASSUME SplitInv, BuildRange \/ BuildDone
    PROVE  SplitInv'
<1>1. CASE BuildRange
    <2>1. /\ first \in Nat /\ last \in Nat /\ cur \in Nat /\ cur <= last
          /\ ranges \in Seq(ByteRange)
          /\ DividesUpTo(ranges, first, cur)
          /\ job.base \in Nat \ {0}
        BY <1>1, JobType DEF BuildRange, SplitInv, TypeOK, LoopInv
    <2>2. /\ cur' \in Nat /\ cur' <= last + 1
          /\ ranges' \in Seq(ByteRange)
          /\ DividesUpTo(ranges', first, cur')
        BY <1>1, <2>1, PieceExtends DEF BuildRange
    <2>3. QED BY <1>1, <2>2
        DEF BuildRange, SplitInv, TypeOK, WindowWithinResource, LoopInv,
            AlignInv, DividesUpTo, Divides
<1>2. CASE BuildDone
    <2>1. cur = last + 1 /\ ranges # <<>>
        BY <1>2
        DEF BuildDone, SplitInv, TypeOK, LoopInv, WindowWithinResource,
            DividesUpTo
    <2>2. last \in Nat /\ cur - 1 = last
        BY <2>1 DEF SplitInv, TypeOK
    <2>3. Divides(ranges, first, last)
        BY <1>2, <2>1, <2>2 DEF BuildDone, SplitInv, LoopInv, DividesUpTo
    <2>4. Len(assigned) <= Len(ranges)
        BY <1>2, EmptySeq DEF BuildDone, SplitInv, AlignInv, TypeOK
    <2>5. QED BY <1>2, <2>3, <2>4
        DEF BuildDone, SplitInv, TypeOK, WindowWithinResource, LoopInv, AlignInv,
            Divides
<1>3. QED BY <1>1, <1>2

\* distribute_proxies picks proxies, never None.
LEMMA CandidatesAreProxies ==
    ASSUME job \in Jobs
    PROVE  Candidates \subseteq Proxies
BY JobType DEF Candidates

\* One more proxy, or none to be had.
LEMMA AssignStep ==
    ASSUME SplitInv, AssignProxy \/ NoProxies \/ AssignDone
    PROVE  SplitInv'
<1>1. CASE AssignProxy
    <2>1. PICK p \in Candidates : assigned' = Append(assigned, p)
        BY <1>1 DEF AssignProxy
    <2>2. p \in Proxies
        BY CandidatesAreProxies DEF SplitInv, TypeOK
    <2>3. assigned' \in Seq(Proxies) /\ Len(assigned') = Len(assigned) + 1
        BY <2>1, <2>2, AppendProperties DEF SplitInv, TypeOK
    <2>4. Len(assigned') <= Len(ranges)
        BY <1>1, <2>3, LenProperties DEF AssignProxy, SplitInv, TypeOK
    <2>5. QED BY <1>1, <2>3, <2>4
        DEF AssignProxy, SplitInv, TypeOK, WindowWithinResource, LoopInv,
            AlignInv, Divides
<1>2. CASE NoProxies
    BY <1>2
    DEF NoProxies, SplitInv, TypeOK, WindowWithinResource, LoopInv, AlignInv
<1>3. CASE AssignDone
    <2>1. /\ Len(assigned) = Len(ranges)
          /\ phase = "assign"
          /\ UNCHANGED <<job, first, last, partial, ranges, assigned, cut, rival>>
          /\ \/ phase' = "cut" /\ cur' = first /\ spread' = assigned
             \/ phase' = "race" /\ UNCHANGED <<cur, spread>>
        BY <1>3 DEF AssignDone
    <2>2. cut = <<>> /\ first \in Nat /\ last \in Nat /\ first <= last
        BY <2>1 DEF SplitInv, TypeOK, WindowWithinResource, AlignInv
    <2>3. ranges # <<>> /\ Divides(ranges, first, last)
        BY <2>1 DEF SplitInv, LoopInv, Divides
    <2>4. assigned # <<>> /\ Len(cut) = 0 /\ Len(assigned) \in Nat
        BY <2>1, <2>2, <2>3, EmptySeq, LenProperties DEF SplitInv, TypeOK
    <2>5. TypeOK' /\ WindowWithinResource'
        BY <2>1, <2>2 DEF SplitInv, TypeOK, WindowWithinResource
    <2>6. LoopInv'
        BY <2>1, <2>2, <2>3 DEF SplitInv, LoopInv, Divides, DividesUpTo
    <2>7. AlignInv'
        BY <2>1, <2>2, <2>4 DEF AlignInv
    <2>8. QED BY <2>5, <2>6, <2>7 DEF SplitInv
<1>4. QED BY <1>1, <1>2, <1>3

\* Rebalancing goes on from where its last range ended.
LEMMA CutStep ==
    ASSUME SplitInv, CutForProxy \/ FillRest
    PROVE  SplitInv'
<1>1. /\ first \in Nat /\ last \in Nat /\ cur \in Nat /\ cur <= last
      /\ phase = "cut" /\ phase' = phase
      /\ UNCHANGED <<job, first, last, partial, ranges, assigned, rival>>
      /\ cut \in Seq(ByteRange)
      /\ DividesUpTo(cut, first, cur)
      /\ assigned \in Seq(Proxies) /\ assigned # <<>> /\ spread \in Seq(Proxies)
      /\ Len(spread) =
            IF Len(cut) > Len(assigned) THEN Len(cut) ELSE Len(assigned)
    BY DEF CutForProxy, FillRest, SplitInv, TypeOK, LoopInv, AlignInv
<1>2. /\ Len(cut) \in Nat
      /\ Len(assigned) \in Nat \ {0}
      /\ Len(spread) \in Nat
      /\ spread # <<>>
    BY <1>1, EmptySeq, LenProperties
<1>3. PICK size \in Nat \ {0} :
         cut' = Append(cut, Piece(size)) /\ cur' = Piece(size).to + 1
    <2>1. CASE CutForProxy
        BY <2>1, SplitAssumption DEF CutForProxy
    <2>2. CASE FillRest
        BY <2>2, JobType DEF FillRest, SplitInv, TypeOK
    <2>3. QED BY <2>1, <2>2
<1>4. /\ cur' \in Nat /\ cur' <= last + 1
      /\ cut' \in Seq(ByteRange)
      /\ Len(cut') = Len(cut) + 1
      /\ DividesUpTo(cut', first, cur')
    BY <1>1, <1>3, PieceExtends
<1>5. /\ spread' \in Seq(Proxies)
      /\ Len(spread') =
            IF Len(cut') > Len(assigned) THEN Len(cut') ELSE Len(assigned)
    <2>1. CASE CutForProxy
        BY <1>1, <1>2, <1>4, <2>1 DEF CutForProxy
    <2>2. CASE FillRest
        <3>1. spread[Len(spread)] \in Proxies
            BY <1>1, <1>2, EmptySeq, ElementOfSeq
        <3>2. /\ spread' \in Seq(Proxies)
              /\ Len(spread') = Len(spread) + 1
            BY <1>1, <2>2, <3>1, AppendProperties DEF FillRest
        <3>3. Len(cut) >= Len(assigned)
            BY <2>2 DEF FillRest
        <3>4. QED BY <1>1, <1>2, <1>4, <3>2, <3>3
    <2>3. QED BY <2>1, <2>2
<1>6. TypeOK' /\ WindowWithinResource'
    BY <1>1, <1>4, <1>5 DEF SplitInv, TypeOK, WindowWithinResource
<1>7. LoopInv'
    BY <1>1, <1>4 DEF SplitInv, LoopInv, Divides, DividesUpTo
<1>8. AlignInv'
    BY <1>1, <1>5 DEF AlignInv
<1>9. QED BY <1>6, <1>7, <1>8 DEF SplitInv

\* The rebalanced division replaces the first, its proxies trimmed to fit.
LEMMA CutDoneStep ==
    ASSUME SplitInv, CutDone
    PROVE  SplitInv'
<1>1. /\ cur = last + 1 /\ first \in Nat /\ last \in Nat /\ first <= last
      /\ cut \in Seq(ByteRange)
      /\ spread \in Seq(Proxies)
      /\ assigned \in Seq(Proxies)
      /\ DividesUpTo(cut, first, cur)
      /\ Len(spread) =
            IF Len(cut) > Len(assigned) THEN Len(cut) ELSE Len(assigned)
    BY DEF CutDone, SplitInv, TypeOK, WindowWithinResource, LoopInv, AlignInv
<1>2. Divides(cut, first, last)
    <2>1. cut # <<>> /\ cur - 1 = last
        BY <1>1 DEF DividesUpTo
    <2>2. QED BY <1>1, <2>1 DEF DividesUpTo
<1>3. /\ assigned' \in Seq(Proxies)
      /\ Len(assigned') = Len(cut)
    <2>1. /\ Len(cut) \in Nat /\ Len(spread) \in Nat
          /\ Len(assigned) \in Nat
        BY <1>1, LenProperties
    <2>2. SmallerOf(Len(spread), Len(cut)) = Len(cut) /\ Len(cut) <= Len(spread)
        BY <1>1, <2>1 DEF SmallerOf
    <2>3. assigned' = SubSeq(spread, 1, Len(cut))
        BY <2>2 DEF CutDone
    <2>4. \A k \in 1 .. Len(cut) : spread[k] \in Proxies
        BY <1>1, <2>1, <2>2, ElementOfSeq
    <2>5. QED BY <2>1, <2>3, <2>4, SubSeqProperties
<1>4. QED BY <1>1, <1>2, <1>3
    DEF CutDone, SplitInv, TypeOK, WindowWithinResource, LoopInv, AlignInv,
        Divides

\* Picking a rival for chunk 0 changes neither ranges nor proxies.
LEMMA RivalStep ==
    ASSUME SplitInv, PickRival
    PROVE  SplitInv'
<1>1. RivalCandidates \subseteq Proxies \cup {NoProxy}
    BY JobType DEF RivalCandidates, SplitInv, TypeOK
<1>2. rival' \in Proxies \cup {NoProxy}
    BY <1>1 DEF PickRival, SplitInv, TypeOK
<1>3. QED BY <1>2
    DEF PickRival, SplitInv, TypeOK, WindowWithinResource, LoopInv, AlignInv,
        Divides

\* Every step keeps the invariant.
LEMMA SplitStep == SplitInv /\ [Next]_vars => SplitInv'
<1> SUFFICES ASSUME SplitInv, [Next]_vars PROVE SplitInv'
    OBVIOUS
<1>1. CASE UNCHANGED vars \/ Terminated
    <2>1. UNCHANGED vars
        BY <1>1 DEF Terminated
    <2>2. TypeOK' /\ WindowWithinResource'
        BY <2>1 DEF vars, SplitInv, TypeOK, WindowWithinResource
    <2>3. LoopInv'
        BY <2>1 DEF vars, SplitInv, LoopInv, DividesUpTo, Divides
    <2>4. AlignInv'
        BY <2>1 DEF vars, SplitInv, AlignInv
    <2>5. QED BY <2>2, <2>3, <2>4 DEF SplitInv
<1>2. QED
    BY <1>1, ParseStep, BuildStep, AssignStep, CutStep, CutDoneStep, RivalStep
    DEF Next

\* The invariant holds always.
LEMMA SplitAlways == Spec => []SplitInv
BY SplitInit, SplitStep, PTL DEF Spec

-----------------------------------------------------------------------------

\* Every range is a pair of byte positions and every proxy of a chunk a proxy, never
\* None (assigned[i] of distribute_proxies).
THEOREM SplitTypeCorrect == Spec => []TypeOK
<1>1. SplitInv => TypeOK
    BY DEF SplitInv
<1>2. QED BY <1>1, SplitAlways, PTL

\* The effective window lies within the resource, for every Range header.
THEOREM WindowWithinResourceSafe == Spec => []WindowWithinResource
<1>1. SplitInv => WindowWithinResource
    BY DEF SplitInv
<1>2. QED BY <1>1, SplitAlways, PTL

\* The ranges that are fetched divide the window, for every chunk size and
\* whatever sizes the proxies earn.
THEOREM RangesDivideBodySafe == Spec => []RangesDivideBody
<1>1. SplitInv => RangesDivideBody
    BY DEF SplitInv, LoopInv, RangesDivideBody
<1>2. QED BY <1>1, SplitAlways, PTL

\* Every range has its proxy.
THEOREM ProxiesAlignedSafe == Spec => []ProxiesAligned
<1>1. SplitInv => ProxiesAligned
    BY DEF SplitInv, AlignInv, ProxiesAligned
<1>2. QED BY <1>1, SplitAlways, PTL

\* The exclude set of a pick is smaller than the pool: the registry respects it.
LEMMA ExcludeSetFits ==
    ASSUME TypeOK, Window > 0
    PROVE  Cardinality(job.available) > Cardinality(RecentlyAssigned)
<1> DEFINE n == Len(assigned)
           J == {j \in DOMAIN assigned : j > n - Window}
           f == [k \in J |-> assigned[k]]
<1>1. /\ n \in Nat
      /\ DOMAIN assigned = 1 .. n
    BY LenProperties DEF TypeOK
<1>2. IsFiniteSet(job.available) /\ Cardinality(job.available) \in Nat
    BY SplitAssumption, JobType, FS_Subset, FS_CardinalityType DEF TypeOK
<1>3. Window \in Int /\ Window < Cardinality(job.available)
    <2>1. job.window \in 0 .. MaxWindow /\ MaxWindow \in Nat
        BY SplitAssumption DEF TypeOK, Jobs
    <2>2. QED BY <1>2, <2>1 DEF Window, SmallerOf
<1>4. IsFiniteSet(J) /\ Cardinality(J) \in Nat /\ Cardinality(J) <= Window
    <2>1. n - Window + 1 \in Int /\ n \in Int
        BY <1>1, <1>3
    <2>2. J \subseteq (n - Window + 1) .. n
        BY <1>1, <1>3
    <2>3. /\ IsFiniteSet((n - Window + 1) .. n)
          /\ Cardinality((n - Window + 1) .. n) = Window
        <3> DEFINE a == n - Window + 1
        <3>1. /\ IsFiniteSet(a .. n)
              /\ Cardinality(a .. n) = IF a > n THEN 0 ELSE n - a + 1
            BY <2>1, FS_Interval
        <3>2. n - a + 1 = Window /\ ~(a > n)
            BY <1>1, <1>3
        <3>3. QED BY <3>1, <3>2
    <2> HIDE DEF J
    <2>4. QED BY <2>2, <2>3, FS_Subset, FS_CardinalityType
<1>5. RecentlyAssigned = {assigned[k] : k \in J}
    BY DEF RecentlyAssigned
<1>6. f \in Surjection(J, RecentlyAssigned)
    BY <1>5 DEF Surjection
<1>7. /\ IsFiniteSet(RecentlyAssigned)
      /\ Cardinality(RecentlyAssigned) <= Cardinality(J)
    BY <1>4, <1>6, FS_Surjection
<1>8. Cardinality(RecentlyAssigned) \in Nat
    BY <1>7, FS_CardinalityType
<1>9. QED BY <1>2, <1>3, <1>4, <1>7, <1>8

\* One more proxy differs from those the window covers.
LEMMA NeighbourStep ==
    SplitInv /\ NeighboursDiffer /\ [Next]_vars => NeighboursDiffer'
<1> SUFFICES ASSUME SplitInv, NeighboursDiffer, [Next]_vars
             PROVE  NeighboursDiffer'
    OBVIOUS
<1>a. job' = job
    BY DEF Next, ParseRange, BuildRange, BuildDone, AssignProxy, NoProxies,
           AssignDone, CutForProxy, FillRest, CutDone, PickRival, Terminated, vars
<1>b. Window' = Window
    BY <1>a DEF Window
<1>1. CASE AssignProxy
    <2> SUFFICES ASSUME job.pin = NoProxy, Window > 0,
                        NEW j \in DOMAIN assigned', NEW k \in DOMAIN assigned',
                        j < k, k - j <= Window
                 PROVE  assigned'[j] # assigned'[k]
        BY <1>a, <1>b DEF NeighboursDiffer
    <2>1. PICK p \in Candidates : assigned' = Append(assigned, p)
        BY <1>1 DEF AssignProxy
    <2>2. p \in Proxies /\ assigned \in Seq(Proxies)
        BY <2>1, CandidatesAreProxies DEF SplitInv, TypeOK
    <2>3. /\ Len(assigned) \in Nat
          /\ DOMAIN assigned = 1 .. Len(assigned)
          /\ DOMAIN assigned' = 1 .. Len(assigned) + 1
          /\ \A m \in 1 .. Len(assigned) : assigned'[m] = assigned[m]
          /\ assigned'[Len(assigned) + 1] = p
        BY <2>1, <2>2, AppendProperties, LenProperties
    <2>4. p \notin RecentlyAssigned
        BY ExcludeSetFits DEF Candidates, SplitInv
    <2>5. Window \in Int
        <3>1. IsFiniteSet(job.available) /\ Cardinality(job.available) \in Nat
            BY SplitAssumption, JobType, FS_Subset, FS_CardinalityType
            DEF SplitInv, TypeOK
        <3>2. job.window \in 0 .. MaxWindow /\ MaxWindow \in Nat
            BY SplitAssumption DEF SplitInv, TypeOK, Jobs
        <3>3. QED BY <3>1, <3>2 DEF Window, SmallerOf
    <2>6. CASE k = Len(assigned) + 1
        <3>1. j \in DOMAIN assigned /\ j > Len(assigned) - Window
            BY <2>3, <2>5, <2>6
        <3>2. assigned[j] \in RecentlyAssigned
            BY <3>1 DEF RecentlyAssigned
        <3>3. QED BY <2>3, <2>4, <2>6, <3>1, <3>2
    <2>7. CASE k # Len(assigned) + 1
        <3>1. j \in DOMAIN assigned /\ k \in DOMAIN assigned
            BY <2>3, <2>7
        <3>2. QED BY <1>1, <2>3, <3>1 DEF NeighboursDiffer, AssignProxy
    <2>8. QED BY <2>6, <2>7
<1>2. CASE BuildDone
    BY <1>2 DEF BuildDone, NeighboursDiffer, SplitInv, AlignInv
<1>3. CASE AssignDone \/ CutForProxy \/ FillRest
    BY <1>3, <1>a, <1>b
    DEF AssignDone, CutForProxy, FillRest, NeighboursDiffer
<1>4. CASE ParseRange \/ BuildRange \/ NoProxies \/ CutDone \/ PickRival
    BY <1>4
    DEF ParseRange, BuildRange, NoProxies, CutDone, PickRival, NeighboursDiffer
<1>5. CASE UNCHANGED vars \/ Terminated
    BY <1>5, <1>b DEF Terminated, vars, NeighboursDiffer
<1>6. QED BY <1>1, <1>2, <1>3, <1>4, <1>5 DEF Next

\* With a window, chunks closer than the window go through different proxies,
\* whatever the registry picks.
THEOREM NeighboursDifferSafe == Spec => []NeighboursDiffer
<1>1. Init => NeighboursDiffer
    BY DEF Init, NeighboursDiffer
<1>2. QED BY <1>1, NeighbourStep, SplitAlways, PTL DEF Spec

-----------------------------------------------------------------------------
(* The loops end: what SplitEnds rests on.                                 *)

\* A division has at most as many ranges as bytes.
CountInv ==
    /\ phase = "build" => Len(ranges) <= cur - first
    /\ phase = "assign" => Len(ranges) <= job.length

\* Turns that are left, at most: each phase takes fewer than a turn for each
\* byte and one more.
Variant ==
    LET turns == job.length + 1 IN
    CASE phase = "parse"  -> 4 * turns
      [] phase = "build"  -> 3 * turns + (last + 1 - cur)
      [] phase = "assign" -> 2 * turns + (Len(ranges) - Len(assigned))
      [] phase = "cut"    -> turns + (last + 1 - cur)
      [] phase = "race"   -> 1
      [] OTHER            -> 0

\* The guards of the loops.
CanMove ==
    \/ phase \in {"parse", "build"}
    \/ /\ phase = "assign"
       /\ \/ Len(assigned) < Len(ranges) /\ Candidates # {}
          \/ job.pin = NoProxy /\ job.available = {}
          \/ Len(assigned) = Len(ranges)
    \/ /\ phase = "cut"
       /\ \/ Len(cut) < Len(assigned) /\ ScaledSizes # {}
          \/ Len(cut) >= Len(assigned) /\ spread # <<>>
          \/ cur > last
    \/ phase = "race" /\ (job.race => RivalCandidates # {})

NeverStuck == phase \notin {"done", "unavailable"} => CanMove

\* The numbers that the loops count with.
LEMMA LoopTypes ==
    ASSUME SplitInv
    PROVE  /\ job.length \in Nat \ {0} /\ job.base \in Nat \ {0}
           /\ first \in Nat /\ last \in Nat /\ cur \in Nat
           /\ Len(ranges) \in Nat /\ Len(assigned) \in Nat /\ Len(cut) \in Nat
           /\ phase # "parse" => /\ cur <= last + 1 /\ first <= last
                                 /\ last < job.length
BY JobType, LenProperties
DEF SplitInv, TypeOK, LoopInv, WindowWithinResource

\* A piece is not empty and does not go beyond the last byte.
LEMMA PieceAdvances ==
    ASSUME last \in Nat, cur \in Nat, cur <= last, NEW size \in Nat \ {0}
    PROVE  /\ Piece(size).to + 1 \in Nat
           /\ cur < Piece(size).to + 1
           /\ Piece(size).to + 1 <= last + 1
BY DEF Piece, SmallerOf

\* Every step keeps the count.
LEMMA CountStep == SplitInv /\ CountInv /\ [Next]_vars => CountInv'
<1> SUFFICES ASSUME SplitInv, CountInv, [Next]_vars PROVE CountInv'
    OBVIOUS
<1>1. CASE ParseRange
    <2>1. ranges' = <<>> /\ cur' = first' /\ phase' = "build"
        BY <1>1 DEF ParseRange, SplitInv, LoopInv
    <2>2. SplitInv'
        BY <1>1, ParseStep
    <2>3. first' \in Nat
        BY <2>2 DEF SplitInv, TypeOK
    <2>4. Len(ranges') = 0
        BY <2>1
    <2>5. \A n \in Nat : 0 <= n - n
        OBVIOUS
    <2>6. Len(ranges') <= cur' - first'
        BY <2>1, <2>3, <2>4, <2>5
    <2>7. QED BY <2>1, <2>6 DEF CountInv
<1>2. CASE BuildRange
    <2>1. /\ cur < cur' /\ cur' \in Nat
          /\ ranges' = Append(ranges, Piece(job.base))
          /\ UNCHANGED <<first, phase>>
        BY <1>2, LoopTypes, PieceAdvances DEF BuildRange
    <2>2. Len(ranges') = Len(ranges) + 1
        BY <1>2, <2>1, LoopTypes, PieceExtends
        DEF BuildRange, SplitInv, TypeOK, LoopInv
    <2>3. QED BY <1>2, <2>1, <2>2, LoopTypes DEF CountInv, BuildRange
<1>3. CASE BuildDone
    BY <1>3, LoopTypes DEF BuildDone, CountInv
<1>4. CASE AssignProxy \/ NoProxies \/ AssignDone
    BY <1>4 DEF AssignProxy, NoProxies, AssignDone, CountInv
<1>5. CASE CutForProxy \/ FillRest \/ CutDone \/ PickRival
    BY <1>5 DEF CutForProxy, FillRest, CutDone, PickRival, CountInv
<1>6. CASE UNCHANGED vars \/ Terminated
    BY <1>6 DEF Terminated, vars, CountInv
<1>7. QED BY <1>1, <1>2, <1>3, <1>4, <1>5, <1>6 DEF Next

\* The variant is a natural number.
LEMMA VariantType == SplitInv => Variant \in Nat
<1> SUFFICES ASSUME SplitInv PROVE Variant \in Nat
    OBVIOUS
<1>1. phase = "assign" => Len(assigned) <= Len(ranges)
    BY DEF SplitInv, AlignInv
<1>2. /\ job.length \in Nat /\ last \in Nat /\ cur \in Nat
      /\ Len(ranges) \in Nat /\ Len(assigned) \in Nat
      /\ phase # "parse" => cur <= last + 1
    BY LoopTypes
<1>3. \A n, l, c \in Nat : c <= l + 1 =>
         3 * (n + 1) + (l + 1 - c) \in Nat /\ (n + 1) + (l + 1 - c) \in Nat
    OBVIOUS
<1>4. \A n, a, b \in Nat : a <= b =>
         2 * (n + 1) + (b - a) \in Nat /\ 4 * (n + 1) \in Nat
    OBVIOUS
<1>5. CASE phase = "build"
    <2>1. Variant = 3 * (job.length + 1) + (last + 1 - cur)
        BY <1>5 DEF Variant
    <2>2. QED BY <1>2, <1>3, <1>5, <2>1
<1>6. CASE phase = "cut"
    <2>1. Variant = (job.length + 1) + (last + 1 - cur)
        BY <1>6 DEF Variant
    <2>2. QED BY <1>2, <1>3, <1>6, <2>1
<1>7. CASE phase = "assign"
    <2>1. Variant = 2 * (job.length + 1) + (Len(ranges) - Len(assigned))
        BY <1>7 DEF Variant
    <2>2. QED BY <1>1, <1>2, <1>4, <1>7, <2>1
<1>8. CASE phase = "parse"
    <2>1. Variant = 4 * (job.length + 1)
        BY <1>8 DEF Variant
    <2>2. QED BY <1>2, <2>1
<1>9. CASE phase \notin {"parse", "build", "assign", "cut"}
    <2>1. Variant \in {0, 1}
        BY <1>9 DEF Variant
    <2>2. QED BY <2>1
<1>10. QED BY <1>5, <1>6, <1>7, <1>8, <1>9

\* Every turn lowers it.
LEMMA TurnProgress ==
    ASSUME SplitInv, SplitInv', CountInv, Next, vars' # vars
    PROVE  Variant' < Variant
<1>1. CASE ParseRange
    <2>1. /\ phase = "parse" /\ phase' = "build" /\ job' = job
          /\ cur' = first' /\ first' \in Nat /\ last' \in Nat
          /\ first' <= last' /\ last' < job.length
        BY <1>1 DEF ParseRange, SplitInv, TypeOK, WindowWithinResource
    <2>2. Variant' = 3 * (job.length + 1) + (last' + 1 - first')
        BY <2>1 DEF Variant
    <2>3. Variant = 4 * (job.length + 1)
        BY <2>1 DEF Variant
    <2>4. job.length \in Nat
        BY LoopTypes
    <2>5. 3 * (job.length + 1) + (last' + 1 - first') < 4 * (job.length + 1)
        BY <2>1, <2>4
    <2>6. QED BY <2>2, <2>3, <2>5
<1>2. CASE BuildRange
    <2>1. cur < cur' /\ cur' \in Nat
        BY <1>2, LoopTypes, PieceAdvances DEF BuildRange
    <2>2. phase = "build" /\ UNCHANGED <<job, last, phase>>
        BY <1>2 DEF BuildRange
    <2>3. /\ Variant = 3 * (job.length + 1) + (last + 1 - cur)
          /\ Variant' = 3 * (job.length + 1) + (last + 1 - cur')
        BY <2>2 DEF Variant
    <2>4. job.length \in Nat /\ last \in Nat /\ cur \in Nat
        BY LoopTypes
    <2>5. 3 * (job.length + 1) + (last + 1 - cur') <
              3 * (job.length + 1) + (last + 1 - cur)
        BY <2>1, <2>4
    <2>6. QED BY <2>3, <2>5
<1>3. CASE BuildDone
    <2>1. /\ phase = "build" /\ phase' = "assign" /\ assigned = <<>>
          /\ UNCHANGED <<job, ranges, assigned>>
        BY <1>3 DEF BuildDone, SplitInv, AlignInv
    <2>2. Len(ranges) <= job.length
        BY <1>3, LoopTypes DEF BuildDone, CountInv
    <2>3. /\ Variant = 3 * (job.length + 1) + (last + 1 - cur)
          /\ Variant' = 2 * (job.length + 1) + (Len(ranges) - Len(assigned))
        BY <2>1 DEF Variant
    <2>4. last + 1 - cur >= 0
        BY <1>3, LoopTypes DEF BuildDone
    <2>5. 2 * (job.length + 1) + (Len(ranges) - Len(assigned)) <
              3 * (job.length + 1) + (last + 1 - cur)
        <3>1. /\ job.length \in Nat /\ last \in Nat /\ cur \in Nat
              /\ Len(ranges) \in Nat /\ Len(assigned) = 0
            BY <2>1, LoopTypes
        <3>2. Len(ranges) - 0 <= job.length
            BY <2>2, <3>1
        <3>3. QED BY <2>4, <3>1, <3>2
    <2>6. QED BY <2>3, <2>5
<1>4. CASE AssignProxy
    <2>1. PICK p \in Candidates : assigned' = Append(assigned, p)
        BY <1>4 DEF AssignProxy
    <2>2. p \in Proxies
        BY CandidatesAreProxies DEF SplitInv, TypeOK
    <2>3. Len(assigned') = Len(assigned) + 1
        BY <2>1, <2>2, AppendProperties DEF SplitInv, TypeOK
    <2>4. phase = "assign" /\ UNCHANGED <<job, ranges, phase>>
        BY <1>4 DEF AssignProxy
    <2>5. /\ Variant = 2 * (job.length + 1) + (Len(ranges) - Len(assigned))
          /\ Variant' = 2 * (job.length + 1) + (Len(ranges) - Len(assigned'))
        BY <2>4 DEF Variant
    <2>6. 2 * (job.length + 1) + (Len(ranges) - (Len(assigned) + 1)) <
              2 * (job.length + 1) + (Len(ranges) - Len(assigned))
        BY LoopTypes
    <2>7. QED BY <2>3, <2>5, <2>6
<1>5. CASE NoProxies \/ AssignDone
    <2>1. phase = "assign" /\ Len(assigned) <= Len(ranges)
        BY <1>5 DEF NoProxies, AssignDone, SplitInv, AlignInv
    <2>2. Variant = 2 * (job.length + 1) + (Len(ranges) - Len(assigned))
        BY <2>1 DEF Variant
    <2>3. CASE phase' = "cut"
        <3>1. /\ cur' = first /\ UNCHANGED <<job, last>>
            BY <1>5, <2>3 DEF NoProxies, AssignDone
        <3>2. Variant' = (job.length + 1) + (last + 1 - first)
            BY <2>3, <3>1 DEF Variant
        <3>3. (job.length + 1) + (last + 1 - first) <
                  2 * (job.length + 1) + (Len(ranges) - Len(assigned))
            <4>1. \A n, f, l, a, b \in Nat : a <= b /\ f <= l /\ l < n =>
                     (n + 1) + (l + 1 - f) < 2 * (n + 1) + (b - a)
                OBVIOUS
            <4>2. /\ job.length \in Nat /\ first \in Nat /\ last \in Nat
                  /\ Len(assigned) \in Nat /\ Len(ranges) \in Nat
                  /\ first <= last /\ last < job.length
                BY <2>1, LoopTypes
            <4>3. QED BY <2>1, <4>1, <4>2
        <3>4. QED BY <2>2, <3>2, <3>3
    <2>4. CASE phase' \in {"race", "unavailable"}
        <3>1. Variant' \in {0, 1}
            BY <2>4 DEF Variant
        <3>2. \A n, a, b \in Nat : a <= b => 1 < 2 * (n + 1) + (b - a)
            OBVIOUS
        <3>3. /\ job.length \in Nat /\ Len(assigned) \in Nat
              /\ Len(ranges) \in Nat
            BY LoopTypes
        <3>4. 1 < Variant
            BY <2>1, <2>2, <3>2, <3>3
        <3>5. Variant \in Int
            BY <2>2, <3>3
        <3>6. QED BY <3>1, <3>4, <3>5
    <2>5. QED BY <1>5, <2>3, <2>4 DEF NoProxies, AssignDone
<1>6. CASE CutForProxy \/ FillRest
    <2>1. PICK size \in Nat \ {0} : cur' = Piece(size).to + 1
        <3>1. CASE CutForProxy
            BY <3>1, SplitAssumption DEF CutForProxy
        <3>2. CASE FillRest
            BY <3>2, LoopTypes DEF FillRest
        <3>3. QED BY <1>6, <3>1, <3>2
    <2>2. cur <= last /\ phase = "cut" /\ UNCHANGED <<job, last, phase>>
        BY <1>6 DEF CutForProxy, FillRest
    <2>3. cur < cur' /\ cur' \in Nat
        BY <2>1, <2>2, LoopTypes, PieceAdvances
    <2>4. /\ Variant = (job.length + 1) + (last + 1 - cur)
          /\ Variant' = (job.length + 1) + (last + 1 - cur')
        BY <2>2 DEF Variant
    <2>5. (job.length + 1) + (last + 1 - cur') < (job.length + 1) + (last + 1 - cur)
        <3>1. \A n, l, c, d \in Nat : c < d =>
                 (n + 1) + (l + 1 - d) < (n + 1) + (l + 1 - c)
            OBVIOUS
        <3>2. job.length \in Nat /\ last \in Nat /\ cur \in Nat
            BY LoopTypes
        <3>3. QED BY <2>3, <3>1, <3>2
    <2>6. QED BY <2>4, <2>5
<1>7. CASE CutDone
    <2>1. phase = "cut" /\ phase' = "race"
        BY <1>7 DEF CutDone
    <2>2. Variant = (job.length + 1) + (last + 1 - cur) /\ Variant' = 1
        BY <2>1 DEF Variant
    <2>3. last + 1 - cur >= 0
        BY <2>1, LoopTypes
    <2>4. QED BY <2>2, <2>3, LoopTypes
<1>8. CASE PickRival
    <2>1. phase = "race" /\ phase' = "done"
        BY <1>8 DEF PickRival
    <2>2. QED BY <2>1 DEF Variant
<1>9. QED
    BY <1>1, <1>2, <1>3, <1>4, <1>5, <1>6, <1>7, <1>8 DEF Next, Terminated

\* build_ranges, distribute_proxies and the two loops of
\* apply_per_proxy_chunk_sizes take finitely many turns, fewer than
\* 4 * (content_length + 1), whatever the chunk sizes and the speeds.
THEOREM SplitMakesProgress ==
    Spec => [](Variant \in Nat) /\ [][Variant' < Variant]_vars
<1>1. Init => CountInv
    BY DEF Init, CountInv
<1>2. SplitInv /\ SplitInv' /\ CountInv /\ [Next]_vars => [Variant' < Variant]_vars
    BY TurnProgress
<1>3. QED
    BY <1>1, <1>2, CountStep, VariantType, SplitAlways, PTL DEF Spec

\* With a proxy left when something is excluded, the pick is not empty.
LEMMA PickNotEmpty ==
    ASSUME NEW S, IsFiniteSet(S), S # {}, NEW X, IsFiniteSet(X),
           Cardinality(S) > Cardinality(X)
    PROVE  S \ X # {}
<1>1. SUFFICES ASSUME S \subseteq X PROVE FALSE
    OBVIOUS
<1>2. Cardinality(S) <= Cardinality(X)
    BY <1>1, FS_Subset
<1>3. Cardinality(S) \in Nat /\ Cardinality(X) \in Nat
    BY FS_CardinalityType
<1>4. QED BY <1>2, <1>3

\* No loop stops in the middle: a pick that finds no proxy, or a range without
\* one, never leaves the split without a next step.  With SplitMakesProgress the
\* split is made or answered with 503.
THEOREM SplitNeverStuck == Spec => []NeverStuck
<1>1. SplitInv => NeverStuck
    <2> SUFFICES ASSUME SplitInv, phase \notin {"done", "unavailable"}
                 PROVE  CanMove
        BY DEF NeverStuck
    <2>1. /\ phase \in {"parse", "build", "assign", "cut", "race"}
          /\ IsFiniteSet(job.available)
          /\ ScaledSizes # {}
        BY SplitAssumption, JobType, FS_Subset DEF SplitInv, TypeOK
    <2>2. CASE phase = "assign"
        <3>1. Len(assigned) <= Len(ranges)
            BY <2>2 DEF SplitInv, AlignInv
        <3>2. CASE job.pin # NoProxy
            <4>1. Candidates # {}
                BY <3>2 DEF Candidates
            <4>2. QED BY <2>2, <3>1, <4>1, LoopTypes DEF CanMove
        <3>3. CASE job.pin = NoProxy /\ job.available # {}
            <4>1. IsFiniteSet(RecentlyAssigned)
                <5>1. RecentlyAssigned \subseteq Proxies
                    BY ElementOfSeq, LenProperties
                    DEF RecentlyAssigned, SplitInv, TypeOK
                <5>2. QED BY <5>1, SplitAssumption, FS_Subset
            <4>2. Candidates # {}
                BY <2>1, <3>3, <4>1, PickNotEmpty DEF Candidates
            <4>3. QED BY <2>2, <3>1, <4>2, LoopTypes DEF CanMove
        <3>4. CASE job.pin = NoProxy /\ job.available = {}
            BY <2>2, <3>4 DEF CanMove
        <3>5. QED BY <3>2, <3>3, <3>4
    <2>3. CASE phase = "cut"
        <3>1. spread # <<>>
            <4>1. assigned # <<>> /\ assigned \in Seq(Proxies)
                BY <2>3 DEF SplitInv, AlignInv, TypeOK
            <4>2. Len(assigned) > 0
                BY <4>1, EmptySeq, LenProperties
            <4>3. Len(spread) > 0
                BY <2>3, <4>2, LoopTypes DEF SplitInv, AlignInv
            <4>4. QED BY <4>3, EmptySeq
        <3>2. QED BY <2>1, <2>3, <3>1, LoopTypes DEF CanMove
    <2>4. CASE phase = "race"
        <3>1. RivalCandidates # {}
            <4>1. CASE Cardinality(job.available) > 1
                <5>1. IsFiniteSet({assigned[1]}) /\ Cardinality({assigned[1]}) = 1
                    BY FS_Singleton
                <5>2. job.available # {} =>
                          job.available \ {assigned[1]} # {}
                    BY <2>1, <4>1, <5>1, PickNotEmpty
                <5>3. QED BY <4>1, <5>2 DEF RivalCandidates
            <4>2. CASE ~ (Cardinality(job.available) > 1)
                BY <4>2 DEF RivalCandidates
            <4>3. QED BY <4>1, <4>2
        <3>2. QED BY <2>4, <3>1 DEF CanMove
    <2>5. QED BY <2>1, <2>2, <2>3, <2>4 DEF CanMove
<1>2. QED
    BY <1>1, SplitAlways, PTL
==============================================================================
