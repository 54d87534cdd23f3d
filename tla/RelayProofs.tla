----------------------------- MODULE RelayProofs -----------------------------
(***************************************************************************)
(* The relay loses, repeats and reorders nothing, and does not hang up     *)
(* while both ends can write: proofs for clients and servers that write    *)
(* any number of segments, whatever they ask for and however the bytes are *)
(* cut into reads.                                                         *)
(***************************************************************************)
EXTENDS Relay, SequenceTheorems, TLAPS

-----------------------------------------------------------------------------
(* Runs of segments.                                                       *)

\* Segments(a, b) are the numbers a .. b in order.
LEMMA SegmentsAre ==
    \A a \in Nat \ {0}, b \in Nat :
       a <= b + 1 =>
          /\ Segments(a, b) \in Seq(Nat)
          /\ Len(Segments(a, b)) = (b + 1) - a
          /\ \A i \in 1 .. (b + 1) - a : Segments(a, b)[i] = a + i - 1
<1> SUFFICES ASSUME NEW a \in Nat \ {0}, NEW b \in Nat, a <= b + 1
             PROVE  /\ Segments(a, b) \in Seq(Nat)
                    /\ Len(Segments(a, b)) = (b + 1) - a
                    /\ \A i \in 1 .. (b + 1) - a : Segments(a, b)[i] = a + i - 1
  OBVIOUS
<1>1. (b + 1) - a \in Nat
  OBVIOUS
<1>2. \A i \in 1 .. (b + 1) - a : a + i - 1 \in Nat
  OBVIOUS
<1>3. QED
  BY <1>1, <1>2 DEF Segments

\* There are none when the first would come after the last.
LEMMA NoSegments ==
    \A a \in Nat \ {0}, b \in Nat : b < a => Segments(a, b) = <<>>
<1> SUFFICES ASSUME NEW a \in Nat \ {0}, NEW b \in Nat, b < a
             PROVE  Segments(a, b) = <<>>
  OBVIOUS
<1>1. 1 .. (b + 1) - a = {}
  OBVIOUS
<1>2. QED
  BY <1>1 DEF Segments

\* Sequences with the same elements are the same.
LEMMA SameElements ==
    \A s \in Seq(Nat), t \in Seq(Nat) :
       Len(s) = Len(t) /\ (\A i \in 1 .. Len(s) : s[i] = t[i]) => s = t
  BY SeqEqual

\* One more segment is written.
LEMMA SegmentsAppend ==
    \A a \in Nat \ {0}, b \in Nat :
       a <= b + 1 => Append(Segments(a, b), b + 1) = Segments(a, b + 1)
<1> SUFFICES ASSUME NEW a \in Nat \ {0}, NEW b \in Nat, a <= b + 1
             PROVE  Append(Segments(a, b), b + 1) = Segments(a, b + 1)
  OBVIOUS
<1> DEFINE s == Segments(a, b)
           t == Segments(a, b + 1)
           r == Append(s, b + 1)
<1>1. /\ s \in Seq(Nat) /\ Len(s) = (b + 1) - a
      /\ \A i \in 1 .. Len(s) : s[i] = a + i - 1
  BY SegmentsAre
<1>2. /\ t \in Seq(Nat) /\ Len(t) = (b + 2) - a
      /\ \A i \in 1 .. Len(t) : t[i] = a + i - 1
  BY SegmentsAre
<1> HIDE DEF s, t
<1>3. /\ r \in Seq(Nat) /\ Len(r) = Len(s) + 1
      /\ \A i \in 1 .. Len(s) : r[i] = s[i]
      /\ r[Len(s) + 1] = b + 1
  BY <1>1, AppendProperties
<1> HIDE DEF r
<1>4. \A i \in 1 .. Len(r) : r[i] = t[i]
  <2> TAKE i \in 1 .. Len(r)
  <2>1. i \in 1 .. Len(t) /\ t[i] = a + i - 1
    BY <1>1, <1>2, <1>3
  <2>2. CASE i \in 1 .. Len(s)
    BY <1>1, <1>3, <2>1, <2>2
  <2>3. CASE i = Len(s) + 1
    BY <1>1, <1>3, <2>1, <2>3
  <2>4. QED
    BY <1>1, <1>3, <2>2, <2>3
<1>5. r = t
  <2>1. Len(r) = Len(t)
    BY <1>1, <1>2, <1>3
  <2>2. QED
    BY <1>2, <1>3, <1>4, <2>1, SameElements
<1>6. QED
  BY <1>5 DEF r, s, t

\* One segment is read.
LEMMA SegmentsTail ==
    \A a \in Nat \ {0}, b \in Nat :
       Segments(a, b) # <<>> =>
          a <= b /\ Tail(Segments(a, b)) = Segments(a + 1, b)
<1> SUFFICES ASSUME NEW a \in Nat \ {0}, NEW b \in Nat, Segments(a, b) # <<>>
             PROVE  a <= b /\ Tail(Segments(a, b)) = Segments(a + 1, b)
  OBVIOUS
<1> DEFINE s == Segments(a, b)
           t == Segments(a + 1, b)
           r == Tail(s)
<1>1. a <= b
  BY NoSegments
<1>2. /\ s \in Seq(Nat) /\ Len(s) = (b + 1) - a
      /\ \A i \in 1 .. Len(s) : s[i] = a + i - 1
  BY <1>1, SegmentsAre
<1>3. /\ t \in Seq(Nat) /\ Len(t) = b - a
      /\ \A i \in 1 .. Len(t) : t[i] = a + i
  <2>1. a + 1 \in Nat \ {0} /\ a + 1 <= b + 1
    BY <1>1
  <2>2. /\ t \in Seq(Nat) /\ Len(t) = (b + 1) - (a + 1)
        /\ \A i \in 1 .. (b + 1) - (a + 1) : t[i] = (a + 1) + i - 1
    BY <2>1, SegmentsAre
  <2> HIDE DEF t
  <2>3. QED
    BY <2>2
<1>4. s # <<>>
  OBVIOUS
<1> HIDE DEF s, t
<1>5. /\ r \in Seq(Nat) /\ Len(r) = Len(s) - 1
      /\ \A i \in 1 .. Len(r) : r[i] = s[i + 1]
  BY <1>2, <1>4, HeadTailProperties
<1> HIDE DEF r
<1>6. Len(r) = Len(t)
  BY <1>1, <1>2, <1>3, <1>5
<1>7. \A i \in 1 .. Len(r) : r[i] = t[i]
  <2> TAKE i \in 1 .. Len(r)
  <2>1. i + 1 \in 1 .. Len(s) /\ i \in 1 .. Len(t)
    BY <1>1, <1>2, <1>3, <1>6
  <2>2. r[i] = s[i + 1] /\ s[i + 1] = a + (i + 1) - 1 /\ t[i] = a + i
    BY <1>2, <1>3, <1>5, <2>1
  <2>3. QED
    BY <2>2
<1>8. r = t
  BY <1>3, <1>5, <1>6, <1>7, SameElements
<1>9. QED
  BY <1>1, <1>8 DEF r, s, t

\* What follows a run continues it.
LEMMA SegmentsConcat ==
    \A a \in Nat \ {0}, b \in Nat, c \in Nat :
       a <= b + 1 /\ b <= c =>
          Segments(a, b) \o Segments(b + 1, c) = Segments(a, c)
<1> SUFFICES ASSUME NEW a \in Nat \ {0}, NEW b \in Nat, NEW c \in Nat,
                    a <= b + 1, b <= c
             PROVE  Segments(a, b) \o Segments(b + 1, c) = Segments(a, c)
  OBVIOUS
<1> DEFINE s == Segments(a, b)
           t == Segments(b + 1, c)
           r == Segments(a, c)
           q == s \o t
<1>1. /\ s \in Seq(Nat) /\ Len(s) = (b + 1) - a
      /\ \A i \in 1 .. Len(s) : s[i] = a + i - 1
  BY SegmentsAre
<1>2. /\ t \in Seq(Nat) /\ Len(t) = c - b
      /\ \A i \in 1 .. Len(t) : t[i] = b + i
  <2>1. b + 1 \in Nat \ {0} /\ b + 1 <= c + 1
    OBVIOUS
  <2>2. /\ t \in Seq(Nat) /\ Len(t) = (c + 1) - (b + 1)
        /\ \A i \in 1 .. (c + 1) - (b + 1) : t[i] = (b + 1) + i - 1
    BY <2>1, SegmentsAre
  <2> HIDE DEF t
  <2>3. QED
    BY <2>2
<1>3. /\ r \in Seq(Nat) /\ Len(r) = (c + 1) - a
      /\ \A i \in 1 .. Len(r) : r[i] = a + i - 1
  <2>1. a <= c + 1
    OBVIOUS
  <2>2. QED
    BY <2>1, SegmentsAre
<1> HIDE DEF s, t, r
<1>4. /\ q \in Seq(Nat)
      /\ Len(q) = Len(s) + Len(t)
      /\ \A i \in 1 .. Len(s) + Len(t) :
            q[i] = IF i <= Len(s) THEN s[i] ELSE t[i - Len(s)]
  BY <1>1, <1>2, ConcatProperties
<1> HIDE DEF q
<1>5. Len(q) = Len(r)
  BY <1>1, <1>2, <1>3, <1>4
<1>6. \A i \in 1 .. Len(q) : q[i] = r[i]
  <2> TAKE i \in 1 .. Len(q)
  <2>1. i \in 1 .. Len(r) /\ r[i] = a + i - 1
    BY <1>3, <1>5
  <2>2. CASE i <= Len(s)
    <3>1. i \in 1 .. Len(s)
      BY <1>1, <2>1, <2>2
    <3>2. QED
      BY <1>1, <1>2, <1>4, <2>1, <2>2, <3>1
  <2>3. CASE ~ i <= Len(s)
    <3>1. i - Len(s) \in 1 .. Len(t)
      BY <1>1, <1>2, <1>4, <2>1, <2>3
    <3>2. t[i - Len(s)] = b + (i - Len(s))
      BY <1>2, <3>1
    <3>3. q[i] = t[i - Len(s)]
      BY <1>1, <1>2, <1>4, <2>3
    <3>4. QED
      BY <1>1, <2>1, <3>2, <3>3
  <2>4. QED
    BY <2>2, <2>3
<1>7. q = r
  BY <1>3, <1>4, <1>5, <1>6, SameElements
<1>8. QED
  BY <1>7 DEF q, r, s, t

\* A sequence is a prefix of every sequence that begins with it.
LEMMA BeginsWith ==
    \A s \in Seq(Nat), t \in Seq(Nat) : IsPrefix(s, s \o t)
<1> SUFFICES ASSUME NEW s \in Seq(Nat), NEW t \in Seq(Nat)
             PROVE  IsPrefix(s, s \o t)
  OBVIOUS
<1> DEFINE q == s \o t
<1>1. /\ q \in Seq(Nat)
      /\ Len(q) = Len(s) + Len(t)
      /\ \A i \in 1 .. Len(s) + Len(t) :
            q[i] = IF i <= Len(s) THEN s[i] ELSE t[i - Len(s)]
  BY ConcatProperties
<1>2. Len(s) \in Nat /\ Len(t) \in Nat
  BY LenProperties
<1> HIDE DEF q
<1>3. SubSeq(s, 1, Len(s)) = SubSeq(q, 1, Len(s))
  BY <1>1, <1>2
<1>4. Len(s) <= Len(q)
  BY <1>1, <1>2
<1>5. IsPrefix(s, q)
  BY <1>3, <1>4 DEF IsPrefix
<1>6. QED
  BY <1>5 DEF q

\* Grouping does not matter.
LEMMA Regroup ==
    \A s \in Seq(Nat), t \in Seq(Nat), u \in Seq(Nat) :
       (s \o t) \o u = s \o (t \o u)
<1> TAKE s \in Seq(Nat), t \in Seq(Nat), u \in Seq(Nat)
<1> DEFINE st == s \o t
           tu == t \o u
           p == st \o u
           q == s \o tu
<1>1. /\ st \in Seq(Nat) /\ Len(st) = Len(s) + Len(t)
      /\ \A i \in 1 .. Len(s) + Len(t) :
            st[i] = IF i <= Len(s) THEN s[i] ELSE t[i - Len(s)]
  BY ConcatProperties
<1>2. /\ tu \in Seq(Nat) /\ Len(tu) = Len(t) + Len(u)
      /\ \A i \in 1 .. Len(t) + Len(u) :
            tu[i] = IF i <= Len(t) THEN t[i] ELSE u[i - Len(t)]
  BY ConcatProperties
<1> HIDE DEF st, tu
<1>3. /\ p \in Seq(Nat) /\ Len(p) = Len(st) + Len(u)
      /\ \A i \in 1 .. Len(st) + Len(u) :
            p[i] = IF i <= Len(st) THEN st[i] ELSE u[i - Len(st)]
  <2>1. st \in Seq(Nat)
    BY <1>1
  <2>2. QED
    BY <2>1, ConcatProperties
<1>4. /\ q \in Seq(Nat) /\ Len(q) = Len(s) + Len(tu)
      /\ \A i \in 1 .. Len(s) + Len(tu) :
            q[i] = IF i <= Len(s) THEN s[i] ELSE tu[i - Len(s)]
  <2>1. tu \in Seq(Nat)
    BY <1>2
  <2>2. QED
    BY <2>1, ConcatProperties
<1>5. Len(s) \in Nat /\ Len(t) \in Nat /\ Len(u) \in Nat
  BY LenProperties
<1> HIDE DEF p, q
<1>6. Len(p) = Len(q)
  BY <1>1, <1>2, <1>3, <1>4, <1>5
<1>7. \A i \in 1 .. Len(p) : p[i] = q[i]
  <2> TAKE i \in 1 .. Len(p)
  <2>1. i \in 1 .. Len(s) + Len(t) + Len(u)
    BY <1>1, <1>3, <1>5
  <2>a. i \in 1 .. Len(s) + Len(tu)
    BY <1>2, <1>5, <2>1
  <2>b. q[i] = IF i <= Len(s) THEN s[i] ELSE tu[i - Len(s)]
    BY <1>4, <2>a
  <2>2. CASE i <= Len(s)
    <3>1. i \in 1 .. Len(s) + Len(t) /\ i <= Len(st) /\ i \in 1 .. Len(st) + Len(u)
      BY <1>1, <1>5, <2>1, <2>2
    <3>2. p[i] = st[i] /\ st[i] = s[i]
      BY <1>1, <1>3, <2>2, <3>1
    <3>3. QED
      BY <2>2, <2>b, <3>2
  <2>3. CASE ~ i <= Len(s) /\ i <= Len(s) + Len(t)
    <3>1. p[i] = t[i - Len(s)]
      <4>1. i \in 1 .. Len(s) + Len(t) /\ i \in 1 .. Len(st) + Len(u) /\ i <= Len(st)
        BY <1>1, <1>5, <2>1, <2>3
      <4>2. p[i] = st[i]
        BY <1>3, <4>1
      <4>3. st[i] = t[i - Len(s)]
        BY <1>1, <2>3, <4>1
      <4>4. QED
        BY <4>2, <4>3
    <3>2. i - Len(s) \in 1 .. Len(t) + Len(u) /\ i - Len(s) <= Len(t)
      BY <1>5, <2>1, <2>3
    <3>3. tu[i - Len(s)] = t[i - Len(s)]
      BY <1>2, <3>2
    <3>4. QED
      BY <2>3, <2>b, <3>1, <3>3
  <2>4. CASE ~ i <= Len(s) + Len(t)
    <3>1. p[i] = u[i - (Len(s) + Len(t))]
      <4>1. i \in 1 .. Len(st) + Len(u) /\ ~ i <= Len(st)
        BY <1>1, <1>5, <2>1, <2>4
      <4>2. QED
        BY <1>1, <1>3, <4>1
    <3>2. i - Len(s) \in 1 .. Len(t) + Len(u) /\ ~ i - Len(s) <= Len(t) /\ ~ i <= Len(s)
      BY <1>5, <2>1, <2>4
    <3>3. tu[i - Len(s)] = u[(i - Len(s)) - Len(t)]
      BY <1>2, <3>2
    <3>4. (i - Len(s)) - Len(t) = i - (Len(s) + Len(t))
      BY <1>5, <2>1
    <3>5. QED
      BY <2>b, <3>1, <3>2, <3>3, <3>4
  <2>5. QED
    BY <2>1, <2>2, <2>3, <2>4
<1>8. p = q
  BY <1>3, <1>4, <1>6, <1>7, SameElements
<1>9. QED
  BY <1>8 DEF p, q, st, tu

\* An earlier part of a run is a prefix of the run, after a greeting too.
LEMMA SegmentsPrefix ==
    \A g \in Seq(Nat), a \in Nat \ {0}, k \in Nat, n \in Nat :
       a <= k + 1 /\ (k <= n \/ k + 1 = a) =>
          IsPrefix(g \o Segments(a, k), g \o Segments(a, n))
<1> SUFFICES ASSUME NEW g \in Seq(Nat), NEW a \in Nat \ {0}, NEW k \in Nat,
                    NEW n \in Nat, a <= k + 1, k <= n \/ k + 1 = a
             PROVE  IsPrefix(g \o Segments(a, k), g \o Segments(a, n))
  OBVIOUS
<1> DEFINE s == Segments(a, k)
           r == Segments(a, n)
<1>1. s \in Seq(Nat)
  BY SegmentsAre
<1>2. r \in Seq(Nat)
  BY SegmentsAre, NoSegments, EmptySeq
<1>3. \E t \in Seq(Nat) : r = s \o t
  <2>1. CASE k <= n
    <3>1. k + 1 \in Nat \ {0} /\ k + 1 <= n + 1
      BY <2>1
    <3>2. Segments(k + 1, n) \in Seq(Nat)
      BY <3>1, SegmentsAre
    <3>3. r = s \o Segments(k + 1, n)
      BY <2>1, SegmentsConcat
    <3>4. QED
      BY <3>2, <3>3
  <2>2. CASE k + 1 = a
    <3>1. k < a
      BY <2>2
    <3>2. s = <<>>
      BY <3>1, NoSegments
    <3> HIDE DEF r
    <3>3. r = <<>> \o r
      BY <1>2, ConcatEmptySeq
    <3>4. QED
      BY <1>2, <3>2, <3>3
  <2>3. QED
    BY <2>1, <2>2
<1> HIDE DEF s, r
<1>4. PICK t \in Seq(Nat) : r = s \o t
  BY <1>3
<1>5. g \o r = (g \o s) \o t
  <2>1. g \o (s \o t) = (g \o s) \o t
    BY <1>1, Regroup
  <2>2. QED
    BY <1>4, <2>1
<1>6. g \o s \in Seq(Nat)
  BY <1>1, ConcatProperties
<1>7. IsPrefix(g \o s, g \o r)
  BY <1>5, <1>6, BeginsWith
<1>8. QED
  BY <1>7 DEF s, r

-----------------------------------------------------------------------------
(* The inductive invariant.                                                *)

Dispatching == {"line", "headers", "peek"}
Connecting  == {"open", "answer"}
Plain       == {"connect", "http"}

\* Types, and what has not begun before the pipes run.
PhaseInv ==
    /\ phase \in Dispatching \cup Connecting \cup {"relay", "done"}
    /\ mode \in Plain \cup {"undecided", "websocket"}
    /\ cend \in {"open", "half", "gone"} /\ uend \in {"open", "half", "gone"}
    /\ sent \in Nat /\ usent \in Nat
    /\ inbox \in Seq(Nat) /\ outbox \in Seq(Nat) /\ got \in Seq(Nat)
    /\ phase # "relay" => pumps = {}
    /\ phase \in Dispatching => mode = "undecided"
    /\ phase \in Connecting \cup {"relay"} => mode # "undecided"
    /\ phase \in Dispatching \cup Connecting =>
          wopen = TRUE /\ got = <<>> /\ ugot = <<>> /\ usent = 0 /\ outbox = <<>>

\* The first segment that is carried, and what the client is sent before any.
First    == IF mode = "connect" THEN 3 ELSE 1
Greeting == IF mode = "connect" THEN <<Established>> ELSE <<>>

\* What has been, or will be first, passed to the other end.
Passed == IF phase \in Connecting
          THEN IF mode = "connect" THEN <<>> ELSE taken
          ELSE ugot

\* The client's segments up to k are passed on; those after k wait in the
\* inbox, unless one of the two ends is gone and they are lost.
PassedUpTo(k) ==
    /\ First <= k + 1
    /\ k <= sent \/ k + 1 = First
    /\ cend = "open" => k <= sent
    /\ Passed = Segments(First, k)
    /\ phase # "done" /\ uend # "gone" =>
          inbox = Segments(k + 1, sent) \/ (cend = "gone" /\ inbox = <<>>)

ForwardInv ==
    /\ phase = "line" => taken = <<>> /\ inbox = Segments(1, sent)
    /\ phase = "headers" => taken = <<1>> /\ sent >= 1 /\ inbox = Segments(2, sent)
    /\ phase = "peek" =>
          \/ taken = <<1>> /\ sent >= 1 /\ inbox = Segments(2, sent)
          \/ taken = <<>> /\ inbox = <<>> /\ sent = 0 /\ cend # "open"
    /\ phase \notin Dispatching /\ mode \in Plain => \E k \in Nat : PassedUpTo(k)

\* The greeting and the reply up to j have been written to the client, and
\* what follows j waits, unless the client is gone.
ReturnedUpTo(j) ==
    /\ j <= usent
    /\ got = Greeting \o Segments(1, j)
    /\ phase = "relay" /\ cend # "gone" /\ wopen => outbox = Segments(j + 1, usent)

ReplyInv ==
    phase \in {"relay", "done"} /\ mode \in Plain =>
       \/ cend = "gone" /\ got = <<>>
       \/ phase = "done" /\ got \in {<<>>, <<BadGateway>>}
       \/ \E j \in Nat : ReturnedUpTo(j)

RelayInv == PhaseInv /\ ForwardInv /\ ReplyInv /\ BridgedWhileBothOpen

\* A connection begins at the first line.
LEMMA RelayBegins == Init => RelayInv
<1> SUFFICES ASSUME Init PROVE RelayInv
  OBVIOUS
<1>1. Segments(1, 0) = <<>>
  BY NoSegments
<1>2. <<>> \in Seq(Nat)
  BY EmptySeq
<1>3. PhaseInv
  BY <1>2 DEF Init, PhaseInv, Dispatching, Connecting, Plain
<1>4. ForwardInv
  BY <1>1 DEF Init, ForwardInv, Dispatching
<1>5. QED
  BY <1>3, <1>4 DEF Init, RelayInv, ReplyInv, BridgedWhileBothOpen

\* Writing appends, or does nothing.
LEMMA WrittenType ==
    ASSUME got \in Seq(Nat), NEW s \in Seq(Nat)
    PROVE  Written(s) \in Seq(Nat)
  BY ConcatProperties DEF Written

-----------------------------------------------------------------------------
(* Phases.                                                                 *)

\* The dispatch keeps the phases.
LEMMA DispatchKeepsPhase ==
    ASSUME PhaseInv, ReadLine \/ LineTimeout \/ ReadHeaders \/ Peek \/ NoHost
    PROVE  PhaseInv'
<1> USE DEF PhaseInv, Dispatching, Connecting, Plain, other
<1>a. <<>> \in Seq(Nat) /\ <<BadRequest>> \in Seq(Nat)
  BY DEF BadRequest
<1>b. inbox # <<>> => Tail(inbox) \in Seq(Nat)
  BY HeadTailProperties
<1>c. Written(<<>>) \in Seq(Nat) /\ Written(<<BadRequest>>) \in Seq(Nat)
  BY <1>a, WrittenType
<1>1. CASE ReadLine
  BY <1>1, <1>a, <1>b DEF ReadLine
<1>2. CASE LineTimeout
  BY <1>2, <1>c DEF LineTimeout, Leave
<1>3. CASE ReadHeaders
  BY <1>3, <1>b, <1>c DEF ReadHeaders, Leave
<1>4. CASE Peek
  BY <1>4, <1>a DEF Peek
<1>5. CASE NoHost
  BY <1>5, <1>c DEF NoHost
<1>6. QED
  BY <1>1, <1>2, <1>3, <1>4, <1>5

\* So does making the other connection.
LEMMA ConnectKeepsPhase ==
    ASSUME PhaseInv, Fails \/ Opens \/ Agrees \/ Refuses
    PROVE  PhaseInv'
<1> USE DEF PhaseInv, Dispatching, Connecting, Plain, other, client
<1>a. <<>> \in Seq(Nat) /\ <<BadGateway>> \in Seq(Nat) /\ <<Established>> \in Seq(Nat)
  BY DEF BadGateway, Established
<1>b. /\ Written(<<>>) \in Seq(Nat) /\ Written(<<BadGateway>>) \in Seq(Nat)
      /\ Written(<<Established>>) \in Seq(Nat)
  BY <1>a, WrittenType
<1>1. CASE Fails
  BY <1>1, <1>b DEF Fails, Leave
<1>2. CASE Refuses
  BY <1>2, <1>b DEF Refuses, Leave
<1>3. CASE phase \in Connecting /\ Bridge
  BY <1>3, <1>b DEF Bridge
<1>4. CASE Opens /\ ~ Bridge
  BY <1>4 DEF Opens
<1>5. QED
  BY <1>1, <1>2, <1>3, <1>4 DEF Opens, Agrees

\* And the pipes and the two peers.
LEMMA PipesKeepPhase ==
    ASSUME PhaseInv,
           \/ Pipes \/ ClientSends \/ ClientEnds \/ ClientReads
           \/ OtherSends \/ OtherEnds \/ OtherReads
    PROVE  PhaseInv'
<1> USE DEF PhaseInv, Dispatching, Connecting, Plain, other, client, dispatch
<1>a. <<>> \in Seq(Nat)
  OBVIOUS
<1>b. Written(<<>>) \in Seq(Nat) /\ Written(outbox) \in Seq(Nat)
  BY <1>a, WrittenType
<1>1. CASE ClientToOther
  BY <1>1, <1>a DEF ClientToOther
<1>2. CASE ClientPipeEnds
  BY <1>2 DEF ClientPipeEnds, ClientPipeStops
<1>3. CASE OtherToClient
  BY <1>3, <1>a, <1>b DEF OtherToClient
<1>4. CASE OtherPipeEnds
  BY <1>4 DEF OtherPipeEnds, OtherPipeStops
<1>5. CASE Gathered
  BY <1>5, <1>b DEF Gathered, Leave
<1>6. CASE ClientSends
  <2>1. Append(inbox, sent + 1) \in Seq(Nat)
    BY AppendProperties
  <2>2. QED
    BY <1>6, <2>1 DEF ClientSends
<1>7. CASE ClientEnds
  BY <1>7 DEF ClientEnds
<1>8. CASE OtherSends
  <2>1. Append(outbox, usent + 1) \in Seq(Nat)
    BY AppendProperties
  <2>2. QED
    BY <1>8, <2>1 DEF OtherSends
<1>9. CASE OtherEnds
  BY <1>9 DEF OtherEnds
<1>10. CASE ClientReads \/ OtherReads
  BY <1>10 DEF ClientReads, OtherReads
<1>11. QED
  BY <1>1, <1>2, <1>3, <1>4, <1>5, <1>6, <1>7, <1>8, <1>9, <1>10 DEF Pipes

-----------------------------------------------------------------------------
(* From the client to the other end.                                       *)

\* Nothing changes for ForwardInv when only connections end and the reply
\* moves.
LEMMA ForwardFrame ==
    ASSUME PhaseInv, ForwardInv,
           UNCHANGED <<phase, mode, taken, inbox, sent, ugot>>,
           cend = "gone" => cend' = "gone", cend' = "open" => cend = "open",
           uend = "gone" => uend' = "gone"
    PROVE  ForwardInv'
<1>1. First' = First /\ Passed' = Passed
  BY DEF First, Passed
<1>2. \A k \in Nat : PassedUpTo(k) => PassedUpTo(k)'
  BY <1>1 DEF PassedUpTo
<1>3. QED
  BY <1>2 DEF ForwardInv, PhaseInv

\* The dispatch takes the first segments and keeps them in order.
LEMMA DispatchForwards ==
    ASSUME PhaseInv, ForwardInv,
           ReadLine \/ LineTimeout \/ ReadHeaders \/ Peek \/ NoHost
    PROVE  ForwardInv'
<1>1. CASE ReadLine
  <2>1. taken = <<>> /\ inbox = Segments(1, sent) /\ sent \in Nat
    BY <1>1 DEF ReadLine, ForwardInv, PhaseInv
  <2>2. inbox # <<>> => 1 <= sent /\ Tail(inbox) = Segments(2, sent)
    BY <2>1, SegmentsTail
  <2>3. inbox = <<>> => sent = 0
    <3>1. 1 <= sent => Len(inbox) = sent
      BY <2>1, SegmentsAre
    <3>2. QED
      BY <2>1, <3>1
  <2>4. QED
    BY <1>1, <2>1, <2>2, <2>3
    DEF ReadLine, ForwardInv, PhaseInv, Line, Dispatching, Plain
<1>2. CASE LineTimeout
  BY <1>2 DEF LineTimeout, Leave, ForwardInv, PhaseInv, Dispatching, Plain
<1>3. CASE ReadHeaders
  <2>1. /\ taken = <<1>> /\ sent >= 1 /\ inbox = Segments(2, sent) /\ sent \in Nat
        /\ mode = "undecided" /\ ugot = <<>>
    BY <1>3 DEF ReadHeaders, ForwardInv, PhaseInv, Dispatching
  <2>2. CASE phase' = "done"
    BY <1>3, <2>1, <2>2 DEF ReadHeaders, Leave, ForwardInv, Dispatching, Plain
  <2>3. CASE phase' = "open"
    <3>1. /\ mode' = "connect" /\ sent' = sent /\ cend' = cend /\ uend' = uend
          /\ \/ inbox # <<>> /\ inbox' = Tail(inbox)
             \/ inbox = <<>> /\ cend # "open" /\ inbox' = inbox
      BY <1>3, <2>3 DEF ReadHeaders, Leave, other
    <3>2. First' = 3 /\ Passed' = <<>>
      BY <2>3, <3>1 DEF First, Passed, Connecting
    <3>3. Segments(3, 2) = <<>>
      BY NoSegments
    <3>4. /\ inbox' = Segments(3, sent)
          /\ cend = "open" => 2 <= sent
      <4>1. CASE inbox # <<>> /\ inbox' = Tail(inbox)
        BY <2>1, <4>1, SegmentsTail
      <4>2. CASE inbox = <<>> /\ cend # "open" /\ inbox' = inbox
        <5>1. 2 <= sent => Len(inbox) = sent - 1
          <6> SUFFICES ASSUME 2 <= sent PROVE Len(inbox) = sent - 1
            OBVIOUS
          <6>1. 2 \in Nat \ {0} /\ 2 <= sent + 1
            BY <2>1
          <6>2. Len(Segments(2, sent)) = (sent + 1) - 2
            BY <2>1, <6>1, SegmentsAre
          <6>3. QED
            BY <2>1, <6>2
        <5>2. sent < 2
          BY <2>1, <4>2, <5>1
        <5>3. Segments(3, sent) = <<>>
          BY <2>1, <5>2, NoSegments
        <5>4. QED
          BY <4>2, <5>3
      <4>3. QED
        BY <3>1, <4>1, <4>2
    <3>5. PassedUpTo(2)'
      BY <2>1, <3>1, <3>2, <3>3, <3>4 DEF PassedUpTo
    <3>6. QED
      BY <2>3, <3>1, <3>5 DEF ForwardInv, Dispatching
  <2>4. QED
    BY <1>3, <2>2, <2>3 DEF ReadHeaders, Leave
<1>4. CASE Peek
  <2>1. /\ sent \in Nat /\ inbox \in Seq(Nat)
        /\ \/ taken = <<1>> /\ sent >= 1 /\ inbox = Segments(2, sent)
           \/ taken = <<>> /\ inbox = <<>> /\ sent = 0 /\ cend # "open"
    BY <1>4 DEF Peek, ForwardInv, PhaseInv
  <2>2. /\ phase' = "open" /\ inbox' = <<>> /\ sent' = sent /\ cend' = cend
        /\ mode' \in {"http", "websocket"}
        /\ taken' = taken \o inbox \/ (cend = "gone" /\ taken' = taken)
    BY <1>4 DEF Peek
  <2>3. Segments(1, 0) = <<>> /\ Segments(1, 1) = <<1>>
    <3>1. /\ Segments(1, 1) \in Seq(Nat) /\ Len(Segments(1, 1)) = 1
          /\ Segments(1, 1)[1] = 1
      <4>1. 1 \in Nat \ {0} /\ 1 \in Nat /\ 1 <= 1 + 1
        OBVIOUS
      <4>2. /\ Segments(1, 1) \in Seq(Nat) /\ Len(Segments(1, 1)) = (1 + 1) - 1
            /\ \A i \in 1 .. (1 + 1) - 1 : Segments(1, 1)[i] = 1 + i - 1
        BY <4>1, SegmentsAre
      <4>3. 1 \in 1 .. (1 + 1) - 1 /\ (1 + 1) - 1 = 1
        OBVIOUS
      <4>4. QED
        BY <4>2, <4>3
    <3>2. <<1>> \in Seq(Nat) /\ Len(<<1>>) = 1 /\ <<1>>[1] = 1
      OBVIOUS
    <3>3. Segments(1, 1) = <<1>>
      BY <3>1, <3>2, SameElements
    <3>4. QED
      BY <3>3, NoSegments
  <2>4. taken \o inbox = Segments(1, sent)
    <3>1. CASE taken = <<1>> /\ sent >= 1 /\ inbox = Segments(2, sent)
      <4>1. Segments(1, 1) \o Segments(2, sent) = Segments(1, sent)
        <5>1. 1 \in Nat \ {0} /\ 1 \in Nat /\ 1 <= 1 + 1 /\ 1 <= sent
          BY <3>1
        <5>2. Segments(1, 1) \o Segments(1 + 1, sent) = Segments(1, sent)
          BY <2>1, <5>1, SegmentsConcat
        <5>3. 1 + 1 = 2
          OBVIOUS
        <5>4. QED
          BY <5>2, <5>3
      <4>2. QED
        BY <2>3, <3>1, <4>1
    <3>2. CASE taken = <<>> /\ inbox = <<>> /\ sent = 0
      BY <2>3, <3>2
    <3>3. QED
      BY <2>1, <3>1, <3>2
  <2>5. Segments(sent + 1, sent) = <<>>
    BY <2>1, NoSegments
  <2>6. CASE mode' = "http"
    <3>1. First' = 1 /\ Passed' = taken'
      BY <2>2, <2>6 DEF First, Passed, Connecting
    <3>2. CASE taken' = taken \o inbox
      <4>1. PassedUpTo(sent)'
        BY <2>1, <2>2, <2>4, <2>5, <3>1, <3>2 DEF PassedUpTo
      <4>2. QED
        BY <2>1, <2>2, <4>1 DEF ForwardInv, Dispatching
    <3>3. CASE cend = "gone" /\ taken' = taken
      <4>1. (taken = Segments(1, 1) /\ 1 <= sent) \/ taken = Segments(1, 0)
        BY <2>1, <2>3
      <4>2. PassedUpTo(1)' \/ PassedUpTo(0)'
        BY <2>1, <2>2, <3>1, <3>3, <4>1 DEF PassedUpTo
      <4>3. QED
        BY <2>2, <4>2 DEF ForwardInv, Dispatching
    <3>4. QED
      BY <2>2, <3>2, <3>3
  <2>7. CASE mode' = "websocket"
    BY <2>2, <2>7 DEF ForwardInv, Plain
  <2>8. QED
    BY <2>2, <2>6, <2>7
<1>5. CASE NoHost
  BY <1>5 DEF NoHost, ForwardInv, Plain
<1>6. QED
  BY <1>1, <1>2, <1>3, <1>4, <1>5

\* What was taken is what the bridge passes on first.
LEMMA ConnectForwards ==
    ASSUME PhaseInv, ForwardInv, Fails \/ Opens \/ Agrees \/ Refuses
    PROVE  ForwardInv'
<1>a. phase \in Connecting
  BY DEF Fails, Opens, Agrees, Refuses, Connecting
<1>b. /\ ugot = <<>> /\ sent \in Nat
      /\ mode \in Plain => \E k \in Nat : PassedUpTo(k)
  BY <1>a DEF PhaseInv, ForwardInv, Connecting, Dispatching
<1>1. CASE Fails \/ Refuses
  <2>1. phase' = "done" /\ UNCHANGED <<mode, sent, cend, ugot>>
    BY <1>1 DEF Fails, Refuses, Leave, other
  <2>2. ASSUME mode \in Plain
        PROVE  \E k \in Nat : PassedUpTo(k)'
    <3>1. PICK k \in Nat : PassedUpTo(k)
      BY <1>b, <2>2
    <3>2. CASE mode = "connect"
      <4>1. First' = 3 /\ Passed' = <<>> /\ First = 3
        BY <1>b, <2>1, <3>2 DEF First, Passed, Connecting
      <4>2. Segments(3, 2) = <<>>
        BY NoSegments
      <4>3. cend = "open" => 2 <= sent
        BY <1>b, <3>1, <4>1 DEF PassedUpTo
      <4>4. PassedUpTo(2)'
        BY <1>b, <2>1, <4>1, <4>2, <4>3 DEF PassedUpTo
      <4>5. QED
        BY <4>4
    <3>3. CASE mode # "connect"
      <4>1. First' = 1 /\ Passed' = <<>>
        BY <1>b, <2>1, <3>3 DEF First, Passed, Connecting
      <4>2. Segments(1, 0) = <<>>
        BY NoSegments
      <4>3. PassedUpTo(0)'
        BY <1>b, <2>1, <4>1, <4>2 DEF PassedUpTo
      <4>4. QED
        BY <4>3
    <3>4. QED
      BY <3>2, <3>3
  <2>3. QED
    BY <2>1, <2>2 DEF ForwardInv, Dispatching
<1>2. CASE Bridge
  <2>1. /\ phase' = "relay" /\ UNCHANGED <<mode, sent, inbox, cend, uend>>
        /\ mode = "connect" => ugot' = <<>>
        /\ mode = "http" => ugot' = taken
    BY <1>2 DEF Bridge
  <2>2. mode \in Plain => First' = First /\ Passed' = Passed
    BY <1>a, <2>1 DEF First, Passed, Connecting, Plain
  <2>3. \A k \in Nat : mode \in Plain /\ PassedUpTo(k) => PassedUpTo(k)'
    BY <1>a, <2>1, <2>2 DEF PassedUpTo, Connecting
  <2>4. QED
    BY <1>b, <2>1, <2>3 DEF ForwardInv, Dispatching
<1>3. CASE Opens /\ ~ Bridge
  <2>1. phase' = "answer" /\ UNCHANGED <<mode, taken, sent, inbox, cend, uend, ugot>>
    BY <1>3 DEF Opens, client
  <2>2. First' = First /\ Passed' = Passed
    BY <1>a, <2>1 DEF First, Passed, Connecting
  <2>3. \A k \in Nat : PassedUpTo(k) => PassedUpTo(k)'
    BY <1>a, <2>1, <2>2 DEF PassedUpTo, Connecting
  <2>4. QED
    BY <1>b, <2>1, <2>3 DEF ForwardInv, Dispatching
<1>4. QED
  BY <1>1, <1>2, <1>3 DEF Opens, Agrees

\* The client writes one more segment.
LEMMA SendingForwards ==
    ASSUME PhaseInv, ForwardInv, ClientSends
    PROVE  ForwardInv'
<1>1. /\ sent \in Nat /\ cend = "open" /\ sent' = sent + 1
      /\ inbox' = Append(inbox, sent + 1)
      /\ UNCHANGED <<phase, mode, taken, cend, uend, ugot>>
  BY DEF ClientSends, PhaseInv, dispatch, other
<1>2. \A a \in Nat \ {0} : a <= sent + 1 /\ inbox = Segments(a, sent)
                              => inbox' = Segments(a, sent')
  BY <1>1, SegmentsAppend
<1>3. phase = "line" => inbox' = Segments(1, sent')
  BY <1>1, <1>2 DEF ForwardInv
<1>4. phase \in {"headers", "peek"} =>
         taken = <<1>> /\ sent' >= 1 /\ inbox' = Segments(2, sent')
  BY <1>1, <1>2 DEF ForwardInv
<1>5. First' = First /\ Passed' = Passed
  BY <1>1 DEF First, Passed
<1>6. ASSUME NEW k \in Nat, PassedUpTo(k)
      PROVE  PassedUpTo(k)'
  <2>1. k <= sent
    BY <1>1, <1>6 DEF PassedUpTo
  <2>2. k + 1 \in Nat \ {0} /\ k + 1 <= sent + 1
    BY <1>1, <2>1
  <2>3. inbox = Segments(k + 1, sent) => inbox' = Segments(k + 1, sent')
    BY <1>2, <2>2
  <2>4. QED
    BY <1>1, <1>5, <1>6, <2>1, <2>3 DEF PassedUpTo
<1>7. QED
  BY <1>1, <1>3, <1>4, <1>6 DEF ForwardInv

\* The pipe passes on all that waits.
LEMMA PipeForwards ==
    ASSUME PhaseInv, ForwardInv, ClientToOther
    PROVE  ForwardInv'
<1>1. /\ phase = "relay" /\ sent \in Nat /\ inbox \in Seq(Nat)
      /\ UNCHANGED <<phase, mode, sent, cend, uend>>
  BY DEF ClientToOther, PhaseInv
<1>2. CASE mode \in Plain
  <2>1. /\ inbox # <<>> /\ inbox' = <<>>
        /\ ugot' = IF uend = "gone" THEN ugot ELSE ugot \o inbox
    BY <1>2 DEF ClientToOther, FromClient, Plain
  <2>2. First' = First /\ First \in {1, 3} /\ Passed = ugot /\ Passed' = ugot'
    BY <1>1 DEF First, Passed, Connecting
  <2>3. PICK k \in Nat : PassedUpTo(k)
    BY <1>1, <1>2 DEF ForwardInv, Dispatching
  <2>4. CASE uend = "gone" \/ inbox # Segments(k + 1, sent)
    <3>1. uend = "gone"
      BY <1>1, <2>1, <2>3, <2>4 DEF PassedUpTo
    <3>2. PassedUpTo(k)'
      BY <1>1, <2>1, <2>2, <2>3, <3>1 DEF PassedUpTo
    <3>3. QED
      BY <1>1, <3>2 DEF ForwardInv, Dispatching
  <2>5. CASE uend # "gone" /\ inbox = Segments(k + 1, sent)
    <3>1. k + 1 <= sent
      <4>1. k + 1 \in Nat \ {0} /\ Segments(k + 1, sent) # <<>>
        BY <2>1, <2>5
      <4>2. QED
        BY <1>1, <4>1, SegmentsTail
    <3>2. First <= k + 1 /\ ugot = Segments(First, k)
      BY <2>2, <2>3 DEF PassedUpTo
    <3>3. ugot' = Segments(First, sent)
      <4>1. Segments(First, k) \o Segments(k + 1, sent) = Segments(First, sent)
        <5>1. First \in Nat \ {0} /\ k <= sent /\ sent \in Nat
          BY <1>1, <2>2, <3>1
        <5>2. QED
          BY <3>2, <5>1, SegmentsConcat
      <4>2. QED
        BY <2>1, <2>5, <3>2, <4>1
    <3>4. Segments(sent + 1, sent) = <<>>
      BY <1>1, NoSegments
    <3>5. PassedUpTo(sent)'
      BY <1>1, <2>1, <2>2, <3>1, <3>2, <3>3, <3>4 DEF PassedUpTo
    <3>6. QED
      BY <1>1, <3>5 DEF ForwardInv, Dispatching
  <2>6. QED
    BY <2>4, <2>5
<1>3. CASE mode \notin Plain
  BY <1>1, <1>3 DEF ForwardInv
<1>4. QED
  BY <1>2, <1>3

\* ForwardInv is kept by every step.
LEMMA ForwardKeeps ==
    ASSUME PhaseInv, ForwardInv, Next
    PROVE  ForwardInv'
<1>1. CASE ClientEnds \/ ClientReads \/ OtherSends \/ OtherEnds \/ OtherReads
           \/ ClientPipeEnds \/ OtherToClient \/ OtherPipeEnds
  <2>1. /\ UNCHANGED <<phase, mode, taken, inbox, sent, ugot>>
        /\ cend = "gone" => cend' = "gone"
        /\ cend' = "open" => cend = "open"
        /\ uend = "gone" => uend' = "gone"
    BY <1>1 DEF ClientEnds, ClientReads, OtherSends, OtherEnds, OtherReads,
                ClientPipeEnds, OtherToClient, OtherPipeEnds, dispatch, client, other
  <2>2. QED
    BY <2>1, ForwardFrame
<1>2. CASE Gathered
  <2>1. /\ phase = "relay" /\ phase' = "done"
        /\ UNCHANGED <<mode, taken, inbox, sent, ugot, cend, uend>>
    BY <1>2 DEF Gathered, Leave, other
  <2>2. First' = First /\ Passed' = Passed
    BY <2>1 DEF First, Passed, Connecting
  <2>3. \A k \in Nat : PassedUpTo(k) => PassedUpTo(k)'
    BY <2>1, <2>2 DEF PassedUpTo
  <2>4. QED
    BY <2>1, <2>3 DEF ForwardInv, Dispatching
<1>3. QED
  BY <1>1, <1>2, DispatchForwards, ConnectForwards, SendingForwards, PipeForwards
  DEF Next, Handler, Pipes

-----------------------------------------------------------------------------
(* From the other end to the client.                                       *)

\* The greeting comes first.
LEMMA BridgeReplies ==
    ASSUME PhaseInv, phase \in Connecting, Bridge
    PROVE  ReplyInv'
<1>1. /\ got = <<>> /\ usent = 0 /\ outbox = <<>>
      /\ cend \in {"open", "half", "gone"}
  BY DEF PhaseInv
<1>2. /\ phase' = "relay" /\ UNCHANGED <<mode, cend, usent, outbox>>
      /\ got' = IF mode = "connect" THEN Written(<<Established>>) ELSE got
  BY DEF Bridge
<1>3. Segments(1, 0) = <<>>
  BY NoSegments
<1>4. CASE cend = "gone"
  BY <1>1, <1>2, <1>4 DEF ReplyInv, Written
<1>5. CASE cend # "gone"
  <2>1. wopen = TRUE
    BY DEF PhaseInv
  <2>2. got' = Greeting
    BY <1>1, <1>2, <1>5, <2>1 DEF Written, Greeting
  <2>3. Greeting' = Greeting /\ Greeting \in Seq(Nat)
    BY <1>2 DEF Greeting, Established
  <2>4. Greeting \o <<>> = Greeting
    BY <2>3, ConcatEmptySeq
  <2>5. ReturnedUpTo(0)'
    BY <1>1, <1>2, <1>3, <2>2, <2>3, <2>4 DEF ReturnedUpTo
  <2>6. QED
    BY <2>5 DEF ReplyInv
<1>6. QED
  BY <1>4, <1>5

\* The pipe hands on all that waits.
LEMMA PipeReplies ==
    ASSUME PhaseInv, ReplyInv, OtherToClient
    PROVE  ReplyInv'
<1>1. /\ phase = "relay" /\ usent \in Nat /\ outbox \in Seq(Nat)
      /\ wopen /\ outbox' = <<>> /\ got' = Written(outbox)
      /\ UNCHANGED <<phase, mode, cend, usent>>
  BY DEF OtherToClient, PhaseInv, dispatch
<1>2. Greeting' = Greeting /\ Greeting \in Seq(Nat)
  BY <1>1 DEF Greeting, Established
<1>3. CASE cend = "gone" \/ mode \notin Plain
  <2>1. cend = "gone" => got' = got
    BY <1>1 DEF Written
  <2>2. \A j \in Nat : cend = "gone" /\ ReturnedUpTo(j) => ReturnedUpTo(j)'
    BY <1>1, <1>2, <2>1 DEF ReturnedUpTo
  <2>3. QED
    BY <1>1, <1>3, <2>1, <2>2 DEF ReplyInv
<1>4. CASE cend # "gone" /\ mode \in Plain
  <2>1. PICK j \in Nat : ReturnedUpTo(j)
    BY <1>1, <1>4 DEF ReplyInv
  <2>2. j <= usent /\ got = Greeting \o Segments(1, j) /\ outbox = Segments(j + 1, usent)
    BY <1>1, <1>4, <2>1 DEF ReturnedUpTo
  <2>3. 1 \in Nat \ {0} /\ 1 <= j + 1
    OBVIOUS
  <2>4. Segments(1, j) \o Segments(j + 1, usent) = Segments(1, usent)
    BY <1>1, <2>2, <2>3, SegmentsConcat
  <2>5. Segments(1, j) \in Seq(Nat)
    BY <2>3, SegmentsAre
  <2>6. got' = (Greeting \o Segments(1, j)) \o outbox
    BY <1>1, <1>4, <2>2 DEF Written
  <2>7. got' = Greeting \o Segments(1, usent)
    <3>1. (Greeting \o Segments(1, j)) \o outbox = Greeting \o (Segments(1, j) \o outbox)
      BY <1>1, <1>2, <2>5, Regroup
    <3>2. Segments(1, j) \o outbox = Segments(1, usent)
      BY <2>2, <2>4
    <3>3. QED
      BY <2>6, <3>1, <3>2
  <2>8. Segments(usent + 1, usent) = <<>>
    BY <1>1, NoSegments
  <2>9. ReturnedUpTo(usent)'
    BY <1>1, <1>2, <2>7, <2>8 DEF ReturnedUpTo
  <2>10. QED
    BY <1>1, <2>9 DEF ReplyInv
<1>5. QED
  BY <1>3, <1>4

\* ReplyInv is kept by every step.
LEMMA ReplyKeeps ==
    ASSUME PhaseInv, ReplyInv, Next
    PROVE  ReplyInv'
<1>1. CASE ReadLine \/ Peek
  BY <1>1 DEF ReadLine, Peek, ReplyInv
<1>2. CASE ReadHeaders
  BY <1>2 DEF ReadHeaders, Leave, ReplyInv, PhaseInv, Dispatching, Plain
<1>3. CASE LineTimeout \/ NoHost
  BY <1>3 DEF LineTimeout, NoHost, Leave, ReplyInv, PhaseInv, Dispatching, Plain
<1>4. CASE Fails \/ Refuses
  <2>1. phase' = "done" /\ got = <<>>
    BY <1>4 DEF Fails, Refuses, Leave, PhaseInv, Connecting
  <2>2. got' = Written(<<>>) \/ got' = Written(<<BadGateway>>)
    BY <1>4 DEF Fails, Refuses, Leave
  <2>3. got' \in {<<>>, <<BadGateway>>}
    BY <2>1, <2>2 DEF Written
  <2>4. QED
    BY <2>1, <2>3 DEF ReplyInv
<1>5. CASE (Opens \/ Agrees) /\ Bridge
  BY <1>5, BridgeReplies DEF Opens, Agrees, Connecting
<1>6. CASE Opens /\ ~ Bridge
  BY <1>6 DEF Opens, ReplyInv
<1>7. CASE Gathered
  <2>1. phase = "relay" /\ phase' = "done" /\ UNCHANGED <<mode, cend, usent>>
    BY <1>7 DEF Gathered, Leave, other
  <2>2. got' = got
    <3>1. got' = Written(<<>>) /\ got \in Seq(Nat)
      BY <1>7 DEF Gathered, Leave, PhaseInv
    <3>2. got \o <<>> = got
      BY <3>1, ConcatEmptySeq
    <3>3. QED
      BY <3>1, <3>2 DEF Written
  <2>3. \A j \in Nat : ReturnedUpTo(j) => ReturnedUpTo(j)'
    BY <2>1, <2>2 DEF ReturnedUpTo, Greeting
  <2>4. QED
    BY <2>1, <2>2, <2>3 DEF ReplyInv
<1>8. CASE OtherSends
  <2>1. /\ usent \in Nat /\ usent' = usent + 1 /\ outbox' = Append(outbox, usent + 1)
        /\ UNCHANGED <<phase, mode, cend, wopen, got>>
    BY <1>8 DEF OtherSends, PhaseInv, dispatch, client
  <2>2. Greeting' = Greeting
    BY <2>1 DEF Greeting
  <2>3. ASSUME NEW j \in Nat, ReturnedUpTo(j)
        PROVE  ReturnedUpTo(j)'
    <3>1. j + 1 \in Nat \ {0} /\ j + 1 <= usent + 1
      BY <2>1, <2>3 DEF ReturnedUpTo
    <3>2. outbox = Segments(j + 1, usent) => outbox' = Segments(j + 1, usent')
      BY <2>1, <3>1, SegmentsAppend
    <3>3. QED
      BY <2>1, <2>2, <2>3, <3>1, <3>2 DEF ReturnedUpTo
  <2>4. QED
    BY <2>1, <2>3 DEF ReplyInv
<1>9. CASE ClientSends \/ ClientEnds \/ ClientReads \/ OtherEnds \/ OtherReads
           \/ ClientToOther \/ ClientPipeEnds \/ OtherPipeEnds
  <2>1. /\ UNCHANGED <<phase, mode, usent, outbox, got>>
        /\ cend = "gone" => cend' = "gone"
        /\ wopen' => wopen
    <3>1. CASE OtherPipeEnds
      <4>1. wopen' = (wopen /\ mode = "http")
        BY <3>1 DEF OtherPipeEnds
      <4>2. wopen' => wopen
        BY <4>1, Zenon
      <4>3. QED
        BY <3>1, <4>2 DEF OtherPipeEnds, other
    <3>2. CASE ClientSends \/ ClientEnds \/ ClientReads \/ OtherEnds \/ OtherReads
               \/ ClientToOther \/ ClientPipeEnds
      BY <3>2 DEF ClientSends, ClientEnds, ClientReads, OtherEnds, OtherReads,
                  ClientToOther, ClientPipeEnds, dispatch, client, other
    <3>3. QED
      BY <1>9, <3>1, <3>2
  <2>2. \A j \in Nat : ReturnedUpTo(j) => ReturnedUpTo(j)'
    BY <2>1 DEF ReturnedUpTo, Greeting
  <2>3. QED
    BY <2>1, <2>2 DEF ReplyInv
<1>10. QED
  BY <1>1, <1>2, <1>3, <1>4, <1>5, <1>6, <1>7, <1>8, <1>9, PipeReplies
  DEF Next, Handler, Pipes, Agrees

-----------------------------------------------------------------------------
(* The theorems.                                                           *)

\* While neither end has shut, no pipe finds a reason to end.
LEMMA BridgedKeeps ==
    ASSUME PhaseInv, BridgedWhileBothOpen, Next
    PROVE  BridgedWhileBothOpen'
<1>1. CASE ReadLine \/ LineTimeout \/ ReadHeaders \/ Peek \/ NoHost \/ Fails
           \/ Refuses \/ Gathered
  BY <1>1 DEF ReadLine, LineTimeout, ReadHeaders, Peek, NoHost, Fails, Refuses,
              Gathered, Leave, BridgedWhileBothOpen
<1>2. CASE (Opens \/ Agrees) /\ Bridge
  BY <1>2 DEF Opens, Agrees, Bridge, PhaseInv, Connecting, BridgedWhileBothOpen
<1>3. CASE Opens /\ ~ Bridge
  BY <1>3 DEF Opens, BridgedWhileBothOpen
<1>4. CASE ClientPipeEnds \/ OtherPipeEnds
  <2>1. SUFFICES ASSUME phase' = "relay", mode' # "websocket",
                        cend' = "open", uend' = "open"
                 PROVE  FALSE
    BY DEF BridgedWhileBothOpen
  <2>2. UNCHANGED <<phase, mode, cend, uend>>
    BY <1>4 DEF ClientPipeEnds, OtherPipeEnds, client, other
  <2>3. cend = "open" /\ uend = "open" /\ mode # "websocket" /\ up = "open" /\ wopen
    BY <2>1, <2>2 DEF BridgedWhileBothOpen
  <2>4. ~ ClientEOF /\ ~ OtherEOF
    BY <2>3 DEF ClientEOF, OtherEOF
  <2>5. QED
    BY <1>4, <2>3, <2>4
    DEF ClientPipeEnds, ClientPipeStops, OtherPipeEnds, OtherPipeStops
<1>5. CASE ClientSends \/ ClientEnds \/ ClientReads \/ OtherSends \/ OtherEnds
           \/ OtherReads \/ ClientToOther \/ OtherToClient
  BY <1>5 DEF ClientSends, ClientEnds, ClientReads, OtherSends, OtherEnds, OtherReads,
              ClientToOther, OtherToClient, dispatch, client, other, BridgedWhileBothOpen
<1>6. QED
  BY <1>1, <1>2, <1>3, <1>4, <1>5 DEF Next, Handler, Pipes, Agrees

\* The invariant holds throughout, for any number of segments.
THEOREM RelayAlways == Spec => []RelayInv
<1>1. Init => RelayInv
  BY RelayBegins
<1>2. RelayInv /\ [Next]_vars => RelayInv'
  <2>1. ASSUME RelayInv, Next
        PROVE  RelayInv'
    <3>1. PhaseInv'
      BY <2>1, DispatchKeepsPhase, ConnectKeepsPhase, PipesKeepPhase
      DEF RelayInv, Next, Handler
    <3>2. ForwardInv' /\ ReplyInv' /\ BridgedWhileBothOpen'
      BY <2>1, ForwardKeeps, ReplyKeeps, BridgedKeeps DEF RelayInv
    <3>3. QED
      BY <3>1, <3>2 DEF RelayInv
  <2>2. ASSUME RelayInv, UNCHANGED vars
        PROVE  RelayInv'
    <3>1. UNCHANGED vars
      BY <2>2
    <3>2. PhaseInv' /\ BridgedWhileBothOpen'
      BY <2>2 DEF RelayInv, PhaseInv, BridgedWhileBothOpen, vars, dispatch, client, other
    <3>3. ForwardInv'
      <4>1. UNCHANGED <<phase, mode, taken, inbox, sent, ugot, cend, uend>>
        BY <3>1 DEF vars, dispatch, client, other
      <4>2. QED
        BY <2>2, <4>1, ForwardFrame DEF RelayInv
    <3>4. ReplyInv'
      <4>1. UNCHANGED <<phase, mode, usent, outbox, got, cend, wopen>>
        BY <3>1 DEF vars, dispatch, client, other
      <4>2. \A j \in Nat : ReturnedUpTo(j) => ReturnedUpTo(j)'
        BY <4>1 DEF ReturnedUpTo, Greeting
      <4>3. QED
        BY <2>2, <4>1, <4>2 DEF ReplyInv, RelayInv
    <3>5. QED
      BY <3>2, <3>3, <3>4 DEF RelayInv
  <2>3. QED
    BY <2>1, <2>2
<1>3. QED
  BY <1>1, <1>2, PTL DEF Spec

\* BytesInOrder: neither direction of a tunnel or a forward loses, repeats or
\* reorders anything, however the bytes are cut into reads, and the dispatch
\* hands over all that it took (tunnel.py:88-161).
THEOREM BytesInOrderSafe == Spec => []BytesInOrder
<1>1. ASSUME RelayInv
      PROVE  BytesInOrder
  <2> SUFFICES ASSUME mode \in Plain
               PROVE  /\ IsPrefix(ugot, Segments(First, sent))
                      /\ \/ got \in {<<>>, <<BadGateway>>}
                         \/ IsPrefix(got, Greeting \o Segments(1, usent))
                      /\ phase = "relay" /\ {cend, uend} \cap {"gone"} = {}
                            /\ up = "open" /\ wopen
                         => /\ ugot \o inbox = Segments(First, sent)
                            /\ got \o outbox = Greeting \o Segments(1, usent)
    BY DEF BytesInOrder, Plain, First, Greeting
  <2>1. /\ PhaseInv /\ ForwardInv /\ ReplyInv
        /\ sent \in Nat /\ usent \in Nat
        /\ First \in Nat \ {0} /\ Greeting \in Seq(Nat) /\ <<>> \in Seq(Nat)
    BY <1>1 DEF RelayInv, PhaseInv, First, Greeting, Established
  <2>2. Segments(First, sent) \in Seq(Nat)
    BY <2>1, SegmentsAre, NoSegments
  <2>3. IsPrefix(<<>>, Segments(First, sent))
    <3>1. <<>> \o Segments(First, sent) = Segments(First, sent)
      BY <2>2, ConcatEmptySeq
    <3>2. IsPrefix(<<>>, <<>> \o Segments(First, sent))
      BY <2>1, <2>2, BeginsWith
    <3>3. QED
      BY <3>1, <3>2
  <2>4. CASE phase \in Connecting
    BY <2>1, <2>3, <2>4 DEF PhaseInv, Connecting
  <2>5. CASE phase \in {"relay", "done"}
    <3>1. PICK k \in Nat : PassedUpTo(k)
      BY <2>1, <2>5 DEF ForwardInv, Dispatching
    <3>2. /\ First <= k + 1 /\ (k <= sent \/ k + 1 = First)
          /\ ugot = Segments(First, k)
      BY <2>5, <3>1 DEF PassedUpTo, Passed, Connecting
    <3>3. Segments(First, k) \in Seq(Nat)
      BY <2>1, <3>2, SegmentsAre
    <3>4. IsPrefix(ugot, Segments(First, sent))
      <4>1. IsPrefix(<<>> \o Segments(First, k), <<>> \o Segments(First, sent))
        BY <2>1, <3>2, SegmentsPrefix
      <4>2. /\ <<>> \o Segments(First, k) = Segments(First, k)
            /\ <<>> \o Segments(First, sent) = Segments(First, sent)
        BY <2>2, <3>3, ConcatEmptySeq
      <4>3. QED
        BY <3>2, <4>1, <4>2
    <3>5. got \in {<<>>, <<BadGateway>>} \/ \E j \in Nat : ReturnedUpTo(j)
      BY <2>1, <2>5 DEF ReplyInv
    <3>6. ASSUME NEW j \in Nat, ReturnedUpTo(j)
          PROVE  IsPrefix(got, Greeting \o Segments(1, usent))
      <4>1. j <= usent /\ got = Greeting \o Segments(1, j)
        BY <3>6 DEF ReturnedUpTo
      <4>2. 1 \in Nat \ {0} /\ 1 <= j + 1
        OBVIOUS
      <4>3. QED
        BY <2>1, <4>1, <4>2, SegmentsPrefix
    <3>7. ASSUME phase = "relay", cend # "gone", uend # "gone", wopen
          PROVE  /\ ugot \o inbox = Segments(First, sent)
                 /\ got \o outbox = Greeting \o Segments(1, usent)
      <4>1. inbox = Segments(k + 1, sent)
        BY <3>1, <3>7 DEF PassedUpTo
      <4>2. ugot \o inbox = Segments(First, sent)
        <5>1. CASE k <= sent
          BY <2>1, <3>2, <4>1, <5>1, SegmentsConcat
        <5>2. CASE ~ k <= sent
          <6>1. k + 1 = First /\ sent < k + 1 /\ k < First /\ sent < First
            BY <2>1, <3>2, <5>2
          <6>2. ugot = <<>> /\ inbox = <<>> /\ Segments(First, sent) = <<>>
            BY <2>1, <3>2, <4>1, <6>1, NoSegments
          <6>3. QED
            BY <6>2
        <5>3. QED
          BY <5>1, <5>2
      <4>3. PICK j \in Nat : ReturnedUpTo(j)
        BY <2>1, <3>7 DEF ReplyInv
      <4>4. /\ j <= usent /\ got = Greeting \o Segments(1, j)
            /\ outbox = Segments(j + 1, usent)
        BY <3>7, <4>3 DEF ReturnedUpTo
      <4>5. /\ 1 \in Nat \ {0} /\ 1 <= j + 1
            /\ j + 1 \in Nat \ {0} /\ j + 1 <= usent + 1
        BY <2>1, <4>4
      <4>6. Segments(1, j) \in Seq(Nat) /\ outbox \in Seq(Nat)
        BY <2>1, <4>5, SegmentsAre DEF PhaseInv
      <4>7. Segments(1, j) \o outbox = Segments(1, usent)
        BY <2>1, <4>4, <4>5, SegmentsConcat
      <4>8. (Greeting \o Segments(1, j)) \o outbox = Greeting \o (Segments(1, j) \o outbox)
        BY <2>1, <4>6, Regroup
      <4>9. QED
        BY <4>2, <4>4, <4>7, <4>8
    <3>8. QED
      BY <3>4, <3>5, <3>6, <3>7
  <2>6. QED
    BY <2>1, <2>4, <2>5 DEF PhaseInv, Dispatching, Plain
<1>2. QED
  BY <1>1, RelayAlways, PTL

\* BridgedWhileBothOpen: a tunnel or a forward is not cut while both ends can
\* still write (websocket.py:61-63, tunnel.py:54-68).
THEOREM BridgedSafe == Spec => []BridgedWhileBothOpen
  BY RelayAlways, PTL DEF RelayInv

-----------------------------------------------------------------------------
(* The end of a relay: the safety half of EndIsPassedOn.                   *)

\* A pipe closes the connection it writes to when it ends and not before,
\* except that the plain forward's leaves its client's open; only a running
\* pipe can wait in drain().
PipesInv ==
    /\ blocked \subseteq pumps
    /\ phase = "relay" =>
       /\ pumps \subseteq {"c2u", "u2c"}
       /\ up = IF "c2u" \in pumps THEN "open" ELSE "closed"
       /\ "u2c" \in pumps => wopen = TRUE
       /\ "u2c" \notin pumps => wopen = FALSE \/ mode = "http"

\* What EndIsPassedOn starts from.
PeerEnded == phase = "relay" /\ (cend # "open" \/ (mode # "http" /\ uend # "open"))

\* The conditions of each pipe's steps.
ClientPipeReady ==
    \/ "c2u" \in pumps \ blocked /\ FromClient # <<>> /\ up = "open"
    \/ ClientPipeStops

OtherPipeReady ==
    \/ "u2c" \in pumps \ blocked /\ outbox # <<>> /\ wopen
    \/ OtherPipeStops

\* A pipe waits for a peer that is there and does not read.
WaitsForReader ==
    \/ "c2u" \in blocked /\ uend # "gone"
    \/ "u2c" \in blocked /\ cend # "gone"

PipesNeverStuck ==
    PeerEnded => ClientPipeReady \/ OtherPipeReady \/ WaitsForReader \/ pumps = {}

ReturnsClosed == phase = "relay" /\ phase' # "relay" => ~ wopen' /\ up' = "closed"

\* Every step keeps the connections as the pipes stand.
LEMMA PipesStep == PhaseInv /\ PipesInv /\ [Next]_vars => PipesInv'
<1> SUFFICES ASSUME PhaseInv, PipesInv, [Next]_vars PROVE PipesInv'
  OBVIOUS
<1>1. CASE ReadLine \/ LineTimeout \/ ReadHeaders \/ Peek \/ NoHost \/ Fails
           \/ Refuses \/ Gathered
  BY <1>1 DEF ReadLine, LineTimeout, ReadHeaders, Peek, NoHost, Fails, Refuses,
              Gathered, Leave, PipesInv
<1>2. CASE phase \in Connecting /\ Bridge
  <2>1. wopen = TRUE /\ pumps = {}
    BY <1>2 DEF PhaseInv, Connecting
  <2>2. QED
    BY <1>2, <2>1 DEF Bridge, PipesInv
<1>3. CASE Opens /\ ~ Bridge
  BY <1>3 DEF Opens, PipesInv
<1>4. CASE ClientPipeEnds
  BY <1>4 DEF ClientPipeEnds, client, PipesInv
<1>5. CASE OtherPipeEnds
  BY <1>5 DEF OtherPipeEnds, other, PipesInv
<1>6. CASE ClientSends \/ ClientEnds \/ ClientReads \/ OtherSends \/ OtherEnds
           \/ OtherReads \/ UNCHANGED vars
  BY <1>6 DEF ClientSends, ClientEnds, ClientReads, OtherSends, OtherEnds, OtherReads,
              dispatch, client, other, vars, PipesInv
<1>7. CASE ClientToOther \/ OtherToClient
  BY <1>7 DEF ClientToOther, OtherToClient, Drains, PipesInv
<1>8. QED
  BY <1>1, <1>2, <1>3, <1>4, <1>5, <1>6, <1>7
  DEF Next, Handler, Pipes, Opens, Agrees, Connecting

\* The invariant holds throughout.
LEMMA PipesAlways == Spec => []PipesInv
<1>1. Init => PipesInv
  BY DEF Init, PipesInv
<1>2. RelayInv => PhaseInv
  BY DEF RelayInv
<1>3. QED
  BY <1>1, <1>2, PipesStep, RelayAlways, PTL DEF Spec

\* Once a bridged peer has closed, whichever pipe has noticed and however many
\* segments are still on their way, one of the pipes can move on, or waits in
\* drain() for a peer that is there and does not read, or both have ended: the
\* one that ends closes what the other reads from, and a drain towards a peer
\* that is gone raises (tunnel.py:54-68, 137-161).
THEOREM PipesNeverStuckSafe == Spec => []PipesNeverStuck
<1>1. ASSUME PhaseInv, PipesInv PROVE PipesNeverStuck
  <2> SUFFICES ASSUME PeerEnded, pumps # {}, ~ WaitsForReader
               PROVE  ClientPipeReady \/ OtherPipeReady
    BY DEF PipesNeverStuck
  <2>1. /\ phase = "relay" /\ pumps \subseteq {"c2u", "u2c"}
        /\ up = IF "c2u" \in pumps THEN "open" ELSE "closed"
        /\ "u2c" \notin pumps => wopen = FALSE \/ mode = "http"
        /\ "u2c" \in pumps => wopen = TRUE
        /\ cend \in {"open", "half", "gone"} /\ uend \in {"open", "half", "gone"}
    BY <1>1 DEF PeerEnded, PipesInv, PhaseInv
  <2>2. /\ "c2u" \in blocked => "c2u" \in pumps /\ uend = "gone"
        /\ "u2c" \in blocked => "u2c" \in pumps /\ cend = "gone"
    BY <1>1 DEF PipesInv, WaitsForReader
  <2>3. CASE blocked \cap {"c2u", "u2c"} # {}
    BY <2>2, <2>3 DEF ClientPipeReady, ClientPipeStops, OtherPipeReady, OtherPipeStops
  <2>4. CASE blocked \cap {"c2u", "u2c"} = {} /\ "c2u" \notin pumps
    BY <2>1, <2>4 DEF OtherPipeReady, OtherPipeStops, OtherEOF
  <2>5. CASE /\ blocked \cap {"c2u", "u2c"} = {} /\ "c2u" \in pumps
             /\ mode = "websocket" \/ cend # "open"
    BY <2>1, <2>5 DEF ClientPipeReady, ClientPipeStops, FromClient, ClientEOF
  <2>6. CASE /\ blocked \cap {"c2u", "u2c"} = {} /\ "c2u" \in pumps
             /\ mode # "websocket" /\ cend = "open"
    <3>1. mode # "http" /\ uend # "open"
      BY <2>6 DEF PeerEnded
    <3>2. CASE "u2c" \in pumps
      BY <2>1, <2>6, <3>1, <3>2 DEF OtherPipeReady, OtherPipeStops, OtherEOF
    <3>3. CASE "u2c" \notin pumps
      BY <2>1, <2>6, <3>1, <3>3 DEF ClientPipeReady, ClientPipeStops, ClientEOF
    <3>4. QED
      BY <3>2, <3>3
  <2>7. QED
    BY <2>3, <2>4, <2>5, <2>6
<1>2. QED
  BY <1>1, PipesAlways, RelayAlways, PTL DEF RelayInv

\* And the handler of a bridged connection returns with both connections
\* closed, whatever the mode and whoever closed first (tunnel.py:137-161).
THEOREM ReturnsClosedSafe == Spec => [][ReturnsClosed]_vars
<1>1. PhaseInv /\ PipesInv /\ [Next]_vars => [ReturnsClosed]_vars
  <2> SUFFICES ASSUME PipesInv, Next, phase = "relay", phase' # "relay"
               PROVE  ~ wopen' /\ up' = "closed"
    BY DEF ReturnsClosed
  <2>1. Gathered
    BY DEF Next, Handler, ReadLine, LineTimeout, ReadHeaders, Peek, NoHost, Fails,
           Opens, Agrees, Refuses, Pipes, ClientToOther, ClientPipeEnds,
           OtherToClient, OtherPipeEnds, ClientSends, ClientEnds, ClientReads,
           OtherSends, OtherEnds, OtherReads, dispatch
  <2>2. QED
    BY <2>1 DEF Gathered, Leave, other, PipesInv
<1>2. QED
  BY <1>1, PipesAlways, RelayAlways, PTL DEF RelayInv, Spec
=============================================================================
