------------------------------ MODULE SumLemmas ------------------------------
(***************************************************************************)
(* Sums of natural numbers over finite sets, as SumFunctionOnSet computes  *)
(* them: element by element, in the order CHOOSE happens to take.          *)
(*                                                                         *)
(* The theorem of finite-set induction has an operator as its parameter,   *)
(* which the provers cannot instantiate, so the lemmas argue with a        *)
(* minimal counterexample instead.  The sum over S is shown to be the      *)
(* number of elements of a set of units, f[x] of them for each x in S; all *)
(* else follows from what is known of cardinalities.                       *)
(***************************************************************************)
EXTENDS Integers, Functions, FiniteSetTheorems, TLAPS

\* Units of the elements of S: <<x, k>> is the k-th unit of x.
Units(f, S) == UNION {{x} \X (1 .. f[x]) : x \in S}

\* A set of subsets of a finite set has a minimal member.
LEMMA MinimalSubset ==
    \A S : IsFiniteSet(S) =>
        \A B \in SUBSET (SUBSET S) : B # {} =>
            \E T \in B : \A U \in B : U \subseteq T => U = T
<1> TAKE S
<1> HAVE IsFiniteSet(S)
<1> TAKE B \in SUBSET (SUBSET S)
<1> HAVE B # {}
<1>1. IsWellFoundedOn(StrictSubsetOrdering(S), FiniteSubsetsOf(S))
    BY FS_StrictSubsetOrderingWellFounded
<1>2. B \subseteq FiniteSubsetsOf(S)
    BY FS_FiniteSubsetsOfFinite
<1>3. \E T \in B : \A U \in B : ~ (<<U, T>> \in StrictSubsetOrdering(S))
    BY <1>1, <1>2, WFMin
<1>4. QED BY <1>3 DEF StrictSubsetOrdering

\* The units of one element more.
LEMMA UnitsAdd ==
    \A D : \A f \in [D -> Nat] : \A S \in SUBSET D : \A x \in S :
        /\ Units(f, S) = Units(f, S \ {x}) \cup ({x} \X (1 .. f[x]))
        /\ Units(f, S \ {x}) \cap ({x} \X (1 .. f[x])) = {}
BY DEF Units

\* One element has as many units as its value says.
LEMMA UnitsOfOne ==
    \A D : \A f \in [D -> Nat] : \A x \in D :
        /\ IsFiniteSet({x} \X (1 .. f[x]))
        /\ Cardinality({x} \X (1 .. f[x])) = f[x]
<1> TAKE D
<1> TAKE f \in [D -> Nat]
<1> TAKE x \in D
<1>1. f[x] \in Nat
    OBVIOUS
<1>2. IsFiniteSet(1 .. f[x]) /\ Cardinality(1 .. f[x]) = f[x]
    BY <1>1, FS_Interval
<1>3. IsFiniteSet({x}) /\ Cardinality({x}) = 1
    BY FS_Singleton
<1>4. /\ IsFiniteSet({x} \X (1 .. f[x]))
      /\ Cardinality({x} \X (1 .. f[x])) = 1 * f[x]
    BY <1>2, <1>3, FS_Product
<1>5. QED BY <1>1, <1>4

\* Finitely many elements have finitely many units.
LEMMA UnitsFinite ==
    \A D : \A f \in [D -> Nat] : \A S \in SUBSET D :
        IsFiniteSet(S) => IsFiniteSet(Units(f, S))
<1> TAKE D
<1> TAKE f \in [D -> Nat]
<1> TAKE S \in SUBSET D
<1> HAVE IsFiniteSet(S)
<1> DEFINE B == {T \in SUBSET S : ~ IsFiniteSet(Units(f, T))}
<1>1. \A T \in SUBSET S : T \in B <=> ~ IsFiniteSet(Units(f, T))
    OBVIOUS
<1>2. B \in SUBSET (SUBSET S)
    OBVIOUS
<1> HIDE DEF B
<1>3. ASSUME B # {} PROVE FALSE
    <2>1. PICK T \in B : \A U \in B : U \subseteq T => U = T
        BY <1>2, <1>3, MinimalSubset
    <2>2. T \in SUBSET S /\ ~ IsFiniteSet(Units(f, T))
        BY <1>1, <1>2, <2>1
    <2>3. T # {}
        <3>1. T = {} => Units(f, T) = {}
            BY DEF Units
        <3>2. QED BY <2>2, <3>1, FS_EmptySet
    <2>4. PICK x \in T : TRUE
        BY <2>3
    <2> DEFINE rest == Units(f, T \ {x})
               own  == {x} \X (1 .. f[x])
    <2>5. IsFiniteSet(rest)
        BY <1>1, <2>1, <2>2, <2>4
    <2>6. IsFiniteSet(own)
        BY <2>2, <2>4, UnitsOfOne
    <2>7. Units(f, T) = rest \cup own
        BY <2>2, <2>4, UnitsAdd
    <2> HIDE DEF rest, own
    <2>8. IsFiniteSet(rest \cup own)
        BY <2>5, <2>6, FS_Union
    <2>9. QED BY <2>2, <2>7, <2>8
<1>4. QED BY <1>1, <1>3

\* One element more adds its value to the number of units.
LEMMA UnitsCount ==
    \A D : \A f \in [D -> Nat] : \A S \in SUBSET D : \A x \in S :
        IsFiniteSet(S) =>
            Cardinality(Units(f, S)) = f[x] + Cardinality(Units(f, S \ {x}))
<1> TAKE D
<1> TAKE f \in [D -> Nat]
<1> TAKE S \in SUBSET D
<1> TAKE x \in S
<1> HAVE IsFiniteSet(S)
<1> DEFINE rest == Units(f, S \ {x})
           own  == {x} \X (1 .. f[x])
<1>1. IsFiniteSet(S \ {x})
    BY FS_RemoveElement
<1>2. IsFiniteSet(rest)
    BY <1>1, UnitsFinite
<1>3. IsFiniteSet(own) /\ Cardinality(own) = f[x] /\ f[x] \in Nat
    BY UnitsOfOne
<1>4. Units(f, S) = rest \cup own /\ rest \cap own = {}
    BY UnitsAdd
<1> HIDE DEF rest, own
<1>5. Cardinality(rest \cup own) =
          Cardinality(rest) + Cardinality(own) - Cardinality(rest \cap own)
    BY <1>2, <1>3, FS_Union
<1>6. Cardinality(rest \cap own) = 0 /\ Cardinality(rest) \in Nat
    BY <1>2, <1>4, FS_EmptySet, FS_CardinalityType
<1>7. Cardinality(Units(f, S)) = f[x] + Cardinality(rest)
    BY <1>3, <1>4, <1>5, <1>6
<1>8. QED BY <1>7 DEF rest

\* Nothing has no units.
LEMMA UnitsEmpty == \A f : Cardinality(Units(f, {})) = 0
<1> TAKE f
<1>1. Units(f, {}) = {}
    BY DEF Units
<1>2. QED BY <1>1, FS_EmptySet

-----------------------------------------------------------------------------

\* What SumFunctionOnSet computes: the recursion it stands for has a solution
\* (the number of units of each subset) and no other.
LEMMA SumIsUnits ==
    \A D : \A f \in [D -> Nat] : \A S \in SUBSET D :
        IsFiniteSet(S) => SumFunctionOnSet(f, S) = Cardinality(Units(f, S))
<1> TAKE D
<1> TAKE f \in [D -> Nat]
<1> TAKE S \in SUBSET D
<1> HAVE IsFiniteSet(S)
<1> DEFINE Solves(h) ==
             h = [s \in SUBSET S |->
                    IF s = {} THEN 0
                    ELSE f[CHOOSE x \in s : TRUE] + h[s \ {CHOOSE x \in s : TRUE}]]
           g == [s \in SUBSET S |-> Cardinality(Units(f, s))]
<1>1. SumFunctionOnSet(f, S) = (CHOOSE h : Solves(h))[S]
    BY DEF SumFunctionOnSet, FoldFunctionOnSet, MapThenFoldSet
<1>2. ASSUME NEW s \in SUBSET S
      PROVE  g[s] = IF s = {} THEN 0
                    ELSE f[CHOOSE x \in s : TRUE] + g[s \ {CHOOSE x \in s : TRUE}]
    <2>1. CASE s = {}
        BY <2>1, UnitsEmpty
    <2>2. CASE s # {}
        <3>1. IsFiniteSet(s) /\ s \in SUBSET D
            BY FS_Subset
        <3>2. PICK x \in s : x = CHOOSE y \in s : TRUE
            BY <2>2
        <3>3. Cardinality(Units(f, s)) = f[x] + Cardinality(Units(f, s \ {x}))
            BY <3>1, UnitsCount
        <3>4. g[s] = f[x] + g[s \ {x}]
            BY <3>3
        <3>5. QED BY <2>2, <3>2, <3>4
    <2>3. QED BY <2>1, <2>2
<1>3. Solves(g)
    BY <1>2
<1>4. ASSUME NEW h, Solves(h) PROVE h = g
    <2>1. ASSUME NEW s \in SUBSET S
          PROVE  h[s] = IF s = {} THEN 0
                        ELSE f[CHOOSE x \in s : TRUE] + h[s \ {CHOOSE x \in s : TRUE}]
        BY <1>4
    <2>2. h = [s \in SUBSET S |-> h[s]]
        BY <1>4
    <2> DEFINE B == {s \in SUBSET S : h[s] # g[s]}
    <2>3. \A s \in SUBSET S : s \in B <=> h[s] # g[s]
        OBVIOUS
    <2>4. B \in SUBSET (SUBSET S)
        OBVIOUS
    <2> HIDE DEF B, g, Solves
    <2>5. ASSUME B # {} PROVE FALSE
        <3>1. PICK s \in B : \A U \in B : U \subseteq s => U = s
            BY <2>4, <2>5, MinimalSubset
        <3>2. s \in SUBSET S /\ h[s] # g[s]
            BY <2>3, <2>4, <3>1
        <3>3. CASE s = {}
            BY <1>2, <2>1, <3>2, <3>3
        <3>4. CASE s # {}
            <4>1. PICK x \in s : x = CHOOSE y \in s : TRUE
                BY <3>4
            <4>2. s \ {x} \in SUBSET S /\ s \ {x} \notin B
                BY <3>1, <3>2, <4>1
            <4>3. h[s \ {x}] = g[s \ {x}]
                BY <2>3, <4>2
            <4>4. h[s] = f[x] + h[s \ {x}]
                BY <2>1, <3>2, <3>4, <4>1
            <4>5. g[s] = f[x] + g[s \ {x}]
                BY <1>2, <3>2, <3>4, <4>1
            <4>6. QED BY <3>2, <4>3, <4>4, <4>5
        <3>5. QED BY <3>3, <3>4
    <2>6. \A s \in SUBSET S : h[s] = g[s]
        BY <2>3, <2>5
    <2>7. QED BY <2>2, <2>6 DEF g
<1> HIDE DEF Solves, g
<1>5. (CHOOSE h : Solves(h)) = g
    BY <1>3, <1>4
<1>6. QED BY <1>1, <1>5 DEF g

\* The sum over nothing.
LEMMA SumEmpty == \A D : \A f \in [D -> Nat] : SumFunctionOnSet(f, {}) = 0
BY SumIsUnits, UnitsEmpty, FS_EmptySet

\* A sum is a natural number.
LEMMA SumType ==
    \A D : \A f \in [D -> Nat] : \A S \in SUBSET D :
        IsFiniteSet(S) => SumFunctionOnSet(f, S) \in Nat
BY SumIsUnits, UnitsFinite, FS_CardinalityType

\* One element contributes its value.
LEMMA SumSplit ==
    \A D : \A f \in [D -> Nat] : \A S \in SUBSET D : \A x \in S :
        IsFiniteSet(S) =>
            SumFunctionOnSet(f, S) = f[x] + SumFunctionOnSet(f, S \ {x})
BY SumIsUnits, UnitsCount, FS_RemoveElement

\* A new element adds its value.
LEMMA SumAdd ==
    \A D : \A f \in [D -> Nat] : \A S \in SUBSET D : \A x \in D \ S :
        IsFiniteSet(S) =>
            SumFunctionOnSet(f, S \cup {x}) = f[x] + SumFunctionOnSet(f, S)
<1> TAKE D
<1> TAKE f \in [D -> Nat]
<1> TAKE S \in SUBSET D
<1> TAKE x \in D \ S
<1> HAVE IsFiniteSet(S)
<1>1. IsFiniteSet(S \cup {x}) /\ S \cup {x} \in SUBSET D /\ x \in S \cup {x}
    BY FS_AddElement
<1>2. (S \cup {x}) \ {x} = S
    OBVIOUS
<1>3. QED BY <1>1, <1>2, SumSplit

\* Fewer elements, no larger sum.
LEMMA SumMonotonic ==
    \A D : \A f \in [D -> Nat] : \A S \in SUBSET D : \A T \in SUBSET S :
        IsFiniteSet(S) => SumFunctionOnSet(f, T) <= SumFunctionOnSet(f, S)
<1> TAKE D
<1> TAKE f \in [D -> Nat]
<1> TAKE S \in SUBSET D
<1> TAKE T \in SUBSET S
<1> HAVE IsFiniteSet(S)
<1>1. IsFiniteSet(Units(f, S)) /\ Units(f, T) \subseteq Units(f, S)
    BY UnitsFinite DEF Units
<1>2. Cardinality(Units(f, T)) <= Cardinality(Units(f, S))
    BY <1>1, FS_Subset
<1>3. IsFiniteSet(T) /\ T \in SUBSET D
    BY FS_Subset
<1>4. QED BY <1>2, <1>3, SumIsUnits

\* Only the values on the set count.
LEMMA SumSame ==
    \A D : \A f, g \in [D -> Nat] : \A S \in SUBSET D :
        IsFiniteSet(S) /\ (\A x \in S : f[x] = g[x]) =>
            SumFunctionOnSet(f, S) = SumFunctionOnSet(g, S)
<1> TAKE D
<1> TAKE f, g \in [D -> Nat]
<1> TAKE S \in SUBSET D
<1> HAVE IsFiniteSet(S) /\ \A x \in S : f[x] = g[x]
<1>1. Units(f, S) = Units(g, S)
    BY DEF Units
<1>2. QED BY <1>1, SumIsUnits

\* Changing the value of one element changes the sum by as much.
LEMMA SumUpdate ==
    \A D : \A f, g \in [D -> Nat] : \A S \in SUBSET D : \A x \in S :
        IsFiniteSet(S) /\ (\A y \in S \ {x} : f[y] = g[y]) =>
            SumFunctionOnSet(g, S) + f[x] = SumFunctionOnSet(f, S) + g[x]
<1> TAKE D
<1> TAKE f, g \in [D -> Nat]
<1> TAKE S \in SUBSET D
<1> TAKE x \in S
<1> HAVE IsFiniteSet(S) /\ \A y \in S \ {x} : f[y] = g[y]
<1>1. IsFiniteSet(S \ {x}) /\ S \ {x} \in SUBSET D
    BY FS_RemoveElement
<1>2. SumFunctionOnSet(f, S \ {x}) = SumFunctionOnSet(g, S \ {x})
    BY <1>1, SumSame
<1>3. /\ SumFunctionOnSet(f, S) = f[x] + SumFunctionOnSet(f, S \ {x})
      /\ SumFunctionOnSet(g, S) = g[x] + SumFunctionOnSet(g, S \ {x})
    BY SumSplit
<1>4. SumFunctionOnSet(f, S \ {x}) \in Nat /\ f[x] \in Nat /\ g[x] \in Nat
    BY <1>1, SumType
<1>5. QED BY <1>2, <1>3, <1>4

\* A sum of zeros.
LEMMA SumZeros ==
    \A D : \A f \in [D -> Nat] : \A S \in SUBSET D :
        IsFiniteSet(S) /\ (\A x \in S : f[x] = 0) => SumFunctionOnSet(f, S) = 0
<1> TAKE D
<1> TAKE f \in [D -> Nat]
<1> TAKE S \in SUBSET D
<1> HAVE IsFiniteSet(S) /\ \A x \in S : f[x] = 0
<1>1. Units(f, S) = {}
    BY DEF Units
<1>2. QED BY <1>1, SumIsUnits, FS_EmptySet

\* Values that grow by at most one, and their sum.
LEMMA SumGrowth ==
    \A D : \A f, g \in [D -> Nat] : \A S \in SUBSET D :
        IsFiniteSet(S) /\ (\A x \in S : g[x] <= f[x] + 1) =>
            SumFunctionOnSet(g, S) <= SumFunctionOnSet(f, S) + Cardinality(S)
<1> TAKE D
<1> TAKE f, g \in [D -> Nat]
<1> TAKE S \in SUBSET D
<1> HAVE IsFiniteSet(S) /\ \A x \in S : g[x] <= f[x] + 1
<1> DEFINE Grows(T) ==
             SumFunctionOnSet(g, T) <= SumFunctionOnSet(f, T) + Cardinality(T)
           B == {T \in SUBSET S : ~ Grows(T)}
<1>1. \A T \in SUBSET S : T \in B <=> ~ Grows(T)
    OBVIOUS
<1>2. B \in SUBSET (SUBSET S)
    OBVIOUS
<1> HIDE DEF B
<1>3. ASSUME B # {} PROVE FALSE
    <2>1. PICK T \in B : \A U \in B : U \subseteq T => U = T
        BY <1>2, <1>3, MinimalSubset
    <2>2. T \in SUBSET S /\ ~ Grows(T)
        BY <1>1, <1>2, <2>1
    <2>3. T # {}
        <3>1. Grows({})
            BY SumEmpty, FS_EmptySet
        <3>2. QED BY <2>2, <3>1
    <2>4. PICK x \in T : TRUE
        BY <2>3
    <2>5. IsFiniteSet(T) /\ T \in SUBSET D
        BY <2>2, FS_Subset
    <2>6. IsFiniteSet(T \ {x}) /\ T \ {x} \in SUBSET D /\ T \ {x} \in SUBSET S
        BY <2>2, <2>5, FS_RemoveElement
    <2>7. Grows(T \ {x})
        BY <1>1, <2>1, <2>4, <2>6
    <2>8. SumFunctionOnSet(f, T) = f[x] + SumFunctionOnSet(f, T \ {x})
        BY <2>4, <2>5, SumSplit
    <2>9. SumFunctionOnSet(g, T) = g[x] + SumFunctionOnSet(g, T \ {x})
        BY <2>4, <2>5, SumSplit
    <2>10. /\ SumFunctionOnSet(f, T \ {x}) \in Nat
           /\ SumFunctionOnSet(g, T \ {x}) \in Nat
        BY <2>6, SumType
    <2>11. Cardinality(T) = Cardinality(T \ {x}) + 1 /\ Cardinality(T \ {x}) \in Nat
        BY <2>4, <2>5, <2>6, FS_RemoveElement, FS_CardinalityType
    <2>12. f[x] \in Nat /\ g[x] \in Nat /\ g[x] <= f[x] + 1
        BY <2>2, <2>4
    <2>13. Grows(T)
        BY <2>7, <2>8, <2>9, <2>10, <2>11, <2>12
    <2>14. QED BY <2>2, <2>13
<1>4. Grows(S)
    BY <1>1, <1>3
<1>5. QED BY <1>4

-----------------------------------------------------------------------------

\* Finitely many numbers have a largest one.
LEMMA LargestValue ==
    \A S : \A f \in [S -> Nat] :
        IsFiniteSet(S) /\ S # {} => \E x \in S : \A y \in S : f[y] <= f[x]
<1> TAKE S
<1> TAKE f \in [S -> Nat]
<1> HAVE IsFiniteSet(S) /\ S # {}
<1> DEFINE B == {T \in SUBSET S : T # {} /\ \A t \in T, u \in S \ T : f[u] <= f[t]}
<1>1. B \in SUBSET (SUBSET S) /\ S \in B
    OBVIOUS
<1>2. \A T \in SUBSET S :
         T \in B <=> T # {} /\ \A t \in T, u \in S \ T : f[u] <= f[t]
    OBVIOUS
<1> HIDE DEF B
<1>3. PICK T \in B : \A U \in B : U \subseteq T => U = T
    BY <1>1, MinimalSubset
<1>4. /\ T \in SUBSET S /\ T # {}
      /\ \A t \in T, u \in S \ T : f[u] <= f[t]
    BY <1>1, <1>2, <1>3
<1>5. PICK x \in T : TRUE
    BY <1>4
<1> DEFINE U == {t \in T : f[t] > f[x]}
<1>6. U = {}
    <2>1. U \in SUBSET S /\ U \subseteq T /\ U # T
        BY <1>4, <1>5
    <2>2. \A t \in U, u \in S \ U : f[u] <= f[t]
        BY <1>4, <1>5
    <2>3. U # {} => U \in B
        BY <1>2, <2>1, <2>2
    <2>4. QED BY <1>3, <2>1, <2>3
<1>7. \A y \in S : f[y] <= f[x]
    <2>1. ASSUME NEW y \in T PROVE f[y] <= f[x]
        BY <1>4, <1>5, <1>6
    <2>2. QED BY <1>4, <1>5, <2>1
<1>8. QED BY <1>4, <1>5, <1>7
==============================================================================
