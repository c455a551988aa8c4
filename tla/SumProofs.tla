------------------------------- MODULE SumProofs -------------------------------
(***************************************************************************)
(* Sums over finite sets as the community modules make them, one element   *)
(* after the other: that they exist, and that the order does not matter.   *)
(* What induction over the size of a set would show is shown by its least  *)
(* counterexample.                                                         *)
(***************************************************************************)
EXTENDS Integers, FiniteSetsExt, Functions, FiniteSetTheorems, TLAPS

\* A set of natural numbers that is not empty has a least element.
LEMMA LeastNat ==
  ASSUME NEW S \in SUBSET Nat, NEW s \in S
  PROVE  \E m \in S : \A n \in S : m <= n
<1> DEFINE Low(k) == S \cap (0..k)
           T == {Low(k) : k \in S \cap (0..s)}
<1>1. IsFiniteSet(0..s)
  BY FS_Interval
<1>2. /\ IsWellFoundedOn(StrictSubsetOrdering(0..s), FiniteSubsetsOf(0..s))
      /\ FiniteSubsetsOf(0..s) = SUBSET (0..s)
  BY <1>1, FS_StrictSubsetOrderingWellFounded, FS_FiniteSubsetsOfFinite
<1>3. T \subseteq SUBSET (0..s) /\ T # {}
  <2>1. s \in S \cap (0..s)
    OBVIOUS
  <2>2. \A k \in S \cap (0..s) : Low(k) \subseteq 0..s
    OBVIOUS
  <2> HIDE DEF Low
  <2>3. QED
    BY <2>1, <2>2
<1> HIDE DEF T
<1>4. PICK X \in T : \A Y \in T : ~(<<Y, X>> \in StrictSubsetOrdering(0..s))
  <2>1. T \subseteq FiniteSubsetsOf(0..s) /\ T # {}
    BY <1>2, <1>3
  <2>2. IsWellFoundedOn(StrictSubsetOrdering(0..s), FiniteSubsetsOf(0..s))
    BY <1>2
  <2>3. QED
    BY <2>1, <2>2, WFMin
<1>5. PICK m \in S \cap (0..s) : X = Low(m)
  BY <1>4 DEF T
<1>6. ASSUME NEW n \in S, n < m PROVE FALSE
  <2>1. n \in S \cap (0..s) /\ Low(n) \subseteq Low(m) /\ m \in Low(m) /\ m \notin Low(n)
    BY <1>5, <1>6
  <2>2. Low(n) \in T /\ Low(m) \in SUBSET (0..s) /\ Low(n) \in SUBSET (0..s)
    <3>1. Low(n) \in T
      BY <2>1, <1>5, <1>6 DEF T
    <3>2. Low(m) \in T
      BY <1>5 DEF T
    <3> HIDE DEF Low
    <3>3. QED
      BY <1>3, <3>1, <3>2
  <2> HIDE DEF Low
  <2>3. <<Low(n), Low(m)>> \in StrictSubsetOrdering(0..s)
    BY <2>1, <2>2 DEF StrictSubsetOrdering
  <2>4. QED
    BY <1>4, <1>5, <2>2, <2>3
<1>7. QED
  BY <1>5, <1>6

--------------------------------------------------------------------------------
\* The sum of d over S, as MapThenSumSet makes it: one element after the other.
SumOver(d, S) == MapThenSumSet(LAMBDA j : d[j], S)
OneOf(s) == CHOOSE x \in s : TRUE
Summed(d, g, s) == IF s = {} THEN 0 ELSE d[OneOf(s)] + g[s \ {OneOf(s)}]
IsSum(d, D, g) == g = [s \in D |-> Summed(d, g, s)]

\* Without the element that is added first a set has one element fewer.
LEMMA OneFewer ==
  ASSUME NEW S, IsFiniteSet(S), NEW s \in SUBSET S, s # {}
  PROVE  /\ OneOf(s) \in s /\ s \ {OneOf(s)} \in SUBSET S /\ OneOf(s) \in S
         /\ Cardinality(s) \in Nat \ {0}
         /\ Cardinality(s \ {OneOf(s)}) = Cardinality(s) - 1
<1>1. OneOf(s) \in s
  BY DEF OneOf
<1> HIDE DEF OneOf
<1>2. IsFiniteSet(s)
  BY FS_Subset
<1>3. Cardinality(s) \in Nat /\ Cardinality(s) # 0
  BY <1>2, FS_CardinalityType, FS_EmptySet
<1>4. Cardinality(s \ {OneOf(s)}) = Cardinality(s) - 1
  BY <1>1, <1>2, FS_RemoveElement
<1>5. QED
  BY <1>1, <1>3, <1>4

\* The sum over a finite set exists: first for the smallest of its subsets.
LEMMA SumExists ==
  ASSUME NEW d, NEW S, IsFiniteSet(S)
  PROVE  \E g : IsSum(d, SUBSET S, g)
<1> DEFINE Small(m) == {s \in SUBSET S : Cardinality(s) <= m}
           Missing == {m \in Nat : ~\E g : IsSum(d, Small(m), g)}
<1>1. Missing = {}
  <2> SUFFICES ASSUME Missing # {} PROVE FALSE
    OBVIOUS
  <2>1. PICK m \in Missing : \A n \in Missing : m <= n
    <3>1. Missing \in SUBSET Nat
      OBVIOUS
    <3>2. PICK s : s \in Missing
      OBVIOUS
    <3> HIDE DEF Missing
    <3>3. QED
      BY <3>1, <3>2, LeastNat
  <2>2. m \in Nat /\ ~\E g : IsSum(d, Small(m), g)
    BY <2>1
  <2>3. CASE m = 0
    <3>1. ASSUME NEW s \in SUBSET S, Cardinality(s) <= 0 PROVE s = {}
      <4>1. s # {} => Cardinality(s) \in Nat \ {0}
        BY OneFewer
      <4>2. QED
        BY <3>1, <4>1
    <3>2. {} \in Small(0)
      BY FS_EmptySet
    <3>3. Small(0) = {{}}
      BY <3>1, <3>2
    <3> HIDE DEF Small
    <3>4. IsSum(d, Small(0), [s \in {{}} |-> 0])
      BY <3>3 DEF IsSum, Summed
    <3>5. QED
      BY <2>2, <2>3, <3>4
  <2>4. CASE m # 0
    <3>0. m - 1 \in Nat /\ ~(m <= m - 1)
      BY <2>2, <2>4
    <3>1. m - 1 \in Nat /\ m - 1 \notin Missing
      BY <2>1, <3>0
    <3>2. PICK g : IsSum(d, Small(m - 1), g)
      BY <3>1
    <3> DEFINE e == [s \in Small(m) |-> IF s \in Small(m - 1) THEN g[s] ELSE Summed(d, g, s)]
    <3>3. ASSUME NEW s \in Small(m) PROVE e[s] = Summed(d, e, s)
      <4>1. e[s] = Summed(d, g, s)
        BY <3>2 DEF IsSum
      <4>2. CASE s = {}
        BY <4>1, <4>2 DEF Summed
      <4>3. CASE s # {}
        <5> DEFINE r == s \ {OneOf(s)}
        <5>1. /\ r \in SUBSET S /\ Cardinality(r) = Cardinality(s) - 1 /\ Cardinality(s) \in Nat
              /\ Cardinality(s) <= m
          BY <4>3, OneFewer
        <5>2. Cardinality(r) <= m - 1 /\ Cardinality(r) <= m
          BY <2>2, <5>1
        <5>3. r \in Small(m - 1) /\ r \in Small(m)
          BY <5>1, <5>2
        <5> HIDE DEF r, Small
        <5>4. e[r] = g[r]
          BY <5>3
        <5> HIDE DEF e
        <5>5. QED
          BY <4>1, <4>3, <5>4 DEF Summed, r
      <4>4. QED
        BY <4>2, <4>3
    <3>4. e = [s \in Small(m) |-> e[s]]
      OBVIOUS
    <3> HIDE DEF e, Small
    <3>5. IsSum(d, Small(m), e)
      BY <3>3, <3>4 DEF IsSum
    <3>6. QED
      BY <2>2, <3>5
  <2>5. QED
    BY <2>3, <2>4
<1>2. Cardinality(S) \in Nat
  BY FS_CardinalityType
<1>3. Small(Cardinality(S)) = SUBSET S
  BY FS_Subset
<1>4. QED
  BY <1>1, <1>2, <1>3

\* MapThenSumSet is such a sum.
LEMMA SumIs ==
  ASSUME NEW d, NEW S, IsFiniteSet(S)
  PROVE  \E g : IsSum(d, SUBSET S, g) /\ SumOver(d, S) = g[S]
<1> DEFINE h == CHOOSE g : IsSum(d, SUBSET S, g)
<1>1. IsSum(d, SUBSET S, h)
  BY SumExists
<1>2. SumOver(d, S) = h[S]
  BY DEF SumOver, MapThenSumSet, MapThenFoldSet, IsSum, Summed, OneOf
<1>3. QED
  BY <1>1, <1>2

\* Two such sums agree on the sets both are about, if the summands do.
LEMMA SumsAgree ==
  ASSUME NEW d, NEW e, NEW g, NEW h, NEW S, NEW T, IsFiniteSet(S),
         IsSum(d, SUBSET S, g), IsSum(e, SUBSET T, h), S \subseteq T,
         \A x \in S : d[x] = e[x]
  PROVE  \A s \in SUBSET S : g[s] = h[s]
<1> DEFINE Bad == {s \in SUBSET S : g[s] # h[s]}
           Sizes == {Cardinality(s) : s \in Bad}
<1> SUFFICES ASSUME Bad # {} PROVE FALSE
  OBVIOUS
<1>1. \A s \in SUBSET S : Cardinality(s) \in Nat
  BY FS_Subset, FS_CardinalityType
<1>2. Sizes \in SUBSET Nat /\ Sizes # {}
  BY <1>1
<1>3. PICK m \in Sizes : \A n \in Sizes : m <= n
  <2>1. PICK n : n \in Sizes
    BY <1>2
  <2> HIDE DEF Sizes
  <2>2. QED
    BY <1>2, <2>1, LeastNat
<1>4. PICK s \in Bad : m = Cardinality(s)
  BY <1>3
<1>5. s \in SUBSET S /\ s \in SUBSET T
      /\ g[s] = Summed(d, g, s) /\ h[s] = Summed(e, h, s) /\ g[s] # h[s]
  BY <1>4 DEF IsSum
<1>6. s # {}
  BY <1>5 DEF Summed
<1> DEFINE r == s \ {OneOf(s)}
<1>7. r \in SUBSET S /\ OneOf(s) \in S /\ Cardinality(r) = m - 1 /\ m \in Nat
  BY <1>4, <1>5, <1>6, OneFewer
<1>8. r \notin Bad
  <2>1. m - 1 \notin Sizes
    BY <1>3, <1>7
  <2>2. QED
    BY <1>7, <2>1
<1>9. g[r] = h[r]
  BY <1>7, <1>8
<1>10. d[OneOf(s)] = e[OneOf(s)]
  BY <1>7
<1>11. QED
  BY <1>5, <1>6, <1>9, <1>10 DEF Summed

\* Two functions with the same values have the same sum.
LEMMA SumSame ==
  ASSUME NEW d, NEW e, NEW S, IsFiniteSet(S), \A x \in S : d[x] = e[x]
  PROVE  SumOver(d, S) = SumOver(e, S)
<1>1. PICK g : IsSum(d, SUBSET S, g) /\ SumOver(d, S) = g[S]
  BY SumIs
<1>2. PICK h : IsSum(e, SUBSET S, h) /\ SumOver(e, S) = h[S]
  BY SumIs
<1>3. \A s \in SUBSET S : g[s] = h[s]
  BY <1>1, <1>2, SumsAgree
<1>4. QED
  BY <1>1, <1>2, <1>3

\* A sum is one of the summands and the sum of the others, whichever is added first.
LEMMA SumStep ==
  ASSUME NEW d, NEW S, IsFiniteSet(S)
  PROVE  SumOver(d, S) = IF S = {} THEN 0 ELSE d[OneOf(S)] + SumOver(d, S \ {OneOf(S)})
<1>1. PICK g : IsSum(d, SUBSET S, g) /\ SumOver(d, S) = g[S]
  BY SumIs
<1>2. g[S] = Summed(d, g, S)
  BY <1>1 DEF IsSum
<1>3. CASE S = {}
  BY <1>1, <1>2, <1>3 DEF Summed
<1>4. CASE S # {}
  <2> DEFINE r == S \ {OneOf(S)}
  <2>1. r \subseteq S /\ IsFiniteSet(r)
    BY FS_Subset
  <2> HIDE DEF r
  <2>2. PICK h : IsSum(d, SUBSET r, h) /\ SumOver(d, r) = h[r]
    BY <2>1, SumIs
  <2>3. \A s \in SUBSET r : h[s] = g[s]
    BY <1>1, <2>1, <2>2, SumsAgree
  <2>4. g[r] = SumOver(d, r)
    BY <2>2, <2>3
  <2>5. g[S] = d[OneOf(S)] + g[r]
    BY <1>2, <1>4 DEF Summed, r
  <2>6. QED
    BY <1>1, <1>4, <2>4, <2>5 DEF r
<1>5. QED
  BY <1>3, <1>4

\* A sum of integers is an integer.
LEMMA SumType ==
  ASSUME NEW d, NEW S, IsFiniteSet(S), \A x \in S : d[x] \in Int
  PROVE  SumOver(d, S) \in Int
<1> DEFINE Bad == {s \in SUBSET S : SumOver(d, s) \notin Int}
           Sizes == {Cardinality(s) : s \in Bad}
<1> SUFFICES ASSUME Bad # {} PROVE FALSE
  OBVIOUS
<1>1. \A s \in SUBSET S : IsFiniteSet(s) /\ Cardinality(s) \in Nat
  BY FS_Subset, FS_CardinalityType
<1>2. Sizes \in SUBSET Nat /\ Sizes # {}
  BY <1>1
<1>3. PICK m \in Sizes : \A n \in Sizes : m <= n
  <2>1. PICK n : n \in Sizes
    BY <1>2
  <2> HIDE DEF Sizes
  <2>2. QED
    BY <1>2, <2>1, LeastNat
<1>4. PICK s \in Bad : m = Cardinality(s)
  BY <1>3
<1> DEFINE r == s \ {OneOf(s)}
<1>5. SumOver(d, s) = IF s = {} THEN 0 ELSE d[OneOf(s)] + SumOver(d, r)
  BY <1>1, <1>4, SumStep
<1>6. s \in SUBSET S /\ SumOver(d, s) \notin Int
  BY <1>4
<1>7. s # {}
  BY <1>5, <1>6
<1>8. r \in SUBSET S /\ OneOf(s) \in S /\ Cardinality(r) = m - 1 /\ m \in Nat
  BY <1>4, <1>6, <1>7, OneFewer
<1>9. m - 1 \notin Sizes
  BY <1>3, <1>8
<1>10. SumOver(d, r) \in Int
  BY <1>8, <1>9
<1>11. d[OneOf(s)] \in Int
  BY <1>8
<1> HIDE DEF r
<1>12. QED
  BY <1>5, <1>6, <1>7, <1>10, <1>11

\* The order of the summands does not matter: any of them may be taken out.
LEMMA SumSplit ==
  ASSUME NEW d, NEW S, IsFiniteSet(S), \A x \in S : d[x] \in Int, NEW y \in S
  PROVE  SumOver(d, S) = d[y] + SumOver(d, S \ {y})
<1> DEFINE Splits(s) == \A x \in s : SumOver(d, s) = d[x] + SumOver(d, s \ {x})
           Bad == {s \in SUBSET S : ~Splits(s)}
           Sizes == {Cardinality(s) : s \in Bad}
<1>1. Bad = {}
  <2> SUFFICES ASSUME Bad # {} PROVE FALSE
    OBVIOUS
  <2>1. \A s \in SUBSET S : /\ IsFiniteSet(s) /\ Cardinality(s) \in Nat
                            /\ SumOver(d, s) \in Int
    BY FS_Subset, FS_CardinalityType, SumType
  <2>2. Sizes \in SUBSET Nat /\ Sizes # {}
    BY <2>1
  <2>3. PICK m \in Sizes : \A n \in Sizes : m <= n
    <3>1. PICK n : n \in Sizes
      BY <2>2
    <3> HIDE DEF Sizes
    <3>2. QED
      BY <2>2, <3>1, LeastNat
  <2>4. PICK s \in Bad : m = Cardinality(s)
    BY <2>3
  <2>5. s \in SUBSET S /\ ~Splits(s)
    BY <2>4
  <2>6. PICK x \in s : SumOver(d, s) # d[x] + SumOver(d, s \ {x})
    BY <2>5
  <2> DEFINE o == OneOf(s)
  <2>7. SumOver(d, s) = d[o] + SumOver(d, s \ {o})
    BY <2>1, <2>5, <2>6, SumStep
  <2>8. o # x /\ o \in s /\ o \in S /\ x \in S
    BY <2>5, <2>6, <2>7, OneFewer
  <2> HIDE DEF o
  <2>9. ASSUME NEW z \in s PROVE Splits(s \ {z})
    <3>1. s \ {z} \in SUBSET S /\ Cardinality(s \ {z}) = m - 1 /\ m \in Nat
      BY <2>1, <2>4, <2>5, FS_RemoveElement
    <3>2. m - 1 \notin Sizes
      BY <2>3, <3>1
    <3>3. QED
      BY <3>1, <3>2
  <2>10. SumOver(d, s \ {o}) = d[x] + SumOver(d, (s \ {o}) \ {x})
    BY <2>6, <2>8, <2>9
  <2>11. SumOver(d, s \ {x}) = d[o] + SumOver(d, (s \ {x}) \ {o})
    BY <2>6, <2>8, <2>9
  <2>12. (s \ {o}) \ {x} = (s \ {x}) \ {o} /\ (s \ {o}) \ {x} \in SUBSET S
    BY <2>5
  <2>13. SumOver(d, (s \ {o}) \ {x}) \in Int /\ d[o] \in Int /\ d[x] \in Int
    BY <2>1, <2>8, <2>12
  <2> DEFINE rest == SumOver(d, (s \ {o}) \ {x})
  <2>14. /\ SumOver(d, s) = d[o] + (d[x] + rest) /\ SumOver(d, s \ {x}) = d[o] + rest
         /\ rest \in Int /\ d[o] \in Int /\ d[x] \in Int
    BY <2>7, <2>10, <2>11, <2>12, <2>13, Zenon
  <2> HIDE DEF rest
  <2>15. d[o] + (d[x] + rest) = d[x] + (d[o] + rest)
    BY <2>14
  <2>16. QED
    BY <2>6, <2>14, <2>15
<1>2. Splits(S)
  BY <1>1
<1>3. QED
  BY <1>2

\* SumFunction is the sum over the domain.
LEMMA SumFunctionIs == \A f : SumFunction(f) = SumOver(f, DOMAIN f)
BY DEF SumFunction, SumFunctionOnSet, FoldFunctionOnSet, SumOver, MapThenSumSet, MapThenFoldSet

\* A sum of natural numbers is one, and none of them exceeds it.
LEMMA SumBounds ==
  ASSUME NEW d, NEW S, IsFiniteSet(S), \A x \in S : d[x] \in Nat
  PROVE  SumOver(d, S) \in Nat /\ \A x \in S : d[x] <= SumOver(d, S)
<1>1. PICK g : IsSum(d, SUBSET S, g) /\ SumOver(d, S) = g[S]
  BY SumIs
<1> DEFINE Fine(s) == g[s] \in Nat /\ \A x \in s : d[x] <= g[s]
           Bad == {s \in SUBSET S : ~Fine(s)}
           Sizes == {Cardinality(s) : s \in Bad}
<1>2. Bad = {}
  <2> SUFFICES ASSUME Bad # {} PROVE FALSE
    OBVIOUS
  <2>1. \A s \in SUBSET S : Cardinality(s) \in Nat
    BY FS_Subset, FS_CardinalityType
  <2>2. Sizes \in SUBSET Nat /\ Sizes # {}
    BY <2>1
  <2>3. PICK m \in Sizes : \A n \in Sizes : m <= n
    <3>1. PICK n : n \in Sizes
      BY <2>2
    <3> HIDE DEF Sizes
    <3>2. QED
      BY <2>2, <3>1, LeastNat
  <2>4. PICK s \in Bad : m = Cardinality(s)
    BY <2>3
  <2>5. s \in SUBSET S /\ g[s] = Summed(d, g, s) /\ ~Fine(s)
    BY <1>1, <2>4 DEF IsSum
  <2>6. s # {}
    BY <2>5 DEF Summed
  <2> DEFINE r == s \ {OneOf(s)}
  <2>7. /\ r \in SUBSET S /\ OneOf(s) \in S /\ OneOf(s) \in s
        /\ Cardinality(r) = m - 1 /\ m \in Nat
    BY <2>4, <2>5, <2>6, OneFewer
  <2>8. Fine(r)
    <3>1. m - 1 \notin Sizes
      BY <2>3, <2>7
    <3>2. QED
      BY <2>7, <3>1
  <2>9. g[s] = d[OneOf(s)] + g[r] /\ d[OneOf(s)] \in Nat /\ g[r] \in Nat
    BY <2>5, <2>6, <2>7, <2>8 DEF Summed
  <2>10. ASSUME NEW x \in s PROVE d[x] <= g[s] /\ d[x] \in Nat
    <3>1. d[x] \in Nat
      BY <2>5
    <3>2. CASE x = OneOf(s)
      BY <2>9, <3>1, <3>2
    <3>3. CASE x # OneOf(s)
      <4>1. d[x] <= g[r]
        BY <2>8, <3>3
      <4> HIDE DEF r
      <4>2. QED
        BY <2>9, <3>1, <4>1
    <3>4. QED
      BY <3>2, <3>3
  <2> HIDE DEF r
  <2>11. QED
    BY <2>5, <2>9, <2>10
<1>3. Fine(S)
  BY <1>2
<1>4. QED
  BY <1>1, <1>3
================================================================================
