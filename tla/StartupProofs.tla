----------------------------- MODULE StartupProofs -----------------------------
(***************************************************************************)
(* Proofs about Startup, for any configurations the parser can give: the   *)
(* division of workers, the selection of metrics and the turns through the *)
(* namespaces as lemmas about their operators, and an invariant that says  *)
(* what each step may rely on.                                             *)
(***************************************************************************)
EXTENDS Startup, SumProofs

--------------------------------------------------------------------------------
(* The division of workers *)

\* The signals are finitely many.
LEMMA SignalFinite == IsFiniteSet(Signal)
<1>1. IsFiniteSet({"traces"})
  BY FS_Singleton
<1>2. IsFiniteSet({"traces"} \cup {"metrics"})
  BY <1>1, FS_AddElement
<1>3. IsFiniteSet(({"traces"} \cup {"metrics"}) \cup {"logs"})
  BY <1>2, FS_AddElement
<1>4. Signal = ({"traces"} \cup {"metrics"}) \cup {"logs"}
  BY DEF Signal
<1>5. QED
  BY <1>3, <1>4

\* A sum over the signals.
LEMMA SignalSum ==
  ASSUME NEW f, DOMAIN f = Signal, \A s \in Signal : f[s] \in Int
  PROVE  SumFunction(f) = f["traces"] + f["metrics"] + f["logs"]
<1>1. IsFiniteSet(Signal)
  BY SignalFinite
<1> DEFINE Two == Signal \ {"traces"}
           One == Two \ {"metrics"}
           None == One \ {"logs"}
<1>2. /\ "traces" \in Signal /\ "metrics" \in Two /\ "logs" \in One /\ None = {}
      /\ Two \subseteq Signal /\ One \subseteq Signal /\ None \subseteq Signal
  BY DEF Signal
<1>3. IsFiniteSet(Two) /\ IsFiniteSet(One) /\ IsFiniteSet(None)
  BY <1>1, <1>2, FS_Subset
<1>4. SumOver(f, Signal) = f["traces"] + SumOver(f, Two)
  BY <1>1, <1>2, SumSplit
<1>5. SumOver(f, Two) = f["metrics"] + SumOver(f, One)
  <2>1. \A s \in Two : f[s] \in Int
    BY <1>2
  <2> HIDE DEF Two
  <2>2. QED
    BY <1>2, <1>3, <2>1, SumSplit
<1>6. SumOver(f, One) = f["logs"] + SumOver(f, None)
  <2>1. \A s \in One : f[s] \in Int
    BY <1>2
  <2> HIDE DEF One
  <2>2. QED
    BY <1>2, <1>3, <2>1, SumSplit
<1>7. SumOver(f, None) = 0
  <2> HIDE DEF None
  <2>1. QED
    BY <1>2, <1>3, SumStep
<1>8. SumFunction(f) = SumOver(f, Signal)
  BY SumFunctionIs
<1>9. f["traces"] \in Int /\ f["metrics"] \in Int /\ f["logs"] \in Int
  BY DEF Signal
<1> HIDE DEF Two, One, None
<1>10. QED
  BY <1>4, <1>5, <1>6, <1>7, <1>8, <1>9

\* The rounding of a quotient.
LEMMA Rounding ==
  ASSUME NEW m \in Nat, NEW T \in Nat \ {0}
  PROVE  m \div T \in Nat /\ (m \div T) * T <= m /\ m < (m \div T) * T + T
<1> DEFINE k == m \div T
<1>1. k \in Int /\ k * T <= m /\ m < k * T + T
  OBVIOUS
<1>2. k >= 0
  BY <1>1
<1>3. QED
  BY <1>1, <1>2

\* Multiples of a positive number are in the order of their factors.
LEMMA Factors ==
  ASSUME NEW i \in Int, NEW j \in Int, NEW T \in Nat \ {0}
  PROVE  /\ i * T <= j * T => i <= j
         /\ i * T < j * T => i < j
         /\ i <= j => i * T <= j * T
<1>1. ASSUME i < j PROVE i * T < j * T
  <2> DEFINE d == j - i
  <2>1. d \in Nat \ {0} /\ j = i + d
    BY <1>1
  <2> HIDE DEF d
  <2>2. j * T = i * T + d * T
    BY <2>1
  <2>3. d * T > 0
    BY <2>1
  <2>4. i * T \in Int /\ d * T \in Int
    BY <2>1
  <2>5. QED
    BY <2>2, <2>3, <2>4
<1>2. ASSUME j < i PROVE j * T < i * T
  <2> DEFINE d == i - j
  <2>1. d \in Nat \ {0} /\ i = j + d
    BY <1>2
  <2> HIDE DEF d
  <2>2. i * T = j * T + d * T
    BY <2>1
  <2>3. d * T > 0
    BY <2>1
  <2>4. j * T \in Int /\ d * T \in Int
    BY <2>1
  <2>5. QED
    BY <2>2, <2>3, <2>4
<1>3. i * T \in Int /\ j * T \in Int
  OBVIOUS
<1>4. i = j => i * T = j * T
  OBVIOUS
<1>5. QED
  BY <1>1, <1>2, <1>3, <1>4

\* The exact shares, rounded down, are no more than there are workers; a signal that is not
\* alone gets less than all.
LEMMA SharesRounded ==
  ASSUME NEW n \in Nat \ {0}, NEW a \in Nat, NEW b \in Nat, NEW c \in Nat,
         NEW T, T = a + b + c, T > 0
  PROVE  LET A == (n * a) \div T
             B == (n * b) \div T
             C == (n * c) \div T
         IN /\ A \in Nat /\ B \in Nat /\ C \in Nat /\ A + B + C <= n
            /\ a > 0 => B < n /\ C < n
            /\ b > 0 => A < n /\ C < n
            /\ c > 0 => A < n /\ B < n
<1> DEFINE A == (n * a) \div T
           B == (n * b) \div T
           C == (n * c) \div T
<1>1. T \in Nat \ {0} /\ n * a \in Nat /\ n * b \in Nat /\ n * c \in Nat
  OBVIOUS
<1>2. /\ A \in Nat /\ A * T <= n * a
      /\ B \in Nat /\ B * T <= n * b
      /\ C \in Nat /\ C * T <= n * c
  BY <1>1, Rounding
<1> HIDE DEF A, B, C
<1>3. n * T = n * a + n * b + n * c /\ (A + B + C) * T = A * T + B * T + C * T
  BY <1>1, <1>2
<1>4. A * T \in Nat /\ B * T \in Nat /\ C * T \in Nat
  BY <1>1, <1>2
<1>5. (A + B + C) * T <= n * T
  BY <1>1, <1>2, <1>3, <1>4
<1>6. A + B + C <= n
  BY <1>1, <1>2, <1>5, Factors
<1>7. /\ a > 0 => n * a > 0
      /\ b > 0 => n * b > 0
      /\ c > 0 => n * c > 0
  OBVIOUS
<1>8. /\ a > 0 => B * T < n * T /\ C * T < n * T
      /\ b > 0 => A * T < n * T /\ C * T < n * T
      /\ c > 0 => A * T < n * T /\ B * T < n * T
  BY <1>1, <1>2, <1>3, <1>4, <1>7
<1>9. /\ A * T < n * T => A < n
      /\ B * T < n * T => B < n
      /\ C * T < n * T => C < n
  BY <1>1, <1>2, Factors
<1>10. QED
  BY <1>2, <1>6, <1>8, <1>9 DEF A, B, C

\* The number of signals in a set.
LEMMA SignalCount ==
  ASSUME NEW S \in SUBSET Signal
  PROVE  Cardinality(S) = (IF "traces" \in S THEN 1 ELSE 0) + (IF "metrics" \in S THEN 1 ELSE 0)
                          + (IF "logs" \in S THEN 1 ELSE 0)
<1> DEFINE Two == S \ {"traces"}
           One == Two \ {"metrics"}
           None == One \ {"logs"}
<1>1. None = {} /\ ("metrics" \in Two <=> "metrics" \in S) /\ ("logs" \in One <=> "logs" \in S)
  BY DEF Signal
<1>2. IsFiniteSet(S) /\ IsFiniteSet(Two) /\ IsFiniteSet(One)
  BY SignalFinite, FS_Subset
<1>3. /\ Cardinality(S) \in Nat
      /\ Cardinality(Two) = IF "traces" \in S THEN Cardinality(S) - 1 ELSE Cardinality(S)
  BY <1>2, FS_RemoveElement, FS_CardinalityType
<1>4. /\ Cardinality(Two) \in Nat
      /\ Cardinality(One) = IF "metrics" \in Two THEN Cardinality(Two) - 1 ELSE Cardinality(Two)
  <2> HIDE DEF Two
  <2>1. QED
    BY <1>2, FS_RemoveElement, FS_CardinalityType
<1>5. /\ Cardinality(One) \in Nat
      /\ Cardinality(None) = IF "logs" \in One THEN Cardinality(One) - 1 ELSE Cardinality(One)
  <2> HIDE DEF One
  <2>1. QED
    BY <1>2, FS_RemoveElement, FS_CardinalityType
<1>6. Cardinality(None) = 0
  BY <1>1, FS_EmptySet
<1> HIDE DEF Two, One, None
<1>7. QED
  BY <1>1, <1>3, <1>4, <1>5, <1>6

\* The numbers of events that a division is about.
LEMMA EventCounts ==
  ASSUME NEW events \in [Signal -> Nat]
  PROVE  /\ events["traces"] \in Nat /\ events["metrics"] \in Nat /\ events["logs"] \in Nat
         /\ TotalEvents(events) = events["traces"] + events["metrics"] + events["logs"]
         /\ Cardinality(ActiveSignals(events)) =
              (IF events["traces"] > 0 THEN 1 ELSE 0) + (IF events["metrics"] > 0 THEN 1 ELSE 0)
              + (IF events["logs"] > 0 THEN 1 ELSE 0)
<1>1. events["traces"] \in Nat /\ events["metrics"] \in Nat /\ events["logs"] \in Nat
  BY DEF Signal
<1>2. TotalEvents(events) = events["traces"] + events["metrics"] + events["logs"]
  <2>1. DOMAIN events = Signal /\ \A s \in Signal : events[s] \in Int
    OBVIOUS
  <2>2. QED
    BY <2>1, SignalSum DEF TotalEvents
<1>3. /\ ActiveSignals(events) \in SUBSET Signal
      /\ \A s \in Signal : s \in ActiveSignals(events) <=> events[s] > 0
  BY DEF ActiveSignals
<1>4. "traces" \in Signal /\ "metrics" \in Signal /\ "logs" \in Signal
  BY DEF Signal
<1>5. QED
  BY <1>1, <1>2, <1>3, <1>4, SignalCount

\* The shares: every signal with events has one, and together they exceed the workers by at
\* most one, unless each of the three has one.
LEMMA SharesNear ==
  ASSUME NEW n \in Nat \ {0}, NEW events \in [Signal -> Nat], TotalEvents(events) > 0
  PROVE  LET share == [s \in Signal |-> Share(n, events, s)]
             assigned == SumFunction(share)
         IN /\ share \in [Signal -> Nat] /\ assigned \in Nat
            /\ \A s \in Signal : events[s] > 0 => share[s] > 0
            /\ assigned <= n + 1 \/ assigned = Cardinality(ActiveSignals(events))
<1> DEFINE a == events["traces"]
           b == events["metrics"]
           c == events["logs"]
           T == TotalEvents(events)
           share == [s \in Signal |-> Share(n, events, s)]
           A == (n * a) \div T
           B == (n * b) \div T
           C == (n * c) \div T
           AtLeastOne(e, m) == IF e > 0 /\ m = 0 THEN 1 ELSE m
<1>1. /\ a \in Nat /\ b \in Nat /\ c \in Nat /\ T = a + b + c
      /\ Cardinality(ActiveSignals(events)) =
           (IF a > 0 THEN 1 ELSE 0) + (IF b > 0 THEN 1 ELSE 0) + (IF c > 0 THEN 1 ELSE 0)
  BY EventCounts
<1>2. \A s \in Signal : Share(n, events, s) = AtLeastOne(events[s], (n * events[s]) \div T)
  BY DEF Share, ActiveSignals
<1>3. "traces" \in Signal /\ "metrics" \in Signal /\ "logs" \in Signal
  BY DEF Signal
<1>4. /\ share["traces"] = AtLeastOne(a, A) /\ share["metrics"] = AtLeastOne(b, B)
      /\ share["logs"] = AtLeastOne(c, C)
  BY <1>2, <1>3
<1> HIDE DEF a, b, c, T
<1>5. /\ A \in Nat /\ B \in Nat /\ C \in Nat /\ A + B + C <= n
      /\ a > 0 => B < n /\ C < n
      /\ b > 0 => A < n /\ C < n
      /\ c > 0 => A < n /\ B < n
  <2>1. T > 0
    BY DEF T
  <2>2. QED
    BY <1>1, <2>1, SharesRounded
<1> HIDE DEF A, B, C
<1>6. \A s \in Signal : s = "traces" \/ s = "metrics" \/ s = "logs"
  BY DEF Signal
<1>7. \A s \in Signal : share[s] \in Nat /\ (events[s] > 0 => share[s] > 0)
  BY <1>1, <1>4, <1>5, <1>6 DEF a, b, c
<1>8. DOMAIN share = Signal /\ share \in [Signal -> Nat]
  BY <1>7
<1> HIDE DEF share
<1>9. SumFunction(share) = share["traces"] + share["metrics"] + share["logs"]
  BY <1>7, <1>8, SignalSum
<1>10. /\ SumFunction(share) \in Nat
       /\ SumFunction(share) <= n + 1 \/ SumFunction(share) = Cardinality(ActiveSignals(events))
  BY <1>1, <1>4, <1>5, <1>9
<1>11. QED
  BY <1>7, <1>8, <1>10 DEF share

\* However few the workers and however uneven the events: each signal with events has a
\* worker, and all workers are used, with at most one more.
LEMMA Divided ==
  ASSUME NEW n \in Nat \ {0}, NEW events \in [Signal -> Nat]
  PROVE  LET active == Cardinality(ActiveSignals(events))
             total == SumFunction(Distribution(n, events))
         IN /\ Distribution(n, events) \in [Signal -> Nat]
            /\ \A s \in Signal : events[s] > 0 => Distribution(n, events)[s] > 0
            /\ IF n < active THEN total = active ELSE total \in {active, n, n + 1}
<1> DEFINE active == Cardinality(ActiveSignals(events))
           T == TotalEvents(events)
           shares == [s \in Signal |-> Share(n, events, s)]
           assigned == SumFunction(shares)
           D == Distribution(n, events)
<1>1. /\ T \in Nat /\ active \in Nat
      /\ T = 0 => active = 0 /\ \A s \in Signal : events[s] = 0
      /\ T # 0 => active > 0
      /\ active = (IF events["traces"] > 0 THEN 1 ELSE 0)
                  + (IF events["metrics"] > 0 THEN 1 ELSE 0)
                  + (IF events["logs"] > 0 THEN 1 ELSE 0)
  BY EventCounts DEF Signal
<1>2. "traces" \in Signal /\ "metrics" \in Signal /\ "logs" \in Signal
  BY DEF Signal
<1>3. ASSUME D \in [Signal -> Nat]
      PROVE  SumFunction(D) = D["traces"] + D["metrics"] + D["logs"]
  <2>1. DOMAIN D = Signal /\ \A s \in Signal : D[s] \in Int
    BY <1>3
  <2> HIDE DEF D
  <2>2. QED
    BY <2>1, SignalSum
<1>4. CASE T = 0
  <2>1. D = [s \in Signal |-> IF s = "traces" THEN n ELSE 0]
    BY <1>4 DEF Distribution
  <2> HIDE DEF D
  <2>2. D \in [Signal -> Nat] /\ D["traces"] = n /\ D["metrics"] = 0 /\ D["logs"] = 0
    BY <1>2, <2>1
  <2>3. SumFunction(D) = n
    BY <1>3, <2>2
  <2>4. QED
    BY <1>1, <1>4, <2>2, <2>3 DEF D
<1>5. CASE T > 0 /\ n < MinWorkers(n, events)
  <2>1. D = [s \in Signal |-> IF s \in ActiveSignals(events) THEN 1 ELSE 0]
    BY <1>5 DEF Distribution
  <2> HIDE DEF D
  <2>2. /\ D \in [Signal -> Nat] /\ D["traces"] = (IF events["traces"] > 0 THEN 1 ELSE 0)
        /\ D["metrics"] = (IF events["metrics"] > 0 THEN 1 ELSE 0)
        /\ D["logs"] = (IF events["logs"] > 0 THEN 1 ELSE 0)
        /\ \A s \in Signal : events[s] > 0 => D[s] > 0
    BY <1>2, <2>1 DEF ActiveSignals
  <2>3. SumFunction(D) = active
    BY <1>1, <1>3, <2>2
  <2>4. QED
    BY <2>2, <2>3 DEF D
<1>6. CASE T > 0 /\ ~(n < MinWorkers(n, events))
  <2> DEFINE more == IF n > assigned THEN n - assigned ELSE 0
             l == Largest(events)
  <2>1. D = [shares EXCEPT ![l] = @ + more]
    BY <1>6 DEF Distribution
  <2>2. /\ shares \in [Signal -> Nat] /\ assigned \in Nat
        /\ \A s \in Signal : events[s] > 0 => shares[s] > 0
        /\ assigned <= n + 1 \/ assigned = active
    BY <1>6, SharesNear
  <2>3. l \in Signal
    BY <1>2, EventCounts DEF Largest
  <2>4. ~(n < active)
    BY <1>1, <1>6 DEF MinWorkers
  <2>5. assigned = shares["traces"] + shares["metrics"] + shares["logs"]
    <3>1. DOMAIN shares = Signal /\ \A s \in Signal : shares[s] \in Int
      BY <2>2
    <3> HIDE DEF shares
    <3>2. QED
      BY <3>1, SignalSum
  <2> HIDE DEF D, shares, assigned, l
  <2>6. more \in Nat /\ assigned + more = IF n > assigned THEN n ELSE assigned
    BY <2>2
  <2> HIDE DEF more
  <2>7. /\ D \in [Signal -> Nat]
        /\ \A s \in Signal : D[s] = IF s = l THEN shares[s] + more ELSE shares[s]
    BY <2>1, <2>2, <2>3, <2>6
  <2>8. \A s \in Signal : events[s] > 0 => D[s] > 0
    BY <2>2, <2>6, <2>7
  <2>9. SumFunction(D) = assigned + more
    <3>1. l = "traces" \/ l = "metrics" \/ l = "logs"
      BY <2>3 DEF Signal
    <3>2. /\ shares["traces"] \in Nat /\ shares["metrics"] \in Nat /\ shares["logs"] \in Nat
      BY <1>2, <2>2
    <3>3. QED
      BY <1>2, <1>3, <2>5, <2>6, <2>7, <3>1, <3>2
  <2>10. SumFunction(D) \in {active, n, n + 1}
    BY <1>1, <2>2, <2>4, <2>6, <2>9
  <2>11. QED
    BY <2>4, <2>7, <2>8, <2>10 DEF D
<1>7. QED
  BY <1>1, <1>4, <1>5, <1>6

--------------------------------------------------------------------------------
(* The selection of metrics *)

\* There are 18 types of metrics.
LEMMA SizesAre ==
  /\ TypeSizes \in Seq(Nat) /\ Len(TypeSizes) = 18 /\ DOMAIN TypeSizes = 1..18
  /\ \A i \in 1..18 : TypeSizes[i] \in Nat
<1>1. TypeSizes \in Seq(Nat) /\ Len(TypeSizes) = 18
  BY DEF TypeSizes
<1> DEFINE T == TypeSizes
<1> HIDE DEF T
<1>2. T \in Seq(Nat) /\ Len(T) = 18
  BY <1>1 DEF T
<1>3. DOMAIN T = 1..18 /\ \A i \in 1..18 : T[i] \in Nat
  <2>1. \A s \in Seq(Nat) : DOMAIN s = 1..Len(s) /\ \A i \in 1..Len(s) : s[i] \in Nat
    OBVIOUS
  <2>2. QED
    BY <1>2, <2>1
<1>4. QED
  BY <1>1, <1>3 DEF T

\* A sum over an initial segment of the numbers, from its end.
LEMMA SegmentSum ==
  ASSUME NEW d, NEW k \in Nat \ {0}, \A i \in 1..k : d[i] \in Int
  PROVE  /\ SumOver(d, 1..k) = SumOver(d, 1..(k - 1)) + d[k]
         /\ SumOver(d, 1..(k - 1)) \in Int
         /\ k = 1 => SumOver(d, 1..(k - 1)) = 0
<1> DEFINE S == 1..k
           R == 1..(k - 1)
<1>1. /\ k \in S /\ S \ {k} = R /\ R \subseteq S /\ d[k] \in Int
      /\ \A i \in S : d[i] \in Int
      /\ k = 1 => R = {}
  OBVIOUS
<1>2. IsFiniteSet(S) /\ IsFiniteSet(R)
  BY FS_Interval
<1> HIDE DEF S, R
<1>3. SumOver(d, S) = d[k] + SumOver(d, S \ {k})
  BY <1>1, <1>2, SumSplit
<1>4. SumOver(d, R) \in Int
  BY <1>1, <1>2, SumType
<1>5. R = {} => SumOver(d, R) = 0
  BY <1>2, SumStep
<1>6. SumOver(d, S) = SumOver(d, R) + d[k]
  BY <1>1, <1>3, <1>4
<1>7. QED
  BY <1>1, <1>4, <1>5, <1>6 DEF S, R

\* The metrics of a type come after those of the types before it.
LEMMA TypeEnds ==
  /\ TypeEnd(1) = TypeSizes[1]
  /\ \A k \in 2..18 : TypeEnd(k) = TypeEnd(k - 1) + TypeSizes[k]
<1>0. ASSUME NEW i \in 1..18 PROVE TypeSizes[i] \in Int
  <2>1. TypeSizes[i] \in Nat
    BY SizesAre, Zenon
  <2>2. QED
    BY <2>1
<1>1. ASSUME NEW k \in 1..18 PROVE TypeEnd(k) = SumOver(TypeSizes, 1..k)
  <2> DEFINE first == SubSeq(TypeSizes, 1, k)
             T == TypeSizes
  <2>1. DOMAIN first = 1..k /\ \A i \in 1..k : first[i] = T[i]
    <3>1. T \in Seq(Nat) /\ 1 \in 1..(Len(T) + 1) /\ k \in 0..Len(T)
      BY SizesAre
    <3> HIDE DEF T
    <3>2. first = [i \in 1..k |-> T[i]]
      BY <3>1 DEF T
    <3>3. QED
      BY <3>2
  <2>2. IsFiniteSet(1..k)
    BY FS_Interval
  <2> HIDE DEF first, T
  <2>3. SumOver(first, 1..k) = SumOver(T, 1..k)
    BY <2>1, <2>2, SumSame
  <2>4. SumFunction(first) = SumOver(first, 1..k)
    BY <2>1, SumFunctionIs
  <2>5. QED
    BY <2>3, <2>4 DEF TypeEnd, first, T
<1>2. ASSUME NEW k \in 1..18
      PROVE  /\ SumOver(TypeSizes, 1..k) = SumOver(TypeSizes, 1..(k - 1)) + TypeSizes[k]
             /\ k = 1 => SumOver(TypeSizes, 1..(k - 1)) = 0
  <2> DEFINE T == TypeSizes
  <2>1. k \in Nat \ {0} /\ \A i \in 1..k : T[i] \in Int
    BY <1>0
  <2> HIDE DEF T
  <2>2. /\ SumOver(T, 1..k) = SumOver(T, 1..(k - 1)) + T[k]
        /\ k = 1 => SumOver(T, 1..(k - 1)) = 0
    BY <2>1, SegmentSum
  <2>3. QED
    BY <2>2 DEF T
<1>3. TypeEnd(1) = TypeSizes[1]
  <2>1. 1 \in 1..18
    OBVIOUS
  <2>2. TypeSizes[1] \in Int
    BY <1>0, <2>1
  <2>3. QED
    BY <1>1, <1>2, <2>1, <2>2
<1>4. ASSUME NEW k \in 2..18 PROVE TypeEnd(k) = TypeEnd(k - 1) + TypeSizes[k]
  <2>1. k \in 1..18 /\ k - 1 \in 1..18
    OBVIOUS
  <2>2. QED
    BY <1>1, <1>2, <2>1
<1>5. QED
  BY <1>3, <1>4

\* The ranges of the types lie one after the other in all that is available.
LEMMA TypeRanges ==
  /\ Available = 197
  /\ \A k \in DOMAIN TypeSizes :
       /\ TypeEnd(k) \in Nat /\ TypeSizes[k] \in Nat
       /\ TypeSizes[k] <= TypeEnd(k) /\ TypeEnd(k) <= Available
<1>1. /\ TypeEnd(1) = 10 /\ TypeEnd(2) = 12 /\ TypeEnd(3) = 15 /\ TypeEnd(4) = 20
      /\ TypeEnd(5) = 25 /\ TypeEnd(6) = 37
  BY TypeEnds DEF TypeSizes
<1>2. /\ TypeEnd(7) = 46 /\ TypeEnd(8) = 56 /\ TypeEnd(9) = 61 /\ TypeEnd(10) = 71
      /\ TypeEnd(11) = 102 /\ TypeEnd(12) = 117
  BY <1>1, TypeEnds DEF TypeSizes
<1>3. /\ TypeEnd(13) = 143 /\ TypeEnd(14) = 148 /\ TypeEnd(15) = 165 /\ TypeEnd(16) = 173
      /\ TypeEnd(17) = 185 /\ TypeEnd(18) = 197
  BY <1>2, TypeEnds DEF TypeSizes
<1>4. Available = 197
  BY <1>3, SizesAre DEF Available
<1>5. ASSUME NEW k \in 1..18
      PROVE  /\ TypeEnd(k) \in Nat /\ TypeSizes[k] \in Nat
             /\ TypeSizes[k] <= TypeEnd(k) /\ TypeEnd(k) <= 197
  <2>1. k = 1 \/ k = 2 \/ k = 3 \/ k = 4 \/ k = 5 \/ k = 6 \/ k = 7 \/ k = 8 \/ k = 9 \/ k = 10
        \/ k = 11 \/ k = 12 \/ k = 13 \/ k = 14 \/ k = 15 \/ k = 16 \/ k = 17 \/ k = 18
    OBVIOUS
  <2>2. QED
    BY <1>1, <1>2, <1>3, <2>1 DEF TypeSizes
<1>6. QED
  BY <1>4, <1>5, SizesAre

\* The metrics selected: as many as asked for or available, at even distances.
LEMMA Chosen ==
  ASSUME NEW target \in Nat \ {0}
  PROVE  LET chosen == SelectMetrics(target)
             n == Len(chosen)
         IN /\ n = (IF target >= Available THEN Available ELSE target)
            /\ n \in Nat \ {0} /\ n <= Available
            /\ \A i \in 1..n : chosen[i] = ((i - 1) * Available) \div n + 1
<1>1. Available \in Nat \ {0}
  BY TypeRanges
<1>2. CASE target >= Available
  <2>1. SelectMetrics(target) = [i \in 1..Available |-> i]
    BY <1>2 DEF SelectMetrics
  <2>2. Len([i \in 1..Available |-> i]) = Available
    BY <1>1
  <2>3. ASSUME NEW i \in 1..Available PROVE ((i - 1) * Available) \div Available + 1 = i
    <3> DEFINE j == i - 1
               q == (j * Available) \div Available
    <3>1. j \in Nat /\ j * Available \in Nat /\ j + 1 = i
      BY <1>1
    <3> HIDE DEF j
    <3>2. q \in Nat /\ q * Available <= j * Available /\ j * Available < q * Available + Available
      BY <1>1, <3>1, Rounding
    <3> HIDE DEF q
    <3>3. q * Available + Available = (q + 1) * Available
      BY <1>1, <3>2
    <3>4. q <= j /\ j < q + 1
      BY <1>1, <3>1, <3>2, <3>3, Factors
    <3>5. q = j
      BY <3>1, <3>2, <3>4
    <3>6. QED
      BY <3>1, <3>5 DEF q, j
  <2>4. QED
    BY <1>1, <1>2, <2>1, <2>2, <2>3
<1>3. CASE ~(target >= Available)
  <2>1. SelectMetrics(target) = [i \in 1..target |-> ((i - 1) * Available) \div target + 1]
    BY <1>3 DEF SelectMetrics
  <2>2. Len(SelectMetrics(target)) = target
    BY <2>1
  <2>3. QED
    BY <1>1, <1>3, <2>1, <2>2
<1>4. QED
  BY <1>2, <1>3

\* Among n positions at even distances over A places, those that fall into the places from
\* lo + 1 to hi are as many as these are of A, up to less than one.
LEMMA EvenlySpread ==
  ASSUME NEW A \in Nat \ {0}, NEW n \in 1..A, NEW lo \in Nat, NEW hi \in Nat, lo <= hi, hi <= A
  PROVE  LET at(i) == ((i - 1) * A) \div n + 1
             got == Cardinality({i \in 1..n : at(i) \in (lo + 1)..hi})
         IN /\ got \in Nat
            /\ got * A < (hi - lo) * n + A
            /\ got * A > (hi - lo) * n - A
<1> DEFINE at(i) == ((i - 1) * A) \div n + 1
           up(x) == (x * n + (A - 1)) \div A
           l == up(lo)
           h == up(hi)
           S == {i \in 1..n : at(i) \in (lo + 1)..hi}
<1>0. n \in Nat \ {0} /\ n <= A
  OBVIOUS
<1>1. ASSUME NEW x \in Nat
      PROVE  /\ up(x) \in Nat /\ x * n \in Nat
             /\ x * n <= up(x) * A /\ up(x) * A < x * n + A
             /\ \A j \in Nat : x * n <= j * A <=> up(x) <= j
  <2> DEFINE u == up(x)
             m == x * n + (A - 1)
  <2>1. x * n \in Nat /\ m \in Nat
    BY <1>0
  <2>2. u \in Nat /\ u * A <= m /\ m < u * A + A
    BY <2>1, Rounding
  <2> HIDE DEF u
  <2>3. u * A \in Nat
    BY <2>2
  <2>4. x * n <= u * A /\ u * A < x * n + A
    BY <2>1, <2>2, <2>3
  <2> HIDE DEF m
  <2>5. ASSUME NEW j \in Nat PROVE x * n <= j * A <=> u <= j
    <3>1. u <= j => u * A <= j * A
      BY <2>2, Factors
    <3>2. j * A \in Nat /\ (j + 1) * A = j * A + A
      OBVIOUS
    <3>3. x * n <= j * A => u * A < (j + 1) * A
      BY <2>1, <2>3, <2>4, <3>2
    <3>4. u * A < (j + 1) * A => u < j + 1
      BY <2>2, Factors
    <3>5. QED
      BY <2>1, <2>2, <2>3, <2>4, <3>1, <3>2, <3>3, <3>4
  <2>6. QED
    BY <2>1, <2>2, <2>4, <2>5 DEF u
<1>2. /\ l \in Nat /\ lo * n \in Nat /\ lo * n <= l * A /\ l * A < lo * n + A
      /\ \A j \in Nat : lo * n <= j * A <=> l <= j
  BY <1>1
<1>3. /\ h \in Nat /\ hi * n \in Nat /\ hi * n <= h * A /\ h * A < hi * n + A
      /\ \A j \in Nat : hi * n <= j * A <=> h <= j
  BY <1>1
<1> HIDE DEF l, h, up
<1>4. ASSUME NEW i \in 1..n PROVE at(i) \in (lo + 1)..hi <=> l <= i - 1 /\ i - 1 < h
  <2> DEFINE j == i - 1
             q == (j * A) \div n
  <2>1. j \in Nat /\ j * A \in Nat
    OBVIOUS
  <2> HIDE DEF j
  <2>2. q \in Nat /\ q * n <= j * A /\ j * A < q * n + n
    BY <1>0, <2>1, Rounding
  <2> HIDE DEF q
  <2>3. q * n \in Nat /\ (q + 1) * n = q * n + n
    BY <1>0, <2>2
  <2>4. lo <= q <=> lo * n <= j * A
    <3>1. lo <= q => lo * n <= q * n
      BY <1>0, <2>2, Factors
    <3>2. lo * n < (q + 1) * n => lo < q + 1
      BY <1>0, <2>2, Factors
    <3>3. QED
      BY <1>2, <2>1, <2>2, <2>3, <3>1, <3>2
  <2>5. hi <= q <=> hi * n <= j * A
    <3>1. hi <= q => hi * n <= q * n
      BY <1>0, <2>2, Factors
    <3>2. hi * n < (q + 1) * n => hi < q + 1
      BY <1>0, <2>2, Factors
    <3>3. QED
      BY <1>3, <2>1, <2>2, <2>3, <3>1, <3>2
  <2>6. lo <= q /\ ~(hi <= q) <=> l <= j /\ ~(h <= j)
    BY <1>2, <1>3, <2>1, <2>4, <2>5
  <2>7. at(i) = q + 1
    BY DEF q, j
  <2>8. QED
    BY <1>2, <1>3, <2>1, <2>2, <2>6, <2>7 DEF j
<1>5. h <= n /\ l <= h
  <2>1. hi * n <= n * A
    <3>1. hi * n <= A * n
      BY <1>0, Factors
    <3>2. A * n = n * A
      BY <1>0
    <3>3. QED
      BY <3>1, <3>2
  <2>2. lo * n <= hi * n
    BY <1>0, Factors
  <2>3. h * A \in Nat
    BY <1>3
  <2>4. lo * n <= h * A
    BY <1>2, <1>3, <2>2, <2>3
  <2>5. QED
    BY <1>0, <1>2, <1>3, <2>1, <2>4
<1>6. S = (l + 1)..h
  <2>1. \A i \in 1..n : i \in S <=> at(i) \in (lo + 1)..hi
    OBVIOUS
  <2> HIDE DEF S, at
  <2>2. \A i \in 1..n : i \in S <=> i \in (l + 1)..h
    BY <1>0, <1>2, <1>3, <1>4, <2>1
  <2>3. (l + 1)..h \subseteq 1..n
    BY <1>0, <1>2, <1>3, <1>5
  <2>4. S \subseteq 1..n
    BY DEF S
  <2>5. QED
    BY <2>2, <2>3, <2>4
<1> HIDE DEF S
<1>7. Cardinality(S) = h - l
  <2>1. l + 1 \in Int /\ h \in Int
    BY <1>2, <1>3
  <2>2. Cardinality((l + 1)..h) = IF l + 1 > h THEN 0 ELSE h - (l + 1) + 1
    BY <2>1, FS_Interval
  <2>3. QED
    BY <1>2, <1>3, <1>5, <1>6, <2>2
<1>8. (h - l) * A = h * A - l * A /\ (hi - lo) * n = hi * n - lo * n
      /\ h * A \in Nat /\ l * A \in Nat /\ h - l \in Nat
  BY <1>0, <1>2, <1>3, <1>5
<1>9. (h - l) * A < (hi - lo) * n + A /\ (h - l) * A > (hi - lo) * n - A
  BY <1>2, <1>3, <1>8
<1>10. QED
  BY <1>7, <1>8, <1>9 DEF S

\* However many metrics are asked for, the selection is in order and takes from each type
\* its proportional part.
LEMMA SelectedEvenly ==
  ASSUME NEW target \in Nat \ {0}
  PROVE  LET chosen == SelectMetrics(target)
             n == Len(chosen)
         IN /\ \A i \in 1..(n - 1) : chosen[i] < chosen[i + 1]
            /\ \A k \in DOMAIN TypeSizes :
                 LET got == Cardinality({i \in 1..n : chosen[i] \in OfType(k)})
                 IN /\ got * Available < TypeSizes[k] * n + Available
                    /\ got * Available > TypeSizes[k] * n - Available
<1> DEFINE chosen == SelectMetrics(target)
           n == Len(chosen)
           A == Available
<1>1. /\ n \in Nat \ {0} /\ n <= A /\ A \in Nat \ {0}
      /\ \A i \in 1..n : chosen[i] = ((i - 1) * A) \div n + 1
  BY Chosen, TypeRanges
<1> HIDE DEF chosen, n, A
<1>2. ASSUME NEW i \in 1..(n - 1) PROVE chosen[i] < chosen[i + 1]
  <2> DEFINE j == i - 1
             p == (j * A) \div n
             q == ((j + 1) * A) \div n
  <2>1. j \in Nat /\ i \in 1..n /\ i + 1 \in 1..n /\ (i + 1) - 1 = j + 1 /\ i - 1 = j
    BY <1>1
  <2> HIDE DEF j
  <2>2. j * A \in Nat /\ (j + 1) * A = j * A + A
    BY <1>1, <2>1
  <2>3. p \in Nat /\ p * n <= j * A
    BY <1>1, <2>2, Rounding
  <2>4. q \in Nat /\ (j + 1) * A < q * n + n
    BY <1>1, <2>1, <2>2, Rounding
  <2>5. chosen[i] = p + 1 /\ chosen[i + 1] = q + 1
    BY <1>1, <2>1
  <2> HIDE DEF p, q
  <2>6. p * n \in Nat /\ q * n \in Nat
    BY <1>1, <2>3, <2>4
  <2>7. p * n < q * n
    BY <1>1, <2>2, <2>3, <2>4, <2>6
  <2>8. p < q
    BY <1>1, <2>3, <2>4, <2>7, Factors
  <2>9. QED
    BY <2>3, <2>4, <2>5, <2>8
<1>3. ASSUME NEW k \in DOMAIN TypeSizes
      PROVE  LET got == Cardinality({i \in 1..n : chosen[i] \in OfType(k)})
             IN got * A < TypeSizes[k] * n + A /\ got * A > TypeSizes[k] * n - A
  <2> DEFINE hi == TypeEnd(k)
             lo == TypeEnd(k) - TypeSizes[k]
             at(i) == ((i - 1) * A) \div n + 1
             got == Cardinality({i \in 1..n : at(i) \in (lo + 1)..hi})
  <2>1. lo \in Nat /\ hi \in Nat /\ lo <= hi /\ hi <= A /\ hi - lo = TypeSizes[k]
    BY TypeRanges DEF A
  <2>2. OfType(k) = (lo + 1)..hi
    BY DEF OfType
  <2> HIDE DEF lo, hi
  <2>3. {i \in 1..n : chosen[i] \in OfType(k)} = {i \in 1..n : at(i) \in (lo + 1)..hi}
    BY <1>1, <2>2
  <2>4. n \in 1..A
    BY <1>1
  <2>5. got * A < (hi - lo) * n + A /\ got * A > (hi - lo) * n - A
    BY <1>1, <2>1, <2>4, EvenlySpread
  <2>6. QED
    BY <2>1, <2>3, <2>5
<1>4. QED
  BY <1>2, <1>3 DEF chosen, n, A

--------------------------------------------------------------------------------
(* The configurations *)

\* Smaller and larger of two numbers.
LEMMA OfTwo ==
  ASSUME NEW x \in Int, NEW y \in Int
  PROVE  Min({x, y}) = (IF x <= y THEN x ELSE y) /\ Max({x, y}) = (IF x >= y THEN x ELSE y)
<1>1. Min({x, y}) = IF x <= y THEN x ELSE y
  <2> DEFINE m == IF x <= y THEN x ELSE y
  <2>1. m \in {x, y} /\ \A z \in {x, y} : m <= z
    OBVIOUS
  <2>2. \A z \in {x, y} : (\A u \in {x, y} : z <= u) => z = m
    OBVIOUS
  <2> HIDE DEF m
  <2>3. QED
    BY <2>1, <2>2 DEF Min, m
<1>2. Max({x, y}) = IF x >= y THEN x ELSE y
  <2> DEFINE m == IF x >= y THEN x ELSE y
  <2>1. m \in {x, y} /\ \A z \in {x, y} : m >= z
    OBVIOUS
  <2>2. \A z \in {x, y} : (\A u \in {x, y} : z >= u) => z = m
    OBVIOUS
  <2> HIDE DEF m
  <2>3. QED
    BY <2>1, <2>2 DEF Max, m
<1>3. QED
  BY <1>1, <1>2

\* A set of numbers in a range has a smallest and a largest one.
LEMMA Extremes ==
  ASSUME NEW a \in Nat, NEW b \in Nat, NEW S \in SUBSET (a..b), S # {}
  PROVE  Min(S) \in S /\ Max(S) \in S
<1>1. PICK s : s \in S
  OBVIOUS
<1>2. \E m \in S : \A n \in S : m <= n
  <2>1. S \in SUBSET Nat
    OBVIOUS
  <2>2. QED
    BY <1>1, <2>1, LeastNat
<1>3. \E m \in S : \A n \in S : m >= n
  <2> DEFINE R == {b - x : x \in S}
  <2>1. R \in SUBSET Nat /\ b - s \in R
    BY <1>1
  <2>2. PICK r \in R : \A q \in R : r <= q
    <3> HIDE DEF R
    <3>1. QED
      BY <2>1, LeastNat
  <2>3. PICK m \in S : r = b - m
    BY <2>2
  <2>4. ASSUME NEW n \in S PROVE m >= n
    <3>1. r <= b - n
      BY <2>2
    <3>2. n \in Int /\ m \in Int
      OBVIOUS
    <3>3. QED
      BY <2>3, <3>1, <3>2
  <2>5. QED
    BY <2>4
<1>4. QED
  BY <1>2, <1>3 DEF Min, Max

\* The bytes the estimate takes for each kind of telemetry, with d as the default of the
\* number of series.
TraceBytes(t) ==
  (t.count * t.avg + (IF t.high THEN t.highCount * t.highSpans ELSE 0)) * PerSpanBytes(t)
SeriesBytes(m, d) ==
  m.count * (IF d > 0 THEN d ELSE (m.min + m.max) \div 2) * BytesPerMetricDataPoint
LogBytes(l) == l.count * BytesPerLogRecord

\* What the checks establish of a generator configuration that is completed.  The estimate
\* was made with the default number of series that was given, if any.
GeneratorAccepted(g) ==
  /\ g.metrics \in [count : Nat, min : Int, max : Int, default : Int]
  /\ g.logs \in [count : Nat, http : Int, app : Int, sys : Int, services : Int]
  /\ \A f \in TraceNumbers : g.traces[f] \in Int
  /\ g.traces.high \in BOOLEAN /\ g.traces.count >= 0
  /\ g.traces.count > 0 =>
       g.traces.avg >= 1 /\ g.traces.stdDev >= 0 /\ ValidCustomAttributes(g.traces)
  /\ ValidMetrics(g.metrics) /\ ValidLogs(g.logs)
  /\ g.maxMemory \in Int /\ g.unbounded \in BOOLEAN
  /\ ~g.unbounded =>
       \E d \in {0, g.metrics.default} :
         TraceBytes(g.traces) + SeriesBytes(g.metrics, d) + LogBytes(g.logs) <= g.maxMemory

\* What counts of a sender configuration.
SenderFields == {"traces", "metrics", "logs", "endpoint", "rate", "concurrency", "multiplier",
                 "duration", "jitter", "backdate", "batch", "drainTimeout", "maxPending"}

IsSender(c) ==
  /\ DOMAIN c = SenderFields
  /\ \A s \in Signal : c[s] \in {"", "file", "null"}
  /\ c.concurrency \in Int

\* A configuration that was read has these fields.
LEMMA SenderRead == ASSUME NEW c \in SenderConfigs PROVE IsSender(c)
<1>1. DOMAIN c = SenderFields
  BY DEF SenderConfigs, SenderFields
<1>2. c.traces \in {"", "file", "null"} /\ c.metrics \in {"", "file", "null"}
  BY Zenon DEF SenderConfigs
<1>3. c.logs \in {"", "file", "null"} /\ c.concurrency \in Int
  BY Zenon DEF SenderConfigs
<1>4. QED
  BY <1>1, <1>2, <1>3 DEF IsSender, Signal

\* What the sender relies on after its own checks.
SenderAccepted == send.concurrency > 0 /\ Parses(send.duration) /\ Parses(send.drainTimeout)

\* Completing a configuration changes only the default number of series of what counts.
LEMMA DefaultsKeep ==
  ASSUME NEW c, IsGeneratorConfig(c)
  PROVE  LET g == WithDefaults(c)
         IN /\ g.logs = c.logs /\ g.unbounded = c.unbounded
            /\ g.maxMemory = (IF c.maxMemory = 0 THEN DefaultMaxMemory ELSE c.maxMemory)
            /\ g.metrics = [c.metrics EXCEPT !.default =
                              IF c.metrics.count > 0 /\ c.metrics.default = 0 THEN 300
                              ELSE c.metrics.default]
            /\ \A f \in TraceNumbers \cup {"high"} : g.traces[f] = c.traces[f]
<1> DEFINE named == [c.traces EXCEPT !.names =
                       IF c.traces.names = <<>> THEN SubSeq(GeneratedNames, 1, c.traces.services)
                       ELSE c.traces.names]
           t == [named EXCEPT !.ingress =
                   IF named.single /\ named.ingress = "" THEN Head(named.names) ELSE named.ingress]
           u == [t EXCEPT !.resolved = ResolveServiceNamespaces(t)]
           m == [c.metrics EXCEPT !.default =
                   IF c.metrics.count > 0 /\ c.metrics.default = 0 THEN 300 ELSE c.metrics.default]
           g == WithDefaults(c)
<1>1. g = [c EXCEPT !.maxMemory = IF c.maxMemory = 0 THEN DefaultMaxMemory ELSE c.maxMemory,
                    !.metrics = m, !.traces = IF c.traces.count > 0 THEN u ELSE c.traces]
  BY Zenon DEF WithDefaults
<1>2. DOMAIN c = {"directory", "maxMemory", "unbounded", "traces", "metrics", "logs"}
  BY DEF IsGeneratorConfig
<1>3. DOMAIN c.traces = TraceNumbers \cup {"high", "single", "lateRoot", "names", "ingress",
                                            "namespaces", "assigned", "resolved"}
  BY DEF IsGeneratorConfig, IsTracesConfig
<1>4. ASSUME NEW f \in TraceNumbers \cup {"high"} PROVE u[f] = c.traces[f]
  <2>1. f \in DOMAIN c.traces /\ f # "names" /\ f # "ingress" /\ f # "resolved"
    BY <1>3 DEF TraceNumbers
  <2>2. DOMAIN named = DOMAIN c.traces /\ named[f] = c.traces[f]
    BY <2>1
  <2> HIDE DEF named
  <2>3. DOMAIN t = DOMAIN c.traces /\ t[f] = c.traces[f]
    BY <2>1, <2>2
  <2> HIDE DEF t
  <2>4. QED
    BY <2>1, <2>3
<1> HIDE DEF u, m, g
<1>5. /\ g.logs = c.logs /\ g.unbounded = c.unbounded /\ g.metrics = m
      /\ g.maxMemory = (IF c.maxMemory = 0 THEN DefaultMaxMemory ELSE c.maxMemory)
      /\ g.traces = IF c.traces.count > 0 THEN u ELSE c.traces
  BY <1>1, <1>2
<1>6. QED
  BY <1>4, <1>5 DEF g, m

\* The limit of the memory, and the sum of the bytes estimated for the three signals.
LEMMA EstimateIs ==
  ASSUME NEW c, IsGeneratorConfig(c)
  PROVE  EstimateMemoryUsage(c) =
           TraceBytes(c.traces) + SeriesBytes(c.metrics, c.metrics.default) + LogBytes(c.logs)
BY DEF EstimateMemoryUsage, TraceBytes, SeriesBytes, LogBytes

\* A configuration that passes Validate is what the later steps rely on, once completed.
LEMMA AcceptedWhenValid ==
  ASSUME NEW c, IsGeneratorConfig(c), ValidGenerator(c)
  PROVE  GeneratorAccepted(WithDefaults(c))
<1> DEFINE g == WithDefaults(c)
<1>1. /\ g.logs = c.logs /\ g.unbounded = c.unbounded
      /\ g.maxMemory = (IF c.maxMemory = 0 THEN DefaultMaxMemory ELSE c.maxMemory)
      /\ g.metrics = [c.metrics EXCEPT !.default =
                        IF c.metrics.count > 0 /\ c.metrics.default = 0 THEN 300
                        ELSE c.metrics.default]
      /\ \A f \in TraceNumbers \cup {"high"} : g.traces[f] = c.traces[f]
  BY DefaultsKeep
<1> HIDE DEF g
<1>2. /\ c.maxMemory \in Int /\ c.unbounded \in BOOLEAN
      /\ c.metrics \in [count : Int, min : Int, max : Int, default : Int]
      /\ c.logs \in [count : Int, http : Int, app : Int, sys : Int, services : Int]
      /\ \A f \in TraceNumbers : c.traces[f] \in Int
      /\ c.traces.high \in BOOLEAN
  BY DEF IsGeneratorConfig, IsTracesConfig
<1>3. /\ c.traces.count >= 0 /\ c.metrics.count >= 0 /\ c.logs.count >= 0
      /\ ValidTraces(c.traces) /\ ValidMetrics(c.metrics) /\ ValidLogs(c.logs)
      /\ WithinMemory(c)
  BY DEF ValidGenerator
<1>4. /\ g.traces.count = c.traces.count /\ g.traces.avg = c.traces.avg
      /\ g.traces.stdDev = c.traces.stdDev /\ g.traces.high = c.traces.high
      /\ g.traces.highCount = c.traces.highCount /\ g.traces.highSpans = c.traces.highSpans
      /\ g.traces.fatMin = c.traces.fatMin /\ g.traces.fatMax = c.traces.fatMax
      /\ g.traces.valueBytes = c.traces.valueBytes
  BY <1>1 DEF TraceNumbers
<1>5. /\ g.metrics.count = c.metrics.count /\ g.metrics.min = c.metrics.min
      /\ g.metrics.max = c.metrics.max
      /\ g.metrics.default = IF c.metrics.count > 0 /\ c.metrics.default = 0 THEN 300
                             ELSE c.metrics.default
      /\ g.metrics \in [count : Int, min : Int, max : Int, default : Int]
  BY <1>1, <1>2
<1>6. g.metrics \in [count : Nat, min : Int, max : Int, default : Int]
  BY <1>3, <1>5
<1>7. g.logs \in [count : Nat, http : Int, app : Int, sys : Int, services : Int]
  BY <1>1, <1>2, <1>3
<1>8. \A f \in TraceNumbers : g.traces[f] \in Int
  BY <1>1, <1>2
<1>9. g.traces.count > 0 =>
        g.traces.avg >= 1 /\ g.traces.stdDev >= 0 /\ ValidCustomAttributes(g.traces)
  BY <1>3, <1>4 DEF ValidTraces, ValidCustomAttributes
<1>10. ValidMetrics(g.metrics) /\ ValidLogs(g.logs)
  BY <1>1, <1>3, <1>5 DEF ValidMetrics, ValidLogs
<1>11. g.maxMemory \in Int /\ g.unbounded \in BOOLEAN
  BY <1>1, <1>2, DefaultsAssumption
<1>12. ASSUME ~g.unbounded
       PROVE  \E d \in {0, g.metrics.default} :
                TraceBytes(g.traces) + SeriesBytes(g.metrics, d) + LogBytes(g.logs) <= g.maxMemory
  <2>1. EstimateMemoryUsage(c) <= g.maxMemory
    BY <1>1, <1>3, <1>12 DEF WithinMemory
  <2>2. TraceBytes(g.traces) = TraceBytes(c.traces)
    BY <1>4 DEF TraceBytes, PerSpanBytes, FatSpansEnabled
  <2>3. SeriesBytes(g.metrics, c.metrics.default) = SeriesBytes(c.metrics, c.metrics.default)
    BY <1>5 DEF SeriesBytes
  <2>4. c.metrics.default \in {0, g.metrics.default}
    BY <1>5
  <2>5. QED
    BY <1>1, <2>1, <2>2, <2>3, <2>4, EstimateIs
<1>13. QED
  BY <1>1, <1>2, <1>3, <1>4, <1>6, <1>7, <1>8, <1>9, <1>10, <1>11, <1>12
     DEF GeneratorAccepted, g

--------------------------------------------------------------------------------
(* What is generated *)

\* A choice between the number asked for and a smaller one leaves no choice below the bound.
LEMMA SpansChosen ==
  ASSUME NEW asked \in Nat, NEW shallow \in Nat, NEW n \in Spans(asked, shallow)
  PROVE  n \in Nat /\ (asked <= shallow => n = asked)
<1>1. Min({asked, shallow}) = IF asked <= shallow THEN asked ELSE shallow
  BY OfTwo
<1>2. QED
  BY <1>1 DEF Spans

\* The spans of the traces: as many as asked for, and no more bytes than estimated, when
\* their sizes are fixed.
LEMMA TraceSizes ==
  ASSUME GeneratorAccepted(gen), gen.traces.count # 0,
         NEW n, n \in IF gen.traces.stdDev = 0 THEN Spans(gen.traces.avg, 12)
                      ELSE 1..(gen.traces.avg + Deviation),
         NEW w \in Spans(AtLeast(1, gen.traces.highSpans), 22),
         NEW a \in IF FatSpansEnabled(gen.traces) THEN {gen.traces.fatMin, gen.traces.fatMax} ELSE {0}
  PROVE  LET highTraces == IF gen.traces.high THEN AtLeast(0, gen.traces.highCount) ELSE 0
             spans == gen.traces.count * n + highTraces * w
             size == spans * (BytesPerSpan + a * (gen.traces.valueBytes + FatAttrKeyOverhead))
         IN /\ gen.traces.count + highTraces \in Nat /\ spans \in Nat /\ size \in Int
            /\ Fixed(gen) => spans = Asked("traces") /\ size <= TraceBytes(gen.traces)
<1> DEFINE t == gen.traces
           c == t.count
           avg == t.avg
           hc == t.highCount
           hs == t.highSpans
           highTraces == IF t.high THEN AtLeast(0, hc) ELSE 0
           spans == c * n + highTraces * w
           per == BytesPerSpan + a * (t.valueBytes + FatAttrKeyOverhead)
<1>1. /\ c \in Nat \ {0} /\ avg \in Nat \ {0} /\ hc \in Int /\ hs \in Int /\ t.high \in BOOLEAN
      /\ t.stdDev \in Int /\ t.fatMin \in Nat /\ t.fatMax \in Nat /\ t.fatMin <= t.fatMax
      /\ t.valueBytes \in Nat
  BY DEF GeneratorAccepted, TraceNumbers, ValidCustomAttributes
<1>2. n \in Nat /\ (t.stdDev = 0 /\ avg <= 12 => n = avg)
  BY <1>1, SpansChosen, ConfigurationsAssumption
<1>3. w \in Nat /\ (1 <= hs /\ hs <= 22 => w = hs)
  BY <1>1, SpansChosen DEF AtLeast
<1>4. a \in Nat /\ a <= t.fatMax
  BY <1>1 DEF FatSpansEnabled
<1>5. highTraces \in Nat
  BY <1>1 DEF AtLeast
<1>6. PerSpanBytes(t) = 2048 + t.fatMax * (t.valueBytes + 32)
  BY <1>1 DEF PerSpanBytes, FatSpansEnabled, BytesPerSpan, FatAttrKeyOverhead
<1>7. per \in Nat /\ per <= PerSpanBytes(t) /\ PerSpanBytes(t) \in Nat
  <2> DEFINE v == t.valueBytes + 32
             f == t.fatMax
  <2>1. v \in Nat \ {0} /\ f \in Nat
    BY <1>1
  <2> HIDE DEF v, f
  <2>2. a * v <= f * v /\ a * v \in Nat /\ f * v \in Nat
    BY <1>4, <2>1, Factors DEF f
  <2>3. per = 2048 + a * v /\ PerSpanBytes(t) = 2048 + f * v
    BY <1>6 DEF v, f, BytesPerSpan, FatAttrKeyOverhead
  <2>4. QED
    BY <2>2, <2>3
<1>8. ASSUME Fixed(gen) PROVE spans = Asked("traces")
  <2>1. Asked("traces") = c * avg + (IF t.high THEN hc * hs ELSE 0)
    BY DEF Asked
  <2>2. t.stdDev = 0 /\ avg <= 12 /\ hs <= 22 /\ (t.high => hc >= 0 /\ hs >= 1)
    BY <1>8 DEF Fixed
  <2>3. n = avg /\ highTraces * w = IF t.high THEN hc * hs ELSE 0
    BY <1>1, <1>2, <1>3, <2>2 DEF AtLeast
  <2> HIDE DEF highTraces, c, avg, hc, hs
  <2>4. QED
    BY <2>1, <2>3
<1>9. c + highTraces \in Nat
  BY <1>1, <1>5
<1> HIDE DEF per, highTraces, c
<1>10. spans \in Nat
  BY <1>1, <1>2, <1>3, <1>5
<1>11. Fixed(gen) => TraceBytes(t) = spans * PerSpanBytes(t)
  BY <1>8 DEF TraceBytes, Asked, c
<1> HIDE DEF spans
<1>12. spans * per \in Int /\ spans * per <= spans * PerSpanBytes(t)
  <2> DEFINE p == PerSpanBytes(t)
             e == p - per
  <2>1. p \in Nat /\ e \in Nat /\ p = per + e
    BY <1>7
  <2> HIDE DEF p, e
  <2>2. spans * p = spans * per + spans * e /\ spans * e \in Nat /\ spans * per \in Nat
    BY <1>7, <1>10, <2>1
  <2>3. QED
    BY <2>2 DEF p
<1>13. QED
  BY <1>8, <1>9, <1>10, <1>11, <1>12 DEF spans, per, highTraces, c

\* The numbers of time series a metric may have lie between the fewest and the most.
LEMMA SeriesWithin ==
  ASSUME NEW m \in [count : Nat, min : Int, max : Int, default : Int], 1 <= m.min, m.min <= m.max
  PROVE  /\ Min(SeriesCounts(m)) \in m.min..m.max
         /\ Max(SeriesCounts(m)) \in m.min..m.max
<1> DEFINE lo == m.min
           hi == m.max
           S == SeriesCounts(m)
<1>1. lo \in Nat /\ hi \in Nat /\ lo <= hi /\ m.default \in Int
  OBVIOUS
<1>2. S \in SUBSET (lo..hi) /\ S # {}
  <2>1. CASE m.default \in m.min..m.max
    <3> DEFINE clamped(v) == Max({m.min, Min({m.max, m.default + v})})
    <3>1. ASSUME NEW v \in (-Variance)..Variance PROVE clamped(v) \in lo..hi
      <4> DEFINE x == m.default + v
      <4>1. x \in Int
        BY <1>1, VarianceAssumption
      <4> HIDE DEF x
      <4>2. Min({m.max, x}) = IF m.max <= x THEN m.max ELSE x
        BY <4>1, OfTwo
      <4> DEFINE y == Min({m.max, x})
      <4>3. y \in Int /\ y <= hi
        BY <1>1, <4>1, <4>2
      <4> HIDE DEF y
      <4>4. Max({m.min, y}) = IF m.min >= y THEN m.min ELSE y
        BY <4>3, OfTwo
      <4>5. Max({m.min, y}) \in lo..hi
        BY <1>1, <4>3, <4>4
      <4>6. QED
        BY <4>5 DEF x, y
    <3>2. S = {clamped(v) : v \in (-Variance)..Variance}
      BY <2>1 DEF SeriesCounts
    <3>3. 0 \in (-Variance)..Variance
      BY VarianceAssumption
    <3> HIDE DEF clamped, lo, hi, S
    <3>4. QED
      BY <3>1, <3>2, <3>3
  <2>2. CASE m.default \notin m.min..m.max
    BY <1>1, <2>2 DEF SeriesCounts
  <2>3. QED
    BY <2>1, <2>2
<1> HIDE DEF S, lo, hi
<1>3. Min(S) \in S /\ Max(S) \in S
  BY <1>1, <1>2, Extremes
<1>4. QED
  BY <1>2, <1>3 DEF S, lo, hi

\* The data points: at least none, and for a fixed number of series the number asked for, in
\* no more bytes than estimated whichever number of series the estimate took.
LEMMA MetricSizes ==
  ASSUME GeneratorAccepted(gen), gen.metrics.count # 0,
         NEW points \in LET counts == SeriesCounts(gen.metrics)
                            selected == Len(SelectMetrics(gen.metrics.count))
                        IN {selected * Min(counts), selected * Max(counts)}
  PROVE  /\ points \in Nat /\ points * BytesPerMetricDataPoint \in Nat
         /\ Fixed(gen) =>
              /\ points = Asked("metrics")
              /\ SeriesCovered(gen) =>
                   \A d \in {0, gen.metrics.default} :
                     points * BytesPerMetricDataPoint <= SeriesBytes(gen.metrics, d)
<1> DEFINE m == gen.metrics
           n == m.count
           lo == m.min
           selected == Len(SelectMetrics(n))
           least == Min(SeriesCounts(m))
           most == Max(SeriesCounts(m))
<1>1. /\ n \in Nat \ {0} /\ lo \in Nat \ {0} /\ m.max \in Nat /\ lo <= m.max /\ m.default \in Int
      /\ m \in [count : Nat, min : Int, max : Int, default : Int]
  BY DEF GeneratorAccepted, ValidMetrics
<1>2. selected = (IF n >= Available THEN Available ELSE n) /\ Available \in Nat /\ selected \in Nat
  BY <1>1, Chosen, TypeRanges
<1>3. least \in lo..m.max /\ most \in lo..m.max
  BY <1>1, SeriesWithin
<1>4. points \in {selected * least, selected * most}
  OBVIOUS
<1> HIDE DEF selected, least, most
<1>5. points \in Nat
  BY <1>1, <1>2, <1>3, <1>4
<1>6. points * BytesPerMetricDataPoint \in Nat
  BY <1>5 DEF BytesPerMetricDataPoint
<1>7. ASSUME Fixed(gen)
      PROVE  points = selected * lo /\ Asked("metrics") = selected * lo
  <2>1. lo = m.max
    BY <1>1, <1>7 DEF Fixed
  <2>2. least = lo /\ most = lo
    BY <1>1, <1>3, <2>1
  <2>3. Min({n, Available}) = selected
    BY <1>1, <1>2, OfTwo
  <2>4. Asked("metrics") = Min({n, Available}) * lo
    BY DEF Asked
  <2> HIDE DEF n, lo
  <2>5. QED
    BY <1>4, <2>2, <2>3, <2>4
<1>8. ASSUME Fixed(gen), SeriesCovered(gen), NEW d \in {0, m.default}
      PROVE  points * BytesPerMetricDataPoint <= SeriesBytes(m, d)
  <2> DEFINE each == IF d > 0 THEN d ELSE (m.min + m.max) \div 2
  <2>1. lo = m.max /\ lo <= m.default
    BY <1>1, <1>8 DEF Fixed, SeriesCovered
  <2>2. each \in Nat /\ lo <= each
    BY <1>1, <2>1
  <2>3. SeriesBytes(m, d) = n * each * 400
    BY DEF SeriesBytes, BytesPerMetricDataPoint
  <2>4. selected <= n
    BY <1>1, <1>2
  <2>5. points = selected * lo
    BY <1>7, <1>8
  <2> HIDE DEF each, n, lo, m
  <2>6. selected * lo \in Nat /\ n * lo \in Nat /\ selected * lo <= n * lo
    BY <1>1, <1>2, <2>4, Factors
  <2>7. lo * n \in Nat /\ each * n \in Nat /\ lo * n <= each * n
    BY <1>1, <2>2, Factors
  <2>8. lo * n = n * lo /\ each * n = n * each
    BY <1>1, <2>2
  <2>9. points <= n * each /\ n * each \in Nat
    BY <2>5, <2>6, <2>7, <2>8
  <2> DEFINE bound == n * each
  <2>10. points \in Nat /\ bound \in Nat /\ points <= bound /\ SeriesBytes(m, d) = bound * 400
    BY <1>5, <2>3, <2>9
  <2> HIDE DEF bound
  <2>11. QED
    BY <2>10 DEF BytesPerMetricDataPoint
<1>9. QED
  BY <1>5, <1>6, <1>7, <1>8

\* The logs: at least none, and for shares that are not negative the number asked for.
\* A service name is needed only for a positive share of application logs.
LEMMA LogSizes ==
  ASSUME GeneratorAccepted(gen), gen.logs.count # 0
  PROVE  LET n == LogCounts(gen.logs)
             records == AtLeast(0, n.http) + AtLeast(0, n.app) + AtLeast(0, n.sys)
         IN /\ records \in Nat /\ records * BytesPerLogRecord \in Nat
            /\ n.app > 0 => gen.logs.app > 0
            /\ Fixed(gen) => records = Asked("logs")
                             /\ records * BytesPerLogRecord = LogBytes(gen.logs)
<1> DEFINE l == gen.logs
           c == l.count
           n == LogCounts(l)
           http == Percent(c, l.http)
           app == Percent(c, l.app)
           records == AtLeast(0, n.http) + AtLeast(0, n.app) + AtLeast(0, n.sys)
<1>1. /\ c \in Nat \ {0} /\ l.http \in Int /\ l.app \in Int /\ l.sys \in Int
      /\ l.http + l.app + l.sys = 100
  BY DEF GeneratorAccepted, ValidLogs
<1>2. n.http = http /\ n.app = app /\ n.sys = c - http - app
  BY DEF LogCounts
<1>3. ASSUME NEW p \in Int
      PROVE  /\ Percent(c, p) \in Int
             /\ p >= 0 => Percent(c, p) \in Nat /\ Percent(c, p) * 100 <= c * p
             /\ p <= 0 => Percent(c, p) <= 0
  <2>1. CASE p >= 0
    <3> DEFINE x == c * p
    <3>1. x \in Nat /\ (p = 0 => x = 0)
      BY <1>1, <2>1
    <3> HIDE DEF x
    <3>2. x \div 100 \in Nat /\ (x \div 100) * 100 <= x /\ (x = 0 => x \div 100 = 0)
      BY <3>1
    <3>3. Percent(c, p) = x \div 100
      BY <2>1 DEF Percent, x
    <3>4. QED
      BY <2>1, <3>1, <3>2, <3>3 DEF x
  <2>2. CASE p < 0
    <3> DEFINE x == c * (0 - p)
    <3>1. x \in Nat
      BY <1>1, <2>2
    <3> HIDE DEF x
    <3>2. x \div 100 \in Nat
      BY <3>1
    <3>3. Percent(c, p) = 0 - (x \div 100)
      BY <2>2 DEF Percent, x
    <3>4. QED
      BY <2>2, <3>2, <3>3
  <2>3. QED
    BY <2>1, <2>2
<1>4. http \in Int /\ app \in Int /\ (l.app <= 0 => app <= 0)
  BY <1>1, <1>3
<1>5. ASSUME Fixed(gen) PROVE http \in Nat /\ app \in Nat /\ c - http - app \in Nat
  <2>1. l.http >= 0 /\ l.app >= 0 /\ l.sys >= 0
    BY <1>5 DEF Fixed
  <2>2. http \in Nat /\ app \in Nat /\ http * 100 <= c * l.http /\ app * 100 <= c * l.app
    BY <1>1, <1>3, <2>1
  <2>3. c * l.http + c * l.app + c * l.sys = c * 100
    <3>1. \A k, x, y, z \in Int : k * (x + y + z) = k * x + k * y + k * z
      OBVIOUS
    <3>2. c * (l.http + l.app + l.sys) = c * l.http + c * l.app + c * l.sys
      <4> HIDE DEF c, l
      <4>1. QED
        BY <1>1, <3>1
    <3>3. QED
      BY <1>1, <3>2
  <2>4. c * l.http \in Nat /\ c * l.app \in Nat /\ c * l.sys \in Nat
    BY <1>1, <2>1
  <2> HIDE DEF http, app, c, l
  <2>5. QED
    BY <1>1, <2>2, <2>3, <2>4
<1> HIDE DEF http, app, n
<1>6. n.http \in Int /\ n.app \in Int /\ n.sys \in Int
  BY <1>1, <1>2, <1>4
<1>7. records \in Nat
  BY <1>6 DEF AtLeast
<1>8. Fixed(gen) => records = c
  BY <1>1, <1>2, <1>5 DEF AtLeast
<1>9. Asked("logs") = c /\ LogBytes(l) = c * BytesPerLogRecord
  BY DEF Asked, LogBytes
<1>10. n.app > 0 => l.app > 0
  BY <1>1, <1>2, <1>4
<1> HIDE DEF records
<1>11. records * BytesPerLogRecord \in Nat
  BY <1>7 DEF BytesPerLogRecord
<1>12. QED
  BY <1>7, <1>8, <1>9, <1>10, <1>11 DEF records, n

\* The three parts of an estimate are natural numbers.
LEMMA PartsNatural ==
  ASSUME NEW g, GeneratorAccepted(g), Fixed(g), SeriesCovered(g), NEW d \in {0, g.metrics.default}
  PROVE  /\ TraceBytes(g.traces) \in Nat /\ SeriesBytes(g.metrics, d) \in Nat
         /\ LogBytes(g.logs) \in Nat
<1>1. LogBytes(g.logs) \in Nat
  BY DEF GeneratorAccepted, LogBytes, BytesPerLogRecord
<1>2. SeriesBytes(g.metrics, d) \in Nat
  <2> DEFINE m == g.metrics
             n == m.count
             each == IF d > 0 THEN d ELSE (m.min + m.max) \div 2
  <2>1. /\ n \in Nat /\ each \in Int
        /\ n > 0 => m.min \in Nat /\ m.max \in Nat /\ m.default \in Nat
    BY DEF GeneratorAccepted, ValidMetrics, SeriesCovered
  <2>2. n > 0 => each \in Nat
    BY <2>1
  <2>3. SeriesBytes(m, d) = n * each * 400
    BY DEF SeriesBytes, BytesPerMetricDataPoint
  <2> HIDE DEF n, each, m
  <2>4. n * each \in Nat
    BY <2>1, <2>2
  <2> DEFINE all == n * each
  <2>5. all \in Nat /\ SeriesBytes(m, d) = all * 400
    BY <2>3, <2>4
  <2> HIDE DEF all
  <2>6. QED
    BY <2>5 DEF m
<1>3. TraceBytes(g.traces) \in Nat
  <2> DEFINE t == g.traces
             spans == t.count * t.avg + (IF t.high THEN t.highCount * t.highSpans ELSE 0)
             p == PerSpanBytes(t)
  <2>1. /\ t.count \in Nat /\ t.high \in BOOLEAN
        /\ t.avg \in Int /\ t.highCount \in Int /\ t.highSpans \in Int
        /\ t.fatMax \in Int /\ t.valueBytes \in Int
        /\ t.count > 0 => t.avg \in Nat /\ t.fatMax \in Nat /\ t.valueBytes \in Nat
    BY DEF GeneratorAccepted, TraceNumbers, ValidCustomAttributes
  <2>2. (t.high => t.highCount >= 0 /\ t.highSpans >= 1) /\ (t.count > 0 \/ ~t.high)
    BY DEF Fixed
  <2>3. spans \in Nat /\ (t.count = 0 => spans = 0)
    <3> DEFINE c == t.count
               avg == t.avg
               hc == t.highCount
               hs == t.highSpans
    <3>1. \A x, y \in Nat : x * y \in Nat /\ (x = 0 => x * y = 0)
      OBVIOUS
    <3>2. c * avg \in Nat /\ (c = 0 => c * avg = 0)
      <4>1. CASE c = 0
        <5> HIDE DEF c, avg
        <5>1. QED
          BY <2>1, <4>1 DEF avg
      <4>2. CASE c > 0
        <5>1. c \in Nat /\ avg \in Nat
          BY <2>1, <4>2
        <5> HIDE DEF c, avg
        <5>2. QED
          BY <3>1, <4>2, <5>1
      <4>3. QED
        BY <2>1, <4>1, <4>2
    <3>3. t.high => hc * hs \in Nat
      <4>1. SUFFICES ASSUME t.high PROVE hc * hs \in Nat
        OBVIOUS
      <4>2. hc \in Nat /\ hs \in Nat
        BY <2>1, <2>2, <4>1
      <4> HIDE DEF hc, hs
      <4>3. QED
        BY <3>1, <4>2
    <3>4. (t.high => c > 0) /\ c \in Nat
      BY <2>1, <2>2
    <3> HIDE DEF c, avg, hc, hs
    <3> DEFINE low == c * avg
               high == hc * hs
    <3>5. spans = low + (IF t.high THEN high ELSE 0)
      BY DEF c, avg, hc, hs
    <3>6. low \in Nat /\ (c = 0 => low = 0) /\ (t.high => high \in Nat)
      BY <3>2, <3>3
    <3> HIDE DEF low, high, spans
    <3>7. spans \in Nat /\ (c = 0 => spans = 0)
      BY <2>1, <3>4, <3>5, <3>6
    <3>8. QED
      BY <3>7 DEF c
  <2>4. p \in Int /\ (t.count > 0 => p \in Nat)
    BY <2>1 DEF PerSpanBytes, FatSpansEnabled, BytesPerSpan, FatAttrKeyOverhead
  <2>5. TraceBytes(t) = spans * p
    BY DEF TraceBytes
  <2> HIDE DEF spans, p
  <2>6. QED
    BY <2>1, <2>3, <2>4, <2>5
<1>4. QED
  BY <1>1, <1>2, <1>3

--------------------------------------------------------------------------------
(* The inductive invariant *)

Steps == {"generator", "traces", "metrics", "logs", "sender", "load", "connect", "pool"}

\* A configuration is what was read until it is checked, and what the checks promise then.
ConfigurationsChecked ==
  /\ pc \in Steps \cup Ended
  /\ pc = "generator" => IsGeneratorConfig(gen)
  /\ Accepted => GeneratorAccepted(gen)
  /\ IsSender(send)
  /\ pc \in {"load", "connect", "pool", "running"} => SenderAccepted

\* What is written is what was asked for, where nothing is left to chance.
FilesAsAsked ==
  /\ DOMAIN files \subseteq Signal
  /\ pc = "generator" => files = <<>>
  /\ \A s \in DOMAIN files :
       /\ files[s].events \in Nat
       /\ s = "metrics" => files[s].resources = 1
       /\ Fixed(gen) => files[s].events = Asked(s)

TemplatesAsAsked ==
  Loaded =>
    /\ DOMAIN templates \subseteq Signal
    /\ \A s \in DOMAIN templates :
         /\ templates[s].events \in Nat
         /\ Fixed(gen) /\ send[s] = "file" => templates[s].events = Asked(s)

ExportersMade ==
  /\ pc \notin {"pool", "running", "panicked"} => exporters = {}
  /\ pc \in {"pool", "running"} => exporters = {s \in DOMAIN templates : Has(send[s])}

\* The estimates of the signals whose turn has come, with either number of series.
Due(g, step, d) ==
  TraceBytes(g.traces)
  + (IF step \in {"traces", "metrics"} THEN 0 ELSE SeriesBytes(g.metrics, d))
  + (IF step \in {"traces", "metrics", "logs"} THEN 0 ELSE LogBytes(g.logs))

BytesWithinEstimate ==
  /\ bytes \in Int
  /\ pc \in {"generator", "traces"} => bytes = 0
  /\ Accepted /\ Fixed(gen) /\ SeriesCovered(gen) =>
       \A d \in {0, gen.metrics.default} : bytes <= Due(gen, pc, d)

StartupInv ==
  /\ ConfigurationsChecked /\ FilesAsAsked /\ TemplatesAsAsked /\ ExportersMade
  /\ BytesWithinEstimate /\ EveryActiveSignalServed
  /\ pc = "panicked" => Unchecked

\* Nothing is written, loaded or started at first.
LEMMA InvInit == Init => StartupInv
<1> SUFFICES ASSUME Init PROVE StartupInv
  OBVIOUS
<1>1. IsGeneratorConfig(gen) /\ IsSender(send)
  BY SenderRead, ConfigurationsAssumption DEF Init
<1>2. ConfigurationsChecked
  BY <1>1 DEF Init, ConfigurationsChecked, Steps, Accepted
<1>3. FilesAsAsked /\ TemplatesAsAsked /\ ExportersMade
  BY DEF Init, FilesAsAsked, TemplatesAsAsked, ExportersMade, Loaded
<1>4. BytesWithinEstimate /\ EveryActiveSignalServed
  BY DEF Init, BytesWithinEstimate, EveryActiveSignalServed, Accepted
<1>5. QED
  BY <1>2, <1>3, <1>4 DEF Init, StartupInv

\* As long as the configuration stays, so does what it asks for.
LEMMA AskedStays == gen' = gen => \A s \in Signal : Asked(s)' = Asked(s)
BY DEF Asked

\* While a generator program runs, nothing is loaded, connected or started.
LEMMA GeneratorFrame ==
  ASSUME pc \in {"generator", "traces", "metrics", "logs", "sender"},
         pc' \in Steps \cup Ended, pc' \notin {"connect", "pool", "running"}, ExportersMade,
         UNCHANGED <<templates, exporters>>
  PROVE  TemplatesAsAsked' /\ ExportersMade' /\ EveryActiveSignalServed'
<1>1. TemplatesAsAsked' /\ EveryActiveSignalServed'
  BY DEF TemplatesAsAsked, Loaded, EveryActiveSignalServed
<1>2. exporters' = {} /\ pc' \notin {"pool", "running"}
  BY DEF ExportersMade
<1>3. QED
  BY <1>1, <1>2 DEF ExportersMade

\* The generator's checks establish what the later steps rely on.
LEMMA LoadGeneratorConfigStep == StartupInv /\ LoadGeneratorConfig => StartupInv'
<1> SUFFICES ASSUME StartupInv, LoadGeneratorConfig PROVE StartupInv'
  OBVIOUS
<1> USE DEF StartupInv
<1>1. /\ pc = "generator" /\ pc' \in {"traces", "rejected"}
      /\ pc' = "traces" => ValidGenerator(gen) /\ gen' = WithDefaults(gen)
      /\ UNCHANGED <<send, files, bytes, templates, exporters, workers>>
  BY DEF LoadGeneratorConfig
<1>2. pc' = "traces" => GeneratorAccepted(gen')
  BY <1>1, AcceptedWhenValid DEF ConfigurationsChecked
<1>3. ConfigurationsChecked'
  BY <1>1, <1>2 DEF ConfigurationsChecked, Accepted, Steps, Ended
<1>4. FilesAsAsked'
  <2>1. files' = <<>>
    BY <1>1 DEF FilesAsAsked
  <2>2. QED
    BY <2>1 DEF FilesAsAsked
<1>5. TemplatesAsAsked' /\ ExportersMade' /\ EveryActiveSignalServed'
  BY <1>1, GeneratorFrame DEF Steps, Ended
<1>6. BytesWithinEstimate'
  <2>1. bytes' = 0
    BY <1>1 DEF BytesWithinEstimate
  <2>2. ASSUME Accepted', Fixed(gen'), SeriesCovered(gen'), NEW d \in {0, gen'.metrics.default}
        PROVE  bytes' <= Due(gen', pc', d)
    <3>1. pc' = "traces" /\ GeneratorAccepted(gen')
      BY <1>1, <1>2, <2>2 DEF Accepted
    <3>2. TraceBytes(gen'.traces) \in Nat
      BY <2>2, <3>1, PartsNatural
    <3>3. QED
      BY <2>1, <3>1, <3>2 DEF Due
  <2>3. QED
    BY <2>1, <2>2 DEF BytesWithinEstimate
<1>7. QED
  BY <1>1, <1>3, <1>4, <1>5, <1>6

\* A turn of the generator: it writes a signal's file, skips the signal or ends, and what is
\* written are the events asked for, within the estimate.
Turn(step, next, signal) ==
  /\ pc = step /\ pc' \in {next, "failed", "panicked"}
  /\ UNCHANGED <<gen, send, templates, exporters, workers>>
  /\ \/ UNCHANGED <<files, bytes>>
     \/ \E resources, events \in Nat, size \in Int :
          /\ files' = [s \in DOMAIN files \cup {signal} |->
                        IF s = signal THEN [resources |-> resources, events |-> events]
                        ELSE files[s]]
          /\ bytes' = bytes + size
          /\ signal = "metrics" => resources = 1
          /\ Fixed(gen) => events = Asked(signal)
          /\ Fixed(gen) /\ SeriesCovered(gen) =>
               \A d \in {0, gen.metrics.default} :
                 size <= CASE signal = "traces" -> TraceBytes(gen.traces)
                           [] signal = "metrics" -> SeriesBytes(gen.metrics, d)
                           [] signal = "logs" -> LogBytes(gen.logs)
  /\ pc' = "panicked" => Unchecked

\* A turn keeps the invariant: only its own file and the bytes change.
LEMMA TurnStep ==
  ASSUME StartupInv, NEW step, NEW next, NEW signal, Turn(step, next, signal),
         <<step, next, signal>> \in {<<"traces", "metrics", "traces">>,
                                     <<"metrics", "logs", "metrics">>, <<"logs", "sender", "logs">>}
  PROVE  StartupInv'
<1> USE DEF StartupInv
<1>1. /\ \/ step = "traces" /\ next = "metrics" /\ signal = "traces"
         \/ step = "metrics" /\ next = "logs" /\ signal = "metrics"
         \/ step = "logs" /\ next = "sender" /\ signal = "logs"
      /\ signal \in Signal
  BY DEF Signal
<1>2. /\ pc = step /\ pc' \in {next, "failed", "panicked"}
      /\ gen' = gen /\ UNCHANGED <<send, templates, exporters, workers>>
      /\ pc' = "panicked" => Unchecked
  BY DEF Turn
<1>3. GeneratorAccepted(gen)
  BY <1>1, <1>2 DEF ConfigurationsChecked, Accepted
<1>4. ConfigurationsChecked'
  BY <1>1, <1>2, <1>3 DEF ConfigurationsChecked, Accepted, Steps, Ended
<1>5. TemplatesAsAsked' /\ ExportersMade' /\ EveryActiveSignalServed'
  BY <1>1, <1>2, GeneratorFrame DEF Steps, Ended
<1>6. pc' = "panicked" => Unchecked'
  BY <1>2 DEF Unchecked
<1>7. FilesAsAsked'
  <2>1. \A s \in Signal : Asked(s)' = Asked(s)
    BY <1>2, AskedStays
  <2>2. pc' # "generator"
    BY <1>1, <1>2
  <2>3. CASE UNCHANGED <<files, bytes>>
    BY <1>2, <2>1, <2>2, <2>3 DEF FilesAsAsked
  <2>4. CASE ~UNCHANGED <<files, bytes>>
    <3>1. PICK resources \in Nat, events \in Nat :
            /\ files' = [s \in DOMAIN files \cup {signal} |->
                          IF s = signal THEN [resources |-> resources, events |-> events]
                          ELSE files[s]]
            /\ signal = "metrics" => resources = 1
            /\ Fixed(gen) => events = Asked(signal)
      BY <2>4 DEF Turn
    <3>2. DOMAIN files' = DOMAIN files \cup {signal} /\ DOMAIN files' \subseteq Signal
      BY <1>1, <3>1 DEF FilesAsAsked
    <3>3. ASSUME NEW s \in DOMAIN files'
          PROVE  /\ files'[s].events \in Nat
                 /\ s = "metrics" => files'[s].resources = 1
                 /\ Fixed(gen') => files'[s].events = Asked(s)'
      <4>1. Asked(s)' = Asked(s)
        BY <2>1, <3>2
      <4>2. CASE s = signal
        BY <1>2, <3>1, <3>2, <4>1, <4>2
      <4>3. CASE s # signal
        <5>1. s \in DOMAIN files /\ files'[s] = files[s]
          BY <3>1, <3>2, <4>3
        <5>2. QED
          BY <1>2, <4>1, <5>1 DEF FilesAsAsked
      <4>4. QED
        BY <4>2, <4>3
    <3>4. QED
      BY <2>2, <3>2, <3>3 DEF FilesAsAsked
  <2>5. QED
    BY <2>3, <2>4
<1>8. BytesWithinEstimate'
  <2>1. bytes \in Int
    BY DEF BytesWithinEstimate
  <2>2. PICK size \in Int :
          /\ bytes' = bytes + size
          /\ \/ size = 0
             \/ Fixed(gen) /\ SeriesCovered(gen) =>
                  \A d \in {0, gen.metrics.default} :
                    size <= CASE signal = "traces" -> TraceBytes(gen.traces)
                              [] signal = "metrics" -> SeriesBytes(gen.metrics, d)
                              [] signal = "logs" -> LogBytes(gen.logs)
    <3>1. CASE UNCHANGED <<files, bytes>>
      <4>1. bytes' = bytes + 0
        BY <2>1, <3>1
      <4>2. QED
        BY <4>1
    <3>2. CASE ~UNCHANGED <<files, bytes>>
      BY <3>2 DEF Turn
    <3>3. QED
      BY <3>1, <3>2
  <2>3. ASSUME Fixed(gen), SeriesCovered(gen), NEW d \in {0, gen.metrics.default}
        PROVE  bytes' <= Due(gen, pc', d)
    <3> DEFINE T == TraceBytes(gen.traces)
               S == SeriesBytes(gen.metrics, d)
               L == LogBytes(gen.logs)
    <3>1. T \in Nat /\ S \in Nat /\ L \in Nat
      BY <1>3, <2>3, PartsNatural
    <3>2. bytes <= Due(gen, step, d) /\ (step = "traces" => bytes = 0)
      BY <1>1, <1>2, <2>3 DEF BytesWithinEstimate, Accepted
    <3>3. /\ signal = "traces" => size = 0 \/ size <= T
          /\ signal = "metrics" => size = 0 \/ size <= S
          /\ signal = "logs" => size = 0 \/ size <= L
      BY <2>2, <2>3
    <3>4. /\ Due(gen, "traces", d) = T /\ Due(gen, "metrics", d) = T
          /\ Due(gen, "logs", d) = T + S /\ Due(gen, "sender", d) = T + S + L
          /\ Due(gen, "failed", d) = T + S + L /\ Due(gen, "panicked", d) = T + S + L
      BY <3>1 DEF Due
    <3> HIDE DEF T, S, L
    <3>5. QED
      BY <1>1, <1>2, <2>1, <2>2, <3>1, <3>2, <3>3, <3>4
  <2>4. bytes' \in Int /\ pc' \notin {"generator", "traces"}
    BY <1>1, <1>2, <2>1, <2>2
  <2>5. QED
    BY <1>2, <2>3, <2>4 DEF BytesWithinEstimate
<1>9. QED
  BY <1>4, <1>5, <1>6, <1>7, <1>8

\* Generate of the traces is a turn; it panics only through a negative number of spans or of
\* custom attributes.
LEMMA GenerateTracesStep == StartupInv /\ GenerateTraces => StartupInv'
<1> SUFFICES ASSUME StartupInv, GenerateTraces PROVE StartupInv'
  OBVIOUS
<1> DEFINE t == gen.traces
           highTraces == IF t.high THEN AtLeast(0, t.highCount) ELSE 0
           drawn == IF t.stdDev = 0 THEN Spans(t.avg, 12) ELSE 1..(t.avg + Deviation)
           fat == IF FatSpansEnabled(t) THEN {t.fatMin, t.fatMax} ELSE {0}
           wide == Spans(AtLeast(1, t.highSpans), 22)
           spans(n, w) == t.count * n + highTraces * w
           size(n, w, a) == spans(n, w) * (BytesPerSpan + a * (t.valueBytes + FatAttrKeyOverhead))
<1>1. /\ pc = "traces" /\ UNCHANGED <<gen, send, templates, exporters, workers>>
      /\ \/ t.count = 0 /\ Skip("metrics")
         \/ t.count # 0 /\ (t.customCount < 0 \/ (highTraces > 0 /\ t.highSpans < 0)) /\ Panic
         \/ t.count # 0 /\ \E n \in drawn, w \in wide, a \in fat :
              Write("traces", t.count + highTraces, spans(n, w), size(n, w, a), "metrics")
  BY DEF GenerateTraces
<1>2. GeneratorAccepted(gen) /\ t.high \in BOOLEAN
  BY <1>1 DEF StartupInv, ConfigurationsChecked, Accepted, GeneratorAccepted
<1>3. CASE Skip("metrics")
  <2>1. Turn("traces", "metrics", "traces")
    BY <1>1, <1>3 DEF Turn, Skip
  <2>2. QED
    BY <2>1, TurnStep
<1>4. CASE t.count # 0 /\ (t.customCount < 0 \/ (highTraces > 0 /\ t.highSpans < 0)) /\ Panic
  <2>1. t.count > 0 /\ (t.customCount < 0 \/ (t.high /\ t.highSpans < 0))
    BY <1>2, <1>4 DEF GeneratorAccepted, TraceNumbers
  <2>2. Turn("traces", "metrics", "traces")
    BY <1>1, <1>4, <2>1 DEF Turn, Panic, Unchecked
  <2>3. QED
    BY <2>2, TurnStep
<1>5. ASSUME t.count # 0, NEW n \in drawn, NEW w \in wide, NEW a \in fat,
             Write("traces", t.count + highTraces, spans(n, w), size(n, w, a), "metrics")
      PROVE  Turn("traces", "metrics", "traces")
  <2> DEFINE resources == t.count + highTraces
             events == spans(n, w)
             bulk == size(n, w, a)
  <2>1. /\ resources \in Nat /\ events \in Nat /\ bulk \in Int
        /\ Fixed(gen) => events = Asked("traces") /\ bulk <= TraceBytes(t)
    BY <1>2, <1>5, TraceSizes
  <2>2. Write("traces", resources, events, bulk, "metrics")
    BY <1>5
  <2> HIDE DEF resources, events, bulk
  <2>3. QED
    BY <1>1, <2>1, <2>2 DEF Turn, Write
<1>6. CASE t.count # 0 /\ \E n \in drawn, w \in wide, a \in fat :
             Write("traces", t.count + highTraces, spans(n, w), size(n, w, a), "metrics")
  <2>1. Turn("traces", "metrics", "traces")
    BY <1>5, <1>6
  <2>2. QED
    BY <2>1, TurnStep
<1>7. QED
  BY <1>1, <1>3, <1>4, <1>6

\* Generate of the metrics is a turn.
LEMMA GenerateMetricsStep == StartupInv /\ GenerateMetrics => StartupInv'
<1> SUFFICES ASSUME StartupInv, GenerateMetrics PROVE StartupInv'
  OBVIOUS
<1> DEFINE m == gen.metrics
           counts == SeriesCounts(m)
           selected == Len(SelectMetrics(m.count))
<1>1. /\ pc = "metrics" /\ UNCHANGED <<gen, send, templates, exporters, workers>>
      /\ \/ m.count = 0 /\ Skip("logs")
         \/ m.count # 0 /\ \E points \in {selected * Min(counts), selected * Max(counts)} :
              Write("metrics", 1, points, points * BytesPerMetricDataPoint, "logs")
  BY DEF GenerateMetrics
<1>2. GeneratorAccepted(gen)
  BY <1>1 DEF StartupInv, ConfigurationsChecked, Accepted
<1>3. ASSUME m.count # 0, NEW points \in {selected * Min(counts), selected * Max(counts)},
             Write("metrics", 1, points, points * BytesPerMetricDataPoint, "logs")
      PROVE  Turn("metrics", "logs", "metrics")
  <2> DEFINE size == points * BytesPerMetricDataPoint
  <2>1. /\ points \in Nat /\ size \in Nat
        /\ Fixed(gen) => /\ points = Asked("metrics")
                         /\ SeriesCovered(gen) =>
                              \A d \in {0, m.default} : size <= SeriesBytes(m, d)
    BY <1>2, <1>3, MetricSizes
  <2>2. Write("metrics", 1, points, size, "logs")
    BY <1>3
  <2> HIDE DEF size
  <2>3. 1 \in Nat
    OBVIOUS
  <2>4. QED
    BY <1>1, <2>1, <2>2, <2>3 DEF Turn, Write
<1>4. Turn("metrics", "logs", "metrics")
  <2>1. CASE Skip("logs")
    BY <1>1, <2>1 DEF Turn, Skip
  <2>2. QED
    BY <1>1, <1>3, <2>1
<1>5. QED
  BY <1>4, TurnStep

\* Generate of the logs is a turn; it panics only without services to choose from.
LEMMA GenerateLogsStep == StartupInv /\ GenerateLogs => StartupInv'
<1> SUFFICES ASSUME StartupInv, GenerateLogs PROVE StartupInv'
  OBVIOUS
<1> DEFINE l == gen.logs
           n == LogCounts(l)
           records == AtLeast(0, n.http) + AtLeast(0, n.app) + AtLeast(0, n.sys)
           size == records * BytesPerLogRecord
<1>1. /\ pc = "logs" /\ UNCHANGED <<gen, send, templates, exporters, workers>>
      /\ \/ l.count = 0 /\ Skip("sender")
         \/ l.count # 0 /\ (l.services < 0 \/ (l.services = 0 /\ n.app > 0)) /\ Panic
         \/ l.count # 0 /\ Write("logs", 1, records, size, "sender")
  BY DEF GenerateLogs
<1>2. GeneratorAccepted(gen) /\ l.count \in Nat
  BY <1>1 DEF StartupInv, ConfigurationsChecked, Accepted, GeneratorAccepted
<1>3. l.count # 0 =>
        /\ records \in Nat /\ size \in Nat
        /\ n.app > 0 => l.app > 0
        /\ Fixed(gen) => records = Asked("logs") /\ size = LogBytes(l)
  BY <1>2, LogSizes
<1>4. Turn("logs", "sender", "logs")
  <2>1. CASE Skip("sender")
    BY <1>1, <2>1 DEF Turn, Skip
  <2>2. CASE l.count # 0 /\ (l.services < 0 \/ (l.services = 0 /\ n.app > 0)) /\ Panic
    <3>1. Unchecked
      BY <1>2, <1>3, <2>2 DEF Unchecked
    <3>2. QED
      BY <1>1, <2>2, <3>1 DEF Turn, Panic
  <2>3. CASE l.count # 0 /\ Write("logs", 1, records, size, "sender")
    <3> HIDE DEF records, size
    <3>1. 1 \in Nat /\ size \in Int /\ (Fixed(gen) => size <= LogBytes(l))
      BY <1>3, <2>3
    <3>2. QED
      BY <1>1, <1>3, <2>3, <3>1 DEF Turn, Write
  <2>4. QED
    BY <1>1, <2>1, <2>2, <2>3
<1>5. QED
  BY <1>4, TurnStep

--------------------------------------------------------------------------------
(* The sender's steps *)

\* Once the generator is done, its results stay and the estimate of everything is due.
LEMMA SenderFrame ==
  ASSUME pc \in {"sender", "load", "connect", "pool"} \cup Ended, FilesAsAsked, BytesWithinEstimate,
         UNCHANGED <<gen, files, bytes>>,
         pc' \in {"load", "connect", "pool"} \cup Ended,
         pc = "rejected" => pc' = "rejected"
  PROVE  FilesAsAsked' /\ BytesWithinEstimate'
<1>1. FilesAsAsked'
  <2>1. \A s \in Signal : Asked(s)' = Asked(s)
    BY AskedStays
  <2>2. pc' # "generator"
    BY DEF Ended
  <2>3. QED
    BY <2>1, <2>2 DEF FilesAsAsked
<1>2. ASSUME Accepted', Fixed(gen), SeriesCovered(gen), NEW d \in {0, gen.metrics.default}
      PROVE  bytes <= Due(gen, pc', d)
  <2>1. Accepted
    BY <1>2 DEF Accepted, Ended
  <2>2. Due(gen, pc', d) = Due(gen, pc, d)
    BY DEF Due, Ended
  <2>3. QED
    BY <1>2, <2>1, <2>2 DEF BytesWithinEstimate
<1>3. pc' \notin {"generator", "traces"}
  BY DEF Ended
<1>4. QED
  BY <1>1, <1>2, <1>3 DEF BytesWithinEstimate

\* Completing a sender configuration leaves its inputs and its concurrency.
LEMMA SenderDefaultsKeep ==
  ASSUME NEW c, IsSender(c)
  PROVE  LET g == SenderWithDefaults(c)
         IN /\ IsSender(g) /\ g.concurrency = c.concurrency
            /\ g.duration = (IF c.duration = "" THEN "0" ELSE c.duration)
            /\ g.drainTimeout = (IF c.drainTimeout = "" THEN "120" ELSE c.drainTimeout)
<1> DEFINE g == SenderWithDefaults(c)
<1>1. DOMAIN c = SenderFields
  BY DEF IsSender
<1>2. DOMAIN g = SenderFields
  BY <1>1 DEF SenderWithDefaults, SenderFields
<1>3. g.traces = c.traces /\ g.metrics = c.metrics
  BY <1>1 DEF SenderWithDefaults, SenderFields
<1>4. g.logs = c.logs /\ g.concurrency = c.concurrency
  BY <1>1 DEF SenderWithDefaults, SenderFields
<1>5. g.duration = IF c.duration = "" THEN "0" ELSE c.duration
  BY <1>1 DEF SenderWithDefaults, SenderFields
<1>6. g.drainTimeout = IF c.drainTimeout = "" THEN "120" ELSE c.drainTimeout
  BY <1>1 DEF SenderWithDefaults, SenderFields
<1> HIDE DEF g
<1>7. IsSender(g)
  BY Zenon, <1>2, <1>3, <1>4 DEF IsSender, Signal
<1>8. QED
  BY <1>4, <1>5, <1>6, <1>7 DEF g

\* The sender's checks establish that it has workers and that the durations parse.
LEMMA LoadSenderConfigStep == StartupInv /\ LoadSenderConfig => StartupInv'
<1> SUFFICES ASSUME StartupInv, LoadSenderConfig PROVE StartupInv'
  OBVIOUS
<1> USE DEF StartupInv
<1>1. /\ pc = "sender" /\ UNCHANGED <<gen, files, bytes, templates, exporters, workers>>
      /\ \/ ValidSender(send) /\ pc' = "load" /\ send' = SenderWithDefaults(send)
         \/ pc' = "rejected" /\ send' = send
  BY DEF LoadSenderConfig
<1>2. IsSender(send') /\ (pc' = "load" => SenderAccepted')
  <2>1. IsSender(send)
    BY DEF ConfigurationsChecked
  <2>2. CASE ValidSender(send) /\ pc' = "load" /\ send' = SenderWithDefaults(send)
    <3>1. /\ IsSender(send') /\ send'.concurrency = send.concurrency
          /\ send'.duration = (IF send.duration = "" THEN "0" ELSE send.duration)
          /\ send'.drainTimeout = (IF send.drainTimeout = "" THEN "120" ELSE send.drainTimeout)
      BY <2>1, <2>2, SenderDefaultsKeep
    <3>2. SenderAccepted'
      BY <2>2, <3>1 DEF ValidSender, Parses, SenderAccepted
    <3>3. QED
      BY <3>1, <3>2
  <2>3. QED
    BY <1>1, <2>1, <2>2
<1>3. ConfigurationsChecked'
  BY <1>1, <1>2 DEF ConfigurationsChecked, Accepted, Steps, Ended
<1>4. FilesAsAsked' /\ BytesWithinEstimate'
  BY <1>1, SenderFrame DEF Ended
<1>5. TemplatesAsAsked' /\ ExportersMade' /\ EveryActiveSignalServed'
  BY <1>1, GeneratorFrame DEF Steps, Ended
<1>6. QED
  BY <1>1, <1>3, <1>4, <1>5

\* Load brings what is in the files; only the null device has no first resource.
LEMMA LoadStep == StartupInv /\ Load => StartupInv'
<1> SUFFICES ASSUME StartupInv, Load PROVE StartupInv'
  OBVIOUS
<1> USE DEF StartupInv
<1> DEFINE loaded == [s \in Inputs |-> IF send[s] = "file" THEN files[s] ELSE NothingLoaded]
<1>1. /\ pc = "load" /\ gen' = gen /\ send' = send /\ exporters' = exporters
      /\ UNCHANGED <<files, bytes, workers>>
      /\ \/ /\ \A s \in Inputs : send[s] = "file" => s \in DOMAIN files
            /\ \/ "metrics" \in Inputs /\ loaded["metrics"].resources = 0 /\ pc' = "panicked"
               \/ pc' = "connect" /\ templates' = loaded
         \/ pc' = "failed"
  BY DEF Load
<1>2. IsSender(send) /\ Inputs \subseteq Signal
  BY DEF ConfigurationsChecked, Inputs
<1>3. ConfigurationsChecked'
  BY <1>1 DEF ConfigurationsChecked, Accepted, Steps, Ended, SenderAccepted
<1>4. FilesAsAsked' /\ BytesWithinEstimate'
  BY <1>1, SenderFrame DEF Ended
<1>5. ExportersMade' /\ EveryActiveSignalServed'
  BY <1>1 DEF ExportersMade, EveryActiveSignalServed
<1>6. pc' = "panicked" => Unchecked'
  <2>1. SUFFICES ASSUME pc' = "panicked" PROVE send["metrics"] = "null"
    BY <1>1 DEF Unchecked
  <2>2. /\ "metrics" \in Inputs /\ loaded["metrics"].resources = 0
        /\ send["metrics"] = "file" => "metrics" \in DOMAIN files
    BY <1>1, <2>1
  <2>3. send["metrics"] \in {"", "file", "null"} /\ send["metrics"] # ""
    BY <1>2, <2>2 DEF Inputs, IsSender, Signal
  <2>4. send["metrics"] = "file" => loaded["metrics"].resources = 1
    BY <2>2 DEF FilesAsAsked
  <2> HIDE DEF loaded
  <2>5. loaded["metrics"].resources # 1
    BY <2>2
  <2>6. QED
    BY Zenon, <2>3, <2>4, <2>5
<1>7. TemplatesAsAsked'
  <2>1. CASE pc' = "connect"
    <3>1. templates' = loaded /\ \A s \in Inputs : send[s] = "file" => s \in DOMAIN files
      BY <1>1, <2>1
    <3>2. DOMAIN templates' = Inputs
      BY <3>1
    <3>3. \A s \in Signal : Asked(s)' = Asked(s)
      BY <1>1, AskedStays
    <3>4. ASSUME NEW s \in Inputs
          PROVE  /\ templates'[s].events \in Nat
                 /\ Fixed(gen) /\ send[s] = "file" => templates'[s].events = Asked(s)'
      <4>1. CASE send[s] = "file"
        BY <1>2, <3>1, <3>3, <4>1 DEF FilesAsAsked
      <4>2. CASE send[s] # "file"
        BY <3>1, <4>2 DEF NothingLoaded
      <4>3. QED
        BY <4>1, <4>2
    <3>5. QED
      BY <1>1, <1>2, <3>2, <3>4 DEF TemplatesAsAsked
  <2>2. CASE pc' # "connect"
    BY <1>1, <2>2 DEF TemplatesAsAsked, Loaded
  <2>3. QED
    BY <2>1, <2>2
<1>8. QED
  BY <1>3, <1>4, <1>5, <1>6, <1>7

\* Connecting and starting leave what is loaded.
LEMMA TemplatesStay ==
  ASSUME TemplatesAsAsked, Loaded, UNCHANGED <<gen, send, templates>>
  PROVE  TemplatesAsAsked'
<1>1. \A s \in Signal : Asked(s)' = Asked(s)
  BY AskedStays
<1>2. QED
  BY <1>1 DEF TemplatesAsAsked

\* Connecting makes the exporters of the signals that are loaded.
LEMMA ConnectStep == StartupInv /\ Connect => StartupInv'
<1> SUFFICES ASSUME StartupInv, Connect PROVE StartupInv'
  OBVIOUS
<1> USE DEF StartupInv
<1>1. /\ pc = "connect" /\ pc' \in {"pool", "failed"}
      /\ UNCHANGED <<gen, send, files, bytes, templates, workers>>
      /\ pc' = "pool" => exporters' = {s \in DOMAIN templates : Has(send[s])}
      /\ pc' = "failed" => exporters' = exporters
  BY DEF Connect
<1>2. ConfigurationsChecked'
  BY <1>1 DEF ConfigurationsChecked, Accepted, Steps, Ended, SenderAccepted
<1>3. FilesAsAsked' /\ BytesWithinEstimate'
  BY <1>1, SenderFrame DEF Ended
<1>4. TemplatesAsAsked'
  BY <1>1, TemplatesStay DEF Loaded
<1>5. ExportersMade' /\ EveryActiveSignalServed'
  BY <1>1 DEF ExportersMade, EveryActiveSignalServed
<1>6. QED
  BY <1>1, <1>2, <1>3, <1>4, <1>5

\* The counts the workers are divided by.
LEMMA EventsType ==
  ASSUME TemplatesAsAsked, Loaded
  PROVE  Events \in [Signal -> Nat] /\ \A s \in DOMAIN templates : Events[s] = templates[s].events
<1>1. ASSUME NEW s \in Signal
      PROVE  (IF s \in DOMAIN templates THEN templates[s].events ELSE 0) \in Nat
  BY DEF TemplatesAsAsked
<1>2. QED
  BY <1>1 DEF Events, TemplatesAsAsked

\* The durations parse, so the workers start or sendTraces panics on a negative batch size.
LEMMA StartWorkersStep == StartupInv /\ StartWorkers => StartupInv'
<1> SUFFICES ASSUME StartupInv, StartWorkers PROVE StartupInv'
  OBVIOUS
<1> USE DEF StartupInv
<1> DEFINE n == Distribution(send.concurrency, Events)
           started == [s \in Signal |-> IF s \in exporters THEN n[s] ELSE 0]
<1>1. /\ pc = "pool" /\ UNCHANGED <<gen, send, files, bytes, templates, exporters>>
      /\ \/ (~Parses(send.duration) \/ ~Parses(send.drainTimeout)) /\ pc' = "failed"
         \/ started["traces"] > 0 /\ send.batch < 0 /\ pc' = "panicked"
         \/ pc' = "running" /\ workers' = started
  BY DEF StartWorkers
<1>2. SenderAccepted /\ IsSender(send)
  BY <1>1 DEF ConfigurationsChecked
<1>3. pc' \in {"panicked", "running"}
  BY <1>1, <1>2 DEF SenderAccepted
<1>4. exporters = {s \in DOMAIN templates : Has(send[s])} /\ DOMAIN templates \subseteq Signal
  BY <1>1 DEF ExportersMade, TemplatesAsAsked, Loaded
<1>5. ConfigurationsChecked'
  BY <1>1, <1>3 DEF ConfigurationsChecked, Accepted, Steps, Ended, SenderAccepted
<1>6. FilesAsAsked' /\ BytesWithinEstimate'
  BY <1>1, <1>3, SenderFrame DEF Ended
<1>7. TemplatesAsAsked'
  BY <1>1, TemplatesStay DEF Loaded
<1>8. ExportersMade'
  BY <1>1, <1>3, <1>4 DEF ExportersMade
<1>9. EveryActiveSignalServed'
  <2>1. SUFFICES ASSUME pc' = "running", NEW s \in DOMAIN templates,
                        templates[s].events > 0, Has(send[s])
                 PROVE  started[s] > 0
    BY <1>1 DEF EveryActiveSignalServed
  <2>2. Events \in [Signal -> Nat] /\ Events[s] > 0
    BY <1>1, <2>1, EventsType DEF Loaded
  <2>3. send.concurrency \in Nat \ {0}
    <3>1. send.concurrency \in Int
      BY Zenon, <1>2 DEF IsSender
    <3>2. send.concurrency > 0
      BY Zenon, <1>2 DEF SenderAccepted
    <3>3. QED
      BY <3>1, <3>2
  <2>4. n[s] > 0
    BY <1>4, <2>2, <2>3, Divided
  <2> HIDE DEF n
  <2>5. QED
    BY <1>4, <2>1, <2>4
<1>10. pc' = "panicked" => Unchecked'
  <2>1. SUFFICES ASSUME pc' = "panicked" PROVE send.batch < 0 /\ send["traces"] = "file"
    BY <1>1 DEF Unchecked
  <2>2. started["traces"] > 0 /\ send.batch < 0
    BY <1>1, <1>2, <2>1 DEF SenderAccepted
  <2>3. "traces" \in exporters
    <3> HIDE DEF n
    <3>1. QED
      BY <2>2 DEF Signal
  <2>4. send["traces"] \in {"", "file", "null"}
    BY <1>2 DEF IsSender, Signal
  <2>5. QED
    BY <1>4, <2>2, <2>3, <2>4 DEF Has
<1>11. QED
  BY <1>5, <1>6, <1>7, <1>8, <1>9, <1>10

\* Standing still keeps every part.
LEMMA StandStill == StartupInv /\ UNCHANGED vars => StartupInv'
<1> SUFFICES ASSUME StartupInv, UNCHANGED vars PROVE StartupInv'
  OBVIOUS
<1>1. \A s \in Signal : Asked(s)' = Asked(s)
  BY AskedStays DEF vars
<1>2. FilesAsAsked' /\ TemplatesAsAsked'
  BY <1>1 DEF StartupInv, vars, FilesAsAsked, TemplatesAsAsked, Loaded
<1>3. ConfigurationsChecked' /\ ExportersMade' /\ BytesWithinEstimate' /\ EveryActiveSignalServed'
  BY DEF StartupInv, vars, ConfigurationsChecked, Accepted, SenderAccepted, ExportersMade,
         BytesWithinEstimate, EveryActiveSignalServed
<1>4. (pc = "panicked" => Unchecked)'
  BY DEF StartupInv, vars, Unchecked
<1>5. QED
  BY <1>2, <1>3, <1>4 DEF StartupInv

\* Every step keeps the invariant.
LEMMA InvNext == StartupInv /\ [Next]_vars => StartupInv'
<1> SUFFICES ASSUME StartupInv, [Next]_vars PROVE StartupInv'
  OBVIOUS
<1>1. CASE LoadGeneratorConfig
  BY <1>1, LoadGeneratorConfigStep
<1>2. CASE GenerateTraces
  BY <1>2, GenerateTracesStep
<1>3. CASE GenerateMetrics
  BY <1>3, GenerateMetricsStep
<1>4. CASE GenerateLogs
  BY <1>4, GenerateLogsStep
<1>5. CASE LoadSenderConfig
  BY <1>5, LoadSenderConfigStep
<1>6. CASE Load
  BY <1>6, LoadStep
<1>7. CASE Connect
  BY <1>7, ConnectStep
<1>8. CASE StartWorkers
  BY <1>8, StartWorkersStep
<1>9. CASE Stopped
  BY <1>9, StandStill DEF Stopped
<1>10. CASE UNCHANGED vars
  BY <1>10, StandStill
<1>11. QED
  BY <1>1, <1>2, <1>3, <1>4, <1>5, <1>6, <1>7, <1>8, <1>9, <1>10 DEF Next

--------------------------------------------------------------------------------
(* The namespaces *)

\* Quotient and remainder make up a number, and nothing else does.
LEMMA QuotientRemainder ==
  ASSUME NEW r \in Nat, NEW T \in Nat \ {0}
  PROVE  /\ r \div T \in Nat /\ r % T \in 0..(T - 1) /\ r = (r \div T) * T + (r % T)
         /\ \A k \in Nat, d \in 0..(T - 1) : r = k * T + d => k = r \div T /\ d = r % T
<1> DEFINE q == r \div T
           e == r % T
<1>1. q \in Nat /\ q * T <= r /\ r < q * T + T
  BY Rounding
<1>2. e \in 0..(T - 1) /\ r = q * T + e
  OBVIOUS
<1> HIDE DEF q, e
<1>3. ASSUME NEW k \in Nat, NEW d \in 0..(T - 1), r = k * T + d
      PROVE  k = q /\ d = e
  <2>1. /\ k * T \in Int /\ q * T \in Int
        /\ (k + 1) * T = k * T + T /\ (q + 1) * T = q * T + T
    BY <1>1
  <2>2. k * T < (q + 1) * T /\ q * T < (k + 1) * T
    BY <1>1, <1>2, <1>3, <2>1
  <2>3. k < q + 1
    BY <1>1, <2>2, Factors
  <2>4. q < k + 1
    BY <1>1, <2>2, Factors
  <2>5. k = q
    BY <1>1, <2>3, <2>4
  <2>6. QED
    BY <1>2, <1>3, <2>1, <2>5
<1>4. QED
  BY <1>1, <1>2, <1>3 DEF q, e

\* The numbers below n are n.
LEMMA Segment ==
  ASSUME NEW n \in Nat
  PROVE  IsFiniteSet(0..(n - 1)) /\ Cardinality(0..(n - 1)) = n
<1> DEFINE b == n - 1
<1>1. b \in Int /\ (0 > b => n = 0) /\ b - 0 + 1 = n
  OBVIOUS
<1> HIDE DEF b
<1>2. IsFiniteSet(0..b) /\ Cardinality(0..b) = IF 0 > b THEN 0 ELSE b - 0 + 1
  BY <1>1, FS_Interval
<1>3. QED
  BY <1>1, <1>2 DEF b

\* How many of a set come before a number.
Before(F, i) == Cardinality({j \in F : j < i})

\* Counting those that come before numbers a set without a gap.
LEMMA Ranks ==
  ASSUME NEW F \in SUBSET Nat, IsFiniteSet(F)
  PROVE  /\ Cardinality(F) \in Nat
         /\ \A i \in F : Before(F, i) \in 0..(Cardinality(F) - 1)
         /\ \A i, j \in F : Before(F, i) = Before(F, j) => i = j
         /\ \A r \in 0..(Cardinality(F) - 1) : \E i \in F : Before(F, i) = r
<1> DEFINE n == Cardinality(F)
           Low(i) == {j \in F : j < i}
           rank == [i \in F |-> Before(F, i)]
<1>1. n \in Nat
  BY FS_CardinalityType
<1>2. ASSUME NEW S \in SUBSET F, NEW T \in SUBSET S, T # S
      PROVE  Cardinality(S) \in Nat /\ Cardinality(T) \in Nat /\ Cardinality(T) < Cardinality(S)
  <2>1. IsFiniteSet(S)
    BY FS_Subset
  <2>2. IsFiniteSet(T) /\ Cardinality(T) <= Cardinality(S) /\ Cardinality(S) # Cardinality(T)
    BY <1>2, <2>1, FS_Subset
  <2>3. Cardinality(S) \in Nat /\ Cardinality(T) \in Nat
    BY <2>1, <2>2, FS_CardinalityType
  <2>4. QED
    BY <2>2, <2>3
<1>3. ASSUME NEW i \in F PROVE Before(F, i) \in 0..(n - 1)
  <2>1. Low(i) \in SUBSET F /\ Low(i) # F
    OBVIOUS
  <2>2. Cardinality(Low(i)) \in Nat /\ Cardinality(Low(i)) < n
    BY <1>2, <2>1
  <2>3. QED
    BY <1>1, <2>2 DEF Before
<1>4. ASSUME NEW i \in F, NEW j \in F, i < j PROVE Before(F, i) < Before(F, j)
  <2>1. Low(j) \in SUBSET F /\ Low(i) \in SUBSET Low(j)
    <3>1. ASSUME NEW k \in F, k < i PROVE k < j
      <4>1. i \in Nat /\ j \in Nat /\ k \in Nat
        OBVIOUS
      <4>2. QED
        BY <1>4, <3>1, <4>1
    <3>2. QED
      BY <3>1
  <2>2. i \in Low(j) /\ i \notin Low(i)
    BY <1>4
  <2>3. Cardinality(Low(i)) < Cardinality(Low(j))
    <3> HIDE DEF Low
    <3>1. QED
      BY <1>2, <2>1, <2>2
  <2>4. QED
    BY <2>3 DEF Before
<1>5. ASSUME NEW i \in F, NEW j \in F, Before(F, i) = Before(F, j) PROVE i = j
  BY <1>3, <1>4, <1>5
<1>6. rank \in Injection(F, 0..(n - 1))
  BY <1>3, <1>5 DEF Injection, IsInjective
<1>7. IsFiniteSet(0..(n - 1)) /\ Cardinality(0..(n - 1)) = n
  BY <1>1, Segment
<1>8. rank \in Surjection(F, 0..(n - 1))
  BY <1>6, <1>7, FS_Injection
<1>9. ASSUME NEW r \in 0..(n - 1) PROVE \E i \in F : Before(F, i) = r
  BY <1>8 DEF Surjection
<1>10. QED
  BY <1>1, <1>3, <1>5, <1>9

\* Taking turns: those of a set whose turn falls on certain places of a list of that length
\* are as many as the full rounds give, or at most what one more round gives.
LEMMA RoundRobin ==
  ASSUME NEW F \in SUBSET Nat, IsFiniteSet(F), NEW T \in Nat \ {0}, NEW P \in SUBSET (1..T)
  PROVE  LET K == {i \in F : 1 + (Before(F, i) % T) \in P}
             m == Cardinality(P)
             q == Cardinality(F) \div T
         IN /\ q \in Nat /\ m \in Nat /\ Cardinality(K) \in Nat
            /\ m * q <= Cardinality(K) /\ Cardinality(K) <= m * (q + 1)
<1> DEFINE n == Cardinality(F)
           q == n \div T
           m == Cardinality(P)
           K == {i \in F : 1 + (Before(F, i) % T) \in P}
           Some == P \X (0..(q - 1))
           All == P \X (0..q)
<1>1. /\ n \in Nat
      /\ \A i \in F : Before(F, i) \in 0..(n - 1)
      /\ \A i, j \in F : Before(F, i) = Before(F, j) => i = j
      /\ \A r \in 0..(n - 1) : \E i \in F : Before(F, i) = r
  BY Ranks
<1>2. q \in Nat /\ q * T <= n /\ n < q * T + T
  BY <1>1, Rounding
<1>3. IsFiniteSet(1..T)
  BY FS_Interval
<1>4. IsFiniteSet(P) /\ m \in Nat
  BY <1>3, FS_Subset, FS_CardinalityType
<1>5. IsFiniteSet(K) /\ Cardinality(K) \in Nat
  <2>1. K \in SUBSET F
    OBVIOUS
  <2> HIDE DEF K
  <2>2. QED
    BY <2>1, FS_Subset, FS_CardinalityType
<1> HIDE DEF n, q, m
<1>6. /\ IsFiniteSet(0..(q - 1)) /\ Cardinality(0..(q - 1)) = q
      /\ IsFiniteSet(0..q) /\ Cardinality(0..q) = q + 1
  <2>1. q + 1 \in Nat /\ (q + 1) - 1 = q
    BY <1>2
  <2>2. IsFiniteSet(0..((q + 1) - 1)) /\ Cardinality(0..((q + 1) - 1)) = q + 1
    BY <2>1, Segment
  <2>3. QED
    BY <1>2, <2>1, <2>2, Segment
<1>7. /\ IsFiniteSet(Some) /\ Cardinality(Some) = m * q
      /\ IsFiniteSet(All) /\ Cardinality(All) = m * (q + 1)
  BY <1>4, <1>6, FS_Product DEF m
<1>8. ASSUME NEW i \in F
      PROVE  LET r == Before(F, i)
             IN /\ r \in Nat /\ r \div T \in 0..q /\ r % T \in 0..(T - 1)
                /\ r = (r \div T) * T + (r % T)
                /\ \A k \in Nat, d \in 0..(T - 1) : r = k * T + d => k = r \div T /\ d = r % T
  <2> DEFINE r == Before(F, i)
             k == r \div T
  <2>1. r \in Nat /\ r < n
    BY <1>1
  <2> HIDE DEF r
  <2>2. /\ k \in Nat /\ r % T \in 0..(T - 1) /\ r = k * T + (r % T)
        /\ \A l \in Nat, d \in 0..(T - 1) : r = l * T + d => l = k /\ d = r % T
    BY <2>1, QuotientRemainder
  <2> HIDE DEF k
  <2>3. k * T \in Int /\ q * T \in Int /\ (q + 1) * T = q * T + T
    BY <1>2, <2>2
  <2>4. k * T < (q + 1) * T
    BY <1>1, <1>2, <2>1, <2>2, <2>3
  <2>5. k < q + 1
    BY <1>2, <2>2, <2>4, Factors
  <2>6. k \in 0..q
    BY <1>2, <2>2, <2>5
  <2>7. QED
    BY <2>1, <2>2, <2>6 DEF r, k
<1>9. Cardinality(K) <= m * (q + 1)
  <2> DEFINE g == [i \in K |-> <<1 + (Before(F, i) % T), Before(F, i) \div T>>]
  <2>1. g \in [K -> All]
    BY <1>8
  <2>2. ASSUME NEW i \in K, NEW j \in K, g[i] = g[j] PROVE i = j
    <3>1. Before(F, i) % T \in Int /\ Before(F, j) % T \in Int
      BY <1>8
    <3>2. /\ 1 + (Before(F, i) % T) = 1 + (Before(F, j) % T)
          /\ Before(F, i) \div T = Before(F, j) \div T
      BY <2>2
    <3>3. Before(F, i) % T = Before(F, j) % T
      BY <3>1, <3>2
    <3>4. Before(F, i) = Before(F, j)
      <4> DEFINE Made(k, d) == k * T + d
      <4>1. /\ Before(F, i) = Made(Before(F, i) \div T, Before(F, i) % T)
            /\ Before(F, j) = Made(Before(F, j) \div T, Before(F, j) % T)
        BY <1>8
      <4> HIDE DEF Made
      <4>2. QED
        BY Zenon, <3>2, <3>3, <4>1
    <3>5. QED
      BY <1>1, <3>4
  <2> HIDE DEF g, All, K
  <2>3. g \in Injection(K, All)
    BY <2>1, <2>2 DEF Injection, IsInjective
  <2>4. QED
    BY <1>7, <2>3, FS_Injection
<1>10. m * q <= Cardinality(K)
  <2> DEFINE rank(c) == c[2] * T + (c[1] - 1)
             h == [c \in Some |-> CHOOSE i \in F : Before(F, i) = rank(c)]
  <2>1. ASSUME NEW c \in Some
        PROVE  /\ c[1] \in P /\ c[2] \in 0..(q - 1) /\ c[1] - 1 \in 0..(T - 1)
               /\ c = <<c[1], c[2]>>
               /\ h[c] \in F /\ Before(F, h[c]) = rank(c)
    <3>1. /\ c[1] \in P /\ c[2] \in 0..(q - 1) /\ c[1] - 1 \in 0..(T - 1)
          /\ c = <<c[1], c[2]>>
      <4>1. c[1] \in P /\ c[2] \in 0..(q - 1) /\ c = <<c[1], c[2]>>
        OBVIOUS
      <4>2. c[1] \in 1..T
        BY <4>1
      <4>3. c[1] - 1 \in 0..(T - 1)
        BY <4>2
      <4>4. QED
        BY <4>1, <4>3
    <3> DEFINE k == c[2]
               d == c[1] - 1
    <3>2. k \in Nat /\ k + 1 <= q /\ d \in 0..(T - 1)
      BY <1>2, <3>1
    <3> HIDE DEF k, d
    <3>3. (k + 1) * T <= q * T
      BY <1>2, <3>2, Factors
    <3>4. (k + 1) * T = k * T + T /\ k * T \in Nat /\ q * T \in Nat
      BY <1>2, <3>2
    <3>5. k * T + d \in 0..(n - 1)
      BY <1>1, <1>2, <3>2, <3>3, <3>4
    <3>6. \E i \in F : Before(F, i) = k * T + d
      BY <1>1, <3>5 DEF n
    <3>7. \E i \in F : Before(F, i) = rank(c)
      BY <3>6 DEF k, d
    <3> HIDE DEF rank, Some
    <3>8. h[c] = CHOOSE i \in F : Before(F, i) = rank(c)
      OBVIOUS
    <3>9. h[c] \in F /\ Before(F, h[c]) = rank(c)
      BY <3>7, <3>8
    <3>10. QED
      BY <3>1, <3>9
  <2>2. ASSUME NEW c \in Some
        PROVE  c[2] = Before(F, h[c]) \div T /\ c[1] = 1 + (Before(F, h[c]) % T)
    <3> HIDE DEF h
    <3>1. /\ c[2] \in Nat /\ c[1] \in Int /\ c[1] - 1 \in 0..(T - 1)
          /\ h[c] \in F /\ Before(F, h[c]) = c[2] * T + (c[1] - 1)
      <4>1. /\ c[1] \in P /\ c[2] \in 0..(q - 1) /\ c[1] - 1 \in 0..(T - 1)
            /\ h[c] \in F /\ Before(F, h[c]) = c[2] * T + (c[1] - 1)
        BY Zenon, <2>1
      <4>2. \A x \in P : x \in Int
        OBVIOUS
      <4>3. \A x \in 0..(q - 1) : x \in Nat
        BY <1>2
      <4>4. QED
        BY Zenon, <4>1, <4>2, <4>3
    <3>2. c[2] = Before(F, h[c]) \div T /\ c[1] - 1 = Before(F, h[c]) % T
      BY <1>8, <3>1
    <3>3. QED
      BY <3>1, <3>2
  <2> HIDE DEF h, rank, Some
  <2>3. \A c \in Some : h[c] \in K
    BY <2>1, <2>2
  <2>4. ASSUME NEW c \in Some, NEW d \in Some, h[c] = h[d] PROVE c = d
    <3>1. c[1] = d[1] /\ c[2] = d[2]
      BY <2>2, <2>4
    <3>2. c = <<c[1], c[2]>> /\ d = <<d[1], d[2]>>
      BY <2>1
    <3>3. QED
      BY Zenon, <3>1, <3>2
  <2>5. h \in Injection(Some, K)
    <3>1. DOMAIN h = Some /\ h = [c \in Some |-> h[c]]
      BY DEF h
    <3> HIDE DEF K
    <3>2. h \in [Some -> K]
      BY <2>3, <3>1
    <3>3. QED
      BY <2>4, <3>2 DEF Injection, IsInjective
  <2> HIDE DEF K
  <2>6. QED
    BY <1>5, <1>7, <2>5, FS_Injection
<1>11. QED
  BY <1>2, <1>4, <1>5, <1>9, <1>10 DEF n, q, m

\* The services without an assignment correspond to the places where they are listed first.
LEMMA UnassignedPlaces ==
  ASSUME NEW t, NEW N \in Nat, DOMAIN t.names = 1..N, DOMAIN t.assigned \subseteq ToSet(t.names)
  PROVE  /\ Unassigned(t) \in SUBSET Nat /\ IsFiniteSet(Unassigned(t))
         /\ \A i, j \in Unassigned(t) : t.names[i] = t.names[j] => i = j
         /\ {t.names[i] : i \in Unassigned(t)} = ToSet(t.names) \ DOMAIN t.assigned
<1> DEFINE F == Unassigned(t)
<1>1. /\ F \in SUBSET (1..N)
      /\ \A i \in F : t.names[i] \notin DOMAIN t.assigned
      /\ \A i \in F : \A j \in 1..(i - 1) : t.names[j] # t.names[i]
  BY DEF Unassigned
<1>2. IsFiniteSet(F)
  BY <1>1, FS_Interval, FS_Subset
<1>3. ASSUME NEW i \in F, NEW j \in F, t.names[i] = t.names[j] PROVE i = j
  <2>1. i \in 1..N /\ j \in 1..N
    BY <1>1
  <2> HIDE DEF F
  <2>2. ~(i < j) /\ ~(j < i)
    <3>1. i < j => i \in 1..(j - 1)
      BY <2>1
    <3>2. j < i => j \in 1..(i - 1)
      BY <2>1
    <3>3. QED
      BY <1>1, <1>3, <3>1, <3>2
  <2>3. QED
    BY <2>1, <2>2
<1>4. ASSUME NEW s \in ToSet(t.names), s \notin DOMAIN t.assigned
      PROVE  \E i \in F : t.names[i] = s
  <2> DEFINE S == {i \in 1..N : t.names[i] = s}
  <2>1. S \in SUBSET Nat /\ S # {}
    BY DEF ToSet
  <2>2. PICK m \in S : \A i \in S : m <= i
    <3> HIDE DEF S
    <3>1. QED
      BY <2>1, LeastNat
  <2>3. m \in 1..N /\ t.names[m] = s
    OBVIOUS
  <2>4. ASSUME NEW j \in 1..(m - 1) PROVE t.names[j] # t.names[m]
    <3>1. j \in 1..N /\ j < m
      BY <2>3
    <3>2. QED
      BY <2>2, <2>3, <3>1
  <2>5. m \in F
    BY <1>4, <2>3, <2>4 DEF Unassigned
  <2>6. QED
    BY <2>3, <2>5
<1> HIDE DEF F
<1>5. {t.names[i] : i \in F} = ToSet(t.names) \ DOMAIN t.assigned
  <2>1. \A i \in F : t.names[i] \in ToSet(t.names)
    BY <1>1 DEF ToSet
  <2>2. QED
    BY <1>1, <1>4, <2>1
<1>6. QED
  BY <1>1, <1>2, <1>3, <1>5 DEF F

\* What NamespacesResolved says of a configuration of traces.
NamespacesShared(t) ==
  LET rest == DOMAIN t.resolved \ DOMAIN t.assigned
      given(ns) == Cardinality({s \in rest : t.resolved[s] = ns})
      listed(ns) == Cardinality({i \in DOMAIN t.namespaces : t.namespaces[i] = ns})
      rounds == Cardinality(rest) \div Len(t.namespaces)
  IN /\ \A s \in DOMAIN t.assigned : t.resolved[s] = t.assigned[s]
     /\ t.namespaces # <<>> => DOMAIN t.resolved = ToSet(t.names)
     /\ \A ns \in ToSet(t.namespaces) :
          given(ns) \in (listed(ns) * rounds)..(listed(ns) * (rounds + 1))

\* Every service is resolved, and each namespace gets its share of those not assigned.
LEMMA ResolvedEvenly ==
  ASSUME NEW t, NEW N \in Nat, DOMAIN t.names = 1..N, DOMAIN t.assigned \subseteq ToSet(t.names),
         t.namespaces \in Seq(STRING), t.namespaces # <<>>
  PROVE  LET resolved == ResolveServiceNamespaces(t)
             rest == DOMAIN resolved \ DOMAIN t.assigned
             listed(ns) == Cardinality({i \in DOMAIN t.namespaces : t.namespaces[i] = ns})
             rounds == Cardinality(rest) \div Len(t.namespaces)
         IN /\ DOMAIN resolved = ToSet(t.names)
            /\ \A ns : Cardinality({s \in rest : resolved[s] = ns}) \in
                         (listed(ns) * rounds)..(listed(ns) * (rounds + 1))
<1> DEFINE F == Unassigned(t)
           L == Len(t.namespaces)
           resolved == ResolveServiceNamespaces(t)
           R == {t.names[i] : i \in F}
           nm == [i \in F |-> t.names[i]]
           rest == DOMAIN resolved \ DOMAIN t.assigned
           rounds == Cardinality(rest) \div L
<1>1. L \in Nat \ {0} /\ DOMAIN t.namespaces = 1..L
  OBVIOUS
<1>2. /\ F \in SUBSET Nat /\ IsFiniteSet(F)
      /\ \A i, j \in F : t.names[i] = t.names[j] => i = j
      /\ R = ToSet(t.names) \ DOMAIN t.assigned
  BY UnassignedPlaces
<1>3. resolved = [s \in DOMAIN t.assigned \cup R |->
                    IF s \in DOMAIN t.assigned THEN t.assigned[s]
                    ELSE t.namespaces[NamespaceTurn(t, CHOOSE i \in F : t.names[i] = s)]]
  BY Zenon DEF ResolveServiceNamespaces
<1>4. \A i \in F : NamespaceTurn(t, i) = 1 + (Before(F, i) % L)
  BY Zenon DEF NamespaceTurn, Before
<1> HIDE DEF F, L, resolved
<1>5. DOMAIN resolved = ToSet(t.names) /\ rest = R
  BY <1>2, <1>3
<1>6. ASSUME NEW i \in F
      PROVE  t.names[i] \in R /\ resolved[t.names[i]] = t.namespaces[1 + (Before(F, i) % L)]
  <2>1. t.names[i] \in R /\ t.names[i] \notin DOMAIN t.assigned
    BY <1>2
  <2>2. (CHOOSE j \in F : t.names[j] = t.names[i]) = i
    BY <1>2
  <2>3. resolved[t.names[i]] =
          t.namespaces[NamespaceTurn(t, CHOOSE j \in F : t.names[j] = t.names[i])]
    BY <1>3, <2>1
  <2>4. QED
    BY Zenon, <1>4, <2>1, <2>2, <2>3
<1>7. Cardinality(rest) = Cardinality(F)
  <2>1. nm \in Bijection(F, R)
    BY <1>2 DEF Bijection, Injection, Surjection, IsInjective
  <2> HIDE DEF nm, R
  <2>2. Cardinality(R) = Cardinality(F)
    BY <1>2, <2>1, FS_Bijection DEF ExistsBijection
  <2>3. QED
    BY Zenon, <1>5, <2>2
<1>8. ASSUME NEW ns
      PROVE  LET P == {p \in DOMAIN t.namespaces : t.namespaces[p] = ns}
                 m == Cardinality(P)
             IN Cardinality({s \in rest : resolved[s] = ns}) \in (m * rounds)..(m * (rounds + 1))
  <2> DEFINE P == {p \in DOMAIN t.namespaces : t.namespaces[p] = ns}
             m == Cardinality(P)
             K == {i \in F : 1 + (Before(F, i) % L) \in P}
             G == {s \in rest : resolved[s] = ns}
             q == Cardinality(F) \div L
             f == [i \in K |-> t.names[i]]
  <2>1. P \in SUBSET (1..L)
    BY <1>1
  <2>2. ASSUME NEW i \in F PROVE i \in K <=> t.names[i] \in G
    <3>1. 1 + (Before(F, i) % L) \in DOMAIN t.namespaces
      <4>1. Before(F, i) \in Nat
        <5>1. Cardinality(F) \in Nat /\ Before(F, i) \in 0..(Cardinality(F) - 1)
          BY <1>2, Ranks
        <5>2. QED
          BY <5>1
      <4>2. Before(F, i) % L \in 0..(L - 1)
        BY <1>1, <4>1, QuotientRemainder
      <4>3. QED
        BY <1>1, <4>2
    <3>2. i \in K <=> t.namespaces[1 + (Before(F, i) % L)] = ns
      BY <3>1
    <3>3. t.names[i] \in G <=> resolved[t.names[i]] = ns
      BY <1>5, <1>6
    <3>4. QED
      BY Zenon, <1>6, <3>2, <3>3
  <2>3. ASSUME NEW s \in G PROVE \E i \in K : t.names[i] = s
    <3>1. s \in R
      BY <1>5
    <3>2. PICK i \in F : t.names[i] = s
      BY <3>1
    <3> HIDE DEF K, G
    <3>3. QED
      BY <2>2, <3>2
  <2>4. K \in SUBSET F
    OBVIOUS
  <2> HIDE DEF K, G
  <2>5. f \in Bijection(K, G)
    BY <1>2, <2>2, <2>3, <2>4 DEF Bijection, Injection, Surjection, IsInjective
  <2>6. IsFiniteSet(K)
    BY <1>2, <2>4, FS_Subset
  <2> HIDE DEF f
  <2>7. Cardinality(G) = Cardinality(K)
    BY <2>5, <2>6, FS_Bijection DEF ExistsBijection
  <2> HIDE DEF P, q, m
  <2>8. /\ q \in Nat /\ m \in Nat /\ Cardinality(K) \in Nat
        /\ m * q <= Cardinality(K) /\ Cardinality(K) <= m * (q + 1)
    BY <1>1, <1>2, <2>1, RoundRobin DEF K, q, m
  <2>9. rounds = q
    BY Zenon, <1>7 DEF q
  <2> HIDE DEF rounds
  <2>10. m * q \in Int /\ m * (q + 1) \in Int
    BY <2>8
  <2>11. Cardinality(G) \in (m * q)..(m * (q + 1))
    BY <2>7, <2>8, <2>10
  <2>12. QED
    BY Zenon, <2>9, <2>11 DEF G, P, m
<1>9. QED
  BY Zenon, <1>5, <1>8 DEF resolved, L

\* Completing a valid configuration resolves its namespaces.
LEMMA CompletedResolved ==
  ASSUME NEW c, IsGeneratorConfig(c), ValidGenerator(c), c.traces.count > 0
  PROVE  NamespacesShared(WithDefaults(c).traces)
<1> DEFINE named == [c.traces EXCEPT !.names =
                       IF c.traces.names = <<>> THEN SubSeq(GeneratedNames, 1, c.traces.services)
                       ELSE c.traces.names]
           t == [named EXCEPT !.ingress =
                   IF named.single /\ named.ingress = "" THEN Head(named.names) ELSE named.ingress]
           u == [t EXCEPT !.resolved = ResolveServiceNamespaces(t)]
           m == [c.metrics EXCEPT !.default =
                   IF c.metrics.count > 0 /\ c.metrics.default = 0 THEN 300 ELSE c.metrics.default]
           g == WithDefaults(c)
<1>1. g = [c EXCEPT !.maxMemory = IF c.maxMemory = 0 THEN DefaultMaxMemory ELSE c.maxMemory,
                    !.metrics = m, !.traces = IF c.traces.count > 0 THEN u ELSE c.traces]
  BY Zenon DEF WithDefaults
<1>2. DOMAIN c = {"directory", "maxMemory", "unbounded", "traces", "metrics", "logs"}
  BY DEF IsGeneratorConfig
<1>3. /\ DOMAIN c.traces = TraceNumbers \cup {"high", "single", "lateRoot", "names", "ingress",
                                               "namespaces", "assigned", "resolved"}
      /\ c.traces.names \in Seq(STRING) /\ c.traces.namespaces \in Seq(STRING)
      /\ c.traces.services \in Int
  BY DEF IsGeneratorConfig, IsTracesConfig, TraceNumbers
<1>4. /\ c.traces.services >= 1
      /\ DOMAIN c.traces.assigned \subseteq ToSet(c.traces.names)
  BY DEF ValidGenerator, ValidTraces, ValidNamespaces
<1> HIDE DEF m, u, g
<1>5. g.traces = u
  BY <1>1, <1>2
<1>6. /\ DOMAIN named = DOMAIN c.traces /\ named.assigned = c.traces.assigned
      /\ named.namespaces = c.traces.namespaces
      /\ named.names = IF c.traces.names = <<>> THEN SubSeq(GeneratedNames, 1, c.traces.services)
                       ELSE c.traces.names
  BY <1>3
<1>7. PICK N \in Nat : DOMAIN named.names = 1..N
  <2>1. CASE c.traces.names = <<>>
    <3>1. c.traces.services \in Nat
      BY <1>3, <1>4
    <3>2. DOMAIN SubSeq(GeneratedNames, 1, c.traces.services) = 1..c.traces.services
      <4>1. \A s \in Seq(STRING), n \in Nat : DOMAIN SubSeq(s, 1, n) = 1..n
        OBVIOUS
      <4>2. QED
        BY <3>1, <4>1, DefaultsAssumption
    <3>3. QED
      BY <1>6, <2>1, <3>1, <3>2
  <2>2. CASE c.traces.names # <<>>
    <3>1. \A s \in Seq(STRING) : Len(s) \in Nat /\ DOMAIN s = 1..Len(s)
      OBVIOUS
    <3>2. QED
      BY <1>3, <1>6, <2>2, <3>1
  <2>3. QED
    BY <2>1, <2>2
<1>8. DOMAIN named.assigned \subseteq ToSet(named.names)
  <2>1. CASE c.traces.names = <<>>
    <3>1. ToSet(c.traces.names) = {}
      BY <2>1 DEF ToSet
    <3>2. QED
      BY <1>4, <1>6, <3>1
  <2>2. CASE c.traces.names # <<>>
    BY <1>4, <1>6, <2>2
  <2>3. QED
    BY <2>1, <2>2
<1> HIDE DEF named
<1>9. /\ DOMAIN t = DOMAIN c.traces /\ t.assigned = named.assigned
      /\ t.namespaces = c.traces.namespaces /\ t.names = named.names
  BY <1>3, <1>6
<1> HIDE DEF t
<1> DEFINE r == ResolveServiceNamespaces(t)
<1>10. /\ u.assigned = t.assigned /\ u.namespaces = t.namespaces /\ u.names = t.names
       /\ u.resolved = r
  <2> HIDE DEF r
  <2>1. u = [t EXCEPT !.resolved = r]
    BY Zenon DEF u, r
  <2>2. QED
    BY <1>3, <1>9, <2>1
<1>11. \A s \in DOMAIN t.assigned : r[s] = t.assigned[s]
  BY DEF ResolveServiceNamespaces
<1> DEFINE rest == DOMAIN r \ DOMAIN t.assigned
           listed(ns) == Cardinality({i \in DOMAIN t.namespaces : t.namespaces[i] = ns})
           rounds == Cardinality(rest) \div Len(t.namespaces)
<1>12. ASSUME t.namespaces # <<>>
       PROVE  /\ DOMAIN r = ToSet(t.names)
              /\ \A ns : Cardinality({s \in rest : r[s] = ns}) \in
                           (listed(ns) * rounds)..(listed(ns) * (rounds + 1))
  <2>1. /\ DOMAIN t.names = 1..N /\ DOMAIN t.assigned \subseteq ToSet(t.names)
        /\ t.namespaces \in Seq(STRING)
    BY <1>3, <1>7, <1>8, <1>9
  <2>2. QED
    BY <1>12, <2>1, ResolvedEvenly
<1>13. t.namespaces = <<>> => ToSet(t.namespaces) = {}
  BY DEF ToSet
<1>14. NamespacesShared(u)
  <2> HIDE DEF r
  <2>1. \A s \in DOMAIN u.assigned : u.resolved[s] = u.assigned[s]
    BY Zenon, <1>10, <1>11
  <2>2. u.namespaces # <<>> => DOMAIN u.resolved = ToSet(u.names)
    BY Zenon, <1>10, <1>12
  <2>3. \A ns \in ToSet(t.namespaces) : Cardinality({s \in rest : r[s] = ns}) \in
                           (listed(ns) * rounds)..(listed(ns) * (rounds + 1))
    BY Zenon, <1>12, <1>13
  <2>4. QED
    BY Zenon, <1>10, <2>1, <2>2, <2>3 DEF NamespacesShared
<1>15. QED
  BY Zenon, <1>5, <1>14 DEF g

\* Only loading the generator's configuration changes it or makes it accepted.
LEMMA NamespacesStep ==
  StartupInv /\ NamespacesResolved /\ [Next]_vars => NamespacesResolved'
<1> SUFFICES ASSUME StartupInv, NamespacesResolved, [Next]_vars PROVE NamespacesResolved'
  OBVIOUS
<1>1. NamespacesResolved <=> (Accepted /\ gen.traces.count > 0 => NamespacesShared(gen.traces))
  BY Zenon DEF NamespacesResolved, NamespacesShared
<1>2. NamespacesResolved' <=> (Accepted' /\ gen'.traces.count > 0 => NamespacesShared(gen'.traces))
  BY Zenon DEF NamespacesResolved, NamespacesShared
<1>3. CASE LoadGeneratorConfig
  <2>1. SUFFICES ASSUME Accepted', gen'.traces.count > 0 PROVE NamespacesShared(gen'.traces)
    BY <1>2
  <2>2. pc = "generator" /\ ValidGenerator(gen) /\ gen' = WithDefaults(gen)
    BY <1>3, <2>1 DEF LoadGeneratorConfig, Accepted
  <2>3. IsGeneratorConfig(gen)
    BY <2>2 DEF StartupInv, ConfigurationsChecked
  <2>4. gen.traces.count > 0
    BY <2>1, <2>2, <2>3, DefaultsKeep DEF TraceNumbers
  <2>5. QED
    BY <2>2, <2>3, <2>4, CompletedResolved
<1>4. CASE ~LoadGeneratorConfig
  <2>1. gen' = gen /\ (Accepted' => Accepted)
    BY <1>4 DEF Next, vars, Accepted, GenerateTraces, GenerateMetrics, GenerateLogs,
                LoadSenderConfig, Load, Connect, StartWorkers, Stopped
  <2>2. QED
    BY Zenon, <1>1, <1>2, <2>1
<1>5. QED
  BY <1>3, <1>4

--------------------------------------------------------------------------------
(* The theorems *)

\* In every reachable state the configurations keep what their checks promised, what is
\* written and loaded is typed and, where nothing is left to chance, what was asked for, and
\* the telemetry written so far is within the estimate of the signals done.
THEOREM StartupInvariance == Spec => []StartupInv
BY InvInit, InvNext, PTL DEF Spec

\* A crash after both checks is one of the known gaps, and no failure comes after the
\* connections are made: the durations the pool parses have been checked.
THEOREM FailuresAreExplained == Spec => []FailuresExplained
<1>1. StartupInv => FailuresExplained
  BY DEF StartupInv, ExportersMade, FailuresExplained
<1>2. QED
  BY <1>1, StartupInvariance, PTL

\* Whatever the counts and the concurrency, every signal with events and an exporter gets a
\* worker.
THEOREM ActiveSignalsServed == Spec => []EveryActiveSignalServed
<1>1. StartupInv => EveryActiveSignalServed
  BY DEF StartupInv
<1>2. QED
  BY <1>1, StartupInvariance, PTL

\* The roundings of the division add one worker at most and lose none, except where every
\* one of several types needs one.
THEOREM DivisionNearConcurrency == Spec => []WorkersNearConcurrency
<1>1. ASSUME StartupInv PROVE WorkersNearConcurrency
  <2>1. SUFFICES ASSUME pc = "pool"
                 PROVE  LET total == SumFunction(Distribution(send.concurrency, Events))
                            active == Cardinality(ActiveSignals(Events))
                        IN IF send.concurrency < active THEN total = active
                           ELSE total \in {active, send.concurrency, send.concurrency + 1}
    BY DEF WorkersNearConcurrency
  <2>2. Events \in [Signal -> Nat]
    BY <1>1, <2>1, EventsType DEF StartupInv, Loaded
  <2>3. SenderAccepted /\ IsSender(send)
    BY <1>1, <2>1 DEF StartupInv, ConfigurationsChecked
  <2>4. send.concurrency \in Int
    BY Zenon, <2>3 DEF IsSender
  <2>5. send.concurrency > 0
    BY Zenon, <2>3 DEF SenderAccepted
  <2>6. send.concurrency \in Nat \ {0}
    BY <2>4, <2>5
  <2>7. QED
    BY <2>2, <2>6, Divided
<1>2. QED
  BY <1>1, StartupInvariance, PTL

\* An accepted configuration whose sizes are fixed and whose default number of series is not
\* below the fewest never makes more telemetry than the limit.
THEOREM MemoryCapHolds == Spec => []CapHolds
<1>1. ASSUME StartupInv PROVE CapHolds
  <2>1. SUFFICES ASSUME Fixed(gen), SeriesCovered(gen), Accepted, ~gen.unbounded
                 PROVE  bytes <= gen.maxMemory
    BY DEF CapHolds, NoOversizedDataset
  <2>2. GeneratorAccepted(gen)
    BY <1>1, <2>1 DEF StartupInv, ConfigurationsChecked
  <2>3. PICK d \in {0, gen.metrics.default} :
          TraceBytes(gen.traces) + SeriesBytes(gen.metrics, d) + LogBytes(gen.logs) <= gen.maxMemory
    BY <2>1, <2>2 DEF GeneratorAccepted
  <2>4. /\ TraceBytes(gen.traces) \in Nat /\ SeriesBytes(gen.metrics, d) \in Nat
        /\ LogBytes(gen.logs) \in Nat
    BY <2>1, <2>2, PartsNatural
  <2>5. bytes \in Int /\ bytes <= Due(gen, pc, d)
    BY <1>1, <2>1 DEF StartupInv, BytesWithinEstimate
  <2>6. gen.maxMemory \in Int
    BY <2>2 DEF GeneratorAccepted
  <2> DEFINE T == TraceBytes(gen.traces)
             S == SeriesBytes(gen.metrics, d)
             L == LogBytes(gen.logs)
  <2>7. Due(gen, pc, d) <= T + S + L /\ Due(gen, pc, d) \in Int
    BY <2>4 DEF Due
  <2> HIDE DEF T, S, L
  <2>8. T + S + L <= gen.maxMemory /\ T \in Nat /\ S \in Nat /\ L \in Nat
    BY <2>3, <2>4 DEF T, S, L
  <2>9. QED
    BY <2>5, <2>6, <2>7, <2>8
<1>2. QED
  BY <1>1, StartupInvariance, PTL

\* Writing, reading and counting bring the sender exactly the events that were asked for,
\* where nothing is left to chance.
THEOREM LoadedAsWasAsked == Spec => []LoadedAsAsked
<1>1. StartupInv => LoadedAsAsked
  BY DEF StartupInv, TemplatesAsAsked, LoadedAsAsked
<1>2. QED
  BY <1>1, StartupInvariance, PTL

\* For every number of metrics asked for, the selection takes from each type its
\* proportional part, to within one, and no metric twice.
THEOREM SelectionIsEven == Spec => []SelectionEven
<1>1. ASSUME StartupInv PROVE SelectionEven
  <2>1. SUFFICES ASSUME pc = "metrics", gen.metrics.count > 0 PROVE SelectionEven
    BY DEF SelectionEven
  <2>2. GeneratorAccepted(gen)
    BY <1>1, <2>1 DEF StartupInv, ConfigurationsChecked, Accepted
  <2>3. gen.metrics.count \in Nat \ {0}
    BY <2>1, <2>2 DEF GeneratorAccepted
  <2>4. QED
    BY <2>3, SelectedEvenly DEF SelectionEven
<1>2. QED
  BY <1>1, StartupInvariance, PTL

\* For every list of services and of namespaces: an explicit assignment is kept, every service
\* gets a namespace when there are any, and the services left over are dealt out to the list
\* evenly, to within one round.
THEOREM NamespacesAreResolved == Spec => []NamespacesResolved
<1>1. Init => NamespacesResolved
  BY DEF Init, NamespacesResolved, Accepted
<1>2. QED
  BY <1>1, NamespacesStep, StartupInvariance, PTL DEF Spec
================================================================================
