--------------------------- MODULE TraceJourneyProofs ---------------------------
(***************************************************************************)
(* Proofs about SpanTree and TraceJourney, for any topology, budget and    *)
(* depth limit and any set of workers.  First what the recursion of the    *)
(* generator keeps true of the spans and of the calls in progress; a       *)
(* recursive function has the value its definition says only if there is   *)
(* such a function, and that of Depth grows with the tree.  Then that what *)
(* a worker makes of the shared template is the tree that was generated,   *)
(* under IDs of its own.                                                   *)
(***************************************************************************)
EXTENDS TraceJourney, SumProofs

--------------------------------------------------------------------------------
(* Numbers and sequences *)

\* A share is no more than the whole.
LEMMA Share ==
  ASSUME NEW m \in Nat, NEW d \in Nat \ {0}
  PROVE  m \div d \in Nat /\ m \div d <= m /\ m \div 1 = m
<1> DEFINE k == m \div d
<1>1. k \in Int /\ k * d <= m /\ m < k * d + d
  OBVIOUS
<1>2. k >= 0
  BY <1>1
<1>3. k <= k * d
  BY <1>1, <1>2
<1> HIDE DEF k
<1>4. k \in Nat /\ k <= m
  BY <1>1, <1>2, <1>3
<1>5. m \div 1 = m
  OBVIOUS
<1>6. QED
  BY <1>4, <1>5 DEF k

\* A sequence of anything, by its length.
IsSequence(s) == Len(s) \in Nat /\ s = [k \in 1..Len(s) |-> s[k]]

\* One element more.
LEMMA Longer ==
  ASSUME NEW s, IsSequence(s), NEW e
  PROVE  /\ IsSequence(Append(s, e)) /\ Len(Append(s, e)) = Len(s) + 1
         /\ DOMAIN s = 1..Len(s) /\ DOMAIN Append(s, e) = 1..(Len(s) + 1)
         /\ Append(s, e)[Len(s) + 1] = e
         /\ \A k \in 1..Len(s) : Append(s, e)[k] = s[k]
<1> DEFINE S == {s[k] : k \in 1..Len(s)} \cup {e}
<1>1. s \in Seq(S) /\ e \in S
  <2>1. s \in [1..Len(s) -> S]
    BY DEF IsSequence
  <2>2. QED
    BY <2>1 DEF IsSequence
<1> HIDE DEF S
<1>2. Append(s, e) \in Seq(S)
  BY <1>1
<1>3. /\ Len(Append(s, e)) = Len(s) + 1 /\ Len(s) \in Nat
      /\ DOMAIN s = 1..Len(s) /\ DOMAIN Append(s, e) = 1..(Len(s) + 1)
      /\ Append(s, e)[Len(s) + 1] = e
      /\ \A k \in 1..Len(s) : Append(s, e)[k] = s[k]
  BY <1>1
<1>4. Append(s, e) = [k \in 1..Len(Append(s, e)) |-> Append(s, e)[k]]
  <2>1. \A a \in Seq(S) : a = [k \in 1..Len(a) |-> a[k]]
    OBVIOUS
  <2>2. QED
    BY <1>2, <2>1, Zenon
<1>5. QED
  BY <1>3, <1>4 DEF IsSequence

--------------------------------------------------------------------------------
(* Depth *)

\* Spans in the order they are created: each after its parent, the first without one.
IsTree(t) ==
  /\ IsSequence(t)
  /\ \A k \in DOMAIN t : t[k].parent \in Nat /\ t[k].parent < k /\ (k # 1 => t[k].parent # 0)

\* The depths of the first n spans of t.
IsDepth(t, n, d) == d = [k \in 1..n |-> IF k = 1 THEN 0 ELSE d[t[k].parent] + 1]

\* The definition of Depth has a solution, one span after the other.
LEMMA DepthExists ==
  ASSUME NEW t, IsTree(t)
  PROVE  \E d : IsDepth(t, Len(t), d)
<1> DEFINE Missing == {n \in 0..Len(t) : ~\E d : IsDepth(t, n, d)}
<1>0. DOMAIN t = 1..Len(t) /\ Len(t) \in Nat
  BY DEF IsTree, IsSequence
<1> SUFFICES ASSUME Missing # {} PROVE FALSE
  BY <1>0
<1>1. PICK m \in Missing : \A n \in Missing : m <= n
  <2>1. Missing \in SUBSET Nat
    BY <1>0
  <2>2. PICK s : s \in Missing
    OBVIOUS
  <2> HIDE DEF Missing
  <2>3. QED
    BY <2>1, <2>2, LeastNat
<1>2. IsDepth(t, 0, <<>>)
  BY DEF IsDepth
<1>3. m \in 1..Len(t) /\ m - 1 \in 0..Len(t) /\ m - 1 \in Nat
  BY <1>0, <1>1, <1>2
<1>4. m - 1 \notin Missing
  BY <1>1, <1>3
<1>5. PICK d : IsDepth(t, m - 1, d)
  BY <1>3, <1>4
<1> DEFINE v == IF m = 1 THEN 0 ELSE d[t[m].parent] + 1
           e == [k \in 1..m |-> IF k = m THEN v ELSE d[k]]
<1>6. ASSUME NEW k \in 1..m
      PROVE  e[k] = (IF k = 1 THEN 0 ELSE e[t[k].parent] + 1)
  <2>1. k \in DOMAIN t
    BY <1>0, <1>3
  <2>2. CASE k = 1
    BY <1>3, <1>5, <2>2 DEF IsDepth
  <2>3. CASE k # 1
    <3>1. t[k].parent \in 1..(k - 1) /\ t[k].parent \in 1..m /\ t[k].parent # m
      BY <1>3, <2>1, <2>3 DEF IsTree
    <3>2. e[t[k].parent] = d[t[k].parent]
      BY <3>1
    <3>3. CASE k = m
      BY <2>3, <3>2, <3>3
    <3>4. CASE k # m
      <4>1. k \in 1..(m - 1)
        BY <1>3, <3>4
      <4>2. d[k] = d[t[k].parent] + 1
        BY <1>5, <2>3, <4>1 DEF IsDepth
      <4>3. QED
        BY <2>3, <3>2, <3>4, <4>2
    <3>5. QED
      BY <3>3, <3>4
  <2>4. QED
    BY <2>2, <2>3
<1>7. IsDepth(t, m, e)
  <2>1. e = [k \in 1..m |-> e[k]]
    OBVIOUS
  <2> HIDE DEF e
  <2>2. QED
    BY <1>6, <2>1 DEF IsDepth
<1>8. QED
  BY <1>1, <1>7

\* The depth of the root and of a child.
LEMMA DepthIs ==
  ASSUME NEW t, IsTree(t)
  PROVE  \A k \in DOMAIN t :
           Depth(t)[k] = (IF k = 1 THEN 0 ELSE Depth(t)[t[k].parent] + 1)
<1>1. DOMAIN t = 1..Len(t)
  BY DEF IsTree, IsSequence
<1>2. PICK e : e = [k \in DOMAIN t |-> IF k = 1 THEN 0 ELSE e[t[k].parent] + 1]
  BY <1>1, DepthExists DEF IsDepth
<1>3. Depth(t) = CHOOSE d : d = [k \in DOMAIN t |-> IF k = 1 THEN 0 ELSE d[t[k].parent] + 1]
  BY DEF Depth
<1>4. Depth(t) = [k \in DOMAIN t |-> IF k = 1 THEN 0 ELSE Depth(t)[t[k].parent] + 1]
  BY <1>2, <1>3
<1>5. QED
  BY <1>4

\* Depths are natural numbers.
LEMMA DepthType ==
  ASSUME NEW t, IsTree(t)
  PROVE  \A k \in DOMAIN t : Depth(t)[k] \in Nat
<1> DEFINE Bad == {k \in DOMAIN t : Depth(t)[k] \notin Nat}
<1>0. DOMAIN t = 1..Len(t) /\ Len(t) \in Nat
  BY DEF IsTree, IsSequence
<1> SUFFICES ASSUME Bad # {} PROVE FALSE
  OBVIOUS
<1>1. PICK m \in Bad : \A n \in Bad : m <= n
  <2>1. Bad \in SUBSET Nat
    BY <1>0
  <2>2. PICK s : s \in Bad
    OBVIOUS
  <2> HIDE DEF Bad
  <2>3. QED
    BY <2>1, <2>2, LeastNat
<1>2. m # 1 /\ m \in DOMAIN t
  BY <1>1, DepthIs
<1>3. t[m].parent \in DOMAIN t /\ t[m].parent < m /\ t[m].parent \in Nat /\ m \in Nat
  BY <1>0, <1>2 DEF IsTree
<1>4. t[m].parent \notin Bad
  BY <1>1, <1>3
<1>5. Depth(t)[m] = Depth(t)[t[m].parent] + 1
  BY <1>2, DepthIs
<1>6. QED
  BY <1>1, <1>3, <1>4, <1>5

\* The depth of a span depends only on the parents up to it.
LEMMA DepthSame ==
  ASSUME NEW t, IsTree(t), NEW u, IsTree(u), Len(t) <= Len(u),
         \A k \in DOMAIN t : u[k].parent = t[k].parent
  PROVE  \A k \in DOMAIN t : Depth(u)[k] = Depth(t)[k]
<1> DEFINE Bad == {k \in DOMAIN t : Depth(u)[k] # Depth(t)[k]}
<1>0. /\ DOMAIN t = 1..Len(t) /\ Len(t) \in Nat /\ DOMAIN u = 1..Len(u) /\ Len(u) \in Nat
      /\ \A k \in DOMAIN t : k \in DOMAIN u
  <2>1. DOMAIN t = 1..Len(t) /\ Len(t) \in Nat /\ DOMAIN u = 1..Len(u) /\ Len(u) \in Nat
    BY DEF IsTree, IsSequence
  <2>2. QED
    BY <2>1
<1> SUFFICES ASSUME Bad # {} PROVE FALSE
  OBVIOUS
<1>1. PICK m \in Bad : \A n \in Bad : m <= n
  <2>1. Bad \in SUBSET Nat
    BY <1>0
  <2>2. PICK s : s \in Bad
    OBVIOUS
  <2> HIDE DEF Bad
  <2>3. QED
    BY <2>1, <2>2, LeastNat
<1>2. /\ m \in DOMAIN t /\ m \in DOMAIN u
      /\ Depth(t)[m] = (IF m = 1 THEN 0 ELSE Depth(t)[t[m].parent] + 1)
      /\ Depth(u)[m] = (IF m = 1 THEN 0 ELSE Depth(u)[u[m].parent] + 1)
  BY <1>0, <1>1, DepthIs
<1>3. m # 1
  BY <1>1, <1>2
<1>4. t[m].parent \in DOMAIN t /\ t[m].parent < m /\ t[m].parent \in Nat /\ m \in Nat
  BY <1>0, <1>2, <1>3 DEF IsTree
<1>5. t[m].parent \notin Bad
  BY <1>1, <1>4
<1>6. Depth(u)[t[m].parent] = Depth(t)[t[m].parent]
  BY <1>4, <1>5
<1>7. u[m].parent = t[m].parent
  BY <1>2
<1>8. QED
  BY <1>1, <1>2, <1>3, <1>6, <1>7

--------------------------------------------------------------------------------
(* Durations *)

\* The children of a span come after it.
LEMMA ChildrenLater ==
  ASSUME NEW t, IsTree(t), NEW k
  PROVE  /\ IsFiniteSet(ChildrenOf(t, k)) /\ ChildrenOf(t, k) \subseteq DOMAIN t
         /\ DOMAIN t = 1..Len(t) /\ Len(t) \in Nat
         /\ \A j \in ChildrenOf(t, k) : j \in Nat /\ k \in Nat /\ k < j
<1>1. DOMAIN t = 1..Len(t) /\ Len(t) \in Nat
  BY DEF IsTree, IsSequence
<1>2. ChildrenOf(t, k) \in SUBSET (1..Len(t))
  BY <1>1 DEF ChildrenOf
<1>3. IsFiniteSet(1..Len(t))
  BY <1>1, FS_Interval
<1>4. IsFiniteSet(ChildrenOf(t, k))
  BY <1>2, <1>3, FS_Subset
<1>5. \A j \in ChildrenOf(t, k) : j \in Nat /\ k \in Nat /\ k < j
  BY <1>1 DEF ChildrenOf, IsTree
<1>6. QED
  BY <1>1, <1>2, <1>4, <1>5

\* The durations of the spans after the first m, those before being zero.
IsDuration(t, own, m, d) ==
  d = [k \in DOMAIN t |-> IF k > m THEN own[k] + SumOver(d, ChildrenOf(t, k)) ELSE 0]

\* The definition of Duration has a solution, from the last span to the first.
LEMMA DurationExists ==
  ASSUME NEW t, IsTree(t), NEW own
  PROVE  \E d : IsDuration(t, own, 0, d)
<1> DEFINE n == Len(t)
           Missing == {i \in 0..n : ~\E d : IsDuration(t, own, n - i, d)}
<1>0. DOMAIN t = 1..n /\ n \in Nat
  BY DEF IsTree, IsSequence
<1>1. Missing = {}
  <2> SUFFICES ASSUME Missing # {} PROVE FALSE
    OBVIOUS
  <2>1. PICK i \in Missing : \A j \in Missing : i <= j
    <3>1. Missing \in SUBSET Nat
      BY <1>0
    <3>2. PICK j : j \in Missing
      OBVIOUS
    <3> HIDE DEF Missing
    <3>3. QED
      BY <3>1, <3>2, LeastNat
  <2>2. i \in 0..n /\ ~\E d : IsDuration(t, own, n - i, d)
    BY <2>1
  <2>3. CASE i = 0
    <3>1. \A k \in 1..n : ~(k > n - 0)
      BY <1>0
    <3>2. IsDuration(t, own, n - 0, [k \in 1..n |-> 0])
      BY <1>0, <3>1 DEF IsDuration
    <3>3. QED
      BY <2>2, <2>3, <3>2
  <2>4. CASE i # 0
    <3>1. i - 1 \in 0..n /\ ~(i <= i - 1) /\ n - (i - 1) = (n - i) + 1
          /\ n - i \in Nat /\ (n - i) + 1 \in 1..n
      BY <1>0, <2>2, <2>4
    <3>2. i - 1 \notin Missing
      BY <2>1, <3>1
    <3>3. PICK d : IsDuration(t, own, n - (i - 1), d)
      BY <3>1, <3>2
    <3> DEFINE m == (n - i) + 1
               e == [k \in DOMAIN t |-> IF k = m THEN own[k] + SumOver(d, ChildrenOf(t, k)) ELSE d[k]]
    <3>4. \A k \in DOMAIN t : d[k] = IF k > m THEN own[k] + SumOver(d, ChildrenOf(t, k)) ELSE 0
      BY <3>1, <3>3 DEF IsDuration
    <3> HIDE DEF m
    <3>5. \A k \in DOMAIN t : e[k] = IF k = m THEN own[k] + SumOver(d, ChildrenOf(t, k)) ELSE d[k]
      OBVIOUS
    <3>6. e = [k \in DOMAIN t |-> e[k]]
      OBVIOUS
    <3> HIDE DEF e
    <3>7. m \in 1..n /\ m = (n - i) + 1 /\ n - i \in Nat
      BY <3>1 DEF m
    <3>8. ASSUME NEW k \in DOMAIN t
          PROVE  e[k] = IF k > n - i THEN own[k] + SumOver(e, ChildrenOf(t, k)) ELSE 0
      <4>0. k \in Nat /\ m \in Nat /\ (k > n - i <=> k >= m)
        BY <1>0, <3>7
      <4>1. CASE k >= m
        <5>1. \A j \in ChildrenOf(t, k) : j # m /\ j \in DOMAIN t
          BY <4>0, <4>1, ChildrenLater
        <5>2. SumOver(d, ChildrenOf(t, k)) = SumOver(e, ChildrenOf(t, k))
          <6>1. \A j \in ChildrenOf(t, k) : d[j] = e[j]
            BY <3>5, <5>1
          <6>2. IsFiniteSet(ChildrenOf(t, k))
            BY ChildrenLater
          <6>3. QED
            BY <6>1, <6>2, SumSame
        <5>3. e[k] = own[k] + SumOver(d, ChildrenOf(t, k))
          <6>1. CASE k = m
            BY <3>5, <6>1
          <6>2. CASE k # m
            <7>1. k > m
              BY <4>0, <4>1, <6>2
            <7>2. QED
              BY <3>4, <3>5, <6>2, <7>1
          <6>3. QED
            BY <6>1, <6>2
        <5>4. QED
          BY <4>0, <4>1, <5>2, <5>3
      <4>2. CASE ~(k >= m)
        <5>1. k # m /\ ~(k > m) /\ ~(k > n - i)
          BY <4>0, <4>2
        <5>2. QED
          BY <3>4, <3>5, <5>1
      <4>3. QED
        BY <4>1, <4>2
    <3>9. IsDuration(t, own, n - i, e)
      BY <3>6, <3>8 DEF IsDuration
    <3>10. QED
      BY <2>2, <3>9
  <2>5. QED
    BY <2>3, <2>4
<1>2. n \in 0..n /\ n - n = 0
  BY <1>0
<1>3. QED
  BY <1>1, <1>2

\* The duration of a span is its own time and that of its children.
LEMMA DurationIs ==
  ASSUME NEW t, IsTree(t), NEW own
  PROVE  \A k \in DOMAIN t :
           Duration(t, own)[k] = own[k] + SumOver(Duration(t, own), ChildrenOf(t, k))
<1> DEFINE IsSo(d) == d = [k \in DOMAIN t |-> own[k] + SumOver(d, ChildrenOf(t, k))]
<1>1. \E d : IsSo(d)
  <2>1. \A k \in DOMAIN t : k > 0
    BY DEF IsTree, IsSequence
  <2>2. PICK d : IsDuration(t, own, 0, d)
    BY DurationExists
  <2>3. IsSo(d)
    BY <2>1, <2>2 DEF IsDuration
  <2> HIDE DEF IsSo
  <2>4. QED
    BY <2>3
<1>2. Duration(t, own) = CHOOSE d : IsSo(d)
  BY DEF Duration, SumOver, MapThenSumSet, MapThenFoldSet
<1>3. IsSo(Duration(t, own))
  <2> HIDE DEF IsSo
  <2>1. QED
    BY <1>1, <1>2
<1> DEFINE d == Duration(t, own)
<1>4. d = [k \in DOMAIN t |-> own[k] + SumOver(d, ChildrenOf(t, k))]
  BY <1>3
<1> HIDE DEF d
<1>5. \A k \in DOMAIN t : d[k] = own[k] + SumOver(d, ChildrenOf(t, k))
  BY <1>4
<1>6. QED
  BY <1>5 DEF d

\* With times of their own, spans last, and none longer than its parent.
LEMMA DurationNested ==
  ASSUME NEW t, IsTree(t), NEW own, \A k \in DOMAIN t : own[k] \in Nat \ {0}
  PROVE  \A k \in DOMAIN t :
           /\ Duration(t, own)[k] \in Nat \ {0}
           /\ k # 1 => Duration(t, own)[k] <= Duration(t, own)[t[k].parent]
<1> DEFINE d == Duration(t, own)
           n == Len(t)
           Bad == {i \in 0..n : n - i \in DOMAIN t /\ d[n - i] \notin Nat \ {0}}
<1>0. DOMAIN t = 1..n /\ n \in Nat
  BY DEF IsTree, IsSequence
<1>1. \A k \in DOMAIN t : d[k] = own[k] + SumOver(d, ChildrenOf(t, k))
  BY DurationIs
<1> HIDE DEF d
<1>2. Bad = {}
  <2> SUFFICES ASSUME Bad # {} PROVE FALSE
    OBVIOUS
  <2>1. PICK i \in Bad : \A j \in Bad : i <= j
    <3>1. Bad \in SUBSET Nat
      BY <1>0
    <3>2. PICK j : j \in Bad
      OBVIOUS
    <3> HIDE DEF Bad
    <3>3. QED
      BY <3>1, <3>2, LeastNat
  <2> DEFINE k == n - i
  <2>2. i \in 0..n /\ k \in DOMAIN t /\ d[k] \notin Nat \ {0} /\ k \in Nat
    BY <1>0, <2>1
  <2>3. ASSUME NEW j \in ChildrenOf(t, k) PROVE d[j] \in Nat
    <3>1. j \in 1..n /\ k < j
      BY <1>0, ChildrenLater
    <3>2. n - j \in 0..n /\ ~(i <= n - j) /\ n - (n - j) = j
      BY <1>0, <2>2, <3>1
    <3>3. n - j \notin Bad
      BY <2>1, <3>2
    <3>4. QED
      BY <1>0, <3>1, <3>2, <3>3
  <2> HIDE DEF k
  <2>4. IsFiniteSet(ChildrenOf(t, k))
    BY ChildrenLater
  <2>5. SumOver(d, ChildrenOf(t, k)) \in Nat
    BY <2>3, <2>4, SumBounds
  <2>6. d[k] = own[k] + SumOver(d, ChildrenOf(t, k)) /\ own[k] \in Nat \ {0}
    BY <1>1, <2>2
  <2>7. QED
    BY <2>2, <2>5, <2>6
<1>3. ASSUME NEW k \in DOMAIN t PROVE d[k] \in Nat \ {0}
  <2>1. n - k \in 0..n /\ n - (n - k) = k
    BY <1>0
  <2>2. n - k \notin Bad
    BY <1>2
  <2>3. QED
    BY <2>1, <2>2
<1>4. ASSUME NEW k \in DOMAIN t, k # 1 PROVE d[k] <= d[t[k].parent]
  <2> DEFINE p == t[k].parent
  <2>1. p \in DOMAIN t /\ k \in ChildrenOf(t, p)
    BY <1>0, <1>4 DEF IsTree, ChildrenOf
  <2> HIDE DEF p
  <2>2. IsFiniteSet(ChildrenOf(t, p)) /\ \A j \in ChildrenOf(t, p) : d[j] \in Nat
    BY <1>3, ChildrenLater
  <2>3. SumOver(d, ChildrenOf(t, p)) \in Nat /\ d[k] <= SumOver(d, ChildrenOf(t, p))
    BY <2>1, <2>2, SumBounds
  <2>4. d[p] = own[p] + SumOver(d, ChildrenOf(t, p)) /\ own[p] \in Nat /\ d[k] \in Nat
    BY <1>1, <1>3, <2>1
  <2>5. d[k] <= d[p]
    BY <2>3, <2>4
  <2>6. QED
    BY <2>5 DEF p
<1>5. QED
  BY <1>3, <1>4 DEF d

--------------------------------------------------------------------------------
(* The invariant of the tree *)

Limit == IF wide THEN WideDepth ELSE MaxDepth

\* The topology: services call some of the next Max(Fanout) of the list.
TopologyInv ==
  /\ calls \in [Service -> SUBSET Service] /\ roots \in SUBSET Service
  /\ \A s \in Service : \A t \in calls[s] : s < t /\ t <= s + Max(Fanout)

\* The spans created so far.
TreeInv ==
  /\ phase \in {"start", "build", "treat", "ready"} /\ wide \in BOOLEAN
  /\ IsTree(tree)
  /\ phase = "start" <=> Len(tree) = 0
  /\ tree # <<>> => tree[1].service \in roots
  /\ \A k \in DOMAIN tree :
       /\ tree[k].service \in Service /\ tree[k].start = 0
       /\ tree[k] = [parent |-> tree[k].parent, service |-> tree[k].service,
                     start |-> tree[k].start, duration |-> tree[k].duration]

\* A call in progress.  The next sibling starts after the durations of those before it,
\* which are all still zero.
Frame == [parent : Nat, offset : {0}, remaining : Nat, depth : Nat, count : Nat, i : Nat, created : Nat]

\* The calls in progress: a call for a span of the tree has budget left to start with and
\* keeps within it; whatever its last child may still create fits exactly.
StackInv ==
  /\ frames \in Seq(Frame)
  /\ phase # "build" => frames = <<>>
  /\ \A j \in DOMAIN frames :
       LET f == frames[j]
       IN /\ f.parent \in DOMAIN tree /\ f.depth <= Limit
          /\ f.remaining > 0 /\ f.created <= f.remaining /\ f.i <= f.count /\ f.count > 0
  /\ \A j \in 1..(Len(frames) - 1) :
       LET f == frames[j]
           left == f.remaining - f.created
       IN /\ frames[j + 1].remaining <= left
          /\ f.i = f.count => frames[j + 1].remaining = left

\* The spans there were when each call began: the root, and what the calls around it have
\* created since.  What a call still may create is within the budget of the trace.
Began(b) ==
  /\ b \in [1..(Len(frames) + 1) -> Nat]
  /\ b[1] = 1 /\ b[Len(frames) + 1] = Len(tree)
  /\ \A j \in DOMAIN frames : b[j + 1] = b[j] + frames[j].created
  /\ 1 + frames[1].remaining = spanCount
  /\ \A j \in DOMAIN frames : b[j] + frames[j].remaining <= spanCount

\* The last span created is beyond the depth limit, so it has no children.
AtLimit == Depth(tree)[Len(tree)] = Limit + 1

\* The budget is spent, or the last branch ran into the depth limit.
BudgetInv ==
  /\ spanCount \in Nat
  /\ \A j \in DOMAIN frames : Depth(tree)[frames[j].parent] = frames[j].depth
  /\ frames # <<>> =>
       /\ \E b : Began(b)
       /\ LET f == frames[Len(frames)] IN f.i = f.count /\ f.created < f.remaining => AtLimit
  /\ frames = <<>> /\ tree # <<>> =>
       Len(tree) <= spanCount /\ (Len(tree) < spanCount => AtLimit)

\* Once there are durations, no span outlasts its parent.
TimesInv ==
  phase \in {"treat", "ready"} =>
    \A k \in DOMAIN tree :
      /\ tree[k].duration \in Nat \ {0}
      /\ k # 1 => tree[k].duration <= tree[tree[k].parent].duration

SpanTreeInv == TopologyInv /\ TreeInv /\ StackInv /\ BudgetInv /\ ServiceWindow /\ TimesInv

--------------------------------------------------------------------------------
(* The calls *)

\* The widest fan-out is one.
LEMMA MostFanout == Max(Fanout) \in Fanout /\ \A n \in Fanout : n <= Max(Fanout)
<1>1. PICK most \in Fanout : \A n \in Fanout : most >= n
  BY ServicesAssumption
<1>2. QED
  BY <1>1, ServicesAssumption DEF Max

\* A call begins with nothing created, or is refused for lack of budget or for its depth.
Called(call, w, k, remaining, depth) ==
  \/ /\ call = <<>>
     /\ remaining = 0 \/ depth > (IF w THEN WideDepth ELSE MaxDepth)
  \/ \E g \in Frame :
       /\ call = <<g>>
       /\ g.parent = k /\ g.remaining = remaining /\ g.remaining > 0 /\ g.depth = depth
       /\ depth <= (IF w THEN WideDepth ELSE MaxDepth)
       /\ g.count > 0 /\ g.i = 0 /\ g.created = 0

\* It is the call the code makes.
LEMMA BuildCallIs ==
  ASSUME NEW w \in BOOLEAN, NEW k \in Nat, NEW start \in {0}, NEW remaining \in Nat,
         NEW depth \in Nat, NEW c \in Nat \ {0}
  PROVE  Called(BuildCall(w, k, start, remaining, depth, c), w, k, remaining, depth)
<1> DEFINE limit == IF w THEN WideDepth ELSE MaxDepth
           g == [parent |-> k, offset |-> start, remaining |-> remaining, depth |-> depth,
                 count |-> IF c > remaining THEN remaining ELSE c, i |-> 0, created |-> 0]
<1>1. CASE remaining = 0 \/ depth > limit
  BY <1>1 DEF BuildCall, Called
<1>2. CASE ~(remaining = 0 \/ depth > limit)
  <2>1. limit \in Nat
    BY SpanTreeAssumption
  <2>2. g \in Frame /\ g.parent = k /\ g.remaining = remaining /\ g.remaining > 0
        /\ g.depth = depth /\ g.count > 0 /\ g.i = 0 /\ g.created = 0 /\ depth <= limit
    BY <1>2, <2>1 DEF Frame
  <2>3. BuildCall(w, k, start, remaining, depth, c) = <<g>>
    BY <1>2 DEF BuildCall
  <2>4. QED
    BY <2>2, <2>3 DEF Called
<1>3. QED
  BY <1>1, <1>2

\* The last call replaced, and perhaps one more.
LEMMA Pushed ==
  ASSUME NEW s \in Seq(Frame), s # <<>>, NEW e \in Frame, NEW c \in Seq(Frame)
  PROVE  LET m == Len(s)
             r == Append(Front(s), e) \o c
         IN  /\ m \in Nat /\ m >= 1 /\ DOMAIN s = 1..m
             /\ r \in Seq(Frame) /\ Len(r) = m + Len(c) /\ DOMAIN r = 1..(m + Len(c))
             /\ r[m] = e
             /\ \A j \in 1..(m - 1) : r[j] = s[j]
             /\ \A j \in 1..Len(c) : r[m + j] = c[j]
<1> DEFINE m == Len(s)
           a == Append(Front(s), e)
<1>1. m \in Nat /\ m >= 1 /\ DOMAIN s = 1..m
  OBVIOUS
<1>2. /\ Front(s) \in Seq(Frame) /\ Len(Front(s)) = m - 1
      /\ \A j \in 1..(m - 1) : Front(s)[j] = s[j]
  BY <1>1 DEF Front
<1>3. /\ a \in Seq(Frame) /\ Len(a) = m /\ a[m] = e
      /\ \A j \in 1..(m - 1) : a[j] = s[j]
  <2>1. \A h \in Seq(Frame) :
          /\ Append(h, e) \in Seq(Frame) /\ Len(Append(h, e)) = Len(h) + 1
          /\ Append(h, e)[Len(h) + 1] = e
          /\ \A j \in 1..Len(h) : Append(h, e)[j] = h[j]
    OBVIOUS
  <2>2. Len(Front(s)) + 1 = m
    BY <1>1, <1>2
  <2>3. /\ a \in Seq(Frame) /\ Len(a) = Len(Front(s)) + 1 /\ a[Len(Front(s)) + 1] = e
        /\ \A j \in 1..Len(Front(s)) : a[j] = Front(s)[j]
    BY <1>2, <2>1
  <2>4. QED
    BY <1>2, <2>2, <2>3
<1> HIDE DEF a, m
<1>4. /\ a \o c \in Seq(Frame) /\ Len(a \o c) = m + Len(c) /\ DOMAIN (a \o c) = 1..(m + Len(c))
      /\ \A j \in 1..m : (a \o c)[j] = a[j]
      /\ \A j \in 1..Len(c) : (a \o c)[m + j] = c[j]
  BY <1>1, <1>3
<1>5. QED
  BY <1>1, <1>3, <1>4 DEF a, m

\* The last call gone, and what it created counted by the one that made it.
LEMMA Popped ==
  ASSUME NEW s \in Seq(Frame), Len(s) > 1, NEW n \in Nat
  PROVE  LET m == Len(s)
             rest == Front(s)
             r == [rest EXCEPT ![Len(rest)].created = @ + n]
         IN  /\ rest # <<>> /\ m \in Nat /\ DOMAIN s = 1..m
             /\ r \in Seq(Frame) /\ Len(r) = m - 1 /\ DOMAIN r = 1..(m - 1)
             /\ r[m - 1] = [s[m - 1] EXCEPT !.created = @ + n]
             /\ \A j \in 1..(m - 2) : r[j] = s[j]
<1> DEFINE m == Len(s)
           rest == Front(s)
           r == [rest EXCEPT ![Len(rest)].created = @ + n]
           f == [s[m - 1] EXCEPT !.created = @ + n]
<1>1. m \in Nat /\ m > 1 /\ DOMAIN s = 1..m
  OBVIOUS
<1>2. /\ rest \in Seq(Frame) /\ Len(rest) = m - 1 /\ DOMAIN rest = 1..(m - 1)
      /\ \A j \in 1..(m - 1) : rest[j] = s[j]
  BY <1>1 DEF Front
<1>3. f \in Frame
  <2>1. ASSUME NEW q \in Frame PROVE [q EXCEPT !.created = @ + n] \in Frame
    <3>1. \A x \in Nat : [q EXCEPT !.created = x] \in Frame
      BY DEF Frame
    <3>2. q.created \in Nat
      BY DEF Frame
    <3>3. q.created + n \in Nat
      BY <3>2
    <3>4. QED
      BY <3>1, <3>3, Zenon
  <2>2. s[m - 1] \in Frame
    BY <1>1
  <2>3. QED
    BY <2>1, <2>2
<1> HIDE DEF m, rest
<1>4. r = [j \in 1..(m - 1) |-> IF j = m - 1 THEN f ELSE s[j]]
  BY <1>1, <1>2
<1>5. \A j \in 1..(m - 1) : r[j] \in Frame
  <2>1. \A j \in 1..(m - 1) : s[j] \in Frame
    BY <1>1
  <2> HIDE DEF f
  <2>2. QED
    BY <1>3, <1>4, <2>1
<1>6. /\ r \in Seq(Frame) /\ Len(r) = m - 1 /\ DOMAIN r = 1..(m - 1)
      /\ r[m - 1] = f /\ \A j \in 1..(m - 2) : r[j] = s[j]
  <2> HIDE DEF f, r
  <2>1. r = [j \in 1..(m - 1) |-> r[j]] /\ m - 1 \in Nat
    BY <1>1, <1>4
  <2>2. r \in Seq(Frame) /\ Len(r) = m - 1 /\ DOMAIN r = 1..(m - 1)
    BY <1>5, <2>1
  <2>3. r[m - 1] = f /\ \A j \in 1..(m - 2) : r[j] = s[j]
    BY <1>1, <1>4
  <2>4. QED
    BY <2>2, <2>3
<1>7. rest # <<>>
  BY <1>1, <1>2
<1>8. QED
  BY <1>1, <1>6, <1>7 DEF m, rest

\* What a call is made of.
LEMMA FrameFields ==
  ASSUME NEW f \in Frame
  PROVE  /\ f.parent \in Nat /\ f.offset = 0 /\ f.remaining \in Nat /\ f.depth \in Nat
         /\ f.count \in Nat /\ f.i \in Nat /\ f.created \in Nat
BY DEF Frame

\* A call after one more child, the next one starting where it did.
LEMMA NextChild ==
  ASSUME NEW f \in Frame
  PROVE  LET e == [f EXCEPT !.i = @ + 1, !.created = @ + 1, !.offset = @ + 0]
         IN  /\ e \in Frame /\ e.parent = f.parent /\ e.remaining = f.remaining
             /\ e.depth = f.depth /\ e.count = f.count
             /\ e.i = f.i + 1 /\ e.created = f.created + 1
<1> DEFINE a == f.i + 1
           b == f.created + 1
           c == f.offset + 0
<1>1. f.i \in Nat /\ f.created \in Nat /\ f.offset = 0
  BY FrameFields
<1>2. a \in Nat /\ b \in Nat /\ c = 0
  BY <1>1
<1> HIDE DEF a, b, c
<1> DEFINE e == [f EXCEPT !.i = a, !.created = b, !.offset = c]
<1>3. /\ e \in Frame /\ e.parent = f.parent /\ e.remaining = f.remaining
      /\ e.depth = f.depth /\ e.count = f.count /\ e.i = a /\ e.created = b
  BY <1>2 DEF Frame
<1>4. QED
  BY <1>3, Zenon DEF a, b, c

\* The budget of a child is what is left at most, and all of it for the last child.
LEMMA ChildBudgetIs ==
  ASSUME NEW w \in BOOLEAN, NEW left \in Nat, NEW count \in Nat, NEW n \in Nat, n < count
  PROVE  /\ ChildBudget(w, left, count, n) \in Nat
         /\ ChildBudget(w, left, count, n) <= left
         /\ n + 1 = count => ChildBudget(w, left, count, n) = left
<1>1. count - n \in Nat \ {0} /\ (n + 1 = count => count - n = 1)
  OBVIOUS
<1>2. /\ left \div (count - n) \in Nat /\ left \div (count - n) <= left
      /\ n + 1 = count => left \div (count - n) = left
  <2>1. left \div (count - n) \in Nat /\ left \div (count - n) <= left
    BY <1>1, Share
  <2>2. left \div 1 = left
    OBVIOUS
  <2>3. QED
    BY <1>1, <2>1, <2>2
<1>3. QED
  BY <1>2 DEF ChildBudget

--------------------------------------------------------------------------------
(* The steps of the generator *)

\* There is no tree at first.
LEMMA InitSpanTree == SpanTreeInit => SpanTreeInv
<1> SUFFICES ASSUME SpanTreeInit PROVE SpanTreeInv
  OBVIOUS
<1>1. TopologyInv
  <2>1. calls \in Topologies
    BY DEF SpanTreeInit
  <2>2. PICK n \in [Service -> Fanout] :
          calls = [s \in Service |-> {t \in Service : s < t /\ t <= s + n[s]}]
    BY <2>1 DEF Topologies
  <2>3. ASSUME NEW s \in Service, NEW t \in calls[s] PROVE s < t /\ t <= s + Max(Fanout)
    <3>1. n[s] \in Nat /\ Max(Fanout) \in Nat /\ n[s] <= Max(Fanout)
      BY <2>2, MostFanout, ServicesAssumption
    <3>2. t \in Service /\ s < t /\ t <= s + n[s]
      BY <2>2, <2>3
    <3>3. s \in Nat /\ t \in Nat
      BY <3>2, ServicesAssumption DEF Service
    <3>4. QED
      BY <3>1, <3>2, <3>3
  <2>4. roots \in SUBSET Service
    <3>1. 1 \in Service
      BY ServicesAssumption DEF Service
    <3>2. PICK single \in BOOLEAN, name \in Service \cup {0} : roots = RootServices(single, name)
      BY Zenon DEF SpanTreeInit
    <3>3. QED
      BY <3>1, <3>2 DEF RootServices, Ingress
  <2>5. calls \in [Service -> SUBSET Service]
    BY <2>2
  <2>6. QED
    BY <2>3, <2>4, <2>5 DEF TopologyInv
<1>2. tree = <<>> /\ frames = <<>> /\ phase = "start" /\ spanCount = 0 /\ wide \in BOOLEAN
  BY DEF SpanTreeInit
<1>3. IsTree(tree) /\ Len(tree) = 0 /\ DOMAIN tree = {}
  BY <1>2 DEF IsTree, IsSequence
<1>4. TreeInv
  BY <1>2, <1>3 DEF TreeInv
<1>5. StackInv
  BY <1>2 DEF StackInv
<1>6. BudgetInv /\ ServiceWindow
  BY <1>2, <1>3 DEF BudgetInv, ServiceWindow
<1>7. TimesInv
  BY <1>2 DEF TimesInv
<1>8. QED
  BY <1>1, <1>4, <1>5, <1>6, <1>7 DEF SpanTreeInv

\* The root is created, with the rest of the budget.
LEMMA GenerateTraceStep == SpanTreeInv /\ GenerateTrace => SpanTreeInv'
<1> SUFFICES ASSUME SpanTreeInv, GenerateTrace PROVE SpanTreeInv'
  OBVIOUS
<1>1. PICK w, n, s, c :
        /\ w \in BOOLEAN /\ n \in SpanCounts /\ s \in roots /\ c \in ChildCounts(w)
        /\ wide' = w /\ spanCount' = n
        /\ tree' = <<[parent |-> 0, service |-> s, start |-> 0, duration |-> 0]>>
        /\ frames' = BuildCall(w, 1, 0, n - 1, 0, c)
  BY Zenon DEF GenerateTrace
<1>2. phase' = "build" /\ UNCHANGED <<calls, roots>>
  BY DEF GenerateTrace
<1>3. n \in Nat \ {0} /\ n - 1 \in Nat /\ c \in Nat \ {0} /\ s \in Service /\ s \in Nat
      /\ Limit' = (IF w THEN WideDepth ELSE MaxDepth) /\ Limit' \in Nat
  BY <1>1, SpanTreeAssumption, ServicesAssumption
     DEF ChildCounts, SpanTreeInv, TopologyInv, Service, Limit
<1> DEFINE root == [parent |-> 0, service |-> s, start |-> 0, duration |-> 0]
<1>4. Len(tree') = 1 /\ DOMAIN tree' = {1} /\ tree'[1] = root /\ IsSequence(tree') /\ tree' # <<>>
  BY <1>1 DEF IsSequence
<1>5. root.parent = 0 /\ root.service = s /\ root.start = 0 /\ root.duration = 0
  OBVIOUS
<1> HIDE DEF root
<1>6. IsTree(tree')
  BY <1>4, <1>5 DEF IsTree
<1>7. TreeInv'
  <2>1. root = [parent |-> root.parent, service |-> root.service, start |-> root.start,
                duration |-> root.duration]
    BY DEF root
  <2>2. QED
    BY <1>1, <1>2, <1>3, <1>4, <1>5, <1>6, <2>1 DEF TreeInv
<1>8. Depth(tree')[1] = 0
  BY <1>4, <1>6, DepthIs
<1>9. \/ frames' = <<>> /\ n = 1
      \/ \E g \in Frame :
           /\ frames' = <<g>> /\ g.parent = 1 /\ g.remaining = n - 1 /\ g.remaining > 0
           /\ g.depth = 0 /\ g.count > 0 /\ g.i = 0 /\ g.created = 0
  <2>1. ~(0 > Limit')
    BY <1>3
  <2>2. 0 \in Nat /\ 1 \in Nat /\ Limit' = (IF w THEN WideDepth ELSE MaxDepth) /\ w \in BOOLEAN
    BY <1>1, <1>3
  <2>3. \/ frames' = <<>> /\ (n - 1 = 0 \/ 0 > Limit')
        \/ \E g \in Frame :
           /\ frames' = <<g>> /\ g.parent = 1 /\ g.remaining = n - 1 /\ g.remaining > 0
           /\ g.depth = 0 /\ g.count > 0 /\ g.i = 0 /\ g.created = 0
    <3>1. frames' = BuildCall(w, 1, 0, n - 1, 0, c)
      BY <1>1
    <3> DEFINE r == n - 1
    <3>2. r \in Nat /\ c \in Nat \ {0}
      BY <1>3
    <3> HIDE DEF r
    <3>3. \/ BuildCall(w, 1, 0, r, 0, c) = <<>> /\ (r = 0 \/ 0 > Limit')
          \/ \E g \in Frame :
             /\ BuildCall(w, 1, 0, r, 0, c) = <<g>> /\ g.parent = 1 /\ g.remaining = r
             /\ g.remaining > 0 /\ g.depth = 0 /\ g.count > 0 /\ g.i = 0 /\ g.created = 0
      <4>1. Called(BuildCall(w, 1, 0, r, 0, c), w, 1, r, 0)
        BY <2>2, <3>2, BuildCallIs
      <4>2. QED
        BY <2>2, <4>1 DEF Called
    <3>4. QED
      BY <3>1, <3>3 DEF r
  <2>4. n - 1 = 0 => n = 1
    BY <1>3
  <2>5. QED
    BY <2>1, <2>3, <2>4
<1>10. StackInv' /\ BudgetInv'
  <2>1. CASE frames' = <<>>
    <3>0. n = 1
      BY <1>9, <2>1
    <3>1. DOMAIN frames' = {} /\ Len(frames') = 0 /\ frames' \in Seq(Frame)
      BY <2>1
    <3>2. StackInv'
      BY <1>2, <3>1 DEF StackInv
    <3>3. BudgetInv'
      BY <1>1, <1>3, <1>4, <2>1, <3>0, <3>1 DEF BudgetInv
    <3>4. QED
      BY <3>2, <3>3
  <2>2. CASE frames' # <<>>
    <3>1. PICK g \in Frame :
             /\ frames' = <<g>> /\ g.parent = 1 /\ g.remaining = n - 1 /\ g.remaining > 0
             /\ g.depth = 0 /\ g.count > 0 /\ g.i = 0 /\ g.created = 0
      BY <1>9, <2>2
    <3>2. frames' \in Seq(Frame) /\ Len(frames') = 1 /\ DOMAIN frames' = {1} /\ frames'[1] = g
      BY <3>1
    <3>3. StackInv'
      <4>1. 1..(Len(frames') - 1) = {}
        BY <3>2
      <4>2. Limit' >= 0 /\ g.i <= g.count /\ g.created <= g.remaining
        BY <1>3, <3>1, FrameFields
      <4>3. QED
        BY <1>2, <1>4, <3>1, <3>2, <4>1, <4>2 DEF StackInv
    <3> DEFINE b == [j \in 1..2 |-> 1]
    <3>4. Began(b)'
      BY <1>1, <1>3, <1>4, <3>1, <3>2 DEF Began
    <3>5. BudgetInv'
      <4>1. /\ spanCount' \in Nat
            /\ \A j \in DOMAIN frames' : Depth(tree')[frames'[j].parent] = frames'[j].depth
        BY <1>1, <1>3, <1>8, <3>1, <3>2
      <4>2. frames'[Len(frames')].i # frames'[Len(frames')].count
        BY <3>1, <3>2
      <4>3. QED
        BY <2>2, <3>4, <4>1, <4>2 DEF BudgetInv
    <3>6. QED
      BY <3>3, <3>5
  <2>3. QED
    BY <1>9, <2>1, <2>2
<1>11. ServiceWindow'
  <2>1. Max(Fanout) \in Nat
    BY MostFanout, ServicesAssumption
  <2>2. s \in roots' /\ s <= s /\ s <= s + 0 * Max(Fanout)
    BY <1>1, <1>2, <1>3, <2>1
  <2>3. QED
    BY <1>4, <1>5, <1>8, <2>2 DEF ServiceWindow
<1>12. TopologyInv'
  BY <1>2 DEF SpanTreeInv, TopologyInv
<1>13. TimesInv'
  BY <1>2 DEF TimesInv
<1>14. QED
  BY <1>7, <1>10, <1>11, <1>12, <1>13 DEF SpanTreeInv

\* One fan-out further.
LEMMA OneFurther ==
  ASSUME NEW first \in Nat, NEW s \in Nat, NEW t \in Nat, NEW d \in Nat, NEW most \in Nat,
         first <= s, s <= first + d * most, s <= t, t <= s + most
  PROVE  first <= t /\ t <= first + (d + 1) * most
<1>1. (d + 1) * most = d * most + most /\ d * most \in Nat
  OBVIOUS
<1>2. QED
  BY <1>1

\* A child span joins the tree: its service is reached from its parent's, and its own call
\* has at most what is left of the budget.
LEMMA AddChildStep == SpanTreeInv /\ AddChild => SpanTreeInv'
<1> SUFFICES ASSUME SpanTreeInv, AddChild PROVE SpanTreeInv'
  OBVIOUS
<1> DEFINE m == Len(frames)
           f == frames[m]
           n == Len(tree)
           left == f.remaining - f.created - 1
           budget == ChildBudget(wide, left, f.count, f.i)
           e == [f EXCEPT !.i = @ + 1, !.created = @ + 1, !.offset = @ + 0]
           span(s) == [parent |-> f.parent, service |-> s, start |-> f.offset, duration |-> 0]
<1>1. PICK s \in ChildServices(calls, tree[f.parent].service), c \in ChildCounts(wide) :
        /\ tree' = Append(tree, span(s))
        /\ frames' = Append(Front(frames), e) \o BuildCall(wide, n + 1, f.offset, budget, f.depth + 1, c)
  BY DEF AddChild, Last
<1>2. /\ frames # <<>> /\ phase = "build" /\ Growing(f)
      /\ UNCHANGED <<calls, roots, phase, wide, spanCount>>
  BY DEF AddChild, Last
<1>3. /\ frames \in Seq(Frame) /\ m \in Nat /\ m >= 1 /\ DOMAIN frames = 1..m /\ f \in Frame
      /\ wide \in BOOLEAN /\ Limit' = Limit /\ Limit \in Nat
  BY <1>2, SpanTreeAssumption DEF SpanTreeInv, StackInv, TreeInv, Limit
<1>4. /\ f.parent \in Nat /\ f.offset = 0 /\ f.remaining \in Nat /\ f.depth \in Nat
      /\ f.count \in Nat /\ f.i \in Nat /\ f.created \in Nat
  BY <1>3, FrameFields
<1>5. /\ f.parent \in DOMAIN tree /\ f.depth <= Limit /\ f.i < f.count /\ f.created < f.remaining
      /\ f.remaining > 0 /\ f.count > 0 /\ Depth(tree)[f.parent] = f.depth
  BY <1>2, <1>3 DEF SpanTreeInv, StackInv, BudgetInv, Growing
<1>6. IsTree(tree) /\ IsSequence(tree) /\ n \in Nat /\ DOMAIN tree = 1..n
  BY DEF SpanTreeInv, TreeInv, IsTree, IsSequence
<1>7. /\ e \in Frame /\ e.parent = f.parent /\ e.remaining = f.remaining
      /\ e.depth = f.depth /\ e.count = f.count
      /\ e.i = f.i + 1 /\ e.created = f.created + 1
  BY <1>3, NextChild
<1>8. /\ left \in Nat /\ budget \in Nat /\ budget <= left
      /\ f.i + 1 = f.count => budget = left
  <2>1. left \in Nat
    BY <1>4, <1>5
  <2> HIDE DEF left
  <2>2. QED
    BY <1>3, <1>4, <1>5, <2>1, ChildBudgetIs
<1> DEFINE call == BuildCall(wide, n + 1, f.offset, budget, f.depth + 1, c)
<1>9. \/ /\ call = <<>>
         /\ budget = 0 \/ f.depth + 1 > Limit
      \/ \E g \in Frame :
           /\ call = <<g>>
           /\ g.parent = n + 1 /\ g.remaining = budget /\ g.remaining > 0
           /\ g.depth = f.depth + 1 /\ f.depth + 1 <= Limit
           /\ g.count > 0 /\ g.i = 0 /\ g.created = 0
  <2>1. c \in Nat \ {0} /\ n + 1 \in Nat /\ f.depth + 1 \in Nat
    <3>1. c \in Children \cup WideChildren
      BY <1>1 DEF ChildCounts
    <3>2. QED
      BY <1>4, <1>6, <3>1, SpanTreeAssumption
  <2> DEFINE k == n + 1
             depth == f.depth + 1
             offset == f.offset
  <2>2. k \in Nat /\ depth \in Nat /\ offset \in {0} /\ budget \in Nat /\ c \in Nat \ {0}
        /\ wide \in BOOLEAN
    BY <1>3, <1>4, <1>8, <2>1
  <2> HIDE DEF k, depth, offset, budget
  <2>3. Called(call, wide, k, budget, depth)
    <3>1. \A w \in BOOLEAN : Called(BuildCall(w, k, offset, budget, depth, c), w, k, budget, depth)
      BY <2>2, BuildCallIs
    <3>2. Called(BuildCall(wide, k, offset, budget, depth, c), wide, k, budget, depth)
      BY <2>2, <3>1, Zenon
    <3>3. call = BuildCall(wide, k, offset, budget, depth, c)
      BY DEF k, depth, offset
    <3>4. QED
      BY <3>2, <3>3
  <2>4. QED
    BY <2>3 DEF k, depth, Called, Limit
<1> DEFINE sp == span(s)
<1>10. sp.parent = f.parent /\ sp.service = s /\ sp.start = f.offset /\ sp.duration = 0
       /\ sp = [parent |-> sp.parent, service |-> sp.service, start |-> sp.start,
                duration |-> sp.duration]
  OBVIOUS
<1>11. tree' = Append(tree, sp)
       /\ frames' = Append(Front(frames), e) \o call
  BY <1>1
<1> HIDE DEF sp, call, e, budget, left, span
<1>12. /\ Len(tree') = n + 1 /\ DOMAIN tree' = 1..(n + 1) /\ tree'[n + 1] = sp
       /\ \A k \in 1..n : tree'[k] = tree[k]
       /\ IsSequence(tree') /\ tree' # <<>>
  <2>1. /\ IsSequence(tree') /\ Len(tree') = n + 1 /\ DOMAIN tree' = 1..(n + 1)
        /\ tree'[n + 1] = sp /\ \A k \in 1..n : tree'[k] = tree[k]
    BY <1>6, <1>11, Longer
  <2>2. tree' # <<>>
    BY <1>6, <2>1
  <2>3. QED
    BY <2>1, <2>2
<1> DEFINE from == tree[f.parent].service
<1>13. /\ from \in Service /\ s \in Service /\ from \in Nat /\ s \in Nat /\ from <= s
       /\ s <= from + Max(Fanout) /\ Max(Fanout) \in Nat
  <2>1. from \in Service
    BY <1>5 DEF SpanTreeInv, TreeInv
  <2>2. Max(Fanout) \in Nat
    BY MostFanout, ServicesAssumption
  <2>3. s = from \/ s \in calls[from]
    BY <1>1 DEF ChildServices
  <2>4. s \in Service /\ (s = from \/ (from < s /\ s <= from + Max(Fanout)))
    BY <2>1, <2>3 DEF SpanTreeInv, TopologyInv
  <2> HIDE DEF from
  <2>5. from \in Nat /\ s \in Nat
    BY <2>1, <2>4, ServicesAssumption DEF Service
  <2>6. QED
    BY <2>1, <2>2, <2>4, <2>5
<1>14. IsTree(tree')
  <2>1. ASSUME NEW k \in 1..(n + 1)
        PROVE  tree'[k].parent \in Nat /\ tree'[k].parent < k /\ (k # 1 => tree'[k].parent # 0)
    <3>1. CASE k \in 1..n
      BY <1>6, <1>12, <3>1 DEF IsTree
    <3>2. CASE k = n + 1
      BY <1>4, <1>5, <1>6, <1>10, <1>12, <3>2
    <3>3. QED
      BY <1>6, <3>1, <3>2
  <2>2. QED
    BY <1>12, <2>1 DEF IsTree
<1>15. /\ \A k \in 1..n : Depth(tree')[k] = Depth(tree)[k]
       /\ Depth(tree')[n + 1] = f.depth + 1
  <2>1. \A k \in 1..n : Depth(tree')[k] = Depth(tree)[k]
    <3>1. Len(tree) <= Len(tree') /\ \A k \in DOMAIN tree : tree'[k].parent = tree[k].parent
      BY <1>6, <1>12
    <3>2. QED
      BY <1>6, <1>14, <3>1, DepthSame
  <2>2. n + 1 \in DOMAIN tree' /\ n + 1 # 1 /\ tree'[n + 1].parent = f.parent
    BY <1>5, <1>6, <1>10, <1>12
  <2>3. Depth(tree')[n + 1] = Depth(tree')[f.parent] + 1
    BY <1>14, <2>2, DepthIs
  <2>4. QED
    BY <1>5, <1>6, <2>1, <2>3
<1>16. TreeInv'
  <2>1. ASSUME NEW k \in 1..(n + 1)
        PROVE  /\ tree'[k].service \in Service /\ tree'[k].start = 0
               /\ tree'[k] = [parent |-> tree'[k].parent, service |-> tree'[k].service,
                              start |-> tree'[k].start, duration |-> tree'[k].duration]
    <3>1. CASE k \in 1..n
      BY <1>6, <1>12, <3>1 DEF SpanTreeInv, TreeInv
    <3>2. CASE k = n + 1
      BY <1>4, <1>10, <1>12, <1>13, <3>2
    <3>3. QED
      BY <1>6, <3>1, <3>2
  <2>2. tree'[1].service \in roots'
    <3>1. n >= 1 /\ tree # <<>>
      BY <1>5, <1>6
    <3>2. tree'[1] = tree[1]
      BY <1>6, <1>12, <3>1
    <3>3. QED
      BY <1>2, <3>1, <3>2 DEF SpanTreeInv, TreeInv
  <2>3. n + 1 # 0
    BY <1>6
  <2>4. QED
    BY <1>2, <1>3, <1>12, <1>14, <2>1, <2>2, <2>3 DEF TreeInv
<1>17. ServiceWindow'
  <2>1. ASSUME NEW k \in 1..(n + 1)
        PROVE  /\ tree'[1].service <= tree'[k].service
               /\ tree'[k].service <= tree'[1].service + Depth(tree')[k] * Max(Fanout)
    <3>1. 1 \in 1..n /\ tree'[1] = tree[1]
      BY <1>5, <1>6, <1>12
    <3>2. CASE k \in 1..n
      BY <1>6, <1>12, <1>15, <3>1, <3>2 DEF SpanTreeInv, ServiceWindow
    <3>3. CASE k = n + 1
      <4>1. /\ tree[1].service <= from /\ from <= tree[1].service + f.depth * Max(Fanout)
            /\ tree[1].service \in Nat
        BY <1>5, <1>6, <3>1, ServicesAssumption
           DEF SpanTreeInv, ServiceWindow, TreeInv, Service
      <4>2. /\ tree[1].service <= s
            /\ s <= tree[1].service + (f.depth + 1) * Max(Fanout)
        <5> DEFINE first == tree[1].service
                   most == Max(Fanout)
                   d == f.depth
        <5>1. /\ first \in Nat /\ from \in Nat /\ s \in Nat /\ d \in Nat /\ most \in Nat
              /\ first <= from /\ from <= first + d * most /\ from <= s /\ s <= from + most
          BY <1>4, <1>13, <4>1
        <5> HIDE DEF first, most, d, from
        <5>2. first <= s /\ s <= first + (d + 1) * most
          BY <5>1, OneFurther
        <5>3. QED
          BY <5>2 DEF first, most, d
      <4>3. QED
        BY <1>10, <1>12, <1>15, <3>1, <3>3, <4>2
    <3>4. QED
      BY <1>6, <3>2, <3>3
  <2>2. QED
    BY <1>12, <1>16, <2>1 DEF ServiceWindow, TreeInv
<1>18. TopologyInv'
  BY <1>2 DEF SpanTreeInv, TopologyInv
<1>19. /\ call \in Seq(Frame) /\ Len(call) \in {0, 1}
       /\ Len(call) = 0 => budget = 0 \/ f.depth + 1 > Limit
       /\ Len(call) = 1 =>
            /\ call[1] \in Frame /\ call[1].parent = n + 1 /\ call[1].remaining = budget
            /\ call[1].remaining > 0 /\ call[1].depth = f.depth + 1 /\ f.depth + 1 <= Limit
            /\ call[1].count > 0 /\ call[1].i = 0 /\ call[1].created = 0
  <2>1. CASE call = <<>> /\ (budget = 0 \/ f.depth + 1 > Limit)
    BY <2>1
  <2>2. ASSUME NEW g \in Frame, call = <<g>>, g.parent = n + 1, g.remaining = budget,
               g.remaining > 0, g.depth = f.depth + 1, f.depth + 1 <= Limit,
               g.count > 0, g.i = 0, g.created = 0
        PROVE  /\ call \in Seq(Frame) /\ Len(call) = 1 /\ call[1] = g
    BY <2>2
  <2>3. QED
    BY <1>9, <2>1, <2>2
<1> DEFINE x == Len(call)
           g == call[1]
<1>20. /\ frames' \in Seq(Frame) /\ Len(frames') = m + x /\ DOMAIN frames' = 1..(m + x)
       /\ frames'[m] = e
       /\ \A j \in 1..(m - 1) : frames'[j] = frames[j]
       /\ x = 1 => frames'[m + 1] = g
  <2> DEFINE r == Append(Front(frames), e) \o call
  <2>1. /\ r \in Seq(Frame) /\ Len(r) = Len(frames) + Len(call)
        /\ DOMAIN r = 1..(Len(frames) + Len(call))
        /\ r[Len(frames)] = e
        /\ \A j \in 1..(Len(frames) - 1) : r[j] = frames[j]
        /\ \A j \in 1..Len(call) : r[Len(frames) + j] = call[j]
    <3>1. frames \in Seq(Frame) /\ frames # <<>> /\ e \in Frame /\ call \in Seq(Frame)
      BY <1>2, <1>3, <1>7, <1>19
    <3>2. QED
      BY <3>1, Pushed, Zenon
  <2>2. frames' = r
    BY <1>11
  <2> HIDE DEF r
  <2>3. x = 1 => 1 \in 1..x
    BY <1>19
  <2>4. QED
    BY <2>1, <2>2, <2>3
<1>21. /\ x \in {0, 1}
       /\ x = 0 => budget = 0 \/ f.depth + 1 > Limit
       /\ x = 1 =>
            /\ g \in Frame /\ g.parent = n + 1 /\ g.remaining = budget
            /\ g.remaining > 0 /\ g.depth = f.depth + 1 /\ f.depth + 1 <= Limit
            /\ g.count > 0 /\ g.i = 0 /\ g.created = 0
            /\ g.i <= g.count /\ g.created <= g.remaining /\ g.i # g.count
  <2>1. x = 1 => g.i <= g.count /\ g.created <= g.remaining /\ g.i # g.count
    BY <1>19, FrameFields
  <2>2. QED
    BY <1>19, <2>1
<1>22. m = Len(frames) /\ n = Len(tree) /\ f = frames[m]
  OBVIOUS
<1> HIDE DEF x, g, m, n, f
<1>23. e.remaining - e.created = left /\ e.created <= e.remaining /\ e.i <= e.count
       /\ left = f.remaining - f.created - 1
  BY <1>4, <1>5, <1>7 DEF left, f, m
<1>24. \A j \in 1..(m + x) : j \in 1..(m - 1) \/ j = m \/ (x = 1 /\ j = m + 1)
  BY <1>3, <1>21
<1>25. StackInv'
  <2>1. ASSUME NEW j \in 1..(m + x)
        PROVE  /\ frames'[j].parent \in 1..(n + 1) /\ frames'[j].depth <= Limit
               /\ frames'[j].remaining > 0 /\ frames'[j].created <= frames'[j].remaining
               /\ frames'[j].i <= frames'[j].count /\ frames'[j].count > 0
    <3>1. CASE j \in 1..(m - 1)
      <4>1. j \in DOMAIN frames
        BY <1>3, <3>1
      <4>2. /\ frames[j].parent \in 1..n /\ frames[j].depth <= Limit
            /\ frames[j].remaining > 0 /\ frames[j].created <= frames[j].remaining
            /\ frames[j].i <= frames[j].count /\ frames[j].count > 0
        BY <1>6, <4>1 DEF SpanTreeInv, StackInv
      <4>3. 1..n \subseteq 1..(n + 1)
        BY <1>6
      <4>4. QED
        BY <1>20, <3>1, <4>2, <4>3
    <3>2. CASE j = m
      <4>1. f.parent \in 1..(n + 1)
        BY <1>5, <1>6
      <4>2. QED
        BY <1>5, <1>7, <1>20, <1>23, <3>2, <4>1
    <3>3. CASE x = 1 /\ j = m + 1
      <4>1. n + 1 \in 1..(n + 1)
        BY <1>6
      <4>2. QED
        BY <1>20, <1>21, <3>3, <4>1
    <3>4. QED
      BY <1>24, <3>1, <3>2, <3>3
  <2>2. ASSUME NEW j \in 1..(m + x - 1)
        PROVE  /\ frames'[j + 1].remaining <= frames'[j].remaining - frames'[j].created
               /\ frames'[j].i = frames'[j].count =>
                    frames'[j + 1].remaining = frames'[j].remaining - frames'[j].created
    <3>1. CASE j \in 1..(m - 1)
      <4>1. /\ frames[j + 1].remaining <= frames[j].remaining - frames[j].created
            /\ frames[j].i = frames[j].count =>
                 frames[j + 1].remaining = frames[j].remaining - frames[j].created
        BY <1>22, <3>1 DEF SpanTreeInv, StackInv
      <4>2. frames'[j + 1].remaining = frames[j + 1].remaining
        <5>1. j + 1 \in 1..(m - 1) \/ j + 1 = m
          BY <1>3, <3>1
        <5>2. CASE j + 1 \in 1..(m - 1)
          BY <1>20, <5>2
        <5>3. CASE j + 1 = m
          BY <1>7, <1>20, <1>22, <5>3
        <5>4. QED
          BY <5>1, <5>2, <5>3
      <4>3. QED
        BY <1>20, <3>1, <4>1, <4>2
    <3>2. CASE x = 1 /\ j = m
      <4>1. g.remaining <= left /\ (e.i = e.count => g.remaining = left)
        BY <1>7, <1>8, <1>21, <3>2
      <4>2. QED
        BY <1>20, <1>23, <3>2, <4>1
    <3>3. QED
      BY <1>3, <1>21, <3>1, <3>2
  <2>3. phase' = "build"
    BY <1>2
  <2>4. \A j \in DOMAIN frames' :
          /\ frames'[j].parent \in DOMAIN tree' /\ frames'[j].depth <= Limit'
          /\ frames'[j].remaining > 0 /\ frames'[j].created <= frames'[j].remaining
          /\ frames'[j].i <= frames'[j].count /\ frames'[j].count > 0
    BY <1>3, <1>12, <1>20, <2>1
  <2>5. \A j \in 1..(Len(frames') - 1) :
          /\ frames'[j + 1].remaining <= frames'[j].remaining - frames'[j].created
          /\ frames'[j].i = frames'[j].count =>
               frames'[j + 1].remaining = frames'[j].remaining - frames'[j].created
    <3>1. Len(frames') - 1 = m + x - 1
      BY <1>3, <1>20, <1>21
    <3>2. QED
      BY <2>2, <3>1
  <2>6. frames' \in Seq(Frame)
    BY <1>20
  <2>7. QED
    BY <2>3, <2>4, <2>5, <2>6 DEF StackInv
<1>26. PICK b : Began(b)
  BY <1>2 DEF SpanTreeInv, BudgetInv
<1>27. /\ \A j \in 1..(m + 1) : b[j] \in Nat
       /\ b[1] = 1 /\ b[m + 1] = n
       /\ \A j \in 1..m : b[j + 1] = b[j] + frames[j].created
       /\ 1 + frames[1].remaining = spanCount
       /\ \A j \in 1..m : b[j] + frames[j].remaining <= spanCount
  BY <1>3, <1>22, <1>26 DEF Began
<1>28. spanCount \in Nat /\ spanCount' = spanCount
  BY <1>2 DEF SpanTreeInv, BudgetInv
<1> DEFINE begun == [j \in 1..(m + x + 1) |-> IF j <= m THEN b[j] ELSE n + 1]
           Shape(z) ==
         /\ z \in [1..(m + x + 1) -> Nat]
         /\ \A j \in 1..m : z[j] = b[j]
         /\ z[m + 1] = n + 1 /\ (x = 1 => z[m + 2] = n + 1)
         /\ z[m + x + 1] = n + 1
<1>29. Shape(begun)
  <2>1. \A j \in 1..(m + x + 1) : j <= m => j \in 1..(m + 1)
    BY <1>3, <1>21
  <2>2. /\ \A j \in 1..m : j \in 1..(m + x + 1) /\ j <= m
        /\ m + 1 \in 1..(m + x + 1) /\ ~(m + 1 <= m)
        /\ m + x + 1 \in 1..(m + x + 1) /\ ~(m + x + 1 <= m)
        /\ x = 1 => m + 2 = m + x + 1
    BY <1>3, <1>21
  <2>3. begun \in [1..(m + x + 1) -> Nat]
    BY <1>6, <1>27, <2>1
  <2>4. QED
    BY <2>2, <2>3
<1> HIDE DEF begun, Shape
<1>30. PICK bb : Shape(bb)
  BY <1>29
<1>31. /\ bb \in [1..(m + x + 1) -> Nat]
       /\ \A j \in 1..m : bb[j] = b[j]
       /\ bb[m + 1] = n + 1 /\ (x = 1 => bb[m + 2] = n + 1)
       /\ bb[m + x + 1] = n + 1
  BY <1>30 DEF Shape
<1>32. Began(bb)'
  <2>1. bb[1] = 1
    BY <1>3, <1>27, <1>31
  <2>2. ASSUME NEW j \in 1..(m + x)
        PROVE  /\ bb[j + 1] = bb[j] + frames'[j].created
               /\ bb[j] + frames'[j].remaining <= spanCount
    <3>1. CASE j \in 1..(m - 1)
      <4>1. j \in 1..m /\ j + 1 \in 1..m
        BY <1>3, <3>1
      <4>2. QED
        BY <1>20, <1>27, <1>31, <3>1, <4>1
    <3>2. CASE j = m
      <4>1. m \in 1..m
        BY <1>3
      <4>2. bb[m] = b[m] /\ n = b[m] + f.created /\ b[m] + f.remaining <= spanCount
            /\ b[m] \in Nat
        BY <1>3, <1>22, <1>27, <1>31, <4>1
      <4>3. n + 1 = b[m] + e.created /\ b[m] + e.remaining <= spanCount
        BY <1>4, <1>6, <1>7, <4>2
      <4>4. QED
        BY <1>20, <1>31, <3>2, <4>2, <4>3
    <3>3. CASE x = 1 /\ j = m + 1
      <4>1. n = b[m] + f.created /\ b[m] + f.remaining <= spanCount /\ b[m] \in Nat
        <5>1. m \in 1..m /\ m \in 1..(m + 1)
          BY <1>3
        <5>2. QED
          BY <1>22, <1>27, <5>1
      <4>2. n + 1 + budget <= spanCount
        <5>1. budget <= f.remaining - f.created - 1 /\ budget \in Nat
          BY <1>8, <1>23
        <5>2. QED
          BY <1>4, <1>6, <1>28, <4>1, <5>1
      <4>3. j + 1 = m + 2
        BY <1>3, <3>3
      <4>4. bb[j + 1] = n + 1 /\ bb[j] = n + 1 /\ frames'[j].created = 0
            /\ frames'[j].remaining = budget
        BY <1>20, <1>21, <1>31, <3>3, <4>3
      <4>5. QED
        BY <1>6, <4>2, <4>4
    <3>4. QED
      BY <1>24, <3>1, <3>2, <3>3
  <2>3. 1 + frames'[1].remaining = spanCount
    <3>1. CASE m = 1
      BY <1>7, <1>20, <1>22, <1>27, <3>1
    <3>2. CASE m # 1
      <4>1. 1 \in 1..(m - 1)
        BY <1>3, <3>2
      <4>2. QED
        BY <1>20, <1>27, <4>1
    <3>3. QED
      BY <3>1, <3>2
  <2>4. bb \in [1..(Len(frames') + 1) -> Nat] /\ bb[Len(frames') + 1] = Len(tree')
    BY <1>12, <1>20, <1>31
  <2>5. \A j \in DOMAIN frames' :
          /\ bb[j + 1] = bb[j] + frames'[j].created
          /\ bb[j] + frames'[j].remaining <= spanCount
    BY <1>20, <2>2
  <2>6. QED
    BY <1>28, <2>1, <2>3, <2>4, <2>5 DEF Began
<1>33. BudgetInv'
  <2>1. ASSUME NEW j \in 1..(m + x)
        PROVE  Depth(tree')[frames'[j].parent] = frames'[j].depth
    <3>1. CASE j \in 1..(m - 1)
      <4>1. j \in DOMAIN frames
        BY <1>3, <3>1
      <4>2. frames[j].parent \in 1..n /\ Depth(tree)[frames[j].parent] = frames[j].depth
        BY <1>6, <4>1 DEF SpanTreeInv, StackInv, BudgetInv
      <4>3. QED
        BY <1>15, <1>20, <3>1, <4>2
    <3>2. CASE j = m
      BY <1>5, <1>6, <1>7, <1>15, <1>20, <3>2
    <3>3. CASE x = 1 /\ j = m + 1
      BY <1>15, <1>20, <1>21, <3>3
    <3>4. QED
      BY <1>24, <3>1, <3>2, <3>3
  <2>2. frames' # <<>>
    BY <1>3, <1>20, <1>21
  <2>3. ASSUME frames'[m + x].i = frames'[m + x].count,
               frames'[m + x].created < frames'[m + x].remaining
        PROVE  AtLimit'
    <3>1. CASE x = 1
      BY <1>20, <1>21, <2>3, <3>1
    <3>2. CASE x = 0
      <4>1. frames'[m + x] = e
        BY <1>3, <1>20, <3>2
      <4>2. e.i = e.count /\ e.created < e.remaining
        BY <2>3, <4>1
      <4>3. budget > 0
        BY <1>4, <1>5, <1>7, <1>8, <1>23, <4>2
      <4>4. f.depth + 1 = Limit + 1
        BY <1>3, <1>4, <1>5, <1>21, <3>2, <4>3
      <4>5. QED
        BY <1>3, <1>12, <1>15, <4>4 DEF AtLimit
    <3>3. QED
      BY <1>21, <3>1, <3>2
  <2>4. QED
    BY <1>20, <1>28, <1>32, <2>1, <2>2, <2>3 DEF BudgetInv
<1>34. TimesInv'
  BY <1>2 DEF TimesInv
<1>35. QED
  BY <1>16, <1>17, <1>18, <1>25, <1>33, <1>34 DEF SpanTreeInv

\* The counts of a call, after a call it made has returned.
LEMMA CreatedMore ==
  ASSUME NEW q \in Frame, NEW n \in Nat
  PROVE  LET e == [q EXCEPT !.created = @ + n]
         IN  /\ e.parent = q.parent /\ e.remaining = q.remaining /\ e.depth = q.depth
             /\ e.count = q.count /\ e.i = q.i /\ e.created = q.created + n
<1> DEFINE a == q.created + n
<1> HIDE DEF a
<1>1. LET e == [q EXCEPT !.created = a]
      IN  /\ e.parent = q.parent /\ e.remaining = q.remaining /\ e.depth = q.depth
          /\ e.count = q.count /\ e.i = q.i /\ e.created = a
  BY DEF Frame
<1>2. QED
  BY <1>1, Zenon DEF a

\* A call returns: what it created is counted by the call that made it, and when that one
\* has no more children either, the budget is spent or the depth limit was met.
LEMMA BuildReturnStep == SpanTreeInv /\ BuildReturn => SpanTreeInv'
<1> SUFFICES ASSUME SpanTreeInv, BuildReturn PROVE SpanTreeInv'
  OBVIOUS
<1> DEFINE m == Len(frames)
           f == frames[m]
           n == Len(tree)
<1>1. /\ frames # <<>> /\ phase = "build" /\ ~Growing(f)
      /\ UNCHANGED <<calls, roots, phase, wide, spanCount, tree>>
      /\ frames' = IF Front(frames) = <<>> THEN <<>>
                   ELSE [Front(frames) EXCEPT ![Len(Front(frames))].created = @ + f.created]
  BY DEF BuildReturn, Last
<1>2. /\ frames \in Seq(Frame) /\ m \in Nat /\ m >= 1 /\ DOMAIN frames = 1..m /\ f \in Frame
      /\ Limit' = Limit /\ (AtLimit' <=> AtLimit) /\ spanCount \in Nat /\ n \in Nat
  BY <1>1 DEF SpanTreeInv, StackInv, TreeInv, IsTree, IsSequence, Limit, AtLimit, BudgetInv
<1>3. /\ f.remaining \in Nat /\ f.count \in Nat /\ f.i \in Nat /\ f.created \in Nat
  BY <1>2, FrameFields
<1>4. /\ f.i <= f.count /\ f.created <= f.remaining
      /\ f.created < f.remaining => f.i = f.count /\ AtLimit
  <2>1. f.i <= f.count /\ f.created <= f.remaining
    BY <1>2 DEF SpanTreeInv, StackInv
  <2>2. f.created < f.remaining => f.i = f.count
    BY <1>1, <1>3, <2>1 DEF Growing
  <2>3. f.i = f.count /\ f.created < f.remaining => AtLimit
    BY <1>1 DEF SpanTreeInv, BudgetInv
  <2>4. QED
    BY <2>1, <2>2, <2>3
<1>5. PICK b : Began(b)
  BY <1>1 DEF SpanTreeInv, BudgetInv
<1>6. m = Len(frames) /\ n = Len(tree) /\ f = frames[m] /\ f.parent \in DOMAIN tree
  BY <1>2 DEF SpanTreeInv, StackInv
<1> HIDE DEF m, n, f
<1>7. /\ \A j \in 1..(m + 1) : b[j] \in Nat
      /\ b[1] = 1 /\ b[m + 1] = n
      /\ \A j \in 1..m : b[j + 1] = b[j] + frames[j].created
      /\ 1 + frames[1].remaining = spanCount
      /\ \A j \in 1..m : b[j] + frames[j].remaining <= spanCount
  BY <1>2, <1>5, <1>6 DEF Began
<1>8. b[m] \in Nat /\ n = b[m] + f.created
  <2>1. m \in 1..m /\ m \in 1..(m + 1)
    BY <1>2
  <2>2. QED
    BY <1>6, <1>7, <2>1
<1>9. TopologyInv' /\ TreeInv' /\ ServiceWindow' /\ TimesInv'
  BY <1>1 DEF SpanTreeInv, TopologyInv, TreeInv, ServiceWindow, TimesInv
<1>10. CASE m = 1
  <2>1. Front(frames) = <<>>
    BY <1>2, <1>6, <1>10 DEF Front
  <2>2. frames' = <<>> /\ DOMAIN frames' = {} /\ Len(frames') = 0 /\ frames' \in Seq(Frame)
    BY <1>1, <2>1
  <2>3. StackInv'
    BY <2>2 DEF StackInv
  <2>4. n <= spanCount /\ (n < spanCount => AtLimit)
    <3>1. n = 1 + f.created /\ spanCount = 1 + f.remaining
      BY <1>6, <1>7, <1>8, <1>10
    <3>2. QED
      BY <1>2, <1>3, <1>4, <3>1
  <2>5. BudgetInv'
    BY <1>1, <1>2, <1>6, <2>2, <2>4 DEF BudgetInv
  <2>6. QED
    BY <1>9, <2>3, <2>5 DEF SpanTreeInv
<1>11. CASE m > 1
  <2> DEFINE q == frames[m - 1]
             g == [q EXCEPT !.created = @ + f.created]
  <2>1. /\ frames' \in Seq(Frame) /\ Len(frames') = m - 1 /\ DOMAIN frames' = 1..(m - 1)
        /\ frames'[m - 1] = g
        /\ \A j \in 1..(m - 2) : frames'[j] = frames[j]
    <3> DEFINE r == [Front(frames) EXCEPT ![Len(Front(frames))].created = @ + f.created]
    <3>1. /\ Front(frames) # <<>>
          /\ r \in Seq(Frame) /\ Len(r) = Len(frames) - 1 /\ DOMAIN r = 1..(Len(frames) - 1)
          /\ r[Len(frames) - 1] = [frames[Len(frames) - 1] EXCEPT !.created = @ + f.created]
          /\ \A j \in 1..(Len(frames) - 2) : r[j] = frames[j]
      <4>1. Len(frames) > 1
        BY <1>6, <1>11
      <4>2. QED
        BY <1>2, <1>3, <4>1, Popped, Zenon
    <3>2. frames' = r
      BY <1>1, <3>1
    <3> HIDE DEF r
    <3>3. QED
      BY <1>6, <3>1, <3>2
  <2>2. m - 1 \in 1..m /\ m - 1 \in DOMAIN frames /\ (m - 1) + 1 = m /\ m - 1 \in 1..(m - 1)
        /\ q \in Frame
    BY <1>2, <1>11
  <2>3. /\ g.parent = q.parent /\ g.remaining = q.remaining /\ g.depth = q.depth
        /\ g.count = q.count /\ g.i = q.i /\ g.created = q.created + f.created
    BY <1>3, <2>2, CreatedMore, Zenon
  <2>4. /\ q.remaining \in Nat /\ q.count \in Nat /\ q.i \in Nat /\ q.created \in Nat
    BY <2>2, FrameFields
  <2>5. /\ q.parent \in DOMAIN tree /\ q.depth <= Limit
        /\ q.remaining > 0 /\ q.created <= q.remaining /\ q.i <= q.count /\ q.count > 0
        /\ Depth(tree)[q.parent] = q.depth
    BY <2>2 DEF SpanTreeInv, StackInv, BudgetInv
  <2>6. /\ f.remaining <= q.remaining - q.created
        /\ q.i = q.count => f.remaining = q.remaining - q.created
    <3>1. m - 1 \in 1..(Len(frames) - 1) /\ frames[(m - 1) + 1] = f
      BY <1>2, <1>6, <1>11, <2>2
    <3>2. QED
      BY <3>1 DEF SpanTreeInv, StackInv
  <2>7. b[m] = b[m - 1] + q.created /\ b[m - 1] \in Nat /\ b[m - 1] + q.remaining <= spanCount
    <3>1. m - 1 \in 1..(m + 1)
      BY <1>2, <1>11
    <3>2. QED
      BY <1>7, <2>2, <3>1
  <2> HIDE DEF g, q
  <2>8. q = frames[m - 1]
    BY DEF q
  <2>9. g.created <= g.remaining
    BY <1>3, <1>4, <2>3, <2>4, <2>6
  <2>10. \A j \in 1..(m - 1) : j \in 1..(m - 2) \/ j = m - 1
    BY <1>2, <1>11
  <2>11. \A j \in 1..(m - 2) : j \in DOMAIN frames
    BY <1>2
  <2>12. StackInv'
    <3>1. ASSUME NEW j \in 1..(m - 1)
          PROVE  /\ frames'[j].parent \in DOMAIN tree /\ frames'[j].depth <= Limit
                 /\ frames'[j].remaining > 0 /\ frames'[j].created <= frames'[j].remaining
                 /\ frames'[j].i <= frames'[j].count /\ frames'[j].count > 0
      <4>1. CASE j \in 1..(m - 2)
        <5>1. /\ frames[j].parent \in DOMAIN tree /\ frames[j].depth <= Limit
              /\ frames[j].remaining > 0 /\ frames[j].created <= frames[j].remaining
              /\ frames[j].i <= frames[j].count /\ frames[j].count > 0
          BY <2>11, <4>1 DEF SpanTreeInv, StackInv
        <5>2. QED
          BY <2>1, <4>1, <5>1
      <4>2. CASE j = m - 1
        BY <2>1, <2>3, <2>5, <2>9, <4>2
      <4>3. QED
        BY <2>10, <4>1, <4>2
    <3>2. ASSUME NEW j \in 1..(m - 2)
          PROVE  /\ frames'[j + 1].remaining <= frames'[j].remaining - frames'[j].created
                 /\ frames'[j].i = frames'[j].count =>
                      frames'[j + 1].remaining = frames'[j].remaining - frames'[j].created
      <4>1. j \in 1..(Len(frames) - 1)
        BY <1>2, <1>6
      <4>2. /\ frames[j + 1].remaining <= frames[j].remaining - frames[j].created
            /\ frames[j].i = frames[j].count =>
                 frames[j + 1].remaining = frames[j].remaining - frames[j].created
        BY <4>1 DEF SpanTreeInv, StackInv
      <4>3. frames'[j + 1].remaining = frames[j + 1].remaining
        <5>1. j + 1 \in 1..(m - 2) \/ j + 1 = m - 1
          BY <1>2
        <5>2. CASE j + 1 \in 1..(m - 2)
          BY <2>1, <5>2
        <5>3. CASE j + 1 = m - 1
          BY <2>1, <2>3, <2>8, <5>3
        <5>4. QED
          BY <5>1, <5>2, <5>3
      <4>4. QED
        BY <2>1, <4>2, <4>3
    <3>3. \A j \in DOMAIN frames' :
            /\ frames'[j].parent \in DOMAIN tree' /\ frames'[j].depth <= Limit'
            /\ frames'[j].remaining > 0 /\ frames'[j].created <= frames'[j].remaining
            /\ frames'[j].i <= frames'[j].count /\ frames'[j].count > 0
      BY <1>1, <1>2, <2>1, <3>1
    <3>4. \A j \in 1..(Len(frames') - 1) :
            /\ frames'[j + 1].remaining <= frames'[j].remaining - frames'[j].created
            /\ frames'[j].i = frames'[j].count =>
                 frames'[j + 1].remaining = frames'[j].remaining - frames'[j].created
      <4>1. Len(frames') - 1 = m - 2
        BY <1>2, <2>1
      <4>2. QED
        BY <3>2, <4>1
    <3>5. frames' \in Seq(Frame) /\ phase' = "build"
      BY <1>1, <2>1
    <3>6. QED
      BY <3>3, <3>4, <3>5 DEF StackInv
  <2> DEFINE begun == [j \in 1..m |-> IF j = m THEN n ELSE b[j]]
             Shape(z) == /\ z \in [1..m -> Nat]
                         /\ z[m] = n /\ \A j \in 1..(m - 1) : z[j] = b[j]
  <2>13. Shape(begun)
    <3>1. 1..m \subseteq 1..(m + 1) /\ m \in 1..m
      BY <1>2
    <3>2. \A j \in 1..(m - 1) : j \in 1..m /\ j # m
      BY <1>2
    <3>3. QED
      BY <1>2, <1>7, <3>1, <3>2
  <2> HIDE DEF begun, Shape
  <2>14. PICK bb : Shape(bb)
    BY <2>13
  <2>15. Began(bb)'
    <3>1. bb \in [1..(Len(frames') + 1) -> Nat]
      BY <1>2, <2>1, <2>14 DEF Shape
    <3>2. bb[m] = n /\ \A j \in 1..(m - 1) : bb[j] = b[j]
      BY <2>14 DEF Shape
    <3>3. ASSUME NEW j \in 1..(m - 1)
          PROVE  /\ bb[j + 1] = bb[j] + frames'[j].created
                 /\ bb[j] + frames'[j].remaining <= spanCount
      <4>1. j \in 1..m
        BY <1>2
      <4>2. CASE j \in 1..(m - 2)
        <5>1. j + 1 \in 1..(m - 1)
          BY <1>2, <4>2
        <5>2. QED
          BY <1>7, <2>1, <3>2, <4>1, <4>2, <5>1
      <4>3. CASE j = m - 1
        <5>1. bb[j + 1] = n /\ bb[j] = b[m - 1] /\ frames'[j] = g
          BY <2>1, <2>2, <3>2, <4>3
        <5>2. n = b[m - 1] + (q.created + f.created)
          BY <1>3, <1>8, <2>4, <2>7
        <5>3. QED
          BY <2>3, <2>7, <5>1, <5>2
      <4>4. QED
        BY <2>10, <4>2, <4>3
    <3>4. 1 + frames'[1].remaining = spanCount
      <4>1. CASE m = 2
        BY <1>7, <2>1, <2>3, <2>8, <4>1
      <4>2. CASE m # 2
        <5>1. 1 \in 1..(m - 2)
          BY <1>2, <1>11, <4>2
        <5>2. QED
          BY <1>7, <2>1, <5>1
      <4>3. QED
        BY <4>1, <4>2
    <3>5. bb[1] = 1 /\ bb[Len(frames') + 1] = Len(tree')
      <4>1. 1 \in 1..(m - 1) /\ Len(frames') + 1 = m
        BY <1>2, <1>11, <2>1
      <4>2. QED
        BY <1>1, <1>6, <1>7, <3>2, <4>1
    <3>6. \A j \in DOMAIN frames' :
            /\ bb[j + 1] = bb[j] + frames'[j].created
            /\ bb[j] + frames'[j].remaining <= spanCount
      BY <2>1, <3>3
    <3>7. QED
      BY <1>1, <3>1, <3>4, <3>5, <3>6 DEF Began
  <2>16. BudgetInv'
    <3>1. ASSUME NEW j \in 1..(m - 1)
          PROVE  Depth(tree)[frames'[j].parent] = frames'[j].depth
      <4>1. CASE j \in 1..(m - 2)
        BY <2>1, <2>11, <4>1 DEF SpanTreeInv, BudgetInv
      <4>2. CASE j = m - 1
        BY <2>1, <2>3, <2>5, <4>2
      <4>3. QED
        BY <2>10, <4>1, <4>2
    <3>2. ASSUME g.i = g.count, g.created < g.remaining PROVE AtLimit
      BY <1>3, <1>4, <2>3, <2>4, <2>6, <3>2
    <3>3. frames' # <<>> /\ frames'[Len(frames')] = g
      BY <1>2, <1>11, <2>1
    <3>4. QED
      BY <1>1, <1>2, <2>1, <2>15, <3>1, <3>2, <3>3 DEF BudgetInv
  <2>17. QED
    BY <1>9, <2>12, <2>16 DEF SpanTreeInv
<1>12. QED
  BY <1>2, <1>10, <1>11

\* Durations change nothing but themselves.
LEMMA CalculateDurationsStep == SpanTreeInv /\ CalculateDurations => SpanTreeInv'
<1> SUFFICES ASSUME SpanTreeInv, CalculateDurations PROVE SpanTreeInv'
  OBVIOUS
<1>1. PICK own \in [DOMAIN tree -> LeafDuration \cup Overhead] :
        tree' = [k \in DOMAIN tree |-> [tree[k] EXCEPT !.duration = Duration(tree, own)[k]]]
  BY DEF CalculateDurations
<1>2. /\ phase = "build" /\ phase' = "treat" /\ frames = <<>> /\ frames' = <<>>
      /\ UNCHANGED <<calls, roots, wide, spanCount>>
  BY DEF CalculateDurations
<1> DEFINE n == Len(tree)
           d == Duration(tree, own)
<1>3. IsTree(tree) /\ IsSequence(tree) /\ n \in Nat /\ n # 0 /\ DOMAIN tree = 1..n
      /\ 1 \in 1..n /\ tree # <<>>
  BY <1>2 DEF SpanTreeInv, TreeInv, IsTree, IsSequence
<1> HIDE DEF d
<1>4. \A k \in 1..n :
        /\ tree'[k].duration = d[k]
        /\ tree'[k].parent = tree[k].parent /\ tree'[k].service = tree[k].service
        /\ tree'[k].start = tree[k].start
        /\ tree'[k] = [parent |-> tree'[k].parent, service |-> tree'[k].service,
                       start |-> tree'[k].start, duration |-> tree'[k].duration]
  <2>1. ASSUME NEW k \in 1..n
        PROVE  /\ tree'[k].duration = d[k]
               /\ tree'[k].parent = tree[k].parent /\ tree'[k].service = tree[k].service
               /\ tree'[k].start = tree[k].start
               /\ tree'[k] = [parent |-> tree'[k].parent, service |-> tree'[k].service,
                              start |-> tree'[k].start, duration |-> tree'[k].duration]
    <3>1. tree'[k] = [tree[k] EXCEPT !.duration = d[k]]
      BY <1>1, <1>3 DEF d
    <3>2. tree[k] = [parent |-> tree[k].parent, service |-> tree[k].service,
                     start |-> tree[k].start, duration |-> tree[k].duration]
      BY <1>3 DEF SpanTreeInv, TreeInv
    <3>3. ASSUME NEW p, NEW s, NEW a, NEW b, NEW x, NEW span, NEW old,
                 old = [parent |-> p, service |-> s, start |-> a, duration |-> b],
                 span = [old EXCEPT !.duration = x]
          PROVE  span = [parent |-> p, service |-> s, start |-> a, duration |-> x]
      BY <3>3
    <3>4. tree'[k] = [parent |-> tree[k].parent, service |-> tree[k].service,
                      start |-> tree[k].start, duration |-> d[k]]
      BY <3>1, <3>2, <3>3
    <3>5. QED
      BY <3>4
  <2>2. QED
    BY <2>1
<1>5. Len(tree') = n /\ DOMAIN tree' = 1..n /\ IsSequence(tree') /\ tree' # <<>>
  <2>1. tree' = [k \in 1..n |-> tree'[k]]
    BY <1>1, <1>3
  <2>2. Len(tree') = n /\ DOMAIN tree' = 1..n
    BY <1>3, <2>1
  <2>3. tree' # <<>>
    BY <1>3, <2>2
  <2>4. QED
    BY <1>3, <2>1, <2>2, <2>3 DEF IsSequence
<1>6. IsTree(tree')
  BY <1>3, <1>4, <1>5 DEF IsTree
<1>7. \A k \in 1..n : Depth(tree')[k] = Depth(tree)[k]
  <2>1. Len(tree) <= Len(tree') /\ \A k \in DOMAIN tree : tree'[k].parent = tree[k].parent
    BY <1>3, <1>4, <1>5
  <2>2. QED
    BY <1>3, <1>6, <2>1, DepthSame
<1>8. TopologyInv' /\ StackInv'
  <2>1. TopologyInv'
    BY <1>2 DEF SpanTreeInv, TopologyInv
  <2>2. StackInv'
    BY <1>2 DEF StackInv
  <2>3. QED
    BY <2>1, <2>2
<1>9. TreeInv'
  <2>1. \A k \in 1..n : tree'[k].service \in Service /\ tree'[k].start = 0
    BY <1>3, <1>4 DEF SpanTreeInv, TreeInv
  <2>2. tree'[1].service \in roots' /\ wide' \in BOOLEAN
    BY <1>2, <1>3, <1>4 DEF SpanTreeInv, TreeInv
  <2>3. QED
    BY <1>2, <1>3, <1>4, <1>5, <1>6, <2>1, <2>2 DEF TreeInv
<1>10. ServiceWindow'
  BY <1>2, <1>3, <1>4, <1>5, <1>7 DEF SpanTreeInv, ServiceWindow
<1>11. BudgetInv'
  <2>1. n \in 1..n
    BY <1>3
  <2>2. AtLimit' <=> AtLimit
    BY <1>2, <1>5, <1>7, <2>1 DEF AtLimit, Limit
  <2>3. spanCount \in Nat /\ n <= spanCount /\ (n < spanCount => AtLimit)
    BY <1>2, <1>3 DEF SpanTreeInv, BudgetInv
  <2>4. DOMAIN frames' = {}
    BY <1>2
  <2>5. QED
    BY <1>2, <1>5, <2>2, <2>3, <2>4 DEF BudgetInv
<1>12. TimesInv'
  <2>1. \A k \in DOMAIN tree : own[k] \in Nat \ {0}
    BY SpanTreeAssumption
  <2>2. \A k \in DOMAIN tree :
          d[k] \in Nat \ {0} /\ (k # 1 => d[k] <= d[tree[k].parent])
    BY <1>3, <2>1, DurationNested DEF d
  <2>3. \A k \in 1..n : k # 1 => tree[k].parent \in 1..n
    BY <1>3 DEF IsTree
  <2>4. QED
    BY <1>3, <1>4, <1>5, <2>2, <2>3 DEF TimesInv
<1>13. QED
  BY <1>8, <1>9, <1>10, <1>11, <1>12 DEF SpanTreeInv

\* The treatment of the root changes nothing of the tree.
LEMMA TreatmentStep == SpanTreeInv /\ ApplyRootTreatment => SpanTreeInv'
<1> SUFFICES ASSUME SpanTreeInv, ApplyRootTreatment PROVE SpanTreeInv'
  OBVIOUS
<1>1. phase = "treat" /\ phase' = "ready" /\ UNCHANGED <<calls, roots, wide, spanCount, tree, frames>>
  BY DEF ApplyRootTreatment
<1>2. TopologyInv' /\ TreeInv' /\ ServiceWindow' /\ TimesInv'
  BY <1>1 DEF SpanTreeInv, TopologyInv, TreeInv, ServiceWindow, TimesInv
<1>3. StackInv'
  BY <1>1 DEF SpanTreeInv, StackInv
<1>4. BudgetInv'
  <2>1. frames = <<>> /\ DOMAIN frames' = {} /\ frames' = <<>>
    BY <1>1 DEF SpanTreeInv, StackInv
  <2>2. AtLimit' <=> AtLimit
    BY <1>1 DEF AtLimit, Limit
  <2>3. QED
    BY <1>1, <2>1, <2>2 DEF SpanTreeInv, BudgetInv
<1>5. QED
  BY <1>2, <1>3, <1>4 DEF SpanTreeInv

\* A step of another part leaves the tree as it is.
LEMMA NoTreeStep == SpanTreeInv /\ UNCHANGED treeVars => SpanTreeInv'
<1> SUFFICES ASSUME SpanTreeInv, UNCHANGED treeVars PROVE SpanTreeInv'
  OBVIOUS
<1>1. UNCHANGED <<calls, roots, phase, wide, spanCount, tree, frames>>
  BY DEF treeVars
<1>2. TopologyInv' /\ TreeInv' /\ ServiceWindow' /\ TimesInv'
  BY <1>1 DEF SpanTreeInv, TopologyInv, TreeInv, ServiceWindow, TimesInv
<1>3. StackInv'
  BY <1>1 DEF SpanTreeInv, StackInv, Limit
<1>4. BudgetInv'
  BY <1>1 DEF SpanTreeInv, BudgetInv, Began, AtLimit, Limit
<1>5. QED
  BY <1>2, <1>3, <1>4 DEF SpanTreeInv

--------------------------------------------------------------------------------
(* What the generator leaves *)

\* Every step of the generator preserves the invariant.
LEMMA SpanTreeStep == SpanTreeInv /\ (SpanTreeNext \/ UNCHANGED treeVars) => SpanTreeInv'
BY GenerateTraceStep, AddChildStep, BuildReturnStep, CalculateDurationsStep, TreatmentStep,
   NoTreeStep DEF SpanTreeNext

\* What is left to the calls in progress is within the budget of the trace.
LEMMA Budget == SpanTreeInv => BudgetSpent
<1> SUFFICES ASSUME SpanTreeInv PROVE BudgetSpent
  OBVIOUS
<1>1. Len(tree) \in Nat /\ spanCount \in Nat
  BY DEF SpanTreeInv, TreeInv, IsTree, IsSequence, BudgetInv
<1>2. Len(tree) <= spanCount
  <2>1. CASE frames # <<>>
    <3> DEFINE m == Len(frames)
               f == frames[m]
    <3>1. m \in Nat /\ m >= 1 /\ m \in DOMAIN frames /\ f \in Frame
      BY <2>1 DEF SpanTreeInv, StackInv
    <3>2. PICK b : Began(b)
      BY <2>1 DEF SpanTreeInv, BudgetInv
    <3>3. f.created <= f.remaining
      BY <3>1 DEF SpanTreeInv, StackInv
    <3>4. b[m] \in Nat /\ Len(tree) = b[m] + f.created /\ b[m] + f.remaining <= spanCount
      <4>1. m \in 1..(m + 1)
        BY <3>1
      <4>2. QED
        BY <3>1, <3>2, <4>1 DEF Began
    <3>5. f.created \in Nat /\ f.remaining \in Nat
      BY <3>1, FrameFields
    <3> HIDE DEF f, m
    <3>6. QED
      BY <1>1, <3>3, <3>4, <3>5
  <2>2. CASE frames = <<>> /\ tree # <<>>
    BY <2>2 DEF SpanTreeInv, BudgetInv
  <2>3. CASE tree = <<>>
    BY <1>1, <2>3
  <2>4. QED
    BY <2>1, <2>2, <2>3
<1>3. ASSUME phase = "ready", Len(tree) < spanCount
      PROVE  Depth(tree)[Len(tree)] = (IF wide THEN WideDepth ELSE MaxDepth) + 1
  <2>1. frames = <<>> /\ tree # <<>>
    <3>1. frames = <<>> /\ Len(tree) # 0
      BY <1>3 DEF SpanTreeInv, StackInv, TreeInv
    <3>2. QED
      BY <3>1
  <2>2. AtLimit
    BY <1>3, <2>1 DEF SpanTreeInv, BudgetInv
  <2>3. QED
    BY <2>2 DEF AtLimit, Limit
<1>4. QED
  BY <1>2, <1>3 DEF BudgetSpent

--------------------------------------------------------------------------------
(* The invariant of the journey *)

Steps == {"clone", "ids", "delays", "times", "split", "done"}
Renumbered == {"delays", "times", "split", "done"}
Delayed == {"times", "split", "done"}

\* What a worker finds in the template is what the generator made.
LoadedInv ==
  /\ lastId \in Nat
  /\ template # <<>> => phase = "ready" /\ template = ToOTLP /\ PhantomId <= lastId
  /\ stepPc \in [Worker -> Steps]
  /\ DOMAIN clone = Worker /\ DOMAIN stripped = Worker /\ DOMAIN delays = Worker
  /\ DOMAIN immediate = Worker /\ DOMAIN deferred = Worker
  /\ \A w \in Worker : stepPc[w] # "clone" => template # <<>>

RootParent == IF phantom THEN PhantomId ELSE NoId

\* The IDs of a pass are a range of their own: the trace, then its spans.
Base(w) == clone[w][1].trace

Copied(w) ==
  clone[w] = [k \in 1..Len(tree) |->
    [trace |-> NoId, id |-> k, parent |-> ToOTLP[k].parent, start |-> 0, end |-> 0]]

IsSpan(s) ==
  s = [trace |-> s.trace, id |-> s.id, parent |-> s.parent, start |-> s.start, end |-> s.end]

Pass(w) ==
  /\ DOMAIN clone[w] = DOMAIN tree
  /\ Base(w) \in Nat /\ PhantomId < Base(w) /\ Base(w) + Len(tree) <= lastId
  /\ \A k \in DOMAIN tree :
       /\ IsSpan(clone[w][k])
       /\ clone[w][k].trace = Base(w) /\ clone[w][k].id = Base(w) + k
       /\ clone[w][k].parent = IF k = 1 THEN RootParent ELSE Base(w) + tree[k].parent

LateSpans == IF late THEN {1} ELSE {}

\* A pass has a start, less its jitter the same for every span, and ends by now.
Timed(w) ==
  \E first \in Int, jitter \in [DOMAIN tree -> Jitter] :
    \A k \in DOMAIN tree :
      /\ clone[w][k].start = first + jitter[k]
      /\ clone[w][k].end = first + jitter[k] + tree[k].duration
      /\ first + tree[k].duration <= Now

\* The lists are shared until the times are known; then they are without the template's.
Bare(k) == [key \in {"service"} |-> tree[k].service]
Lists(w) ==
  /\ stepPc[w] \in {"clone", "ids", "delays", "times"} => stripped[w] = <<>>
  /\ stepPc[w] \in {"split", "done"} => stripped[w] = [k \in DOMAIN tree |-> Bare(k)]

WorkerInv(w) ==
  /\ Lists(w)
  /\ stepPc[w] = "ids" => Copied(w)
  /\ stepPc[w] \in Renumbered => Pass(w)
  /\ stepPc[w] \in Delayed => delays[w] = [k \in LateSpans |-> DelayMs]
  /\ stepPc[w] \in {"split", "done"} => Timed(w)
  /\ stepPc[w] = "done" =>
       /\ deferred[w] = IF late THEN {[delay |-> DelayMs, spans |-> {1}]} ELSE {}
       /\ immediate[w] = DOMAIN tree \ LateSpans

Apart(v, w) ==
  stepPc[v] \in Renumbered /\ stepPc[w] \in Renumbered =>
    Base(v) + Len(tree) < Base(w) \/ Base(w) + Len(tree) < Base(v)

JourneyInv ==
  /\ SpanTreeInv
  /\ LoadedInv
  /\ \A w \in Worker : WorkerInv(w)
  /\ \A v, w \in Worker : v # w => Apart(v, w)

--------------------------------------------------------------------------------
(* Trees and templates *)

\* A tree that is ready has a root, and every other span a parent before it.
LEMMA ReadyTree ==
  ASSUME SpanTreeInv, phase = "ready"
  PROVE  /\ Len(tree) \in Nat \ {0} /\ DOMAIN tree = 1..Len(tree) /\ 1 \in DOMAIN tree
         /\ tree[1].parent = 0 /\ PhantomId = Len(tree) + 1 /\ PhantomId \in Nat
         /\ \A k \in DOMAIN tree : k # 1 =>
              tree[k].parent \in DOMAIN tree /\ tree[k].parent \in Nat /\ tree[k].parent # 0
<1>1. Len(tree) \in Nat \ {0} /\ DOMAIN tree = 1..Len(tree)
  BY DEF SpanTreeInv, TreeInv, IsTree, IsSequence
<1>2. 1 \in DOMAIN tree
  BY <1>1
<1>3. \A k \in DOMAIN tree :
        tree[k].parent \in Nat /\ tree[k].parent < k /\ (k # 1 => tree[k].parent # 0)
  BY DEF SpanTreeInv, TreeInv, IsTree
<1>4. tree[1].parent = 0
  BY <1>2, <1>3
<1>5. \A k \in DOMAIN tree : k # 1 => tree[k].parent \in DOMAIN tree
  BY <1>1, <1>3
<1>6. QED
  BY <1>1, <1>2, <1>3, <1>4, <1>5 DEF PhantomId

\* What the loader reads.
LEMMA LoadedSpans ==
  ASSUME SpanTreeInv, phase = "ready"
  PROVE  /\ DOMAIN ToOTLP = DOMAIN tree
         /\ \A k \in DOMAIN tree :
              /\ ToOTLP[k].trace = NoId /\ ToOTLP[k].id = k
              /\ ToOTLP[k].parent = IF k = 1 THEN RootParent ELSE tree[k].parent
              /\ ToOTLP[k].attributes = Written(k)
<1>1. DOMAIN tree = 1..Len(tree) /\ Len(tree) \in Nat
  BY ReadyTree
<1>2. QED
  BY <1>1 DEF ToOTLP, RootParent

\* What is written to the attributes of a span.
LEMMA WrittenIs ==
  ASSUME NEW k
  PROVE  LET a == Written(k)
         IN  /\ DOMAIN a \subseteq {"service", "duration", "offset", "delay"}
             /\ {"service", "duration", "offset"} \subseteq DOMAIN a
             /\ "delay" \in DOMAIN a <=> k \in LateSpans
             /\ a["service"] = tree[k].service /\ a["duration"] = tree[k].duration
             /\ a["offset"] = tree[k].start
             /\ k \in LateSpans => a["delay"] = DelayMs
<1> DEFINE Keys == {"service", "duration", "offset"} \cup (IF k = 1 /\ late THEN {"delay"} ELSE {})
           Value(key) == CASE key = "service" -> tree[k].service
                           [] key = "duration" -> tree[k].duration
                           [] key = "offset" -> tree[k].start
                           [] key = "delay" -> DelayMs
<1>1. Written(k) = [key \in Keys |-> Value(key)]
  BY DEF Written
<1>2. "delay" \in Keys <=> k \in LateSpans
  BY DEF LateSpans
<1>3. Keys \subseteq {"service", "duration", "offset", "delay"}
      /\ {"service", "duration", "offset"} \subseteq Keys
  OBVIOUS
<1>4. /\ Value("service") = tree[k].service /\ Value("duration") = tree[k].duration
      /\ Value("offset") = tree[k].start /\ Value("delay") = DelayMs
  OBVIOUS
<1> HIDE DEF Keys, Value
<1>5. QED
  BY <1>1, <1>2, <1>3, <1>4

\* While the lists are shared, a worker reads what was written; without the template's
\* attributes, the service is left.
LEMMA SharedLists ==
  ASSUME SpanTreeInv, phase = "ready", template = ToOTLP, NEW w, stripped[w] = <<>>,
         NEW k \in DOMAIN tree
  PROVE  /\ AttributesOf(w, k) = Written(k)
         /\ NumberOf(w, k, "duration") = tree[k].duration
         /\ NumberOf(w, k, "offset") = tree[k].start
         /\ NumberOf(w, k, "delay") = IF k \in LateSpans THEN DelayMs ELSE 0
         /\ RemoveTemplateAttributes(AttributesOf(w, k)) = Bare(k)
<1>1. k \notin DOMAIN stripped[w]
  OBVIOUS
<1>2. AttributesOf(w, k) = Written(k)
  BY <1>1, LoadedSpans DEF AttributesOf
<1> DEFINE a == Written(k)
<1>3. /\ DOMAIN a \subseteq {"service", "duration", "offset", "delay"}
      /\ {"service", "duration", "offset"} \subseteq DOMAIN a
      /\ "delay" \in DOMAIN a <=> k \in LateSpans
      /\ a["service"] = tree[k].service /\ a["duration"] = tree[k].duration
      /\ a["offset"] = tree[k].start
      /\ k \in LateSpans => a["delay"] = DelayMs
  BY WrittenIs
<1> HIDE DEF a
<1>4. AttributesOf(w, k) = a
  BY <1>2 DEF a
<1>5. RemoveTemplateAttributes(a) = Bare(k)
  <2>1. DOMAIN a \ TemplateKeys = {"service"}
    BY <1>3 DEF TemplateKeys
  <2>2. QED
    BY <1>3, <2>1 DEF RemoveTemplateAttributes, Bare
<1>6. QED
  BY <1>2, <1>3, <1>4, <1>5 DEF NumberOf

\* The only one of its kind is the greatest.
LEMMA MaxOfOne == ASSUME NEW n \in Nat PROVE Max({n}) = n
<1>1. \E x \in {n} : \A y \in {n} : x >= y
  OBVIOUS
<1>2. QED
  BY <1>1 DEF Max

\* Spans are loaded with the durations they were given, all starting with the trace.
LEMMA LoadedTimes ==
  ASSUME SpanTreeInv, phase = "ready", template = ToOTLP, NEW w, stripped[w] = <<>>
  PROVE  \A k \in DOMAIN tree :
           /\ NumberOf(w, k, "offset") = 0
           /\ SpanDuration(w, k) = tree[k].duration /\ tree[k].duration \in Nat \ {0}
<1>1. ASSUME NEW k \in DOMAIN tree
      PROVE  /\ NumberOf(w, k, "offset") = 0
             /\ SpanDuration(w, k) = tree[k].duration /\ tree[k].duration \in Nat \ {0}
  <2>1. tree[k].start = 0 /\ tree[k].duration \in Nat \ {0}
    BY DEF SpanTreeInv, TreeInv, TimesInv
  <2>2. NumberOf(w, k, "offset") = tree[k].start
        /\ NumberOf(w, k, "duration") = tree[k].duration
    BY SharedLists
  <2>3. QED
    BY <2>1, <2>2 DEF SpanDuration
<1>2. QED
  BY <1>1

\* Some span lasts longest.
LEMMA LongestSpan ==
  ASSUME SpanTreeInv, phase = "ready", template = ToOTLP, NEW w, stripped[w] = <<>>,
         DOMAIN clone[w] = DOMAIN tree
  PROVE  LET longest == Max({SpanDuration(w, k) : k \in DOMAIN clone[w]})
         IN  longest \in Nat /\ \A k \in DOMAIN tree : tree[k].duration <= longest
<1> DEFINE n == Len(tree)
           Longest(m) == \E k \in 1..m : \A j \in 1..m : SpanDuration(w, j) <= SpanDuration(w, k)
           Missing == {m \in 1..n : ~Longest(m)}
<1>1. n \in Nat \ {0} /\ DOMAIN tree = 1..n
  BY ReadyTree
<1>2. \A k \in 1..n : SpanDuration(w, k) = tree[k].duration /\ SpanDuration(w, k) \in Nat
  BY <1>1, LoadedTimes
<1> HIDE DEF n
<1>3. Missing = {}
  <2> SUFFICES ASSUME Missing # {} PROVE FALSE
    OBVIOUS
  <2>1. PICK m \in Missing : \A k \in Missing : m <= k
    <3>1. Missing \in SUBSET Nat
      BY <1>1
    <3>2. PICK k : k \in Missing
      OBVIOUS
    <3> HIDE DEF Missing
    <3>3. QED
      BY <3>1, <3>2, LeastNat
  <2>2. m \in 1..n /\ ~Longest(m)
    BY <2>1
  <2>3. CASE m = 1
    <3>1. SpanDuration(w, 1) <= SpanDuration(w, 1)
      BY <1>1, <1>2
    <3>2. QED
      BY <2>2, <2>3, <3>1
  <2>4. CASE m # 1
    <3>1. m - 1 \in 1..n /\ ~(m <= m - 1)
      BY <1>1, <2>2, <2>4
    <3>2. m - 1 \notin Missing
      BY <2>1, <3>1
    <3>3. PICK k \in 1..(m - 1) : \A j \in 1..(m - 1) : SpanDuration(w, j) <= SpanDuration(w, k)
      BY <3>1, <3>2
    <3>4. /\ k \in 1..m /\ m \in 1..m /\ k \in 1..n
          /\ \A j \in 1..m : (j \in 1..(m - 1) \/ j = m) /\ j \in 1..n
      BY <1>1, <2>2, <3>3
    <3>5. SpanDuration(w, k) \in Nat /\ SpanDuration(w, m) \in Nat
      BY <1>2, <2>2, <3>4
    <3>6. CASE SpanDuration(w, m) <= SpanDuration(w, k)
      BY <2>2, <3>3, <3>4, <3>6
    <3>7. CASE ~(SpanDuration(w, m) <= SpanDuration(w, k))
      <4>1. ASSUME NEW j \in 1..m PROVE SpanDuration(w, j) <= SpanDuration(w, m)
        <5>1. SpanDuration(w, j) \in Nat /\ (j # m => SpanDuration(w, j) <= SpanDuration(w, k))
          BY <1>2, <3>3, <3>4
        <5> DEFINE x == SpanDuration(w, j)
                   y == SpanDuration(w, k)
                   z == SpanDuration(w, m)
        <5>2. x \in Nat /\ y \in Nat /\ z \in Nat /\ ~(z <= y) /\ (x <= y \/ x = z)
          BY <3>5, <3>7, <5>1
        <5> HIDE DEF x, y, z
        <5>3. x <= z
          BY <5>2
        <5>4. QED
          BY <5>3 DEF x, z
      <4>2. QED
        BY <2>2, <3>4, <4>1
    <3>8. QED
      BY <3>6, <3>7
  <2>5. QED
    BY <2>3, <2>4
<1>4. PICK k \in 1..n : \A j \in 1..n : SpanDuration(w, j) <= SpanDuration(w, k)
  <2>1. n \in 1..n
    BY <1>1
  <2>2. QED
    BY <1>3, <2>1
<1> DEFINE S == {SpanDuration(w, j) : j \in DOMAIN clone[w]}
<1>5. \E x \in S : \A y \in S : x >= y
  <2>1. SpanDuration(w, k) \in S /\ \A y \in S : SpanDuration(w, k) >= y
    BY <1>1, <1>2, <1>4
  <2> HIDE DEF S
  <2>2. QED
    BY <2>1
<1>6. Max(S) \in S /\ \A y \in S : Max(S) >= y
  <2> HIDE DEF S
  <2>1. QED
    BY <1>5 DEF Max
<1>7. \A j \in 1..n : tree[j].duration \in S
  BY <1>1, <1>2
<1>8. S \subseteq Nat
  BY <1>1, <1>2
<1> HIDE DEF S
<1>9. Max(S) \in Nat /\ \A j \in 1..n : tree[j].duration <= Max(S)
  BY <1>6, <1>7, <1>8
<1>10. QED
  BY <1>1, <1>9 DEF S

--------------------------------------------------------------------------------
(* The steps of the workers *)

\* Nothing is made or loaded at first.
LEMMA InitJourney == Init => JourneyInv
<1> SUFFICES ASSUME Init PROVE JourneyInv
  OBVIOUS
<1>1. SpanTreeInv
  BY InitSpanTree DEF Init
<1>2. LoadedInv /\ \A w \in Worker : stepPc[w] = "clone" /\ stripped[w] = <<>>
  BY DEF Init, TransformInit, LoadedInv, Steps
<1>3. QED
  BY <1>1, <1>2 DEF JourneyInv, WorkerInv, Lists, Apart, Renumbered, Delayed

\* The generator only works while there is no template.
LEMMA GeneratorStep ==
  JourneyInv /\ SpanTreeNext /\ UNCHANGED transformVars => JourneyInv'
<1> SUFFICES ASSUME JourneyInv, SpanTreeNext, UNCHANGED transformVars PROVE JourneyInv'
  OBVIOUS
<1>1. SpanTreeInv'
  BY SpanTreeStep DEF JourneyInv
<1>2. UNCHANGED <<template, lastId, stepPc, clone, stripped, delays, immediate, deferred>>
  BY DEF transformVars
<1>3. phase # "ready"
  BY DEF SpanTreeNext, GenerateTrace, AddChild, BuildReturn, CalculateDurations,
         ApplyRootTreatment
<1>4. template = <<>> /\ \A w \in Worker : stepPc[w] = "clone" /\ stripped[w] = <<>>
  BY <1>3 DEF JourneyInv, LoadedInv, WorkerInv, Lists
<1>5. LoadedInv'
  BY <1>2, <1>4 DEF JourneyInv, LoadedInv
<1>6. QED
  BY <1>1, <1>2, <1>4, <1>5 DEF JourneyInv, WorkerInv, Lists, Apart, Renumbered, Delayed

\* Loading happens once, before any worker has begun.
LEMMA WriteAndLoadStep == JourneyInv /\ WriteAndLoad => JourneyInv'
<1> SUFFICES ASSUME JourneyInv, WriteAndLoad PROVE JourneyInv'
  OBVIOUS
<1>1. /\ phase = "ready" /\ template = <<>> /\ template' = ToOTLP /\ lastId' = PhantomId
      /\ UNCHANGED <<treeVars, stepPc, clone, stripped, delays, immediate, deferred>>
  BY DEF WriteAndLoad
<1>2. SpanTreeInv /\ SpanTreeInv'
  BY <1>1, NoTreeStep DEF JourneyInv
<1>3. \A w \in Worker : stepPc[w] = "clone" /\ stepPc'[w] = "clone" /\ stripped'[w] = <<>>
  BY <1>1 DEF JourneyInv, LoadedInv, WorkerInv, Lists
<1>4. PhantomId \in Nat
  BY <1>1, <1>2, ReadyTree
<1>5. phase' = phase /\ ToOTLP' = ToOTLP /\ PhantomId' = PhantomId
  BY <1>1 DEF treeVars, ToOTLP, Written, PhantomId
<1>6. LoadedInv'
  BY <1>1, <1>3, <1>4, <1>5 DEF JourneyInv, LoadedInv
<1>7. QED
  BY <1>2, <1>3, <1>6 DEF JourneyInv, WorkerInv, Lists, Apart, Renumbered, Delayed

\* What the generated tree determines stays while the workers work.
LEMMA TreeStays ==
  ASSUME UNCHANGED treeVars
  PROVE  /\ UNCHANGED <<phase, tree, phantom, late>>
         /\ ToOTLP' = ToOTLP /\ PhantomId' = PhantomId /\ RootParent' = RootParent
         /\ LateSpans' = LateSpans
BY DEF treeVars, ToOTLP, Written, PhantomId, RootParent, LateSpans

\* A step of one worker: the others keep what they have, and the IDs of this one stay what
\* they were, are not given yet, or are beyond all that were in use.
LEMMA OneWorker ==
  ASSUME JourneyInv, UNCHANGED treeVars, UNCHANGED template, template # <<>>,
         lastId' \in Nat, lastId <= lastId',
         NEW w \in Worker, NEW next \in Steps, stepPc' = [stepPc EXCEPT ![w] = next],
         /\ DOMAIN clone' = Worker /\ DOMAIN stripped' = Worker /\ DOMAIN delays' = Worker
         /\ DOMAIN immediate' = Worker /\ DOMAIN deferred' = Worker,
         \A v \in Worker \ {w} :
           /\ clone'[v] = clone[v] /\ stripped'[v] = stripped[v] /\ delays'[v] = delays[v]
           /\ immediate'[v] = immediate[v] /\ deferred'[v] = deferred[v],
         WorkerInv(w)',
         \/ next \notin Renumbered
         \/ stepPc[w] \in Renumbered /\ Base(w)' = Base(w)
         \/ lastId < Base(w)'
  PROVE  JourneyInv'
<1>1. SpanTreeInv'
  BY NoTreeStep DEF JourneyInv
<1>2. UNCHANGED <<phase, tree, late>> /\ ToOTLP' = ToOTLP /\ PhantomId' = PhantomId
      /\ RootParent' = RootParent /\ LateSpans' = LateSpans
  BY TreeStays
<1>3. stepPc \in [Worker -> Steps] /\ lastId \in Nat /\ phase = "ready" /\ PhantomId <= lastId
      /\ SpanTreeInv
  BY DEF JourneyInv, LoadedInv
<1>4. /\ stepPc' \in [Worker -> Steps] /\ stepPc'[w] = next
      /\ \A v \in Worker \ {w} : stepPc'[v] = stepPc[v]
  BY <1>3
<1>5. Len(tree) \in Nat /\ PhantomId \in Nat /\ DOMAIN tree = 1..Len(tree)
  BY <1>3, ReadyTree
<1>6. LoadedInv'
  <2>1. PhantomId <= lastId'
    BY <1>3, <1>5
  <2>2. template = ToOTLP
    BY DEF JourneyInv, LoadedInv
  <2>3. QED
    BY <1>2, <1>3, <1>4, <2>1, <2>2 DEF LoadedInv
<1>7. \A v \in Worker \ {w} : Base(v)' = Base(v)
  BY DEF Base
<1>8. ASSUME NEW v \in Worker \ {w} PROVE WorkerInv(v)'
  <2>1. WorkerInv(v)
    BY DEF JourneyInv
  <2>2. stepPc[v] = "ids" => Copied(v)'
    BY <1>2, <2>1 DEF WorkerInv, Copied
  <2>3. stepPc[v] \in Renumbered => Pass(v)'
    <3>1. SUFFICES ASSUME Pass(v) PROVE Pass(v)'
      BY <2>1 DEF WorkerInv
    <3>2. Base(v) \in Nat /\ PhantomId < Base(v) /\ Base(v) + Len(tree) <= lastId'
      BY <1>3, <1>5, <3>1 DEF Pass
    <3>3. QED
      BY <1>2, <1>7, <3>1, <3>2 DEF Pass, IsSpan
  <2>4. Timed(v) => Timed(v)'
    BY <1>2 DEF Timed
  <2>5. Lists(v)'
    BY <1>2, <1>4, <2>1 DEF WorkerInv, Lists, Bare
  <2>6. QED
    BY <1>2, <1>4, <2>1, <2>2, <2>3, <2>4, <2>5 DEF WorkerInv
<1>9. ASSUME NEW v \in Worker \ {w}
      PROVE  Apart(v, w)' /\ Apart(w, v)'
  <2>1. SUFFICES ASSUME stepPc[v] \in Renumbered, next \in Renumbered
                 PROVE  \/ Base(v) + Len(tree) < Base(w)'
                        \/ Base(w)' + Len(tree) < Base(v)
    BY <1>2, <1>4, <1>7 DEF Apart
  <2>2. Base(v) \in Nat /\ Base(v) + Len(tree) <= lastId /\ Base(w)' \in Nat
    BY <1>4, <2>1 DEF JourneyInv, WorkerInv, Pass
  <2>3. CASE stepPc[w] \in Renumbered /\ Base(w)' = Base(w)
    BY <2>1, <2>3 DEF JourneyInv, Apart
  <2>4. CASE lastId < Base(w)'
    BY <1>3, <1>5, <2>2, <2>4
  <2>5. QED
    BY <2>1, <2>3, <2>4
<1>10. ASSUME NEW v \in Worker \ {w}, NEW u \in Worker \ {w}, v # u
       PROVE  Apart(v, u)'
  BY <1>2, <1>4, <1>7, <1>10 DEF JourneyInv, Apart
<1>11. /\ \A v \in Worker : WorkerInv(v)'
       /\ \A v, u \in Worker : v # u => Apart(v, u)'
  BY <1>8, <1>9, <1>10
<1>12. QED
  BY <1>1, <1>6, <1>11 DEF JourneyInv

\* What a worker that has begun can count on.
LEMMA Begun ==
  ASSUME JourneyInv, NEW w \in Worker, template # <<>> \/ stepPc[w] # "clone"
  PROVE  /\ SpanTreeInv /\ phase = "ready" /\ template = ToOTLP /\ template # <<>>
         /\ lastId \in Nat /\ PhantomId <= lastId
         /\ DOMAIN clone = Worker /\ DOMAIN stripped = Worker /\ DOMAIN delays = Worker
         /\ DOMAIN immediate = Worker /\ DOMAIN deferred = Worker
         /\ stepPc \in [Worker -> Steps] /\ WorkerInv(w)
         /\ DOMAIN template = DOMAIN tree /\ DOMAIN tree = 1..Len(tree)
<1>1. template # <<>>
  BY DEF JourneyInv, LoadedInv
<1>2. SpanTreeInv /\ phase = "ready" /\ template = ToOTLP
  BY <1>1 DEF JourneyInv, LoadedInv
<1>3. DOMAIN template = DOMAIN tree /\ DOMAIN tree = 1..Len(tree)
  BY <1>2, LoadedSpans, ReadyTree
<1>4. QED
  BY <1>1, <1>2, <1>3 DEF JourneyInv, LoadedInv

\* A copy of the template.
LEMMA CloneStep ==
  ASSUME JourneyInv, NEW w \in Worker, CloneTraceBatch(w), UNCHANGED treeVars
  PROVE  JourneyInv'
<1>1. /\ template # <<>> /\ stepPc[w] = "clone" /\ stepPc' = [stepPc EXCEPT ![w] = "ids"]
      /\ clone' = [clone EXCEPT ![w] = [k \in DOMAIN template |->
           [trace |-> template[k].trace, id |-> template[k].id, parent |-> template[k].parent,
            start |-> 0, end |-> 0]]]
      /\ UNCHANGED <<template, lastId, stripped, delays, immediate, deferred>>
  BY DEF CloneTraceBatch, At, After
<1>2. /\ SpanTreeInv /\ phase = "ready" /\ template = ToOTLP /\ lastId \in Nat
      /\ DOMAIN clone = Worker /\ DOMAIN stripped = Worker /\ DOMAIN delays = Worker
      /\ DOMAIN immediate = Worker /\ DOMAIN deferred = Worker
      /\ stepPc \in [Worker -> Steps] /\ DOMAIN template = 1..Len(tree) /\ WorkerInv(w)
  BY <1>1, Begun
<1>3. DOMAIN tree = 1..Len(tree)
  BY <1>2, ReadyTree
<1>4. Copied(w)'
  <2>1. \A k \in 1..Len(tree) : template[k].trace = NoId /\ template[k].id = k
    BY <1>2, <1>3, LoadedSpans
  <2>2. clone'[w] = [k \in 1..Len(tree) |->
          [trace |-> NoId, id |-> k, parent |-> ToOTLP[k].parent, start |-> 0, end |-> 0]]
    BY <1>1, <1>2, <2>1
  <2>3. ToOTLP' = ToOTLP /\ tree' = tree
    BY TreeStays
  <2>4. QED
    BY <2>2, <2>3 DEF Copied
<1>5. stepPc'[w] = "ids"
  BY <1>1, <1>2
<1>6. WorkerInv(w)'
  <2>1. stripped'[w] = <<>>
    BY <1>1, <1>2 DEF WorkerInv, Lists
  <2>2. QED
    BY <1>4, <1>5, <2>1 DEF WorkerInv, Lists, Renumbered, Delayed
<1>7. /\ DOMAIN clone' = Worker
      /\ \A v \in Worker \ {w} : clone'[v] = clone[v]
  BY <1>1, <1>2
<1>8. "ids" \in Steps /\ "ids" \notin Renumbered /\ lastId' \in Nat /\ lastId <= lastId'
  BY <1>1, <1>2 DEF Steps, Renumbered
<1>9. QED
  BY <1>1, <1>2, <1>6, <1>7, <1>8, OneWorker

\* Every span gets the ID of its place in a new range, and so does its parent, if it is one
\* of them.
LEMMA RegenerateStep ==
  ASSUME JourneyInv, NEW w \in Worker, RegenerateTraceIDs(w), UNCHANGED treeVars
  PROVE  JourneyInv'
<1> DEFINE n == Len(tree)
           spans == clone[w]
           idMap == [old \in {spans[k].id : k \in 1..Len(spans)} |->
                       lastId + 1 + Max({k \in 1..Len(spans) : spans[k].id = old})]
           new(k) == [spans[k] EXCEPT !.trace = lastId + 1,
                                      !.id = idMap[@],
                                      !.parent = IF @ = NoId THEN NoId ELSE NewParent(@, idMap)]
<1>1. /\ stepPc[w] = "ids" /\ stepPc' = [stepPc EXCEPT ![w] = "delays"]
      /\ clone' = [clone EXCEPT ![w] = [k \in 1..Len(spans) |-> new(k)]]
      /\ lastId' = lastId + 1 + Len(spans)
      /\ UNCHANGED <<template, stripped, delays, immediate, deferred>>
  BY DEF RegenerateTraceIDs, At, After
<1>2. /\ SpanTreeInv /\ phase = "ready" /\ template # <<>> /\ lastId \in Nat
      /\ DOMAIN clone = Worker /\ DOMAIN stripped = Worker /\ DOMAIN delays = Worker
      /\ DOMAIN immediate = Worker /\ DOMAIN deferred = Worker
      /\ stepPc \in [Worker -> Steps] /\ PhantomId <= lastId /\ Copied(w)
      /\ stripped[w] = <<>>
  BY <1>1, Begun DEF WorkerInv, Lists
<1>3. /\ n \in Nat \ {0} /\ DOMAIN tree = 1..n /\ 1 \in 1..n /\ PhantomId = n + 1
      /\ \A k \in 1..n : k # 1 => tree[k].parent \in 1..n /\ tree[k].parent # 0
  BY <1>2, ReadyTree
<1>4. /\ Len(spans) = n
      /\ \A k \in 1..n :
           spans[k] = [trace |-> NoId, id |-> k, parent |-> ToOTLP[k].parent, start |-> 0, end |-> 0]
  BY <1>2, <1>3 DEF Copied
<1>5. \A k \in 1..n : ToOTLP[k].parent = IF k = 1 THEN RootParent ELSE tree[k].parent
  BY <1>2, <1>3, LoadedSpans
<1>6. \A k \in 1..n : spans[k].id = k
  <2>1. ASSUME NEW k \in 1..n PROVE spans[k].id = k
    <3>1. spans[k] = [trace |-> NoId, id |-> k, parent |-> ToOTLP[k].parent, start |-> 0, end |-> 0]
      BY <1>4
    <3> HIDE DEF spans
    <3>2. QED
      BY <3>1
  <2>2. QED
    BY <2>1
<1> HIDE DEF spans
<1>7. DOMAIN idMap = 1..n /\ \A k \in 1..n : idMap[k] = lastId + 1 + k
  <2>1. {spans[k].id : k \in 1..Len(spans)} = 1..n
    BY <1>4, <1>6
  <2>2. ASSUME NEW old \in 1..n
        PROVE  Max({k \in 1..Len(spans) : spans[k].id = old}) = old
    <3>1. {k \in 1..Len(spans) : spans[k].id = old} = {old}
      BY <1>4, <1>6
    <3>2. QED
      BY <1>3, <3>1, MaxOfOne
  <2>3. QED
    BY <2>1, <2>2
<1> HIDE DEF idMap
<1>8. ASSUME NEW k \in 1..n
      PROVE  /\ new(k) = [trace |-> lastId + 1, id |-> lastId + 1 + k, parent |-> new(k).parent,
                          start |-> 0, end |-> 0]
             /\ new(k).parent = IF k = 1 THEN RootParent ELSE lastId + 1 + tree[k].parent
  <2> DEFINE p == ToOTLP[k].parent
  <2>1. ASSUME NEW q, NEW s, s = [trace |-> NoId, id |-> k, parent |-> q, start |-> 0, end |-> 0]
        PROVE  [s EXCEPT !.trace = lastId + 1, !.id = idMap[@],
                         !.parent = IF @ = NoId THEN NoId ELSE NewParent(@, idMap)]
               = [trace |-> lastId + 1, id |-> idMap[k],
                  parent |-> IF q = NoId THEN NoId ELSE NewParent(q, idMap),
                  start |-> 0, end |-> 0]
    <3> DEFINE a == lastId + 1
               i == idMap[k]
               x == IF q = NoId THEN NoId ELSE NewParent(q, idMap)
    <3> HIDE DEF a, i, x
    <3>1. [s EXCEPT !.trace = a, !.id = i, !.parent = x]
          = [trace |-> a, id |-> i, parent |-> x, start |-> 0, end |-> 0]
      <4> DEFINE u == [s EXCEPT !.trace = a]
                 v == [u EXCEPT !.id = i]
      <4>1. u = [trace |-> a, id |-> k, parent |-> q, start |-> 0, end |-> 0]
        BY <2>1
      <4>2. [v EXCEPT !.parent = x] = [s EXCEPT !.trace = a, !.id = i, !.parent = x]
        BY Zenon
      <4> HIDE DEF u
      <4>3. v = [trace |-> a, id |-> i, parent |-> q, start |-> 0, end |-> 0]
        BY <4>1
      <4> HIDE DEF v
      <4>4. [v EXCEPT !.parent = x] = [trace |-> a, id |-> i, parent |-> x, start |-> 0, end |-> 0]
        BY <4>3
      <4>5. QED
        BY <4>2, <4>4
    <3>2. s.id = k /\ s.parent = q
      BY <2>1
    <3>3. QED
      BY <3>1, <3>2, Zenon DEF a, i, x
  <2>2. new(k) = [trace |-> lastId + 1, id |-> idMap[k],
                  parent |-> IF p = NoId THEN NoId ELSE NewParent(p, idMap),
                  start |-> 0, end |-> 0]
    BY <1>4, <2>1
  <2>3. (IF p = NoId THEN NoId ELSE NewParent(p, idMap))
        = IF k = 1 THEN RootParent ELSE lastId + 1 + tree[k].parent
    <3>1. CASE k = 1
      <4>1. p = RootParent /\ n + 1 \notin 1..n /\ n + 1 # NoId
        BY <1>3, <1>5, <3>1 DEF NoId
      <4>2. QED
        BY <1>3, <1>7, <3>1, <4>1 DEF RootParent, NewParent
    <3>2. CASE k # 1
      <4>1. p = tree[k].parent /\ p \in 1..n /\ p # NoId
        BY <1>3, <1>5, <3>2 DEF NoId
      <4>2. QED
        BY <1>7, <3>2, <4>1 DEF NewParent
    <3>3. QED
      BY <3>1, <3>2
  <2>4. QED
    BY <1>7, <2>2, <2>3
<1> HIDE DEF new
<1>9. /\ DOMAIN clone'[w] = 1..n
      /\ \A k \in 1..n : clone'[w][k] = new(k)
      /\ DOMAIN clone' = Worker
      /\ \A v \in Worker \ {w} : clone'[v] = clone[v]
  BY <1>1, <1>2, <1>4 DEF spans
<1>10. Base(w)' = lastId + 1
  BY <1>3, <1>8, <1>9 DEF Base
<1>11. lastId' = lastId + 1 + n /\ lastId' \in Nat /\ lastId <= lastId' /\ lastId < lastId + 1
       /\ PhantomId < lastId + 1 /\ lastId + 1 \in Nat
  <2>1. lastId' = lastId + 1 + n
    BY <1>1, <1>4
  <2>2. QED
    BY <1>2, <1>3, <2>1
<1>12. tree' = tree /\ PhantomId' = PhantomId /\ RootParent' = RootParent
  BY TreeStays
<1>13. Pass(w)'
  <2>1. \A k \in 1..n :
          /\ IsSpan(clone'[w][k])
          /\ clone'[w][k].trace = lastId + 1 /\ clone'[w][k].id = lastId + 1 + k
          /\ clone'[w][k].parent = IF k = 1 THEN RootParent ELSE lastId + 1 + tree[k].parent
    BY <1>8, <1>9 DEF IsSpan
  <2>2. lastId + 1 + n <= lastId'
    BY <1>11
  <2>3. QED
    BY <1>3, <1>9, <1>10, <1>11, <1>12, <2>1, <2>2 DEF Pass, IsSpan
<1>14. stepPc'[w] = "delays"
  BY <1>1, <1>2
<1>15. WorkerInv(w)'
  BY <1>1, <1>2, <1>13, <1>14 DEF WorkerInv, Lists, Delayed
<1>16. "delays" \in Steps /\ lastId < Base(w)'
  BY <1>10, <1>11 DEF Steps
<1>17. QED
  BY <1>1, <1>2, <1>9, <1>11, <1>15, <1>16, OneWorker

\* The delays read are those of a late root.
LEMMA CaptureStep ==
  ASSUME JourneyInv, NEW w \in Worker, CaptureDelays(w), UNCHANGED treeVars
  PROVE  JourneyInv'
<1>1. /\ stepPc[w] = "delays" /\ stepPc' = [stepPc EXCEPT ![w] = "times"]
      /\ delays' = [delays EXCEPT ![w] =
           [k \in {j \in DOMAIN clone[w] : ExtractEmitDelayMs(w, j) > 0} |-> ExtractEmitDelayMs(w, k)]]
      /\ UNCHANGED <<template, lastId, clone, stripped, immediate, deferred>>
  BY DEF CaptureDelays, At, After
<1>2. /\ SpanTreeInv /\ phase = "ready" /\ template # <<>> /\ template = ToOTLP /\ lastId \in Nat
      /\ DOMAIN clone = Worker /\ DOMAIN stripped = Worker /\ DOMAIN delays = Worker
      /\ DOMAIN immediate = Worker /\ DOMAIN deferred = Worker
      /\ stepPc \in [Worker -> Steps] /\ DOMAIN clone[w] = DOMAIN tree /\ Pass(w)
      /\ stripped[w] = <<>>
  BY <1>1, Begun DEF WorkerInv, Lists, Renumbered, Pass
<1>3. LateSpans \subseteq DOMAIN tree
  BY <1>2, ReadyTree DEF LateSpans
<1>4. \A k \in DOMAIN tree : ExtractEmitDelayMs(w, k) = IF k \in LateSpans THEN DelayMs ELSE 0
  BY <1>2, SharedLists DEF ExtractEmitDelayMs
<1>5. delays'[w] = [k \in LateSpans |-> DelayMs]
  <2>1. {j \in DOMAIN clone[w] : ExtractEmitDelayMs(w, j) > 0} = LateSpans
    BY <1>2, <1>3, <1>4, DelayAssumption
  <2>2. delays'[w] = [k \in LateSpans |-> ExtractEmitDelayMs(w, k)]
    BY <1>1, <1>2, <2>1
  <2>3. QED
    BY <1>3, <1>4, <2>2
<1>6. tree' = tree /\ PhantomId' = PhantomId /\ RootParent' = RootParent /\ LateSpans' = LateSpans
  BY TreeStays
<1>7. Base(w)' = Base(w) /\ Pass(w)'
  BY <1>1, <1>2, <1>6 DEF Base, Pass, IsSpan
<1>8. stepPc'[w] = "times"
  BY <1>1, <1>2
<1>9. WorkerInv(w)'
  BY <1>1, <1>2, <1>5, <1>6, <1>7, <1>8 DEF WorkerInv, Lists
<1>10. DOMAIN delays' = Worker /\ \A v \in Worker \ {w} : delays'[v] = delays[v]
  BY <1>1, <1>2
<1>11. "times" \in Steps /\ stepPc[w] \in Renumbered /\ lastId' \in Nat /\ lastId <= lastId'
  BY <1>1, <1>2 DEF Steps, Renumbered
<1>12. QED
  BY <1>1, <1>2, <1>7, <1>9, <1>10, <1>11, OneWorker

\* The times change nothing of the IDs.
LEMMA InjectStep ==
  ASSUME JourneyInv, NEW w \in Worker, InjectSpanTimestamps(w), UNCHANGED treeVars
  PROVE  JourneyInv'
<1>1. PICK jitter \in [DOMAIN clone[w] -> Jitter] :
        clone' = [clone EXCEPT ![w] = Stamped(w, jitter)]
  BY DEF InjectSpanTimestamps
<1>2. /\ stepPc[w] = "times" /\ stepPc' = [stepPc EXCEPT ![w] = "split"]
      /\ stripped' = [stripped EXCEPT ![w] =
           [k \in DOMAIN clone[w] |-> RemoveTemplateAttributes(AttributesOf(w, k))]]
      /\ UNCHANGED <<template, lastId, delays, immediate, deferred>>
  BY DEF InjectSpanTimestamps, At, After
<1>3. /\ SpanTreeInv /\ phase = "ready" /\ template # <<>> /\ template = ToOTLP /\ lastId \in Nat
      /\ DOMAIN clone = Worker /\ DOMAIN stripped = Worker /\ DOMAIN delays = Worker
      /\ DOMAIN immediate = Worker /\ DOMAIN deferred = Worker
      /\ stepPc \in [Worker -> Steps] /\ DOMAIN clone[w] = DOMAIN tree /\ Pass(w)
      /\ delays[w] = [k \in LateSpans |-> DelayMs] /\ stripped[w] = <<>>
  BY <1>2, Begun DEF WorkerInv, Lists, Renumbered, Delayed, Pass
<1>4. clone'[w] = Stamped(w, jitter) /\ DOMAIN clone' = Worker
      /\ \A v \in Worker \ {w} : clone'[v] = clone[v]
  BY <1>1, <1>3
<1>5. /\ DOMAIN clone'[w] = DOMAIN tree
      /\ \A k \in DOMAIN tree :
           /\ IsSpan(clone'[w][k])
           /\ clone'[w][k].trace = clone[w][k].trace /\ clone'[w][k].id = clone[w][k].id
           /\ clone'[w][k].parent = clone[w][k].parent
  <2>1. DOMAIN clone'[w] = DOMAIN tree
    BY <1>3, <1>4 DEF Stamped
  <2>2. ASSUME NEW k \in DOMAIN tree
        PROVE  /\ IsSpan(clone'[w][k])
               /\ clone'[w][k].trace = clone[w][k].trace /\ clone'[w][k].id = clone[w][k].id
               /\ clone'[w][k].parent = clone[w][k].parent
    <3> DEFINE a == (Now - Max({SpanDuration(w, j) : j \in DOMAIN clone[w]})) + NumberOf(w, k, "offset") + jitter[k]
               b == a + SpanDuration(w, k)
    <3>1. clone'[w][k] = [clone[w][k] EXCEPT !.start = a, !.end = b]
      BY <1>3, <1>4 DEF Stamped
    <3> HIDE DEF a, b
    <3>2. IsSpan(clone[w][k])
      BY <1>3 DEF Pass
    <3>3. QED
      BY <3>1, <3>2 DEF IsSpan
  <2>3. QED
    BY <2>1, <2>2
<1>6. tree' = tree /\ PhantomId' = PhantomId /\ RootParent' = RootParent /\ LateSpans' = LateSpans
  BY TreeStays
<1>7. Base(w)' = Base(w)
  BY <1>3, <1>5, ReadyTree DEF Base
<1>8. Pass(w)'
  BY <1>2, <1>3, <1>5, <1>6, <1>7 DEF Pass, IsSpan
<1>9. stepPc'[w] = "split"
  BY <1>2, <1>3
<1>10. delays'[w] = [k \in LateSpans |-> DelayMs]
  BY <1>2, <1>3
<1>11. Timed(w)'
  <2> DEFINE longest == Max({SpanDuration(w, k) : k \in DOMAIN clone[w]})
             first == Now - longest
  <2>1. longest \in Nat /\ \A k \in DOMAIN tree : tree[k].duration <= longest
    BY <1>3, LongestSpan
  <2>2. \A k \in DOMAIN tree : /\ SpanDuration(w, k) = tree[k].duration /\ NumberOf(w, k, "offset") = 0
                               /\ tree[k].duration \in Nat
    BY <1>3, LoadedTimes
  <2>3. \A k \in DOMAIN tree :
          /\ clone'[w][k].start = first + NumberOf(w, k, "offset") + jitter[k]
          /\ clone'[w][k].end = first + NumberOf(w, k, "offset") + jitter[k] + SpanDuration(w, k)
    <3>1. ASSUME NEW k \in DOMAIN tree
          PROVE  /\ clone'[w][k].start = first + NumberOf(w, k, "offset") + jitter[k]
                 /\ clone'[w][k].end = first + NumberOf(w, k, "offset") + jitter[k] + SpanDuration(w, k)
      <4> DEFINE a == first + NumberOf(w, k, "offset") + jitter[k]
                 b == a + SpanDuration(w, k)
      <4>1. clone'[w][k] = [clone[w][k] EXCEPT !.start = a, !.end = b]
        BY <1>3, <1>4 DEF Stamped
      <4>2. IsSpan(clone[w][k])
        BY <1>3 DEF Pass
      <4> HIDE DEF a, b
      <4>3. clone'[w][k].start = a /\ clone'[w][k].end = b
        BY <4>1, <4>2 DEF IsSpan
      <4>4. QED
        BY <4>3 DEF a, b
    <3>2. QED
      BY <3>1
  <2> HIDE DEF longest
  <2>4. first \in Int /\ \A k \in DOMAIN tree : first + tree[k].duration <= Now
    BY <2>1, <2>2, TransformAssumption
  <2> HIDE DEF first
  <2>5. \A k \in DOMAIN tree : jitter[k] \in Nat
    BY <1>3, TransformAssumption
  <2>6. \A k \in DOMAIN tree :
          /\ clone'[w][k].start = first + jitter[k]
          /\ clone'[w][k].end = first + jitter[k] + tree[k].duration
    BY <2>2, <2>3, <2>4, <2>5
  <2>7. jitter \in [DOMAIN tree -> Jitter]
    BY <1>3
  <2>8. PICK z : z = first
    OBVIOUS
  <2>9. /\ z \in Int
        /\ \A k \in DOMAIN tree :
             /\ clone'[w][k].start = z + jitter[k]
             /\ clone'[w][k].end = z + jitter[k] + tree[k].duration
             /\ z + tree[k].duration <= Now
    BY <2>4, <2>6, <2>8
  <2>10. QED
    BY <1>6, <2>7, <2>9 DEF Timed
<1>12. WorkerInv(w)'
  <2>1. stripped'[w] = [k \in DOMAIN tree |-> Bare(k)]
    BY <1>2, <1>3, SharedLists
  <2>2. Lists(w)'
    BY <1>6, <1>9, <2>1 DEF Lists, Bare
  <2>3. QED
    BY <1>6, <1>8, <1>9, <1>10, <1>11, <2>2 DEF WorkerInv
<1>13. "split" \in Steps /\ stepPc[w] \in Renumbered /\ lastId' \in Nat /\ lastId <= lastId'
  BY <1>2, <1>3 DEF Steps, Renumbered
<1>14. DOMAIN stripped' = Worker /\ \A v \in Worker \ {w} : stripped'[v] = stripped[v]
  BY <1>2, <1>3
<1>15. QED
  BY <1>2, <1>3, <1>4, <1>7, <1>12, <1>13, <1>14, OneWorker

\* What is held back is the root of a late trace.
LEMMA PartitionStep ==
  ASSUME JourneyInv, NEW w \in Worker, Partition(w), UNCHANGED treeVars
  PROVE  JourneyInv'
<1>1. /\ stepPc[w] = "split" /\ stepPc' = [stepPc EXCEPT ![w] = "done"]
      /\ immediate' = [immediate EXCEPT ![w] = DOMAIN clone[w] \ DOMAIN delays[w]]
      /\ deferred' = [deferred EXCEPT ![w] =
           {[delay |-> d, spans |-> {k \in DOMAIN delays[w] : delays[w][k] = d}] :
              d \in {delays[w][k] : k \in DOMAIN delays[w]}}]
      /\ UNCHANGED <<template, lastId, clone, stripped, delays>>
  BY DEF Partition, At, After
<1>2. /\ SpanTreeInv /\ phase = "ready" /\ template # <<>> /\ lastId \in Nat
      /\ DOMAIN clone = Worker /\ DOMAIN stripped = Worker /\ DOMAIN delays = Worker
      /\ DOMAIN immediate = Worker /\ DOMAIN deferred = Worker
      /\ stepPc \in [Worker -> Steps] /\ Pass(w) /\ Timed(w)
      /\ delays[w] = [k \in LateSpans |-> DelayMs] /\ stripped[w] = [k \in DOMAIN tree |-> Bare(k)]
  BY <1>1, Begun DEF WorkerInv, Lists, Renumbered, Delayed
<1>3. DOMAIN delays[w] = LateSpans /\ DOMAIN clone[w] = DOMAIN tree
  BY <1>2 DEF Pass
<1>4. immediate'[w] = DOMAIN tree \ LateSpans
  BY <1>1, <1>2, <1>3
<1>5. deferred'[w] = IF late THEN {[delay |-> DelayMs, spans |-> {1}]} ELSE {}
  <2>1. deferred'[w] = {[delay |-> d, spans |-> {k \in LateSpans : delays[w][k] = d}] :
                          d \in {delays[w][k] : k \in LateSpans}}
    BY <1>1, <1>2, <1>3
  <2>2. CASE late
    <3>1. LateSpans = {1} /\ delays[w][1] = DelayMs
      BY <1>2, <2>2 DEF LateSpans
    <3>2. {delays[w][k] : k \in LateSpans} = {DelayMs}
      BY <3>1
    <3>3. {k \in LateSpans : delays[w][k] = DelayMs} = {1}
      BY <3>1
    <3>4. deferred'[w] = {[delay |-> d, spans |-> {k \in LateSpans : delays[w][k] = d}] : d \in {DelayMs}}
      BY <2>1, <3>2
    <3>5. deferred'[w] = {[delay |-> DelayMs, spans |-> {1}]}
      BY <3>3, <3>4
    <3>6. QED
      BY <2>2, <3>5
  <2>3. CASE ~late
    BY <2>1, <2>3 DEF LateSpans
  <2>4. QED
    BY <2>2, <2>3
<1>6. /\ tree' = tree /\ late' = late /\ PhantomId' = PhantomId /\ RootParent' = RootParent
      /\ LateSpans' = LateSpans
  BY TreeStays
<1>7. Base(w)' = Base(w) /\ Pass(w)'
  BY <1>1, <1>2, <1>6 DEF Base, Pass, IsSpan
<1>8. Timed(w)'
  BY <1>1, <1>2, <1>6 DEF Timed
<1>9. stepPc'[w] = "done" /\ delays'[w] = [k \in LateSpans |-> DelayMs]
  BY <1>1, <1>2
<1>10. WorkerInv(w)'
  <2>1. Lists(w)'
    BY <1>1, <1>2, <1>6, <1>9 DEF Lists, Bare
  <2>2. QED
    BY <1>4, <1>5, <1>6, <1>7, <1>8, <1>9, <2>1 DEF WorkerInv
<1>11. /\ DOMAIN immediate' = Worker /\ DOMAIN deferred' = Worker
       /\ \A v \in Worker \ {w} : immediate'[v] = immediate[v] /\ deferred'[v] = deferred[v]
  BY <1>1, <1>2
<1>12. "done" \in Steps /\ stepPc[w] \in Renumbered /\ lastId' \in Nat /\ lastId <= lastId'
  BY <1>1, <1>2 DEF Steps, Renumbered
<1>13. QED
  BY <1>1, <1>2, <1>7, <1>10, <1>11, <1>12, OneWorker

\* No step at all.
LEMMA NoStep == JourneyInv /\ UNCHANGED vars => JourneyInv'
<1> SUFFICES ASSUME JourneyInv, UNCHANGED vars PROVE JourneyInv'
  OBVIOUS
<1>1. /\ UNCHANGED treeVars
      /\ UNCHANGED <<template, lastId, stepPc, clone, stripped, delays, immediate, deferred>>
  BY DEF vars, transformVars
<1>2. SpanTreeInv'
  BY <1>1, NoTreeStep DEF JourneyInv
<1>3. /\ UNCHANGED <<phase, tree, phantom, late>> /\ ToOTLP' = ToOTLP /\ PhantomId' = PhantomId
      /\ RootParent' = RootParent /\ LateSpans' = LateSpans
  BY <1>1, TreeStays
<1>4. LoadedInv'
  BY <1>1, <1>3 DEF JourneyInv, LoadedInv
<1>5. \A w \in Worker : Base(w)' = Base(w)
  BY <1>1 DEF Base
<1>6. ASSUME NEW w \in Worker PROVE WorkerInv(w)'
  <2>1. WorkerInv(w)
    BY DEF JourneyInv
  <2>2. (Copied(w) => Copied(w)') /\ (Pass(w) => Pass(w)')
    BY <1>1, <1>3, <1>5 DEF Copied, Pass, IsSpan
  <2>3. (Timed(w) => Timed(w)') /\ (Lists(w) => Lists(w)')
    BY <1>1, <1>3 DEF Timed, Lists, Bare
  <2>4. QED
    BY <1>1, <1>3, <2>1, <2>2, <2>3 DEF WorkerInv
<1>7. \A v, w \in Worker : v # w => Apart(v, w)'
  BY <1>1, <1>3, <1>5 DEF JourneyInv, Apart
<1>8. QED
  BY <1>2, <1>4, <1>6, <1>7 DEF JourneyInv

--------------------------------------------------------------------------------
(* The results *)

\* The invariant of the journey: the tree, the template and what each worker has made of it.
THEOREM Invariance == Spec => []JourneyInv
<1>1. JourneyInv /\ [Next]_vars => JourneyInv'
  <2> SUFFICES ASSUME JourneyInv, [Next]_vars PROVE JourneyInv'
    OBVIOUS
  <2>1. CASE SpanTreeNext /\ UNCHANGED transformVars
    BY <2>1, GeneratorStep
  <2>2. CASE WriteAndLoad
    BY <2>2, WriteAndLoadStep
  <2>3. CASE \E w \in Worker : TransformStep(w) /\ UNCHANGED treeVars
    <3>1. PICK w \in Worker : TransformStep(w) /\ UNCHANGED treeVars
      BY <2>3
    <3>2. QED
      BY <3>1, CloneStep, RegenerateStep, CaptureStep, InjectStep, PartitionStep
         DEF TransformStep
  <2>4. CASE UNCHANGED vars
    BY <2>4, NoStep
  <2>5. QED
    BY <2>1, <2>2, <2>3, <2>4 DEF Next, Finished
<1>2. QED
  BY InitJourney, <1>1, PTL DEF Spec

\* No trace has more spans than asked for, and one has fewer only if its last branch ran
\* into the depth limit (BudgetSpent).
THEOREM BudgetKept == Spec => []BudgetSpent
<1>1. JourneyInv => BudgetSpent
  BY Budget DEF JourneyInv
<1>2. QED
  BY <1>1, Invariance, PTL

\* A trace stays within one fan-out per level of its entry point (ServiceWindow).
THEOREM WindowKept == Spec => []ServiceWindow
<1>1. JourneyInv => ServiceWindow
  BY DEF JourneyInv, SpanTreeInv
<1>2. QED
  BY <1>1, Invariance, PTL

\* Every pass of every worker emits the tree that was generated, under IDs that no other
\* pass has, each span with the attributes it was generated with (TreePreserved).
THEOREM TreeArrives == Spec => []TreePreserved
<1>1. ASSUME JourneyInv PROVE TreePreserved
  <2> DEFINE n == Len(tree)
  <2>1. SUFFICES ASSUME NEW w \in Worker, stepPc[w] = "done"
        PROVE  /\ \A j, k \in DOMAIN tree :
                    /\ clone[w][j].trace = clone[w][k].trace
                    /\ j # k => clone[w][j].id # clone[w][k].id
                    /\ clone[w][k].parent = clone[w][j].id <=> tree[k].parent = j
               /\ \A k \in DOMAIN tree : AttributesOf(w, k) = [service |-> tree[k].service]
               /\ phantom <=> clone[w][1].parent # NoId
               /\ \A v \in Done \ {w} : Ids(v) \cap Ids(w) = {}
               /\ \A v \in Done : clone[w][1].parent \notin Ids(v)
    BY DEF TreePreserved, Done
  <2>2. SpanTreeInv /\ phase = "ready"
    BY <1>1, <2>1, Begun
  <2>3. /\ n \in Nat \ {0} /\ DOMAIN tree = 1..n /\ 1 \in 1..n /\ tree[1].parent = 0
        /\ PhantomId = n + 1
        /\ \A k \in 1..n : k # 1 => tree[k].parent \in 1..n
    BY <2>2, ReadyTree
  <2>4. ASSUME NEW v \in Worker, stepPc[v] = "done"
        PROVE  /\ Base(v) \in Nat /\ n + 1 < Base(v)
               /\ \A k \in 1..n :
                    /\ clone[v][k].trace = Base(v) /\ clone[v][k].id = Base(v) + k
                    /\ clone[v][k].parent =
                         IF k = 1 THEN RootParent ELSE Base(v) + tree[k].parent
               /\ Ids(v) \subseteq Base(v)..(Base(v) + n)
    <3>1. Pass(v)
      BY <1>1, <2>4 DEF JourneyInv, WorkerInv, Renumbered
    <3>2. /\ Base(v) \in Nat /\ n + 1 < Base(v)
          /\ \A k \in 1..n :
               /\ clone[v][k].trace = Base(v) /\ clone[v][k].id = Base(v) + k
               /\ clone[v][k].parent = IF k = 1 THEN RootParent ELSE Base(v) + tree[k].parent
      BY <2>3, <3>1 DEF Pass
    <3>3. Ids(v) = {Base(v) + k : k \in 1..n} \cup {Base(v)}
      BY <2>3, <3>2 DEF Ids
    <3> HIDE DEF n
    <3>4. QED
      BY <2>3, <3>2, <3>3
  <2> HIDE DEF n
  <2>5. RootParent \in 0..(n + 1) /\ (phantom <=> RootParent # 0)
    <3>1. phantom => RootParent = n + 1
      BY <2>3 DEF RootParent
    <3>2. ~phantom => RootParent = 0
      BY DEF RootParent, NoId
    <3>3. QED
      BY <2>3, <3>1, <3>2
  <2>6. ASSUME NEW j \in 1..n, NEW k \in 1..n
        PROVE  /\ clone[w][j].trace = clone[w][k].trace
               /\ j # k => clone[w][j].id # clone[w][k].id
               /\ clone[w][k].parent = clone[w][j].id <=> tree[k].parent = j
    <3>1. /\ Base(w) \in Nat /\ n + 1 < Base(w)
          /\ clone[w][j].trace = Base(w) /\ clone[w][k].trace = Base(w)
          /\ clone[w][j].id = Base(w) + j /\ clone[w][k].id = Base(w) + k
          /\ clone[w][k].parent = IF k = 1 THEN RootParent ELSE Base(w) + tree[k].parent
      BY <2>1, <2>4
    <3>2. CASE k = 1
      BY <2>3, <2>5, <3>1, <3>2
    <3>3. CASE k # 1
      BY <2>3, <3>1, <3>3
    <3>4. QED
      BY <3>2, <3>3
  <2>7. clone[w][1].parent = RootParent
    BY <2>1, <2>3, <2>4
  <2>8. ASSUME NEW v \in Done \ {w} PROVE Ids(v) \cap Ids(w) = {}
    <3>1. v \in Worker /\ stepPc[v] = "done" /\ v # w
      BY <2>8 DEF Done
    <3>2. Base(v) + n < Base(w) \/ Base(w) + n < Base(v)
      BY <1>1, <2>1, <3>1 DEF JourneyInv, Apart, Renumbered, n
    <3>3. /\ Base(v) \in Nat /\ Ids(v) \subseteq Base(v)..(Base(v) + n)
          /\ Base(w) \in Nat /\ Ids(w) \subseteq Base(w)..(Base(w) + n)
      BY <2>1, <2>4, <3>1
    <3>4. (Base(v)..(Base(v) + n)) \cap (Base(w)..(Base(w) + n)) = {}
      BY <2>3, <3>2, <3>3
    <3>5. QED
      BY <3>3, <3>4
  <2>9. ASSUME NEW v \in Done PROVE RootParent \notin Ids(v)
    <3>1. v \in Worker /\ stepPc[v] = "done"
      BY DEF Done
    <3>2. Base(v) \in Nat /\ n + 1 < Base(v) /\ Ids(v) \subseteq Base(v)..(Base(v) + n)
      BY <2>4, <3>1
    <3>3. RootParent \notin Base(v)..(Base(v) + n)
      BY <2>3, <2>5, <3>2
    <3>4. QED
      BY <3>2, <3>3
  <2>10. ASSUME NEW k \in DOMAIN tree PROVE AttributesOf(w, k) = [service |-> tree[k].service]
    <3>1. stripped[w] = [j \in DOMAIN tree |-> Bare(j)]
      BY <1>1, <2>1 DEF JourneyInv, WorkerInv, Lists
    <3>2. AttributesOf(w, k) = Bare(k)
      BY <3>1 DEF AttributesOf
    <3>3. QED
      BY <3>2 DEF Bare
  <2>11. QED
    BY <2>3, <2>5, <2>6, <2>7, <2>8, <2>9, <2>10 DEF NoId
<1>2. JourneyInv => TreePreserved
  BY <1>1
<1>3. QED
  BY <1>2, Invariance, PTL

\* Every pass holds back the root of a late trace and nothing else (OnlyLateRootDeferred).
THEOREM LateRootHeldBack == Spec => []OnlyLateRootDeferred
<1>1. ASSUME JourneyInv PROVE OnlyLateRootDeferred
  <2>1. SUFFICES ASSUME NEW w \in Worker, stepPc[w] = "done"
        PROVE  /\ deferred[w] = IF late THEN {[delay |-> DelayMs, spans |-> {1}]} ELSE {}
               /\ immediate[w] = DOMAIN tree \ UNION {d.spans : d \in deferred[w]}
    BY DEF OnlyLateRootDeferred, Done
  <2>2. /\ deferred[w] = IF late THEN {[delay |-> DelayMs, spans |-> {1}]} ELSE {}
        /\ immediate[w] = DOMAIN tree \ LateSpans
    BY <1>1, <2>1 DEF JourneyInv, WorkerInv
  <2>3. UNION {d.spans : d \in deferred[w]} = LateSpans
    <3>1. CASE late
      <4>1. deferred[w] = {[delay |-> DelayMs, spans |-> {1}]}
        BY <2>2, <3>1
      <4>2. {d.spans : d \in deferred[w]} = {{1}}
        BY <4>1
      <4>3. QED
        BY <3>1, <4>2 DEF LateSpans
    <3>2. CASE ~late
      BY <2>2, <3>2 DEF LateSpans
    <3>3. QED
      BY <3>1, <3>2
  <2>4. QED
    BY <2>2, <2>3
<1>2. JourneyInv => OnlyLateRootDeferred
  BY <1>1
<1>3. QED
  BY <1>2, Invariance, PTL

\* Up to the jitter, a span lies within its parent in every pass, lasts as long as the
\* generator said, and does not end in the future (TimingKept).
THEOREM RelativeTimingKept == Spec => []TimingKept
<1>1. ASSUME JourneyInv PROVE TimingKept
  <2> DEFINE J == Max(Jitter)
  <2>1. J \in Nat /\ \A j \in Jitter : j \in Nat /\ j <= J
    <3>1. \E most \in Jitter : \A j \in Jitter : most >= j
      BY TransformAssumption
    <3>2. QED
      BY <3>1, TransformAssumption DEF Max
  <2> HIDE DEF J
  <2>2. SUFFICES ASSUME NEW w \in Worker, stepPc[w] = "done", NEW k \in DOMAIN tree
        PROVE  /\ clone[w][k].end - clone[w][k].start = tree[k].duration
               /\ clone[w][k].end <= Now + J
               /\ k > 1 => LET p == tree[k].parent
                           IN  /\ clone[w][p].start <= clone[w][k].start + J
                               /\ clone[w][k].end <= clone[w][p].end + J
    BY DEF TimingKept, Done, J
  <2>3. SpanTreeInv /\ phase = "ready" /\ WorkerInv(w)
    BY <1>1, <2>2, Begun
  <2>4. PICK first \in Int, jitter \in [DOMAIN tree -> Jitter] :
          \A i \in DOMAIN tree :
            /\ clone[w][i].start = first + jitter[i]
            /\ clone[w][i].end = first + jitter[i] + tree[i].duration
            /\ first + tree[i].duration <= Now
    BY <2>2, <2>3 DEF WorkerInv, Timed
  <2>5. \A i \in DOMAIN tree : tree[i].duration \in Nat /\ jitter[i] \in Nat /\ jitter[i] <= J
    BY <2>1, <2>3, <2>4 DEF SpanTreeInv, TimesInv
  <2>6. Now \in Nat
    BY TransformAssumption
  <2>7. clone[w][k].end - clone[w][k].start = tree[k].duration /\ clone[w][k].end <= Now + J
    BY <2>1, <2>2, <2>4, <2>5, <2>6
  <2>8. ASSUME k > 1
        PROVE  /\ clone[w][tree[k].parent].start <= clone[w][k].start + J
               /\ clone[w][k].end <= clone[w][tree[k].parent].end + J
    <3> DEFINE p == tree[k].parent
    <3>1. p \in DOMAIN tree /\ tree[k].duration <= tree[p].duration
      <4>1. k # 1
        BY <2>8
      <4>2. QED
        BY <2>2, <2>3, <4>1, ReadyTree DEF SpanTreeInv, TimesInv
    <3> HIDE DEF p
    <3>2. clone[w][p].start <= clone[w][k].start + J /\ clone[w][k].end <= clone[w][p].end + J
      BY <2>1, <2>2, <2>4, <2>5, <3>1
    <3>3. QED
      BY <3>2 DEF p
  <2>9. QED
    BY <2>7, <2>8
<1>2. JourneyInv => TimingKept
  BY <1>1
<1>3. QED
  BY <1>2, Invariance, PTL
================================================================================
