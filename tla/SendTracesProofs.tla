---------------------------- MODULE SendTracesProofs ----------------------------
(***************************************************************************)
(* Proofs about SendTraces, for any templates, any input and any limits:   *)
(* everything the runs check about a pass.  The inductive invariant        *)
(* SendInv is built in layers: where the pass is and what the batch holds  *)
(* (PassInv), the requests exported (RequestsInv, DeliveryInv), the late   *)
(* spans handed over (HandedInv), and why each request ended (CutInv).     *)
(***************************************************************************)
EXTENDS SendTraces, FiniteSetTheorems, TLAPS

IsInput == traces \in Seq(Template)

--------------------------------------------------------------------------------
(* Spans *)

\* The scopes of a trace.
LEMMA ScopesType ==
  ASSUME IsInput, NEW t \in DOMAIN traces
  PROVE  /\ traces[t].scopes \in Seq(Nat) /\ DOMAIN traces[t].scopes = 1..Len(traces[t].scopes)
         /\ \A s \in DOMAIN traces[t].scopes : traces[t].scopes[s] \in Nat
<1>1. traces[t] \in Template
  BY DEF IsInput
<1>2. traces[t].scopes \in Seq(Nat)
  BY <1>1, BatchAssumption
<1>3. QED
  BY <1>2

\* A span belongs to the trace and the scope it names.
LEMMA SpanOf ==
  ASSUME NEW t, NEW sp \in ImmediateSpans(t)
  PROVE  /\ sp[1] = t /\ sp[2] \in DOMAIN traces[t].scopes /\ sp[3] \in 1..traces[t].scopes[sp[2]]
         /\ sp = <<sp[1], sp[2], sp[3]>>
<1>1. PICK s \in DOMAIN traces[t].scopes : sp \in {t} \X {s} \X (1..traces[t].scopes[s])
  BY DEF ImmediateSpans, ScopeSpans
<1>2. QED
  BY <1>1

\* The spans of some traces are those that name one of them.
LEMMA InSpansOf ==
  ASSUME NEW T, NEW sp
  PROVE  sp \in SpansOf(T) <=> sp[1] \in T /\ sp \in ImmediateSpans(sp[1])
<1>1. ASSUME sp \in SpansOf(T) PROVE sp[1] \in T /\ sp \in ImmediateSpans(sp[1])
  <2>1. PICK t \in T : sp \in ImmediateSpans(t)
    BY <1>1 DEF SpansOf
  <2>2. QED
    BY <2>1, SpanOf
<1>2. ASSUME sp[1] \in T, sp \in ImmediateSpans(sp[1]) PROVE sp \in SpansOf(T)
  BY <1>2 DEF SpansOf
<1>3. QED
  BY <1>1, <1>2

\* A scope has as many spans as its template says.
LEMMA ScopeSpansCount ==
  ASSUME IsInput, NEW t \in DOMAIN traces, NEW s \in DOMAIN traces[t].scopes
  PROVE  /\ IsFiniteSet(ScopeSpans(t, s))
         /\ Cardinality(ScopeSpans(t, s)) = traces[t].scopes[s]
<1> DEFINE n == traces[t].scopes[s]
<1>1. n \in Nat
  BY ScopesType
<1>2. IsFiniteSet(1..n) /\ Cardinality(1..n) = n
  BY <1>1, FS_Interval
<1>3. ScopeSpans(t, s) = {<<t, s, k>> : k \in 1..n}
  BY DEF ScopeSpans
<1> DEFINE f == [k \in 1..n |-> <<t, s, k>>]
<1>4. f \in Bijection(1..n, ScopeSpans(t, s))
  BY <1>3 DEF Bijection, Injection, Surjection, IsInjective
<1>5. QED
  BY <1>2, <1>4, FS_Bijection DEF ExistsBijection

\* A trace has finitely many spans, and no scope has more.
LEMMA SpansFinite ==
  ASSUME IsInput, NEW t \in DOMAIN traces
  PROVE  /\ IsFiniteSet(ImmediateSpans(t)) /\ Cardinality(ImmediateSpans(t)) \in Nat
         /\ \A s \in DOMAIN traces[t].scopes :
              traces[t].scopes[s] <= Cardinality(ImmediateSpans(t))
<1> DEFINE Scopes == DOMAIN traces[t].scopes
<1>1. IsFiniteSet(Scopes)
  <2>1. traces[t].scopes \in Seq(Nat)
    BY ScopesType
  <2>2. Scopes = 1..Len(traces[t].scopes) /\ Len(traces[t].scopes) \in Nat
    BY <2>1
  <2>3. QED
    BY <2>2, FS_Interval
<1>2. IsFiniteSet({ScopeSpans(t, s) : s \in Scopes})
  <2> DEFINE f == [s \in Scopes |-> ScopeSpans(t, s)]
  <2>1. f \in Surjection(Scopes, {ScopeSpans(t, s) : s \in Scopes})
    BY DEF Surjection
  <2>2. QED
    BY <1>1, <2>1, FS_Surjection
<1>3. IsFiniteSet(ImmediateSpans(t))
  BY <1>2, ScopeSpansCount, FS_UNION DEF ImmediateSpans
<1>4. ASSUME NEW s \in Scopes PROVE traces[t].scopes[s] <= Cardinality(ImmediateSpans(t))
  <2>1. ScopeSpans(t, s) \subseteq ImmediateSpans(t)
    BY DEF ImmediateSpans
  <2>2. QED
    BY <1>3, <2>1, ScopeSpansCount, FS_Subset
<1>5. QED
  BY <1>3, <1>4, FS_CardinalityType

\* So have some traces of the input, whose spans name all of them that have any.
LEMMA SpansOfFinite ==
  ASSUME IsInput, NEW T \in SUBSET DOMAIN traces
  PROVE  /\ IsFiniteSet(T) /\ Cardinality(T) \in Nat
         /\ IsFiniteSet(SpansOf(T)) /\ Cardinality(SpansOf(T)) \in Nat
<1>1. DOMAIN traces = 1..Len(traces) /\ Len(traces) \in Nat
  BY DEF IsInput
<1>2. IsFiniteSet(T)
  <2>1. IsFiniteSet(DOMAIN traces)
    BY <1>1, FS_Interval
  <2>2. QED
    BY <2>1, FS_Subset
<1>3. IsFiniteSet({ImmediateSpans(t) : t \in T})
  <2> DEFINE f == [t \in T |-> ImmediateSpans(t)]
  <2>1. f \in Surjection(T, {ImmediateSpans(t) : t \in T})
    BY DEF Surjection
  <2>2. QED
    BY <1>2, <2>1, FS_Surjection
<1>4. IsFiniteSet(SpansOf(T))
  BY <1>3, SpansFinite, FS_UNION DEF SpansOf
<1>5. QED
  BY <1>2, <1>4, FS_CardinalityType

\* If each of some traces has an immediate span, their spans name exactly them.
LEMMA TracesOfSpans ==
  ASSUME NEW T, \A t \in T : ImmediateSpans(t) # {}
  PROVE  TracesIn(SpansOf(T)) = T
<1>1. ASSUME NEW t \in T PROVE t \in TracesIn(SpansOf(T))
  <2>1. PICK sp : sp \in ImmediateSpans(t)
    OBVIOUS
  <2>2. sp[1] = t /\ sp \in SpansOf(T)
    BY <2>1, SpanOf DEF SpansOf
  <2>3. QED
    BY <2>2 DEF TracesIn
<1>2. QED
  BY <1>1, InSpansOf DEF TracesIn

\* One trace more.
LEMMA SpansOfOneMore ==
  ASSUME IsInput, NEW T \in SUBSET DOMAIN traces, NEW t \in DOMAIN traces, t \notin T
  PROVE  /\ SpansOf(T \cup {t}) = SpansOf(T) \cup ImmediateSpans(t)
         /\ Cardinality(SpansOf(T \cup {t}))
              = Cardinality(SpansOf(T)) + Cardinality(ImmediateSpans(t))
         /\ Cardinality(T \cup {t}) = Cardinality(T) + 1
<1>1. SpansOf(T \cup {t}) = SpansOf(T) \cup ImmediateSpans(t)
  BY DEF SpansOf
<1>2. SpansOf(T) \cap ImmediateSpans(t) = {}
  BY SpanOf, InSpansOf
<1>3. Cardinality(SpansOf(T) \cap ImmediateSpans(t)) = 0
  BY <1>2, FS_EmptySet
<1>4. /\ IsFiniteSet(SpansOf(T)) /\ Cardinality(SpansOf(T)) \in Nat
      /\ IsFiniteSet(ImmediateSpans(t)) /\ Cardinality(ImmediateSpans(t)) \in Nat
  BY SpansFinite, SpansOfFinite
<1>5. Cardinality(SpansOf(T) \cup ImmediateSpans(t))
        = Cardinality(SpansOf(T)) + Cardinality(ImmediateSpans(t))
          - Cardinality(SpansOf(T) \cap ImmediateSpans(t))
  BY <1>4, FS_Union
<1>6. Cardinality(T \cup {t}) = Cardinality(T) + 1
  BY SpansOfFinite, FS_AddElement
<1>7. Cardinality(SpansOf(T \cup {t})) = Cardinality(SpansOf(T)) + Cardinality(ImmediateSpans(t))
  <2>1. Cardinality(SpansOf(T) \cup ImmediateSpans(t))
          = Cardinality(SpansOf(T)) + Cardinality(ImmediateSpans(t))
    BY <1>3, <1>4, <1>5
  <2>2. QED
    BY <1>1, <2>1
<1>8. QED
  BY <1>1, <1>6, <1>7

\* The input does not change, so neither does what it says.
LEMMA SameSpans ==
  ASSUME UNCHANGED traces
  PROVE  /\ \A t : ImmediateSpans(t)' = ImmediateSpans(t) /\ (IsLarge(t)' <=> IsLarge(t))
         /\ \A t : ChunkKeys(t)' = ChunkKeys(t)
         /\ \A T : SpansOf(T)' = SpansOf(T)
         /\ SpansOf(batch)' = SpansOf(batch') /\ SpansOf(DOMAIN traces)' = SpansOf(DOMAIN traces)
         /\ ImmediateSpans(i)' = ImmediateSpans(i') /\ (IsLarge(i)' <=> IsLarge(i'))
         /\ ChunkKeys(i)' = ChunkKeys(i')
BY DEF SpansOf, ImmediateSpans, ScopeSpans, IsLarge, ChunkKeys

--------------------------------------------------------------------------------
(* The batch and where the pass is *)

\* TypeOK without the bound of spanCount, which follows from what it counts.
PassTypeOK ==
  /\ IsInput
  /\ i \in 1..(Len(traces) + 1)
  /\ pc \in PcStates
  /\ batch \subseteq DOMAIN traces
  /\ spanCount \in Nat
  /\ chunks \subseteq Nat \X Nat
  /\ ctxDone \in BOOLEAN

\* What the places in sendTraces say about the trace being handled.
ControlInv ==
  /\ pc \in {"makeRoom", "flushLarge", "chunks"} \/ chunks # {} => i <= Len(traces)
  /\ pc = "makeRoom" => ImmediateSpans(i) # {} /\ ~IsLarge(i)
  /\ pc = "flushLarge" => IsLarge(i)
  /\ pc = "chunks" \/ chunks # {} => IsLarge(i) /\ batch = {} /\ chunks \subseteq ChunkKeys(i)
  /\ chunks # {} => pc \in {"chunks", "error"}
  /\ pc = "ok" => batch = {} /\ i = Len(traces) + 1

\* The batch holds small traces, is within both limits, and is the end of what was handled.
BatchInv ==
  /\ batch \subseteq 1..(i - 1)
  /\ \A b \in batch : ImmediateSpans(b) # {} /\ ~IsLarge(b)
  /\ spanCount = Cardinality(SpansOf(batch))
  /\ spanCount <= MaxSpansPerBatch /\ Cardinality(batch) <= BatchSize
  /\ \A b \in batch, t \in (1..(i - 1)) \ batch : ImmediateSpans(t) = {} \/ t < b

PassInv == PassTypeOK /\ ControlInv /\ BatchInv

\* A batch that is not empty has a span.
LEMMA BatchHasSpans ==
  ASSUME BatchInv PROVE SpansOf(batch) = {} <=> batch = {}
BY DEF BatchInv, SpansOf

\* An empty batch keeps BatchInv wherever the pass is.
LEMMA EmptyBatch ==
  ASSUME batch' = {}, spanCount' = 0, i' \in Nat, UNCHANGED traces
  PROVE  BatchInv'
<1>1. SpansOf(batch)' = {}
  BY DEF SpansOf
<1>2. Cardinality(SpansOf(batch)') = 0 /\ Cardinality(batch') = 0
  BY <1>1, FS_EmptySet
<1>3. QED
  BY <1>2, BatchAssumption DEF BatchInv

\* A pass starts at the first trace with an empty batch.
LEMMA InitPassInv == Init => PassInv
<1> SUFFICES ASSUME Init PROVE PassInv
  OBVIOUS
<1>1. IsInput
  <2>1. PICK n \in 0..MaxTraces : traces \in [1..n -> Template]
    BY DEF Init
  <2>2. n \in Nat
    BY BatchAssumption
  <2>3. QED
    BY <2>1, <2>2 DEF IsInput
<1>2. Len(traces) \in Nat /\ (traces = <<>> => Len(traces) = 0)
  BY <1>1 DEF IsInput
<1>3. ctxDone \in BOOLEAN
  BY Zenon DEF Init
<1>4. PassTypeOK
  BY <1>1, <1>2, <1>3 DEF Init, PassTypeOK, PcStates
<1>5. ControlInv
  BY <1>2 DEF Init, ControlInv
<1>6. BatchInv
  <2>1. SpansOf(batch) = {}
    BY DEF Init, SpansOf
  <2>2. Cardinality(SpansOf(batch)) = 0 /\ Cardinality(batch) = 0
    BY <2>1, FS_EmptySet DEF Init
  <2>3. QED
    BY <2>2, BatchAssumption DEF Init, BatchInv
<1>7. QED
  BY <1>4, <1>5, <1>6 DEF PassInv

\* The trace being handled joins the batch.
LEMMA AddToBatchPass == PassInv /\ AddToBatch => PassInv'
<1> SUFFICES ASSUME PassInv, AddToBatch PROVE PassInv'
  OBVIOUS
<1>1. /\ i \in DOMAIN traces /\ IsInput /\ i <= Len(traces) /\ Len(traces) \in Nat /\ i \in Nat
      /\ pc = "makeRoom" /\ ImmediateSpans(i) # {} /\ ~IsLarge(i)
      /\ chunks = {} /\ batch \in SUBSET DOMAIN traces /\ i \notin batch
      /\ DOMAIN traces = 1..Len(traces)
  BY DEF PassInv, PassTypeOK, ControlInv, BatchInv, AddToBatch, IsInput
<1>2. /\ UNCHANGED <<traces, chunks, ctxDone>> /\ i' = i + 1 /\ pc' = "next"
      /\ \/ MustFlush /\ batch' = {i} /\ spanCount' = Cardinality(ImmediateSpans(i))
         \/ /\ ~MustFlush /\ batch' = batch \cup {i}
            /\ spanCount' = spanCount + Cardinality(ImmediateSpans(i))
  BY DEF AddToBatch
<1>3. /\ Cardinality(ImmediateSpans(i)) \in Nat
      /\ Cardinality(ImmediateSpans(i)) <= MaxSpansPerBatch
  BY <1>1, SpansFinite, BatchAssumption DEF IsLarge
<1>4. PassTypeOK'
  BY <1>1, <1>2, <1>3 DEF PassInv, PassTypeOK, PcStates, IsInput
<1>5. ControlInv'
  BY <1>1, <1>2 DEF ControlInv
<1>6. /\ spanCount' = Cardinality(SpansOf(batch')) /\ spanCount' <= MaxSpansPerBatch
      /\ Cardinality(batch') <= BatchSize
  <2>1. CASE MustFlush
    <3>1. batch' = {i} /\ SpansOf({i}) = ImmediateSpans(i)
      BY <1>2, <2>1 DEF SpansOf
    <3>2. Cardinality({i}) = 1
      BY FS_Singleton
    <3>3. QED
      BY <1>2, <1>3, <2>1, <3>1, <3>2, BatchAssumption
  <2>2. CASE ~MustFlush
    <3>0. /\ spanCount = Cardinality(SpansOf(batch))
          /\ batch' = batch \cup {i} /\ SpansOf(batch') = SpansOf(batch \cup {i})
          /\ Cardinality(batch') = Cardinality(batch \cup {i})
          /\ Cardinality(SpansOf(batch')) = Cardinality(SpansOf(batch \cup {i}))
          /\ spanCount' = spanCount + Cardinality(ImmediateSpans(i))
      BY <1>2, <2>2 DEF PassInv, BatchInv
    <3>1. /\ Cardinality(SpansOf(batch \cup {i}))
                = Cardinality(SpansOf(batch)) + Cardinality(ImmediateSpans(i))
          /\ Cardinality(batch \cup {i}) = Cardinality(batch) + 1
          /\ Cardinality(batch) \in Nat /\ Cardinality(SpansOf(batch)) \in Nat
      BY <1>1, SpansOfOneMore, SpansOfFinite
    <3>2. CASE batch = {}
      <4>1. SpansOf(batch) = {}
        BY <3>2 DEF SpansOf
      <4>2. Cardinality(batch) = 0 /\ Cardinality(SpansOf(batch)) = 0
        BY <3>2, <4>1, FS_EmptySet
      <4>3. QED
        BY <1>2, <1>3, <2>2, <3>0, <3>1, <4>2, BatchAssumption
    <3>3. CASE batch # {}
      <4>1. /\ spanCount + Cardinality(ImmediateSpans(i)) <= MaxSpansPerBatch
            /\ Cardinality(batch) < BatchSize
        BY <1>3, <2>2, <3>1, <3>3, BatchAssumption
           DEF MustFlush, WouldExceed, PassInv, PassTypeOK
      <4>2. QED
        BY <1>2, <1>3, <2>2, <3>0, <3>1, <4>1, BatchAssumption
    <3>4. QED
      BY <3>2, <3>3
  <2>3. QED
    BY <2>1, <2>2
<1>7. BatchInv'
  BY <1>1, <1>2, <1>6, SameSpans DEF PassInv, BatchInv
<1>8. QED
  BY <1>4, <1>5, <1>7 DEF PassInv

\* Steps that leave the batch and the trace being handled alone.
LEMMA SameBatch ==
  ASSUME BatchInv, UNCHANGED <<traces, i, batch, spanCount>>
  PROVE  BatchInv'
BY SameSpans DEF BatchInv

\* Every step of sendTraces keeps the batch, its counters and its place in agreement.
LEMMA PassInvStep == PassInv /\ [Next]_vars => PassInv'
<1> SUFFICES ASSUME PassInv, [Next]_vars PROVE PassInv'
  OBVIOUS
<1>0. /\ IsInput /\ Len(traces) \in Nat /\ i \in Nat /\ i <= Len(traces) + 1
      /\ DOMAIN traces = 1..Len(traces)
  BY DEF PassInv, PassTypeOK, IsInput
<1> USE DEF PcStates
<1>1. CASE TakeTrace
  <2>1. UNCHANGED <<traces, batch, spanCount, chunks, ctxDone>> /\ i <= Len(traces)
    BY <1>1 DEF TakeTrace
  <2>2. chunks = {}
    BY <1>1 DEF TakeTrace, PassInv, ControlInv
  <2>3. CASE ImmediateSpans(i) = {} /\ i' = i + 1 /\ UNCHANGED pc
    <3>1. BatchInv'
      BY <1>0, <2>1, <2>3, SameSpans DEF PassInv, BatchInv
    <3>2. QED
      BY <1>0, <1>1, <2>1, <2>2, <2>3, <3>1
         DEF PassInv, PassTypeOK, ControlInv, IsInput, TakeTrace
  <2>4. CASE /\ UNCHANGED i
             /\ \/ IsLarge(i) /\ pc' = "flushLarge"
                \/ ImmediateSpans(i) # {} /\ ~IsLarge(i) /\ pc' = "makeRoom"
    BY <1>0, <2>1, <2>2, <2>4, SameBatch, SameSpans
       DEF PassInv, PassTypeOK, ControlInv, IsInput
  <2>5. QED
    BY <1>1, <2>3, <2>4 DEF TakeTrace
<1>2. CASE SeeCancelled
  BY <1>0, <1>2, SameBatch, SameSpans
     DEF SeeCancelled, PassInv, PassTypeOK, ControlInv, IsInput
<1>3. CASE AddToBatch
  BY <1>3, AddToBatchPass
<1>4. CASE FlushBeforeLarge
  <2>1. /\ UNCHANGED <<traces, i, ctxDone>> /\ batch' = {} /\ spanCount' = 0
        /\ chunks' = ChunkKeys(i) /\ pc' = "chunks" /\ pc = "flushLarge"
    BY <1>4 DEF FlushBeforeLarge
  <2>2. ChunkKeys(i) \subseteq Nat \X Nat
    <3>1. i \in DOMAIN traces
      BY <1>0, <2>1 DEF PassInv, PassTypeOK, ControlInv
    <3>2. DOMAIN traces[i].scopes \subseteq Nat
      BY <1>0, <3>1, ScopesType
    <3>3. Cardinality(ImmediateSpans(i)) \in Nat
      BY <1>0, <3>1, SpansFinite
    <3>4. QED
      BY <3>2, <3>3 DEF ChunkKeys
  <2>3. QED
    BY <1>0, <2>1, <2>2, EmptyBatch, SameSpans DEF PassInv, PassTypeOK, ControlInv, IsInput
<1>5. ASSUME NEW c \in chunks, SendChunk(c) PROVE PassInv'
  BY <1>0, <1>5, SameBatch, SameSpans DEF SendChunk, PassInv, PassTypeOK, ControlInv, IsInput
<1>6. CASE LargeDone
  <2>1. /\ UNCHANGED <<traces, batch, spanCount, chunks, ctxDone>> /\ i' = i + 1
        /\ pc' = "next" /\ pc = "chunks" /\ chunks = {}
    BY <1>6 DEF LargeDone
  <2>2. batch = {} /\ spanCount = 0
    <3>1. batch = {}
      BY <2>1 DEF PassInv, ControlInv
    <3>2. SpansOf(batch) = {}
      BY <3>1 DEF SpansOf
    <3>3. QED
      BY <3>1, <3>2, FS_EmptySet DEF PassInv, BatchInv
  <2>3. BatchInv'
    BY <1>0, <2>1, <2>2, EmptyBatch
  <2>4. QED
    BY <1>0, <2>1, <2>2, <2>3, SameSpans DEF PassInv, PassTypeOK, ControlInv, IsInput
<1>7. CASE FinalFlush
  BY <1>0, <1>7, EmptyBatch, SameSpans DEF FinalFlush, PassInv, PassTypeOK, ControlInv, IsInput
<1>8. CASE AddToBatchFails \/ FlushBeforeLargeFails \/ ChunkFails \/ FinalFlushFails
  BY <1>0, <1>8, SameBatch, SameSpans
     DEF AddToBatchFails, FlushBeforeLargeFails, ChunkFails, FinalFlushFails, SendFails,
         PassInv, PassTypeOK, ControlInv, IsInput
<1>9. CASE Cancel \/ UNCHANGED vars
  BY <1>0, <1>9, SameBatch, SameSpans
     DEF Cancel, vars, PassInv, PassTypeOK, ControlInv, IsInput
<1>10. QED
  BY <1>1, <1>2, <1>3, <1>4, <1>5, <1>6, <1>7, <1>8, <1>9 DEF Next

--------------------------------------------------------------------------------
(* The chunks of a large trace *)

\* Multiples of the message limit are at least the limit apart.
LEMMA Multiples ==
  ASSUME NEW k \in Nat, NEW l \in Nat, NEW m \in Nat, k < l
  PROVE  k * m \in Nat /\ l * m \in Nat /\ k * m + m <= l * m
<1>1. PICK d \in Nat : l = k + 1 + d
  <2>1. l - k - 1 \in Nat /\ l = k + 1 + (l - k - 1)
    OBVIOUS
  <2>2. QED
    BY <2>1
<1>2. l * m = k * m + m + d * m
  BY <1>1
<1>3. k * m \in Nat /\ d * m \in Nat
  OBVIOUS
<1>4. QED
  BY <1>2, <1>3

\* The multiple at or below a number.
LEMMA Quotient ==
  ASSUME NEW m \in Nat, NEW d \in Nat \ {0}
  PROVE  /\ m \div d \in Nat /\ (m \div d) * d \in Nat
         /\ (m \div d) * d <= m /\ m < (m \div d) * d + d /\ m \div d <= m
<1> DEFINE k == m \div d
<1>1. k \in Int /\ k * d <= m /\ m < k * d + d
  OBVIOUS
<1>2. k >= 0
  BY <1>1
<1>3. k * d \in Nat /\ k <= k * d
  BY <1>1, <1>2
<1> HIDE DEF k
<1>4. k \in Nat /\ k * d \in Nat /\ k * d <= m /\ m < k * d + d /\ k <= m
  BY <1>1, <1>2, <1>3
<1>5. QED
  BY <1>4 DEF k

\* The offset of a chunk.
LEMMA ChunkKeyType ==
  ASSUME IsInput, NEW t \in DOMAIN traces, NEW c \in ChunkKeys(t)
  PROVE  /\ c = <<c[1], c[2]>> /\ c[1] \in DOMAIN traces[t].scopes
         /\ c[2] \in Nat /\ c[2] * MaxSpansPerBatch \in Nat
         /\ c[2] * MaxSpansPerBatch < traces[t].scopes[c[1]]
         /\ traces[t].scopes[c[1]] \in Nat
<1>1. Cardinality(ImmediateSpans(t)) \in Nat
  BY SpansFinite
<1>2. /\ c = <<c[1], c[2]>> /\ c[1] \in DOMAIN traces[t].scopes /\ c[2] \in Nat
      /\ c[2] * MaxSpansPerBatch < traces[t].scopes[c[1]]
  BY <1>1 DEF ChunkKeys
<1>3. traces[t].scopes[c[1]] \in Nat
  BY <1>2, ScopesType
<1>4. QED
  BY <1>2, <1>3, BatchAssumption

\* A chunk is some spans of its trace, at least one and at most the message limit.
LEMMA ChunkSize ==
  ASSUME IsInput, NEW t \in DOMAIN traces, NEW c \in ChunkKeys(t)
  PROVE  LET ch == Chunk(t, c[1], c[2] * MaxSpansPerBatch)
         IN  /\ ch \subseteq ImmediateSpans(t) /\ TracesIn(ch) = {t}
             /\ IsFiniteSet(ch) /\ Cardinality(ch) <= MaxSpansPerBatch
<1> DEFINE o == c[2] * MaxSpansPerBatch
           ch == Chunk(t, c[1], o)
           last == o + MaxSpansPerBatch
<1>1. /\ c[1] \in DOMAIN traces[t].scopes /\ o \in Nat /\ o < traces[t].scopes[c[1]]
      /\ traces[t].scopes[c[1]] \in Nat /\ MaxSpansPerBatch \in Nat \ {0}
  BY ChunkKeyType, BatchAssumption
<1> HIDE DEF o
<1>2. ch \subseteq ScopeSpans(t, c[1]) /\ ch \subseteq ImmediateSpans(t)
  BY <1>1 DEF Chunk, ImmediateSpans
<1>3. <<t, c[1], o + 1>> \in ch
  BY <1>1 DEF Chunk, ScopeSpans
<1>4. TracesIn(ch) = {t}
  <2>1. \A sp \in ch : sp[1] = t
    BY <1>2, SpanOf
  <2>2. <<t, c[1], o + 1>>[1] = t
    OBVIOUS
  <2>3. QED
    BY <1>3, <2>1, <2>2 DEF TracesIn
<1>5. IsFiniteSet(ch)
  BY <1>2, SpansFinite, FS_Subset
<1>6. Cardinality(ch) <= MaxSpansPerBatch
  <2> DEFINE f == [sp \in ch |-> sp[3]]
  <2>1. ASSUME NEW sp \in ch PROVE sp = <<t, c[1], sp[3]>> /\ sp[3] \in (o + 1)..last
    BY <1>1 DEF Chunk, ScopeSpans
  <2>2. f \in Injection(ch, (o + 1)..last)
    BY <2>1 DEF Injection, IsInjective
  <2>3. IsFiniteSet((o + 1)..last) /\ Cardinality((o + 1)..last) = MaxSpansPerBatch
    <3>1. o + 1 \in Int /\ last \in Int /\ o + 1 <= last /\ last - (o + 1) + 1 = MaxSpansPerBatch
      BY <1>1
    <3> HIDE DEF last
    <3>2. QED
      BY <3>1, FS_Interval
  <2>4. QED
    BY <2>2, <2>3, FS_Injection
<1>7. QED
  BY <1>2, <1>4, <1>5, <1>6 DEF o

\* Two chunks of a trace share no span.
LEMMA ChunksApart ==
  ASSUME IsInput, NEW t \in DOMAIN traces,
         NEW c \in ChunkKeys(t), NEW d \in ChunkKeys(t), c # d
  PROVE  Chunk(t, c[1], c[2] * MaxSpansPerBatch) \cap Chunk(t, d[1], d[2] * MaxSpansPerBatch) = {}
<1> SUFFICES ASSUME NEW sp, sp \in Chunk(t, c[1], c[2] * MaxSpansPerBatch),
                    sp \in Chunk(t, d[1], d[2] * MaxSpansPerBatch)
             PROVE  FALSE
  OBVIOUS
<1>1. /\ sp[2] = c[1] /\ sp[2] = d[1]
      /\ sp[3] > c[2] * MaxSpansPerBatch /\ sp[3] <= c[2] * MaxSpansPerBatch + MaxSpansPerBatch
      /\ sp[3] > d[2] * MaxSpansPerBatch /\ sp[3] <= d[2] * MaxSpansPerBatch + MaxSpansPerBatch
      /\ sp[3] \in 1..traces[t].scopes[c[1]]
  BY DEF Chunk, ScopeSpans
<1>2. /\ c = <<c[1], c[2]>> /\ d = <<d[1], d[2]>> /\ c[2] \in Nat /\ d[2] \in Nat
      /\ sp[3] \in Nat /\ MaxSpansPerBatch \in Nat
  <2>1. c = <<c[1], c[2]>> /\ c[2] \in Nat /\ traces[t].scopes[c[1]] \in Nat
    BY ChunkKeyType
  <2>2. d = <<d[1], d[2]>> /\ d[2] \in Nat
    BY ChunkKeyType
  <2>3. sp[3] \in Nat
    BY <1>1, <2>1
  <2>4. QED
    BY <2>1, <2>2, <2>3, BatchAssumption
<1>3. c[2] < d[2] \/ d[2] < c[2]
  BY <1>1, <1>2
<1>4. /\ c[2] < d[2] => c[2] * MaxSpansPerBatch + MaxSpansPerBatch <= d[2] * MaxSpansPerBatch
      /\ d[2] < c[2] => d[2] * MaxSpansPerBatch + MaxSpansPerBatch <= c[2] * MaxSpansPerBatch
      /\ c[2] * MaxSpansPerBatch \in Nat /\ d[2] * MaxSpansPerBatch \in Nat
  BY <1>2, <1>3, Multiples
<1>5. QED
  BY <1>1, <1>2, <1>3, <1>4

\* Every span of a trace is in one of its chunks.
LEMMA ChunksCover ==
  ASSUME IsInput, NEW t \in DOMAIN traces, NEW sp \in ImmediateSpans(t)
  PROVE  \E c \in ChunkKeys(t) : sp \in Chunk(t, c[1], c[2] * MaxSpansPerBatch)
<1> DEFINE n == traces[t].scopes[sp[2]]
           m == sp[3] - 1
           k == m \div MaxSpansPerBatch
<1>1. /\ sp \in ScopeSpans(t, sp[2]) /\ sp[2] \in DOMAIN traces[t].scopes
      /\ sp[3] \in 1..n /\ n \in Nat
  BY SpanOf, ScopesType DEF ScopeSpans
<1>2. m \in Nat /\ m < n /\ MaxSpansPerBatch \in Nat \ {0}
  BY <1>1, BatchAssumption
<1>3. k \in Nat /\ k * MaxSpansPerBatch <= m /\ m < k * MaxSpansPerBatch + MaxSpansPerBatch
      /\ k <= m /\ k * MaxSpansPerBatch \in Nat
  <2> HIDE DEF m
  <2>1. QED
    BY <1>2, Quotient
<1>4. n <= Cardinality(ImmediateSpans(t)) /\ Cardinality(ImmediateSpans(t)) \in Nat
  BY <1>1, SpansFinite
<1> HIDE DEF k
<1>5. k \in 0..Cardinality(ImmediateSpans(t)) /\ k * MaxSpansPerBatch < n
  BY <1>1, <1>2, <1>3, <1>4
<1>6. <<sp[2], k>> \in ChunkKeys(t)
  BY <1>1, <1>5 DEF ChunkKeys
<1>7. sp \in Chunk(t, sp[2], k * MaxSpansPerBatch)
  BY <1>1, <1>2, <1>3 DEF Chunk
<1>8. <<sp[2], k>>[1] = sp[2] /\ <<sp[2], k>>[2] = k
  OBVIOUS
<1>9. QED
  BY <1>6, <1>7, <1>8

--------------------------------------------------------------------------------
(* What has been delivered *)

\* The requests exported: each within the limits, none sharing a span with another.
RequestsInv ==
  /\ requests \in Seq(SUBSET SpansOf(DOMAIN traces))
  /\ recorded \in Nat
  /\ RequestsBounded
  /\ DeliveredOnce

\* A large trace is being sent, or was when the pass failed; what of it is still to go.
Begun == pc = "chunks" \/ chunks # {}

ChunkSpans(c) == Chunk(i, c[1], c[2] * MaxSpansPerBatch)

Remaining == UNION {ChunkSpans(c) : c \in chunks}

\* The traces behind the pass, but for those in the batch.
Behind == (1..(i - 1)) \ batch

\* A trace that is not large went within one request.
Whole(t) ==
  ~IsLarge(t) /\ ImmediateSpans(t) # {}
    => \E k \in DOMAIN requests : ImmediateSpans(t) \subseteq requests[k]

\* Delivered is everything behind the pass but the batch, and the chunks sent of a large
\* trace.
DeliveryInv ==
  /\ Delivered = SpansOf(Behind) \cup (IF Begun THEN ImmediateSpans(i) \ Remaining ELSE {})
  /\ \A t \in Behind : Whole(t)

\* Spans that may go in one request.
Sendable(S) ==
  /\ S \subseteq SpansOf(DOMAIN traces) /\ S \cap Delivered = {}
  /\ IsFiniteSet(S) /\ Cardinality(S) <= MaxSpansPerBatch
  /\ Cardinality(TracesIn(S)) <= BatchSize

\* A request more.
LEMMA Appended ==
  ASSUME NEW S, NEW E, requests \in Seq(E), S \in E, requests' = Append(requests, S)
  PROVE  /\ requests' \in Seq(E)
         /\ Len(requests) \in Nat /\ DOMAIN requests = 1..Len(requests)
         /\ DOMAIN requests' = 1..(Len(requests) + 1) /\ Len(requests') = Len(requests) + 1
         /\ requests'[Len(requests) + 1] = S
         /\ \A k \in DOMAIN requests : k \in DOMAIN requests' /\ requests'[k] = requests[k]
         /\ \A k \in DOMAIN requests' : k \in DOMAIN requests \/ k = Len(requests) + 1
OBVIOUS

\* What a send that succeeds does to the requests.
LEMMA Sent ==
  ASSUME IsInput, RequestsInv, NEW S, Sendable(S), SendSucceeds(S), UNCHANGED traces
  PROVE  /\ RequestsInv' /\ Delivered' = Delivered \cup S
         /\ \A k \in DOMAIN requests : k \in DOMAIN requests' /\ requests'[k] = requests[k]
         /\ S = {} \/ \E k \in DOMAIN requests' : requests'[k] = S
<1>0. SpansOf(DOMAIN traces)' = SpansOf(DOMAIN traces)
  BY SameSpans
<1>1. CASE S = {}
  <2>1. UNCHANGED <<requests, recorded>>
    BY <1>1 DEF SendSucceeds
  <2>2. QED
    BY <1>0, <1>1, <2>1 DEF RequestsInv, RequestsBounded, DeliveredOnce, Delivered, TracesIn
<1>2. CASE S # {}
  <2> DEFINE n == Len(requests) + 1
  <2>1. requests' = Append(requests, S) /\ recorded' = recorded + Cardinality(S)
    BY <1>2 DEF SendSucceeds
  <2>2. S \in SUBSET SpansOf(DOMAIN traces) /\ requests \in Seq(SUBSET SpansOf(DOMAIN traces))
    BY DEF Sendable, RequestsInv
  <2>3. /\ requests' \in Seq(SUBSET SpansOf(DOMAIN traces))
        /\ DOMAIN requests' = 1..n /\ n \in DOMAIN requests' /\ requests'[n] = S
        /\ n \notin DOMAIN requests
        /\ \A k \in DOMAIN requests : k \in DOMAIN requests' /\ requests'[k] = requests[k]
        /\ \A k \in DOMAIN requests' : k \in DOMAIN requests \/ k = n
    <3>1. /\ requests' \in Seq(SUBSET SpansOf(DOMAIN traces))
          /\ Len(requests) \in Nat /\ DOMAIN requests = 1..Len(requests)
          /\ DOMAIN requests' = 1..(Len(requests) + 1)
          /\ requests'[Len(requests) + 1] = S
          /\ \A k \in DOMAIN requests : k \in DOMAIN requests' /\ requests'[k] = requests[k]
          /\ \A k \in DOMAIN requests' : k \in DOMAIN requests \/ k = Len(requests) + 1
      BY <2>1, <2>2, Appended
    <3>2. QED
      BY <3>1
  <2> HIDE DEF n
  <2>4. Delivered' = Delivered \cup S
    BY <2>3 DEF Delivered
  <2>5. IsFiniteSet(Delivered) /\ Cardinality(Delivered) \in Nat
    <3>1. Delivered \subseteq SpansOf(DOMAIN traces)
      BY <2>2 DEF Delivered
    <3>2. IsFiniteSet(SpansOf(DOMAIN traces))
      BY SpansOfFinite
    <3>3. QED
      BY <3>1, <3>2, FS_Subset, FS_CardinalityType
  <2>6. IsFiniteSet(S) /\ Cardinality(S) \in Nat /\ Cardinality(S) # 0
    BY <1>2, FS_EmptySet, FS_CardinalityType DEF Sendable
  <2>7. Cardinality(Delivered \cup S) = Cardinality(Delivered) + Cardinality(S)
    <3>1. Delivered \cap S = {}
      BY DEF Sendable
    <3>2. Cardinality(Delivered \cap S) = 0
      BY <3>1, FS_EmptySet
    <3>3. Cardinality(Delivered \cup S)
            = Cardinality(Delivered) + Cardinality(S) - Cardinality(Delivered \cap S)
      BY <2>5, <2>6, FS_Union
    <3>4. QED
      BY <2>5, <2>6, <3>2, <3>3
  <2>8. recorded' = Cardinality(Delivered')
    <3>1. recorded = Cardinality(Delivered)
      BY DEF RequestsInv, DeliveredOnce
    <3>2. Cardinality(Delivered') = Cardinality(Delivered) + Cardinality(S)
      BY <2>4, <2>7
    <3>3. QED
      BY <2>1, <3>1, <3>2
  <2>9. DeliveredOnce'
    <3>1. \A k \in DOMAIN requests : requests[k] \cap S = {}
      BY DEF Sendable, Delivered
    <3>2. \A j, k \in DOMAIN requests : j # k => requests[j] \cap requests[k] = {}
      BY DEF RequestsInv, DeliveredOnce
    <3>3. ASSUME NEW j \in DOMAIN requests', NEW k \in DOMAIN requests', j # k
          PROVE  requests'[j] \cap requests'[k] = {}
      <4>1. CASE j \in DOMAIN requests /\ k \in DOMAIN requests
        BY <2>3, <3>2, <3>3, <4>1
      <4>2. CASE j = n
        BY <2>3, <3>1, <3>3, <4>2
      <4>3. CASE k = n
        BY <2>3, <3>1, <3>3, <4>3
      <4>4. QED
        BY <2>3, <4>1, <4>2, <4>3
    <3>4. QED
      BY <2>8, <3>3 DEF DeliveredOnce
  <2>10. RequestsBounded'
    <3>1. ASSUME NEW k \in DOMAIN requests'
          PROVE  /\ Cardinality(requests'[k]) \in 1..MaxSpansPerBatch
                 /\ Cardinality(TracesIn(requests'[k])) <= BatchSize
      <4>1. CASE k \in DOMAIN requests
        BY <2>3, <4>1 DEF RequestsInv, RequestsBounded
      <4>2. CASE k = n
        BY <2>3, <2>6, <4>2, BatchAssumption DEF Sendable
      <4>3. QED
        BY <2>3, <4>1, <4>2
    <3>2. QED
      BY <3>1 DEF RequestsBounded, TracesIn
  <2>11. recorded' \in Nat
    BY <2>1, <2>6 DEF RequestsInv
  <2>12. RequestsInv'
    BY <1>0, <2>3, <2>9, <2>10, <2>11 DEF RequestsInv
  <2>13. QED
    BY <2>3, <2>4, <2>12
<1>3. QED
  BY <1>1, <1>2

\* Requests that stay as they are.
LEMMA NotSent ==
  ASSUME RequestsInv, UNCHANGED <<traces, requests, recorded>>
  PROVE  /\ RequestsInv' /\ Delivered' = Delivered
         /\ \A t : Whole(t) => Whole(t)'
<1>1. SpansOf(DOMAIN traces)' = SpansOf(DOMAIN traces) /\ Delivered' = Delivered
  BY SameSpans DEF Delivered
<1>2. RequestsInv'
  BY <1>1 DEF RequestsInv, RequestsBounded, DeliveredOnce, TracesIn
<1>3. ASSUME NEW t, Whole(t) PROVE Whole(t)'
  BY <1>3, SameSpans DEF Whole
<1>4. QED
  BY <1>1, <1>2, <1>3

\* The batch may always be sent.
LEMMA BatchSendable ==
  ASSUME PassInv, DeliveryInv, ~Begun PROVE Sendable(SpansOf(batch))
<1>1. /\ IsInput /\ batch \in SUBSET DOMAIN traces /\ batch \cap Behind = {}
      /\ \A b \in batch : ImmediateSpans(b) # {}
      /\ Cardinality(SpansOf(batch)) <= MaxSpansPerBatch /\ Cardinality(batch) <= BatchSize
  BY DEF PassInv, PassTypeOK, BatchInv, Behind
<1>2. TracesIn(SpansOf(batch)) = batch
  BY <1>1, TracesOfSpans
<1>3. IsFiniteSet(SpansOf(batch))
  BY <1>1, SpansOfFinite
<1>4. SpansOf(batch) \subseteq SpansOf(DOMAIN traces)
  BY <1>1 DEF SpansOf
<1>5. SpansOf(batch) \cap Delivered = {}
  BY <1>1, InSpansOf DEF DeliveryInv
<1>6. QED
  BY <1>1, <1>2, <1>3, <1>4, <1>5 DEF Sendable

\* A flush delivers everything behind the pass.
LEMMA Flushed ==
  ASSUME PassInv, RequestsInv, DeliveryInv, ~Begun,
         SendSucceeds(SpansOf(batch)), UNCHANGED traces
  PROVE  /\ RequestsInv' /\ Delivered' = SpansOf(1..(i - 1))
         /\ \A t \in 1..(i - 1) : Whole(t)'
<1>1. IsInput /\ batch \subseteq 1..(i - 1) /\ 1..(i - 1) = Behind \cup batch
  BY DEF PassInv, PassTypeOK, BatchInv, Behind
<1>2. /\ RequestsInv' /\ Delivered' = Delivered \cup SpansOf(batch)
      /\ \A k \in DOMAIN requests : k \in DOMAIN requests' /\ requests'[k] = requests[k]
      /\ SpansOf(batch) = {} \/ \E k \in DOMAIN requests' : requests'[k] = SpansOf(batch)
  BY <1>1, BatchSendable, Sent
<1>3. Delivered' = SpansOf(1..(i - 1))
  <2>1. Delivered = SpansOf(Behind)
    BY DEF DeliveryInv
  <2>2. QED
    BY <1>1, <1>2, <2>1 DEF SpansOf
<1>4. ASSUME NEW t \in 1..(i - 1), ~IsLarge(t), ImmediateSpans(t) # {}
      PROVE  \E k \in DOMAIN requests' : ImmediateSpans(t) \subseteq requests'[k]
  <2>1. CASE t \in Behind
    BY <1>2, <1>4, <2>1 DEF DeliveryInv, Whole
  <2>2. CASE t \in batch
    BY <1>2, <1>4, <2>2 DEF SpansOf
  <2>3. QED
    BY <1>1, <1>4, <2>1, <2>2
<1>5. \A t \in 1..(i - 1) : Whole(t)'
  BY <1>4, SameSpans DEF Whole
<1>6. QED
  BY <1>2, <1>3, <1>5

\* A chunk may always be sent, and none of the others has a span of it.
LEMMA ChunkSendable ==
  ASSUME PassInv, DeliveryInv, NEW c \in chunks
  PROVE  /\ Sendable(ChunkSpans(c)) /\ ChunkSpans(c) \subseteq ImmediateSpans(i)
         /\ \A d \in chunks \ {c} : ChunkSpans(c) \cap ChunkSpans(d) = {}
<1>1. /\ IsInput /\ i \in DOMAIN traces /\ chunks \subseteq ChunkKeys(i)
      /\ c \in ChunkKeys(i)
  BY DEF PassInv, PassTypeOK, ControlInv, IsInput
<1>2. /\ ChunkSpans(c) \subseteq ImmediateSpans(i) /\ TracesIn(ChunkSpans(c)) = {i}
      /\ IsFiniteSet(ChunkSpans(c)) /\ Cardinality(ChunkSpans(c)) <= MaxSpansPerBatch
  BY <1>1, ChunkSize DEF ChunkSpans
<1>3. ChunkSpans(c) \subseteq Remaining
  BY DEF Remaining
<1>4. i \notin Behind
  BY DEF Behind, PassInv, PassTypeOK
<1>5. SpansOf(Behind) \cap ImmediateSpans(i) = {}
  BY <1>4, SpanOf, InSpansOf
<1>6. ChunkSpans(c) \cap Delivered = {}
  BY <1>2, <1>3, <1>5 DEF DeliveryInv
<1>7. Cardinality({i}) <= BatchSize
  <2>1. Cardinality({i}) = 1
    BY FS_Singleton
  <2>2. QED
    BY <2>1, BatchAssumption
<1>8. ImmediateSpans(i) \subseteq SpansOf(DOMAIN traces)
  BY <1>1 DEF SpansOf
<1>9. \A d \in chunks \ {c} : ChunkSpans(c) \cap ChunkSpans(d) = {}
  BY <1>1, ChunksApart DEF ChunkSpans
<1>10. QED
  BY <1>2, <1>6, <1>7, <1>8, <1>9 DEF Sendable

\* Nothing has been delivered when a pass starts.
LEMMA InitDelivery == Init => RequestsInv /\ DeliveryInv
<1> SUFFICES ASSUME Init PROVE RequestsInv /\ DeliveryInv
  OBVIOUS
<1>1. requests = <<>> /\ DOMAIN requests = {} /\ Delivered = {} /\ recorded = 0
  BY DEF Init, Delivered
<1>2. RequestsInv
  BY <1>1, FS_EmptySet DEF RequestsInv, RequestsBounded, DeliveredOnce
<1>3. Behind = {} /\ ~Begun
  BY DEF Init, Behind, Begun
<1>4. DeliveryInv
  BY <1>1, <1>3 DEF DeliveryInv, SpansOf
<1>5. QED
  BY <1>2, <1>4

\* Steps that export nothing and stay at the same trace with the same batch and chunks.
LEMMA SameDelivery ==
  ASSUME RequestsInv, DeliveryInv, Begun' <=> Begun,
         UNCHANGED <<traces, i, batch, chunks, requests, recorded>>
  PROVE  RequestsInv' /\ DeliveryInv'
<1>1. RequestsInv' /\ Delivered' = Delivered /\ \A t : Whole(t) => Whole(t)'
  BY NotSent
<1>2. Behind' = Behind
  BY DEF Behind
<1>3. ImmediateSpans(i)' = ImmediateSpans(i) /\ Remaining' = Remaining
  BY DEF ImmediateSpans, ScopeSpans, Remaining, ChunkSpans, Chunk
<1>4. SpansOf(Behind)' = SpansOf(Behind)
  BY <1>2 DEF SpansOf, ImmediateSpans, ScopeSpans
<1>5. QED
  BY <1>1, <1>2, <1>3, <1>4 DEF DeliveryInv

\* Steps after which no large trace is being sent.
LEMMA NowBehind ==
  ASSUME UNCHANGED traces, ~Begun', NEW D, Behind' = D,
         Delivered' = SpansOf(D), \A t \in D : Whole(t)'
  PROVE  DeliveryInv'
<1>1. SpansOf(Behind)' = SpansOf(D)
  BY SameSpans
<1>2. QED
  BY <1>1 DEF DeliveryInv

\* Every step delivers what leaves the batch or the chunks, and nothing else.
LEMMA DeliveryStep == PassInv /\ RequestsInv /\ DeliveryInv /\ [Next]_vars
                        => RequestsInv' /\ DeliveryInv'
<1> SUFFICES ASSUME PassInv, RequestsInv, DeliveryInv, [Next]_vars
             PROVE  RequestsInv' /\ DeliveryInv'
  OBVIOUS
<1>0. /\ IsInput /\ Len(traces) \in Nat /\ i \in 1..(Len(traces) + 1) /\ i \in Nat
      /\ DOMAIN traces = 1..Len(traces) /\ batch \subseteq 1..(i - 1) /\ i \notin batch
      /\ 1..(i - 1) = Behind \cup batch
  BY DEF PassInv, PassTypeOK, BatchInv, IsInput, Behind
<1>1. CASE TakeTrace
  <2>1. /\ UNCHANGED <<traces, batch, chunks, requests, recorded>> /\ pc = "next"
        /\ \/ ImmediateSpans(i) = {} /\ i' = i + 1 /\ pc' = "next"
           \/ UNCHANGED i /\ pc' \in {"flushLarge", "makeRoom"}
    BY <1>1 DEF TakeTrace
  <2>2. ~Begun /\ ~Begun'
    BY <2>1 DEF PassInv, ControlInv, Begun
  <2>3. CASE ImmediateSpans(i) = {} /\ i' = i + 1
    <3>1. RequestsInv' /\ Delivered' = Delivered /\ \A t : Whole(t) => Whole(t)'
      BY <2>1, NotSent
    <3>2. Behind' = Behind \cup {i}
      BY <1>0, <2>1, <2>3 DEF Behind
    <3>3. Delivered' = SpansOf(Behind \cup {i})
      BY <2>2, <2>3, <3>1 DEF DeliveryInv, SpansOf
    <3>4. \A t \in Behind \cup {i} : Whole(t)'
      <4>1. Whole(i)
        BY <2>3 DEF Whole
      <4>2. QED
        BY <3>1, <4>1 DEF DeliveryInv
    <3>5. QED
      BY <2>1, <2>2, <3>1, <3>2, <3>3, <3>4, NowBehind
  <2>4. CASE UNCHANGED i
    BY <2>1, <2>2, <2>4, SameDelivery
  <2>5. QED
    BY <2>1, <2>3, <2>4
<1>2. CASE AddToBatch
  <2>1. /\ UNCHANGED <<traces, chunks>> /\ i' = i + 1 /\ pc = "makeRoom" /\ pc' = "next"
        /\ \/ MustFlush /\ SendSucceeds(SpansOf(batch)) /\ batch' = {i}
           \/ ~MustFlush /\ UNCHANGED <<requests, recorded>> /\ batch' = batch \cup {i}
    BY <1>2 DEF AddToBatch
  <2>2. ~Begun /\ ~Begun'
    BY <2>1 DEF PassInv, ControlInv, Begun
  <2>3. CASE SendSucceeds(SpansOf(batch)) /\ batch' = {i}
    <3>1. Behind' = 1..(i - 1)
      BY <1>0, <2>1, <2>3 DEF Behind
    <3>2. QED
      BY <2>1, <2>2, <2>3, <3>1, Flushed, NowBehind
  <2>4. CASE UNCHANGED <<requests, recorded>> /\ batch' = batch \cup {i}
    <3>1. Behind' = Behind
      BY <1>0, <2>1, <2>4 DEF Behind
    <3>2. RequestsInv' /\ Delivered' = Delivered /\ \A t : Whole(t) => Whole(t)'
      BY <2>1, <2>4, NotSent
    <3>3. Delivered' = SpansOf(Behind) /\ \A t \in Behind : Whole(t)'
      BY <2>2, <3>2 DEF DeliveryInv
    <3>4. QED
      BY <2>1, <2>2, <3>1, <3>2, <3>3, NowBehind
  <2>5. QED
    BY <2>1, <2>3, <2>4
<1>3. CASE FlushBeforeLarge
  <2>1. /\ UNCHANGED <<traces, i>> /\ batch' = {} /\ chunks' = ChunkKeys(i)
        /\ pc = "flushLarge" /\ pc' = "chunks" /\ SendSucceeds(SpansOf(batch))
    BY <1>3 DEF FlushBeforeLarge
  <2>2. ~Begun /\ Begun' /\ i \in DOMAIN traces
    BY <1>0, <2>1 DEF PassInv, ControlInv, Begun
  <2>3. /\ RequestsInv' /\ Delivered' = SpansOf(1..(i - 1))
        /\ \A t \in 1..(i - 1) : Whole(t)'
    BY <2>1, <2>2, Flushed
  <2>4. Behind' = 1..(i - 1) /\ SpansOf(Behind)' = SpansOf(1..(i - 1))
    <3>1. Behind' = 1..(i - 1)
      BY <2>1 DEF Behind
    <3>2. QED
      BY <2>1, <3>1 DEF SpansOf, ImmediateSpans, ScopeSpans
  <2>5. (ImmediateSpans(i) \ Remaining)' = {}
    <3>1. ImmediateSpans(i) \subseteq UNION {ChunkSpans(c) : c \in ChunkKeys(i)}
      BY <1>0, <2>2, ChunksCover DEF ChunkSpans
    <3>2. ImmediateSpans(i)' = ImmediateSpans(i)
      BY <2>1, SameSpans
    <3>3. Remaining' = UNION {ChunkSpans(c) : c \in ChunkKeys(i)}
      BY <2>1 DEF Remaining, ChunkSpans, Chunk, ScopeSpans
    <3>4. QED
      BY <3>1, <3>2, <3>3
  <2>6. QED
    BY <2>2, <2>3, <2>4, <2>5 DEF DeliveryInv
<1>4. ASSUME NEW c \in chunks, SendChunk(c) PROVE RequestsInv' /\ DeliveryInv'
  <2>1. /\ UNCHANGED <<traces, i, pc, batch>> /\ pc = "chunks" /\ chunks' = chunks \ {c}
        /\ SendSucceeds(ChunkSpans(c))
    BY <1>4 DEF SendChunk, ChunkSpans
  <2>2. Begun /\ Begun'
    BY <2>1 DEF Begun
  <2>3. /\ Sendable(ChunkSpans(c)) /\ ChunkSpans(c) \subseteq ImmediateSpans(i)
        /\ \A d \in chunks \ {c} : ChunkSpans(c) \cap ChunkSpans(d) = {}
    BY ChunkSendable
  <2>4. /\ RequestsInv' /\ Delivered' = Delivered \cup ChunkSpans(c)
        /\ \A k \in DOMAIN requests : k \in DOMAIN requests' /\ requests'[k] = requests[k]
    BY <1>0, <2>1, <2>3, Sent
  <2>5. Behind' = Behind /\ SpansOf(Behind)' = SpansOf(Behind)
    <3>1. Behind' = Behind
      BY <2>1 DEF Behind
    <3>2. QED
      BY <2>1, <3>1 DEF SpansOf, ImmediateSpans, ScopeSpans
  <2>6. (ImmediateSpans(i) \ Remaining)' = (ImmediateSpans(i) \ Remaining) \cup ChunkSpans(c)
    <3>1. ImmediateSpans(i)' = ImmediateSpans(i)
      BY <2>1, SameSpans
    <3>2. Remaining' = UNION {ChunkSpans(d) : d \in chunks \ {c}}
      BY <2>1 DEF Remaining, ChunkSpans, Chunk, ScopeSpans
    <3>3. Remaining = Remaining' \cup ChunkSpans(c) /\ Remaining' \cap ChunkSpans(c) = {}
      BY <2>3, <3>2 DEF Remaining
    <3>4. QED
      BY <2>3, <3>1, <3>3
  <2>7. \A t \in Behind : Whole(t)'
    BY <2>1, <2>4, SameSpans DEF DeliveryInv, Whole
  <2>8. QED
    BY <2>2, <2>4, <2>5, <2>6, <2>7 DEF DeliveryInv
<1>5. CASE LargeDone
  <2>1. /\ UNCHANGED <<traces, batch, chunks, requests, recorded>> /\ i' = i + 1
        /\ pc' = "next" /\ pc = "chunks" /\ chunks = {}
    BY <1>5 DEF LargeDone
  <2>2. /\ Begun /\ ~Begun' /\ Remaining = {} /\ batch = {} /\ IsLarge(i)
    BY <2>1 DEF PassInv, ControlInv, Begun, Remaining
  <2>3. RequestsInv' /\ Delivered' = Delivered /\ \A t : Whole(t) => Whole(t)'
    BY <2>1, NotSent
  <2>4. Behind' = Behind \cup {i}
    BY <1>0, <2>1, <2>2 DEF Behind
  <2>5. Delivered' = SpansOf(Behind \cup {i})
    BY <2>2, <2>3 DEF DeliveryInv, SpansOf
  <2>6. \A t \in Behind \cup {i} : Whole(t)'
    <3>1. Whole(i)
      BY <2>2 DEF Whole
    <3>2. QED
      BY <2>3, <3>1 DEF DeliveryInv
  <2>7. QED
    BY <2>1, <2>2, <2>3, <2>4, <2>5, <2>6, NowBehind
<1>6. CASE FinalFlush
  <2>1. /\ UNCHANGED <<traces, i, chunks>> /\ batch' = {} /\ pc = "next" /\ pc' = "ok"
        /\ SendSucceeds(SpansOf(batch))
    BY <1>6 DEF FinalFlush
  <2>2. ~Begun /\ ~Begun'
    BY <2>1 DEF PassInv, ControlInv, Begun
  <2>3. Behind' = 1..(i - 1)
    BY <2>1 DEF Behind
  <2>4. QED
    BY <2>1, <2>2, <2>3, Flushed, NowBehind
<1>7. CASE SeeCancelled \/ AddToBatchFails \/ FlushBeforeLargeFails \/ ChunkFails \/ FinalFlushFails
  <2>1. UNCHANGED <<traces, i, batch, chunks, requests, recorded>> /\ pc' = "error"
    BY <1>7 DEF SeeCancelled, AddToBatchFails, FlushBeforeLargeFails, ChunkFails,
                FinalFlushFails, SendFails
  <2>2. Begun' <=> Begun
    BY <1>7, <2>1 DEF SeeCancelled, AddToBatchFails, FlushBeforeLargeFails, ChunkFails,
                      FinalFlushFails, Begun
  <2>3. QED
    BY <2>1, <2>2, SameDelivery
<1>8. CASE Cancel \/ UNCHANGED vars
  <2>1. UNCHANGED <<traces, i, batch, chunks, requests, recorded, pc>>
    BY <1>8 DEF Cancel, vars
  <2>2. Begun' <=> Begun
    BY <2>1 DEF Begun
  <2>3. QED
    BY <2>1, <2>2, SameDelivery
<1>9. QED
  BY <1>1, <1>2, <1>3, <1>4, <1>5, <1>6, <1>7, <1>8 DEF Next

--------------------------------------------------------------------------------
(* What has been handed to the scheduler *)

LateUpTo(n) == {t \in DOMAIN traces : t <= n /\ traces[t].late}

\* The late spans of every trace behind the pass have been handed over, those of the trace
\* being handled as soon as it is past the check of the context.
HandedInv ==
  /\ enqueued \in Seq(DOMAIN traces) /\ OnceInOrder
  /\ HandedOver \in {LateUpTo(i - 1), LateUpTo(i)}
  /\ pc \in {"next", "ok"} => HandedOver = LateUpTo(i - 1)
  /\ pc \in {"makeRoom", "flushLarge"} \/ Begun => HandedOver = LateUpTo(i)

\* Nothing has been handed over when a pass starts.
LEMMA InitHanded == Init => HandedInv
<1> SUFFICES ASSUME Init PROVE HandedInv
  OBVIOUS
<1>1. IsInput /\ i = 1 /\ enqueued = <<>> /\ DOMAIN enqueued = {} /\ ~Begun
      /\ pc \in {"next", "ok"}
  BY InitPassInv DEF Init, PassInv, PassTypeOK, Begun
<1>2. LateUpTo(0) = {} /\ HandedOver = {}
  <2>1. DOMAIN traces = 1..Len(traces) /\ Len(traces) \in Nat
    BY <1>1 DEF IsInput
  <2>2. QED
    BY <1>1, <2>1 DEF LateUpTo, HandedOver
<1>3. QED
  BY <1>1, <1>2 DEF HandedInv, OnceInOrder

\* A trace is handed over after those before it.
LEMMA HandedAppended ==
  ASSUME PassTypeOK, HandedInv, i \in DOMAIN traces, HandedOver = LateUpTo(i - 1),
         traces[i].late, enqueued' = Append(enqueued, i), UNCHANGED traces
  PROVE  /\ enqueued' \in Seq(DOMAIN traces) /\ OnceInOrder'
         /\ HandedOver' = LateUpTo(i)
<1> DEFINE n == Len(enqueued) + 1
<1>0. DOMAIN traces = 1..Len(traces) /\ Len(traces) \in Nat /\ i \in Nat
  BY DEF PassTypeOK, IsInput
<1>1. /\ enqueued' \in Seq(DOMAIN traces) /\ DOMAIN enqueued' = 1..n /\ n \in DOMAIN enqueued'
      /\ enqueued'[n] = i
      /\ \A k \in DOMAIN enqueued : k \in DOMAIN enqueued' /\ enqueued'[k] = enqueued[k] /\ k < n
      /\ \A k \in DOMAIN enqueued' : k \in Nat /\ (k \in DOMAIN enqueued \/ k = n) /\ k <= n
      /\ n \in Nat /\ n \notin DOMAIN enqueued
  BY DEF HandedInv
<1> HIDE DEF n
<1>2. \A k \in DOMAIN enqueued : enqueued[k] < i
  <2>1. \A k \in DOMAIN enqueued : enqueued[k] \in LateUpTo(i - 1)
    BY DEF HandedOver
  <2>2. \A t \in LateUpTo(i - 1) : t \in Nat /\ t <= i - 1
    BY <1>0 DEF LateUpTo
  <2>3. QED
    BY <1>0, <2>1, <2>2
<1>3. HandedOver' = HandedOver \cup {i}
  BY <1>1 DEF HandedOver
<1>4. LateUpTo(i) = LateUpTo(i - 1) \cup {i}
  BY <1>0 DEF LateUpTo
<1>5. ASSUME NEW j \in DOMAIN enqueued', NEW k \in DOMAIN enqueued', j < k
      PROVE  enqueued'[j] < enqueued'[k]
  <2>1. CASE k \in DOMAIN enqueued
    <3>1. j # n
      BY <1>1, <1>5, <2>1
    <3>2. QED
      BY <1>1, <1>5, <2>1, <3>1 DEF HandedInv, OnceInOrder
  <2>2. CASE k = n
    <3>1. j # n
      BY <1>1, <1>5, <2>2
    <3>2. QED
      BY <1>1, <1>2, <2>2, <3>1
  <2>3. QED
    BY <1>1, <2>1, <2>2
<1>6. QED
  BY <1>1, <1>3, <1>4, <1>5 DEF OnceInOrder

\* Every step hands over the late spans of the trace it takes, or none.
LEMMA HandedStep == PassInv /\ HandedInv /\ [Next]_vars => HandedInv'
<1> SUFFICES ASSUME PassInv, HandedInv, [Next]_vars PROVE HandedInv'
  OBVIOUS
<1>0. /\ IsInput /\ Len(traces) \in Nat /\ i \in 1..(Len(traces) + 1) /\ i \in Nat
      /\ DOMAIN traces = 1..Len(traces)
  BY DEF PassInv, PassTypeOK, IsInput
<1>1. CASE TakeTrace
  <2>1. /\ UNCHANGED <<traces, chunks>> /\ pc = "next" /\ i \in DOMAIN traces
        /\ enqueued' = (IF traces[i].late THEN Append(enqueued, i) ELSE enqueued)
        /\ \/ i' = i + 1 /\ pc' = "next"
           \/ UNCHANGED i /\ pc' \in {"flushLarge", "makeRoom"}
    BY <1>0, <1>1 DEF TakeTrace
  <2>2. ~Begun' /\ HandedOver = LateUpTo(i - 1)
    BY <2>1 DEF PassInv, ControlInv, Begun, HandedInv
  <2>3. /\ enqueued' \in Seq(DOMAIN traces) /\ OnceInOrder'
        /\ HandedOver' = LateUpTo(i)
    <3>1. CASE traces[i].late
      BY <2>1, <2>2, <3>1, HandedAppended DEF PassInv
    <3>2. CASE ~traces[i].late
      <4>1. LateUpTo(i) = LateUpTo(i - 1)
        BY <1>0, <3>2 DEF LateUpTo
      <4>2. UNCHANGED enqueued
        BY <2>1, <3>2
      <4>3. QED
        BY <2>2, <4>1, <4>2 DEF HandedInv, OnceInOrder, HandedOver
    <3>3. QED
      BY <3>1, <3>2
  <2>4. CASE i' = i + 1 /\ pc' = "next"
    <3>1. i' - 1 = i
      BY <1>0, <2>4
    <3>2. LateUpTo(i - 1)' = LateUpTo(i)
      BY <2>1, <3>1 DEF LateUpTo
    <3>3. QED
      BY <2>1, <2>2, <2>3, <2>4, <3>2 DEF HandedInv
  <2>5. CASE UNCHANGED i /\ pc' \in {"flushLarge", "makeRoom"}
    <3>1. LateUpTo(i)' = LateUpTo(i)
      BY <2>1, <2>5 DEF LateUpTo
    <3>2. QED
      BY <2>1, <2>2, <2>3, <2>5, <3>1 DEF HandedInv
  <2>6. QED
    BY <2>1, <2>4, <2>5
<1>2. CASE AddToBatch \/ LargeDone
  <2>1. /\ UNCHANGED <<traces, enqueued, chunks>> /\ i' = i + 1 /\ pc' = "next"
        /\ pc = "makeRoom" \/ (pc = "chunks" /\ chunks = {})
    BY <1>2 DEF AddToBatch, LargeDone
  <2>2. ~Begun' /\ HandedOver = LateUpTo(i)
    BY <2>1 DEF PassInv, ControlInv, Begun, HandedInv
  <2>3. i' - 1 = i
    BY <1>0, <2>1
  <2>4. LateUpTo(i - 1)' = LateUpTo(i) /\ HandedOver' = HandedOver /\ OnceInOrder' = OnceInOrder
    BY <2>1, <2>3 DEF LateUpTo, HandedOver, OnceInOrder
  <2>5. QED
    BY <2>1, <2>2, <2>4 DEF HandedInv
<1>3. CASE \/ FlushBeforeLarge \/ \E c \in chunks : SendChunk(c)
           \/ FinalFlush \/ SeeCancelled
           \/ AddToBatchFails \/ FlushBeforeLargeFails \/ ChunkFails \/ FinalFlushFails
           \/ Cancel \/ UNCHANGED vars
  <2>1. UNCHANGED <<traces, i, enqueued>>
    BY <1>3 DEF FlushBeforeLarge, SendChunk, FinalFlush, SeeCancelled, AddToBatchFails,
                FlushBeforeLargeFails, ChunkFails, FinalFlushFails, Cancel, vars
  <2>2. /\ pc' \in {"next", "ok"} => pc \in {"next", "ok"}
        /\ pc' \in {"makeRoom", "flushLarge"} \/ Begun'
             => pc \in {"makeRoom", "flushLarge"} \/ Begun
    BY <1>3 DEF FlushBeforeLarge, SendChunk, FinalFlush, SeeCancelled, AddToBatchFails,
                FlushBeforeLargeFails, ChunkFails, FinalFlushFails, SendFails, Cancel, vars, Begun
  <2>3. /\ LateUpTo(i - 1)' = LateUpTo(i - 1) /\ LateUpTo(i)' = LateUpTo(i)
        /\ HandedOver' = HandedOver /\ OnceInOrder' = OnceInOrder
    BY <2>1 DEF LateUpTo, HandedOver, OnceInOrder
  <2>4. QED
    BY <2>1, <2>2, <2>3 DEF HandedInv
<1>4. QED
  BY <1>1, <1>2, <1>3 DEF Next

--------------------------------------------------------------------------------
(* Why a request ended *)

Last == requests[Len(requests)]

\* The next trace of a request could not have joined the one before: known as soon as
\* the batch has its first trace, or a large trace has been sent.
CutInv ==
  /\ NoNeedlessFlush
  /\ requests # <<>> =>
       /\ \A t \in batch : IsFirst(t, batch) => Cut(Last, t)
       /\ batch = {} /\ pc \in {"next", "makeRoom", "flushLarge"}
            => \E t \in TracesIn(Last) : IsLarge(t)
       /\ pc = "chunks" /\ chunks # ChunkKeys(i) => i \in TracesIn(Last)

\* The large traces are the same, so what was cut stays cut.
LEMMA SameCut ==
  ASSUME UNCHANGED traces
  PROVE  /\ \A r, t : Cut(r, t)' <=> Cut(r, t)
         /\ \A r : TracesIn(r)' = TracesIn(r)
         /\ \A t, T : IsFirst(t, T)' <=> IsFirst(t, T)
BY DEF Cut, TracesIn, IsFirst, IsLarge, ImmediateSpans, ScopeSpans

\* What a send that succeeds does to the last request.
LEMMA CutSent ==
  ASSUME RequestsInv, NoNeedlessFlush, NEW S, SendSucceeds(S), UNCHANGED traces,
         requests # <<>> => \A t : IsFirst(t, TracesIn(S)) => Cut(Last, t)
  PROVE  /\ NoNeedlessFlush'
         /\ S = {} => UNCHANGED requests
         /\ S # {} => Last' = S
<1>1. CASE S = {}
  <2>1. UNCHANGED requests
    BY <1>1 DEF SendSucceeds
  <2>2. QED
    BY <1>1, <2>1, SameCut DEF NoNeedlessFlush
<1>2. CASE S # {}
  <2>1. requests' = Append(requests, S)
    BY <1>2 DEF SendSucceeds
  <2>2. /\ Len(requests) \in Nat /\ DOMAIN requests = 1..Len(requests)
        /\ Len(requests') = Len(requests) + 1 /\ requests'[Len(requests) + 1] = S
        /\ \A k \in DOMAIN requests : requests'[k] = requests[k]
    BY <2>1 DEF RequestsInv
  <2>3. Last' = S
    BY <2>2 DEF Last
  <2>4. ASSUME NEW k \in 1..(Len(requests') - 1), NEW t \in TracesIn(requests'[k + 1]),
               IsFirst(t, TracesIn(requests'[k + 1]))
        PROVE  Cut(requests'[k], t)
    <3>1. CASE k + 1 \in DOMAIN requests
      <4>1. k \in 1..(Len(requests) - 1) /\ k \in DOMAIN requests
        BY <2>2, <3>1
      <4>2. requests'[k + 1] = requests[k + 1] /\ requests'[k] = requests[k]
        BY <2>2, <3>1, <4>1
      <4>3. QED
        BY <2>4, <4>1, <4>2 DEF NoNeedlessFlush
    <3>2. CASE k = Len(requests)
      <4>1. requests # <<>> /\ k \in DOMAIN requests
        BY <2>2, <3>2
      <4>2. requests'[k] = Last /\ requests'[k + 1] = S
        BY <2>2, <3>2, <4>1 DEF Last
      <4>3. QED
        BY <2>4, <4>1, <4>2
    <3>3. k + 1 \in DOMAIN requests \/ k = Len(requests)
      <4>1. Len(requests') - 1 = Len(requests) /\ Len(requests) \in Nat
        BY <2>2
      <4>2. k \in 1..Len(requests)
        BY <4>1
      <4>3. k + 1 \in 1..Len(requests) \/ k = Len(requests)
        BY <4>1, <4>2
      <4>4. 1..Len(requests) = DOMAIN requests
        BY <2>2
      <4>5. QED
        BY <4>3, <4>4
    <3>4. QED
      BY <3>1, <3>2, <3>3
  <2>5. NoNeedlessFlush'
    BY <2>4, SameCut DEF NoNeedlessFlush
  <2>6. QED
    BY <1>2, <2>3, <2>5
<1>3. QED
  BY <1>1, <1>2

\* There is no request to account for when a pass starts.
LEMMA InitCut == Init => CutInv
BY DEF Init, CutInv, NoNeedlessFlush

\* A flush of the batch is owed to the first trace after the request before it.
LEMMA BatchCut ==
  ASSUME PassInv, RequestsInv, CutInv, SendSucceeds(SpansOf(batch)), UNCHANGED traces
  PROVE  /\ NoNeedlessFlush'
         /\ batch = {} => UNCHANGED requests
         /\ batch # {} => Last' = SpansOf(batch) /\ TracesIn(SpansOf(batch)) = batch
<1>1. TracesIn(SpansOf(batch)) = batch
  BY TracesOfSpans DEF PassInv, BatchInv
<1>2. SpansOf(batch) = {} <=> batch = {}
  BY BatchHasSpans DEF PassInv
<1>3. requests # <<>> => \A t : IsFirst(t, TracesIn(SpansOf(batch))) => Cut(Last, t)
  BY <1>1 DEF CutInv, IsFirst
<1>4. QED
  BY <1>1, <1>2, <1>3, CutSent DEF CutInv

\* The trace being handled joins the batch, or begins the next one.
LEMMA AddToBatchCut == PassInv /\ RequestsInv /\ CutInv /\ AddToBatch => CutInv'
<1> SUFFICES ASSUME PassInv, RequestsInv, CutInv, AddToBatch PROVE CutInv'
  OBVIOUS
<1>0. /\ IsInput /\ i \in Nat /\ batch \in SUBSET DOMAIN traces /\ \A b \in batch : b \in Nat /\ b < i
      /\ UNCHANGED <<traces, chunks>> /\ pc = "makeRoom" /\ pc' = "next"
  BY DEF PassInv, PassTypeOK, BatchInv, IsInput, AddToBatch
<1>1. CASE MustFlush
  <2>1. batch # {} /\ batch' = {i} /\ SendSucceeds(SpansOf(batch)) /\ WouldExceed
    BY <1>1 DEF AddToBatch, MustFlush
  <2>2. NoNeedlessFlush' /\ Last' = SpansOf(batch) /\ TracesIn(SpansOf(batch)) = batch
    BY <1>0, <2>1, BatchCut
  <2>3. Cut(SpansOf(batch), i)
    <3>1. Cardinality(batch) \in Nat /\ Cardinality(SpansOf(batch)) \in Nat
      BY <1>0, SpansOfFinite
    <3>2. Cardinality(batch) <= BatchSize /\ spanCount = Cardinality(SpansOf(batch))
      BY DEF PassInv, BatchInv
    <3>3. CASE Cardinality(batch) >= BatchSize
      BY <2>2, <3>1, <3>2, <3>3, BatchAssumption DEF Cut
    <3>4. CASE spanCount + Cardinality(ImmediateSpans(i)) > MaxSpansPerBatch
      BY <3>2, <3>4 DEF Cut
    <3>5. QED
      BY <2>1, <3>3, <3>4 DEF WouldExceed
  <2>4. \A t \in batch' : Cut(Last', t)
    BY <2>1, <2>2, <2>3
  <2>5. QED
    BY <1>0, <2>1, <2>2, <2>4, SameCut DEF CutInv
<1>2. CASE ~MustFlush
  <2>1. batch' = batch \cup {i} /\ UNCHANGED requests
    BY <1>2 DEF AddToBatch
  <2>2. Last' = Last /\ (NoNeedlessFlush' <=> NoNeedlessFlush)
    BY <1>0, <2>1, SameCut DEF Last, NoNeedlessFlush
  <2>3. ASSUME requests # <<>>, NEW t \in batch', IsFirst(t, batch') PROVE Cut(Last, t)
    <3>1. CASE batch = {}
      BY <1>0, <2>1, <2>3, <3>1 DEF CutInv, Cut
    <3>2. CASE batch # {}
      <4>1. t # i
        BY <1>0, <2>1, <2>3, <3>2 DEF IsFirst
      <4>2. t \in batch /\ IsFirst(t, batch)
        BY <2>1, <2>3, <4>1 DEF IsFirst
      <4>3. QED
        BY <2>3, <4>2 DEF CutInv
    <3>3. QED
      BY <3>1, <3>2
  <2>4. QED
    BY <1>0, <2>1, <2>2, <2>3, SameCut DEF CutInv
<1>3. QED
  BY <1>1, <1>2

\* Every step ends a request for a reason, or ends none.
LEMMA CutStep == PassInv /\ RequestsInv /\ CutInv /\ [Next]_vars => CutInv'
<1> SUFFICES ASSUME PassInv, RequestsInv, CutInv, [Next]_vars PROVE CutInv'
  OBVIOUS
<1>0. /\ IsInput /\ Len(traces) \in Nat /\ i \in 1..(Len(traces) + 1) /\ i \in Nat
      /\ DOMAIN traces = 1..Len(traces)
  BY DEF PassInv, PassTypeOK, IsInput
<1>1. CASE AddToBatch
  BY <1>1, AddToBatchCut
<1>2. CASE FlushBeforeLarge
  <2>1. /\ UNCHANGED <<traces, i>> /\ batch' = {} /\ chunks' = ChunkKeys(i) /\ pc' = "chunks"
        /\ SendSucceeds(SpansOf(batch))
    BY <1>2 DEF FlushBeforeLarge
  <2>2. NoNeedlessFlush' /\ ChunkKeys(i)' = ChunkKeys(i)
    BY <2>1, BatchCut, SameSpans
  <2>3. QED
    BY <2>1, <2>2 DEF CutInv
<1>3. CASE FinalFlush
  <2>1. /\ UNCHANGED traces /\ batch' = {} /\ pc' = "ok" /\ SendSucceeds(SpansOf(batch))
    BY <1>3 DEF FinalFlush
  <2>2. NoNeedlessFlush'
    BY <2>1, BatchCut
  <2>3. QED
    BY <2>1, <2>2 DEF CutInv
<1>4. ASSUME NEW c \in chunks, SendChunk(c) PROVE CutInv'
  <2>1. /\ UNCHANGED <<traces, i, pc, batch>> /\ pc = "chunks" /\ SendSucceeds(ChunkSpans(c))
    BY <1>4 DEF SendChunk, ChunkSpans
  <2>2. i \in DOMAIN traces /\ c \in ChunkKeys(i) /\ IsLarge(i) /\ batch = {}
    BY <1>0, <2>1 DEF PassInv, ControlInv
  <2>3. TracesIn(ChunkSpans(c)) = {i}
    BY <1>0, <2>2, ChunkSize DEF ChunkSpans
  <2>4. ChunkSpans(c) # {}
    BY <2>3 DEF TracesIn
  <2>5. \A t : IsFirst(t, TracesIn(ChunkSpans(c))) => Cut(Last, t)
    BY <2>2, <2>3 DEF IsFirst, Cut
  <2>6. NoNeedlessFlush' /\ Last' = ChunkSpans(c)
    BY <2>1, <2>4, <2>5, CutSent DEF CutInv
  <2>7. i' \in TracesIn(Last)'
    BY <2>1, <2>3, <2>6, SameCut
  <2>8. QED
    BY <2>1, <2>2, <2>6, <2>7 DEF CutInv
<1>5. CASE LargeDone
  <2>1. /\ UNCHANGED <<traces, batch, chunks, requests>> /\ pc' = "next" /\ pc = "chunks"
        /\ chunks = {}
    BY <1>5 DEF LargeDone
  <2>2. i \in DOMAIN traces /\ IsLarge(i) /\ batch = {}
    BY <1>0, <2>1 DEF PassInv, ControlInv
  <2>3. ChunkKeys(i) # {}
    <3>1. ImmediateSpans(i) # {}
      <4>1. CASE ImmediateSpans(i) = {}
        BY <2>2, <4>1, FS_EmptySet, BatchAssumption DEF IsLarge
      <4>2. QED
        BY <4>1
    <3>2. PICK sp : sp \in ImmediateSpans(i)
      BY <3>1
    <3>3. QED
      BY <1>0, <2>2, <3>2, ChunksCover
  <2>4. Last' = Last /\ (NoNeedlessFlush' <=> NoNeedlessFlush)
    BY <2>1, SameCut DEF Last, NoNeedlessFlush
  <2>5. requests # <<>> => \E t \in TracesIn(Last) : IsLarge(t)
    BY <2>1, <2>2, <2>3 DEF CutInv
  <2>6. QED
    BY <2>1, <2>2, <2>4, <2>5, SameCut, SameSpans DEF CutInv
<1>6. CASE \/ TakeTrace \/ SeeCancelled
           \/ AddToBatchFails \/ FlushBeforeLargeFails \/ ChunkFails \/ FinalFlushFails
           \/ Cancel \/ UNCHANGED vars
  <2>1. UNCHANGED <<traces, batch, chunks, requests>>
    BY <1>6 DEF TakeTrace, SeeCancelled, AddToBatchFails, FlushBeforeLargeFails,
                ChunkFails, FinalFlushFails, SendFails, Cancel, vars
  <2>2. \/ pc = "next" /\ pc' \in {"next", "makeRoom", "flushLarge"}
        \/ pc' = "error"
        \/ UNCHANGED <<pc, i>>
    BY <1>6 DEF TakeTrace, SeeCancelled, AddToBatchFails, FlushBeforeLargeFails,
                ChunkFails, FinalFlushFails, SendFails, Cancel, vars
  <2>3. Last' = Last /\ (NoNeedlessFlush' <=> NoNeedlessFlush)
    BY <2>1, SameCut DEF Last, NoNeedlessFlush
  <2>4. QED
    BY <2>1, <2>2, <2>3, SameCut, SameSpans DEF CutInv
<1>7. QED
  BY <1>1, <1>2, <1>3, <1>4, <1>5, <1>6 DEF Next

--------------------------------------------------------------------------------
(* The properties of the runs *)

\* Everything above at once; each part is kept with the help of those before it.
SendInv == PassInv /\ RequestsInv /\ DeliveryInv /\ HandedInv /\ CutInv

\* The whole invariant holds when sendTraces is called.
LEMMA InitSendInv == Init => SendInv
BY InitPassInv, InitDelivery, InitHanded, InitCut DEF SendInv

\* Every step of sendTraces keeps the whole invariant.
LEMMA SendInvStep == SendInv /\ [Next]_vars => SendInv'
BY PassInvStep, DeliveryStep, HandedStep, CutStep DEF SendInv

\* At all times, whatever export fails and whenever the context is cancelled: the batch
\* agrees with its counters, the spans delivered are those of the traces behind the pass,
\* and every trace whose late spans are due has been handed to the scheduler.
THEOREM Invariance == Spec => []SendInv
BY InitSendInv, SendInvStep, PTL DEF Spec

\* The invariant gives the types, the span count bounded by what the batch holds.
LEMMA TypeFollows == SendInv => TypeOK
<1> SUFFICES ASSUME SendInv PROVE TypeOK
  OBVIOUS
<1>1. spanCount \in 0..MaxSpansPerBatch
  BY BatchAssumption DEF SendInv, PassInv, PassTypeOK, BatchInv
<1>2. ctxDone \in BOOLEAN
  BY Zenon DEF SendInv, PassInv, PassTypeOK
<1>3. requests \in Seq(SUBSET SpansOf(DOMAIN traces)) /\ recorded \in Nat
  BY DEF SendInv, RequestsInv
<1>4. enqueued \in Seq(DOMAIN traces)
  BY DEF SendInv, HandedInv
<1>5. /\ traces \in Seq(Template) /\ i \in 1..(Len(traces) + 1) /\ pc \in PcStates
      /\ batch \subseteq DOMAIN traces /\ chunks \subseteq Nat \X Nat
  BY DEF SendInv, PassInv, PassTypeOK, IsInput
<1>6. QED
  BY <1>1, <1>2, <1>3, <1>4, <1>5, Zenon DEF TypeOK

\* The variables of a pass keep their types: sendTraces handles the traces of the input
\* one after the other, its span count never exceeds the message limit, and it exports
\* and hands over only what the input has.
THEOREM TypeCorrect == Spec => []TypeOK
BY Invariance, TypeFollows, PTL

\* Whatever the templates are, no request of sendTraces exceeds the message limit or
\* batch_size.traces, and none is empty.
THEOREM RequestsWithinLimits == Spec => []RequestsBounded
<1>1. SendInv => RequestsBounded
  BY DEF SendInv, RequestsInv
<1>2. QED
  BY <1>1, Invariance, PTL

\* A pass never delivers a span twice, and the reporter's count is the number of spans
\* delivered, also after an error.
THEOREM NothingTwice == Spec => []DeliveredOnce
<1>1. SendInv => DeliveredOnce
  BY DEF SendInv, RequestsInv
<1>2. QED
  BY <1>1, Invariance, PTL

\* The traces of which something has been delivered are behind the pass, or are the large
\* trace being sent.
LEMMA DeliveredTraces ==
  ASSUME SendInv, NEW t \in TracesIn(Delivered)
  PROVE  (t \in Behind /\ ImmediateSpans(t) # {}) \/ (Begun /\ t = i)
<1>1. PICK sp \in Delivered : t = sp[1]
  BY DEF TracesIn
<1>2. CASE sp \in SpansOf(Behind)
  <2>1. sp[1] \in Behind /\ sp \in ImmediateSpans(sp[1])
    BY <1>2, InSpansOf
  <2>2. QED
    BY <1>1, <2>1
<1>3. CASE Begun /\ sp \in ImmediateSpans(i)
  BY <1>1, <1>3, SpanOf
<1>4. QED
  BY <1>1, <1>2, <1>3 DEF SendInv, DeliveryInv

\* At the return of nil everything is behind the pass and the batch is empty.
LEMMA CompleteFollows == SendInv => PassComplete
<1> SUFFICES ASSUME SendInv, pc = "ok"
             PROVE  /\ Delivered = SpansOf(DOMAIN traces)
                    /\ HandedOver = {t \in DOMAIN traces : traces[t].late} /\ OnceInOrder
  BY DEF PassComplete
<1>1. /\ DOMAIN traces = 1..Len(traces) /\ Len(traces) \in Nat /\ i = Len(traces) + 1
      /\ batch = {} /\ ~Begun
  BY DEF SendInv, PassInv, PassTypeOK, ControlInv, IsInput, Begun
<1>2. Behind = DOMAIN traces
  BY <1>1 DEF Behind
<1>3. LateUpTo(i - 1) = {t \in DOMAIN traces : traces[t].late}
  BY <1>1 DEF LateUpTo
<1>4. QED
  BY <1>1, <1>2, <1>3 DEF SendInv, DeliveryInv, HandedInv

\* When sendTraces returns nil, every immediate span of the templates has been delivered
\* and the late spans of every trace handed over once, in order.
THEOREM CompleteWhenNil == Spec => []PassComplete
BY Invariance, CompleteFollows, PTL

\* What is delivered is what is behind the pass, so traces go whole and in order.
LEMMA WholeFollows == SendInv => WholeTracesInOrder
<1> SUFFICES ASSUME SendInv PROVE WholeTracesInOrder
  OBVIOUS
<1>1. ASSUME NEW t \in TracesIn(Delivered) PROVE SpansOf(1..(t - 1)) \subseteq Delivered
  <2>1. ASSUME NEW sp \in SpansOf(1..(t - 1)) PROVE sp \in SpansOf(Behind)
    <3>1. sp[1] \in 1..(t - 1) /\ sp \in ImmediateSpans(sp[1])
      BY <2>1, InSpansOf
    <3>2. t \in Nat /\ t <= i /\ i \in Nat /\ \A b \in batch : t <= b /\ b \in Nat
      <4>1. CASE t \in Behind /\ ImmediateSpans(t) # {}
        BY <4>1 DEF SendInv, PassInv, PassTypeOK, BatchInv, Behind, IsInput
      <4>2. CASE Begun /\ t = i
        BY <4>2 DEF SendInv, PassInv, PassTypeOK, ControlInv, Begun, IsInput
      <4>3. QED
        BY <4>1, <4>2, DeliveredTraces
    <3>3. sp[1] \in Behind
      BY <3>1, <3>2 DEF Behind
    <3>4. QED
      BY <3>1, <3>3, InSpansOf
  <2>2. QED
    BY <2>1 DEF SendInv, DeliveryInv
<1>2. ASSUME NEW t \in TracesIn(Delivered), ~IsLarge(t)
      PROVE  \E k \in DOMAIN requests : ImmediateSpans(t) \subseteq requests[k]
  <2>1. t \in Behind /\ ImmediateSpans(t) # {}
    BY <1>2, DeliveredTraces DEF SendInv, PassInv, ControlInv, Begun
  <2>2. QED
    BY <1>2, <2>1 DEF SendInv, DeliveryInv, Whole
<1>3. QED
  BY <1>1, <1>2 DEF WholeTracesInOrder

\* At any moment, and however the pass ends, traces have been delivered whole and in
\* order: only one over the message limit is spread over several requests.
THEOREM WholeAndInOrder == Spec => []WholeTracesInOrder
BY Invariance, WholeFollows, PTL

\* What is delivered or in the batch is behind the pass, so its late spans have been handed over.
LEMMA HandedFollows == SendInv => LateHandedOver
<1> SUFFICES ASSUME SendInv PROVE LateHandedOver
  OBVIOUS
<1>0. /\ DOMAIN traces = 1..Len(traces) /\ Len(traces) \in Nat /\ i \in Nat
      /\ i <= Len(traces) + 1 /\ batch \subseteq 1..(i - 1) /\ (Begun => i \in DOMAIN traces)
      /\ i >= 1
  BY DEF SendInv, PassInv, PassTypeOK, BatchInv, ControlInv, IsInput, Begun
<1>1. ASSUME NEW t \in TracesIn(Delivered) \cup batch, traces[t].late PROVE t \in HandedOver
  <2>1. t \in 1..(i - 1) \/ (Begun /\ t = i)
    BY <1>0, DeliveredTraces DEF Behind
  <2>2. CASE t \in 1..(i - 1)
    <3>1. t \in LateUpTo(i - 1) /\ t \in LateUpTo(i)
      BY <1>0, <1>1, <2>2 DEF LateUpTo
    <3>2. QED
      BY <3>1 DEF SendInv, HandedInv
  <2>3. CASE Begun /\ t = i
    BY <1>0, <1>1, <2>3 DEF SendInv, HandedInv, LateUpTo
  <2>4. QED
    BY <2>1, <2>2, <2>3
<1>2. QED
  BY <1>1 DEF LateHandedOver, SendInv, HandedInv

\* By the time a span of a trace is delivered, or lost with the batch, the deferred
\* scheduler has the late spans of the trace, once and in order.
THEOREM LateSpansHandedOver == Spec => []LateHandedOver
BY Invariance, HandedFollows, PTL

\* sendTraces cuts a batch only when the next trace does not fit.
THEOREM NoFlushTooEarly == Spec => []NoNeedlessFlush
<1>1. SendInv => NoNeedlessFlush
  BY DEF SendInv, CutInv
<1>2. QED
  BY <1>1, Invariance, PTL
================================================================================
