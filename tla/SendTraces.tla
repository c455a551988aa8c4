------------------------------- MODULE SendTraces -------------------------------
(***************************************************************************)
(* One call of WorkerPool.sendTraces (internal/sender/workers/pool.go): a  *)
(* pass over the trace templates that groups the immediate spans of whole  *)
(* traces into requests, splits a trace too large for one request, hands   *)
(* late spans to the deferred scheduler, and gives up at the first error.  *)
(*                                                                         *)
(* A trace template is the number of spans of each of its scopes that are  *)
(* sent at once, and whether it also has late spans.  A span is named by   *)
(* its trace, its scope and its index there, so that a request is a set of *)
(* spans.  Any rate-limited export may fail, and the context may be        *)
(* cancelled at any time.                                                  *)
(***************************************************************************)
EXTENDS Naturals, Sequences, FiniteSets

CONSTANTS
  Template,          \* the trace templates: records [scopes, late]
  MaxTraces,         \* bound of the model: traces of an input
  MaxSpansPerBatch,  \* the constant of sendTraces, 10000 in the code
  BatchSize,         \* batch_size.traces
  CheckEvery         \* the context is looked at every so many traces, 100 in the code

ASSUME BatchAssumption ==
  /\ MaxSpansPerBatch \in Nat \ {0} /\ BatchSize \in Nat \ {0} /\ CheckEvery \in Nat \ {0}
  /\ \A t \in Template : t.scopes \in Seq(Nat) /\ t.late \in BOOLEAN
  /\ MaxTraces \in Nat

VARIABLES
  traces,    \* p.templates.Traces.ResourceSpans
  i,         \* the trace being handled, counted from 1
  pc,        \* what sendTraces does next
  batch,     \* currentBatch: the traces collected since the last flush
  spanCount, \* currentSpanCount
  chunks,    \* the chunks of a large trace still to be sent
  requests,  \* the requests exported so far
  recorded,  \* spans counted by the reporter
  enqueued,  \* the traces whose late spans were handed over, in order
  ctxDone    \* the context is cancelled

vars == <<traces, i, pc, batch, spanCount, chunks, requests, recorded, enqueued, ctxDone>>

PcStates == {"next", "makeRoom", "flushLarge", "chunks", "ok", "error"}

--------------------------------------------------------------------------------
(* The spans of a trace and the chunks of a large one *)

ScopeSpans(t, s) == {t} \X {s} \X (1..traces[t].scopes[s])

ImmediateSpans(t) == UNION {ScopeSpans(t, s) : s \in DOMAIN traces[t].scopes}

SpansOf(T) == UNION {ImmediateSpans(t) : t \in T}

IsLarge(t) == Cardinality(ImmediateSpans(t)) > MaxSpansPerBatch

\* The spans of one scope from offset on, at most MaxSpansPerBatch of them.
Chunk(t, s, offset) ==
  {sp \in ScopeSpans(t, s) : sp[3] > offset /\ sp[3] <= offset + MaxSpansPerBatch}

\* sendLargeImmediate: scope by scope, in steps of MaxSpansPerBatch.
ChunkKeys(t) ==
  {c \in (DOMAIN traces[t].scopes) \X (0..Cardinality(ImmediateSpans(t))) :
     c[2] * MaxSpansPerBatch < traces[t].scopes[c[1]]}

--------------------------------------------------------------------------------
Init ==
  /\ traces \in UNION {[1..n -> Template] : n \in 0..MaxTraces}
  /\ i = 1
  /\ pc = IF traces = <<>> THEN "ok" ELSE "next"
  /\ batch = {} /\ spanCount = 0 /\ chunks = {}
  /\ requests = <<>> /\ recorded = 0
  /\ enqueued = <<>>
  /\ ctxDone = FALSE

\* sendRawTraceBatch: an empty batch is not sent; the limiter or the exporter fails, or
\* the request is delivered and counted.
SendFails(spans) == spans # {} /\ pc' = "error" /\ UNCHANGED <<requests, recorded>>

SendSucceeds(spans) ==
  IF spans = {} THEN UNCHANGED <<requests, recorded>>
  ELSE /\ requests' = Append(requests, spans)
       /\ recorded' = recorded + Cardinality(spans)

\* Mutant: the late spans of a large trace are forgotten.
TakeTrace_LargeNotLate ==
  /\ pc = "next" /\ i <= Len(traces)
  /\ ~(ctxDone /\ (i - 1) % CheckEvery = 0)
  /\ enqueued' = IF traces[i].late /\ ~IsLarge(i) THEN Append(enqueued, i) ELSE enqueued
  /\ \/ /\ ImmediateSpans(i) = {}
        /\ i' = i + 1
        /\ UNCHANGED pc
     \/ /\ IsLarge(i)
        /\ pc' = "flushLarge"
        /\ UNCHANGED i
     \/ /\ ImmediateSpans(i) # {} /\ ~IsLarge(i)
        /\ pc' = "makeRoom"
        /\ UNCHANGED i
  /\ UNCHANGED <<traces, batch, spanCount, chunks, requests, recorded, ctxDone>>

\* The top of the loop at the trace i, up to the first thing that can block.
TakeTrace ==
  /\ pc = "next" /\ i <= Len(traces)
  /\ ~(ctxDone /\ (i - 1) % CheckEvery = 0)
  /\ enqueued' = IF traces[i].late THEN Append(enqueued, i) ELSE enqueued
  /\ \/ /\ ImmediateSpans(i) = {}
        /\ i' = i + 1
        /\ UNCHANGED pc
     \/ /\ IsLarge(i)
        /\ pc' = "flushLarge"
        /\ UNCHANGED i
     \/ /\ ImmediateSpans(i) # {} /\ ~IsLarge(i)
        /\ pc' = "makeRoom"
        /\ UNCHANGED i
  /\ UNCHANGED <<traces, batch, spanCount, chunks, requests, recorded, ctxDone>>

SeeCancelled ==
  /\ pc = "next" /\ i <= Len(traces)
  /\ ctxDone /\ (i - 1) % CheckEvery = 0
  /\ pc' = "error"
  /\ UNCHANGED <<traces, i, batch, spanCount, chunks, requests, recorded, enqueued, ctxDone>>

\* Mutant: off by one in the number of traces.
WouldExceed_OffByOne ==
  \/ spanCount + Cardinality(ImmediateSpans(i)) > MaxSpansPerBatch
  \/ Cardinality(batch) > BatchSize

\* The trace i joins the batch, which is flushed first if it has no room for it.
WouldExceed ==
  \/ spanCount + Cardinality(ImmediateSpans(i)) > MaxSpansPerBatch
  \/ Cardinality(batch) >= BatchSize

MustFlush == batch # {} /\ WouldExceed

\* Mutant: the span count is not reset by a flush.
AddToBatch_KeepsCount ==
  /\ pc = "makeRoom"
  /\ IF MustFlush
     THEN /\ SendSucceeds(SpansOf(batch))
          /\ batch' = {i}
     ELSE /\ batch' = batch \cup {i}
          /\ UNCHANGED <<requests, recorded>>
  /\ spanCount' = spanCount + Cardinality(ImmediateSpans(i))
  /\ i' = i + 1
  /\ pc' = "next"
  /\ UNCHANGED <<traces, chunks, enqueued, ctxDone>>

AddToBatch ==
  /\ pc = "makeRoom"
  /\ IF MustFlush
     THEN /\ SendSucceeds(SpansOf(batch))
          /\ batch' = {i}
          /\ spanCount' = Cardinality(ImmediateSpans(i))
     ELSE /\ batch' = batch \cup {i}
          /\ spanCount' = spanCount + Cardinality(ImmediateSpans(i))
          /\ UNCHANGED <<requests, recorded>>
  /\ i' = i + 1
  /\ pc' = "next"
  /\ UNCHANGED <<traces, chunks, enqueued, ctxDone>>

AddToBatchFails ==
  /\ pc = "makeRoom" /\ MustFlush
  /\ SendFails(SpansOf(batch))
  /\ UNCHANGED <<traces, i, batch, spanCount, chunks, enqueued, ctxDone>>

\* Mutants: the flush does not empty the batch, does not reset the span count, or is
\* left for later.
FlushBeforeLarge_KeepsBatch ==
  /\ pc = "flushLarge"
  /\ SendSucceeds(SpansOf(batch))
  /\ chunks' = ChunkKeys(i)
  /\ pc' = "chunks"
  /\ UNCHANGED <<traces, i, batch, spanCount, enqueued, ctxDone>>

FlushBeforeLarge_KeepsCount ==
  /\ pc = "flushLarge"
  /\ SendSucceeds(SpansOf(batch))
  /\ batch' = {}
  /\ chunks' = ChunkKeys(i)
  /\ pc' = "chunks"
  /\ UNCHANGED <<traces, i, spanCount, enqueued, ctxDone>>

FlushBeforeLarge_Later ==
  /\ pc = "flushLarge"
  /\ chunks' = ChunkKeys(i)
  /\ pc' = "chunks"
  /\ UNCHANGED <<traces, i, batch, spanCount, requests, recorded, enqueued, ctxDone>>

\* A large trace: what was collected goes first, then its chunks in order.
FlushBeforeLarge ==
  /\ pc = "flushLarge"
  /\ SendSucceeds(SpansOf(batch))
  /\ batch' = {} /\ spanCount' = 0
  /\ chunks' = ChunkKeys(i)
  /\ pc' = "chunks"
  /\ UNCHANGED <<traces, i, enqueued, ctxDone>>

FlushBeforeLargeFails ==
  /\ pc = "flushLarge"
  /\ SendFails(SpansOf(batch))
  /\ UNCHANGED <<traces, i, batch, spanCount, chunks, enqueued, ctxDone>>

IsNextChunk(c) ==
  c \in chunks /\ \A d \in chunks : c[1] < d[1] \/ (c[1] = d[1] /\ c[2] <= d[2])

SendChunk(c) ==
  /\ pc = "chunks" /\ IsNextChunk(c)
  /\ ~ctxDone
  /\ SendSucceeds(Chunk(i, c[1], c[2] * MaxSpansPerBatch))
  /\ chunks' = chunks \ {c}
  /\ UNCHANGED <<traces, i, pc, batch, spanCount, enqueued, ctxDone>>

ChunkFails ==
  /\ pc = "chunks" /\ chunks # {}
  /\ pc' = "error"
  /\ UNCHANGED <<traces, i, batch, spanCount, chunks, requests, recorded, enqueued, ctxDone>>

LargeDone ==
  /\ pc = "chunks" /\ chunks = {}
  /\ i' = i + 1
  /\ pc' = "next"
  /\ UNCHANGED <<traces, batch, spanCount, chunks, requests, recorded, enqueued, ctxDone>>

\* Mutant: the last batch is not sent.
FinalFlush_Forgotten ==
  /\ pc = "next" /\ i > Len(traces)
  /\ pc' = "ok"
  /\ UNCHANGED <<traces, i, batch, spanCount, chunks, requests, recorded, enqueued, ctxDone>>

\* The flush after the loop.
FinalFlush ==
  /\ pc = "next" /\ i > Len(traces)
  /\ SendSucceeds(SpansOf(batch))
  /\ batch' = {} /\ spanCount' = 0
  /\ pc' = "ok"
  /\ UNCHANGED <<traces, i, chunks, enqueued, ctxDone>>

FinalFlushFails ==
  /\ pc = "next" /\ i > Len(traces)
  /\ SendFails(SpansOf(batch))
  /\ UNCHANGED <<traces, i, batch, spanCount, chunks, enqueued, ctxDone>>

Cancel ==
  /\ ~ctxDone
  /\ ctxDone' = TRUE
  /\ UNCHANGED <<traces, i, pc, batch, spanCount, chunks, requests, recorded, enqueued>>

Returned == pc \in {"ok", "error"}

Next ==
  \/ TakeTrace \/ SeeCancelled
  \/ AddToBatch \/ AddToBatchFails
  \/ FlushBeforeLarge \/ FlushBeforeLargeFails
  \/ \E c \in chunks : SendChunk(c)
  \/ ChunkFails \/ LargeDone
  \/ FinalFlush \/ FinalFlushFails
  \/ Cancel
  \/ Returned /\ UNCHANGED vars

Spec == Init /\ [][Next]_vars

--------------------------------------------------------------------------------
Delivered == UNION {requests[k] : k \in DOMAIN requests}

TracesIn(spans) == {sp[1] : sp \in spans}

TypeOK ==
  /\ traces \in Seq(Template)
  /\ i \in 1..(Len(traces) + 1)
  /\ pc \in PcStates
  /\ batch \subseteq DOMAIN traces
  /\ spanCount \in 0..MaxSpansPerBatch
  /\ chunks \subseteq Nat \X Nat
  /\ requests \in Seq(SUBSET SpansOf(DOMAIN traces))
  /\ recorded \in Nat
  /\ enqueued \in Seq(DOMAIN traces)
  /\ ctxDone \in BOOLEAN

\* No request is larger than the message limit, none holds more traces than
\* batch_size.traces, and none is empty ("Limit to prevent gRPC message size issues").
RequestsBounded ==
  \A k \in DOMAIN requests :
    /\ Cardinality(requests[k]) \in 1..MaxSpansPerBatch
    /\ Cardinality(TracesIn(requests[k])) <= BatchSize

\* No span is delivered twice in a pass, and the reporter counts exactly the delivered
\* ones, also when the pass ends early.
DeliveredOnce ==
  /\ \A j, k \in DOMAIN requests : j # k => requests[j] \cap requests[k] = {}
  /\ recorded = Cardinality(Delivered)

\* The traces whose late spans were handed over, and that it was once and in their order.
HandedOver == {enqueued[k] : k \in DOMAIN enqueued}
OnceInOrder == \A j, k \in DOMAIN enqueued : j < k => enqueued[j] < enqueued[k]

\* A pass that returns nil has delivered every immediate span and handed over the late
\* spans of every trace, once, in the order of the templates.
PassComplete ==
  pc = "ok" =>
    /\ Delivered = SpansOf(DOMAIN traces)
    /\ HandedOver = {t \in DOMAIN traces : traces[t].late} /\ OnceInOrder

\* Traces are delivered whole and in order, whatever fails and when: a span of a trace
\* is delivered only after every immediate span of the traces before it, and only a
\* trace over the message limit is spread over several requests.
WholeTracesInOrder ==
  /\ \A t \in TracesIn(Delivered) : SpansOf(1..(t - 1)) \subseteq Delivered
  /\ \A t \in TracesIn(Delivered) :
       ~IsLarge(t) => \E k \in DOMAIN requests : ImmediateSpans(t) \subseteq requests[k]

\* Late spans are handed over before the other spans of their trace can be delivered
\* or lost: the scheduler has them once no matter how the pass ends.
LateHandedOver ==
  /\ \A t \in TracesIn(Delivered) \cup batch : traces[t].late => t \in HandedOver
  /\ OnceInOrder

\* Why the next trace, the first of the next request, could not join a request.
Cut(request, next) ==
  \/ \E t \in TracesIn(request) \cup {next} : IsLarge(t)
  \/ Cardinality(TracesIn(request)) = BatchSize
  \/ Cardinality(request) + Cardinality(ImmediateSpans(next)) > MaxSpansPerBatch

IsFirst(t, T) == t \in T /\ \A u \in T : t <= u

\* A batch is cut only when the next trace does not fit: between two requests of small
\* traces either the first has batch_size.traces of them, or the next trace would have
\* exceeded the message limit, or a large trace came between.
NoNeedlessFlush ==
  \A k \in 1..(Len(requests) - 1) :
    \A t \in TracesIn(requests[k + 1]) :
      IsFirst(t, TracesIn(requests[k + 1])) => Cut(requests[k], t)
================================================================================
