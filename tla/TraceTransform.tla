----------------------------- MODULE TraceTransform -----------------------------
(***************************************************************************)
(* What trace workers make of one trace template that they share:          *)
(* transformTrace and cloneTraceBatch (internal/sender/workers/pool.go),   *)
(* RegenerateTraceIDs and InjectSpanTimestamps                             *)
(* (internal/sender/transformer).  A clone has spans of its own, but their *)
(* attribute lists are the template's until the injection replaces them:   *)
(* whoever changed one in place would change it for every worker, so the   *)
(* five steps interleave.                                                  *)
(*                                                                         *)
(* A trace is one ResourceSpans with one scope, as the generator writes    *)
(* it.  Random IDs are new numbers: that 8 random bytes never repeat is    *)
(* assumed.                                                                *)
(***************************************************************************)
EXTENDS Naturals, Sequences, FiniteSetsExt

CONSTANTS
  Worker,
  Jitter,           \* the delays rand.Intn(jitter_ms) may give; {0}: no jitter
  Now,              \* the time of a pass, less the configured backdate
  DefaultDuration   \* of a span without a duration attribute

ASSUME TransformAssumption ==
  /\ Jitter \subseteq Nat /\ \E most \in Jitter : \A j \in Jitter : j <= most
  /\ Now \in Nat /\ DefaultDuration \in Nat

VARIABLES
  template,  \* sequence of spans as loaded; empty before
  lastId,    \* IDs up to this one are in use
  stepPc,    \* [Worker -> next step of transformTrace]
  clone,     \* [Worker -> its copy of the spans]
  stripped,  \* [Worker -> the attribute lists of its copy that are no longer shared]
  delays,    \* [Worker -> the spans found to be late, with their delays]
  immediate, deferred   \* [Worker -> the two results, as sets of span indexes]

transformVars == <<template, lastId, stepPc, clone, stripped, delays, immediate, deferred>>

NoId == 0   \* an absent parent ID

\* What WriteTraces adds to the attributes of a span, under _template.
TemplateKeys == {"duration", "offset", "delay"}

TransformInit ==
  /\ template = <<>> /\ lastId = 0
  /\ stepPc = [w \in Worker |-> "clone"]
  /\ clone = [w \in Worker |-> <<>>]
  /\ stripped = [w \in Worker |-> <<>>]
  /\ delays = [w \in Worker |-> <<>>]
  /\ immediate = [w \in Worker |-> {}]
  /\ deferred = [w \in Worker |-> {}]

\* Mutant: the delays are read from the spans that are ready to be sent.
After_DelaysLast == [clone |-> "ids", ids |-> "times", times |-> "delays", delays |-> "split",
                     split |-> "done"]

\* The order of the steps of transformTrace.
After == [clone |-> "ids", ids |-> "delays", delays |-> "times", times |-> "split",
          split |-> "done"]

At(w, here) == stepPc[w] = here /\ stepPc' = [stepPc EXCEPT ![w] = After[here]]

\* The attributes of a span of a clone, and the number one of them holds, 0 without it.
AttributesOf(w, k) == IF k \in DOMAIN stripped[w] THEN stripped[w][k] ELSE template[k].attributes
NumberOf(w, k, key) ==
  IF key \in DOMAIN AttributesOf(w, k) THEN AttributesOf(w, k)[key] ELSE 0

RemoveTemplateAttributes(attrs) == [key \in DOMAIN attrs \ TemplateKeys |-> attrs[key]]

\* IDs are copied, times are those of the template (none); the attributes are shared.
CloneTraceBatch(w) ==
  /\ template # <<>>
  /\ At(w, "clone")
  /\ clone' = [clone EXCEPT ![w] = [k \in DOMAIN template |->
       [trace |-> template[k].trace, id |-> template[k].id, parent |-> template[k].parent,
        start |-> 0, end |-> 0]]]
  /\ UNCHANGED <<template, lastId, stripped, delays, immediate, deferred>>

\* Mutant: a parent that is in no map is taken for no parent.
NewParent_Dropped(parent, idMap) ==
  IF parent \in DOMAIN idMap THEN idMap[parent] ELSE NoId

\* A parent outside the trace keeps its ID.
NewParent(parent, idMap) ==
  IF parent \in DOMAIN idMap THEN idMap[parent] ELSE parent

RegenerateTraceIDs(w) ==
  /\ At(w, "ids")
  /\ LET spans == clone[w]
         n == Len(spans)
         idMap == [old \in {spans[k].id : k \in 1..n} |->
                     lastId + 1 + Max({k \in 1..n : spans[k].id = old})]
     IN /\ clone' = [clone EXCEPT ![w] = [k \in 1..n |->
             [spans[k] EXCEPT !.trace = lastId + 1,
                              !.id = idMap[@],
                              !.parent = IF @ = NoId THEN NoId ELSE NewParent(@, idMap)]]]
        /\ lastId' = lastId + 1 + n
  /\ UNCHANGED <<template, stripped, delays, immediate, deferred>>

ExtractEmitDelayMs(w, k) == NumberOf(w, k, "delay")

\* The emit delays are read from the clone's attributes.
CaptureDelays(w) ==
  /\ At(w, "delays")
  /\ delays' = [delays EXCEPT ![w] =
       [k \in {j \in DOMAIN clone[w] : ExtractEmitDelayMs(w, j) > 0} |-> ExtractEmitDelayMs(w, k)]]
  /\ UNCHANGED <<template, lastId, clone, stripped, immediate, deferred>>

SpanDuration(w, k) ==
  LET duration == NumberOf(w, k, "duration") IN IF duration = 0 THEN DefaultDuration ELSE duration

Stamped(w, jitter) ==
  LET traceStart == Now - Max({SpanDuration(w, k) : k \in DOMAIN clone[w]})
      start(k) == traceStart + NumberOf(w, k, "offset") + jitter[k]
  IN [k \in DOMAIN clone[w] |->
        [clone[w][k] EXCEPT !.start = start(k), !.end = start(k) + SpanDuration(w, k)]]

\* Mutant: the template attributes are removed in place.
InjectSpanTimestamps_InPlace(w) ==
  /\ At(w, "times")
  /\ \E jitter \in [DOMAIN clone[w] -> Jitter] :
       clone' = [clone EXCEPT ![w] = Stamped(w, jitter)]
  /\ template' = [k \in DOMAIN template |->
       [template[k] EXCEPT !.attributes = RemoveTemplateAttributes(@)]]
  /\ UNCHANGED <<lastId, stripped, delays, immediate, deferred>>

\* The trace starts its longest duration ago; every span has a jitter of its own.  The
\* spans get new attribute lists without the template's attributes.
InjectSpanTimestamps(w) ==
  /\ At(w, "times")
  /\ \E jitter \in [DOMAIN clone[w] -> Jitter] :
       clone' = [clone EXCEPT ![w] = Stamped(w, jitter)]
  /\ stripped' = [stripped EXCEPT ![w] =
       [k \in DOMAIN clone[w] |-> RemoveTemplateAttributes(AttributesOf(w, k))]]
  /\ UNCHANGED <<template, lastId, delays, immediate, deferred>>

\* One deferred payload for each delay; the rest is sent at once.
Partition(w) ==
  /\ At(w, "split")
  /\ immediate' = [immediate EXCEPT ![w] = DOMAIN clone[w] \ DOMAIN delays[w]]
  /\ deferred' = [deferred EXCEPT ![w] =
       {[delay |-> d, spans |-> {k \in DOMAIN delays[w] : delays[w][k] = d}] :
          d \in {delays[w][k] : k \in DOMAIN delays[w]}}]
  /\ UNCHANGED <<template, lastId, clone, stripped, delays>>

TransformStep(w) == \/ CloneTraceBatch(w) \/ RegenerateTraceIDs(w) \/ CaptureDelays(w)
                    \/ InjectSpanTimestamps(w) \/ Partition(w)
================================================================================
