------------------------------ MODULE TraceJourney ------------------------------
(***************************************************************************)
(* A trace from the generator to the requests of the sender: SpanTree      *)
(* makes it, the trace writer (internal/generator/traces/writer.go) turns  *)
(* its spans into template attributes, the loader reads them back, and     *)
(* every worker of TraceTransform makes one pass over it.  What arrives    *)
(* must be the trace that was generated.                                   *)
(***************************************************************************)
EXTENDS SpanTree, TraceTransform

CONSTANT DelayMs   \* traces.root.late_root.delay_ms

ASSUME DelayAssumption == DelayMs \in Nat \ {0}

vars == <<treeVars, transformVars>>

Init == SpanTreeInit /\ TransformInit

\* Spans have the IDs 1, 2, ... in the template; the phantom parent is none of them.
PhantomId == Len(tree) + 1

\* The attributes of a span: those it was generated with, which its service stands for, and
\* those of the template, the emit delay only where there is one.
Written(k) ==
  [key \in {"service", "duration", "offset"} \cup (IF k = 1 /\ late THEN {"delay"} ELSE {}) |->
     CASE key = "service" -> tree[k].service
       [] key = "duration" -> tree[k].duration
       [] key = "offset" -> tree[k].start
       [] key = "delay" -> DelayMs]

ToOTLP ==
  [k \in DOMAIN tree |->
     [trace |-> NoId, id |-> k,
      parent |-> IF k > 1 THEN tree[k].parent ELSE IF phantom THEN PhantomId ELSE NoId,
      attributes |-> Written(k)]]

\* WriteTraces and Load.
WriteAndLoad ==
  /\ phase = "ready" /\ template = <<>>
  /\ template' = ToOTLP
  /\ lastId' = PhantomId
  /\ UNCHANGED <<treeVars, stepPc, clone, stripped, delays, immediate, deferred>>

Finished == (\A w \in Worker : stepPc[w] = "done") /\ UNCHANGED vars

Next ==
  \/ SpanTreeNext /\ UNCHANGED transformVars
  \/ WriteAndLoad
  \/ \E w \in Worker : TransformStep(w) /\ UNCHANGED treeVars
  \/ Finished

Spec == Init /\ [][Next]_vars

--------------------------------------------------------------------------------
Done == {w \in Worker : stepPc[w] = "done"}
Ids(w) == {clone[w][k].id : k \in DOMAIN tree} \cup {clone[w][1].trace}

\* "This preserves parent-child relationships while ensuring uniqueness" (ids.go): every
\* pass emits the generated tree under one trace ID, with IDs no other pass has used; a
\* rootless trace points to a parent that nobody emits, any other has a root.  A span
\* arrives with the attributes it was generated with and none of the template's.
TreePreserved ==
  \A w \in Done :
    LET s == clone[w]
    IN /\ \A j, k \in DOMAIN tree :
            /\ s[j].trace = s[k].trace
            /\ j # k => s[j].id # s[k].id
            /\ s[k].parent = s[j].id <=> tree[k].parent = j
       /\ \A k \in DOMAIN tree : AttributesOf(w, k) = [service |-> tree[k].service]
       /\ phantom <=> s[1].parent # NoId
       /\ \A v \in Done \ {w} : Ids(v) \cap Ids(w) = {}
       /\ \A v \in Done : s[1].parent \notin Ids(v)

\* Every pass holds back the root of a late trace, with its delay, and nothing else:
\* whatever another worker does with the shared template.
OnlyLateRootDeferred ==
  \A w \in Done :
    /\ deferred[w] = IF late THEN {[delay |-> DelayMs, spans |-> {1}]} ELSE {}
    /\ immediate[w] = DOMAIN tree \ UNION {d.spans : d \in deferred[w]}

\* "while preserving relative timing" (timestamps.go): up to the jitter of two spans, a
\* span lies within its parent, and no span ends in the future.
TimingKept ==
  \A w \in Done :
    LET s == clone[w]
        J == Max(Jitter)
    IN \A k \in DOMAIN tree :
         /\ s[k].end - s[k].start = tree[k].duration
         /\ s[k].end <= Now + J
         /\ k > 1 => LET p == tree[k].parent
                     IN s[p].start <= s[k].start + J /\ s[k].end <= s[p].end + J
================================================================================
