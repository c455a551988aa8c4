----------------------------- MODULE GeneratorConfig -----------------------------
(* Which generator configurations are accepted, what they are completed to and how *)
(* much memory they are estimated to take (internal/config/generator.go).  A       *)
(* configuration is a record of the fields that matter; names are model values or  *)
(* numbers, the memory limit is in bytes.                                          *)
EXTENDS Integers, FiniteSetsExt, SequencesExt

CONSTANTS
  GeneratedNames,    \* a sequence: the names ApplyDefaults gives to unnamed services
  DefaultMaxMemory   \* the default of 10 GB

ASSUME DefaultsAssumption == GeneratedNames \in Seq(STRING) /\ DefaultMaxMemory \in Nat

\* What unmarshalling YAML gives; the namespaces are not resolved yet.
TraceNumbers == {"count", "avg", "stdDev", "highCount", "highSpans", "services", "fatMin",
                 "fatMax", "valueBytes", "customCount", "rootless", "latePercent", "delayMs"}

IsTracesConfig(t) ==
  /\ DOMAIN t = TraceNumbers \cup {"high", "single", "lateRoot", "names", "ingress",
                                   "namespaces", "assigned", "resolved"}
  /\ \A f \in TraceNumbers : t[f] \in Int
  /\ {t.high, t.single, t.lateRoot} \subseteq BOOLEAN
  /\ {t.names, t.namespaces} \subseteq Seq(STRING) /\ t.ingress \in STRING
  /\ t.assigned \in [DOMAIN t.assigned -> STRING] /\ t.resolved = <<>>

IsGeneratorConfig(c) ==
  /\ DOMAIN c = {"directory", "maxMemory", "unbounded", "traces", "metrics", "logs"}
  /\ c.directory \in BOOLEAN /\ c.maxMemory \in Int /\ c.unbounded \in BOOLEAN
  /\ IsTracesConfig(c.traces)
  /\ c.metrics \in [count : Int, min : Int, max : Int, default : Int]
  /\ c.logs \in [count : Int, http : Int, app : Int, sys : Int, services : Int]

BytesPerSpan == 2048
BytesPerMetricDataPoint == 400
BytesPerLogRecord == 800
FatAttrKeyOverhead == 32

FatSpansEnabled(t) == t.fatMax > 0

\* Mutant: the fewest fat attributes of a span.
PerSpanBytes_Min(t) ==
  BytesPerSpan + (IF FatSpansEnabled(t) THEN t.fatMin * (t.valueBytes + FatAttrKeyOverhead) ELSE 0)

\* The base size and the most fat attributes a span may get.
PerSpanBytes(t) ==
  BytesPerSpan + (IF FatSpansEnabled(t) THEN t.fatMax * (t.valueBytes + FatAttrKeyOverhead) ELSE 0)

\* The arithmetic is exact: the overflow of 64 bits is left out.
EstimateMemoryUsage(c) ==
  LET spans == c.traces.count * c.traces.avg
               + (IF c.traces.high THEN c.traces.highCount * c.traces.highSpans ELSE 0)
      series == IF c.metrics.default > 0 THEN c.metrics.default
                ELSE (c.metrics.min + c.metrics.max) \div 2
  IN spans * PerSpanBytes(c.traces)
     + c.metrics.count * series * BytesPerMetricDataPoint
     + c.logs.count * BytesPerLogRecord

\* custom_attributes.count (customCount) is not looked at.
ValidCustomAttributes(t) ==
  /\ t.fatMin >= 0 /\ t.fatMax >= t.fatMin /\ t.valueBytes >= 0
  /\ t.fatMax > 0 => t.valueBytes # 0

ValidRoot(t) ==
  /\ {t.rootless, t.latePercent} \subseteq 0..100
  /\ t.lateRoot => t.delayMs > 0

\* Assignments speak of configured names (the generated ones come too late) and, when
\* namespaces are listed, of listed ones.
ValidNamespaces(t) ==
  \A s \in DOMAIN t.assigned :
    /\ s \in ToSet(t.names)
    /\ t.namespaces # <<>> => t.assigned[s] \in ToSet(t.namespaces)

\* Validate; traces.spans.high_span_traces is not looked at.
ValidTraces(t) ==
  t.count > 0 =>
    /\ t.avg >= 1 /\ t.stdDev >= 0 /\ t.services >= 1
    /\ t.names # <<>> => Len(t.names) = t.services
    /\ ValidNamespaces(t) /\ ValidCustomAttributes(t) /\ ValidRoot(t)

ValidMetrics(m) == m.count > 0 => m.count <= 200 /\ 1 <= m.min /\ m.min <= m.max

ValidLogs(l) == l.count > 0 => l.http + l.app + l.sys = 100

WithinMemory(c) ==
  c.unbounded \/ EstimateMemoryUsage(c) <= (IF c.maxMemory = 0 THEN DefaultMaxMemory ELSE c.maxMemory)

ValidGenerator(c) ==
  /\ c.directory
  /\ c.traces.count >= 0 /\ c.metrics.count >= 0 /\ c.logs.count >= 0
  /\ c.traces.count + c.metrics.count + c.logs.count > 0
  /\ ValidTraces(c.traces) /\ ValidMetrics(c.metrics) /\ ValidLogs(c.logs)
  /\ WithinMemory(c)

--------------------------------------------------------------------------------
\* The services without an assignment, each where the list of names has it first.
Unassigned(t) ==
  {i \in DOMAIN t.names : /\ t.names[i] \notin DOMAIN t.assigned
                          /\ \A j \in 1..(i - 1) : t.names[j] # t.names[i]}

\* Mutant: the turn of the list passes with every service, assigned or not.
NamespaceTurn_Every(t, i) == 1 + ((i - 1) % Len(t.namespaces))

\* Whose turn it is in the list of namespaces when the unassigned service at i is reached.
NamespaceTurn(t, i) == 1 + (Cardinality({j \in Unassigned(t) : j < i}) % Len(t.namespaces))

\* Explicit assignments first; the other services take turns through the list.
ResolveServiceNamespaces(t) ==
  LET rest == IF t.namespaces = <<>> THEN {} ELSE {t.names[i] : i \in Unassigned(t)}
      at(s) == CHOOSE i \in Unassigned(t) : t.names[i] = s
  IN [s \in DOMAIN t.assigned \cup rest |->
        IF s \in DOMAIN t.assigned THEN t.assigned[s] ELSE t.namespaces[NamespaceTurn(t, at(s))]]

WithDefaults(c) ==
  LET m == [c.metrics EXCEPT !.default = IF c.metrics.count > 0 /\ @ = 0 THEN 300 ELSE @]
      named == [c.traces EXCEPT !.names = IF @ = <<>> THEN SubSeq(GeneratedNames, 1, c.traces.services) ELSE @]
      t == [named EXCEPT !.ingress = IF named.single /\ @ = "" THEN Head(named.names) ELSE @]
  IN [c EXCEPT !.maxMemory = IF @ = 0 THEN DefaultMaxMemory ELSE @, !.metrics = m,
               !.traces = IF @.count > 0
                          THEN [t EXCEPT !.resolved = ResolveServiceNamespaces(t)] ELSE @]
================================================================================
