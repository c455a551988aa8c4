--------------------------------- MODULE Startup ---------------------------------
(***************************************************************************)
(* From two configuration files to running workers: telemetry-generator    *)
(* (cmd/telemetry-generator/main.go) checks its configuration and writes   *)
(* one file for each signal, telemetry-sender (cmd/telemetry-sender/       *)
(* main.go) checks its own, loads the files (internal/sender/loader),      *)
(* connects (internal/sender/exporter) and starts the workers.  Writing,   *)
(* loading and connecting may fail.  A file is what is counted in it.      *)
(* Lists too long for the memory are left out.                             *)
(***************************************************************************)
EXTENDS GeneratorConfig, SenderConfig, SignalGenerators, WorkerDistribution

CONSTANTS
  Configurations,   \* records [gen, send]: the configurations tried
  Deviation    \* bound of the model: spans of a trace above the average

ASSUME ConfigurationsAssumption ==
  /\ \A c \in Configurations : IsGeneratorConfig(c.gen) /\ c.send \in SenderConfigs
  /\ Deviation \in Nat

VARIABLES
  gen, send,   \* the configurations, with their defaults once loaded
  pc,          \* the next step of the two programs, or how the last one ended
  files,       \* [signals written -> number of resources and of events]
  bytes,       \* what the written telemetry takes in memory, as estimated per object
  templates,   \* what is loaded, in the same form
  exporters,   \* signals with an exporter
  workers      \* [Signal -> workers started by Run]

vars == <<gen, send, pc, files, bytes, templates, exporters, workers>>

Ended == {"rejected", "failed", "panicked", "running"}

Init ==
  /\ \E c \in Configurations : gen = c.gen /\ send = c.send
  /\ pc = "generator"
  /\ files = <<>> /\ bytes = 0
  /\ templates = <<>> /\ exporters = {}
  /\ workers = [s \in Signal |-> 0]

--------------------------------------------------------------------------------
(* telemetry-generator *)

LoadGeneratorConfig ==
  /\ pc = "generator"
  /\ IF ValidGenerator(gen) THEN pc' = "traces" /\ gen' = WithDefaults(gen)
                            ELSE pc' = "rejected" /\ UNCHANGED gen
  /\ UNCHANGED <<send, files, bytes, templates, exporters, workers>>

\* Every write may fail and end the program, the one of the JSON copy after that of the
\* file; what was written before stays.
Write(signal, resources, events, size, next) ==
  \/ /\ files' = [s \in DOMAIN files \cup {signal} |->
                   IF s = signal THEN [resources |-> resources, events |-> events] ELSE files[s]]
     /\ bytes' = bytes + size
     /\ pc' \in {next, "failed"}
  \/ pc' = "failed" /\ UNCHANGED <<files, bytes>>

Skip(next) == pc' = next /\ UNCHANGED <<files, bytes>>
Panic == pc' = "panicked" /\ UNCHANGED <<files, bytes>>

AtLeast(low, n) == IF n < low THEN low ELSE n

\* A trace has the spans asked for if they cannot reach the depth limit however they are
\* arranged, up to 12 of them or 22 of a wide trace; a deeper one may lose some.
Spans(asked, shallow) == {asked, Min({asked, shallow})}

\* Generate lists custom_attributes.count attributes (customCount) to choose from, makes the
\* traces, then the high-span traces, at least a root each.  A negative count is no length
\* for that list, a negative span_count no capacity for one of spans.
GenerateTraces ==
  /\ pc = "traces"
  /\ LET t == gen.traces
         highTraces == IF t.high THEN AtLeast(0, t.highCount) ELSE 0
         drawn == IF t.stdDev = 0 THEN Spans(t.avg, 12) ELSE 1..(t.avg + Deviation)
         fat == IF FatSpansEnabled(t) THEN {t.fatMin, t.fatMax} ELSE {0}
     IN IF t.count = 0 THEN Skip("metrics")
        ELSE IF t.customCount < 0 \/ (highTraces > 0 /\ t.highSpans < 0) THEN Panic
        ELSE \E n \in drawn, w \in Spans(AtLeast(1, t.highSpans), 22), a \in fat :
               LET spans == t.count * n + highTraces * w
               IN Write("traces", t.count + highTraces, spans,
                        spans * (BytesPerSpan + a * (t.valueBytes + FatAttrKeyOverhead)), "metrics")
  /\ UNCHANGED <<gen, send, templates, exporters, workers>>

\* A metric has between the fewest and the most time series, a data point each.
GenerateMetrics ==
  /\ pc = "metrics"
  /\ LET m == gen.metrics
         counts == SeriesCounts(m)
     IN IF m.count = 0 THEN Skip("logs")
        ELSE LET selected == Len(SelectMetrics(m.count))
             IN \E points \in {selected * Min(counts), selected * Max(counts)} :
                  Write("metrics", 1, points, points * BytesPerMetricDataPoint, "logs")
  /\ UNCHANGED <<gen, send, templates, exporters, workers>>

\* An application log needs a service name to choose.
GenerateLogs ==
  /\ pc = "logs"
  /\ LET l == gen.logs
         n == LogCounts(l)
         records == AtLeast(0, n.http) + AtLeast(0, n.app) + AtLeast(0, n.sys)
     IN IF l.count = 0 THEN Skip("sender")
        ELSE IF l.services < 0 \/ (l.services = 0 /\ n.app > 0) THEN Panic
        ELSE Write("logs", 1, records, records * BytesPerLogRecord, "sender")
  /\ UNCHANGED <<gen, send, templates, exporters, workers>>

--------------------------------------------------------------------------------
(* telemetry-sender *)

LoadSenderConfig ==
  /\ pc = "sender"
  /\ IF ValidSender(send) THEN pc' = "load" /\ send' = SenderWithDefaults(send)
                          ELSE pc' = "rejected" /\ UNCHANGED send
  /\ UNCHANGED <<gen, files, bytes, templates, exporters, workers>>

Inputs == {s \in Signal : send[s] # ""}
NothingLoaded == [resources |-> 0, events |-> 0]

\* Load reads every input that is given; it prints the number of metrics of the first
\* resource, which an empty file does not have.
Load ==
  /\ pc = "load"
  /\ \/ /\ \A s \in Inputs : send[s] = "file" => s \in DOMAIN files
        /\ LET loaded == [s \in Inputs |-> IF send[s] = "file" THEN files[s] ELSE NothingLoaded]
           IN IF "metrics" \in Inputs /\ loaded["metrics"].resources = 0
              THEN pc' = "panicked" /\ UNCHANGED templates
              ELSE pc' = "connect" /\ templates' = loaded
     \/ pc' = "failed" /\ UNCHANGED templates
  /\ UNCHANGED <<gen, send, files, bytes, exporters, workers>>

Connect ==
  /\ pc = "connect"
  /\ \/ /\ exporters' = {s \in DOMAIN templates : Has(send[s])}
        /\ pc' = "pool"
     \/ pc' = "failed" /\ UNCHANGED exporters
  /\ UNCHANGED <<gen, send, files, bytes, templates, workers>>

Events == [s \in Signal |-> IF s \in DOMAIN templates THEN templates[s].events ELSE 0]

\* The duration and the drain timeout are parsed, the pool is made and Run starts the
\* workers of the signals that have an exporter.  sendTraces allocates its batch.
StartWorkers ==
  /\ pc = "pool"
  /\ LET n == Distribution(send.concurrency, Events)
         started == [s \in Signal |-> IF s \in exporters THEN n[s] ELSE 0]
     IN IF ~Parses(send.duration) \/ ~Parses(send.drainTimeout)
        THEN pc' = "failed" /\ UNCHANGED workers
        ELSE IF started["traces"] > 0 /\ send.batch < 0
        THEN pc' = "panicked" /\ workers' = started
        ELSE pc' = "running" /\ workers' = started
  /\ UNCHANGED <<gen, send, files, bytes, templates, exporters>>

Stopped == pc \in Ended /\ UNCHANGED vars

Next ==
  \/ LoadGeneratorConfig \/ GenerateTraces \/ GenerateMetrics \/ GenerateLogs
  \/ LoadSenderConfig \/ Load \/ Connect \/ StartWorkers
  \/ Stopped

Spec == Init /\ [][Next]_vars

--------------------------------------------------------------------------------
(* Properties *)

Loaded == pc \in {"connect", "pool", "running"}
Accepted == pc \notin {"generator", "rejected"}

\* The gaps of the two validations: what nobody checks and a program then stumbles over.
Unchecked ==
  \/ gen.logs.count > 0 /\ (gen.logs.services < 0 \/ (gen.logs.services = 0 /\ gen.logs.app > 0))
  \/ gen.traces.count > 0 /\ (gen.traces.customCount < 0 \/ (gen.traces.high /\ gen.traces.highSpans < 0))
  \/ send.batch < 0 /\ send["traces"] = "file"
  \/ send["metrics"] = "null"

\* Checking first pays off: an accepted configuration crashes neither program except
\* through a known gap, and once its files are read and the connections are made nothing
\* is left to refuse (config Validate against main.go:104-135, generator.go, pool.go:403).
FailuresExplained ==
  /\ pc = "panicked" => Unchecked
  /\ pc = "failed" => exporters = {}

\* Every signal with events and a place to send them to gets a worker, however few workers
\* there are and however small its share (pool.go:93-96 "Minimum 1 worker per active signal
\* type").
EveryActiveSignalServed ==
  pc = "running" =>
    \A s \in DOMAIN templates : templates[s].events > 0 /\ Has(send[s]) => workers[s] > 0

\* The division loses no worker and adds at most one to the concurrency asked for, except
\* where the types outnumber the workers (pool.go:131-197).
WorkersNearConcurrency ==
  pc = "pool" =>
    LET total == SumFunction(Distribution(send.concurrency, Events))
        active == Cardinality(ActiveSignals(Events))
    IN IF send.concurrency < active THEN total = active
       ELSE total \in {active, send.concurrency, send.concurrency + 1}

\* Sizes that leave nothing to chance: no deviation, no deep trace, one number of series,
\* no negative share.
Fixed(c) ==
  /\ c.traces.stdDev = 0 /\ c.traces.avg <= 12 /\ c.traces.highSpans <= 22
  /\ c.traces.high => c.traces.highCount >= 0 /\ c.traces.highSpans >= 1
  /\ c.traces.count > 0 \/ ~c.traces.high
  /\ c.metrics.count > 0 => c.metrics.min = c.metrics.max /\ c.metrics.default \in {0, 300, c.metrics.min}
  /\ \A p \in {c.logs.http, c.logs.app, c.logs.sys} : p >= 0

\* "Memory validation: Prevents generating oversized datasets" (README.md:347).
NoOversizedDataset == Accepted /\ ~gen.unbounded => bytes <= gen.maxMemory

\* The default number of series, which the estimate takes, is not one below the fewest,
\* which the generator ignores.
SeriesCovered(c) == c.metrics.count > 0 => c.metrics.min <= c.metrics.default

\* Where nothing is left to chance and the series are covered, no accepted configuration
\* makes telemetry that takes more than the limit (config/generator.go:228-230 "so the
\* estimate never under-counts a fat-span dataset").
CapHolds == Fixed(gen) /\ SeriesCovered(gen) => NoOversizedDataset

\* The number of events the configuration asks for.
Asked(s) ==
  CASE s = "traces" -> gen.traces.count * gen.traces.avg
                       + (IF gen.traces.high THEN gen.traces.highCount * gen.traces.highSpans ELSE 0)
    [] s = "metrics" -> Min({gen.metrics.count, Available}) * gen.metrics.min
    [] s = "logs" -> gen.logs.count

\* The sender counts, after the round through the files, the events the generator was
\* asked for: exactly, where nothing is left to chance.
LoadedAsAsked ==
  Loaded /\ Fixed(gen) =>
    \A s \in DOMAIN templates : send[s] = "file" => templates[s].events = Asked(s)

\* No type of metrics is favoured: the number selected from each differs from its
\* proportional part by less than one, and none is selected twice (schema.go:1627 "select
\* evenly from all types").
SelectionEven ==
  pc = "metrics" /\ gen.metrics.count > 0 =>
    LET chosen == SelectMetrics(gen.metrics.count)
        n == Len(chosen)
    IN /\ \A i \in 1..(n - 1) : chosen[i] < chosen[i + 1]
       /\ \A k \in DOMAIN TypeSizes :
            LET got == Cardinality({i \in 1..n : chosen[i] \in OfType(k)})
            IN /\ got * Available < TypeSizes[k] * n + Available
               /\ got * Available > TypeSizes[k] * n - Available

\* Every service has a namespace when namespaces are listed, an explicit one is kept, and
\* the list is gone through evenly for the other services: a namespace gets as many of them
\* as there were full rounds or one more, for each time it is listed
\* (config/generator.go:488-513).
NamespacesResolved ==
  Accepted /\ gen.traces.count > 0 =>
    LET t == gen.traces
        rest == DOMAIN t.resolved \ DOMAIN t.assigned
        given(ns) == Cardinality({s \in rest : t.resolved[s] = ns})
        listed(ns) == Cardinality({i \in DOMAIN t.namespaces : t.namespaces[i] = ns})
        rounds == Cardinality(rest) \div Len(t.namespaces)
    IN /\ \A s \in DOMAIN t.assigned : t.resolved[s] = t.assigned[s]
       /\ t.namespaces # <<>> => DOMAIN t.resolved = ToSet(t.names)
       /\ \A ns \in ToSet(t.namespaces) :
            given(ns) \in (listed(ns) * rounds)..(listed(ns) * (rounds + 1))
================================================================================
