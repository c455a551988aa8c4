# TLA+ models of telemetry-gen-and-send

Models, model-checking runs and machine-checked proofs of both programs: the part of
`telemetry-sender` where goroutines, timers, cancellation and failures meet, the
life of a trace from its generation to the requests that carry it, and the way from
two configuration files to running workers. Each module names the source file it is translated from; `PROJECT.json`
gives the lines of every definition.

## The system

Two programs. `telemetry-generator` writes template files of traces, metrics and
logs. `telemetry-sender` loads them and replays them over OTLP/gRPC: worker
goroutines per signal share a rate limiter and a statistics reporter, and spans
that must arrive late (a delayed root) go through one scheduler goroutine.

| Component | State | Operations | Interacts with | Correct when |
|---|---|---|---|---|
| Deferred scheduler (`workers/scheduler.go`) | heap, seq, closed flag, wake and close channels, drop counter, loop goroutine | Enqueue, Close, loop, fire, dropRemaining | trace workers call Enqueue, Run calls Close, fire uses limiter, exporter, reporter | no payload sleeps past its time, none is lost or counted twice, order kept, Close returns and leaves nothing |
| Worker pool (`workers/pool.go`, `cmd/telemetry-sender/main.go`) | worker goroutines, wait group, iterations, send context | Run, the three worker loops, interrupt, duration | everything in the sender | nobody enqueues after Close, connections and final statistics outlive the work, an interrupt ends the run |
| Trace sending (`sendTraces` and helpers) | current batch, span count, position | batch, flush, split, hand over late spans | limiter, exporter, scheduler, reporter | requests within the limits, every span once, traces whole and in order, also when a request fails |
| Rate limiter (`ratelimit/limiter.go`) | token bucket of `x/time/rate` | Wait | all workers and the scheduler | the rate is kept when calls overlap and are cancelled |
| Reporter (`stats/reporter.go`) | atomic counters, ticker goroutine | Record*, PrintStats, PrintFinalStats, Stop | all senders, main | totals exact, a report shows the errors before what it shows as sent |
| Exporters (`exporter/*.go`) | gRPC connection | Export, Close | workers, scheduler, main | used only while open |
| Trace transformer (`transformTrace`, `transformer/*.go`) | none | new IDs, timestamps, partition by emit delay | sendTraces | parent links survive, a phantom parent stays absent, late and immediate parts share the IDs |
| Request cloning (`clone*Request`) | none, but shares data with the templates | clone | metric and log workers | workers do not share what they write |
| Worker distribution (`calculateWorkerDistribution`) | worker counts | once, at construction | Run | every active signal has a worker |
| Configurations (`config/generator.go`, `config/sender.go`) | none | Validate, the memory estimate, ApplyDefaults | main of each program | accepted configurations cannot fail later, the memory limit holds |
| Template loader (`sender/loader`) | none | Load | main | what was generated is what is counted |
| Span tree (`generator/traces/spans.go`) | tree under construction, recursion | build, durations, root treatment | topology, writer | the spans asked for, children within their parents |
| Topology (`generator/traces/topology.go`) | downstream services, ingress | BuildTopology, choices | span tree | a trace stays in its window of services |
| Trace writer (`generator/traces/writer.go`) | none | tracesToOTLP, write | loader, by files | the sender reads back what the tree says |
| Metrics and logs generators | lists | select, split by type, write | loader, by files | the counts asked for, no type favoured |

What is hard here: the loop's sleep races Enqueue, Close and the drain deadline;
Enqueue reads the closed flag before it takes the lock; the send context may end
between a failed call and the look at the context that interprets it; requests fail
in the middle of a pass; a server may never answer; reservations of tokens are
cancelled with others queued behind them; all workers of a signal share one loaded
template, of which their clones share parts; a configuration that slips through
validation fails much later, in the other program. The hazards in `PROJECT.json` list these
at their lines, with the properties that cover each.

## Modules

| Module | Models |
|---|---|
| `DeferredDelivery` | the promise of the deferred scheduler, without locks, channels or timers |
| `DeferredScheduler` | the scheduler: one action per access to shared state |
| `DeferredSchedulerProofs` | type correctness, inductive invariant, safety theorems, and that `DeferredScheduler` implements `DeferredDelivery` |
| `SenderRun` | `Run`, the workers, the contexts, the reporter and `main`, composed with the whole `DeferredScheduler` |
| `SenderRunProofs` | inductive invariant of the pool, the scheduler's rule about Close, safety theorems |
| `SendTraces` | one pass of `sendTraces` over its templates |
| `RateLimiter` | `Wait` called by workers and the scheduler, over the token bucket |
| `SendTracesProofs`, `RateLimiterProofs` | their inductive invariants and safety theorems |
| `ServiceTopology` | the service graph and the choices made in it |
| `SpanTree` | one trace template: recursion, durations, root treatment; extends `ServiceTopology` |
| `TraceTransform` | `transformTrace` of several workers over a shared template |
| `TraceJourney` | `SpanTree`, the files and `TraceTransform` composed |
| `SumProofs` | sums over finite sets, as the community modules make them |
| `TraceJourneyProofs` | depths, sums and durations of any tree, the inductive invariants of its construction and of the journey, safety theorems |
| `SharedTemplates` | metrics and logs workers over shared templates: clone, stamp, marshal |
| `SharedTemplatesProofs` | which workers the sharing leaves alone |
| `GeneratorConfig`, `SenderConfig` | which configurations are accepted, and their defaults |
| `SignalGenerators` | which metrics, how many series, how many logs of each kind |
| `WorkerDistribution` | `calculateWorkerDistribution` |
| `Startup` | both programs from configuration to running workers, over the four above |
| `StartupProofs` | lemmas about the division, the selection and the turns through the namespaces for all inputs; the inductive invariant of `Startup`, safety theorems |
| `MC...` | symmetry, inputs and timing assumptions of the TLC instances |

Operators named `X_Y` with the comment "Mutant" are faulty variants of `X`. No
specification uses them; substituting one for `X` must make a named property fail,
which shows that the property notices that mistake.

### DeferredScheduler

A payload is one call of `Enqueue`. `call[p]` is where that call is: before the read
of the closed flag (`called`), before the critical section (`checked`), between the
unlock and the send on `wake` (`queued`), before the drop counter (`refusing`), or
returned. `loopPc` is where the loop is: about to take the lock (`top`), in the
first select (`idle`), in the second (`timed`), in `fire`, or returned (`done`).
`Close` has its three steps. A critical section is one action; everything between
two of them interleaves. `armed` says that the loop's `closeCh` is nil. The counters
are kept per payload instead of as span sums, so that a payload counted twice
shows. `Tick` advances a discrete clock at any moment, so every goroutine may be
late by any amount; only an export ends within its context's timeout.

`DeferredDelivery` has what a caller may rely on: refusal only at the limit; one
export at a time, never early, earliest due first and FIFO between equals; no
discard before the drain deadline; nothing pending once it is down. In the
refinement `Status` maps a payload's place to its abstract state: a refusal
happens abstractly when the full queue is found, a drop when the loop discards.

### SenderRun

It instantiates `DeferredScheduler` with `CallersWait <- FALSE`: nothing in the
scheduler then stops a caller from breaking "Callers must not Enqueue after Close".
That the pool obeys the rule is `CloseRuleObeyed`: every behaviour is one of the
scheduler with `CallersWait <- TRUE`, the assumption of the proofs.

An iteration of a metrics or logs worker is one rate-limited export. An iteration of a
trace worker is a pass of `sendTraces`: any number of exports (up to `MaxBatches`), none
of them if all spans are late, each counted in the reporter when it succeeds; the first
that fails, or a look at the cancelled context, ends the pass in error, so a pass may be
counted as sent several times and as an error as well. What a request contains is left
to `SendTraces`. Late spans are enqueued before, between or after the exports, as one
payload at most. `recorded` and `errors` are the reporter's counters, kept per worker and
by exports, not events; `refused` is a history variable, the exports that failed, which
the program does not count: what is counted is compared with it.

The reporter's goroutine is `ReportTick` and four `ReportLoad` steps in the order
`LoadOrder`: `PrintStats` loads the counters of the three signals and of the errors one
after the other, so a report is torn between them. Its ticker may fire at any moment
until the process ends. `errorsThen` and `lateErrorsThen` are history variables too: the
errors there were when the report last read a counter of what was sent.

### SendTraces

A template is the number of immediate spans in each of its scopes and whether it has
late ones. A request is the set of its spans, each named by trace, scope and index.
`pc` is the next point where the pass can fail or be delayed. The code's limit of
10000 spans and its look at the context every 100 traces are constants. The late
payloads of a trace (one per scope and delay) are handed over in one step: nothing
else in the pass happens between them. A request counts as delivered when the
exporter returned no error; what a server did with a failed one is not known.

### RateLimiter

One unit of time is the time of one token, so all waits are whole numbers.
`ReserveN`, `Delay` and `Cancel` are those of `golang.org/x/time/rate`, which is not
part of the repository: what a cancelled reservation gives back follows that library.

### ServiceTopology, SpanTree, TraceTransform and TraceJourney

`tree` lists the spans in the order of their creation, which is also the order of
`CollectSpans`, and `frames` is the stack of `buildSpanTree` calls: one action is one
turn of the loop over the children or one return, so budgets and offsets are those
the code has at that point, not those a recursive definition would have. Everything
drawn at random (numbers of children and spans, services, durations, both root
treatments) is a nondeterministic choice. `ToOTLP` is the attribute encoding that the
transformer reads; it is the only thing the two programs share.

In `TraceTransform` each worker has `stepPc` and makes the five steps of
`transformTrace`, in the order `After`, interleaved with the others. A clone has its own
IDs and times, but its attribute lists are those of `template` until the injection gives
its spans lists of their own (`stripped`); delays, durations and offsets are read from
whichever list the clone's span has (`AttributesOf`). Of the attributes a span was
generated with the model keeps its service, which stands for all of them. A trace is one
`ResourceSpans` with one scope, as the generator writes it. New random IDs never
repeat: with 8 random bytes the code relies on that too.

### SharedTemplates

The iteration of a metrics or logs worker, one action per data point that is written
or marshalled. `template` is one for all metrics workers, because the clone keeps the
`Data` pointer; `copy` is a log worker's own. Reads and writes of a data point are
atomic here. In Go the race is undefined in general; on 64-bit machines an aligned
word is not torn, and the violation needs no more than that.

### GeneratorConfig, SenderConfig, SignalGenerators, WorkerDistribution and Startup

The first four are operators without state: `Validate` and `ApplyDefaults` as
predicates and functions on configuration records, the counts of the generators, the
division of workers. `Startup` runs them in the order of the two `main` functions. A
file is the number of resources and events in it; every write, read and connection may
fail. `pc` ends as `rejected` (a configuration is refused), `failed` (an error ends the
program), `panicked`, or `running`. The random size of a trace is between a root and
its average plus `Deviation`, or exactly the average without deviation; trees that can
reach the depth limit may lose spans, with the bounds 12 and 22 below which no
arrangement reaches it. Lists that do not fit in memory are left out: huge counts or batch
sizes, which Go answers with a panic or by running out of memory. `SelectMetrics` divides floats; the number of available
metrics, 197, is prime, so rounding the exact quotient down gives the same index.

## Runs

| Run | Instance | Shows |
|---|---|---|
| `SchedulerPool` | 3 payloads, delays 1-2, queue of 2, drain timeout 1, clock to 3, caller waits | types, no lost wakeup, ledger, completeness of Close, implements `DeferredDelivery` |
| `SchedulerContract` | 2 payloads, queue of 1, no drain deadline, callers may enqueue during Close | same safety, and with fairness: Close returns, accepted payloads are settled |
| `SchedulerDrain` (violated) | 2 payloads, exports take up to 2 units, drain timeout 1 | exports start after the drain deadline |
| `SenderRun` | 2 trace workers, 1 iteration each of up to 2 exports, no drops possible | shutdown order, statistics, what is counted, rule about Close |
| `SenderCancel` | 1 trace worker and 1 metrics worker, 1 iteration each, up to 1 successful export in a pass, queue of 1, drain deadline, 1 periodic report | failures and errors agree, a report shows every error before what it shows as sent; a cancelled context ends the process |
| `SenderReplays` (violated) | 2 trace workers, multiplier 1 | the templates are replayed twice |
| `SendTraces` | all inputs of up to 4 traces of 4 kinds, limit 3 spans, batches of 2 | limits, exactly-once, order, hand-over, no needless flush |
| `RateLimiter` | 2 workers and the scheduler, rate 2, requests 1, 3, 5, clock to 6 | the rate is kept under overlap and timeouts |
| `RateLimiterCap` (violated) | 1 worker, a request of 5 with a burst of 4 | a request above the burst is not limited |
| `TraceJourney` | 3 services, traces asked for 1 or 4 spans, 2 workers | the budget is spent, services stay in their window, every pass emits the generated tree and its attributes, only a late root is held back, children stay within their parents up to the jitter |
| `Startup` | 12304 pairs of configurations | crashes only through known gaps, workers for every signal, the memory limit, exact counts, even selection, namespaces |
| `SharedTemplates` (violated) | 2 metrics workers and 1 logs worker, 3 data points | a request carries times another worker wrote |

Bounds. `MaxTime` bounds the clock and the due times; the properties only compare
times, and three ticks allow early, equal and late due times on both sides of a
drain deadline. Three payloads are a full queue of two with one refused, ties and
both orders; payloads are interchangeable, so symmetry is used in the safety runs
(never where liveness is checked). Two workers per signal are enough for one to be
sending while the other has returned. Two exports in a pass are enough for one to fail
after another was recorded, and for late spans before, between and after them. In
`SendTraces` the templates have no, one and
two immediate spans, and a large trace of two scopes whose first needs two chunks,
so each comparison with a limit is met from both sides; four traces let a batch be
flushed by the number of traces, by spans, by a large trace and at the end.
`RateLimiter`'s requests are below, within and above the burst, `MaxCalls` lets a
caller come back after a timeout, and `MaxTime` exceeds the longest timeout.

`TraceJourney` has depth limits of 1 (10 and 20 in the code), so that trees of four
spans run into them; up to three children, so that a budget divides evenly, with a
remainder and not at all; leaves with two different durations, so that the longest is
not the last; jitter of 0 or 1. Two workers are enough for one to change what the other
still reads; what three could do to the shared attributes two can. The workers are
interchangeable.

`Startup`'s configurations vary one part of a base at a time, around every comparison:
zero, negative and just beyond each limit; every metric count from -1 to 201; every
combination of given, absent and null inputs with batch sizes; up to 7 workers with
signals of very different size. Three constants are smaller than in the code so that
their limits are met with small files: the default memory limit (250000 bytes, not 10
GB), `Variance` of the number of series (1, not 50), and `Deviation`. Sizes multiply,
so only the configurations of `Fixed`, which leave nothing to chance, are held to exact
numbers.

`SharedTemplates` has a metric with two data points and one with one, a clock of few
ticks, and a logs worker beside the metrics workers to show that the log clones are
fine; with one metrics worker `OwnCopy` holds, which is a theorem.

Fairness. `DeferredScheduler!FairSpec`: time passes, and the loop, each call in
progress and Close run whenever they can, as the Go runtime guarantees for runnable
goroutines. Nobody is obliged to call Enqueue or Close. `fire` returns because its
context has a timeout. `SenderRun!FairSpec` adds the workers and main; an export
under the send context is only sure to end once that context is cancelled, which is
all that gRPC promises, and nobody has to cancel. `SchedulerDrain` uses
`PromptSpec`, where time passes only while the loop exports or has nothing ready to
receive, so its counterexample owes nothing to a slow machine.

## Disagreements between the code and its documentation

* `SchedulerDrain`: `scheduler.go:60-62` says late spans drain "bounded by
  drainTimeout". The loop looks at the deadline only while it waits for the next due
  time, so payloads that matured during exports are still exported after it.
* `SenderReplays`: `README.md:322` says the multiplier is how many times the
  templates are replayed. It is a limit per worker.
* `RateLimiterCap`: `ARCHITECTURE.md:677` calls the rate limit a hard cap. A batch
  of more than two seconds' worth of events is let through at once.
* `SharedTemplates`: `ARCHITECTURE.md:655` says each worker modifies its own copy. The
  clone of a metric has the template's own data points, so metrics workers stamp over
  each other, also while another marshals.

What the code does and a reader may not expect, met while modelling (no run refutes a
statement about these):

* `reporter.go:95-96` computes the "rate since last report" from the total since the
  start, so it grows without bound.
* `spans.go:189-190`: a sibling starts after the previous one's duration, but that is
  still zero then, so siblings all start together. Putting them one after the other
  without changing `calculateDurations` would let children outlast their parents
  (a mutant of `TimingKept`).
* A trace pass that fails has been counted in part as sent and once as an error; one whose
  spans are all late counts nothing until the scheduler sends them.
* A tree may hold fewer spans than asked for, when its last branch meets the depth
  limit; `CalculateStats` then reports the number asked for. `span_count: 0` for
  high-span traces gives one span.
* The memory estimate is made before `ApplyDefaults`, so the series default of 300 is not
  in it, and it takes `timeseries_per_metric.default` even where the generator ignores it
  as out of range. A default below `min` therefore gets any number of series accepted: 2
  metrics of 400 series each with a default of 1 are estimated at 800 bytes and take
  320000. `CapHolds` excludes it (`SeriesCovered`); `README.md:347` says that memory
  validation "prevents generating oversized datasets".
* Nothing validates `high_span_traces`, a negative `custom_attributes.count` (which ends the
  generator in a panic before the first trace) or batch size, negative percentages of
  logs that add up to 100, or the null device as metrics input; `Unchecked` lists what
  comes of it. High-span traces are ignored when `traces.count` is 0.
* A namespace that is listed twice gets twice the share of the services; nothing rejects
  the repetition.
* `HasTraces`, `HasMetrics` and `HasLogs` take any path that ends in `null` for absent,
  while `Load` opens it.
* `jitter_ms: 0` becomes 1000, and 1 is no jitter; `max_pending: 0` becomes 100000.
  `batch_size.metrics` and `batch_size.logs` are not used by the sender.
* Rounding up small shares may start one worker more than `sending.concurrency`, and
  with fewer workers than signals there is one per signal.
* 197 metrics exist, 200 are accepted as a count and 197 generated.
* `GenerateDimensionSets` does not make its sets unique.

`RateKept` speaks of the time before the send context is cancelled. Afterwards only
late spans are sent; if a call of the scheduler then times out while it waits behind
reservations that the workers have cancelled, the library can return a few tokens
too many.

## Proofs

For every set of payloads, every limit and every `MaxTime`, from the three named
assumptions of `DeferredScheduler` (`NoneAssumption`, `DelaysAssumption`,
`LimitsAssumption`):

* `TypeCorrect`: `Spec => []TypeOK`; `TypeOK` is inductive by itself.
* `Invariance`: `Spec => []IInv`, where `IInv` is `TypeOK`, `NoLostWakeup` and
  `Ledger` with what makes them inductive. `LoopInv` says what is exported is not
  also queued and the loop drains only after the close signal. `CallersInv` says
  that once a caller that waits has called Close nobody is inside `Enqueue`, that
  the loop leaves an empty queue, and that the total Close returned stays the total.
  `OrderInv` ties the sequence numbers to the calls: exactly what was pushed has one.
  Without them an arbitrary typed state could, for example, be drained with a caller
  about to push.
* `WakeupsKept`, `LedgerBalances`, `CloseIsComplete`: the safety properties the runs
  check, as consequences of `IInv`.
* `Implementation`: with `CallersWait`, `Spec => ImplementsDelivery`. One lemma per
  kind of step says to which abstract step it maps; most scheduler steps stutter.
  `PendingIsHeap` identifies the abstract pending set with the heap, which carries
  the queue limit and the order across.

About the whole sender, in `SenderRunProofs`, for any workers, any multiplier and any
limits, from `WorkersAssumption` (no worker sends two signals; finitely many send
traces), `RoundsAssumption` and `SchedulerAssumption` (the scheduler's assumptions on
its constants):

* `PoolInvariance`: `Spec => []PoolInv`. `RoundsInv` says of every worker how its exports,
  failures, errors and iterations stand to each other at each place of its loop: a failure
  that is not counted yet belongs to a worker about to handle it. `CallersAtWork` says
  that a call of `Enqueue` in progress belongs to a worker that is still in its send
  function, and `MainInv` where main and its call of Close are, and that every worker has
  returned before it.
* `RuleKept`: `Spec => CloseRuleObeyed`. By `CallersAtWork` and `MainInv` every step of
  the run is a step of a scheduler whose callers wait. `DeferredSchedulerProofs` is then
  instantiated with `CallersWait <- TRUE`, and its invariant holds throughout a run.
* `TypeCorrect`, `WorkExact`, `ConnectionsSafe`, `StatsComplete`: consequences of both
  invariants. `StatsComplete` also needs that no counter moves once Close has returned
  (`StatsInv`).
* `LateSpansKept`: if the queue holds every payload and the drain has no deadline, no
  payload is ever refused or discarded (`NoDrops`); the queue has room because what is
  about to be pushed is not in it yet (`RoomForOne`).
* `ReportsKeepErrors`: until the errors are read, they are at least those at the last load
  of what was sent, because errors only grow (`ErrorsGrow`) and are loaded last
  (`ReportInv`).

About one pass, in `SendTracesProofs`, for any templates and any limits, from
`BatchAssumption`:

* `Invariance`: `Spec => []SendInv`, in layers. `PassInv` ties the batch to its counters
  and `pc` to the position. `RequestsInv` adds what has been exported, `DeliveryInv` that
  exactly the traces behind the pass and outside the batch are delivered, and of a large
  trace what is no longer in `chunks`; both need `PassInv`. `HandedInv` does the same for
  the late spans, and `CutInv` keeps, for the last request, why it ended.
* `TypeCorrect`, `RequestsWithinLimits`, `NothingTwice`, `CompleteWhenNil`,
  `WholeAndInOrder`, `LateSpansHandedOver`, `NoFlushTooEarly`: all that the run checks.
  That the chunks of a scope are disjoint, cover it and respect the limit is three lemmas
  about division (`ChunksApart`, `ChunksCover`, `ChunkSize`).

About the limiter, in `RateLimiterProofs`, for any finite set of workers, any rate and any
sizes, from `CallersAssumption`, `SizesAssumption` and `RateAssumption`:

* `Invariance`: `Spec => []LimiterInv`. Until the send context is cancelled the tokens
  left, the events let through and those reserved are at most the burst plus the time
  elapsed, and so are, for every time `t`, those due by `t` (`DueInv`). Only the second is
  what is wanted; the first carries it over a new reservation. `SchedulerInv` says that a
  reservation the scheduler gives up returns no more than what nobody behind it has been
  promised, which is what `lastEvent` is for.
* `TypeCorrect` and `RateHolds`. `RateKept` counts reserved events one by one (`DueBy`),
  so that finite sets say what a sum over the callers would.

About a trace and its journey, in `TraceJourneyProofs`, for any topology, any sizes and
depth limits, any workers and any jitter, from `ServicesAssumption`,
`SpanTreeAssumption`, `TransformAssumption` and `DelayAssumption`:

* `SpanTreeInv` describes the stack of calls. `Began` says how many spans there were when
  each call began, and that each call's budget, on top of those, stays within the trace's.
  What a call may still create is at least what the call above it may, and exactly that
  once its last child has begun; so when the last child ends with budget left, that child
  was refused by the depth limit or is `AtLimit` itself, the only way a tree stays short.
* `Depth`, `Duration` and `MapThenSumSet` are recursive functions. That each has a value
  satisfying its equation, and what follows from the equation, is proved by least
  counterexamples (`LeastNat`: a non-empty set of naturals has a least element): the
  longest prefix of a tree whose depths exist, the last span without a positive duration.
  This takes the place of induction with an operator as parameter.
* `Invariance`: `Spec => []JourneyInv`. What workers read is what was written
  (`LoadedInv`); each step leaves a pass in the state `WorkerInv` gives, its attribute
  lists shared up to the injection and then without the template's (`Lists`); the IDs of a pass
  are a range of their own (`Pass`, `Apart`). Steps of one worker cannot disturb another
  because the shared template never changes what it says.
* `BudgetKept`, `WindowKept`, `TreeArrives`, `LateRootHeldBack`, `RelativeTimingKept`: all
  that the run checks.

About both programs, in `StartupProofs`, for any set of configurations with the fields
that `GeneratorConfig` and `SenderConfig` model, every number any whole number, from
`ConfigurationsAssumption` (the fields and their types), `DefaultsAssumption` and
`VarianceAssumption`:

* `Divided`: for every concurrency and all event counts, `Distribution` serves each
  active signal and starts the concurrency asked for, one more, or one for each active
  signal. Each share is within one of the exact quotient (`Rounding`, `SharesRounded`),
  and the remainder goes to one signal. `SelectedEvenly`: of the metrics at even distances,
  a range of positions holds its proportional part to within one, which is how many
  multiples of a step an interval contains (`EvenlySpread`).
* `StartupInvariance`: `Spec => []StartupInv`. `ConfigurationsChecked` keeps what each check
  promised for the steps after it; `FilesAsAsked`, `TemplatesAsAsked` and
  `BytesWithinEstimate` say what came of it, the last one with a bound that grows signal by
  signal (`Due`). An arbitrary state could, for example, be about to start workers with a
  duration that does not parse.
* `FailuresAreExplained`, `ActiveSignalsServed`, `DivisionNearConcurrency`,
  `MemoryCapHolds`, `LoadedAsWasAsked`, `SelectionIsEven`, `NamespacesAreResolved`: all
  that the run checks. `MemoryCapHolds` does not hold without `SeriesCovered` (see above for a
  counterexample); for `Fixed` configurations the estimate has a positive number of
  series if the default is not below the fewest, whether the default was given or not.

* `NamespacesAreResolved`: only loading the configuration changes what it speaks of, so it
  is kept by every other step; what it takes is `ResolvedEvenly`. The services that take
  turns correspond to the places where they are listed first (`UnassignedPlaces`), which
  counting the earlier ones numbers without a gap (`Ranks`). A turn is a remainder, so
  the services that get a namespace inject into its places in the list times one round
  more than the full ones, and its places times the full rounds inject into them
  (`RoundRobin`). Bounding a namespace by one round alone is false, as the attempt at the
  proof showed: one that is listed twice gets twice the share.

About the metrics and logs workers, in `SharedTemplatesProofs`, for any workers, any
template and any clock (the hypotheses, `Assumed`: no worker sends both signals, the
settings are whole numbers):

* `PrivateCopies`: a worker whose data points nobody else stamps (`Private`: every logs
  worker, and the only metrics worker) has on the wire the times it has stamped.
  `PositionInv` says of every worker how far its iteration has come, `ContentInv` of the
  private ones that data, stamps and wire agree; the latter is what another metrics
  worker breaks, and only for metrics workers (`OthersData`).
* `OwnCopyOfOne`: so the statement the run finds violated holds as long as no more than
  one metrics worker starts.

Only model-checked: liveness (`CloseReturns`, `AcceptedIsSettled`, `CancelLeadsToExit`),
because the prover handles neither fairness nor ENABLED.

## Not modelled

* Protobuf and gRPC themselves, headers and connection set-up, the JSON copies and the
  metadata file: I/O whose only effect here is to succeed or fail.
* Names, status and attributes of spans (the service of a span stands for its generated
  attributes, and of the custom ones only how many are asked for is modelled), the text
  of logs, values and dimensions of metrics, and the random helpers behind them
  (`generator/common`): data that no decision depends on. Where a draw decides something it is a nondeterministic choice.
* The rates the reporter prints, and `CalculateStats`: arithmetic for display.
* Overflow of 64-bit products in the memory estimate, which needs counts beyond any
  usable configuration.
* A restart of either program: nothing but the template files persists, and they are
  only read by the sender.

## Plan

Every component the models set out to cover is modelled, and every safety property of a
passing run is a theorem. Left: shorter proofs, in particular of the tree in
`TraceJourneyProofs` and of `SendTracesProofs`, and liveness, should the prover come to
handle it.
