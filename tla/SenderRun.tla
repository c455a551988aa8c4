------------------------------- MODULE SenderRun -------------------------------
(***************************************************************************)
(* One run of telemetry-sender, from the start of the worker pool to the   *)
(* exit of the process: WorkerPool.Run and its worker goroutines           *)
(* (internal/sender/workers/pool.go), the context they send under and the  *)
(* rest of main (cmd/telemetry-sender/main.go).  The deferred scheduler is *)
(* the whole DeferredScheduler, instantiated without its rule for callers: *)
(* that the pool obeys the rule is a property here (CloseRuleObeyed).      *)
(*                                                                         *)
(* An iteration of a worker is one call of sendTraces, sendMetrics or      *)
(* sendLogs.  The last two make one rate-limited export.  A trace pass     *)
(* hands late spans over and makes any number of exports, none if all its  *)
(* spans are late; an error ends it, and what it exported before stays     *)
(* counted.  Which spans are in which batch is SendTraces.  An export      *)
(* under the send context has no deadline of its own: it may hang until    *)
(* the context is cancelled.                                               *)
(*                                                                         *)
(* The reporter's goroutine (internal/sender/stats/reporter.go) reads the  *)
(* counters one after the other while everybody changes them.              *)
(***************************************************************************)
EXTENDS Naturals, Sequences, FiniteSets

CONSTANTS
  TraceWorker, MetricsWorker, LogsWorker,
  Multiplier,   \* sending.multiplier; 0: no limit
  MaxRounds,    \* bound of the model: iterations of a worker
  MaxBatches,   \* bound of the model: exports that succeed in all passes of a trace worker
  MaxReports,   \* bound of the model: ticks of the reporter
  None, Delays, MaxPending, DrainTimeout, ExportTimeout, MaxTime

OtherWorker == MetricsWorker \cup LogsWorker
Worker == TraceWorker \cup OtherWorker

\* The late spans of pass k of trace worker w: one payload at most.
Payload == TraceWorker \X (1..MaxRounds)

ASSUME WorkersAssumption ==
  /\ TraceWorker \cap OtherWorker = {} /\ MetricsWorker \cap LogsWorker = {}
  /\ IsFiniteSet(TraceWorker)

\* A worker without a limit starts its count again after a million iterations.
ASSUME RoundsAssumption ==
  /\ MaxRounds \in Nat \ {0} /\ Multiplier \in 0..MaxRounds
  /\ Multiplier = 0 => MaxRounds <= 1000000
  /\ MaxBatches \in Nat /\ MaxReports \in Nat

ASSUME SchedulerAssumption ==
  /\ None \notin Payload
  /\ Delays \subseteq Nat \ {0}
  /\ {MaxPending, DrainTimeout, ExportTimeout, MaxTime} \subseteq Nat

VARIABLES
  now, call, sendAt, seq, seqOf, heap, wake, closePc, reported,
  loopPc, firing, fireBy, timerAt, armed, drainAt, dropped, sent, failed,
  ctxDone,    \* the send context is cancelled
  workerPc,   \* [Worker -> where the worker is]
  iteration,  \* [Worker -> iterations completed]
  recorded,   \* [Worker -> exports counted in the reporter]
  errors,     \* [Worker -> errors counted in the reporter]
  refused,    \* [Worker -> exports that failed]; the program has no such counter
  mainPc,     \* where main is
  final,      \* what PrintFinalStats printed
  loaded,     \* loads PrintStats has made; when all are, the reporter waits for a tick
  report,     \* what PrintStats has read so far; a report when it waits again
  ticks       \* ticks received

schedVars == <<now, call, sendAt, seq, seqOf, heap, wake, closePc, reported,
               loopPc, firing, fireBy, timerAt, armed, drainAt,
               dropped, sent, failed>>
countVars == <<iteration, recorded, errors, refused>>
workerVars == <<workerPc, countVars>>
reportVars == <<loaded, report, ticks>>
vars == <<schedVars, ctxDone, workerVars, mainPc, final, reportVars>>

Sched == INSTANCE DeferredScheduler WITH CallersWait <- FALSE

WorkerStates == {"check", "begin", "pass", "limiter", "export", "failed", "returned"}
MainStates == {"running", "closing", "finished", "printed", "exited"}

payload(w) == <<w, iteration[w] + 1>>
Printed == mainPc \in {"printed", "exited"}

\* What the reporter's counters add up to.
Totals == [exported |-> recorded, late |-> sent, errors |-> errors, lateErrors |-> failed]

\* Mutant: PrintStats begins with the errors.
LoadOrder_ErrorsFirst == <<"errors", "traces", "metrics", "logs">>

\* The order in which PrintStats reads the counters.
LoadOrder == <<"traces", "metrics", "logs", "errors">>

Waiting == loaded = Len(LoadOrder)

Init ==
  /\ Sched!Init
  /\ ctxDone = FALSE
  /\ workerPc = [w \in Worker |-> "check"]
  /\ iteration = [w \in Worker |-> 0]
  /\ recorded = [w \in Worker |-> 0]
  /\ errors = [w \in Worker |-> 0]
  /\ refused = [w \in Worker |-> 0]
  /\ mainPc = "running"
  /\ final = Totals
  /\ loaded = Len(LoadOrder)
  /\ report = [totals |-> Totals, errorsThen |-> errors, lateErrorsThen |-> failed]
  /\ ticks = 0

Goto(w, pc) == workerPc' = [workerPc EXCEPT ![w] = pc]
Counted(counter, w) == [counter EXCEPT ![w] = @ + 1]

WorkersOnly == UNCHANGED <<schedVars, ctxDone, mainPc, final, reportVars>>

--------------------------------------------------------------------------------
(* traceWorker, metricsWorker, logsWorker *)

OutOfRounds(w) == Multiplier > 0 /\ iteration[w] >= Multiplier

\* Mutant: the loop does not look at the context.
Quit_AtMultiplier(w) ==
  /\ workerPc[w] = "check"
  /\ OutOfRounds(w)
  /\ Goto(w, "returned")
  /\ UNCHANGED countVars /\ WorkersOnly

Quit(w) ==
  /\ workerPc[w] = "check"
  /\ OutOfRounds(w) \/ ctxDone
  /\ Goto(w, "returned")
  /\ UNCHANGED countVars /\ WorkersOnly

\* Both checks pass and the worker calls its send function.
BeginRound(w) ==
  /\ workerPc[w] = "check"
  /\ ~OutOfRounds(w) /\ ~ctxDone
  /\ iteration[w] < MaxRounds
  /\ Goto(w, IF w \in TraceWorker THEN "begin" ELSE "limiter")
  /\ UNCHANGED countVars /\ WorkersOnly

\* sendTraces looks at the context before the first trace.
BeginPass(w) ==
  /\ workerPc[w] = "begin"
  /\ ~ctxDone
  /\ Goto(w, "pass")
  /\ UNCHANGED countVars /\ WorkersOnly

\* transformTrace found late spans, which go to the scheduler: before, between and after
\* the exports of the pass.
EnqueueLate(w) ==
  /\ workerPc[w] = "pass"
  /\ Sched!Call(payload(w))
  /\ UNCHANGED <<ctxDone, workerVars, mainPc, final, reportVars>>

EnqueueReturned(w) == w \in TraceWorker => ~Sched!InCall(payload(w))

\* A batch is full, or it is what remains, or a trace is too large for one.
StartBatch(w) ==
  /\ workerPc[w] = "pass"
  /\ EnqueueReturned(w)
  /\ recorded[w] < MaxBatches
  /\ Goto(w, "limiter")
  /\ UNCHANGED countVars /\ WorkersOnly

\* sendTraces returns nil, perhaps without one export: all spans were late, or the
\* templates have no trace, and then it has not looked at the context either.
EndPass(w) ==
  /\ workerPc[w] \in {"begin", "pass"}
  /\ EnqueueReturned(w)
  /\ iteration' = Counted(iteration, w)
  /\ Goto(w, "check")
  /\ UNCHANGED <<recorded, errors, refused>> /\ WorkersOnly

\* It looks again every hundred traces and before each part of a large trace.
SeeCancelled(w) ==
  /\ workerPc[w] \in {"begin", "pass"}
  /\ EnqueueReturned(w)
  /\ ctxDone
  /\ Goto(w, "failed")
  /\ UNCHANGED countVars /\ WorkersOnly

\* Limiter.Wait returns: tokens were there or the delay is over.
PassLimiter(w) ==
  /\ workerPc[w] = "limiter"
  /\ Goto(w, "export")
  /\ UNCHANGED countVars /\ WorkersOnly

LimiterCancelled(w) ==
  /\ workerPc[w] = "limiter"
  /\ ctxDone
  /\ Goto(w, "failed")
  /\ UNCHANGED countVars /\ WorkersOnly

\* A trace pass goes on after it; for the others it is the end of the iteration.
ExportSucceeds(w) ==
  /\ workerPc[w] = "export"
  /\ recorded' = Counted(recorded, w)
  /\ IF w \in TraceWorker
     THEN Goto(w, "pass") /\ UNCHANGED iteration
     ELSE Goto(w, "check") /\ iteration' = Counted(iteration, w)
  /\ UNCHANGED <<errors, refused>> /\ WorkersOnly

\* Mutant: the send function counts the error itself.
ExportFails_Recorded(w) ==
  /\ workerPc[w] = "export"
  /\ refused' = Counted(refused, w)
  /\ errors' = Counted(errors, w)
  /\ Goto(w, "failed")
  /\ UNCHANGED <<iteration, recorded>> /\ WorkersOnly

ExportFails(w) ==
  /\ workerPc[w] = "export"
  /\ refused' = Counted(refused, w)
  /\ Goto(w, "failed")
  /\ UNCHANGED <<iteration, recorded, errors>> /\ WorkersOnly

ExportEnds(w) == ExportSucceeds(w) \/ ExportFails(w)

\* Mutant: the loop counts every error and leaves the context to its next check.
HandleError_Always(w) ==
  /\ workerPc[w] = "failed"
  /\ errors' = Counted(errors, w)
  /\ iteration' = Counted(iteration, w)
  /\ Goto(w, "check")
  /\ UNCHANGED <<recorded, refused>> /\ WorkersOnly

\* The send function returned an error: a cancelled context ends the worker without
\* counting it, any other error is counted and the worker goes on.
HandleError(w) ==
  /\ workerPc[w] = "failed"
  /\ \/ /\ ctxDone
        /\ Goto(w, "returned")
        /\ UNCHANGED <<iteration, errors>>
     \/ /\ ~ctxDone
        /\ errors' = Counted(errors, w)
        /\ iteration' = Counted(iteration, w)
        /\ Goto(w, "check")
  /\ UNCHANGED <<recorded, refused>> /\ WorkersOnly

WorkerStep(w) ==
  \/ Quit(w) \/ BeginRound(w) \/ BeginPass(w) \/ EnqueueLate(w) \/ StartBatch(w) \/ EndPass(w)
  \/ SeeCancelled(w) \/ PassLimiter(w) \/ LimiterCancelled(w) \/ HandleError(w)

--------------------------------------------------------------------------------
(* The scheduler's own steps *)

SchedOnly == UNCHANGED <<ctxDone, workerVars, mainPc, final, reportVars>>

SchedTick == Sched!Tick /\ SchedOnly
SchedEnqueue(p) == Sched!EnqueueStep(p) /\ SchedOnly
SchedLoop == Sched!LoopStep /\ SchedOnly
SchedSignal == Sched!SignalClose /\ SchedOnly

--------------------------------------------------------------------------------
(* The reporter's goroutine: four loads of PrintStats, one after the other *)

ReportOnly == UNCHANGED <<schedVars, ctxDone, workerVars, mainPc, final>>

ReportTick ==
  /\ Waiting /\ mainPc # "exited" /\ ticks < MaxReports
  /\ ticks' = ticks + 1
  /\ loaded' = 0
  /\ UNCHANGED report /\ ReportOnly

WorkersOf == [traces |-> TraceWorker, metrics |-> MetricsWorker, logs |-> LogsWorker]

\* The exports of one signal as they are counted now, the others as read before.
Load(signal) ==
  [w \in Worker |-> IF w \in WorkersOf[signal] THEN recorded[w] ELSE report.totals.exported[w]]

\* The late spans are counted with those of the traces.  errorsThen and lateErrorsThen are
\* no part of a report: they are the errors at the moment it last read what was sent.
ReportLoad ==
  /\ ~Waiting /\ mainPc # "exited"
  /\ loaded' = loaded + 1
  /\ LET counter == LoadOrder[loaded + 1]
     IN report' =
          IF counter = "errors"
          THEN [report EXCEPT !.totals.errors = errors, !.totals.lateErrors = failed]
          ELSE [totals |-> [report.totals EXCEPT
                              !.exported = Load(counter),
                              !.late = IF counter = "traces" THEN sent ELSE @],
                errorsThen |-> errors, lateErrorsThen |-> failed]
  /\ UNCHANGED ticks /\ ReportOnly

ReporterStep == ReportTick \/ ReportLoad

--------------------------------------------------------------------------------
(* Run and main *)

\* An interrupt or the end of the duration.
Cancel ==
  /\ ~ctxDone
  /\ ctxDone' = TRUE
  /\ UNCHANGED <<schedVars, workerVars, mainPc, final, reportVars>>

\* Mutant: the scheduler is closed before the workers are done.
CloseScheduler_Early ==
  /\ mainPc = "running"
  /\ Sched!SetClosed
  /\ mainPc' = "closing"
  /\ UNCHANGED <<ctxDone, workerVars, final, reportVars>>

\* wg.Wait returns and Run calls the scheduler's Close.
CloseScheduler ==
  /\ mainPc = "running"
  /\ \A w \in Worker : workerPc[w] = "returned"
  /\ Sched!SetClosed
  /\ mainPc' = "closing"
  /\ UNCHANGED <<ctxDone, workerVars, final, reportVars>>

\* Mutant: Run does not wait for the drain.
RunReturns_NoDrain ==
  /\ mainPc = "closing"
  /\ mainPc' = "finished"
  /\ UNCHANGED <<schedVars, ctxDone, workerVars, final, reportVars>>

RunReturns ==
  /\ mainPc = "closing"
  /\ Sched!CloseReturn
  /\ mainPc' = "finished"
  /\ UNCHANGED <<ctxDone, workerVars, final, reportVars>>

PrintFinalStats ==
  /\ mainPc = "finished"
  /\ final' = Totals
  /\ mainPc' = "printed"
  /\ UNCHANGED <<schedVars, ctxDone, workerVars, reportVars>>

\* main's deferred calls: the context is cancelled, the reporter is stopped, the
\* connections are closed, and every goroutine ends with the process.
Exit ==
  /\ mainPc = "printed"
  /\ mainPc' = "exited"
  /\ ctxDone' = TRUE
  /\ UNCHANGED <<schedVars, workerVars, final, reportVars>>

MainStep == CloseScheduler \/ RunReturns \/ PrintFinalStats \/ Exit

Exited == mainPc = "exited" /\ UNCHANGED vars

Next ==
  \/ \E w \in Worker : WorkerStep(w) \/ ExportEnds(w)
  \/ SchedTick \/ SchedLoop \/ SchedSignal
  \/ \E p \in Payload : SchedEnqueue(p)
  \/ Cancel
  \/ MainStep
  \/ ReporterStep
  \/ Exited

Spec == Init /\ [][Next]_vars

\* Goroutines that can run do run and time passes.  The server need not answer: an
\* export under the send context is only sure to end once that context is cancelled,
\* one of the scheduler's ends by its own timeout.  Nobody has to interrupt the run.
Fairness ==
  /\ \A w \in Worker :
       /\ WF_vars(WorkerStep(w))
       /\ WF_vars(ctxDone /\ ExportEnds(w))
  /\ WF_vars(SchedTick) /\ WF_vars(SchedLoop) /\ WF_vars(SchedSignal)
  /\ \A p \in Payload : WF_vars(SchedEnqueue(p))
  /\ WF_vars(MainStep)

FairSpec == Spec /\ Fairness

--------------------------------------------------------------------------------
TypeOK ==
  /\ Sched!TypeOK
  /\ ctxDone \in BOOLEAN
  /\ workerPc \in [Worker -> WorkerStates]
  /\ iteration \in [Worker -> 0..MaxRounds]
  /\ recorded \in [Worker -> Nat]
  /\ errors \in [Worker -> 0..MaxRounds]
  /\ refused \in [Worker -> Nat]
  /\ mainPc \in MainStates
  /\ loaded \in 0..Len(LoadOrder)
  /\ ticks \in 0..MaxReports

\* "Callers must not Enqueue after Close" (scheduler.go, Enqueue): everything the run
\* does to the scheduler is what a caller that waits before Close does.  Run's wg.Wait
\* is what makes it so.
Strict == INSTANCE DeferredScheduler WITH CallersWait <- TRUE
CloseRuleObeyed == Strict!Spec

\* When the connections are closed nothing uses or will use them: no worker is left, no
\* late span is queued or being exported ("so the process doesn't exit - and the trace
\* exporter isn't closed - while late roots are still pending", pool.go, Run).
ConnectionsOutliveExports ==
  mainPc = "exited" =>
    /\ \A w \in Worker : workerPc[w] = "returned"
    /\ heap = {} /\ firing = None /\ loopPc = "done"

\* The final statistics are those of the whole run: nothing is counted after they are
\* printed, and every late payload handed over is in them or in the dropped spans.
FinalStatsComplete ==
  Printed =>
    /\ final = Totals
    /\ \A p \in Payload : call[p] # "new" => dropped[p] + sent[p] + failed[p] = 1

\* An interrupt does not drop late spans ("an interrupt or duration limit that stops the
\* send loop must NOT drop already-scheduled late spans", scheduler.go): with room in
\* the queue and no deadline on the drain, none is ever dropped, whenever the context
\* ends.
InterruptKeepsLateSpans ==
  MaxPending >= Cardinality(Payload) /\ DrainTimeout = 0 =>
    \A p \in Payload : dropped[p] = 0

\* The errors counted are the exports that failed, and an interrupt is none of them: it
\* leaves at most one failure uncounted, of the worker that it ended, whatever that worker
\* had already sent in the same pass (pool.go, the worker loops).  A metrics or logs worker
\* counts each iteration once, sent or in error; only an interrupt keeps a worker from its
\* multiplier.
WorkCounted ==
  \A w \in Worker :
    /\ errors[w] <= refused[w] /\ errors[w] <= iteration[w]
    /\ refused[w] > errors[w] =>
         /\ refused[w] = errors[w] + 1
         /\ workerPc[w] = "failed" \/ (workerPc[w] = "returned" /\ ctxDone)
    /\ w \in OtherWorker => iteration[w] = recorded[w] + errors[w]
    /\ workerPc[w] = "returned" /\ ~ctxDone =>
         iteration[w] = Multiplier /\ errors[w] = refused[w]

\* No report hides an error behind what was sent after it, though its counters are read
\* one after the other while workers and scheduler count: the errors are read last, so they
\* have every failure that came before anything the report counts as sent (PrintStats).
ReportsShowErrors ==
  Waiting =>
    /\ \A w \in Worker : report.errorsThen[w] <= report.totals.errors[w]
    /\ \A p \in Payload : report.lateErrorsThen[p] <= report.totals.lateErrors[p]

\* Once the context is cancelled the process exits, even if the server never answers.
CancelLeadsToExit == ctxDone ~> mainPc = "exited"

\* "multiplier - How many times to replay templates" (README.md, sender parameters):
\* the trace templates are replayed at most Multiplier times.
Replays ==
  Cardinality({k \in TraceWorker \X (1..MaxRounds) : k[2] <= iteration[k[1]]})
ReplaysBounded == Multiplier > 0 => Replays <= Multiplier
================================================================================
