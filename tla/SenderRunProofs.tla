---------------------------- MODULE SenderRunProofs ----------------------------
(***************************************************************************)
(* Proofs about SenderRun, for any workers, any multiplier and any limits. *)
(* PoolInv is inductive by itself.  It shows that the pool obeys the       *)
(* scheduler's rule about Close, so that everything proved about the       *)
(* scheduler for callers that wait holds inside the pool.                  *)
(***************************************************************************)
EXTENDS SenderRun, FiniteSetTheorems, TLAPS

Proved == INSTANCE DeferredSchedulerProofs WITH CallersWait <- TRUE

\* TypeOK without the scheduler's own variables, except for the calls.
PoolTypeOK ==
  /\ ctxDone \in BOOLEAN
  /\ workerPc \in [Worker -> WorkerStates]
  /\ iteration \in [Worker -> 0..MaxRounds]
  /\ recorded \in [Worker -> Nat]
  /\ errors \in [Worker -> 0..MaxRounds]
  /\ refused \in [Worker -> Nat]
  /\ mainPc \in MainStates
  /\ loaded \in 0..4
  /\ ticks \in 0..MaxReports
  /\ call \in [Payload -> Sched!CallStates]

InRound(w) == workerPc[w] \in {"begin", "pass", "limiter", "export", "failed"}

\* A round is begun only within the limits.  A failure that is not yet counted is one the
\* worker is about to count, or it has ended the worker after an interrupt.
RoundOf(w) ==
  /\ InRound(w) => iteration[w] < MaxRounds /\ ~OutOfRounds(w)
  /\ workerPc[w] \in {"begin", "pass"} => w \in TraceWorker
  /\ Multiplier > 0 => iteration[w] <= Multiplier
  /\ workerPc[w] = "returned" => ctxDone \/ OutOfRounds(w)
  /\ errors[w] <= iteration[w]
  /\ w \in OtherWorker => iteration[w] = recorded[w] + errors[w]
  /\ \/ refused[w] = errors[w] /\ (workerPc[w] = "failed" => ctxDone)
     \/ /\ refused[w] = errors[w] + 1
        /\ workerPc[w] = "failed" \/ (workerPc[w] = "returned" /\ ctxDone)

RoundsInv == \A w \in Worker : RoundOf(w)

\* Only a worker that is still in its send function has a call of Enqueue in progress, and
\* it is the call of its current iteration.
CallersAtWork ==
  \A p \in Payload : Sched!InCall(p) => workerPc[p[1]] = "pass" /\ p = payload(p[1])

\* Where main is and where its call of Close is.
MainInv ==
  /\ mainPc = "running" <=> closePc = "open"
  /\ closePc = "returned" <=> mainPc \in {"finished", "printed", "exited"}
  /\ mainPc # "running" => \A w \in Worker : workerPc[w] = "returned"

PoolInv == PoolTypeOK /\ RoundsInv /\ CallersAtWork /\ MainInv

\* A payload belongs to one trace worker.
LEMMA PayloadOwner ==
  ASSUME NEW p \in Payload
  PROVE  p[1] \in TraceWorker /\ p[1] \in Worker
BY DEF Payload, Worker

\* The program starts as PoolInv says.
LEMMA InitPoolInv == Init => PoolInv
<1> SUFFICES ASSUME Init PROVE PoolInv
  OBVIOUS
<1>1. PoolTypeOK
  <2>1. ctxDone \in BOOLEAN
    BY Zenon DEF Init
  <2>2. QED
    BY <2>1, RoundsAssumption
       DEF Init, Sched!Init, PoolTypeOK, WorkerStates, MainStates, LoadOrder, Sched!CallStates
<1>2. RoundsInv
  BY RoundsAssumption DEF Init, RoundsInv, RoundOf, InRound
<1>3. CallersAtWork /\ MainInv
  BY DEF Init, Sched!Init, CallersAtWork, MainInv, Sched!InCall
<1>4. QED
  BY <1>1, <1>2, <1>3 DEF PoolInv

--------------------------------------------------------------------------------
(* The steps of the workers *)

\* A step of a worker that does not touch the scheduler.
QuietStep(w) ==
  \/ Quit(w) \/ BeginRound(w) \/ BeginPass(w) \/ StartBatch(w) \/ EndPass(w) \/ SeeCancelled(w)
  \/ PassLimiter(w) \/ LimiterCancelled(w) \/ HandleError(w) \/ ExportEnds(w)

\* It moves one worker that had not returned, whose call of Enqueue has, counts at most one
\* of each for it and leaves the rest of the program alone.
LEMMA QuietStepEffect ==
  ASSUME NEW w \in Worker, QuietStep(w)
  PROVE  /\ UNCHANGED <<schedVars, ctxDone, mainPc, final, reportVars>>
         /\ workerPc[w] # "returned"
         /\ \E s \in WorkerStates : workerPc' = [workerPc EXCEPT ![w] = s]
         /\ workerPc[w] = "pass" => EnqueueReturned(w)
         /\ iteration' = iteration \/ (InRound(w) /\ iteration' = Counted(iteration, w))
         /\ recorded' = recorded \/ recorded' = Counted(recorded, w)
         /\ errors' = errors \/ (errors' = Counted(errors, w) /\ iteration' = Counted(iteration, w))
         /\ refused' = refused \/ refused' = Counted(refused, w)
BY DEF QuietStep, Quit, BeginRound, BeginPass, StartBatch, EndPass, SeeCancelled, PassLimiter,
       LimiterCancelled, HandleError, ExportEnds, ExportSucceeds, ExportFails, Goto,
       WorkerStates, InRound, WorkersOnly, countVars

\* What the worker that moves has counted agrees with where it is (pool.go, the worker
\* loops and sendTraces).
LEMMA QuietStepRound ==
  ASSUME PoolInv, NEW w \in Worker, QuietStep(w)
  PROVE  RoundOf(w)'
<1> USE RoundsAssumption
<1>1. /\ iteration[w] \in Nat /\ recorded[w] \in Nat /\ errors[w] \in Nat /\ refused[w] \in Nat
      /\ iteration[w] <= MaxRounds
      /\ {iteration, recorded, errors, refused} \subseteq [Worker -> Nat]
      /\ workerPc \in [Worker -> WorkerStates]
  BY DEF PoolInv, PoolTypeOK
<1>2. RoundOf(w)
  BY DEF PoolInv, RoundsInv
<1>3. w \in TraceWorker => w \notin OtherWorker
  BY WorkersAssumption
<1>4. CASE Quit(w) \/ BeginRound(w) \/ BeginPass(w) \/ StartBatch(w)
  BY <1>1, <1>2, <1>4 DEF Quit, BeginRound, BeginPass, StartBatch, Goto, countVars, WorkersOnly,
     RoundOf, InRound, OutOfRounds
<1>5. CASE SeeCancelled(w) \/ PassLimiter(w) \/ LimiterCancelled(w)
  BY <1>1, <1>2, <1>5 DEF SeeCancelled, PassLimiter, LimiterCancelled, Goto, countVars,
     WorkersOnly, RoundOf, InRound, OutOfRounds
<1>6. CASE EndPass(w)
  BY <1>1, <1>2, <1>3, <1>6 DEF EndPass, Goto, Counted, WorkersOnly, RoundOf, InRound, OutOfRounds
<1>7. CASE HandleError(w)
  BY <1>1, <1>2, <1>7 DEF HandleError, Goto, Counted, WorkersOnly, RoundOf, InRound, OutOfRounds
<1>8. CASE ExportSucceeds(w)
  BY <1>1, <1>2, <1>3, <1>8
     DEF ExportSucceeds, Goto, Counted, WorkersOnly, RoundOf, InRound, OutOfRounds
<1>9. CASE ExportFails(w)
  BY <1>1, <1>2, <1>9 DEF ExportFails, Goto, Counted, WorkersOnly, RoundOf, InRound, OutOfRounds
<1>10. QED
  BY <1>4, <1>5, <1>6, <1>7, <1>8, <1>9 DEF QuietStep, ExportEnds

\* A step of a worker that does not touch the scheduler keeps the counts of all workers.
LEMMA QuietStepRounds ==
  ASSUME PoolInv, NEW w \in Worker, QuietStep(w)
  PROVE  PoolTypeOK' /\ RoundsInv'
<1> USE RoundsAssumption
<1>1. \A v \in Worker : iteration[v] \in Nat /\ errors[v] \in Nat /\ errors[v] <= iteration[v]
  BY DEF PoolInv, PoolTypeOK, RoundsInv, RoundOf
<1>2. PoolTypeOK'
  <2>1. UNCHANGED <<call, ctxDone, mainPc, loaded, ticks>>
    BY QuietStepEffect DEF schedVars, reportVars
  <2>2. workerPc' \in [Worker -> WorkerStates]
    BY QuietStepEffect DEF PoolInv, PoolTypeOK
  <2>3. recorded' \in [Worker -> Nat] /\ refused' \in [Worker -> Nat]
    BY QuietStepEffect DEF PoolInv, PoolTypeOK, Counted
  <2>4. iteration' \in [Worker -> 0..MaxRounds]
    BY <1>1, QuietStepEffect DEF PoolInv, PoolTypeOK, RoundsInv, RoundOf, Counted
  <2>5. errors' \in [Worker -> 0..MaxRounds]
    <3>1. CASE errors' = errors
      BY <3>1 DEF PoolInv, PoolTypeOK
    <3>2. CASE errors' = Counted(errors, w) /\ iteration' = Counted(iteration, w)
      <4>1. errors[w] + 1 <= iteration'[w]
        BY <1>1, <3>2 DEF Counted, PoolInv, PoolTypeOK
      <4>2. errors[w] + 1 \in 0..MaxRounds
        BY <1>1, <2>4, <4>1
      <4>3. QED
        BY <3>2, <4>2 DEF Counted, PoolInv, PoolTypeOK
    <3>3. QED
      BY <3>1, <3>2, QuietStepEffect
  <2>6. QED
    BY <2>1, <2>2, <2>3, <2>4, <2>5 DEF PoolInv, PoolTypeOK
<1>3. ASSUME NEW v \in Worker, v # w PROVE RoundOf(v)'
  <2>1. /\ workerPc'[v] = workerPc[v] /\ iteration'[v] = iteration[v]
        /\ recorded'[v] = recorded[v] /\ errors'[v] = errors[v] /\ refused'[v] = refused[v]
    BY <1>3, QuietStepEffect DEF PoolInv, PoolTypeOK, Counted
  <2>2. ctxDone' = ctxDone
    BY QuietStepEffect
  <2>3. RoundOf(v)
    BY DEF PoolInv, RoundsInv
  <2>4. QED
    BY <2>1, <2>2, <2>3 DEF RoundOf, InRound, OutOfRounds
<1>4. QED
  BY <1>2, <1>3, QuietStepRound DEF RoundsInv

\* It keeps the whole of PoolInv.
LEMMA QuietStepPoolInv ==
  ASSUME PoolInv, NEW w \in Worker, QuietStep(w)
  PROVE  PoolInv'
<1>1. CallersAtWork'
  <2> SUFFICES ASSUME NEW p \in Payload, Sched!InCall(p)'
               PROVE  workerPc'[p[1]] = "pass" /\ p = payload(p[1])'
    BY DEF CallersAtWork
  <2>1. Sched!InCall(p)
    BY QuietStepEffect DEF Sched!InCall, schedVars
  <2>2. workerPc[p[1]] = "pass" /\ p = payload(p[1])
    BY <2>1 DEF PoolInv, CallersAtWork
  <2>3. p[1] # w
    BY <2>1, <2>2, QuietStepEffect, PayloadOwner DEF EnqueueReturned
  <2>4. QED
    BY <2>2, <2>3, QuietStepEffect, PayloadOwner
       DEF PoolInv, PoolTypeOK, payload, Counted
<1>2. MainInv'
  <2>1. UNCHANGED <<mainPc, closePc>> /\ mainPc = "running"
    BY QuietStepEffect DEF PoolInv, MainInv, schedVars
  <2>2. QED
    BY <2>1 DEF PoolInv, MainInv
<1>3. QED
  BY <1>1, <1>2, QuietStepRounds DEF PoolInv

\* Handing a late payload over: the scheduler is still open.
LEMMA EnqueuePoolInv ==
  ASSUME PoolInv, NEW w \in Worker, EnqueueLate(w)
  PROVE  /\ PoolInv'
         /\ payload(w) \in Payload /\ ~Sched!closed
<1> USE RoundsAssumption
<1>1. /\ call' = [call EXCEPT ![payload(w)] = "called"]
      /\ workerPc[w] = "pass"
      /\ UNCHANGED <<closePc, ctxDone, workerVars, mainPc, loaded, ticks>>
  BY DEF EnqueueLate, Sched!Call, Sched!closeVars, reportVars
<1>2. payload(w) \in Payload
  <2>1. w \in TraceWorker /\ iteration[w] < MaxRounds /\ iteration[w] \in Nat
    BY <1>1 DEF PoolInv, PoolTypeOK, RoundsInv, RoundOf, InRound
  <2>2. QED
    BY <2>1 DEF payload, Payload
<1>3. PoolTypeOK'
  BY <1>1, <1>2 DEF PoolInv, PoolTypeOK, Sched!CallStates, workerVars, countVars
<1>4. RoundsInv'
  BY <1>1 DEF PoolInv, RoundsInv, RoundOf, InRound, OutOfRounds, workerVars, countVars
<1>5. CallersAtWork'
  <2> SUFFICES ASSUME NEW p \in Payload, Sched!InCall(p)'
               PROVE  workerPc'[p[1]] = "pass" /\ p = payload(p[1])'
    BY DEF CallersAtWork
  <2>1. CASE p = payload(w)
    BY <1>1, <2>1 DEF payload, workerVars, countVars
  <2>2. CASE p # payload(w)
    <3>1. Sched!InCall(p)
      BY <1>1, <2>2 DEF Sched!InCall, PoolInv, PoolTypeOK
    <3>2. workerPc[p[1]] = "pass" /\ p = payload(p[1])
      BY <3>1 DEF PoolInv, CallersAtWork
    <3>3. QED
      BY <1>1, <3>2 DEF payload, workerVars, countVars
  <2>3. QED
    BY <2>1, <2>2
<1>6. MainInv' /\ ~Sched!closed
  BY <1>1 DEF PoolInv, MainInv, Sched!closed, workerVars
<1>7. QED
  BY <1>2, <1>3, <1>4, <1>5, <1>6 DEF PoolInv

--------------------------------------------------------------------------------
(* The other steps *)

\* The scheduler's goroutines finish calls of Enqueue and never begin one.
LEMMA SchedPoolInv ==
  ASSUME PoolInv, SchedTick \/ SchedLoop \/ SchedSignal \/ \E p \in Payload : SchedEnqueue(p)
  PROVE  PoolInv'
<1>1. UNCHANGED <<ctxDone, workerPc, iteration, recorded, errors, refused, mainPc, loaded, ticks>>
  BY DEF SchedTick, SchedLoop, SchedSignal, SchedEnqueue, SchedOnly, workerVars, countVars,
         reportVars
<1>2. /\ call' \in [Payload -> Sched!CallStates]
      /\ \A p \in Payload : Sched!InCall(p)' => Sched!InCall(p)
  <2>1. CASE UNCHANGED call
    BY <2>1 DEF PoolInv, PoolTypeOK, Sched!InCall
  <2>2. ASSUME NEW p \in Payload, Sched!EnqueueStep(p)
        PROVE  /\ call' \in [Payload -> Sched!CallStates]
               /\ \A q \in Payload : Sched!InCall(q)' => Sched!InCall(q)
    BY <2>2 DEF PoolInv, PoolTypeOK, Sched!InCall, Sched!CallStates, Sched!EnqueueStep,
       Sched!CheckClosed, Sched!Push, Sched!FindFull, Sched!SendWake, Sched!CountRefused
  <2>3. QED
    BY <2>1, <2>2
       DEF SchedTick, SchedLoop, SchedSignal, SchedEnqueue, Sched!Tick, Sched!SignalClose,
           Sched!LoopStep, Sched!LoopExit, Sched!LoopIdle, Sched!LoopPop, Sched!LoopSleep,
           Sched!TimerFires, Sched!ReceiveWake, Sched!Arm, Sched!DrainExpires,
           Sched!FireSent, Sched!FireFailed, Sched!callVars
<1>3. \/ closePc' = closePc
      \/ closePc = "flagged" /\ closePc' = "signalled"
  BY DEF SchedTick, SchedLoop, SchedSignal, SchedEnqueue, Sched!Tick, Sched!SignalClose,
         Sched!LoopStep, Sched!LoopExit, Sched!LoopIdle, Sched!LoopPop, Sched!LoopSleep,
         Sched!TimerFires, Sched!ReceiveWake, Sched!Arm, Sched!DrainExpires,
         Sched!FireSent, Sched!FireFailed, Sched!closeVars, Sched!EnqueueStep,
         Sched!CheckClosed, Sched!Push, Sched!FindFull, Sched!SendWake, Sched!CountRefused
<1>4. PoolTypeOK' /\ RoundsInv'
  BY <1>1, <1>2 DEF PoolInv, PoolTypeOK, RoundsInv, RoundOf, InRound, OutOfRounds
<1>5. CallersAtWork'
  BY <1>1, <1>2 DEF PoolInv, CallersAtWork, payload
<1>6. MainInv'
  BY <1>1, <1>3 DEF PoolInv, MainInv
<1>7. QED
  BY <1>4, <1>5, <1>6 DEF PoolInv

\* The reporter only reads.
LEMMA ReporterPoolInv ==
  ASSUME PoolInv, ReporterStep
  PROVE  PoolInv' /\ UNCHANGED <<schedVars, ctxDone, workerVars, mainPc, final>>
<1>1. /\ UNCHANGED <<schedVars, ctxDone, workerVars, mainPc, final>>
      /\ loaded' \in 0..4
      /\ ticks' = ticks \/ (ticks < MaxReports /\ ticks' = ticks + 1)
  <2>1. CASE ReportTick
    BY <2>1 DEF ReportTick, ReportOnly
  <2>2. CASE ReportLoad
    <3>1. loaded \in 0..4 /\ loaded # 4
      BY <2>2 DEF ReportLoad, Waiting, LoadOrder, PoolInv, PoolTypeOK
    <3>2. QED
      BY <2>2, <3>1 DEF ReportLoad, ReportOnly
  <2>3. QED
    BY <2>1, <2>2 DEF ReporterStep
<1>2. PoolTypeOK'
  BY <1>1, RoundsAssumption DEF PoolInv, PoolTypeOK, schedVars, workerVars, countVars
<1>3. RoundsInv' /\ CallersAtWork' /\ MainInv'
  BY <1>1 DEF PoolInv, RoundsInv, CallersAtWork, MainInv, RoundOf, InRound,
     OutOfRounds, payload, schedVars, workerVars, countVars, Sched!InCall
<1>4. QED
  BY <1>1, <1>2, <1>3 DEF PoolInv

\* An interrupt, and main from wg.Wait to its exit.
LEMMA MainPoolInv ==
  ASSUME PoolInv, Cancel \/ MainStep
  PROVE  PoolInv'
<1>1. /\ UNCHANGED <<call, workerVars, loaded, ticks>>
      /\ ctxDone' \in BOOLEAN /\ (ctxDone => ctxDone')
      /\ mainPc' \in MainStates
  <2>1. CASE Cancel
    BY <2>1 DEF Cancel, schedVars, reportVars, PoolInv, PoolTypeOK
  <2>2. CASE CloseScheduler
    BY <2>2 DEF CloseScheduler, Sched!SetClosed, Sched!callVars, reportVars, PoolInv,
       PoolTypeOK, MainStates
  <2>3. CASE RunReturns
    BY <2>3 DEF RunReturns, Sched!CloseReturn, Sched!callVars, reportVars, PoolInv,
       PoolTypeOK, MainStates
  <2>4. CASE PrintFinalStats
    BY <2>4 DEF PrintFinalStats, schedVars, reportVars, PoolInv, PoolTypeOK, MainStates
  <2>5. CASE Exit
    BY <2>5 DEF Exit, schedVars, reportVars, PoolInv, PoolTypeOK, MainStates
  <2>6. QED
    BY <2>1, <2>2, <2>3, <2>4, <2>5 DEF MainStep
<1>2. PoolTypeOK' /\ RoundsInv'
  BY <1>1 DEF PoolInv, PoolTypeOK, RoundsInv, RoundOf, InRound, OutOfRounds, workerVars,
     countVars
<1>3. CallersAtWork'
  BY <1>1 DEF PoolInv, CallersAtWork, payload, workerVars, countVars, Sched!InCall
<1>4. MainInv'
  BY <1>1 DEF PoolInv, MainInv, workerVars, Cancel, MainStep, CloseScheduler, RunReturns,
     PrintFinalStats, Exit, Sched!SetClosed, Sched!CloseReturn, schedVars
<1>5. QED
  BY <1>2, <1>3, <1>4 DEF PoolInv

\* PoolInv survives every step.
LEMMA PoolInvStep == PoolInv /\ [Next]_vars => PoolInv'
<1> SUFFICES ASSUME PoolInv, [Next]_vars PROVE PoolInv'
  OBVIOUS
<1>1. ASSUME NEW w \in Worker, WorkerStep(w) \/ ExportEnds(w)
      PROVE  PoolInv'
  BY <1>1, QuietStepPoolInv, EnqueuePoolInv DEF WorkerStep, QuietStep
<1>2. CASE SchedTick \/ SchedLoop \/ SchedSignal \/ \E p \in Payload : SchedEnqueue(p)
  BY <1>2, SchedPoolInv
<1>3. CASE ReporterStep
  BY <1>3, ReporterPoolInv
<1>4. CASE Cancel \/ MainStep
  BY <1>4, MainPoolInv
<1>5. CASE UNCHANGED vars
  BY <1>5 DEF vars, schedVars, workerVars, countVars, reportVars, PoolInv, PoolTypeOK,
     RoundsInv, RoundOf, CallersAtWork, MainInv, InRound, OutOfRounds, payload, Sched!InCall
<1>6. QED
  BY <1>1, <1>2, <1>3, <1>4, <1>5 DEF Next, Exited

\* What the pool keeps in order, in every state of a run (pool.go, main.go).
THEOREM PoolInvariance == Spec => []PoolInv
BY InitPoolInv, PoolInvStep, PTL DEF Spec

--------------------------------------------------------------------------------
(* The rule about Close *)

\* Every step of the run is, for the scheduler, one of callers that wait.
LEMMA StrictStep == PoolInv /\ [Next]_vars => [Strict!Next]_Strict!vars
<1> SUFFICES ASSUME PoolInv, [Next]_vars PROVE Strict!Next \/ UNCHANGED Strict!vars
  OBVIOUS
<1>1. ASSUME NEW w \in Worker, QuietStep(w) PROVE UNCHANGED Strict!vars
  BY <1>1, QuietStepEffect
     DEF schedVars, Strict!vars, Strict!callVars, Strict!queueVars, Strict!closeVars,
         Strict!loopVars, Strict!countVars
<1>2. ASSUME NEW w \in Worker, EnqueueLate(w) PROVE Strict!Next
  <2>1. payload(w) \in Payload /\ ~Sched!closed
    BY <1>2, EnqueuePoolInv
  <2>2. Strict!Call(payload(w))
    BY <1>2, <2>1
       DEF EnqueueLate, Sched!Call, Strict!Call, Sched!closed, Strict!closed,
           Sched!queueVars, Sched!closeVars, Sched!loopVars, Sched!countVars,
           Strict!queueVars, Strict!closeVars, Strict!loopVars, Strict!countVars
  <2>3. QED
    BY <2>1, <2>2 DEF Strict!Next
<1>3. CASE CloseScheduler
  <2>1. ASSUME NEW p \in Payload PROVE ~Sched!InCall(p)
    BY <1>3, PayloadOwner DEF CloseScheduler, PoolInv, CallersAtWork
  <2>2. Strict!SetClosed
    BY <1>3, <2>1
       DEF CloseScheduler, Sched!SetClosed, Strict!SetClosed, Sched!InCall, Strict!InCall,
           Sched!callVars, Sched!queueVars, Sched!loopVars, Sched!countVars,
           Strict!callVars, Strict!queueVars, Strict!loopVars, Strict!countVars
  <2>3. QED
    BY <2>2 DEF Strict!Next
<1>4. CASE RunReturns
  <2>1. Strict!CloseReturn
    BY <1>4
       DEF RunReturns, Sched!CloseReturn, Strict!CloseReturn, Sched!loopDone, Strict!loopDone,
           Sched!callVars, Sched!queueVars, Sched!loopVars, Sched!countVars,
           Strict!callVars, Strict!queueVars, Strict!loopVars, Strict!countVars
  <2>2. QED
    BY <2>1 DEF Strict!Next
<1>5. CASE UNCHANGED schedVars
  BY <1>5 DEF schedVars, Strict!vars, Strict!callVars, Strict!queueVars, Strict!closeVars,
              Strict!loopVars, Strict!countVars
<1>6. CASE SchedTick \/ SchedSignal
  BY <1>6 DEF SchedTick, SchedSignal, Sched!Tick, Strict!Tick, Sched!SignalClose,
     Strict!SignalClose, Strict!Next,
     Sched!callVars, Sched!queueVars, Sched!closeVars, Sched!loopVars, Sched!countVars,
     Strict!callVars, Strict!queueVars, Strict!closeVars, Strict!loopVars, Strict!countVars
<1>7. ASSUME NEW p \in Payload, SchedEnqueue(p) PROVE Strict!Next
  <2>1. Strict!EnqueueStep(p)
    BY <1>7
       DEF SchedEnqueue, Sched!EnqueueStep, Strict!EnqueueStep, Sched!CheckClosed,
           Strict!CheckClosed, Sched!Push, Strict!Push, Sched!FindFull, Strict!FindFull,
           Sched!SendWake, Strict!SendWake, Sched!CountRefused, Strict!CountRefused,
           Sched!QueueFull, Strict!QueueFull, Sched!closed, Strict!closed,
           Sched!Cardinality, Strict!Cardinality,
           Sched!callVars, Sched!queueVars, Sched!closeVars, Sched!loopVars, Sched!countVars,
           Strict!callVars, Strict!queueVars, Strict!closeVars, Strict!loopVars, Strict!countVars
  <2>2. QED
    BY <2>1 DEF Strict!Next
<1>8. CASE SchedLoop
  <2>1. Strict!LoopStep
    BY <1>8
       DEF SchedLoop, Sched!LoopStep, Strict!LoopStep, Sched!LoopExit, Strict!LoopExit,
           Sched!LoopIdle, Strict!LoopIdle, Sched!LoopPop, Strict!LoopPop, Sched!LoopSleep,
           Strict!LoopSleep, Sched!TimerFires, Strict!TimerFires, Sched!ReceiveWake,
           Strict!ReceiveWake, Sched!Arm, Strict!Arm, Sched!DrainExpires, Strict!DrainExpires,
           Sched!FireSent, Strict!FireSent, Sched!FireFailed, Strict!FireFailed,
           Sched!IsHead, Strict!IsHead, Sched!Less, Strict!Less, Sched!Waiting, Strict!Waiting,
           Sched!closeChClosed, Strict!closeChClosed,
           Sched!callVars, Sched!queueVars, Sched!closeVars, Sched!countVars,
           Strict!callVars, Strict!queueVars, Strict!closeVars, Strict!countVars
  <2>2. QED
    BY <2>1 DEF Strict!Next
<1>9. UNCHANGED vars \/ ReporterStep \/ Cancel \/ PrintFinalStats \/ Exit => UNCHANGED schedVars
  BY ReporterPoolInv DEF vars, Cancel, PrintFinalStats, Exit
<1>10. QED
  BY <1>1, <1>2, <1>3, <1>4, <1>5, <1>6, <1>7, <1>8, <1>9
     DEF Next, WorkerStep, QuietStep, MainStep, Exited

\* Nobody calls Enqueue after Close, whatever the workers, the server and an interrupt do:
\* wg.Wait before the scheduler's Close sees to it (pool.go, Run).
THEOREM RuleKept == Spec => CloseRuleObeyed
<1>1. Init => Strict!Init
  BY DEF Init, Sched!Init, Strict!Init
<1>2. QED
  BY <1>1, PoolInvariance, StrictStep, PTL DEF Spec, CloseRuleObeyed, Strict!Spec

--------------------------------------------------------------------------------
(* What was proved about the scheduler, inside the pool *)

\* The assumptions of the scheduler's proofs.
LEMMA LimitsHold ==
  Proved!NoneAssumption /\ Proved!DelaysAssumption /\ Proved!LimitsAssumption
BY SchedulerAssumption
   DEF Proved!NoneAssumption, Proved!DelaysAssumption, Proved!LimitsAssumption

\* The two instances of the scheduler, the model's and the proofs', take the same steps.
LEMMA SameSteps == [Strict!Next]_Strict!vars => [Proved!Next]_Proved!vars
<1>1. UNCHANGED Strict!vars <=> UNCHANGED Proved!vars
  BY
     DEF Strict!vars, Proved!vars, Strict!callVars, Proved!callVars, Strict!queueVars,
         Proved!queueVars, Strict!closeVars, Proved!closeVars, Strict!loopVars,
         Proved!loopVars, Strict!countVars, Proved!countVars
<1>2. Strict!Next <=> Proved!Next
  BY
     DEF Strict!Next, Proved!Next, Strict!Tick, Proved!Tick, Strict!Call, Proved!Call,
         Strict!EnqueueStep, Proved!EnqueueStep, Strict!CheckClosed, Proved!CheckClosed,
         Strict!Push, Proved!Push, Strict!FindFull, Proved!FindFull, Strict!SendWake,
         Proved!SendWake, Strict!CountRefused, Proved!CountRefused, Strict!SetClosed,
         Proved!SetClosed, Strict!SignalClose, Proved!SignalClose, Strict!CloseReturn,
         Proved!CloseReturn, Strict!LoopStep, Proved!LoopStep, Strict!LoopExit,
         Proved!LoopExit, Strict!LoopIdle, Proved!LoopIdle, Strict!LoopPop, Proved!LoopPop,
         Strict!LoopSleep, Proved!LoopSleep, Strict!TimerFires, Proved!TimerFires,
         Strict!ReceiveWake, Proved!ReceiveWake, Strict!Arm, Proved!Arm,
         Strict!DrainExpires, Proved!DrainExpires, Strict!FireSent, Proved!FireSent,
         Strict!FireFailed, Proved!FireFailed, Strict!Terminated, Proved!Terminated,
         Strict!closed, Proved!closed, Strict!closeChClosed, Proved!closeChClosed,
         Strict!loopDone, Proved!loopDone, Strict!Less, Proved!Less, Strict!IsHead,
         Proved!IsHead, Strict!QueueFull, Proved!QueueFull, Strict!Cardinality,
         Proved!Cardinality, Strict!InCall, Proved!InCall, Strict!Waiting, Proved!Waiting,
         Strict!vars, Proved!vars, Strict!callVars, Proved!callVars, Strict!queueVars,
         Proved!queueVars, Strict!closeVars, Proved!closeVars, Strict!loopVars,
         Proved!loopVars, Strict!countVars, Proved!countVars
<1>3. QED
  BY <1>1, <1>2

\* The run is a behaviour of the scheduler the proofs speak of.
LEMMA ProvedSpec == Spec => Proved!Spec
<1>1. Strict!Init <=> Proved!Init
  BY DEF Strict!Init, Proved!Init
<1>2. QED
  BY <1>1, SameSteps, RuleKept, PTL DEF CloseRuleObeyed, Strict!Spec, Proved!Spec

\* The scheduler's inductive invariant holds throughout a run.
LEMMA SchedulerInvariance == Spec => []Proved!IInv
BY ProvedSpec, LimitsHold, Proved!Invariance, PTL

--------------------------------------------------------------------------------
(* The properties of the run *)

\* Every variable of the run keeps its type, those of the scheduler included.
THEOREM TypeCorrect == Spec => []TypeOK
<1>1. PoolInv /\ Proved!IInv => TypeOK
  BY DEF PoolInv, PoolTypeOK, TypeOK, LoadOrder, Proved!IInv, Proved!TypeOK, Sched!TypeOK,
         Proved!CallStates, Sched!CallStates, Proved!CloseStates, Sched!CloseStates,
         Proved!LoopStates, Sched!LoopStates
<1>2. QED
  BY <1>1, PoolInvariance, SchedulerInvariance, PTL

\* The errors counted are the exports that failed, no interrupt among them, and only an
\* interrupt keeps a worker from its multiplier (traceWorker and the others, pool.go).
THEOREM WorkExact == Spec => []WorkCounted
<1>1. PoolInv => WorkCounted
  <2> SUFFICES ASSUME PoolInv, NEW w \in Worker
               PROVE  /\ errors[w] <= refused[w] /\ errors[w] <= iteration[w]
                      /\ refused[w] > errors[w] =>
                           /\ refused[w] = errors[w] + 1
                           /\ workerPc[w] = "failed" \/ (workerPc[w] = "returned" /\ ctxDone)
                      /\ w \in OtherWorker => iteration[w] = recorded[w] + errors[w]
                      /\ workerPc[w] = "returned" /\ ~ctxDone =>
                           iteration[w] = Multiplier /\ errors[w] = refused[w]
    BY DEF WorkCounted
  <2>1. iteration[w] \in Nat /\ errors[w] \in Nat /\ refused[w] \in Nat
    BY RoundsAssumption DEF PoolInv, PoolTypeOK
  <2>2. RoundOf(w)
    BY DEF PoolInv, RoundsInv
  <2>3. QED
    BY <2>1, <2>2, RoundsAssumption DEF RoundOf, OutOfRounds
<1>2. QED
  BY <1>1, PoolInvariance, PTL

\* After Close has returned the scheduler is at rest.
LEMMA AtRest ==
  ASSUME PoolInv, Proved!IInv, mainPc \in {"finished", "printed", "exited"}
  PROVE  /\ \A w \in Worker : workerPc[w] = "returned"
         /\ heap = {} /\ firing = None /\ loopPc = "done"
<1>1. closePc = "returned" /\ (\A w \in Worker : workerPc[w] = "returned")
  BY DEF PoolInv, MainInv
<1>2. QED
  BY <1>1 DEF Proved!IInv, Proved!LoopInv, Proved!CallersInv

\* The connections are closed when nothing uses them any more (main's deferred Close calls
\* after Run has returned).
THEOREM ConnectionsSafe == Spec => []ConnectionsOutliveExports
<1>1. PoolInv /\ Proved!IInv => ConnectionsOutliveExports
  BY AtRest DEF ConnectionsOutliveExports
<1>2. QED
  BY <1>1, PoolInvariance, SchedulerInvariance, PTL

\* Nothing is counted once the final statistics are printed.
StatsInv == Printed => final = Totals

\* No step changes a counter after the final statistics are printed.
LEMMA StatsInvStep == PoolInv /\ Proved!IInv /\ StatsInv /\ [Next]_vars => StatsInv'
<1> SUFFICES ASSUME PoolInv, Proved!IInv, StatsInv, [Next]_vars, Printed' PROVE (final = Totals)'
  BY DEF StatsInv
<1>1. mainPc \in {"finished", "printed", "exited"}
  <2>1. mainPc' = mainPc \/ (mainPc = "running" /\ mainPc' = "closing")
        \/ (mainPc = "closing" /\ mainPc' = "finished") \/ mainPc \in {"finished", "printed"}
    BY QuietStepEffect, ReporterPoolInv
       DEF Next, vars, WorkerStep, QuietStep, EnqueueLate, SchedTick, SchedLoop, SchedSignal,
           SchedEnqueue, SchedOnly, Cancel, MainStep, CloseScheduler, RunReturns,
           PrintFinalStats, Exit, Exited
  <2>2. QED
    BY <2>1 DEF Printed
<1>2. /\ \A w \in Worker : workerPc[w] = "returned"
      /\ loopPc = "done"
  BY <1>1, AtRest
<1>3. \A w \in Worker : ~QuietStep(w) /\ ~EnqueueLate(w)
  BY <1>2, QuietStepEffect DEF EnqueueLate
<1>4. UNCHANGED <<recorded, errors, sent, failed>> /\ (final' = final \/ PrintFinalStats)
  <2>1. CASE ReporterStep \/ Cancel \/ MainStep \/ UNCHANGED vars
    BY <2>1, ReporterPoolInv
       DEF Cancel, MainStep, CloseScheduler, RunReturns, PrintFinalStats, Exit, vars,
           workerVars, countVars, schedVars, Sched!SetClosed, Sched!CloseReturn,
           Sched!countVars
  <2>2. CASE SchedTick \/ SchedLoop \/ SchedSignal \/ \E p \in Payload : SchedEnqueue(p)
    BY <2>2, <1>2
       DEF SchedTick, SchedLoop, SchedSignal, SchedEnqueue, SchedOnly, workerVars, countVars,
           Sched!Tick, Sched!SignalClose, Sched!EnqueueStep, Sched!CheckClosed, Sched!Push,
           Sched!FindFull, Sched!SendWake, Sched!CountRefused, Sched!LoopStep,
           Sched!LoopExit, Sched!LoopIdle, Sched!LoopPop, Sched!LoopSleep,
           Sched!TimerFires, Sched!ReceiveWake, Sched!Arm, Sched!DrainExpires,
           Sched!FireSent, Sched!FireFailed, Sched!countVars, Sched!Waiting
  <2>3. QED
    BY <2>1, <2>2, <1>3 DEF Next, WorkerStep, QuietStep, Exited
<1>5. Totals' = Totals
  BY <1>4 DEF Totals
<1>6. CASE PrintFinalStats
  BY <1>5, <1>6 DEF PrintFinalStats
<1>7. CASE ~PrintFinalStats
  <2>1. final' = final
    BY <1>4, <1>7
  <2>2. Printed
    BY <1>1, <1>3, <1>7, ReporterPoolInv
       DEF Printed, Next, vars, WorkerStep, QuietStep, SchedTick, SchedLoop, SchedSignal,
           SchedEnqueue, SchedOnly, Cancel, MainStep, CloseScheduler, RunReturns, Exit, Exited
  <2>3. QED
    BY <2>1, <2>2, <1>5 DEF StatsInv
<1>8. QED
  BY <1>6, <1>7

\* The final statistics are complete and final, though the scheduler's goroutine counts
\* too (main prints them after Run has returned).
THEOREM StatsComplete == Spec => []FinalStatsComplete
<1>1. Init => StatsInv
  BY DEF Init, StatsInv, Printed
<1>2. Spec => []StatsInv
  BY <1>1, StatsInvStep, PoolInvariance, SchedulerInvariance, PTL DEF Spec
<1>3. Spec => []Proved!NothingLeftBehind
  BY ProvedSpec, LimitsHold, Proved!CloseIsComplete, PTL
<1>4. PoolInv /\ StatsInv /\ Proved!NothingLeftBehind => FinalStatsComplete
  BY DEF PoolInv, MainInv, StatsInv, Proved!NothingLeftBehind, Proved!Settled,
         FinalStatsComplete, Printed
<1>5. QED
  BY <1>2, <1>3, <1>4, PoolInvariance, PTL

--------------------------------------------------------------------------------
(* Late spans and reports *)

\* There are finitely many late payloads.
LEMMA PayloadFinite == IsFiniteSet(Payload) /\ Cardinality(Payload) \in Nat
<1>1. IsFiniteSet(1..MaxRounds)
  BY RoundsAssumption, FS_Interval
<1>2. IsFiniteSet(Payload)
  BY <1>1, WorkersAssumption, FS_Product DEF Payload
<1>3. QED
  BY <1>2, FS_CardinalityType

\* A queue that can hold every payload has room for one that is not in it.
LEMMA RoomForOne ==
  ASSUME heap \subseteq Payload, NEW p \in Payload, p \notin heap,
         MaxPending >= Cardinality(Payload)
  PROVE  ~Sched!QueueFull
<1>1. /\ IsFiniteSet(Payload \ {p})
      /\ Cardinality(Payload \ {p}) = Cardinality(Payload) - 1
  BY PayloadFinite, FS_RemoveElement
<1>2. heap \subseteq Payload \ {p}
  OBVIOUS
<1>3. Cardinality(heap) <= Cardinality(Payload \ {p}) /\ Cardinality(heap) \in Nat
  BY <1>1, <1>2, FS_Subset, FS_CardinalityType
<1>4. Sched!Cardinality(heap) = Cardinality(heap)
  BY DEF Sched!Cardinality, Cardinality
<1>5. QED
  BY <1>1, <1>3, <1>4, PayloadFinite, SchedulerAssumption DEF Sched!QueueFull

Roomy == MaxPending >= Cardinality(Payload) /\ DrainTimeout = 0

\* Then nothing is dropped or about to be.
NoDrops == \A p \in Payload : dropped[p] = 0 /\ call[p] # "refusing"

\* With room for every payload and no deadline for the drain, no step drops one.
LEMMA NoDropsStep == Roomy /\ PoolInv /\ Proved!IInv /\ NoDrops /\ [Next]_vars => NoDrops'
<1> SUFFICES ASSUME Roomy, PoolInv, Proved!IInv, NoDrops, [Next]_vars PROVE NoDrops'
  OBVIOUS
<1>1. CASE UNCHANGED <<call, dropped>>
  BY <1>1 DEF NoDrops
<1>2. ASSUME NEW w \in Worker, EnqueueLate(w) PROVE NoDrops'
  BY <1>2 DEF EnqueueLate, Sched!Call, Sched!countVars, NoDrops, PoolInv, PoolTypeOK
<1>3. ASSUME NEW p \in Payload, SchedEnqueue(p) PROVE NoDrops'
  <2>1. CASE Sched!CheckClosed(p)
    <3>1. Sched!InCall(p)
      BY <2>1 DEF Sched!CheckClosed, Sched!InCall
    <3>2. ~Sched!closed
      BY <3>1, PayloadOwner DEF PoolInv, CallersAtWork, MainInv, Sched!closed
    <3>3. QED
      BY <2>1, <3>2 DEF Sched!CheckClosed, Sched!countVars, NoDrops, PoolInv, PoolTypeOK
  <2>2. CASE Sched!Push(p) \/ Sched!SendWake(p)
    BY <2>2 DEF Sched!Push, Sched!SendWake, Sched!countVars, NoDrops, PoolInv, PoolTypeOK
  <2>3. ~Sched!FindFull(p)
    <3>1. call[p] = "checked" => p \notin heap /\ heap \subseteq Payload
      BY DEF Proved!IInv, Proved!Ledger, Proved!Undecided, Proved!TypeOK
    <3>2. QED
      BY <3>1, RoomForOne DEF Sched!FindFull, Roomy
  <2>4. ~Sched!CountRefused(p)
    BY DEF Sched!CountRefused, NoDrops
  <2>5. QED
    BY <1>3, <2>1, <2>2, <2>3, <2>4 DEF SchedEnqueue, Sched!EnqueueStep
<1>4. CASE SchedLoop \/ SchedTick \/ SchedSignal
  <2>1. ~Sched!DrainExpires
    BY DEF Sched!DrainExpires, Roomy
  <2>2. UNCHANGED <<call, dropped>>
    BY <1>4, <2>1
       DEF SchedLoop, SchedTick, SchedSignal, Sched!Tick, Sched!SignalClose, Sched!LoopStep,
           Sched!LoopExit, Sched!LoopIdle, Sched!LoopPop, Sched!LoopSleep, Sched!TimerFires,
           Sched!ReceiveWake, Sched!Arm, Sched!FireSent, Sched!FireFailed, Sched!callVars,
           Sched!countVars
  <2>3. QED
    BY <1>1, <2>2
<1>5. ASSUME NEW w \in Worker, QuietStep(w) PROVE UNCHANGED <<call, dropped>>
  BY <1>5, QuietStepEffect DEF schedVars
<1>6. ReporterStep \/ Cancel \/ MainStep \/ UNCHANGED vars => UNCHANGED <<call, dropped>>
  BY ReporterPoolInv
     DEF Cancel, MainStep, CloseScheduler, RunReturns, PrintFinalStats, Exit, vars,
         schedVars, Sched!SetClosed, Sched!CloseReturn, Sched!countVars, Sched!callVars
<1>7. QED
  BY <1>1, <1>2, <1>3, <1>4, <1>5, <1>6 DEF Next, WorkerStep, QuietStep, Exited

\* An interrupt drops no late span that was scheduled, nor does anything else, when the
\* queue has room and the drain no deadline (scheduler.go, Close; pool.go, Run).
THEOREM LateSpansKept == Spec => []InterruptKeepsLateSpans
<1>1. Init => NoDrops
  BY DEF Init, Sched!Init, NoDrops
<1>2. CASE Roomy
  <2>1. Roomy /\ Spec => []NoDrops
    BY <1>1, <1>2, NoDropsStep, PoolInvariance, SchedulerInvariance, PTL DEF Spec
  <2>2. NoDrops => InterruptKeepsLateSpans
    BY DEF NoDrops, InterruptKeepsLateSpans
  <2>3. QED
    BY <1>2, <2>1, <2>2, PTL
<1>3. CASE ~Roomy
  <2>1. InterruptKeepsLateSpans
    BY <1>3 DEF InterruptKeepsLateSpans, Roomy
  <2>2. QED
    BY <2>1, PTL
<1>4. QED
  BY <1>2, <1>3

CountersType == [exported : [Worker -> Nat], late : [Payload -> Nat],
                 errors : [Worker -> Nat], lateErrors : [Payload -> Nat]]

\* The errors that were there when a report last read what was sent are still there, and a
\* finished report has them.
ReportInv ==
  /\ report \in [totals : CountersType, errorsThen : [Worker -> Nat],
                 lateErrorsThen : [Payload -> Nat]]
  /\ \A w \in Worker : report.errorsThen[w] <= errors[w]
  /\ \A p \in Payload : report.lateErrorsThen[p] <= failed[p]
  /\ ReportsShowErrors

\* The errors only grow.
LEMMA ErrorsGrow ==
  ASSUME PoolInv, Proved!IInv, [Next]_vars
  PROVE  /\ errors \in [Worker -> Nat] /\ errors' \in [Worker -> Nat]
         /\ failed \in [Payload -> Nat] /\ failed' \in [Payload -> Nat]
         /\ \A w \in Worker : errors[w] <= errors'[w]
         /\ \A p \in Payload : failed[p] <= failed'[p]
<1>1. errors \in [Worker -> Nat] /\ failed \in [Payload -> Nat]
  BY RoundsAssumption DEF PoolInv, PoolTypeOK, Proved!IInv, Proved!TypeOK
<1>2. errors' \in [Worker -> Nat]
  BY PoolInvStep, RoundsAssumption DEF PoolInv, PoolTypeOK
<1>3. failed' \in [Payload -> Nat]
  <2>1. Proved!TypeOK'
    BY LimitsHold, StrictStep, SameSteps, Proved!TypeOKStep DEF Proved!IInv
  <2>2. QED
    BY <2>1 DEF Proved!TypeOK
<1>4. ASSUME NEW w \in Worker, QuietStep(w)
      PROVE  failed' = failed /\ \A v \in Worker : errors[v] <= errors'[v]
  BY <1>1, <1>4, QuietStepEffect DEF schedVars, Counted
<1>5. CASE UNCHANGED <<errors, failed>>
  BY <1>1, <1>5
<1>6. CASE SchedLoop
  <2>1. UNCHANGED errors
    BY <1>6 DEF SchedLoop, SchedOnly, workerVars, countVars
  <2>2. CASE Sched!FireFailed
    <3>1. \A p \in Payload : failed[p] <= failed'[p]
      BY <1>1, <2>2 DEF Sched!FireFailed
    <3>2. QED
      BY <1>1, <1>2, <1>3, <2>1, <3>1
  <2>3. CASE UNCHANGED failed
    BY <1>1, <1>2, <1>3, <2>1, <2>3
  <2>4. QED
    BY <1>6, <2>2, <2>3
       DEF SchedLoop, Sched!LoopStep, Sched!LoopExit, Sched!LoopIdle, Sched!LoopPop,
           Sched!LoopSleep, Sched!TimerFires, Sched!ReceiveWake, Sched!Arm,
           Sched!DrainExpires, Sched!FireSent, Sched!countVars
<1>7. \/ \E w \in Worker : QuietStep(w)
      \/ SchedLoop
      \/ UNCHANGED <<errors, failed>>
  BY ReporterPoolInv
     DEF Next, vars, WorkerStep, QuietStep, EnqueueLate, Sched!Call, SchedTick, SchedSignal,
         SchedEnqueue, SchedOnly, workerVars, countVars, schedVars, Cancel, MainStep,
         CloseScheduler, RunReturns, PrintFinalStats, Exit, Exited, Sched!Tick,
         Sched!SignalClose, Sched!SetClosed, Sched!CloseReturn, Sched!EnqueueStep,
         Sched!CheckClosed, Sched!Push, Sched!FindFull, Sched!SendWake, Sched!CountRefused,
         Sched!countVars
<1>8. QED
  BY <1>1, <1>2, <1>3, <1>4, <1>5, <1>6, <1>7

\* No step makes a report hide an error: the errors are the last PrintStats reads.
LEMMA ReportInvStep == PoolInv /\ Proved!IInv /\ ReportInv /\ [Next]_vars => ReportInv'
<1> SUFFICES ASSUME PoolInv, Proved!IInv, ReportInv, [Next]_vars PROVE ReportInv'
  OBVIOUS
<1>1. CASE UNCHANGED <<loaded, report>>
  <2>1. /\ \A w \in Worker : report.errorsThen[w] \in Nat
        /\ \A p \in Payload : report.lateErrorsThen[p] \in Nat
    BY DEF ReportInv
  <2>2. QED
    BY <1>1, <2>1, ErrorsGrow DEF ReportInv, ReportsShowErrors, Waiting
<1>2. CASE ReportTick
  <2>1. loaded' = 0 /\ report' = report /\ errors' = errors /\ failed' = failed
    BY <1>2 DEF ReportTick, ReportOnly, workerVars, countVars, schedVars
  <2>2. QED
    BY <2>1 DEF ReportInv, ReportsShowErrors, Waiting, LoadOrder
<1>3. CASE ReportLoad
  <2>1. loaded \in 0..3 /\ loaded' = loaded + 1
    BY <1>3 DEF ReportLoad, Waiting, LoadOrder, PoolInv, PoolTypeOK
  <2>2. errors' = errors /\ failed' = failed
    BY <1>3 DEF ReportLoad, ReportOnly, workerVars, countVars, schedVars
  <2>3. /\ recorded \in [Worker -> Nat] /\ errors \in [Worker -> Nat]
        /\ sent \in [Payload -> Nat] /\ failed \in [Payload -> Nat]
    BY RoundsAssumption DEF PoolInv, PoolTypeOK, Proved!IInv, Proved!TypeOK
  <2>4. CASE loaded = 3
    <3>1. report' = [report EXCEPT !.totals.errors = errors, !.totals.lateErrors = failed]
      BY <1>3, <2>4 DEF ReportLoad, LoadOrder
    <3>2. QED
      BY <2>2, <2>3, <3>1 DEF ReportInv, ReportsShowErrors, CountersType
  <2>5. CASE loaded # 3
    <3>1. LoadOrder[loaded + 1] # "errors"
      BY <2>1, <2>5 DEF LoadOrder
    <3> DEFINE signal == LoadOrder[loaded + 1]
               late == IF signal = "traces" THEN sent ELSE report.totals.late
    <3>2. report' = [totals |-> [report.totals EXCEPT !.exported = Load(signal), !.late = late],
                     errorsThen |-> errors, lateErrorsThen |-> failed]
      BY <1>3, <3>1 DEF ReportLoad
    <3>3. Load(signal) \in [Worker -> Nat] /\ late \in [Payload -> Nat]
      BY <2>3 DEF Load, ReportInv, CountersType
    <3> HIDE DEF signal, late
    <3>4. report' \in [totals : CountersType, errorsThen : [Worker -> Nat],
                       lateErrorsThen : [Payload -> Nat]]
      BY <2>3, <3>2, <3>3 DEF ReportInv, CountersType
    <3>5. report'.errorsThen = errors /\ report'.lateErrorsThen = failed
      BY <3>2
    <3>6. ~Waiting'
      BY <2>1, <2>5 DEF Waiting, LoadOrder
    <3>7. QED
      BY <2>2, <2>3, <3>4, <3>5, <3>6 DEF ReportInv, ReportsShowErrors
  <2>6. QED
    BY <2>4, <2>5
<1>4. QED
  BY <1>1, <1>2, <1>3, QuietStepEffect
     DEF Next, vars, WorkerStep, QuietStep, EnqueueLate, SchedTick, SchedLoop, SchedSignal,
         SchedEnqueue, SchedOnly, reportVars, Cancel, MainStep, CloseScheduler, RunReturns,
         PrintFinalStats, Exit, Exited, ReporterStep

\* A report has every error that came before anything it counts as sent (PrintStats).
THEOREM ReportsKeepErrors == Spec => []ReportsShowErrors
<1>1. Init => ReportInv
  BY DEF Init, Sched!Init, Totals, ReportInv, ReportsShowErrors, CountersType
<1>2. ReportInv => ReportsShowErrors
  BY DEF ReportInv
<1>3. QED
  BY <1>1, <1>2, ReportInvStep, PoolInvariance, SchedulerInvariance, PTL DEF Spec
================================================================================
