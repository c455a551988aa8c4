------------------------ MODULE DeferredSchedulerProofs ------------------------
(***************************************************************************)
(* Proofs about DeferredScheduler, for every set of payloads and every     *)
(* value of the limits.  TypeOK is inductive by itself; the other safety   *)
(* properties need the facts collected in IInv: where the loop can be when *)
(* it is armed or done, that nobody is in Enqueue once a caller that waits *)
(* has called Close, and where each payload is.                            *)
(***************************************************************************)
EXTENDS DeferredScheduler, TLAPS

\* The initial values have their types.
LEMMA InitTypeOK == Init => TypeOK
<1> USE LimitsAssumption
<1> SUFFICES ASSUME Init PROVE TypeOK
  OBVIOUS
<1>1. wake \in BOOLEAN /\ armed \in BOOLEAN
  BY Zenon DEF Init
<1>2. /\ now \in 0..MaxTime /\ timerAt \in 0..MaxTime
      /\ call \in [Payload -> CallStates] /\ sendAt \in [Payload -> 0..MaxTime]
      /\ heap \in SUBSET Payload /\ seq \in Nat /\ seqOf \in [Payload -> Nat]
      /\ firing \in Payload \cup {None} /\ fireBy \in Nat /\ drainAt \in Nat
  BY DEF Init, CallStates
<1>3. /\ closePc \in CloseStates /\ loopPc \in LoopStates
      /\ reported \in [Payload -> Nat] /\ dropped \in [Payload -> Nat]
      /\ sent \in [Payload -> Nat] /\ failed \in [Payload -> Nat]
  BY DEF Init, CloseStates, LoopStates
<1>4. QED
  BY <1>1, <1>2, <1>3 DEF TypeOK

\* Every step keeps every variable in its type.
LEMMA TypeOKStep == TypeOK /\ [Next]_vars => TypeOK'
<1> USE DelaysAssumption, LimitsAssumption
<1> SUFFICES ASSUME TypeOK, [Next]_vars PROVE TypeOK'
  OBVIOUS
<1> USE DEF TypeOK, CallStates, CloseStates, LoopStates, vars, callVars,
            queueVars, closeVars, loopVars, countVars
<1>1. CASE Tick
  BY <1>1 DEF Tick
<1>2. ASSUME NEW p \in Payload, Call(p) PROVE TypeOK'
  BY <1>2 DEF Call
<1>3. ASSUME NEW p \in Payload, EnqueueStep(p) PROVE TypeOK'
  <2>1. CASE CheckClosed(p)
    BY <2>1 DEF CheckClosed
  <2>2. CASE Push(p)
    BY <2>2 DEF Push
  <2>3. CASE FindFull(p)
    BY <2>3 DEF FindFull
  <2>4. CASE SendWake(p)
    BY <2>4 DEF SendWake
  <2>5. CASE CountRefused(p)
    BY <2>5 DEF CountRefused
  <2>6. QED
    BY <1>3, <2>1, <2>2, <2>3, <2>4, <2>5 DEF EnqueueStep
<1>4. CASE SetClosed \/ SignalClose \/ CloseReturn
  BY <1>4 DEF SetClosed, SignalClose, CloseReturn
<1>5. CASE LoopStep
  <2>1. CASE LoopExit \/ LoopIdle \/ TimerFires \/ ReceiveWake
    BY <2>1 DEF LoopExit, LoopIdle, TimerFires, ReceiveWake
  <2>2. ASSUME NEW p \in Payload, LoopPop(p) PROVE TypeOK'
    BY <2>2 DEF LoopPop
  <2>3. ASSUME NEW p \in Payload, LoopSleep(p) PROVE TypeOK'
    BY <2>3 DEF LoopSleep
  <2>4. CASE Arm
    BY <2>4 DEF Arm
  <2>5. CASE DrainExpires
    BY <2>5 DEF DrainExpires
  <2>6. CASE FireSent \/ FireFailed
    BY <2>6 DEF FireSent, FireFailed
  <2>7. QED
    BY <1>5, <2>1, <2>2, <2>3, <2>4, <2>5, <2>6 DEF LoopStep
<1>6. CASE Terminated \/ UNCHANGED vars
  BY <1>6 DEF Terminated
<1>7. QED
  BY <1>1, <1>2, <1>3, <1>4, <1>5, <1>6 DEF Next

\* Every payload is in a state its call can be in, the clock and the due times stay in
\* the bound of the model, and the counters only count (all state of scheduler.go).
THEOREM TypeCorrect == Spec => []TypeOK
BY InitTypeOK, TypeOKStep, PTL DEF Spec

--------------------------------------------------------------------------------
(* The inductive invariant *)

\* Where the loop is decides what it holds; it stops only after it saw closeCh.
LoopInv ==
  /\ loopPc = "fire" <=> firing # None
  /\ armed => closeChClosed
  /\ loopPc = "done" => armed
  /\ loopPc = "idle" => ~armed
  /\ closePc = "returned" => loopPc = "done"

\* pool.Run calls Close after its workers: from then on nobody is in Enqueue, and
\* the loop leaves an empty queue behind.
CallersInv ==
  CallersWait =>
    /\ closed => \A p \in Payload : ~InCall(p)
    /\ loopPc = "done" => heap = {}
    /\ closePc = "returned" => reported = dropped

\* A payload has a number in the order of acceptance, at most s.seq, exactly when it was
\* pushed, and a refused one was counted as dropped.
OrderInv ==
  \A p \in Payload :
    /\ seqOf[p] <= seq
    /\ p \in heap \cup {firing} => call[p] \in {"queued", "accepted"}
    /\ call[p] \in {"queued", "accepted"} <=> seqOf[p] # 0
    /\ call[p] = "refused" => dropped[p] = 1

IInv == TypeOK /\ LoopInv /\ CallersInv /\ OrderInv /\ NoLostWakeup /\ Ledger

\* A sum of naturals is zero only if each of them is.
LEMMA ZeroSum ==
  ASSUME NEW a \in Nat, NEW b \in Nat, NEW c \in Nat, a + b + c = 0
  PROVE  a = 0 /\ b = 0 /\ c = 0
OBVIOUS

\* The loop's bookkeeping survives every step.
LEMMA LoopInvStep == IInv /\ TypeOK' /\ [Next]_vars => LoopInv'
<1> SUFFICES ASSUME IInv, TypeOK', [Next]_vars PROVE LoopInv'
  OBVIOUS
<1> USE NoneAssumption, LimitsAssumption DEF IInv, LoopInv
<1>1. CASE UNCHANGED <<loopPc, firing, armed, closePc>>
  BY <1>1 DEF closeChClosed
<1>2. CASE SetClosed
  BY <1>2 DEF SetClosed, TypeOK, closeChClosed, loopDone, Waiting, loopVars,
      closeVars
<1>3. CASE SignalClose
  BY <1>3 DEF SignalClose, TypeOK, closeChClosed, loopDone, Waiting, loopVars,
      closeVars
<1>4. CASE CloseReturn
  BY <1>4 DEF CloseReturn, TypeOK, closeChClosed, loopDone, Waiting, loopVars,
      closeVars
<1>5. CASE LoopExit
  BY <1>5 DEF LoopExit, TypeOK, closeChClosed, loopDone, Waiting, loopVars,
      closeVars
<1>6. CASE LoopIdle
  BY <1>6 DEF LoopIdle, TypeOK, closeChClosed, loopDone, Waiting, loopVars,
      closeVars
<1>7. ASSUME NEW p \in Payload, LoopPop(p) PROVE LoopInv'
  BY <1>7 DEF LoopPop, TypeOK, closeChClosed, loopDone, Waiting, loopVars,
      closeVars
<1>8. ASSUME NEW p \in Payload, LoopSleep(p) PROVE LoopInv'
  BY <1>8 DEF LoopSleep, TypeOK, closeChClosed, loopDone, Waiting, loopVars,
      closeVars
<1>9. CASE TimerFires
  BY <1>9 DEF TimerFires, TypeOK, closeChClosed, loopDone, Waiting, loopVars,
      closeVars
<1>10. CASE ReceiveWake
  BY <1>10 DEF ReceiveWake, TypeOK, closeChClosed, loopDone, Waiting, loopVars,
      closeVars
<1>11. CASE Arm
  BY <1>11 DEF Arm, TypeOK, closeChClosed, loopDone, Waiting, loopVars,
      closeVars
<1>12. CASE DrainExpires
  BY <1>12 DEF DrainExpires, TypeOK, closeChClosed, loopDone, Waiting, loopVars,
      closeVars
<1>13. CASE FireSent
  BY <1>13 DEF FireSent, TypeOK, closeChClosed, loopDone, Waiting, loopVars,
      closeVars
<1>14. CASE FireFailed
  BY <1>14 DEF FireFailed, TypeOK, closeChClosed, loopDone, Waiting, loopVars,
      closeVars
<1>15. QED
  BY <1>1, <1>2, <1>3, <1>4, <1>5, <1>6, <1>7, <1>8, <1>9, <1>10, <1>11, <1>12,
     <1>13, <1>14
     DEF Next, EnqueueStep, LoopStep, Terminated, vars, callVars, queueVars,
         closeVars, loopVars, countVars, Tick, Call, CheckClosed, Push,
         FindFull, SendWake, CountRefused

\* Nobody enters Enqueue after Close, so a stopped loop leaves nothing queued.
LEMMA CallersInvStep == IInv /\ TypeOK' /\ [Next]_vars => CallersInv'
<1> SUFFICES ASSUME IInv, TypeOK', [Next]_vars PROVE CallersInv'
  OBVIOUS
<1> USE NoneAssumption, LimitsAssumption DEF IInv, CallersInv
<1>1. CASE UNCHANGED <<call, heap, closePc, loopPc, dropped, reported>>
  BY <1>1 DEF closed, InCall
<1>2. ASSUME NEW p \in Payload, Call(p) PROVE CallersInv'
  BY <1>2 DEF Call, TypeOK, LoopInv, closed, closeChClosed, InCall, queueVars,
      closeVars, loopVars, callVars, countVars, CallStates
<1>3. ASSUME NEW p \in Payload, CheckClosed(p) PROVE CallersInv'
  BY <1>3 DEF CheckClosed, TypeOK, LoopInv, closed, closeChClosed, InCall,
      queueVars, closeVars, loopVars, callVars, countVars, CallStates
<1>4. ASSUME NEW p \in Payload, Push(p) PROVE CallersInv'
  BY <1>4 DEF Push, TypeOK, LoopInv, closed, closeChClosed, InCall, queueVars,
      closeVars, loopVars, callVars, countVars, CallStates
<1>5. ASSUME NEW p \in Payload, FindFull(p) PROVE CallersInv'
  BY <1>5 DEF FindFull, TypeOK, LoopInv, closed, closeChClosed, InCall,
      queueVars, closeVars, loopVars, callVars, countVars, CallStates
<1>6. ASSUME NEW p \in Payload, SendWake(p) PROVE CallersInv'
  BY <1>6 DEF SendWake, TypeOK, LoopInv, closed, closeChClosed, InCall,
      queueVars, closeVars, loopVars, callVars, countVars, CallStates
<1>7. ASSUME NEW p \in Payload, CountRefused(p) PROVE CallersInv'
  BY <1>7 DEF CountRefused, TypeOK, LoopInv, closed, closeChClosed, InCall,
      queueVars, closeVars, loopVars, callVars, countVars, CallStates
<1>8. CASE SetClosed
  BY <1>8 DEF SetClosed, TypeOK, LoopInv, closed, closeChClosed, InCall,
      queueVars, closeVars, loopVars, callVars, countVars, CallStates
<1>9. CASE SignalClose
  BY <1>9 DEF SignalClose, TypeOK, LoopInv, closed, closeChClosed, InCall,
      queueVars, closeVars, loopVars, callVars, countVars, CallStates
<1>10. CASE CloseReturn
  BY <1>10 DEF CloseReturn, TypeOK, LoopInv, closed, closeChClosed, InCall,
      queueVars, closeVars, loopVars, callVars, countVars, CallStates
<1>11. CASE LoopExit
  BY <1>11 DEF LoopExit, TypeOK, LoopInv, closed, closeChClosed, InCall,
      queueVars, closeVars, loopVars, callVars, countVars, CallStates
<1>12. CASE LoopIdle
  BY <1>12 DEF LoopIdle, TypeOK, LoopInv, closed, closeChClosed, InCall,
      queueVars, closeVars, loopVars, callVars, countVars, CallStates
<1>13. ASSUME NEW p \in Payload, LoopPop(p) PROVE CallersInv'
  BY <1>13 DEF LoopPop, TypeOK, LoopInv, closed, closeChClosed, InCall,
      queueVars, closeVars, loopVars, callVars, countVars, CallStates
<1>14. ASSUME NEW p \in Payload, LoopSleep(p) PROVE CallersInv'
  BY <1>14 DEF LoopSleep, TypeOK, LoopInv, closed, closeChClosed, InCall,
      queueVars, closeVars, loopVars, callVars, countVars, CallStates
<1>15. CASE TimerFires
  BY <1>15 DEF TimerFires, TypeOK, LoopInv, closed, closeChClosed, InCall,
      queueVars, closeVars, loopVars, callVars, countVars, CallStates
<1>16. CASE ReceiveWake
  BY <1>16 DEF ReceiveWake, TypeOK, LoopInv, closed, closeChClosed, InCall,
      queueVars, closeVars, loopVars, callVars, countVars, CallStates
<1>17. CASE Arm
  BY <1>17 DEF Arm, TypeOK, LoopInv, closed, closeChClosed, InCall, queueVars,
      closeVars, loopVars, callVars, countVars, CallStates
<1>18. CASE DrainExpires
  BY <1>18 DEF DrainExpires, TypeOK, LoopInv, closed, closeChClosed, InCall,
      queueVars, closeVars, loopVars, callVars, countVars, CallStates
<1>19. CASE FireSent
  BY <1>19 DEF FireSent, TypeOK, LoopInv, closed, closeChClosed, InCall,
      queueVars, closeVars, loopVars, callVars, countVars, CallStates
<1>20. CASE FireFailed
  BY <1>20 DEF FireFailed, TypeOK, LoopInv, closed, closeChClosed, InCall,
      queueVars, closeVars, loopVars, callVars, countVars, CallStates
<1>21. QED
  BY <1>1, <1>2, <1>3, <1>4, <1>5, <1>6, <1>7, <1>8, <1>9, <1>10, <1>11, <1>12,
     <1>13, <1>14, <1>15, <1>16, <1>17, <1>18, <1>19, <1>20
     DEF Next, EnqueueStep, LoopStep, Terminated, vars, callVars, queueVars,
         closeVars, loopVars, countVars, Tick

\* The order of acceptance survives every step.
LEMMA OrderInvStep == IInv /\ TypeOK' /\ [Next]_vars => OrderInv'
<1> SUFFICES ASSUME IInv, TypeOK', [Next]_vars PROVE OrderInv'
  OBVIOUS
<1> USE NoneAssumption, LimitsAssumption DEF IInv, OrderInv
<1>1. CASE UNCHANGED <<call, heap, firing, seq, seqOf, dropped>>
  BY <1>1
<1>2. ASSUME NEW p \in Payload, Call(p) PROVE OrderInv'
  BY <1>2 DEF Call, TypeOK, LoopInv, Ledger, Open, Undecided, Settled, IsHead,
      CallStates, callVars, queueVars, loopVars, countVars
<1>3. ASSUME NEW p \in Payload, CheckClosed(p) PROVE OrderInv'
  BY <1>3 DEF CheckClosed, TypeOK, LoopInv, Ledger, Open, Undecided, Settled,
      IsHead, CallStates, callVars, queueVars, loopVars, countVars
<1>4. ASSUME NEW p \in Payload, Push(p) PROVE OrderInv'
  BY <1>4 DEF Push, TypeOK, LoopInv, Ledger, Open, Undecided, Settled, IsHead,
      CallStates, callVars, queueVars, loopVars, countVars
<1>5. ASSUME NEW p \in Payload, FindFull(p) PROVE OrderInv'
  BY <1>5 DEF FindFull, TypeOK, LoopInv, Ledger, Open, Undecided, Settled,
      IsHead, CallStates, callVars, queueVars, loopVars, countVars
<1>6. ASSUME NEW p \in Payload, SendWake(p) PROVE OrderInv'
  BY <1>6 DEF SendWake, TypeOK, LoopInv, Ledger, Open, Undecided, Settled,
      IsHead, CallStates, callVars, queueVars, loopVars, countVars
<1>7. ASSUME NEW p \in Payload, CountRefused(p) PROVE OrderInv'
  <2>1. dropped[p] = 0 /\ sent[p] = 0 /\ failed[p] = 0
    <3>1. dropped[p] \in Nat /\ sent[p] \in Nat /\ failed[p] \in Nat
      BY DEF TypeOK
    <3>2. dropped[p] + sent[p] + failed[p] = 0
      BY <1>7 DEF CountRefused, Ledger, Open, Undecided
    <3>3. QED
      BY <3>1, <3>2, ZeroSum
  <2>2. /\ dropped' = [dropped EXCEPT ![p] = 1] /\ call' = [call EXCEPT ![p] = "refused"]
        /\ UNCHANGED <<heap, firing, seq, seqOf, sent, failed>>
    BY <1>7, <2>1 DEF CountRefused, queueVars, loopVars
  <2>3. QED
    BY <1>7, <2>1, <2>2 DEF CountRefused, TypeOK, CallStates, Undecided, Ledger
<1>8. ASSUME NEW p \in Payload, LoopPop(p) PROVE OrderInv'
  BY <1>8 DEF LoopPop, TypeOK, LoopInv, Ledger, Open, Undecided, Settled,
      IsHead, CallStates, callVars, queueVars, loopVars, countVars
<1>9. CASE DrainExpires
  BY <1>9 DEF DrainExpires, TypeOK, LoopInv, Ledger, Open, Undecided, Settled,
      IsHead, CallStates, callVars, queueVars, loopVars, countVars
<1>10. CASE FireSent
  BY <1>10 DEF FireSent, TypeOK, LoopInv, Ledger, Open, Undecided, Settled,
      IsHead, CallStates, callVars, queueVars, loopVars, countVars
<1>11. CASE FireFailed
  BY <1>11 DEF FireFailed, TypeOK, LoopInv, Ledger, Open, Undecided, Settled,
      IsHead, CallStates, callVars, queueVars, loopVars, countVars
<1>12. QED
  BY <1>1, <1>2, <1>3, <1>4, <1>5, <1>6, <1>7, <1>8, <1>9, <1>10, <1>11
     DEF Next, EnqueueStep, LoopStep, Terminated, vars, callVars, queueVars,
         closeVars, loopVars, countVars, Tick, SetClosed, SignalClose,
         CloseReturn, LoopExit, LoopIdle, LoopSleep, TimerFires, ReceiveWake,
         Arm

\* No step loses a wake-up.
LEMMA NoLostWakeupStep == IInv /\ TypeOK' /\ [Next]_vars => NoLostWakeup'
<1> SUFFICES ASSUME IInv, TypeOK', [Next]_vars PROVE NoLostWakeup'
  OBVIOUS
<1> USE NoneAssumption, LimitsAssumption DEF IInv, NoLostWakeup
<1>1. CASE UNCHANGED <<call, heap, sendAt, wake, loopPc, timerAt>>
  BY <1>1 DEF WakeComing
<1>2. ASSUME NEW p \in Payload, Call(p) PROVE NoLostWakeup'
  BY <1>2 DEF Call, TypeOK, OrderInv, WakeComing, IsHead, Less, CallStates,
      queueVars, loopVars, callVars
<1>3. ASSUME NEW p \in Payload, CheckClosed(p) PROVE NoLostWakeup'
  BY <1>3 DEF CheckClosed, TypeOK, OrderInv, WakeComing, IsHead, Less,
      CallStates, queueVars, loopVars, callVars
<1>4. ASSUME NEW p \in Payload, Push(p) PROVE NoLostWakeup'
  BY <1>4 DEF Push, TypeOK, OrderInv, WakeComing, IsHead, Less, CallStates,
      queueVars, loopVars, callVars
<1>5. ASSUME NEW p \in Payload, FindFull(p) PROVE NoLostWakeup'
  BY <1>5 DEF FindFull, TypeOK, OrderInv, WakeComing, IsHead, Less, CallStates,
      queueVars, loopVars, callVars
<1>6. ASSUME NEW p \in Payload, SendWake(p) PROVE NoLostWakeup'
  BY <1>6 DEF SendWake, TypeOK, OrderInv, WakeComing, IsHead, Less, CallStates,
      queueVars, loopVars, callVars
<1>7. ASSUME NEW p \in Payload, CountRefused(p) PROVE NoLostWakeup'
  BY <1>7 DEF CountRefused, TypeOK, OrderInv, WakeComing, IsHead, Less,
      CallStates, queueVars, loopVars, callVars
<1>8. CASE LoopExit
  BY <1>8 DEF LoopExit, TypeOK, OrderInv, WakeComing, IsHead, Less, CallStates,
      queueVars, loopVars, callVars
<1>9. CASE LoopIdle
  BY <1>9 DEF LoopIdle, TypeOK, OrderInv, WakeComing, IsHead, Less, CallStates,
      queueVars, loopVars, callVars
<1>10. ASSUME NEW p \in Payload, LoopPop(p) PROVE NoLostWakeup'
  BY <1>10 DEF LoopPop, TypeOK, OrderInv, WakeComing, IsHead, Less, CallStates,
      queueVars, loopVars, callVars
<1>11. ASSUME NEW p \in Payload, LoopSleep(p) PROVE NoLostWakeup'
  BY <1>11 DEF LoopSleep, TypeOK, OrderInv, WakeComing, IsHead, Less,
      CallStates, queueVars, loopVars, callVars
<1>12. CASE TimerFires
  BY <1>12 DEF TimerFires, TypeOK, OrderInv, WakeComing, IsHead, Less,
      CallStates, queueVars, loopVars, callVars
<1>13. CASE ReceiveWake
  BY <1>13 DEF ReceiveWake, TypeOK, OrderInv, WakeComing, IsHead, Less,
      CallStates, queueVars, loopVars, callVars
<1>14. CASE Arm
  BY <1>14 DEF Arm, TypeOK, OrderInv, WakeComing, IsHead, Less, CallStates,
      queueVars, loopVars, callVars
<1>15. CASE DrainExpires
  BY <1>15 DEF DrainExpires, TypeOK, OrderInv, WakeComing, IsHead, Less,
      CallStates, queueVars, loopVars, callVars
<1>16. CASE FireSent
  BY <1>16 DEF FireSent, TypeOK, OrderInv, WakeComing, IsHead, Less, CallStates,
      queueVars, loopVars, callVars
<1>17. CASE FireFailed
  BY <1>17 DEF FireFailed, TypeOK, OrderInv, WakeComing, IsHead, Less,
      CallStates, queueVars, loopVars, callVars
<1>18. QED
  BY <1>1, <1>2, <1>3, <1>4, <1>5, <1>6, <1>7, <1>8, <1>9, <1>10, <1>11, <1>12,
     <1>13, <1>14, <1>15, <1>16, <1>17
     DEF Next, EnqueueStep, LoopStep, Terminated, vars, callVars, queueVars,
         closeVars, loopVars, countVars, Tick, SetClosed, SignalClose,
         CloseReturn

\* Every step keeps each payload in one place and counted once.
LEMMA LedgerStep == IInv /\ TypeOK' /\ [Next]_vars => Ledger'
<1> SUFFICES ASSUME IInv, TypeOK', [Next]_vars PROVE Ledger'
  OBVIOUS
<1> USE NoneAssumption, LimitsAssumption DEF IInv, Ledger
<1>1. CASE UNCHANGED <<call, heap, firing, dropped, sent, failed>>
  BY <1>1 DEF Open, Undecided, Settled
<1>2. ASSUME NEW p \in Payload, Call(p) PROVE Ledger'
  BY <1>2 DEF Call, TypeOK, LoopInv, OrderInv, Open, Undecided, Settled, IsHead,
      CallStates, callVars, queueVars, loopVars, countVars
<1>3. ASSUME NEW p \in Payload, CheckClosed(p) PROVE Ledger'
  BY <1>3 DEF CheckClosed, TypeOK, LoopInv, OrderInv, Open, Undecided, Settled,
      IsHead, CallStates, callVars, queueVars, loopVars, countVars
<1>4. ASSUME NEW p \in Payload, Push(p) PROVE Ledger'
  BY <1>4 DEF Push, TypeOK, LoopInv, OrderInv, Open, Undecided, Settled, IsHead,
      CallStates, callVars, queueVars, loopVars, countVars
<1>5. ASSUME NEW p \in Payload, FindFull(p) PROVE Ledger'
  BY <1>5 DEF FindFull, TypeOK, LoopInv, OrderInv, Open, Undecided, Settled,
      IsHead, CallStates, callVars, queueVars, loopVars, countVars
<1>6. ASSUME NEW p \in Payload, SendWake(p) PROVE Ledger'
  BY <1>6 DEF SendWake, TypeOK, LoopInv, OrderInv, Open, Undecided, Settled,
      IsHead, CallStates, callVars, queueVars, loopVars, countVars
<1>7. ASSUME NEW p \in Payload, CountRefused(p) PROVE Ledger'
  <2>1. dropped[p] = 0 /\ sent[p] = 0 /\ failed[p] = 0
    <3>1. dropped[p] \in Nat /\ sent[p] \in Nat /\ failed[p] \in Nat
      BY DEF TypeOK
    <3>2. dropped[p] + sent[p] + failed[p] = 0
      BY <1>7 DEF CountRefused, Ledger, Open, Undecided
    <3>3. QED
      BY <3>1, <3>2, ZeroSum
  <2>2. /\ dropped' = [dropped EXCEPT ![p] = 1] /\ call' = [call EXCEPT ![p] = "refused"]
        /\ UNCHANGED <<heap, firing, seq, seqOf, sent, failed>>
    BY <1>7, <2>1 DEF CountRefused, queueVars, loopVars
  <2>3. QED
    BY <1>7, <2>1, <2>2 DEF CountRefused, TypeOK, CallStates, Open, Undecided, Settled
<1>8. ASSUME NEW p \in Payload, LoopPop(p) PROVE Ledger'
  BY <1>8 DEF LoopPop, TypeOK, LoopInv, OrderInv, Open, Undecided, Settled,
      IsHead, CallStates, callVars, queueVars, loopVars, countVars
<1>9. CASE DrainExpires
  BY <1>9 DEF DrainExpires, TypeOK, LoopInv, OrderInv, Open, Undecided, Settled,
      IsHead, CallStates, callVars, queueVars, loopVars, countVars
<1>10. CASE FireSent
  <2>1. /\ firing \in Payload
        /\ dropped[firing] = 0 /\ sent[firing] = 0 /\ failed[firing] = 0
    <3>1. firing \in Payload
      BY <1>10 DEF FireSent, TypeOK, LoopInv
    <3>2. dropped[firing] \in Nat /\ sent[firing] \in Nat /\ failed[firing] \in Nat
      BY <3>1 DEF TypeOK
    <3>3. dropped[firing] + sent[firing] + failed[firing] = 0
      BY <3>1 DEF Ledger, Open
    <3>4. QED
      BY <3>1, <3>2, <3>3, ZeroSum
  <2>2. /\ sent' = [sent EXCEPT ![firing] = 1] /\ firing' = None
        /\ UNCHANGED <<call, heap, dropped, failed>>
    BY <1>10, <2>1 DEF FireSent, callVars, queueVars
  <2>3. QED
    BY <2>1, <2>2 DEF TypeOK, Open, Undecided, Settled
<1>11. CASE FireFailed
  <2>1. /\ firing \in Payload
        /\ dropped[firing] = 0 /\ sent[firing] = 0 /\ failed[firing] = 0
    <3>1. firing \in Payload
      BY <1>11 DEF FireFailed, TypeOK, LoopInv
    <3>2. dropped[firing] \in Nat /\ sent[firing] \in Nat /\ failed[firing] \in Nat
      BY <3>1 DEF TypeOK
    <3>3. dropped[firing] + sent[firing] + failed[firing] = 0
      BY <3>1 DEF Ledger, Open
    <3>4. QED
      BY <3>1, <3>2, <3>3, ZeroSum
  <2>2. /\ failed' = [failed EXCEPT ![firing] = 1] /\ firing' = None
        /\ UNCHANGED <<call, heap, dropped, sent>>
    BY <1>11, <2>1 DEF FireFailed, callVars, queueVars
  <2>3. QED
    BY <2>1, <2>2 DEF TypeOK, Open, Undecided, Settled
<1>12. QED
  BY <1>1, <1>2, <1>3, <1>4, <1>5, <1>6, <1>7, <1>8, <1>9, <1>10, <1>11
     DEF Next, EnqueueStep, LoopStep, Terminated, vars, callVars, queueVars,
         closeVars, loopVars, countVars, Tick, SetClosed, SignalClose,
         CloseReturn, LoopExit, LoopIdle, LoopSleep, TimerFires, ReceiveWake,
         Arm

\* The initial state satisfies the invariant.
LEMMA InitIInv == Init => IInv
<1> SUFFICES ASSUME Init PROVE IInv
  OBVIOUS
<1>1. TypeOK
  BY InitTypeOK
<1>2. LoopInv /\ CallersInv /\ OrderInv /\ NoLostWakeup
  BY NoneAssumption DEF Init, LoopInv, CallersInv, OrderInv, NoLostWakeup, closed,
     closeChClosed
<1>3. Ledger
  BY NoneAssumption DEF Init, Ledger, Open, Undecided
<1>4. QED
  BY <1>1, <1>2, <1>3 DEF IInv

\* The invariant that carries the safety of the scheduler (scheduler.go as a whole).
THEOREM Invariance == Spec => []IInv
<1>1. IInv /\ [Next]_vars => IInv'
  <2>1. IInv /\ [Next]_vars => TypeOK'
    BY TypeOKStep DEF IInv
  <2>2. QED
    BY <2>1, LoopInvStep, CallersInvStep, OrderInvStep, NoLostWakeupStep, LedgerStep
       DEF IInv
<1>2. QED
  BY InitIInv, <1>1, PTL DEF Spec

\* The loop never sleeps past the due time of a queued payload (Enqueue's send on
\* wake, loop's two selects).
THEOREM WakeupsKept == Spec => []NoLostWakeup
<1>1. IInv => NoLostWakeup
  BY DEF IInv
<1>2. QED
  BY Invariance, <1>1, PTL

\* Every payload is in one place, or counted exactly once (Enqueue, fire,
\* dropRemaining).
THEOREM LedgerBalances == Spec => []Ledger
<1>1. IInv => Ledger
  BY DEF IInv
<1>2. QED
  BY Invariance, <1>1, PTL

\* What Close has promised a caller that waits for its Enqueues when it returns: every
\* payload is settled and the total it returns is exact (Close, pool.Run).
THEOREM CloseIsComplete == Spec => []NothingLeftBehind
<1>1. IInv => NothingLeftBehind
  <2> SUFFICES ASSUME IInv, CallersWait, closePc = "returned"
               PROVE  /\ \A p \in Payload : call[p] # "new" => Settled(p)
                      /\ reported = dropped
    BY DEF NothingLeftBehind
  <2>1. heap = {} /\ reported = dropped /\ (\A p \in Payload : ~InCall(p))
    BY DEF IInv, LoopInv, CallersInv, closed
  <2>2. firing = None
    BY DEF IInv, LoopInv
  <2>3. ASSUME NEW p \in Payload, call[p] # "new" PROVE Settled(p)
    <3>1. ~Open(p)
      BY <2>1, <2>2, <2>3, NoneAssumption DEF Open, Undecided, InCall
    <3>2. QED
      BY <3>1 DEF IInv, Ledger
  <2>4. QED
    BY <2>1, <2>3
<1>2. QED
  BY Invariance, <1>1, PTL
--------------------------------------------------------------------------------
(* The refinement: DeferredScheduler implements DeferredDelivery when its callers *)
(* let every Enqueue return before they call Close, as pool.Run does.  Each       *)
(* action maps to the abstract action its name suggests or to a stuttering step;  *)
(* IInv says where a payload is, which is what the mapping reads.                 *)

\* The abstract variables, as the mapping of Delivery defines them.
absStatus == [p \in Payload |-> Status(p)]
absDue == [p \in Payload |-> IF seqOf[p] = 0 THEN 0 ELSE sendAt[p]]

absVars == <<now, absStatus, absDue, seqOf, seq, Phase, drainAt>>

\* A step that leaves the mapped variables alone stutters in the abstract specification.
LEMMA SameVars == UNCHANGED absVars => UNCHANGED Delivery!vars
BY DEF Delivery!vars, absVars, absStatus, absDue

\* What a payload's mapped status says about where the payload is.
LEMMA StatusFacts ==
  ASSUME IInv, NEW p \in Payload
  PROVE  /\ Status(p) = "queued" <=> p \in heap
         /\ Status(p) = "exporting" <=> p = firing
         /\ call[p] \in {"new", "called", "checked"} => Status(p) = "new"
         /\ absStatus[p] = Status(p)
<1> USE DEF IInv
<1>1. p = firing => p \notin heap
  BY DEF Ledger
<1>2. ASSUME call[p] \in {"new", "called", "checked"} PROVE Status(p) = "new"
  <2>1. dropped[p] \in Nat /\ sent[p] \in Nat /\ failed[p] \in Nat
    BY DEF TypeOK
  <2>2. dropped[p] + sent[p] + failed[p] = 0 /\ p \notin heap /\ p # firing
    BY <1>2 DEF Ledger, Open, Undecided
  <2>3. dropped[p] = 0 /\ sent[p] = 0 /\ failed[p] = 0
    BY <2>1, <2>2, ZeroSum
  <2>4. QED
    BY <1>2, <2>2, <2>3 DEF Status
<1>3. QED
  BY <1>1, <1>2 DEF Status, absStatus

\* The abstract pending set is the heap.
LEMMA PendingIsHeap == IInv => Delivery!Pending = heap
<1> SUFFICES ASSUME IInv PROVE Delivery!Pending = heap
  OBVIOUS
<1>1. heap \subseteq Payload
  BY DEF IInv, TypeOK
<1>2. \A p \in Payload : Status(p) = "queued" <=> p \in heap
  BY StatusFacts
<1>3. QED
  BY <1>1, <1>2 DEF Delivery!Pending

\* The abstract queue is full exactly when Enqueue finds it full.
LEMMA FullMaps == IInv => (Delivery!Full <=> QueueFull)
<1> SUFFICES ASSUME IInv PROVE Delivery!Full <=> QueueFull
  OBVIOUS
<1>1. Delivery!Pending = heap
  BY PendingIsHeap
<1>2. Delivery!Cardinality(heap) = Cardinality(heap)
  BY DEF Delivery!Cardinality, Cardinality
<1>3. QED
  BY <1>1, <1>2 DEF Delivery!Full, QueueFull

\* The abstract scheduler exports nothing exactly when the loop is not in fire.
LEMMA IdleIsNotFiring == IInv => (Delivery!Idle <=> firing = None)
<1> SUFFICES ASSUME IInv PROVE Delivery!Idle <=> firing = None
  OBVIOUS
<1>1. firing \in Payload \cup {None}
  BY DEF IInv, TypeOK
<1>2. \A p \in Payload : Status(p) = "exporting" <=> p = firing
  BY StatusFacts
<1>3. QED
  BY <1>1, <1>2, NoneAssumption DEF Delivery!Idle

--------------------------------------------------------------------------------
\* The initial states are the abstract ones.
LEMMA InitMaps == Init => Delivery!Init
<1> SUFFICES ASSUME Init PROVE Delivery!Init
  OBVIOUS
<1>1. \A p \in Payload : Status(p) = "new"
  BY NoneAssumption DEF Init, Status
<1>2. Phase = "open"
  BY DEF Init, Phase, closed
<1>3. QED
  BY <1>1, <1>2 DEF Init, Delivery!Init

\* Queueing a payload accepts it.
LEMMA PushMaps ==
  ASSUME IInv, TypeOK', CallersWait, NEW p \in Payload, Push(p)
  PROVE  Delivery!Accept(p)
<1> USE LimitsAssumption DEF IInv
<1>1. Phase = "open" /\ Phase' = "open"
  <2>1. closePc = "open"
    BY DEF Push, CallersInv, closed, InCall
  <2>2. ~armed
    BY <2>1 DEF LoopInv, closeChClosed
  <2>3. QED
    BY <2>1, <2>2 DEF Push, Phase, closed, closeVars, loopVars
<1>2. absStatus[p] = "new"
  BY StatusFacts DEF Push
<1>3. ~Delivery!Full
  BY FullMaps DEF Push
<1>4. absStatus' = [absStatus EXCEPT ![p] = "queued"]
  <2>1. \A q \in Payload : Status(q)' = IF q = p THEN "queued" ELSE Status(q)
    BY DEF Push, Status, TypeOK, CallStates, loopVars, countVars
  <2>2. QED
    BY <2>1 DEF absStatus
<1>5. \E t \in 0..MaxTime : absDue' = [absDue EXCEPT ![p] = t]
  <2>1. sendAt[p] \in 0..MaxTime
    BY DEF TypeOK
  <2>2. \A q \in Payload : absDue'[q] = IF q = p THEN sendAt[p] ELSE absDue[q]
    BY DEF Push, absDue, TypeOK
  <2>3. absDue' = [absDue EXCEPT ![p] = sendAt[p]]
    BY <2>2 DEF absDue
  <2>4. QED
    BY <2>1, <2>3
<1>6. QED
  BY <1>1, <1>2, <1>3, <1>4, <1>5
     DEF Push, Delivery!Accept, absStatus, absDue, loopVars

\* Finding the queue full refuses the payload; it is counted later.
LEMMA FindFullMaps ==
  ASSUME IInv, CallersWait, NEW p \in Payload, FindFull(p)
  PROVE  Delivery!Refuse(p)
<1> USE DEF IInv
<1>1. Phase = "open" /\ Phase' = "open"
  <2>1. closePc = "open"
    BY DEF FindFull, CallersInv, closed, InCall
  <2>2. ~armed
    BY <2>1 DEF LoopInv, closeChClosed
  <2>3. QED
    BY <2>1, <2>2 DEF FindFull, Phase, closed, closeVars, loopVars
<1>2. absStatus[p] = "new"
  BY StatusFacts DEF FindFull
<1>3. Delivery!Full
  BY FullMaps DEF FindFull
<1>4. absStatus' = [absStatus EXCEPT ![p] = "dropped"]
  <2>1. p \notin heap /\ p # firing
    BY DEF FindFull, Ledger, Undecided
  <2>2. \A q \in Payload : Status(q)' = IF q = p THEN "dropped" ELSE Status(q)
    BY <2>1 DEF FindFull, Status, TypeOK, CallStates, queueVars, loopVars, countVars
  <2>3. QED
    BY <2>2 DEF absStatus
<1>5. QED
  BY <1>1, <1>2, <1>3, <1>4
     DEF FindFull, Delivery!Refuse, absStatus, queueVars, loopVars

\* Popping the matured head begins its export.
LEMMA LoopPopMaps ==
  ASSUME IInv, NEW p \in Payload, LoopPop(p)
  PROVE  Delivery!Begin(p)
<1> USE DEF IInv
<1>1. p \in heap /\ p \in Delivery!Pending
  BY PendingIsHeap DEF LoopPop, IsHead
<1>2. Delivery!Idle
  BY IdleIsNotFiring DEF LoopPop, LoopInv
<1>3. \A q \in heap : absDue[q] = sendAt[q]
  BY DEF absDue, TypeOK, OrderInv
<1>4. \A q \in heap : Delivery!Precedes(p, q)
  <2> SUFFICES ASSUME NEW q \in heap PROVE Delivery!Precedes(p, q)
    OBVIOUS
  <2>1. /\ sendAt[p] \in Nat /\ sendAt[q] \in Nat
        /\ seqOf[p] \in Nat /\ seqOf[q] \in Nat
        /\ p \in Payload /\ q \in Payload
    BY <1>1, LimitsAssumption DEF TypeOK
  <2>2. \/ sendAt[p] < sendAt[q]
        \/ sendAt[p] = sendAt[q] /\ seqOf[p] <= seqOf[q]
    BY <2>1 DEF LoopPop, IsHead, Less
  <2>3. QED
    BY <1>1, <1>3, <2>1, <2>2 DEF Delivery!Precedes, absDue
<1>5. absStatus' = [absStatus EXCEPT ![p] = "exporting"]
  <2>1. firing = None
    BY DEF LoopPop, LoopInv
  <2>2. heap' = heap \ {p} /\ firing' = p /\ UNCHANGED <<call, dropped, sent, failed>>
    BY DEF LoopPop, callVars, countVars
  <2>3. \A q \in Payload : Status(q)' = IF q = p THEN "exporting" ELSE Status(q)
    BY <2>1, <2>2, NoneAssumption DEF Status
  <2>4. QED
    BY <2>3 DEF absStatus
<1>6. Phase' = Phase
  BY DEF LoopPop, Phase, closed, closeVars
<1>7. absDue[p] <= now
  BY <1>1, <1>3 DEF LoopPop
<1>8. QED
  BY <1>1, <1>2, <1>4, <1>5, <1>6, <1>7, PendingIsHeap
     DEF LoopPop, Delivery!Begin, absStatus, absDue, callVars

\* The end of fire is the end of the export.
LEMMA FireMaps ==
  ASSUME IInv, FireSent \/ FireFailed
  PROVE  \E p \in Payload : Delivery!Finish(p)
<1> USE DEF IInv
<1>1. firing \in Payload /\ firing \notin heap
  BY DEF FireSent, FireFailed, TypeOK, LoopInv, Ledger
<1>2. absStatus[firing] = "exporting"
  BY <1>1, StatusFacts
<1>3. call[firing] # "refusing"
  BY <1>1 DEF OrderInv
<1>4. dropped[firing] = 0 /\ sent[firing] = 0 /\ failed[firing] = 0
  <2>1. /\ dropped[firing] \in Nat /\ sent[firing] \in Nat /\ failed[firing] \in Nat
        /\ dropped[firing] + sent[firing] + failed[firing] = 0
    BY <1>1 DEF TypeOK, Ledger, Open
  <2>2. QED
    BY <2>1, ZeroSum
<1>5. \E s \in {"sent", "failed"} : absStatus' = [absStatus EXCEPT ![firing] = s]
  <2>1. CASE FireSent
    <3>1. sent' = [sent EXCEPT ![firing] = 1]
      BY <2>1, <1>4 DEF FireSent
    <3>2. \A q \in Payload : Status(q)' = IF q = firing THEN "sent" ELSE Status(q)
      BY <2>1, <3>1, <1>1, <1>3, <1>4, NoneAssumption
         DEF FireSent, Status, TypeOK, callVars, queueVars
    <3>3. QED
      BY <3>2 DEF absStatus
  <2>2. CASE FireFailed
    <3>1. failed' = [failed EXCEPT ![firing] = 1]
      BY <2>2, <1>4 DEF FireFailed
    <3>2. \A q \in Payload : Status(q)' = IF q = firing THEN "failed" ELSE Status(q)
      BY <2>2, <3>1, <1>1, <1>3, <1>4, NoneAssumption
         DEF FireFailed, Status, TypeOK, callVars, queueVars
    <3>3. QED
      BY <3>2 DEF absStatus
  <2>3. QED
    BY <2>1, <2>2
<1>6. Phase' = Phase /\ UNCHANGED <<now, absDue, seqOf, seq, drainAt>>
  BY DEF FireSent, FireFailed, Phase, closed, closeVars, callVars, queueVars, absDue
<1>7. Delivery!Finish(firing)
  BY <1>1, <1>2, <1>5, <1>6 DEF Delivery!Finish, absStatus, absDue
<1>8. QED
  BY <1>1, <1>7

\* The drain deadline discards what is pending.
LEMMA DrainExpiresMaps ==
  ASSUME IInv, DrainExpires
  PROVE  Delivery!Discard
<1> USE DEF IInv
<1>1. Phase = "draining" /\ Phase' = "draining"
  BY DEF DrainExpires, Phase, LoopInv, closeVars
<1>2. Delivery!Idle
  BY IdleIsNotFiring DEF DrainExpires, LoopInv
<1>3. \A q \in Payload :
        Status(q)' = IF q \in heap THEN "dropped" ELSE Status(q)
  <2> SUFFICES ASSUME NEW q \in Payload
               PROVE  Status(q)' = IF q \in heap THEN "dropped" ELSE Status(q)
    OBVIOUS
  <2>1. firing = None
    BY DEF DrainExpires, LoopInv
  <2>2. heap' = {} /\ UNCHANGED <<firing, call, sent, failed>>
    BY DEF DrainExpires, callVars
  <2>3. dropped'[q] = IF q \in heap THEN dropped[q] + 1 ELSE dropped[q]
    BY DEF DrainExpires
  <2>4. dropped[q] \in Nat
    BY DEF TypeOK
  <2>5. QED
    BY <2>1, <2>2, <2>3, <2>4, NoneAssumption DEF Status
<1>4. absStatus' = [q \in Payload |-> IF q \in Delivery!Pending THEN "dropped"
                                      ELSE absStatus[q]]
  BY <1>3, PendingIsHeap DEF absStatus
<1>5. UNCHANGED <<now, absDue, seqOf, seq, drainAt>>
  BY DEF DrainExpires, callVars, absDue
<1>6. QED
  BY <1>1, <1>2, <1>4, <1>5
     DEF DrainExpires, Delivery!Discard, absStatus, absDue

\* The steps of Close and of the loop that open, arm and end the drain.
LEMMA CloseMaps ==
  ASSUME IInv, CallersWait, SetClosed \/ Arm \/ CloseReturn
  PROVE  Delivery!StartClosing \/ Delivery!StartDraining \/ Delivery!GoDown
<1> USE DEF IInv
<1>1. UNCHANGED <<now, absStatus, absDue, seqOf, seq>>
  <2>1. UNCHANGED <<now, call, sendAt, heap, firing, seqOf, seq, dropped, sent, failed>>
    BY DEF SetClosed, Arm, CloseReturn, callVars, queueVars, loopVars, countVars
  <2>2. QED
    BY <2>1 DEF absStatus, absDue, Status
<1>2. CASE SetClosed
  <2>1. ~armed
    BY <1>2 DEF SetClosed, LoopInv, closeChClosed
  <2>2. Phase = "open" /\ Phase' = "closing" /\ drainAt' = drainAt
    BY <1>2, <2>1 DEF SetClosed, Phase, closed, loopVars
  <2>3. QED
    BY <1>1, <2>2 DEF Delivery!StartClosing, absStatus, absDue
<1>3. CASE Arm
  <2>1. Phase = "closing" /\ Phase' = "draining"
    BY <1>3 DEF Arm, Phase, closed, closeChClosed, closeVars, LoopInv, Waiting
  <2>2. drainAt' = now + DrainTimeout
    BY <1>3 DEF Arm
  <2>3. QED
    BY <1>1, <2>1, <2>2 DEF Delivery!StartDraining, absStatus, absDue
<1>4. CASE CloseReturn
  <2>1. Phase = "draining" /\ Phase' = "down" /\ drainAt' = drainAt
    BY <1>4 DEF CloseReturn, Phase, LoopInv, loopDone, loopVars
  <2>2. Delivery!Idle /\ Delivery!Pending = {}
    BY <1>4, IdleIsNotFiring, PendingIsHeap DEF CloseReturn, LoopInv, CallersInv, loopDone
  <2>3. QED
    BY <1>1, <2>1, <2>2 DEF Delivery!GoDown, absStatus, absDue
<1>5. QED
  BY <1>2, <1>3, <1>4

\* The other steps are invisible to the abstract specification.
LEMMA StutterMaps ==
  ASSUME IInv, CallersWait,
         \/ \E p \in Payload : Call(p) \/ CheckClosed(p) \/ SendWake(p)
                               \/ CountRefused(p) \/ LoopSleep(p)
         \/ SignalClose \/ LoopExit \/ LoopIdle \/ TimerFires \/ ReceiveWake
         \/ UNCHANGED vars
  PROVE  UNCHANGED absVars
<1> USE DEF IInv
<1>1. ASSUME UNCHANGED <<heap, firing, dropped, sent, failed, closePc, armed,
                         now, seqOf, seq, drainAt>>,
             \A q \in Payload : (call'[q] = "refusing" <=> call[q] = "refusing"),
             \A q \in Payload : seqOf[q] # 0 => sendAt'[q] = sendAt[q]
      PROVE  UNCHANGED absVars
  <2>1. \A q \in Payload : Status(q)' = Status(q)
    BY <1>1 DEF Status
  <2>2. UNCHANGED absStatus
    BY <2>1 DEF absStatus
  <2>3. UNCHANGED absDue
    BY <1>1 DEF absDue
  <2>4. QED
    BY <1>1, <2>2, <2>3 DEF absVars, Phase, closed
<1>2. ASSUME NEW p \in Payload, Call(p) PROVE UNCHANGED absVars
  <2>1. seqOf[p] = 0
    BY <1>2 DEF Call, OrderInv
  <2>2. QED
    BY <1>1, <1>2, <2>1 DEF Call, TypeOK, queueVars, closeVars, loopVars, countVars
<1>3. ASSUME NEW p \in Payload, CheckClosed(p) PROVE UNCHANGED absVars
  <2>1. ~closed
    BY <1>3 DEF CheckClosed, CallersInv, InCall
  <2>2. QED
    BY <1>1, <1>3, <2>1
       DEF CheckClosed, TypeOK, queueVars, closeVars, loopVars, countVars
<1>4. ASSUME NEW p \in Payload, SendWake(p) PROVE UNCHANGED absVars
  BY <1>1, <1>4 DEF SendWake, TypeOK, queueVars, closeVars, loopVars, countVars
<1>5. ASSUME NEW p \in Payload, CountRefused(p) PROVE UNCHANGED absVars
  <2>1. p \notin heap /\ p # firing /\ dropped[p] \in Nat
    BY <1>5 DEF CountRefused, Ledger, Undecided, TypeOK
  <2>2. \A q \in Payload : Status(q)' = Status(q)
    BY <1>5, <2>1 DEF CountRefused, Status, TypeOK, queueVars, loopVars
  <2>3. QED
    BY <1>5, <2>2 DEF CountRefused, absVars, absStatus, absDue, Phase, closed,
       queueVars, closeVars, loopVars
<1>6. ASSUME NEW p \in Payload, LoopSleep(p) PROVE UNCHANGED absVars
  BY <1>1, <1>6 DEF LoopSleep, callVars, queueVars, closeVars, countVars
<1>7. CASE SignalClose
  BY <1>7 DEF SignalClose, absVars, absStatus, absDue, Status, Phase, closed,
     callVars, queueVars, loopVars, countVars
<1>8. CASE LoopExit \/ LoopIdle \/ TimerFires \/ ReceiveWake
  BY <1>1, <1>8 DEF LoopExit, LoopIdle, TimerFires, ReceiveWake,
     callVars, queueVars, closeVars, countVars
<1>9. CASE UNCHANGED vars
  BY <1>1, <1>9 DEF vars, callVars, queueVars, closeVars, loopVars, countVars
<1>10. QED
  BY <1>2, <1>3, <1>4, <1>5, <1>6, <1>7, <1>8, <1>9

\* The clock is the abstract one.
LEMMA TickMaps == ASSUME Tick PROVE Delivery!Pass
BY DEF Tick, Delivery!Pass, Status, Phase, closed,
   callVars, queueVars, closeVars, loopVars, countVars

\* Every step is an abstract step or stutters.
LEMMA StepMaps ==
  ASSUME IInv, TypeOK', CallersWait, [Next]_vars
  PROVE  [Delivery!Next]_Delivery!vars
<1>1. CASE Tick
  BY <1>1, TickMaps DEF Delivery!Next
<1>2. ASSUME NEW p \in Payload, Push(p) \/ FindFull(p) \/ LoopPop(p)
      PROVE  Delivery!Next
  BY <1>2, PushMaps, FindFullMaps, LoopPopMaps DEF Delivery!Next
<1>3. CASE FireSent \/ FireFailed
  BY <1>3, FireMaps DEF Delivery!Next
<1>4. CASE DrainExpires
  BY <1>4, DrainExpiresMaps DEF Delivery!Next
<1>5. CASE SetClosed \/ Arm \/ CloseReturn
  BY <1>5, CloseMaps DEF Delivery!Next
<1>6. CASE \/ \E p \in Payload : Call(p) \/ CheckClosed(p) \/ SendWake(p)
                                 \/ CountRefused(p) \/ LoopSleep(p)
           \/ SignalClose \/ LoopExit \/ LoopIdle \/ TimerFires \/ ReceiveWake
           \/ UNCHANGED vars
  BY <1>6, StutterMaps, SameVars
<1>7. QED
  BY <1>1, <1>2, <1>3, <1>4, <1>5, <1>6 DEF Next, EnqueueStep, LoopStep, Terminated

\* A scheduler whose callers wait keeps the promise of DeferredDelivery: it refuses
\* only at the limit, exports one payload at a time in due order, never early and at
\* most once, discards nothing before the drain deadline and leaves nothing pending
\* when Close returns (Enqueue, Close, loop, fire, dropRemaining).
THEOREM Implementation == ASSUME CallersWait PROVE Spec => ImplementsDelivery
<1>1. Init => Delivery!Init
  BY InitMaps
<1>2. IInv /\ IInv' /\ [Next]_vars => [Delivery!Next]_Delivery!vars
  BY StepMaps DEF IInv
<1>3. QED
  BY <1>1, <1>2, Invariance, PTL DEF Spec, ImplementsDelivery, Delivery!Spec
================================================================================
