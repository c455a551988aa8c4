--------------------------- MODULE RateLimiterProofs ---------------------------
(***************************************************************************)
(* Proofs about RateLimiter, for any workers, any rate and any sizes of    *)
(* the requests.  The heart is a budget: what is in the bucket, what was   *)
(* let through and what is reserved never exceed the burst and one event   *)
(* per unit of time.                                                       *)
(***************************************************************************)
EXTENDS RateLimiter, FiniteSetTheorems, TLAPS

\* The events of all reservations, and those of one.
Reserved == {e \in Caller \X (1..Burst) : e[2] <= asked[e[1]]}
EventsOf(c, n) == {c} \X (1..n)

\* Only a limit makes anybody wait, and only for what the bucket can hold.
WaitersInv == \A c \in Caller : Waiting(c) => enabled /\ asked[c] <= Burst

BudgetInv == tokens + granted + Cardinality(Reserved) <= Burst + now

DueInv == \A t \in Nat : t >= now => granted + Cardinality(DueBy(t)) <= Burst + t

\* The scheduler's reservation, the only one cancelled while the run sends, is covered by
\* lastEvent, so that cancelling it gives back no more than it took.
SchedulerInv ==
  Waiting(Scheduler) =>
    /\ actAt[Scheduler] <= lastEvent
    /\ now < actAt[Scheduler] => tokens <= now - actAt[Scheduler]

LimiterInv ==
  /\ TypeOK /\ WaitersInv
  /\ enabled /\ ~sendDone => BudgetInv /\ DueInv /\ SchedulerInv

--------------------------------------------------------------------------------
(* Counting the events of reservations *)

\* There are as many events as a reservation asks for.
LEMMA EventsOfCount ==
  ASSUME NEW c, NEW n \in Nat
  PROVE  IsFiniteSet(EventsOf(c, n)) /\ Cardinality(EventsOf(c, n)) = n
<1>1. IsFiniteSet(1..n) /\ Cardinality(1..n) = n
  BY FS_Interval
<1>2. IsFiniteSet({c}) /\ Cardinality({c}) = 1
  BY FS_Singleton
<1>3. IsFiniteSet({c} \X (1..n)) /\ Cardinality({c} \X (1..n)) = 1 * n
  BY <1>1, <1>2, FS_Product
<1>4. QED
  BY <1>3 DEF EventsOf

\* All sets of events are finite.
LEMMA EventsFinite ==
  ASSUME NEW S, S \subseteq Caller \X (1..Burst)
  PROVE  IsFiniteSet(S) /\ Cardinality(S) \in Nat
<1>1. Burst \in Int
  BY RateAssumption DEF Burst
<1>2. IsFiniteSet(1..Burst)
  BY <1>1, FS_Interval
<1>3. IsFiniteSet(Caller)
  BY CallersAssumption, FS_AddElement DEF Caller
<1>4. IsFiniteSet(Caller \X (1..Burst))
  BY <1>2, <1>3, FS_Product
<1>5. QED
  BY <1>4, FS_Subset, FS_CardinalityType

\* Adding the events of a caller that had none.
LEMMA AddEvents ==
  ASSUME NEW S, S \subseteq Caller \X (1..Burst), NEW c \in Caller, NEW n \in Nat, n <= Burst,
         \A e \in S : e[1] # c
  PROVE  Cardinality(S \cup EventsOf(c, n)) = Cardinality(S) + n
<1>1. IsFiniteSet(S) /\ Cardinality(S) \in Nat
  BY EventsFinite
<1>2. IsFiniteSet(EventsOf(c, n)) /\ Cardinality(EventsOf(c, n)) = n
  BY EventsOfCount
<1>3. S \cap EventsOf(c, n) = {}
  BY DEF EventsOf
<1>4. Cardinality(S \cap EventsOf(c, n)) = 0
  BY <1>3, FS_EmptySet
<1>5. Cardinality(S \cup EventsOf(c, n))
        = Cardinality(S) + Cardinality(EventsOf(c, n)) - Cardinality(S \cap EventsOf(c, n))
  BY <1>1, <1>2, FS_Union
<1>6. QED
  BY <1>1, <1>2, <1>4, <1>5

\* Fewer events, smaller count.
LEMMA FewerEvents ==
  ASSUME NEW T, T \subseteq Caller \X (1..Burst), NEW S, S \subseteq T
  PROVE  Cardinality(S) <= Cardinality(T)
BY EventsFinite, FS_Subset

--------------------------------------------------------------------------------
(* Type correctness *)

\* The limiter starts with a full bucket and no caller waiting.
LEMMA InitTypeOK == Init => TypeOK
<1> SUFFICES ASSUME Init PROVE TypeOK
  OBVIOUS
<1>1. sendDone \in BOOLEAN
  BY Zenon DEF Init
<1>2. QED
  BY <1>1, RateAssumption DEF Init, TypeOK, enabled, Burst

\* Every step of the limiter and of its callers keeps the types.
LEMMA TypeOKStep == TypeOK /\ [Next]_vars => TypeOK'
<1> SUFFICES ASSUME TypeOK, [Next]_vars PROVE TypeOK'
  OBVIOUS
<1> USE RateAssumption
<1>0. Burst \in Int
  BY DEF Burst
<1>1. CASE Tick
  BY <1>0, <1>1 DEF Tick, TypeOK, Least, enabled, Burst
<1>2. CASE CancelSending
  BY <1>2 DEF CancelSending, TypeOK, enabled, Burst
<1>3. ASSUME NEW c \in Caller, CallWait(c)
      PROVE  /\ calls' \in [Caller -> 0..MaxCalls]
             /\ ctxBy' \in Nat /\ sendDone' \in BOOLEAN
  BY <1>3 DEF CallWait, TypeOK
<1>4. ASSUME NEW c \in Caller, NEW n \in Sizes, Skip(c, n) PROVE TypeOK'
  BY <1>3, <1>4, SizesAssumption DEF Skip, TypeOK, enabled, Burst
<1>5. ASSUME NEW c \in Caller, NEW n \in Sizes, PassAtOnce(c, n) PROVE TypeOK'
  BY <1>3, <1>5, SizesAssumption DEF PassAtOnce, TypeOK, enabled, Burst
<1>6. ASSUME NEW c \in Caller, NEW n \in Sizes, StartWait(c, n) PROVE TypeOK'
  <2>1. now + (n - tokens) \in Nat /\ n \in Nat
    BY <1>6, SizesAssumption DEF StartWait, TypeOK
  <2>2. QED
    BY <1>3, <1>6, <2>1 DEF StartWait, TypeOK, enabled, Burst
<1>7. ASSUME NEW c \in Caller, WaitOver(c) PROVE TypeOK'
  BY <1>7 DEF WaitOver, TypeOK, enabled, Burst
<1>8. ASSUME NEW c \in Caller, CancelWait(c) PROVE TypeOK'
  <2>1. asked' \in [Caller -> Nat] /\ actAt' \in [Caller -> Nat]
    BY <1>8 DEF CancelWait, TypeOK
  <2>2. calls' \in [Caller -> 0..MaxCalls]
    BY <1>8 DEF CancelWait, TypeOK
  <2>3. Restored(c) \in Int
    BY DEF Restored, TypeOK
  <2>4. tokens' \in Int /\ (enabled => tokens' <= Burst)
    BY <1>0, <1>8, <2>3 DEF CancelWait, TypeOK, Least
  <2>5. lastEvent' \in Nat
    BY <1>8, <2>3 DEF CancelWait, TypeOK
  <2>6. QED
    BY <1>8, <2>1, <2>2, <2>4, <2>5 DEF CancelWait, TypeOK, enabled, Burst
<1>9. CASE UNCHANGED vars
  BY <1>9 DEF vars, TypeOK, enabled, Burst
<1>10. QED
  BY <1>1, <1>2, <1>4, <1>5, <1>6, <1>7, <1>8, <1>9 DEF Next, Terminated

\* Every variable keeps its type; the bucket never holds more than the burst (NewLimiter).
THEOREM TypeCorrect == Spec => []TypeOK
BY InitTypeOK, TypeOKStep, PTL DEF Spec

--------------------------------------------------------------------------------
(* The rate *)

\* No event is reserved when the limiter is made.
LEMMA InitLimiterInv == Init => LimiterInv
<1> SUFFICES ASSUME Init PROVE LimiterInv
  OBVIOUS
<1>1. TypeOK /\ WaitersInv /\ SchedulerInv
  BY InitTypeOK DEF Init, WaitersInv, SchedulerInv, Waiting, Caller
<1>2. \A e \in Caller \X (1..Burst) : ~(e[2] <= asked[e[1]])
  BY RateAssumption DEF Init, Burst
<1>3. Reserved = {} /\ \A t \in Nat : DueBy(t) = {}
  BY <1>2 DEF Reserved, DueBy
<1>4. Cardinality(Reserved) = 0 /\ \A t \in Nat : Cardinality(DueBy(t)) = 0
  BY <1>3, FS_EmptySet
<1>5. enabled => BudgetInv /\ DueInv
  BY <1>4, RateAssumption DEF Init, BudgetInv, DueInv, enabled, Burst
<1>6. QED
  BY <1>1, <1>5 DEF LimiterInv

\* A reservation that ends, by being used or cancelled, takes its events with it.
LEMMA ReservationEnds ==
  ASSUME TypeOK, WaitersInv, NEW c \in Caller, Waiting(c),
         asked' = [asked EXCEPT ![c] = 0], actAt' = [actAt EXCEPT ![c] = 0]
  PROVE  /\ WaitersInv'
         /\ Cardinality(Reserved) = Cardinality(Reserved') + asked[c]
         /\ \A t \in Nat : /\ Cardinality(DueBy(t)') <= Cardinality(DueBy(t))
                           /\ actAt[c] <= t =>
                                Cardinality(DueBy(t)) = Cardinality(DueBy(t)') + asked[c]
                           /\ Cardinality(DueBy(t)') \in Nat
         /\ Cardinality(Reserved') \in Nat
<1>1. asked[c] \in Nat /\ asked[c] <= Burst /\ Burst \in Int
  BY RateAssumption DEF TypeOK, WaitersInv, Burst
<1>2. WaitersInv'
  BY DEF WaitersInv, Waiting, TypeOK, enabled, Burst
<1>3. \A e \in Caller \X (1..Burst) :
        /\ e[1] # c => asked'[e[1]] = asked[e[1]] /\ actAt'[e[1]] = actAt[e[1]]
        /\ e[1] = c => ~(e[2] <= asked'[e[1]])
  BY <1>1 DEF TypeOK
<1>4. EventsOf(c, asked[c]) \subseteq Caller \X (1..Burst)
  BY <1>1 DEF EventsOf
<1>5. Reserved' = {e \in Caller \X (1..Burst) : e[2] <= asked'[e[1]]}
  BY DEF Reserved, Burst
<1>6. Reserved = Reserved' \cup EventsOf(c, asked[c]) /\ \A e \in Reserved' : e[1] # c
  BY <1>1, <1>3, <1>5 DEF Reserved, EventsOf
<1>7. Cardinality(Reserved) = Cardinality(Reserved') + asked[c]
  BY <1>1, <1>5, <1>6, AddEvents
<1>8. ASSUME NEW t \in Nat
      PROVE  /\ Cardinality(DueBy(t)') <= Cardinality(DueBy(t))
             /\ actAt[c] <= t => Cardinality(DueBy(t)) = Cardinality(DueBy(t)') + asked[c]
             /\ Cardinality(DueBy(t)') \in Nat
  <2>1. DueBy(t)' = {e \in Caller \X (1..Burst) : e[2] <= asked'[e[1]] /\ actAt'[e[1]] <= t}
    BY DEF DueBy, Burst
  <2>2. DueBy(t)' \subseteq DueBy(t) /\ DueBy(t) \subseteq Caller \X (1..Burst)
    BY <1>3, <2>1 DEF DueBy
  <2>0. Cardinality(DueBy(t)') \in Nat
    BY <2>1, EventsFinite
  <2>3. CASE actAt[c] <= t
    <3>1. DueBy(t) = DueBy(t)' \cup EventsOf(c, asked[c]) /\ \A e \in DueBy(t)' : e[1] # c
      BY <1>1, <1>3, <2>1, <2>3 DEF DueBy, EventsOf
    <3>2. QED
      BY <1>1, <2>0, <2>1, <2>2, <3>1, AddEvents, FewerEvents
  <2>4. CASE ~(actAt[c] <= t)
    BY <2>0, <2>2, <2>4, FewerEvents
  <2>5. QED
    BY <2>3, <2>4
<1>9. Cardinality(Reserved') \in Nat
  BY <1>5, EventsFinite
<1>10. QED
  BY <1>2, <1>7, <1>8, <1>9

\* A new reservation adds its events, to those due from its time on.
LEMMA ReservationBegins ==
  ASSUME TypeOK, WaitersInv, NEW c \in Caller, ~Waiting(c), NEW n \in Nat, n <= Burst, enabled,
         NEW a \in Nat, asked' = [asked EXCEPT ![c] = n], actAt' = [actAt EXCEPT ![c] = a]
  PROVE  /\ WaitersInv'
         /\ Cardinality(Reserved') = Cardinality(Reserved) + n
         /\ \A t \in Nat : Cardinality(DueBy(t)') = Cardinality(DueBy(t)) + (IF a <= t THEN n ELSE 0)
<1>1. Burst \in Nat /\ asked[c] = 0
  BY RateAssumption DEF TypeOK, Waiting, Burst, enabled
<1>2. WaitersInv'
  BY <1>1 DEF WaitersInv, Waiting, TypeOK, enabled, Burst
<1>3. \A e \in Caller \X (1..Burst) :
        /\ e[1] # c => asked'[e[1]] = asked[e[1]] /\ actAt'[e[1]] = actAt[e[1]]
        /\ e[1] = c => ~(e[2] <= asked[e[1]]) /\ asked'[e[1]] = n /\ actAt'[e[1]] = a
  BY <1>1 DEF TypeOK
<1>4. Reserved' = {e \in Caller \X (1..Burst) : e[2] <= asked'[e[1]]}
  BY DEF Reserved, Burst
<1>5. Reserved' = Reserved \cup EventsOf(c, n) /\ \A e \in Reserved : e[1] # c
  BY <1>1, <1>3, <1>4 DEF Reserved, EventsOf
<1>6. Cardinality(Reserved') = Cardinality(Reserved) + n
  BY <1>5, AddEvents DEF Reserved
<1>7. ASSUME NEW t \in Nat
      PROVE  Cardinality(DueBy(t)') = Cardinality(DueBy(t)) + (IF a <= t THEN n ELSE 0)
  <2>1. DueBy(t)' = {e \in Caller \X (1..Burst) : e[2] <= asked'[e[1]] /\ actAt'[e[1]] <= t}
    BY DEF DueBy, Burst
  <2>2. DueBy(t) \subseteq Caller \X (1..Burst) /\ Cardinality(DueBy(t)) \in Nat
    BY EventsFinite DEF DueBy
  <2>3. CASE a <= t
    <3>1. DueBy(t)' = DueBy(t) \cup EventsOf(c, n) /\ \A e \in DueBy(t) : e[1] # c
      BY <1>1, <1>3, <2>1, <2>3 DEF DueBy, EventsOf
    <3>2. QED
      BY <2>2, <2>3, <3>1, AddEvents
  <2>4. CASE ~(a <= t)
    <3>1. DueBy(t)' = DueBy(t)
      BY <1>3, <2>1, <2>4 DEF DueBy
    <3>2. QED
      BY <2>2, <2>4, <3>1
  <2>5. QED
    BY <2>3, <2>4
<1>8. QED
  BY <1>2, <1>6, <1>7

\* The budget in the form the steps need it: a property of a number of tokens.
LEMMA CountsAreNaturals ==
  Cardinality(Reserved) \in Nat /\ \A t \in Nat : Cardinality(DueBy(t)) \in Nat
BY EventsFinite DEF Reserved, DueBy

\* The events due by any time are among those reserved.
LEMMA DueAreReserved == \A t \in Nat : Cardinality(DueBy(t)) <= Cardinality(Reserved)
<1> SUFFICES ASSUME NEW t \in Nat PROVE Cardinality(DueBy(t)) <= Cardinality(Reserved)
  OBVIOUS
<1>1. DueBy(t) \subseteq Reserved /\ Reserved \subseteq Caller \X (1..Burst)
  BY DEF DueBy, Reserved
<1>2. QED
  BY <1>1, FewerEvents

\* Steps that leave the reservations alone leave their counts alone.
LEMMA SameReservations ==
  ASSUME UNCHANGED <<asked, actAt>>
  PROVE  /\ Cardinality(Reserved') = Cardinality(Reserved)
         /\ \A t \in Nat : Cardinality(DueBy(t)') = Cardinality(DueBy(t))
         /\ WaitersInv => WaitersInv'
BY DEF Reserved, DueBy, WaitersInv, Waiting, enabled, Burst

\* No step of the limiter breaks the budget (Wait, reservation.Cancel).
LEMMA LimiterInvStep == LimiterInv /\ [Next]_vars => LimiterInv'
<1> SUFFICES ASSUME LimiterInv, [Next]_vars PROVE LimiterInv'
  OBVIOUS
<1> DEFINE Spending == enabled /\ ~sendDone
<1>1. TypeOK /\ TypeOK' /\ WaitersInv /\ (Spending => BudgetInv /\ DueInv /\ SchedulerInv)
  BY TypeOKStep DEF LimiterInv
<1>2. /\ now \in Nat /\ now' \in Nat /\ tokens \in Int /\ granted \in Nat /\ lastEvent \in Nat
      /\ tokens' \in Int /\ Burst \in Int /\ Burst' = Burst /\ enabled' = enabled
      /\ \A c \in Caller : asked[c] \in Nat /\ actAt[c] \in Nat
      /\ (enabled => Burst \in Nat) /\ Scheduler \in Caller
  BY <1>1, RateAssumption DEF TypeOK, Burst, enabled, Caller
<1>3. CASE Tick
  <2>1. UNCHANGED <<asked, actAt, lastEvent, granted, sendDone>> /\ now' = now + 1
        /\ (enabled => tokens' <= tokens + 1)
    BY <1>2, <1>3 DEF Tick, Least
  <2>2. WaitersInv'
    BY <1>1, <2>1, SameReservations
  <2>3. Spending => BudgetInv'
    BY <1>1, <1>2, <2>1, SameReservations, CountsAreNaturals DEF BudgetInv
  <2>4. Spending => DueInv'
    BY <1>1, <1>2, <2>1, SameReservations, CountsAreNaturals DEF DueInv
  <2>5. Spending => SchedulerInv'
    BY <1>1, <1>2, <2>1 DEF SchedulerInv, Waiting
  <2>6. QED
    BY <1>1, <1>2, <2>1, <2>2, <2>3, <2>4, <2>5 DEF LimiterInv
<1>4. CASE CancelSending
  BY <1>1, <1>4, SameReservations DEF CancelSending, LimiterInv
<1>5. ASSUME NEW c \in Caller, NEW n \in Sizes, Skip(c, n) PROVE LimiterInv'
  <2>1. UNCHANGED <<now, tokens, lastEvent, granted, sendDone, asked, actAt>>
    BY <1>5 DEF Skip, CallWait
  <2>2. WaitersInv' /\ (Spending => BudgetInv' /\ DueInv')
    BY <1>1, <1>2, <2>1, SameReservations DEF BudgetInv, DueInv
  <2>3. Spending => SchedulerInv'
    BY <1>1, <2>1 DEF SchedulerInv, Waiting
  <2>4. QED
    BY <1>1, <1>2, <2>1, <2>2, <2>3 DEF LimiterInv
<1>6. ASSUME NEW c \in Caller, NEW n \in Sizes, PassAtOnce(c, n) PROVE LimiterInv'
  <2>1. /\ UNCHANGED <<now, asked, actAt, sendDone>> /\ n \in Nat /\ n <= tokens
        /\ tokens' = tokens - n /\ granted' = granted + n /\ lastEvent' = now
    BY <1>6, SizesAssumption DEF PassAtOnce, CallWait
  <2>2. WaitersInv'
    BY <1>1, <2>1, SameReservations
  <2>3. Spending => BudgetInv'
    BY <1>1, <1>2, <2>1, SameReservations, CountsAreNaturals DEF BudgetInv
  <2>4. Spending => DueInv'
    BY <1>1, <1>2, <2>1, SameReservations, CountsAreNaturals, DueAreReserved
       DEF DueInv, BudgetInv
  <2>5. Spending => SchedulerInv'
    BY <1>1, <1>2, <2>1 DEF SchedulerInv, Waiting
  <2>6. QED
    BY <1>1, <1>2, <2>1, <2>2, <2>3, <2>4, <2>5 DEF LimiterInv
<1>7. ASSUME NEW c \in Caller, NEW n \in Sizes, StartWait(c, n) PROVE LimiterInv'
  <2> DEFINE a == now + (n - tokens)
  <2>1. /\ UNCHANGED <<now, sendDone, granted>> /\ n \in Nat /\ n <= Burst /\ n > tokens
        /\ tokens' = tokens - n /\ lastEvent' = a /\ a \in Nat /\ enabled /\ ~Waiting(c)
        /\ asked' = [asked EXCEPT ![c] = n] /\ actAt' = [actAt EXCEPT ![c] = a]
    BY <1>2, <1>7, SizesAssumption DEF StartWait, CallWait
  <2> HIDE DEF a
  <2>2. /\ WaitersInv'
        /\ Cardinality(Reserved') = Cardinality(Reserved) + n
        /\ \A t \in Nat : Cardinality(DueBy(t)') = Cardinality(DueBy(t)) + (IF a <= t THEN n ELSE 0)
    BY <1>1, <2>1, ReservationBegins
  <2>3. Spending => BudgetInv'
    BY <1>1, <1>2, <2>1, <2>2, CountsAreNaturals DEF BudgetInv
  <2>4. Spending => DueInv'
    <3> SUFFICES ASSUME Spending, NEW t \in Nat, t >= now
                 PROVE  granted + Cardinality(DueBy(t)') <= Burst + t
      BY <1>2, <2>1 DEF DueInv
    <3>1. CASE a <= t
      BY <1>1, <1>2, <2>1, <2>2, <3>1, CountsAreNaturals, DueAreReserved DEF BudgetInv, a
    <3>2. CASE ~(a <= t)
      BY <1>1, <1>2, <2>1, <2>2, <3>2, CountsAreNaturals DEF DueInv
    <3>3. QED
      BY <3>1, <3>2
  <2>5. Spending => SchedulerInv'
    BY <1>1, <1>2, <2>1 DEF SchedulerInv, Waiting, TypeOK, a
  <2>6. QED
    BY <1>1, <1>2, <2>1, <2>2, <2>3, <2>4, <2>5 DEF LimiterInv
<1>8. ASSUME NEW c \in Caller, WaitOver(c) PROVE LimiterInv'
  <2>1. /\ UNCHANGED <<now, tokens, lastEvent, sendDone>> /\ Waiting(c) /\ actAt[c] <= now
        /\ granted' = granted + asked[c]
        /\ asked' = [asked EXCEPT ![c] = 0] /\ actAt' = [actAt EXCEPT ![c] = 0]
    BY <1>2, <1>8 DEF WaitOver
  <2>2. /\ WaitersInv'
        /\ Cardinality(Reserved) = Cardinality(Reserved') + asked[c]
        /\ \A t \in Nat : /\ Cardinality(DueBy(t)') <= Cardinality(DueBy(t))
                          /\ actAt[c] <= t =>
                               Cardinality(DueBy(t)) = Cardinality(DueBy(t)') + asked[c]
                          /\ Cardinality(DueBy(t)') \in Nat
        /\ Cardinality(Reserved') \in Nat
    BY <1>1, <2>1, ReservationEnds
  <2>3. Spending => BudgetInv'
    BY <1>1, <1>2, <2>1, <2>2 DEF BudgetInv
  <2>4. Spending => DueInv'
    <3> SUFFICES ASSUME Spending, NEW t \in Nat, t >= now
                 PROVE  granted' + Cardinality(DueBy(t)') <= Burst + t
      BY <1>2, <2>1 DEF DueInv
    <3>1. granted + Cardinality(DueBy(t)) <= Burst + t /\ actAt[c] <= t
      BY <1>1, <1>2, <2>1 DEF DueInv
    <3>2. Cardinality(DueBy(t)) = Cardinality(DueBy(t)') + asked[c]
      BY <2>2, <3>1
    <3>3. QED
      BY <1>2, <2>1, <2>2, <3>1, <3>2
  <2>5. Spending => SchedulerInv'
    BY <1>1, <1>2, <2>1 DEF SchedulerInv, Waiting, TypeOK
  <2>6. QED
    BY <1>1, <1>2, <2>1, <2>2, <2>3, <2>4, <2>5 DEF LimiterInv
<1>9. ASSUME NEW c \in Caller, CancelWait(c) PROVE LimiterInv'
  <2>1. /\ UNCHANGED <<now, granted, sendDone>> /\ Waiting(c) /\ ctxDone(c)
        /\ asked' = [asked EXCEPT ![c] = 0] /\ actAt' = [actAt EXCEPT ![c] = 0]
    BY <1>9 DEF CancelWait
  <2>2. /\ WaitersInv'
        /\ Cardinality(Reserved) = Cardinality(Reserved') + asked[c]
        /\ \A t \in Nat : /\ Cardinality(DueBy(t)') <= Cardinality(DueBy(t))
                          /\ actAt[c] <= t =>
                               Cardinality(DueBy(t)) = Cardinality(DueBy(t)') + asked[c]
                          /\ Cardinality(DueBy(t)') \in Nat
        /\ Cardinality(Reserved') \in Nat
    BY <1>1, <2>1, ReservationEnds
  <2>3. Spending => c = Scheduler
    BY <2>1 DEF ctxDone
  <2>4. Spending => tokens' <= tokens + asked[c]
    BY <1>1, <1>2, <1>9, <2>1, <2>3 DEF CancelWait, Restored, Least, SchedulerInv
  <2>5. Spending => BudgetInv'
    BY <1>1, <1>2, <2>1, <2>2, <2>4 DEF BudgetInv
  <2>6. Spending => DueInv'
    <3> SUFFICES ASSUME Spending, NEW t \in Nat, t >= now
                 PROVE  granted' + Cardinality(DueBy(t)') <= Burst + t
      BY <1>2, <2>1 DEF DueInv
    <3>1. granted + Cardinality(DueBy(t)) <= Burst + t
      BY <1>1 DEF DueInv
    <3>2. QED
      BY <1>2, <2>1, <2>2, <3>1, CountsAreNaturals
  <2>7. Spending => SchedulerInv'
    BY <1>1, <1>2, <2>1, <2>3 DEF SchedulerInv, Waiting, TypeOK
  <2>8. QED
    BY <1>1, <1>2, <2>1, <2>2, <2>5, <2>6, <2>7 DEF LimiterInv
<1>10. CASE UNCHANGED vars
  <2>1. UNCHANGED <<now, tokens, lastEvent, granted, sendDone, asked, actAt>>
    BY <1>10 DEF vars
  <2>2. WaitersInv' /\ (Spending => BudgetInv' /\ DueInv')
    BY <1>1, <1>2, <2>1, SameReservations DEF BudgetInv, DueInv
  <2>3. Spending => SchedulerInv'
    BY <1>1, <2>1 DEF SchedulerInv, Waiting
  <2>4. QED
    BY <1>1, <1>2, <2>1, <2>2, <2>3 DEF LimiterInv
<1>11. QED
  BY <1>3, <1>4, <1>5, <1>6, <1>7, <1>8, <1>9, <1>10 DEF Next, Terminated

\* The budget holds in every reachable state.
THEOREM Invariance == Spec => []LimiterInv
BY InitLimiterInv, LimiterInvStep, PTL DEF Spec

\* The limiter keeps the rate while the run sends, for every rate, every burst and any
\* number of callers that wait, time out and call again (Wait, NewLimiter).
THEOREM RateHolds == Spec => []RateKept
<1>1. LimiterInv => RateKept
  <2> SUFFICES ASSUME LimiterInv, enabled, ~sendDone,
                      NEW t \in now..(now + Burst * Cardinality(Caller))
               PROVE  granted + Cardinality(DueBy(t)) <= Burst + t
    BY DEF RateKept
  <2>1. now \in Nat /\ t \in Int /\ t >= now
    BY DEF LimiterInv, TypeOK
  <2>2. t \in Nat
    BY <2>1
  <2>3. QED
    BY <2>1, <2>2 DEF LimiterInv, DueInv
<1>2. QED
  BY <1>1, Invariance, PTL
================================================================================
