-------------------------- MODULE SharedTemplatesProofs --------------------------
(***************************************************************************)
(* What the sharing of templates spares: a worker whose data points nobody *)
(* else stamps sends the times it has stamped.  That is every logs worker, *)
(* and a metrics worker that is the only one.                              *)
(***************************************************************************)
EXTENDS SharedTemplates, TLAPS

\* The hypotheses: no worker sends both signals, and the settings are whole numbers.
Assumed ==
  /\ MetricsWorker \cap LogsWorker = {}
  /\ Points \in Nat /\ BackdateMs \in Int /\ JitterMs \in Int

Label == {"check", "read", "stamp", "limit", "marshal", "sent", "returned"}

TypeInv ==
  /\ clock \in Int
  /\ template \in [1..Points -> Int]
  /\ pc \in [Worker -> Label]
  /\ copy \in [Worker -> [1..Points -> Int]]
  /\ k \in [Worker -> 0..Points]
  /\ instant \in [Worker -> Int]
  /\ stamped \in [Worker -> Seq(Int)] /\ wire \in [Worker -> Seq(Int)]

\* Nobody else stamps what the worker stamps.
Private(w) == w \in LogsWorker \/ MetricsWorker = {w}

\* The data points of the worker's request.
Data(w) == IF w \in MetricsWorker THEN template ELSE copy[w]

\* Where an iteration is in stamping all points, then marshalling them.
PositionInv(w) ==
  /\ pc[w] \in {"read", "stamp"} => k[w] < Points /\ Len(stamped[w]) = k[w] /\ wire[w] = <<>>
  /\ pc[w] \in {"limit", "marshal"} => Len(stamped[w]) = Points /\ Len(wire[w]) = k[w]
  /\ pc[w] = "limit" => k[w] = 0
  /\ pc[w] = "marshal" => k[w] < Points

\* What a private worker has stamped is what its data say, and what it has marshalled.
ContentInv(w) ==
  /\ pc[w] \in {"read", "stamp", "limit", "marshal"} =>
       \A i \in 1..Len(stamped[w]) : Data(w)[i] = stamped[w][i]
  /\ pc[w] \in {"limit", "marshal"} => \A i \in 1..k[w] : wire[w][i] = stamped[w][i]
  /\ pc[w] = "sent" => wire[w] = stamped[w]

PrivateInv ==
  TypeInv /\ \A w \in Worker : PositionInv(w) /\ (Private(w) => ContentInv(w))

\* Nothing has been stamped at first.
LEMMA InvInit == Assumed /\ Init => PrivateInv
BY DEF Assumed, Init, PrivateInv, TypeInv, PositionInv, ContentInv, Unstamped, Label

\* A worker whose own part of the state and whose data stay keeps its invariants.
LEMMA Undisturbed ==
  ASSUME NEW w \in Worker,
         pc'[w] = pc[w], k'[w] = k[w], stamped'[w] = stamped[w], wire'[w] = wire[w]
  PROVE  /\ PositionInv(w) => PositionInv(w)'
         /\ Data(w)' = Data(w) /\ ContentInv(w) => ContentInv(w)'
BY DEF PositionInv, ContentInv

\* What a step of one worker does to the data of another that is private.
LEMMA OthersData ==
  ASSUME Assumed, TypeInv, NEW v \in Worker, WorkerStep(v), NEW w \in Worker, w # v, Private(w)
  PROVE  Data(w)' = Data(w)
<1>1. \/ UNCHANGED <<template, copy>>
      \/ template' = template /\ copy' = [copy EXCEPT ![v] = Unstamped]
      \/ Stamp(v)
  BY DEF WorkerStep, Quit, Clone, ReadClock, PassLimiter, Marshal, ExportSucceeds, SendFails
<1>2. CASE UNCHANGED <<template, copy>>
  BY <1>2 DEF Data
<1>3. CASE template' = template /\ copy' = [copy EXCEPT ![v] = Unstamped]
  BY <1>3 DEF Data, TypeInv
<1>4. CASE Stamp(v)
  <2>1. CASE v \in MetricsWorker
    <3>1. copy' = copy /\ w \notin MetricsWorker
      BY <1>4, <2>1 DEF Stamp, Private, Assumed
    <3>2. QED
      BY <3>1 DEF Data
  <2>2. CASE v \notin MetricsWorker
    <3>1. template' = template /\ copy'[w] = copy[w]
      BY <1>4, <2>2 DEF Stamp, TypeInv
    <3>2. QED
      BY <3>1 DEF Data
  <2>3. QED
    BY <2>1, <2>2
<1>5. QED
  BY <1>1, <1>2, <1>3, <1>4

\* The invariant of the others survives a step of one worker.
LEMMA OthersKeep ==
  ASSUME Assumed, PrivateInv, NEW v \in Worker, WorkerStep(v),
         NEW w \in Worker, w # v
  PROVE  PositionInv(w)' /\ (Private(w) => ContentInv(w)')
<1>1. Private(w) => Data(w)' = Data(w)
  BY OthersData DEF PrivateInv
<1>2. pc'[w] = pc[w] /\ k'[w] = k[w] /\ stamped'[w] = stamped[w] /\ wire'[w] = wire[w]
  BY DEF PrivateInv, TypeInv, WorkerStep, Goto, Quit, Clone, ReadClock, Stamp, PassLimiter,
         Marshal, ExportSucceeds, SendFails
<1>3. QED
  BY <1>1, <1>2, Undisturbed DEF PrivateInv

\* Appending to a sequence of numbers.
LEMMA Appended ==
  ASSUME NEW s \in Seq(Int), NEW e \in Int
  PROVE  /\ Append(s, e) \in Seq(Int) /\ Len(Append(s, e)) = Len(s) + 1
         /\ \A i \in 1..Len(s) : Append(s, e)[i] = s[i]
         /\ Append(s, e)[Len(s) + 1] = e
OBVIOUS

\* Sequences of the same numbers.
LEMMA SameSequence ==
  ASSUME NEW s \in Seq(Int), NEW t \in Seq(Int), Len(s) = Len(t), \A i \in 1..Len(s) : s[i] = t[i]
  PROVE  s = t
<1>1. s \in [1..Len(s) -> Int] /\ t \in [1..Len(t) -> Int]
  OBVIOUS
<1>2. QED
  BY <1>1

\* What the types say of one worker.
LEMMA WorkerTypes ==
  ASSUME Assumed, TypeInv, NEW w \in Worker
  PROVE  /\ k[w] \in Nat /\ k[w] <= Points /\ Points \in Nat /\ instant[w] \in Int
         /\ stamped[w] \in Seq(Int) /\ wire[w] \in Seq(Int)
         /\ Data(w) \in [1..Points -> Int]
<1>1. k[w] \in 0..Points /\ Points \in Nat
  BY DEF TypeInv, Assumed
<1>2. Data(w) \in [1..Points -> Int]
  BY DEF TypeInv, Data
<1>3. instant[w] \in Int /\ stamped[w] \in Seq(Int) /\ wire[w] \in Seq(Int)
  BY DEF TypeInv
<1>4. QED
  BY <1>1, <1>2, <1>3

\* The steps that neither stamp nor marshal.
LEMMA QuietSteps ==
  ASSUME Assumed, TypeInv, NEW w \in Worker, PositionInv(w),
         Quit(w) \/ Clone(w) \/ ReadClock(w) \/ PassLimiter(w) \/ ExportSucceeds(w) \/ SendFails(w)
  PROVE  TypeInv' /\ PositionInv(w)' /\ (ContentInv(w) => ContentInv(w)')
<1> USE DEF Goto, Label
<1>1. CASE Quit(w)
  BY <1>1 DEF Quit, TypeInv, PositionInv, ContentInv, Data
<1>2. CASE Clone(w)
  <2>1. Unstamped \in [1..Points -> Int] /\ 0 \in 0..Points /\ <<>> \in Seq(Int)
    BY DEF Unstamped, Assumed
  <2>2. TypeInv'
    BY <1>2, <2>1 DEF Clone, TypeInv
  <2>3. /\ pc'[w] = (IF Points = 0 THEN "limit" ELSE "read")
        /\ k'[w] = 0 /\ stamped'[w] = <<>> /\ wire'[w] = <<>>
    BY <1>2 DEF Clone, TypeInv
  <2>4. QED
    BY <2>2, <2>3 DEF PositionInv, ContentInv, Assumed
<1>3. CASE ReadClock(w)
  <2>1. PICK j \in (IF w \in MetricsWorker THEN Jitter ELSE {0}) :
          instant' = [instant EXCEPT ![w] = clock - BackdateMs + j]
    BY <1>3 DEF ReadClock
  <2>2. j \in Int
    BY <2>1 DEF Jitter, Assumed
  <2>3. TypeInv'
    BY <1>3, <2>1, <2>2 DEF ReadClock, TypeInv, Assumed
  <2>4. QED
    BY <1>3, <2>3 DEF ReadClock, TypeInv, PositionInv, ContentInv, Data
<1>4. CASE PassLimiter(w)
  <2>1. TypeInv'
    BY <1>4 DEF PassLimiter, TypeInv
  <2>2. /\ pc'[w] = (IF Points = 0 THEN "sent" ELSE "marshal") /\ pc[w] = "limit"
        /\ UNCHANGED <<template, copy, k, stamped, wire>>
    BY <1>4 DEF PassLimiter, TypeInv
  <2>3. Len(stamped[w]) = Points /\ Len(wire[w]) = 0 /\ k[w] = 0
    BY <2>2 DEF PositionInv
  <2>4. Points = 0 => wire[w] = stamped[w]
    <3>1. wire[w] \in Seq(Int) /\ stamped[w] \in Seq(Int)
      BY DEF TypeInv
    <3>2. QED
      BY <2>3, <3>1
  <2>5. QED
    BY <2>1, <2>2, <2>3, <2>4 DEF PositionInv, ContentInv, Data, Assumed
<1>5. CASE ExportSucceeds(w)
  BY <1>5 DEF ExportSucceeds, TypeInv, PositionInv, ContentInv, Data
<1>6. CASE SendFails(w)
  <2>1. pc'[w] \in {"returned", "check"}
    BY <1>6 DEF SendFails, TypeInv
  <2>2. TypeInv'
    BY <1>6 DEF SendFails, TypeInv
  <2>3. QED
    BY <2>1, <2>2 DEF PositionInv, ContentInv
<1>7. QED
  BY <1>1, <1>2, <1>3, <1>4, <1>5, <1>6

\* Stamping a point writes the same time into the request's data and into the record of it.
LEMMA StampStep ==
  ASSUME Assumed, TypeInv, NEW w \in Worker, PositionInv(w), Stamp(w)
  PROVE  TypeInv' /\ PositionInv(w)' /\ (ContentInv(w) => ContentInv(w)')
<1> DEFINE i == k[w] + 1
<1>1. PICK j \in (IF w \in LogsWorker THEN Jitter ELSE {0}) :
        /\ IF w \in MetricsWorker
           THEN template' = [template EXCEPT ![i] = instant[w] + j] /\ UNCHANGED copy
           ELSE copy' = [copy EXCEPT ![w][i] = instant[w] + j] /\ UNCHANGED template
        /\ stamped' = [stamped EXCEPT ![w] = Append(@, instant[w] + j)]
        /\ k' = [k EXCEPT ![w] = IF i = Points THEN 0 ELSE i]
        /\ pc' = [pc EXCEPT ![w] = IF i = Points THEN "limit"
                                   ELSE IF w \in MetricsWorker /\ NextMetric(i) THEN "read"
                                   ELSE "stamp"]
  BY DEF Stamp, Goto
<1> DEFINE time == instant[w] + j
<1>2. pc[w] = "stamp" /\ UNCHANGED <<clock, instant, wire>>
  BY DEF Stamp
<1>3. time \in Int
  BY <1>1 DEF Jitter, Assumed, TypeInv
<1>4. /\ k[w] \in Nat /\ Points \in Nat /\ k[w] < Points
      /\ Len(stamped[w]) = k[w] /\ wire[w] = <<>>
      /\ stamped[w] \in Seq(Int) /\ Data(w) \in [1..Points -> Int]
  BY <1>2, WorkerTypes DEF PositionInv
<1>5. i \in 1..Points /\ (IF i = Points THEN 0 ELSE i) \in 0..Points
  BY <1>4
<1> HIDE DEF time
<1>6. /\ Append(stamped[w], time) \in Seq(Int) /\ Len(Append(stamped[w], time)) = k[w] + 1
      /\ \A n \in 1..k[w] : Append(stamped[w], time)[n] = stamped[w][n]
      /\ Append(stamped[w], time)[k[w] + 1] = time
  BY <1>3, <1>4, Appended
<1>7. stamped'[w] = Append(stamped[w], time)
  BY <1>1 DEF time, TypeInv
<1>8. Data(w)' = [Data(w) EXCEPT ![i] = time]
  BY <1>1 DEF time, TypeInv, Data
<1>9. TypeInv'
  <2>1. template' \in [1..Points -> Int] /\ copy' \in [Worker -> [1..Points -> Int]]
    <3>1. CASE w \in MetricsWorker
      BY <1>1, <1>3, <1>5, <3>1 DEF time, TypeInv
    <3>2. CASE w \notin MetricsWorker
      <4>1. [copy[w] EXCEPT ![i] = time] \in [1..Points -> Int]
        BY <1>3, <1>5 DEF TypeInv
      <4>2. copy' = [copy EXCEPT ![w] = [copy[w] EXCEPT ![i] = time]] /\ template' = template
        BY <1>1, <3>2 DEF time
      <4>3. QED
        BY <4>1, <4>2 DEF TypeInv
    <3>3. QED
      BY <3>1, <3>2
  <2>2. stamped' \in [Worker -> Seq(Int)]
    BY <1>1, <1>6 DEF time, TypeInv
  <2>3. k' \in [Worker -> 0..Points] /\ pc' \in [Worker -> Label]
    BY <1>1, <1>5 DEF TypeInv, Label
  <2>4. QED
    BY <1>2, <2>1, <2>2, <2>3 DEF TypeInv
<1>10. /\ k'[w] = (IF i = Points THEN 0 ELSE i) /\ wire'[w] = <<>>
       /\ pc'[w] \in IF i = Points THEN {"limit"} ELSE {"read", "stamp"}
  BY <1>1, <1>2, <1>4 DEF TypeInv
<1>11. Len(stamped'[w]) = i
  BY <1>6, <1>7
<1>12. PositionInv(w)'
  BY <1>4, <1>5, <1>10, <1>11 DEF PositionInv
<1>13. ASSUME ContentInv(w) PROVE ContentInv(w)'
  <2>1. \A n \in 1..k[w] : Data(w)[n] = stamped[w][n]
    BY <1>2, <1>4, <1>13 DEF ContentInv
  <2>2. \A n \in 1..i : Data(w)'[n] = stamped'[w][n]
    BY <1>4, <1>6, <1>7, <1>8, <2>1
  <2>3. k'[w] = 0 \/ pc'[w] \in {"read", "stamp"}
    BY <1>10
  <2>4. QED
    BY <1>10, <1>11, <2>2, <2>3 DEF ContentInv
<1>14. QED
  BY <1>9, <1>12, <1>13

\* Marshalling reads the times in the order in which they were stamped.
LEMMA MarshalStep ==
  ASSUME Assumed, TypeInv, NEW w \in Worker, PositionInv(w), Marshal(w)
  PROVE  TypeInv' /\ PositionInv(w)' /\ (ContentInv(w) => ContentInv(w)')
<1> DEFINE i == k[w] + 1
           time == Data(w)[i]
<1>1. /\ pc[w] = "marshal" /\ UNCHANGED <<clock, template, copy, instant, stamped>>
      /\ wire' = [wire EXCEPT ![w] = Append(@, time)]
      /\ k' = [k EXCEPT ![w] = i]
      /\ pc' = [pc EXCEPT ![w] = IF i = Points THEN "sent" ELSE "marshal"]
  BY DEF Marshal, Goto, Data
<1>2. /\ k[w] \in Nat /\ Points \in Nat /\ k[w] < Points
      /\ Len(stamped[w]) = Points /\ Len(wire[w]) = k[w]
      /\ stamped[w] \in Seq(Int) /\ wire[w] \in Seq(Int) /\ Data(w) \in [1..Points -> Int]
  BY <1>1, WorkerTypes DEF PositionInv
<1>3. i \in 1..Points /\ time \in Int
  BY <1>2
<1> HIDE DEF time
<1>4. /\ Append(wire[w], time) \in Seq(Int) /\ Len(Append(wire[w], time)) = i
      /\ \A n \in 1..k[w] : Append(wire[w], time)[n] = wire[w][n]
      /\ Append(wire[w], time)[i] = time
  BY <1>2, <1>3, Appended
<1>5. TypeInv'
  BY <1>1, <1>3, <1>4 DEF TypeInv, Label
<1>6. /\ wire'[w] = Append(wire[w], time) /\ k'[w] = i /\ stamped'[w] = stamped[w]
      /\ pc'[w] = (IF i = Points THEN "sent" ELSE "marshal") /\ Data(w)' = Data(w)
  BY <1>1 DEF TypeInv, Data
<1>7. PositionInv(w)'
  BY <1>2, <1>3, <1>4, <1>6 DEF PositionInv
<1>8. ASSUME ContentInv(w) PROVE ContentInv(w)'
  <2>1. /\ \A n \in 1..k[w] : wire[w][n] = stamped[w][n]
        /\ \A n \in 1..Points : Data(w)[n] = stamped[w][n]
    BY <1>1, <1>2, <1>8 DEF ContentInv
  <2>2. \A n \in 1..i : wire'[w][n] = stamped[w][n]
    BY <1>2, <1>3, <1>4, <1>6, <2>1 DEF time
  <2>3. i = Points => wire'[w] = stamped[w]
    <3>1. wire'[w] \in Seq(Int) /\ stamped[w] \in Seq(Int) /\ Len(wire'[w]) = i
      BY <1>2, <1>4, <1>6
    <3>2. QED
      BY <1>2, <2>2, <3>1, SameSequence
  <2>4. QED
    BY <1>2, <1>6, <2>1, <2>2, <2>3 DEF ContentInv
<1>9. QED
  BY <1>5, <1>7, <1>8

\* Every step keeps the invariant: the worker that makes it by one of the lemmas above, the
\* others because it leaves them and their data alone.
LEMMA InvNext == Assumed /\ PrivateInv /\ [Next]_vars => PrivateInv'
<1> SUFFICES ASSUME Assumed, PrivateInv, [Next]_vars PROVE PrivateInv'
  OBVIOUS
<1>1. \A w \in Worker : Private(w)' <=> Private(w)
  BY DEF Private
<1>2. CASE Tick \/ Cancel \/ UNCHANGED vars
  <2>1. UNCHANGED <<template, pc, copy, k, instant, stamped, wire>> /\ clock' \in Int
    BY <1>2 DEF Tick, Cancel, vars, PrivateInv, TypeInv
  <2>2. TypeInv'
    BY <2>1 DEF PrivateInv, TypeInv
  <2>3. \A w \in Worker : Data(w)' = Data(w)
    BY <2>1 DEF Data
  <2>4. \A w \in Worker : PositionInv(w)' /\ (ContentInv(w) => ContentInv(w)')
    BY <2>1, <2>3, Undisturbed DEF PrivateInv
  <2>5. QED
    BY <1>1, <2>2, <2>4 DEF PrivateInv
<1>3. ASSUME NEW v \in Worker, WorkerStep(v) PROVE PrivateInv'
  <2>1. TypeInv' /\ PositionInv(v)' /\ (ContentInv(v) => ContentInv(v)')
    BY <1>3, QuietSteps, StampStep, MarshalStep DEF PrivateInv, WorkerStep
  <2>2. ASSUME NEW w \in Worker, w # v PROVE PositionInv(w)' /\ (Private(w) => ContentInv(w)')
    BY <1>3, <2>2, OthersKeep
  <2>3. QED
    BY <1>1, <2>1, <2>2 DEF PrivateInv
<1>4. QED
  BY <1>2, <1>3 DEF Next

--------------------------------------------------------------------------------
(* The theorems *)

\* However many workers share the templates, a request of a logs worker has the times that
\* this worker has stamped, and so has a request of a metrics worker that is the only one.
THEOREM PrivateCopies ==
  Assumed => (Spec => [](\A w \in Worker : Private(w) /\ pc[w] = "sent" => wire[w] = stamped[w]))
<1> SUFFICES ASSUME Assumed
             PROVE  Spec => [](\A w \in Worker :
                                 Private(w) /\ pc[w] = "sent" => wire[w] = stamped[w])
  OBVIOUS
<1>1. Init => PrivateInv
  BY InvInit
<1>2. PrivateInv /\ [Next]_vars => PrivateInv'
  BY InvNext
<1>3. PrivateInv => \A w \in Worker : Private(w) /\ pc[w] = "sent" => wire[w] = stamped[w]
  BY DEF PrivateInv, ContentInv
<1>4. QED
  BY <1>1, <1>2, <1>3, PTL DEF Spec

\* The promise of the documentation that the run finds broken holds with one metrics worker.
THEOREM OwnCopyOfOne ==
  Assumed /\ (\A v, w \in MetricsWorker : v = w) => (Spec => []OwnCopy)
<1> SUFFICES ASSUME Assumed, \A v, w \in MetricsWorker : v = w PROVE Spec => []OwnCopy
  OBVIOUS
<1>1. (\A w \in Worker : Private(w) /\ pc[w] = "sent" => wire[w] = stamped[w]) => OwnCopy
  BY DEF OwnCopy, Private, Worker
<1>2. Spec => [](\A w \in Worker : Private(w) /\ pc[w] = "sent" => wire[w] = stamped[w])
  BY PrivateCopies
<1>3. QED
  BY <1>1, <1>2, PTL
================================================================================
