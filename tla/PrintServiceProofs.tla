--------------------------- MODULE PrintServiceProofs ---------------------------
(***************************************************************************)
(* The terminal program with a fixed number of printers, for every value   *)
(* of its constants: types, the ownership, order and number of the jobs,   *)
(* the printers' paper, and the abstract service that the threads          *)
(* implement.                                                              *)
(***************************************************************************)
EXTENDS PrintService, ThreadProofs

USE DEF Printers, Jobs, NoJob, NoMemory, Refiller, NoThread, Scaler, Cancellable, Mutexes, CondVars,
        NoPrinter

-----------------------------------------------------------------------------
(* Every step is that of one thread, or moves main alone *)

TypeInv == ThreadInv /\ mpc \in MainPCs
JobInv  == JobsOwned({})

LEMMA InitIsAtRest == Init => AtRest
BY DEF Init, AtRest, ReceiverInit, PrinterInit, RefillerInit

LEMMA StepsAreTurns ==
  /\ ReceiverStep => ReceiverTurn
  /\ \A p \in Printers : PrinterStep(p) => PrinterTurn(p)
  /\ RefillerStep => RefillerTurn
  /\ CatcherStep => CatcherTurn
  /\ WakeupStep => WakeupTurn
BY DEF ReceiverStep, ReceiverTurn, PrinterStep, PrinterTurn, RefillerStep, RefillerTurn,
       CatcherStep, CatcherTurn, WakeupStep, WakeupTurn

-----------------------------------------------------------------------------
(* Types *)

LEMMA InitTypeInv == Init => TypeInv
BY InitIsAtRest, AtRestTypes DEF Init, TypeInv, MainPCs

\* main keeps the types.
LEMMA MainTypeInv == ASSUME TypeInv, MainStep PROVE TypeInv'
<1>1. SharedTypeOK' /\ ReceiverTypeOK' /\ PrinterTypeOK' /\ RefillerTypeOK' /\ PointersOK'
  BY DEF TypeInv, ThreadInv, ThreadTypes, PointersOK, SharedTypeOK, ReceiverTypeOK, PrinterTypeOK,
         RefillerTypeOK, ReceiverHolds, Serving, sharedVars, queueVars, syncVars, flagVars,
         paperVars, receiverVars, printerVars, refillerVars, MainStep
<1>2. CatcherTypeOK' /\ mpc' \in MainPCs
  BY DEF TypeInv, ThreadInv, ThreadTypes, CatcherTypeOK, MainStep, MainNext, JoinReceiver,
         JoinPrinters, JoinRefiller, CancelCatcher, JoinCatcher, MainPCs, CatcherPCs
<1> QED BY <1>1, <1>2 DEF TypeInv, ThreadInv, ThreadTypes

LEMMA StutterTypeInv == ASSUME TypeInv, UNCHANGED vars PROVE TypeInv'
BY DEF TypeInv, ThreadInv, ThreadTypes, PointersOK, SharedTypeOK, ReceiverTypeOK, PrinterTypeOK,
       RefillerTypeOK, CatcherTypeOK, ReceiverHolds, Serving, sharedVars, queueVars, syncVars,
       flagVars, paperVars, receiverVars, printerVars, refillerVars, vars

\* The type invariant is inductive.
LEMMA NextTypeInv == TypeInv /\ [Next]_vars => TypeInv'
<1> SUFFICES ASSUME TypeInv, [Next]_vars PROVE TypeInv'
  OBVIOUS
<1>1. CASE \/ ReceiverStep \/ (\E p \in Printers : PrinterStep(p)) \/ RefillerStep
           \/ CatcherStep \/ WakeupStep
  <2>1. ThreadInv'
    BY <1>1, StepsAreTurns, ReceiverKeepsTypes, PrinterKeepsTypes, RefillerKeepsTypes,
       CatcherKeepsTypes, WakeupKeepsTypes DEF TypeInv
  <2>2. mpc' = mpc
    BY <1>1 DEF ReceiverStep, PrinterStep, RefillerStep, CatcherStep, WakeupStep
  <2> QED BY <2>1, <2>2 DEF TypeInv
<1> QED BY <1>1, MainTypeInv, StutterTypeInv DEF Next, Stop

\* Every variable of the program keeps its type, and no thread follows a pointer
\* it has not set, whatever the interleaving.
THEOREM TypeCorrect == Spec => []TypeInv
BY InitTypeInv, NextTypeInv, PTL DEF Spec

\* The type invariant of PrintService.
THEOREM TypesHold == Spec => []TypeOK
BY TypeCorrect, PTL DEF TypeInv, ThreadInv, ThreadTypes, TypeOK

-----------------------------------------------------------------------------
(* Jobs *)

\* main and steps that change nothing move no job.
LEMMA MainJobsStay == ASSUME MainStep \/ UNCHANGED vars PROVE JobsStay
BY DEF JobsStay, ReceiverHolds, Serving, MainStep, vars, sharedVars, queueVars, receiverVars,
       printerVars

\* The job invariant is inductive, given the types.
LEMMA NextJobInv == TypeInv /\ JobInv /\ [Next]_vars => JobInv'
<1> SUFFICES ASSUME TypeInv, JobInv, [Next]_vars PROVE JobsOwned({})'
  BY DEF JobInv
<1>1. CASE RefillerStep \/ WakeupStep \/ MainStep \/ UNCHANGED vars
  BY <1>1, StepsAreTurns, OthersJobsStay, MainJobsStay, JobsStayKeepsJobs DEF JobInv
<1>2. CASE ReceiverStep \/ (\E p \in Printers : PrinterStep(p)) \/ CatcherStep
  BY <1>2, StepsAreTurns, ReceiverKeepsJobs, PrinterKeepsJobs, CatcherKeepsJobs
  DEF TypeInv, JobInv
<1> QED BY <1>1, <1>2 DEF Next, Stop

\* Queue, printers and receiver always hold disjoint jobs, sorted by age, and
\* these are exactly the allocated ones.
THEOREM JobInvariant == Spec => []JobInv
<1>1. Init => JobInv
  BY InitIsAtRest, AtRestJobs DEF JobInv
<1>2. Init /\ [][Next]_vars /\ []TypeInv => []JobInv
  BY <1>1, NextJobInv, PTL
<1> QED
  BY <1>2, TypeCorrect, PTL DEF Spec

\* No job is ever printed twice, freed twice, or forgotten by every thread that
\* could free it, for any number of threads and jobs.
THEOREM OwnershipHolds == Spec => []JobOwnership
<1>1. ASSUME TypeInv, JobInv PROVE JobOwnership
  <2>1. BeingServed = InService
    BY DEF BeingServed, InService
  <2>2. ThreadInv /\ JobsOwned({})
    BY <1>1 DEF TypeInv, JobInv
  <2>3. /\ \A i, k \in DOMAIN jobQueue : jobQueue[i] = jobQueue[k] => i = k
        /\ Queued \cap InService = {}
        /\ ReceiverHolds => jobId \notin Queued \cup InService
        /\ Live = Queued \cup InService \cup {j \in Jobs : ReceiverHolds /\ j = jobId}
    BY <2>2, OwnersAreDistinct
  <2>4. \A p, q \in Printers : Serving(p) /\ Serving(q) /\ target[p] = target[q] => p = q
    BY <2>2 DEF JobsOwned
  <2> QED BY <2>1, <2>3, <2>4 DEF JobOwnership
<1> QED
  BY <1>1, TypeCorrect, JobInvariant, PTL

\* The printers take the jobs in the order of their arrival.
THEOREM FirstComeFirstServedHolds == Spec => []FirstComeFirstServed
<1>1. JobInv => FirstComeFirstServed
  BY DEF JobInv, JobsOwned, Sorted, BeingServed, FirstComeFirstServed
<1> QED
  BY <1>1, JobInvariant, PTL

\* Only the receiver makes the queue longer, and only when it is not full.
LEMMA NextQueueWithinCapacity ==
  TypeInv /\ QueueWithinCapacity /\ [Next]_vars => QueueWithinCapacity'
<1> SUFFICES ASSUME TypeInv, QueueWithinCapacity, [Next]_vars PROVE QueueWithinCapacity'
  OBVIOUS
<1>0. jobQueue \in Seq(Jobs) /\ jobId \in 0..NumJobs
  BY DEF TypeInv, ThreadInv, ThreadTypes, SharedTypeOK, ReceiverTypeOK
<1>1. CASE jobQueue' = jobQueue
  BY <1>1 DEF QueueWithinCapacity
<1>2. CASE Enqueue
  BY <1>0, <1>2, ParametersAssumption DEF Enqueue, QueueFull, QueueWithinCapacity
<1>3. ASSUME NEW p \in Printers, Dequeue(p) PROVE QueueWithinCapacity'
  <2>1. Len(jobQueue') <= Len(jobQueue) /\ Len(jobQueue) \in Nat /\ Len(jobQueue') \in Nat
    BY <1>0, <1>3 DEF Dequeue
  <2> QED
    BY <2>1, ParametersAssumption DEF QueueWithinCapacity
<1>4. CASE DrainQueue
  BY <1>4, ParametersAssumption DEF DrainQueue, QueueWithinCapacity
<1>5. \/ jobQueue' = jobQueue \/ Enqueue \/ DrainQueue \/ \E p \in Printers : Dequeue(p)
  <2>1. CASE ReceiverStep
    BY <2>1 DEF ReceiverStep, ReceiverNext, Allocate, LoopEnds, ArrivalTimeElapses,
      ReceiverCancelled, CheckTermination, StopArrivals, JobArrives, FindQueueFull, DropJob,
      MarkAllArrived, ReceiverExits, sharedVars, queueVars
  <2>2. ASSUME NEW p \in Printers, PrinterStep(p) PROVE jobQueue' = jobQueue \/ Dequeue(p)
    BY <2>2 DEF PrinterStep, PrinterNext, 
      ReadTerminate, LeaveFromCheck, FindNoJob, BlockOnJob, WakeForJob,
      FindTooLittlePaper, RequestRefill, PaperSuffices, NotePaperWait, PaperMissing, BlockOnRefill,
      WakeForRefill, WakeToTerminate, StartService, FinishPrinting, DeductPaper,
      JobDeparts, ReadArrived, LeaveFromRecheck, LookForNextJob, MarkServed, NotifyExit,
      CancelRefiller, sharedVars, queueVars
  <2>3. CASE CatcherStep
    BY <2>3 DEF CatcherStep, CatcherNext, CatchSignal, CancelThreads, NotifyTermination,
      queueVars
  <2>4. CASE RefillerStep \/ MainStep \/ WakeupStep \/ UNCHANGED vars
    BY <2>4 DEF RefillerStep, RefillerNext, RefillerExits, FindNoRequest, BlockOnSupplier,
      TakeRequest, FindPrinterFull, MeasureRefill, RefillTimeElapses, RefillerCancelled,
      ReadCount, WriteCount, NoteRefill, NotifyRefilled, MainStep, WakeupStep, SpuriousWakeup, vars,
      sharedVars, queueVars
  <2> QED
    BY <2>1, <2>2, <2>3, <2>4 DEF Next, Stop
<1> QED
  BY <1>1, <1>2, <1>3, <1>4, <1>5

\* A limited job queue never holds more than queue_capacity jobs.
THEOREM QueueWithinCapacityHolds == Spec => []QueueWithinCapacity
<1>1. Init => QueueWithinCapacity
  BY ParametersAssumption DEF Init, SharedInit, QueueWithinCapacity
<1>2. Init /\ [][Next]_vars /\ []TypeInv => []QueueWithinCapacity
  BY <1>1, NextQueueWithinCapacity, PTL
<1> QED
  BY <1>2, TypeCorrect, PTL DEF Spec

-----------------------------------------------------------------------------
(* Paper *)

\* main and steps that change nothing touch no paper.
LEMMA MainPaperStays == ASSUME PaperInv, MainStep \/ UNCHANGED vars PROVE PaperInv'
<1>1. UNCHANGED <<paper, papersRequired, ppc, target, paperRead, refillerVars>>
  BY DEF MainStep, vars, sharedVars, queueVars, paperVars, printerVars
<1> QED
  BY <1>1 DEF PaperInv, PrinterPaperInv, RefillerPaperInv, Printing, refillerVars

\* The paper invariant is inductive, given types and job ownership.
LEMMA NextPaperInv == TypeInv /\ TypeInv' /\ JobInv /\ PaperInv /\ [Next]_vars => PaperInv'
<1> SUFFICES ASSUME TypeInv, TypeInv', JobInv, PaperInv, [Next]_vars PROVE PaperInv'
  OBVIOUS
<1>0. ThreadInv /\ ThreadInv' /\ JobsOwned({})
  BY DEF TypeInv, JobInv
<1>1. CASE \/ ReceiverStep \/ (\E p \in Printers : PrinterStep(p)) \/ RefillerStep
           \/ CatcherStep \/ WakeupStep
  BY <1>0, <1>1, StepsAreTurns, ReceiverKeepsPaper, PrinterKeepsPaper, RefillerKeepsPaper,
     CatcherKeepsPaper, WakeupKeepsPaper
<1>2. CASE MainStep \/ UNCHANGED vars
  BY <1>2, MainPaperStays
<1> QED BY <1>1, <1>2 DEF Next, Stop

\* The counts, and what either thread has read of them, stay in their bounds.
THEOREM PaperInvariant == Spec => []PaperInv
<1>1. Init => PaperInv
  BY InitIsAtRest, AtRestPaper
<1>2. Init /\ [][Next]_vars /\ []TypeInv /\ []JobInv => []PaperInv
  BY <1>1, NextPaperInv, PTL
<1> QED
  BY <1>2, TypeCorrect, JobInvariant, PTL DEF Spec

\* Whatever the overlap of a deduction with a refill, no printer has a negative
\* amount of paper or more than its capacity, and none prints a job it lacks the
\* paper for.
THEOREM PaperWithinCapacityHolds == Spec => []PaperWithinCapacity
<1>1. PaperInv => PaperWithinCapacity
  BY DEF PaperInv, PrinterPaperInv, PaperWithinCapacity, Printing, HasPaperFor
<1> QED
  BY <1>1, PaperInvariant, PTL

-----------------------------------------------------------------------------
(* Every arrived job is counted once, wherever it is *)

\* The served jobs can be counted.
LEMMA BeingServedIsFinite ==
  ASSUME TypeInv
  PROVE  IsFiniteSet(BeingServed) /\ Cardinality(BeingServed) \in Nat
<1>1. BeingServed \in SUBSET Jobs BY DEF BeingServed, TypeInv, ThreadInv, PointersOK
<1>2. IsFiniteSet(Jobs) BY ParametersAssumption, FS_Interval
<1> QED BY <1>1, <1>2, FS_Subset, FS_CardinalityType

\* What one count loses and another gains keeps the sum.
LEMMA OneCountedElsewhere ==
  ASSUME NEW a \in Int, NEW s \in Int, NEW d \in Int, NEW r \in Int, NEW l \in Int,
         NEW c \in Int, NEW o \in Int, a = s + d + r + l + c + o
  PROVE  a = (s + 1) + d + r + l + (c - 1) + o
OBVIOUS

\* The job is on its way from its arrival to the queue or the floor.
OnItsWay == IF rpc \in {"offer", "drop"} THEN 1 ELSE 0

LEMMA CountsStay ==
  ASSUME JobConservation,
         UNCHANGED <<stats.arrived, stats.served, stats.dropped, stats.removed>>,
         UNCHANGED <<jobQueue, BeingServed, OnItsWay>>
  PROVE  JobConservation'
BY DEF JobConservation, OnItsWay

\* The receiver counts a job when it arrives, and then queues or drops it.
LEMMA ReceiverConservation ==
  ASSUME TypeInv, JobConservation, ReceiverStep
  PROVE  JobConservation'
<1> USE DEF ReceiverStep
<1>0. UNCHANGED BeingServed BY DEF printerVars, BeingServed, Serving
<1>1. /\ stats \in Statistics /\ jobQueue \in Seq(Jobs) /\ jobId \in Int
      /\ Len(jobQueue) \in Nat /\ Cardinality(BeingServed) \in Nat
  BY BeingServedIsFinite DEF TypeInv, ThreadInv, ThreadTypes, SharedTypeOK, ReceiverTypeOK
<1>2. CASE JobArrives
  <2>1. /\ rpc = "arrive" /\ rpc' = "offer" /\ jobQueue' = jobQueue
        /\ stats' = [stats EXCEPT !.arrived = stats.arrived + 1]
    BY <1>2 DEF JobArrives, queueVars
  <2> QED BY <1>0, <1>1, <2>1 DEF JobConservation, Statistics
<1>3. CASE DropJob
  <2>1. /\ rpc = "drop" /\ rpc' = "allocate" /\ jobQueue' = jobQueue
        /\ stats' = [stats EXCEPT !.dropped = stats.dropped + 1]
    BY <1>3 DEF DropJob
  <2> QED BY <1>0, <1>1, <2>1 DEF JobConservation, Statistics
<1>4. CASE Enqueue
  <2>1. /\ rpc = "offer" /\ rpc' = "allocate" /\ jobQueue' = Append(jobQueue, jobId)
        /\ UNCHANGED <<stats.arrived, stats.served, stats.dropped, stats.removed>>
    BY <1>1, <1>4 DEF Enqueue, Statistics
  <2>2. Len(jobQueue') = Len(jobQueue) + 1 BY <1>1, <2>1
  <2> QED BY <1>0, <1>1, <2>1, <2>2 DEF JobConservation, Statistics
<1>5. CASE ~(JobArrives \/ DropJob \/ Enqueue)
  <2>1. UNCHANGED <<stats, jobQueue, OnItsWay>>
    BY <1>5
    DEF ReceiverNext, Allocate, LoopEnds, ArrivalTimeElapses, ReceiverCancelled, CheckTermination,
        StopArrivals, FindQueueFull, MarkAllArrived, ReceiverExits, OnItsWay, sharedVars, queueVars
  <2> QED BY <1>0, <2>1, CountsStay
<1> QED BY <1>2, <1>3, <1>4, <1>5

\* A printer takes a job out of the queue, and later counts it as served.
LEMMA PrinterConservation ==
  ASSUME TypeInv, JobInv, JobConservation, NEW p \in Printers, PrinterStep(p)
  PROVE  JobConservation'
<1>0. UNCHANGED OnItsWay BY DEF PrinterStep, receiverVars, OnItsWay
<1>1. /\ stats \in Statistics /\ jobQueue \in Seq(Jobs)
      /\ ppc \in [Printers -> PrinterPCs] /\ target \in [Printers -> Jobs \cup {NoJob}]
      /\ IsFiniteSet(BeingServed) /\ Cardinality(BeingServed) \in Nat
  BY BeingServedIsFinite DEF TypeInv, ThreadInv, ThreadTypes, SharedTypeOK, PrinterTypeOK
<1>2. CASE Dequeue(p)
  <2>1. /\ jobQueue # <<>> /\ jobQueue' = Tail(jobQueue) /\ stats' = stats
        /\ ~Serving(p) /\ Serving(p)' /\ target'[p] = Head(jobQueue)
        /\ \A q \in Printers \ {p} : (Serving(q)' <=> Serving(q)) /\ target'[q] = target[q]
    BY <1>1, <1>2 DEF Dequeue, GoTo, Serving
  <2>2. BeingServed' = BeingServed \cup {Head(jobQueue)}
    BY <2>1 DEF BeingServed
  <2>3. Head(jobQueue) \notin BeingServed
    <3>1. Head(jobQueue) \in Queued /\ Head(jobQueue) \in Jobs
      <4>1. 1 \in DOMAIN jobQueue /\ Head(jobQueue) = jobQueue[1] BY <1>1, <2>1
      <4>2. jobQueue[1] \in Jobs BY <1>1, <4>1, SeqElement
      <4> QED BY <4>1, <4>2 DEF Queued
    <3>2. \A q \in Printers : Serving(q) => target[q] < Head(jobQueue)
      BY <3>1 DEF JobInv, JobsOwned
    <3> QED BY <3>1, <3>2 DEF BeingServed
  <2>4. Cardinality(BeingServed') = Cardinality(BeingServed) + 1
    BY <1>1, <2>2, <2>3, FS_AddElement
  <2>5. Len(jobQueue') = Len(jobQueue) - 1 /\ Len(jobQueue) \in Nat
    BY <1>1, <2>1
  <2> QED BY <1>0, <1>1, <2>1, <2>4, <2>5 DEF JobConservation, OnItsWay, Statistics
<1>3. CASE JobDeparts(p)
  <2>1. /\ jobQueue' = jobQueue /\ stats' = [stats EXCEPT !.served = stats.served + 1]
        /\ Serving(p) /\ ~Serving(p)'
        /\ \A q \in Printers \ {p} : (Serving(q)' <=> Serving(q)) /\ target'[q] = target[q]
    BY <1>1, <1>3 DEF JobDeparts, GoTo, Serving, Unpoint
  <2>2. BeingServed' = BeingServed \ {target[p]} /\ target[p] \in BeingServed
    <3>1. \A q \in Printers \ {p} : Serving(q) => target[q] # target[p]
      BY <2>1 DEF JobInv, JobsOwned
    <3> QED BY <2>1, <3>1 DEF BeingServed
  <2>3. Cardinality(BeingServed') = Cardinality(BeingServed) - 1
    BY <1>1, <2>2, FS_RemoveElement
  <2>4. /\ stats'.arrived = stats.arrived /\ stats'.served = stats.served + 1
        /\ stats'.dropped = stats.dropped /\ stats'.removed = stats.removed
        /\ stats.arrived \in Nat /\ stats.served \in Nat /\ stats.dropped \in Nat
        /\ stats.removed \in Nat /\ Len(jobQueue) \in Nat /\ OnItsWay \in Nat
        /\ Cardinality(BeingServed) \in Nat /\ Len(jobQueue') = Len(jobQueue)
    BY <1>1, <2>1 DEF Statistics, OnItsWay
  <2>5. stats.arrived = stats.served + stats.dropped + stats.removed
                          + Len(jobQueue) + Cardinality(BeingServed) + OnItsWay
    BY DEF JobConservation, OnItsWay
  <2>6. stats'.arrived = stats'.served + stats'.dropped + stats'.removed
                          + Len(jobQueue') + Cardinality(BeingServed') + OnItsWay'
    <3> DEFINE a == stats.arrived  s == stats.served  d == stats.dropped  r == stats.removed
               l == Len(jobQueue)  c == Cardinality(BeingServed)  o == OnItsWay
    <3>1. /\ a \in Int /\ s \in Int /\ d \in Int /\ r \in Int /\ l \in Int /\ c \in Int /\ o \in Int
          /\ a = s + d + r + l + c + o
      BY <2>4, <2>5
    <3>2. /\ stats'.arrived = a /\ stats'.served = s + 1 /\ stats'.dropped = d
          /\ stats'.removed = r /\ Len(jobQueue') = l /\ Cardinality(BeingServed') = c - 1
          /\ OnItsWay' = o
      BY <1>0, <2>3, <2>4
    <3> HIDE DEF a, s, d, r, l, c, o
    <3>3. a = (s + 1) + d + r + l + (c - 1) + o BY <3>1, OneCountedElsewhere
    <3> QED BY <3>2, <3>3
  <2> QED BY <2>6 DEF JobConservation, OnItsWay
<1>4. CASE ~(Dequeue(p) \/ JobDeparts(p))
  <2>1. /\ UNCHANGED <<stats, jobQueue>>
        /\ \A q \in Printers : (Serving(q)' <=> Serving(q)) /\ (Serving(q) => target'[q] = target[q])
    BY <1>4, StepsAreTurns, PrinterJobsStay DEF TypeInv, JobsStay
  <2>2. BeingServed' = BeingServed BY <2>1 DEF BeingServed
  <2> QED BY <1>0, <2>1, <2>2, CountsStay
<1> QED BY <1>2, <1>3, <1>4

\* The catcher counts the jobs that it takes out of the queue, all at once.
LEMMA OtherConservation ==
  ASSUME TypeInv, JobConservation,
         CatcherStep \/ RefillerStep \/ MainStep \/ WakeupStep \/ UNCHANGED vars
  PROVE  JobConservation'
<1>0. UNCHANGED <<BeingServed, OnItsWay>>
  BY DEF CatcherStep, RefillerStep, RefillerNext, RefillerExits, FindNoRequest, BlockOnSupplier,
         TakeRequest, FindPrinterFull, MeasureRefill, RefillTimeElapses, RefillerCancelled,
         ReadCount, WriteCount, NoteRefill, NotifyRefilled, MainStep, WakeupStep, vars, receiverVars,
         printerVars, BeingServed, Serving, OnItsWay
<1>1. CASE CatcherStep /\ DrainQueue
  <2>1. jobQueue' = <<>> /\ stats' = [stats EXCEPT !.removed = stats.removed + Len(jobQueue)]
    BY <1>1 DEF DrainQueue
  <2>2. /\ stats'.arrived = stats.arrived /\ stats'.served = stats.served
        /\ stats'.dropped = stats.dropped /\ stats'.removed = stats.removed + Len(jobQueue)
        /\ stats.arrived \in Nat /\ stats.served \in Nat /\ stats.dropped \in Nat
        /\ stats.removed \in Nat /\ Len(jobQueue) \in Nat /\ Len(jobQueue') = 0
        /\ Cardinality(BeingServed) \in Nat
    BY <2>1, BeingServedIsFinite DEF TypeInv, ThreadInv, ThreadTypes, SharedTypeOK, Statistics
  <2> QED BY <1>0, <2>2 DEF JobConservation, OnItsWay
<1>2. CASE (CatcherStep /\ ~DrainQueue) \/ RefillerStep \/ MainStep \/ WakeupStep \/ UNCHANGED vars
  <2>1. UNCHANGED <<stats, jobQueue>>
    BY <1>2
    DEF CatcherStep, CatcherNext, CatchSignal, CancelThreads, NotifyTermination, RefillerStep,
        RefillerNext, RefillerExits, FindNoRequest, BlockOnSupplier, TakeRequest, FindPrinterFull,
        MeasureRefill, RefillTimeElapses, RefillerCancelled, ReadCount, WriteCount,
        NoteRefill, NotifyRefilled, MainStep, WakeupStep, SpuriousWakeup, vars, sharedVars, queueVars
  <2> QED BY <1>0, <2>1, CountsStay
<1> QED BY <1>1, <1>2

\* The reported numbers balance at every moment, for any number of threads and jobs.
THEOREM JobConservationHolds == Spec => []JobConservation
<1>1. Init => JobConservation
  <2> SUFFICES ASSUME Init PROVE JobConservation
    OBVIOUS
  <2>1. BeingServed = {} BY DEF Init, PrinterInit, Serving, BeingServed
  <2>2. Cardinality(BeingServed) = 0 BY <2>1, FS_EmptySet
  <2> QED BY <2>2 DEF Init, SharedInit, ReceiverInit, NoStatistics, JobConservation
<1>2. TypeInv /\ JobInv /\ JobConservation /\ [Next]_vars => JobConservation'
  BY ReceiverConservation, PrinterConservation, OtherConservation DEF Next, Stop
<1> QED BY <1>1, <1>2, TypeCorrect, JobInvariant, PTL DEF Spec

-----------------------------------------------------------------------------
(* The threads implement the abstract service.  A job is decided about when  *)
(* the receiver queues it, finds the queue full or gives it up.              *)

Decided == IF rpc \in {"sleep", "check", "arrive", "offer"} THEN jobId - 1 ELSE jobId
AtWork  == [p \in Printers |-> IF Serving(p) THEN target[p] ELSE NoJob]
Refused == stats.dropped + (IF rpc = "drop" THEN 1 ELSE 0)

LEMMA FlowStutters ==
  ASSUME UNCHANGED <<Decided, jobQueue, AtWork, stats.served, Refused, stats.removed>>
  PROVE  UNCHANGED Flow!flow
BY DEF Flow!flow, Decided, AtWork, Refused

\* The receiver accepts, refuses or withdraws the job it is at.
LEMMA ReceiverFlow ==
  ASSUME TypeInv, ReceiverStep
  PROVE  [Flow!Next]_(Flow!flow)
<1> USE DEF ReceiverStep
<1>0. /\ AtWork' = AtWork /\ jobId \in 0..NumJobs /\ (ReceiverHolds => jobId \in Jobs)
      /\ stats \in Statistics /\ NumJobs \in Nat
  BY ParametersAssumption
  DEF printerVars, AtWork, Serving, TypeInv, ThreadInv, ThreadTypes, PointersOK, ReceiverTypeOK,
  SharedTypeOK
<1>1. CASE Enqueue
  <2>1. /\ Decided = jobId - 1 /\ Decided' = jobId /\ jobQueue' = Append(jobQueue, jobId)
        /\ Refused' = Refused /\ stats'.served = stats.served /\ stats'.removed = stats.removed
        /\ jobId \in Jobs /\ ~QueueFull
    BY <1>0, <1>1 DEF Enqueue, Decided, Refused, ReceiverHolds, Statistics
  <2>2. Flow!Accept
    BY <1>0, <2>1 DEF Flow!Accept, Flow!Decide, Flow!Full, QueueFull, Decided, AtWork, Refused
  <2> QED BY <2>2 DEF Flow!Next
<1>2. CASE FindQueueFull
  <2>1. /\ Decided = jobId - 1 /\ Decided' = jobId /\ jobId \in Jobs /\ QueueFull
        /\ Refused' = Refused + 1 /\ UNCHANGED <<jobQueue, stats>>
    BY <1>0, <1>2
    DEF FindQueueFull, Decided, Refused, ReceiverHolds, Statistics, sharedVars, queueVars
  <2>2. Flow!Refuse
    BY <1>0, <2>1 DEF Flow!Refuse, Flow!Decide, Flow!Full, QueueFull, Decided, AtWork, Refused
  <2> QED BY <2>2 DEF Flow!Next
<1>3. CASE ReceiverCancelled \/ StopArrivals
  <2>1. /\ Decided = jobId - 1 /\ Decided' = jobId /\ jobId \in Jobs
        /\ Refused' = Refused /\ UNCHANGED <<jobQueue, stats>>
    BY <1>0, <1>3
    DEF ReceiverCancelled, StopArrivals, Decided, Refused, ReceiverHolds, sharedVars, queueVars
  <2>2. Flow!Withdraw
    BY <1>0, <2>1 DEF Flow!Withdraw, Flow!Decide, Decided, AtWork, Refused
  <2> QED BY <2>2 DEF Flow!Next
<1>4. CASE DropJob
  <2>1. UNCHANGED <<Decided, jobQueue, stats.served, Refused, stats.removed>>
    BY <1>0, <1>4 DEF DropJob, Decided, Refused, Statistics
  <2> QED BY <1>0, <2>1, FlowStutters
<1>5. CASE \/ Allocate \/ LoopEnds \/ ArrivalTimeElapses \/ CheckTermination \/ JobArrives
           \/ MarkAllArrived \/ ReceiverExits
  <2>1. UNCHANGED <<Decided, jobQueue, stats.served, Refused, stats.removed>>
    BY <1>0, <1>5
    DEF Allocate, LoopEnds, ArrivalTimeElapses, CheckTermination, JobArrives, MarkAllArrived,
        ReceiverExits, Decided, Refused, Statistics, sharedVars, queueVars
  <2> QED BY <1>0, <2>1, FlowStutters
<1> QED BY <1>1, <1>2, <1>3, <1>4, <1>5 DEF ReceiverNext

\* A printer begins and completes jobs.
LEMMA PrinterFlow ==
  ASSUME TypeInv, NEW p \in Printers, PrinterStep(p)
  PROVE  [Flow!Next]_(Flow!flow)
<1>0. /\ UNCHANGED <<rpc, jobId>> /\ UNCHANGED Decided
      /\ stats \in Statistics /\ ppc \in [Printers -> PrinterPCs]
      /\ target \in [Printers -> Jobs \cup {NoJob}]
      /\ Serving(p) => target[p] \in Jobs
  BY DEF PrinterStep, receiverVars, Decided, TypeInv, ThreadInv, ThreadTypes, SharedTypeOK,
         PrinterTypeOK, PointersOK
<1>1. CASE Dequeue(p)
  <2>1. /\ jobQueue # <<>> /\ jobQueue' = Tail(jobQueue) /\ stats' = stats
        /\ ~Serving(p) /\ Serving(p)' /\ target'[p] = Head(jobQueue)
        /\ \A q \in Printers \ {p} : (Serving(q)' <=> Serving(q)) /\ target'[q] = target[q]
    BY <1>0, <1>1 DEF Dequeue, GoTo, Serving
  <2>2. AtWork[p] = NoJob /\ AtWork' = [AtWork EXCEPT ![p] = Head(jobQueue)]
    BY <2>1 DEF AtWork
  <2>3. Flow!Begin(p)
    BY <1>0, <2>1, <2>2 DEF Flow!Begin, Flow!Nobody, Decided, AtWork
  <2> QED BY <2>3 DEF Flow!Next
<1>2. CASE JobDeparts(p)
  <2>1. /\ jobQueue' = jobQueue /\ stats' = [stats EXCEPT !.served = stats.served + 1]
        /\ Serving(p) /\ ~Serving(p)'
        /\ \A q \in Printers \ {p} : (Serving(q)' <=> Serving(q)) /\ target'[q] = target[q]
    BY <1>0, <1>2 DEF JobDeparts, GoTo, Serving, Unpoint
  <2>2. AtWork[p] # NoJob /\ AtWork' = [AtWork EXCEPT ![p] = NoJob]
    <3>1. AtWork[p] = target[p] /\ target[p] # NoJob
      BY <1>0, <2>1, ParametersAssumption DEF AtWork
    <3>2. AtWork' = [AtWork EXCEPT ![p] = NoJob]
      BY <2>1 DEF AtWork
    <3> QED BY <3>1, <3>2
  <2>3. /\ stats'.served = stats.served + 1 /\ stats'.dropped = stats.dropped
        /\ stats'.removed = stats.removed
    BY <1>0, <2>1 DEF Statistics
  <2>4. Flow!Complete(p)
    BY <1>0, <2>1, <2>2, <2>3 DEF Flow!Complete, Flow!Nobody, Decided, AtWork
  <2> QED BY <2>4 DEF Flow!Next
<1>3. CASE ~(Dequeue(p) \/ JobDeparts(p))
  <2>1. JobsStay /\ stats' = stats BY <1>3, StepsAreTurns, PrinterJobsStay DEF TypeInv
  <2>2. UNCHANGED <<AtWork, Refused>> BY <1>0, <2>1 DEF JobsStay, AtWork, Refused
  <2> QED BY <1>0, <2>1, <2>2, FlowStutters DEF JobsStay
<1> QED BY <1>1, <1>2, <1>3

\* The catcher empties the line at once; the others leave it alone.
LEMMA OtherFlow ==
  ASSUME TypeInv, CatcherStep \/ RefillerStep \/ MainStep \/ WakeupStep \/ UNCHANGED vars
  PROVE  [Flow!Next]_(Flow!flow)
<1>0. UNCHANGED <<Decided, AtWork>> /\ UNCHANGED rpc /\ stats \in Statistics
  BY DEF CatcherStep, RefillerStep, RefillerNext, RefillerExits, FindNoRequest, BlockOnSupplier,
         TakeRequest, FindPrinterFull, MeasureRefill, RefillTimeElapses, RefillerCancelled,
         ReadCount, WriteCount, NoteRefill, NotifyRefilled, MainStep, WakeupStep, vars, receiverVars,
         printerVars, Decided, AtWork, Serving, TypeInv, ThreadInv, ThreadTypes, SharedTypeOK
<1>1. CASE CatcherStep /\ DrainQueue
  <2>1. /\ jobQueue' = <<>> /\ stats'.removed = stats.removed + Len(jobQueue)
        /\ stats'.served = stats.served /\ stats'.dropped = stats.dropped
    BY <1>0, <1>1 DEF DrainQueue, Statistics
  <2>2. Flow!Purge
    BY <1>0, <2>1 DEF Flow!Purge, Decided, AtWork
  <2> QED BY <2>2 DEF Flow!Next
<1>2. CASE (CatcherStep /\ ~DrainQueue) \/ RefillerStep \/ MainStep \/ WakeupStep \/ UNCHANGED vars
  <2>1. UNCHANGED <<stats, jobQueue>>
    BY <1>2
    DEF CatcherStep, CatcherNext, CatchSignal, CancelThreads, NotifyTermination, RefillerStep,
        RefillerNext, RefillerExits, FindNoRequest, BlockOnSupplier, TakeRequest, FindPrinterFull,
        MeasureRefill, RefillTimeElapses, RefillerCancelled, ReadCount, WriteCount,
        NoteRefill, NotifyRefilled, MainStep, WakeupStep, SpuriousWakeup, vars, sharedVars, queueVars
  <2>2. UNCHANGED Refused BY <1>0, <2>1 DEF Refused
  <2> QED BY <1>0, <2>1, <2>2, FlowStutters
<1> QED BY <1>1, <1>2

\* However the threads interleave, what they do with the jobs is what a first-come
\* first-served line with several servers does.
THEOREM ThreadsImplementJobFlow == Spec => ImplementsJobFlow
<1>1. Init => Flow!Init
  BY DEF Init, SharedInit, ReceiverInit, PrinterInit, Serving, NoStatistics, Flow!Init, Flow!Nobody
<1>2. TypeInv /\ [Next]_vars => [Flow!Next]_(Flow!flow)
  BY ReceiverFlow, PrinterFlow, OtherFlow DEF Next, Stop
<1> QED BY <1>1, <1>2, TypeCorrect, PTL DEF Spec, ImplementsJobFlow, Flow!Spec
=============================================================================
