----------------------- MODULE PrintServiceWakeupProofs -----------------------
(***************************************************************************)
(* No printer sleeps through a job, through the end of the arrivals or     *)
(* through its refill, the refiller sleeps through no request, no printer  *)
(* leaves while there is work, and a run without SIGINT ends complete, for *)
(* any number of printers, jobs and papers.                                *)
(***************************************************************************)
EXTENDS PrintServiceProofs

USE DEF Printers, Jobs, NoJob, NoMemory, Refiller, NoThread, Scaler, Cancellable, Mutexes, CondVars,
        NoPrinter

-----------------------------------------------------------------------------
(* The inductive invariants.  A thread between a test and its wait owns the   *)
(* mutex, so whoever would make the test wrong, or broadcasts, comes before   *)
(* the test or after the wait.                                                *)

\* Where the threads that own a mutex or are blocked are, and what main knows.
PlacesInv ==
  /\ \A p \in Printers : ppc[p] # "notStarted" => p \in InitialPrinters
  /\ \A p \in Printers : ppc[p] = "blockOnJob" => owner["job_queue"] = p
  /\ \A p \in Printers :
       ppc[p] \in {"testPaper", "blockOnRefill"} => owner["paper_refill_queue"] = p
  /\ fpc = "blockOnSupplier" => owner["paper_refill_queue"] = Refiller
  /\ \A t \in waiting["job_queue_not_empty"] : t \in Printers /\ ppc[t] = "waitForJob"
  /\ Refiller \in waiting["refill_supplier"] => fpc = "waitForRequest"
  /\ mpc \notin {"joinReceiver", "joinPrinters"} =>
       \A p \in Printers : ppc[p] \in {"done", "notStarted"}
  /\ mpc \in {"cancelCatcher", "joinCatcher", "report"} => fpc \in {"done", "cancelled"}

\* A printer that sleeps on job_queue_not_empty, or is about to.
SleepsForJob ==
  waiting["job_queue_not_empty"] # {} \/ \E p \in Printers : ppc[p] = "blockOnJob"

SleepsForRequest == Refiller \in waiting["refill_supplier"] \/ fpc = "blockOnSupplier"

JobSleepInv ==
  SleepsForJob =>
    /\ jobQueue = <<>>
    /\ allJobsArrived => rpc \in {"markArrived", "broadcast"} \/ spc \in {"cancel", "drain"}

RequestSleepInv ==
  SleepsForRequest =>
    /\ refillQueue = <<>>
    /\ terminateNow => spc \in {"cancel", "drain", "notify"}
    /\ allJobsServed => \E p \in Printers : ppc[p] = "notify"

\* What a flag read earlier, or a printer on its way out, says about the present.
Leaving(p) == ppc[p] \in {"markServed", "notify", "cancelRefiller", "done"}

LeaveInv ==
  /\ terminateNow => allJobsArrived
  /\ allJobsArrived => rpc \in {"markArrived", "broadcast", "done"} \/ terminateNow
  /\ \A p \in Printers :
       /\ ppc[p] = "checkQueue" /\ flagSeen[p] => terminateNow
       /\ ppc[p] = "recheck" /\ flagSeen[p] => allJobsArrived
       /\ Leaving(p) /\ ~terminateNow => allJobsArrived /\ jobQueue = <<>>
  /\ allJobsServed => \E p \in Printers : Leaving(p)

-----------------------------------------------------------------------------
(* Mutexes and condition variables *)

\* At the start no thread owns a mutex or waits.
LEMMA InitPlacesInv == Init => PlacesInv
<1> SUFFICES ASSUME Init PROVE PlacesInv
  OBVIOUS
<1> QED
  BY PrintersAssumption
  DEF Init, SharedInit, PrinterInit, RefillerInit, PlacesInv, InitialPrinters

\* A printer that takes a step has started and is not done.
LEMMA StepsOfStartedPrinters ==
  ASSUME NEW p \in Printers, PrinterStep(p)
  PROVE  ppc[p] \notin {"notStarted", "done"}
BY DEF PrinterStep, PrinterNext, GoTo,
    ReadTerminate, LeaveFromCheck, FindNoJob, BlockOnJob, WakeForJob,
    FindTooLittlePaper, RequestRefill, PaperSuffices, NotePaperWait, PaperMissing, BlockOnRefill,
    WakeForRefill, WakeToTerminate, Dequeue, StartService, FinishPrinting, DeductPaper,
    JobDeparts, ReadArrived, LeaveFromRecheck, LookForNextJob, MarkServed, NotifyExit,
    CancelRefiller

\* The printers that take steps are those that main started, so they share
\* the paper refill mutex with the refiller.
LEMMA StepsOfInitialPrinters ==
  ASSUME PlacesInv, NEW p \in Printers, PrinterStep(p)
  PROVE  p \in InitialPrinters /\ RefillMutex(p) = "paper_refill_queue"
BY StepsOfStartedPrinters DEF PlacesInv, RefillMutex

\* A printer's step, seen by the mutexes and the other printers.
LEMMA PrinterPlacesInv ==
  ASSUME TypeInv, PlacesInv, NEW p \in Printers, PrinterStep(p)
  PROVE  PlacesInv'
<1>0. /\ ppc \in [Printers -> PrinterPCs]
      /\ owner \in [Mutexes -> Printers \cup {Refiller, Scaler, NoThread}]
      /\ waiting \in [CondVars -> SUBSET (Printers \cup {Refiller})]
      /\ UNCHANGED <<fpc, mpc>> /\ mpc \in MainPCs
  BY DEF TypeInv, ThreadInv, ThreadTypes, SharedTypeOK, PrinterTypeOK, PrinterStep, refillerVars
<1>1. p \in InitialPrinters /\ RefillMutex(p) = "paper_refill_queue"
      /\ mpc \in {"joinReceiver", "joinPrinters"}
  <2>1. ppc[p] \notin {"notStarted", "done"}
    BY StepsOfStartedPrinters
  <2> QED
    BY <2>1, StepsOfInitialPrinters DEF PlacesInv
<1> USE <1>0, <1>1 DEF PlacesInv, GoTo
<1>2. CASE FindNoJob(p)
  BY <1>2 DEF FindNoJob, Acquire, Free
<1>3. CASE BlockOnJob(p)
  BY <1>3 DEF BlockOnJob, CondWait, Release
<1>4. CASE RequestRefill(p)
  BY <1>4 DEF RequestRefill, Acquire, Free, Broadcast
<1>5. CASE PaperSuffices(p)
  BY <1>5 DEF PaperSuffices, Release
<1>6. CASE PaperMissing(p)
  BY <1>6 DEF PaperMissing, sharedVars, syncVars
<1>7. CASE BlockOnRefill(p)
  BY <1>7 DEF BlockOnRefill, CondWait, Release
<1>8. CASE WakeForRefill(p)
  BY <1>8 DEF WakeForRefill, Acquire, Free
<1>9. CASE WakeForJob(p)
  BY <1>9 DEF WakeForJob, Woken, sharedVars, syncVars
<1>10. CASE NotifyExit(p)
  BY <1>10 DEF NotifyExit, Broadcast
<1>11. CASE \/ ReadTerminate(p) \/ LeaveFromCheck(p) \/ FindTooLittlePaper(p)
            \/ WakeToTerminate(p) \/ Dequeue(p) \/ StartService(p) \/ FinishPrinting(p)
            \/ DeductPaper(p) \/ JobDeparts(p) \/ ReadArrived(p) \/ LeaveFromRecheck(p)
            \/ LookForNextJob(p) \/ MarkServed(p) \/ CancelRefiller(p) \/ NotePaperWait(p)
  <2>1. UNCHANGED <<owner, waiting>>
    BY <1>11 DEF ReadTerminate, LeaveFromCheck, FindTooLittlePaper, WakeToTerminate, Dequeue,
        StartService, FinishPrinting, DeductPaper, JobDeparts, ReadArrived, LeaveFromRecheck,
        LookForNextJob, MarkServed, CancelRefiller, NotePaperWait, sharedVars, syncVars
  <2>2. /\ ppc[p] \notin {"blockOnJob", "waitForJob", "testPaper", "blockOnRefill"}
        /\ \E pc \in PrinterPCs \ {"blockOnJob", "testPaper", "blockOnRefill", "notStarted"} :
             ppc' = [ppc EXCEPT ![p] = pc]
    BY <1>11 DEF ReadTerminate, LeaveFromCheck, FindTooLittlePaper, WakeToTerminate, Dequeue,
        StartService, FinishPrinting, DeductPaper, JobDeparts, ReadArrived, LeaveFromRecheck,
        LookForNextJob, MarkServed, CancelRefiller, NotePaperWait, PrinterPCs
  <2> QED
    BY <2>1, <2>2
<1> QED
  BY <1>2, <1>3, <1>4, <1>5, <1>6, <1>7, <1>8, <1>9, <1>10, <1>11 DEF PrinterStep, PrinterNext

\* The steps of the receiver and of the catcher: they own no mutex across steps.
LEMMA BroadcastPlacesInv ==
  ASSUME TypeInv, PlacesInv, ReceiverStep \/ CatcherStep
  PROVE  PlacesInv'
<1>1. UNCHANGED <<ppc, fpc, mpc, owner>>
  BY DEF ReceiverStep, CatcherStep, ReceiverNext, CatcherNext, printerVars, refillerVars,
      Allocate, LoopEnds, ArrivalTimeElapses, ReceiverCancelled, CheckTermination,
      StopArrivals, JobArrives, Enqueue, FindQueueFull, DropJob, MarkAllArrived,
      ReceiverExits, CatchSignal, CancelThreads, DrainQueue, NotifyTermination,
      sharedVars, syncVars
<1>2. \A c \in CondVars : waiting'[c] \subseteq waiting[c]
  <2>1. CASE UNCHANGED waiting
    BY <2>1
  <2>2. CASE \E cs \in SUBSET CondVars : Broadcast(cs)
    BY <2>2 DEF Broadcast
  <2> QED
    BY <2>1, <2>2 DEF ReceiverStep, CatcherStep, ReceiverNext, CatcherNext,
      Allocate, LoopEnds, ArrivalTimeElapses, ReceiverCancelled, CheckTermination,
      StopArrivals, JobArrives, Enqueue, FindQueueFull, DropJob, MarkAllArrived,
      ReceiverExits, CatchSignal, CancelThreads, DrainQueue, NotifyTermination,
      sharedVars, syncVars
<1> QED
  BY <1>1, <1>2 DEF PlacesInv

\* The refiller's steps.
LEMMA RefillerPlacesInv ==
  ASSUME TypeInv, PlacesInv, RefillerStep
  PROVE  PlacesInv'
<1>0. /\ owner \in [Mutexes -> Printers \cup {Refiller, Scaler, NoThread}]
      /\ waiting \in [CondVars -> SUBSET (Printers \cup {Refiller})]
      /\ UNCHANGED <<ppc, mpc>>
  BY DEF TypeInv, ThreadInv, ThreadTypes, SharedTypeOK, RefillerStep, printerVars
<1> USE <1>0 DEF PlacesInv, Inspecting
<1>1. CASE RefillerExits
  BY <1>1 DEF RefillerExits, Broadcast, Woken
<1>2. CASE FindNoRequest
  BY <1>2 DEF FindNoRequest, Acquire, Free, Woken
<1>3. CASE BlockOnSupplier
  BY <1>3 DEF BlockOnSupplier, CondWait, Release
<1>4. CASE TakeRequest
  BY <1>4 DEF TakeRequest, Woken, syncVars
<1>5. CASE NotifyRefilled
  BY <1>5 DEF NotifyRefilled, Broadcast
<1>6. CASE \/ FindPrinterFull \/ MeasureRefill \/ RefillTimeElapses
           \/ RefillerCancelled \/ ReadCount \/ WriteCount \/ NoteRefill
  <2>1. /\ UNCHANGED <<owner, waiting>>
        /\ fpc \notin {"waitForRequest", "done", "cancelled"} /\ fpc' # "blockOnSupplier"
    BY <1>6 DEF FindPrinterFull, MeasureRefill, RefillTimeElapses, RefillerCancelled,
         ReadCount, WriteCount, NoteRefill, sharedVars, syncVars
  <2> QED
    BY <2>1
<1> QED
  BY <1>1, <1>2, <1>3, <1>4, <1>5, <1>6 DEF RefillerStep, RefillerNext

\* main's joins, spurious wakeups, and the end.
LEMMA OtherPlacesInv ==
  ASSUME TypeInv, PlacesInv, MainStep \/ WakeupStep \/ UNCHANGED vars
  PROVE  PlacesInv'
<1>1. CASE MainStep
  <2>1. UNCHANGED <<ppc, fpc, owner, waiting>>
    BY <1>1 DEF MainStep, sharedVars, syncVars, printerVars, refillerVars
  <2> QED
    BY <1>1, <2>1 DEF PlacesInv, MainStep, MainNext, JoinReceiver, JoinPrinters, JoinRefiller,
         CancelCatcher, JoinCatcher
<1>2. CASE WakeupStep
  <2>1. /\ UNCHANGED <<ppc, fpc, mpc, owner>>
        /\ \A c \in CondVars : waiting'[c] \subseteq waiting[c]
    BY <1>2 DEF WakeupStep, SpuriousWakeup, printerVars, refillerVars, TypeInv, ThreadInv,
                ThreadTypes,
         SharedTypeOK
  <2> QED
    BY <2>1 DEF PlacesInv
<1>3. CASE UNCHANGED vars
  BY <1>3 DEF PlacesInv, vars, sharedVars, syncVars, printerVars, refillerVars
<1> QED
  BY <1>1, <1>2, <1>3

\* PlacesInv is inductive, given the types.
LEMMA NextPlacesInv == TypeInv /\ PlacesInv /\ [Next]_vars => PlacesInv'
BY PrinterPlacesInv, BroadcastPlacesInv, RefillerPlacesInv, OtherPlacesInv DEF Next, Stop

\* A thread between its test and its wait owns the mutex, and a thread blocked
\* on a condition variable is at the wait for it.
THEOREM PlacesInvariant == Spec => []PlacesInv
<1>1. Init /\ [][Next]_vars /\ []TypeInv => []PlacesInv
  BY InitPlacesInv, NextPlacesInv, PTL
<1> QED
  BY <1>1, TypeCorrect, PTL DEF Spec

-----------------------------------------------------------------------------
(* Sleeping printers *)

\* At the start nobody sleeps and no flag is set.
LEMMA InitSleepInv == Init => JobSleepInv /\ RequestSleepInv /\ LeaveInv
BY PrintersAssumption
DEF Init, SharedInit, PrinterInit, RefillerInit, JobSleepInv, SleepsForJob, RequestSleepInv,
    SleepsForRequest, LeaveInv, Leaving

\* While a printer is between its test of the queue and its wait, nobody else
\* takes the job queue mutex.
LEMMA BlockOnJobExcludes ==
  ASSUME TypeInv, PlacesInv, Free("job_queue")
  PROVE  \A p \in Printers : ppc[p] # "blockOnJob"
BY DEF PlacesInv, Free

\* A printer only sleeps after it found the queue empty and arrivals going on.
LEMMA PrinterJobSleepInv ==
  ASSUME TypeInv, PlacesInv, JobSleepInv, NEW p \in Printers, PrinterStep(p)
  PROVE  JobSleepInv'
<1>0. /\ ppc \in [Printers -> PrinterPCs]
      /\ waiting \in [CondVars -> SUBSET (Printers \cup {Refiller})]
      /\ jobQueue \in Seq(Jobs)
      /\ UNCHANGED <<rpc, spc>>
  BY DEF TypeInv, ThreadInv, ThreadTypes, SharedTypeOK, PrinterTypeOK, PrinterStep, receiverVars
<1>1. UNCHANGED allJobsArrived
  BY DEF PrinterStep, PrinterNext,
      ReadTerminate, LeaveFromCheck, FindNoJob, BlockOnJob, WakeForJob,
      FindTooLittlePaper, RequestRefill, PaperSuffices, NotePaperWait, PaperMissing, BlockOnRefill,
      WakeForRefill, WakeToTerminate, Dequeue, StartService, FinishPrinting, DeductPaper,
      JobDeparts, ReadArrived, LeaveFromRecheck, LookForNextJob, MarkServed, NotifyExit,
      CancelRefiller, sharedVars, flagVars
<1>2. CASE FindNoJob(p)
  BY <1>0, <1>1, <1>2 DEF FindNoJob, MayLeave, JobSleepInv, queueVars
<1>3. CASE BlockOnJob(p)
  <2>1. SleepsForJob /\ UNCHANGED jobQueue
    BY <1>3 DEF BlockOnJob, GoTo, SleepsForJob, queueVars
  <2> QED
    BY <1>0, <1>1, <2>1 DEF JobSleepInv
<1>4. CASE ~(FindNoJob(p) \/ BlockOnJob(p))
  <2>1. /\ waiting'["job_queue_not_empty"] \subseteq waiting["job_queue_not_empty"]
        /\ \A q \in Printers : ppc'[q] = "blockOnJob" => ppc[q] = "blockOnJob"
        /\ jobQueue' = jobQueue \/ (Dequeue(p) /\ jobQueue # <<>>)
    BY <1>0, <1>4 DEF PrinterStep, PrinterNext, GoTo,
        ReadTerminate, LeaveFromCheck, WakeForJob,
        FindTooLittlePaper, RequestRefill, PaperSuffices, NotePaperWait, PaperMissing, BlockOnRefill,
        WakeForRefill, WakeToTerminate, Dequeue, StartService, FinishPrinting, DeductPaper,
        JobDeparts, ReadArrived, LeaveFromRecheck, LookForNextJob, MarkServed, NotifyExit,
        CancelRefiller, sharedVars, syncVars, queueVars, Broadcast, CondWait
  <2> QED
    BY <1>0, <1>1, <2>1 DEF JobSleepInv, SleepsForJob
<1> QED
  BY <1>2, <1>3, <1>4

\* The receiver wakes every printer when it queues a job and when it ends.
LEMMA ReceiverJobSleepInv ==
  ASSUME TypeInv, PlacesInv, JobSleepInv, ReceiverStep
  PROVE  JobSleepInv'
<1>0. UNCHANGED <<ppc, spc>>
  BY DEF ReceiverStep, printerVars
<1>1. CASE Enqueue \/ ReceiverExits
  <2>1. ~SleepsForJob'
    BY <1>0, <1>1, BlockOnJobExcludes DEF Enqueue, ReceiverExits, Broadcast, SleepsForJob
  <2> QED
    BY <2>1 DEF JobSleepInv
<1>2. CASE ~(Enqueue \/ ReceiverExits)
  <2>1. /\ UNCHANGED <<jobQueue, waiting>>
        /\ rpc = "broadcast" => rpc' = "broadcast"
        /\ rpc = "markArrived" => rpc' = "broadcast"
        /\ allJobsArrived' => allJobsArrived \/ rpc' \in {"markArrived", "broadcast"}
    BY <1>2 DEF ReceiverStep, ReceiverNext, Allocate, LoopEnds, ArrivalTimeElapses,
        ReceiverCancelled, CheckTermination, StopArrivals, JobArrives, FindQueueFull, DropJob,
        MarkAllArrived, sharedVars, syncVars, queueVars, flagVars
  <2> QED
    BY <1>0, <2>1 DEF JobSleepInv, SleepsForJob
<1> QED
  BY <1>1, <1>2

\* The catcher sets the flag first and wakes every printer afterwards.
LEMMA CatcherJobSleepInv ==
  ASSUME TypeInv, PlacesInv, JobSleepInv, CatcherStep
  PROVE  JobSleepInv'
<1>0. UNCHANGED <<ppc, rpc>>
  BY DEF CatcherStep, printerVars, receiverVars
<1>1. CASE DrainQueue
  <2>1. ~SleepsForJob'
    BY <1>0, <1>1, BlockOnJobExcludes DEF DrainQueue, MayDrain, Broadcast, SleepsForJob
  <2> QED
    BY <2>1 DEF JobSleepInv
<1>2. CASE CatchSignal \/ CancelThreads
  BY <1>0, <1>2 DEF CatchSignal, CancelThreads, JobSleepInv, SleepsForJob, queueVars, syncVars,
      flagVars
<1>3. CASE NotifyTermination
  BY <1>0, <1>3 DEF NotifyTermination, Broadcast, JobSleepInv, SleepsForJob, queueVars, flagVars
<1> QED
  BY <1>1, <1>2, <1>3 DEF CatcherStep, CatcherNext

\* The refiller, main and spurious wakeups put no printer to sleep; when main
\* cancels the catcher, no printer is left to be woken by it.
LEMMA OtherJobSleepInv ==
  ASSUME TypeInv, PlacesInv, JobSleepInv,
         RefillerStep \/ MainStep \/ WakeupStep \/ UNCHANGED vars
  PROVE  JobSleepInv'
<1>1. /\ UNCHANGED <<jobQueue, allJobsArrived, rpc, ppc>>
      /\ waiting'["job_queue_not_empty"] \subseteq waiting["job_queue_not_empty"]
  BY DEF TypeInv, ThreadInv, ThreadTypes, SharedTypeOK, RefillerStep, RefillerNext, RefillerExits,
         FindNoRequest,
      BlockOnSupplier, TakeRequest, FindPrinterFull, MeasureRefill, RefillTimeElapses,
      RefillerCancelled, ReadCount, WriteCount, NoteRefill, NotifyRefilled, Broadcast, CondWait,
      MainStep, WakeupStep, SpuriousWakeup, vars, sharedVars, queueVars, syncVars, flagVars,
      receiverVars, printerVars
<1>2. CASE UNCHANGED spc
  BY <1>1, <1>2 DEF JobSleepInv, SleepsForJob
<1>3. CASE CancelCatcher
  <2>1. ~SleepsForJob'
    BY <1>1, <1>3 DEF CancelCatcher, PlacesInv, SleepsForJob
  <2> QED
    BY <2>1 DEF JobSleepInv
<1> QED
  BY <1>2, <1>3 DEF RefillerStep, MainStep, MainNext, JoinReceiver, JoinPrinters, JoinRefiller,
      JoinCatcher, WakeupStep, vars

\* JobSleepInv is inductive, given the types and the places.
LEMMA NextJobSleepInv == TypeInv /\ PlacesInv /\ JobSleepInv /\ [Next]_vars => JobSleepInv'
BY PrinterJobSleepInv, ReceiverJobSleepInv, CatcherJobSleepInv, OtherJobSleepInv DEF Next, Stop

\* No printer ever sleeps through a job, nor through the end of the arrivals.
THEOREM NoLostJobWakeupHolds == Spec => []NoLostJobWakeup
<1>1. Init /\ [][Next]_vars /\ []TypeInv /\ []PlacesInv => []JobSleepInv
  BY InitSleepInv, NextJobSleepInv, PTL
<1>2. JobSleepInv => NoLostJobWakeup
  BY DEF JobSleepInv, SleepsForJob, NoLostJobWakeup
<1> QED
  BY <1>1, <1>2, TypeCorrect, PlacesInvariant, PTL DEF Spec

-----------------------------------------------------------------------------
(* The sleeping refiller *)

\* A printer wakes the refiller when it queues a request and when it leaves.
LEMMA PrinterRequestSleepInv ==
  ASSUME TypeInv, PlacesInv, RequestSleepInv, NEW p \in Printers, PrinterStep(p)
  PROVE  RequestSleepInv'
<1>0. /\ ppc \in [Printers -> PrinterPCs]
      /\ waiting \in [CondVars -> SUBSET (Printers \cup {Refiller})]
      /\ UNCHANGED <<fpc, spc>> /\ RefillMutex(p) = "paper_refill_queue"
  BY StepsOfInitialPrinters
  DEF TypeInv, ThreadInv, ThreadTypes, SharedTypeOK, PrinterTypeOK, PrinterStep, refillerVars
<1>1. CASE RequestRefill(p) \/ NotifyExit(p)
  <2>1. Free("paper_refill_queue") /\ waiting'["refill_supplier"] = {}
    BY <1>0, <1>1 DEF RequestRefill, NotifyExit, Acquire, Broadcast
  <2>2. ~SleepsForRequest'
    BY <1>0, <2>1 DEF PlacesInv, SleepsForRequest, Free
  <2> QED
    BY <2>2 DEF RequestSleepInv
<1>2. CASE MarkServed(p)
  <2>1. /\ UNCHANGED <<refillQueue, waiting, terminateNow>>
        /\ ppc'[p] = "notify"
    BY <1>0, <1>2 DEF MarkServed, GoTo, syncVars
  <2> QED
    BY <1>0, <2>1 DEF RequestSleepInv, SleepsForRequest
<1>3. CASE ~(RequestRefill(p) \/ NotifyExit(p) \/ MarkServed(p))
  <2>1. /\ UNCHANGED <<refillQueue, terminateNow, allJobsServed>>
        /\ Refiller \in waiting'["refill_supplier"] => Refiller \in waiting["refill_supplier"]
        /\ \A q \in Printers : ppc[q] = "notify" => ppc'[q] = "notify"
    BY <1>0, <1>3 DEF PrinterStep, PrinterNext, GoTo,
        ReadTerminate, LeaveFromCheck, FindNoJob, BlockOnJob, WakeForJob,
        FindTooLittlePaper, PaperSuffices, NotePaperWait, PaperMissing, BlockOnRefill,
        WakeForRefill, WakeToTerminate, Dequeue, StartService, FinishPrinting, DeductPaper,
        JobDeparts, ReadArrived, LeaveFromRecheck, LookForNextJob,
        CancelRefiller, sharedVars, syncVars, flagVars, CondWait
  <2> QED
    BY <1>0, <2>1 DEF RequestSleepInv, SleepsForRequest
<1> QED
  BY <1>1, <1>2, <1>3

\* The refiller only sleeps after it found no request and no reason to exit.
LEMMA RefillerRequestSleepInv ==
  ASSUME TypeInv, PlacesInv, RequestSleepInv, RefillerStep
  PROVE  RequestSleepInv'
<1>0. UNCHANGED <<ppc, spc, terminateNow, allJobsServed>>
  BY DEF RefillerStep, printerVars, RefillerNext, RefillerExits, FindNoRequest,
      BlockOnSupplier, TakeRequest, FindPrinterFull, MeasureRefill, RefillTimeElapses,
      RefillerCancelled, ReadCount, WriteCount, NoteRefill, NotifyRefilled, sharedVars, flagVars
<1>1. CASE FindNoRequest
  BY <1>0, <1>1 DEF FindNoRequest, RequestSleepInv
<1>2. CASE BlockOnSupplier
  BY <1>0, <1>2 DEF BlockOnSupplier, RequestSleepInv, SleepsForRequest
<1>3. CASE ~(FindNoRequest \/ BlockOnSupplier)
  <2>1. /\ fpc' # "blockOnSupplier"
        /\ Refiller \notin waiting["refill_supplier"]
        /\ waiting'["refill_supplier"] = waiting["refill_supplier"]
    BY <1>3 DEF PlacesInv, Inspecting, Woken, RefillerStep, RefillerNext, RefillerExits,
        TakeRequest, FindPrinterFull, MeasureRefill, RefillTimeElapses,
        RefillerCancelled, ReadCount, WriteCount, NoteRefill, NotifyRefilled, Broadcast,
        sharedVars, syncVars
  <2> QED
    BY <2>1 DEF RequestSleepInv, SleepsForRequest
<1> QED
  BY <1>1, <1>2, <1>3

\* The catcher sets the flag first and wakes the refiller afterwards.
LEMMA CatcherRequestSleepInv ==
  ASSUME TypeInv, PlacesInv, RequestSleepInv, CatcherStep
  PROVE  RequestSleepInv'
<1>0. UNCHANGED <<ppc, fpc, refillQueue, allJobsServed>>
  BY DEF CatcherStep, CatcherNext, CatchSignal, CancelThreads, DrainQueue, NotifyTermination,
      printerVars, refillerVars, flagVars
<1>1. CASE NotifyTermination
  <2>1. ~SleepsForRequest'
    BY <1>0, <1>1 DEF NotifyTermination, Broadcast, PlacesInv, SleepsForRequest, Free
  <2> QED
    BY <2>1 DEF RequestSleepInv
<1>2. CASE CatchSignal \/ CancelThreads \/ DrainQueue
  <2>1. /\ waiting'["refill_supplier"] = waiting["refill_supplier"]
        /\ spc' \in {"cancel", "drain", "notify"}
    BY <1>2 DEF CatchSignal, CancelThreads, DrainQueue, Broadcast, syncVars
  <2> QED
    BY <1>0, <2>1 DEF RequestSleepInv, SleepsForRequest
<1> QED
  BY <1>1, <1>2 DEF CatcherStep, CatcherNext

\* The receiver, main and spurious wakeups do not put the refiller to sleep;
\* when main cancels the catcher, the refiller is over.
LEMMA OtherRequestSleepInv ==
  ASSUME TypeInv, PlacesInv, RequestSleepInv,
         ReceiverStep \/ MainStep \/ WakeupStep \/ UNCHANGED vars
  PROVE  RequestSleepInv'
<1>1. /\ UNCHANGED <<refillQueue, terminateNow, allJobsServed, ppc, fpc>>
      /\ waiting'["refill_supplier"] \subseteq waiting["refill_supplier"]
  BY DEF TypeInv, ThreadInv, ThreadTypes, SharedTypeOK, ReceiverStep, ReceiverNext, Allocate,
         LoopEnds,
      ArrivalTimeElapses, ReceiverCancelled, CheckTermination, StopArrivals, JobArrives,
      Enqueue, FindQueueFull, DropJob, MarkAllArrived, ReceiverExits, Broadcast,
      MainStep, WakeupStep, SpuriousWakeup, vars, sharedVars, syncVars, flagVars,
      printerVars, refillerVars
<1>2. CASE UNCHANGED spc
  BY <1>1, <1>2 DEF RequestSleepInv, SleepsForRequest
<1>3. CASE CancelCatcher
  <2>1. ~SleepsForRequest'
    BY <1>1, <1>3 DEF CancelCatcher, PlacesInv, SleepsForRequest
  <2> QED
    BY <2>1 DEF RequestSleepInv
<1> QED
  BY <1>2, <1>3 DEF ReceiverStep, MainStep, MainNext, JoinReceiver, JoinPrinters, JoinRefiller,
      JoinCatcher, WakeupStep, vars

\* RequestSleepInv is inductive, given the types and the places.
LEMMA NextRequestSleepInv ==
  TypeInv /\ PlacesInv /\ RequestSleepInv /\ [Next]_vars => RequestSleepInv'
BY PrinterRequestSleepInv, RefillerRequestSleepInv, CatcherRequestSleepInv, OtherRequestSleepInv
DEF Next, Stop

\* The refiller never sleeps through a request, nor through its reason to exit.
THEOREM NoLostRefillRequestHolds == Spec => []NoLostRefillRequest
<1>1. Init /\ [][Next]_vars /\ []TypeInv /\ []PlacesInv => []RequestSleepInv
  BY InitSleepInv, NextRequestSleepInv, PTL
<1>2. RequestSleepInv => NoLostRefillRequest
  BY DEF RequestSleepInv, SleepsForRequest, NoLostRefillRequest
<1> QED
  BY <1>1, <1>2, TypeCorrect, PlacesInvariant, PTL DEF Spec

-----------------------------------------------------------------------------
(* Printers that leave *)

\* A printer leaves for a reason that stays true.
LEMMA PrinterLeaveInv ==
  ASSUME TypeInv, LeaveInv, NEW p \in Printers, PrinterStep(p)
  PROVE  LeaveInv'
<1>0. /\ ppc \in [Printers -> PrinterPCs] /\ flagSeen \in [Printers -> BOOLEAN]
      /\ UNCHANGED <<rpc, terminateNow, allJobsArrived>>
  BY DEF TypeInv, ThreadInv, ThreadTypes, PrinterTypeOK, PrinterStep, receiverVars, PrinterNext,
      ReadTerminate, LeaveFromCheck, FindNoJob, BlockOnJob, WakeForJob,
      FindTooLittlePaper, RequestRefill, PaperSuffices, NotePaperWait, PaperMissing, BlockOnRefill,
      WakeForRefill, WakeToTerminate, Dequeue, StartService, FinishPrinting, DeductPaper,
      JobDeparts, ReadArrived, LeaveFromRecheck, LookForNextJob, MarkServed, NotifyExit,
      CancelRefiller, sharedVars, flagVars
<1> USE <1>0 DEF LeaveInv, Leaving, GoTo
<1>1. CASE ReadTerminate(p) \/ ReadArrived(p)
  <2>1. /\ UNCHANGED <<jobQueue, allJobsServed>>
        /\ ~Leaving(p) /\ ~Leaving(p)'
        /\ \A q \in Printers \ {p} : ppc'[q] = ppc[q] /\ flagSeen'[q] = flagSeen[q]
        /\ ppc'[p] = "checkQueue" /\ flagSeen'[p] => terminateNow
        /\ ppc'[p] = "recheck" /\ flagSeen'[p] => allJobsArrived
    BY <1>1 DEF ReadTerminate, ReadArrived, sharedVars, queueVars, flagVars
  <2> QED
    BY <2>1
<1>2. CASE LeaveFromCheck(p) \/ LeaveFromRecheck(p)
  BY <1>2 DEF LeaveFromCheck, LeaveFromRecheck, MayLeave, Forget, sharedVars, queueVars, flagVars
<1>3. CASE WakeToTerminate(p)
  BY <1>3 DEF WakeToTerminate, sharedVars, queueVars, flagVars
<1>4. CASE Dequeue(p)
  <2>1. \A q \in Printers : Leaving(q) => terminateNow
    BY <1>4 DEF Dequeue
  <2> QED
    BY <1>4, <2>1 DEF Dequeue, flagVars
<1>5. CASE MarkServed(p) \/ NotifyExit(p) \/ CancelRefiller(p)
  BY <1>5 DEF MarkServed, NotifyExit, CancelRefiller, queueVars, flagVars
<1>6. CASE ~(\/ ReadTerminate(p) \/ ReadArrived(p) \/ LeaveFromCheck(p) \/ LeaveFromRecheck(p)
             \/ WakeToTerminate(p) \/ Dequeue(p) \/ MarkServed(p) \/ NotifyExit(p)
             \/ CancelRefiller(p))
  <2>1. /\ UNCHANGED <<jobQueue, allJobsServed>>
        /\ ~Leaving(p)
        /\ \E pc \in PrinterPCs \ {"checkQueue", "recheck", "markServed", "notify",
                                   "cancelRefiller", "done"} : ppc' = [ppc EXCEPT ![p] = pc]
        /\ \A q \in Printers \ {p} : flagSeen'[q] = flagSeen[q]
    BY <1>6 DEF PrinterStep, PrinterNext,
        FindNoJob, BlockOnJob, WakeForJob, FindTooLittlePaper, RequestRefill, PaperSuffices,
        NotePaperWait, PaperMissing, BlockOnRefill, WakeForRefill, StartService, FinishPrinting, DeductPaper,
        JobDeparts, LookForNextJob, Forget, sharedVars, queueVars, flagVars, PrinterPCs
  <2> QED
    BY <2>1
<1> QED
  BY <1>1, <1>2, <1>3, <1>4, <1>5, <1>6

\* Once the arrivals are over, only a SIGINT lets the receiver offer a job.
LEMMA ReceiverLeaveInv ==
  ASSUME LeaveInv, ReceiverStep
  PROVE  LeaveInv'
<1>0. UNCHANGED <<ppc, flagSeen, terminateNow, allJobsServed>>
  BY DEF ReceiverStep, printerVars, ReceiverNext, Allocate, LoopEnds, ArrivalTimeElapses,
      ReceiverCancelled, CheckTermination, StopArrivals, JobArrives, Enqueue, FindQueueFull,
      DropJob, MarkAllArrived, ReceiverExits, sharedVars, flagVars
<1> USE <1>0 DEF LeaveInv, Leaving
<1>1. CASE StopArrivals \/ MarkAllArrived
  BY <1>1 DEF StopArrivals, MarkAllArrived, queueVars
<1>2. CASE Enqueue
  BY <1>2 DEF Enqueue, flagVars
<1>3. CASE ~(StopArrivals \/ MarkAllArrived \/ Enqueue)
  <2>1. /\ UNCHANGED <<jobQueue, allJobsArrived>>
        /\ rpc \in {"markArrived", "broadcast", "done"} => rpc' \in {"broadcast", "done"}
    BY <1>3 DEF ReceiverStep, ReceiverNext, Allocate, LoopEnds, ArrivalTimeElapses,
        ReceiverCancelled, CheckTermination, JobArrives, FindQueueFull, DropJob,
        ReceiverExits, sharedVars, queueVars, flagVars
  <2> QED
    BY <2>1
<1> QED
  BY <1>1, <1>2, <1>3

\* The catcher sets both flags at once and only empties the queue; nobody else
\* touches the flags or the queue.
LEMMA OtherLeaveInv ==
  ASSUME LeaveInv, RefillerStep \/ CatcherStep \/ MainStep \/ WakeupStep \/ UNCHANGED vars
  PROVE  LeaveInv'
<1>1. CASE CatcherStep
  <2>1. /\ UNCHANGED <<ppc, flagSeen, rpc, allJobsServed>>
        /\ jobQueue' \in {jobQueue, <<>>}
        /\ \/ UNCHANGED <<terminateNow, allJobsArrived>>
           \/ terminateNow' /\ allJobsArrived'
    BY <1>1 DEF CatcherStep, CatcherNext, CatchSignal, CancelThreads, DrainQueue,
        NotifyTermination, printerVars, receiverVars, queueVars, flagVars
  <2> QED
    BY <2>1 DEF LeaveInv, Leaving
<1>2. CASE RefillerStep \/ MainStep \/ WakeupStep \/ UNCHANGED vars
  <2>1. UNCHANGED <<ppc, flagSeen, rpc, allJobsServed, jobQueue, terminateNow, allJobsArrived>>
    BY <1>2 DEF RefillerStep, RefillerNext, RefillerExits, FindNoRequest,
        BlockOnSupplier, TakeRequest, FindPrinterFull, MeasureRefill, RefillTimeElapses,
        RefillerCancelled, ReadCount, WriteCount, NoteRefill, NotifyRefilled, MainStep, WakeupStep,
        SpuriousWakeup, vars, sharedVars, queueVars, flagVars, receiverVars, printerVars
  <2> QED
    BY <2>1 DEF LeaveInv, Leaving
<1> QED
  BY <1>1, <1>2

\* LeaveInv is inductive, given the types.
LEMMA NextLeaveInv == TypeInv /\ LeaveInv /\ [Next]_vars => LeaveInv'
BY PrinterLeaveInv, ReceiverLeaveInv, OtherLeaveInv DEF Next, Stop

\* Without SIGINT, all_jobs_served is only set once the arrivals are over and
\* the queue is empty, for good.
THEOREM NoWorkLeftWhenServedHolds == Spec => []NoWorkLeftWhenServed
<1>1. Init /\ [][Next]_vars /\ []TypeInv => []LeaveInv
  BY InitSleepInv, NextLeaveInv, PTL
<1>2. LeaveInv => NoWorkLeftWhenServed
  BY DEF LeaveInv, NoWorkLeftWhenServed
<1> QED
  BY <1>1, <1>2, TypeCorrect, PTL DEF Spec

-----------------------------------------------------------------------------
(* The end of a run without SIGINT                                            *)

\* As long as nobody sent SIGINT the receiver is not cancelled and every job it
\* passed has arrived.
ArrivalInv ==
  ~terminateNow =>
    /\ "job_receiver" \notin cancelled /\ rpc # "cancelled"
    /\ spc \in {"sigwait", "cancelled"}
    /\ stats.removed = 0
    /\ stats.arrived = IF rpc \in {"sleep", "check", "arrive"} THEN jobId - 1 ELSE jobId
    /\ rpc \in {"markArrived", "broadcast", "done"} => jobId = NumJobs

\* Main starts the initial printers before anything else, and no printer goes back.
StartedInv == \A p \in InitialPrinters : p \in Printers /\ ppc[p] # "notStarted"

LEMMA ReceiverArrivalInv == ASSUME TypeInv, ArrivalInv, ReceiverStep PROVE ArrivalInv'
<1>0. /\ UNCHANGED <<terminateNow, spc, cancelled>>
      /\ stats \in Statistics /\ jobId \in 0..NumJobs /\ NumJobs \in Nat
  BY ParametersAssumption
  DEF ReceiverStep, ReceiverNext, Allocate, LoopEnds, ArrivalTimeElapses, ReceiverCancelled,
      CheckTermination, StopArrivals, JobArrives, Enqueue, FindQueueFull, DropJob, MarkAllArrived,
      ReceiverExits, sharedVars, syncVars, flagVars, TypeInv, ThreadInv, ThreadTypes, SharedTypeOK,
      ReceiverTypeOK
<1>1. CASE terminateNow BY <1>0, <1>1 DEF ArrivalInv
<1>2. CASE ~terminateNow
  <2>1. ReceiverNext /\ ~ReceiverCancelled /\ ~StopArrivals
    BY <1>2 DEF ReceiverStep, ReceiverCancelled, StopArrivals, ArrivalInv
  <2>2. CASE JobArrives \/ DropJob \/ Enqueue
    BY <1>0, <1>2, <2>2 DEF JobArrives, DropJob, Enqueue, ArrivalInv, Statistics
  <2>3. CASE \/ Allocate \/ LoopEnds \/ ArrivalTimeElapses \/ CheckTermination \/ FindQueueFull
             \/ MarkAllArrived \/ ReceiverExits
    BY <1>0, <1>2, <2>3
    DEF Allocate, LoopEnds, ArrivalTimeElapses, CheckTermination, FindQueueFull, MarkAllArrived,
        ReceiverExits, sharedVars, ArrivalInv
  <2> QED BY <2>1, <2>2, <2>3 DEF ReceiverNext
<1> QED BY <1>1, <1>2

LEMMA PrinterArrivalInv ==
  ASSUME TypeInv, ArrivalInv, StartedInv, NEW p \in Printers, PrinterStep(p)
  PROVE  ArrivalInv' /\ StartedInv'
<1>0. /\ stats \in Statistics /\ cancelled \in SUBSET Cancellable
      /\ ppc \in [Printers -> PrinterPCs]
  BY DEF TypeInv, ThreadInv, ThreadTypes, SharedTypeOK, PrinterTypeOK
<1>1. /\ UNCHANGED <<terminateNow, rpc, jobId, spc>>
      /\ stats'.arrived = stats.arrived /\ stats'.removed = stats.removed
      /\ "job_receiver" \in cancelled' => "job_receiver" \in cancelled
  BY <1>0
  DEF PrinterStep, PrinterNext, ReadTerminate, LeaveFromCheck, FindNoJob, BlockOnJob, WakeForJob,
      FindTooLittlePaper, RequestRefill, PaperSuffices, NotePaperWait, PaperMissing, BlockOnRefill,
      WakeForRefill, WakeToTerminate, Dequeue, StartService, FinishPrinting, DeductPaper,
      JobDeparts, ReadArrived, LeaveFromRecheck, LookForNextJob, MarkServed, NotifyExit,
      CancelRefiller, sharedVars, syncVars, flagVars, receiverVars, Statistics
<1>2. /\ \A q \in Printers \ {p} : ppc'[q] = ppc[q]
      /\ ppc'[p] # "notStarted"
  BY <1>0
  DEF PrinterStep, PrinterNext, ReadTerminate, LeaveFromCheck, FindNoJob, BlockOnJob, WakeForJob,
      FindTooLittlePaper, RequestRefill, PaperSuffices, NotePaperWait, PaperMissing, BlockOnRefill,
      WakeForRefill, WakeToTerminate, Dequeue, StartService, FinishPrinting, DeductPaper,
      JobDeparts, ReadArrived, LeaveFromRecheck, LookForNextJob, MarkServed, NotifyExit,
      CancelRefiller, GoTo
<1>3. ArrivalInv' BY <1>1 DEF ArrivalInv
<1>4. StartedInv' BY <1>2 DEF StartedInv
<1> QED BY <1>3, <1>4

LEMMA OtherArrivalInv ==
  ASSUME ArrivalInv, RefillerStep \/ CatcherStep \/ MainStep \/ WakeupStep \/ UNCHANGED vars
  PROVE  ArrivalInv'
<1>1. CASE CatcherStep
  BY <1>1 DEF CatcherStep, CatcherNext, CatchSignal, CancelThreads, DrainQueue, NotifyTermination,
              flagVars, ArrivalInv
<1>2. CASE RefillerStep \/ MainStep \/ WakeupStep \/ UNCHANGED vars
  <2>1. /\ UNCHANGED <<terminateNow, rpc, jobId, stats, cancelled>>
        /\ spc' \in {spc, "cancelled"}
    BY <1>2
    DEF RefillerStep, RefillerNext, RefillerExits, FindNoRequest, BlockOnSupplier, TakeRequest,
        FindPrinterFull, MeasureRefill, RefillTimeElapses, RefillerCancelled, ReadCount, WriteCount,
        NoteRefill, NotifyRefilled, MainStep, MainNext, JoinReceiver, JoinPrinters, JoinRefiller,
        CancelCatcher, JoinCatcher, WakeupStep, SpuriousWakeup, vars, sharedVars, syncVars,
        flagVars, receiverVars
  <2> QED BY <2>1 DEF ArrivalInv
<1> QED BY <1>1, <1>2

\* Nobody but a printer moves a printer.
LEMMA OtherStartedInv ==
  ASSUME StartedInv,
         ReceiverStep \/ RefillerStep \/ CatcherStep \/ MainStep \/ WakeupStep \/ UNCHANGED vars
  PROVE  StartedInv'
<1>1. UNCHANGED ppc
  BY DEF ReceiverStep, RefillerStep, CatcherStep, MainStep, WakeupStep, vars, printerVars
<1> QED BY <1>1 DEF StartedInv

\* Main has started the initial printers, and no job has arrived.
LEMMA InitArrivalInv == Init => ArrivalInv /\ StartedInv
BY PrintersAssumption, ParametersAssumption
DEF Init, SharedInit, ReceiverInit, PrinterInit, CatcherInit, ArrivalInv, StartedInv,
    NoStatistics, InitialPrinters

\* Both are inductive, given the types.
LEMMA NextArrivalInv ==
  TypeInv /\ ArrivalInv /\ StartedInv /\ [Next]_vars => ArrivalInv' /\ StartedInv'
BY ReceiverArrivalInv, PrinterArrivalInv, OtherArrivalInv, OtherStartedInv DEF Next, Stop

\* Main reports after it joined every printer; the first printer has left, and it
\* left when the arrivals were over and the queue was empty for good.
LEMMA EndIsComplete ==
  ASSUME TypeInv, PlacesInv, LeaveInv, ArrivalInv, StartedInv, JobOwnership, JobConservation,
         Terminated, ~terminateNow
  PROVE  /\ stats.arrived = NumJobs
         /\ stats.served + stats.dropped = NumJobs
         /\ Live = {} /\ jobQueue = <<>>
<1>1. \A p \in Printers : ppc[p] \in {"done", "notStarted"}
  BY DEF Terminated, PlacesInv
<1>2. 1 \in InitialPrinters BY PrintersAssumption DEF InitialPrinters
<1>3. 1 \in Printers /\ ppc[1] = "done" BY <1>1, <1>2 DEF StartedInv
<1>4. allJobsArrived /\ jobQueue = <<>> BY <1>3 DEF LeaveInv, Leaving
<1>5. rpc \in {"markArrived", "broadcast", "done"} BY <1>4 DEF LeaveInv
<1>6. stats.arrived = NumJobs /\ stats.removed = 0 BY <1>5 DEF ArrivalInv
<1>7. BeingServed = {} BY <1>1 DEF BeingServed, Serving
<1>8. Queued = {} /\ ~ReceiverHolds BY <1>4, <1>5 DEF Queued, ReceiverHolds
<1>9. Live = {} BY <1>7, <1>8 DEF JobOwnership
<1>10. stats.served + stats.dropped = NumJobs
  <2>1. Len(jobQueue) = 0 /\ Cardinality(BeingServed) = 0 BY <1>4, <1>7, FS_EmptySet
  <2>2. stats.served \in Nat /\ stats.dropped \in Nat BY DEF TypeInv, ThreadInv, ThreadTypes,
                                                             SharedTypeOK, Statistics
  <2> QED BY <1>5, <1>6, <2>1, <2>2 DEF JobConservation
<1> QED BY <1>4, <1>6, <1>9, <1>10

\* A run that ends without SIGINT has printed or dropped every job, freed every
\* job and reported numbers that add up, for any number of threads and jobs.
THEOREM CompleteAtEndHolds == Spec => []CompleteAtEnd
<1>1. Init => ArrivalInv /\ StartedInv
  BY InitArrivalInv
<1>2. TypeInv /\ ArrivalInv /\ StartedInv /\ [Next]_vars => ArrivalInv' /\ StartedInv'
  BY NextArrivalInv
<1>3. Init /\ [][Next]_vars /\ []TypeInv => []LeaveInv
  BY InitSleepInv, NextLeaveInv, PTL
<1>4. TypeInv /\ PlacesInv /\ LeaveInv /\ ArrivalInv /\ StartedInv /\ JobOwnership /\ JobConservation
        => CompleteAtEnd
  BY EndIsComplete DEF CompleteAtEnd
<1> QED
  BY <1>1, <1>2, <1>3, <1>4, TypeCorrect, PlacesInvariant, OwnershipHolds, JobConservationHolds, PTL
  DEF Spec
-----------------------------------------------------------------------------
(* Printers asleep for paper, while neither flag that ends the refiller is set *)

Running == ~terminateNow /\ ~allJobsServed

\* The refiller is at work on p and will leave it full.
RefillWillDo(p) ==
  /\ refilling = p
  /\ \/ fpc = "measure"
     \/ fpc \in {"sleep", "readCount"} /\ paper[p] + papersNeeded = PaperCapacity
     \/ fpc = "writeCount" /\ countRead + papersNeeded = PaperCapacity

\* A printer that sleeps on refill_needed, or is about to.
SleepsForPaper(p) == ppc[p] = "blockOnRefill" \/ p \in waiting["refill_needed"]

\* The refiller is only cancelled after a flag is set, and goes on until then.
RefillerGoesOnInv ==
  /\ Running => "paper_refiller" \notin cancelled
  /\ \A p \in Printers : ppc[p] \in {"notify", "cancelRefiller", "done"} => allJobsServed

\* The threads blocked on refill_needed are printers at the wait for paper, and
\* the jobs that make printers ask for paper are older than the next one created.
RefillPlacesInv ==
  /\ \A t \in waiting["refill_needed"] : t \in Printers /\ ppc[t] = "waitForRefill"
  /\ \A p \in Printers : InRefillLoop(p) \/ ppc[p] = "requestRefill" => target[p] \in 1..jobId

\* A printer in the refill loop has its paper, or a request, or the refiller.
PaperComesInv ==
  Running => \A p \in Printers : InRefillLoop(p) =>
    HasPaperFor(p, target[p]) \/ p \in Requesting \/ RefillWillDo(p)

\* A printer asleep although it has its paper is about to be woken.
WakeComesInv ==
  Running => \A p \in Printers :
    SleepsForPaper(p) /\ target[p] \in Live /\ HasPaperFor(p, target[p]) => fpc \in {"note", "notify"}

\* At the start nobody needs paper.
LEMMA InitRefillInv ==
  Init => RefillerGoesOnInv /\ RefillPlacesInv /\ PaperComesInv /\ WakeComesInv
BY DEF Init, SharedInit, PrinterInit, RefillerGoesOnInv, RefillPlacesInv, PaperComesInv,
       WakeComesInv, InRefillLoop, SleepsForPaper

\* The flags are never reset, and only a printer that has set all_jobs_served or
\* the catcher after SIGINT cancels the refiller.
LEMMA NextRefillerGoesOn ==
  ASSUME TypeInv, ArrivalInv, RefillerGoesOnInv, [Next]_vars
  PROVE  RefillerGoesOnInv' /\ (Running' => Running)
<1>0. ppc \in [Printers -> PrinterPCs]
  BY DEF TypeInv, ThreadInv, ThreadTypes, PrinterTypeOK
<1>1. ASSUME NEW p \in Printers, PrinterStep(p) PROVE RefillerGoesOnInv' /\ (Running' => Running)
  <2>1. CASE MarkServed(p) \/ NotifyExit(p) \/ CancelRefiller(p)
    BY <1>0, <2>1 DEF MarkServed, NotifyExit, CancelRefiller, GoTo, RefillerGoesOnInv, Running,
                      flagVars
  <2>2. CASE ~(MarkServed(p) \/ NotifyExit(p) \/ CancelRefiller(p))
    <3>1. /\ UNCHANGED <<terminateNow, allJobsServed, cancelled>>
          /\ \E pc \in PrinterPCs \ {"notify", "cancelRefiller", "done"} :
               ppc' = [ppc EXCEPT ![p] = pc]
      BY <1>1, <2>2
      DEF PrinterStep, PrinterNext, GoTo, ReadTerminate, LeaveFromCheck, FindNoJob, BlockOnJob,
          WakeForJob, FindTooLittlePaper, RequestRefill, PaperSuffices, NotePaperWait, PaperMissing,
          BlockOnRefill, WakeForRefill, WakeToTerminate, Dequeue, StartService, FinishPrinting,
          DeductPaper, JobDeparts, ReadArrived, LeaveFromRecheck, LookForNextJob, sharedVars,
          syncVars, flagVars, PrinterPCs
    <3> QED BY <1>0, <3>1 DEF RefillerGoesOnInv, Running
  <2> QED BY <2>1, <2>2
<1>2. CASE CatcherStep
  <2>1. /\ UNCHANGED <<ppc, allJobsServed>> /\ (terminateNow => terminateNow')
        /\ cancelled' = cancelled \/ terminateNow'
    BY <1>2 DEF CatcherStep, CatcherNext, CatchSignal, CancelThreads, DrainQueue,
                NotifyTermination, printerVars, syncVars, flagVars, ArrivalInv
  <2> QED BY <2>1 DEF RefillerGoesOnInv, Running
<1>3. CASE ReceiverStep \/ RefillerStep \/ MainStep \/ WakeupStep \/ UNCHANGED vars
  <2>1. UNCHANGED <<ppc, terminateNow, allJobsServed, cancelled>>
    BY <1>3
    DEF ReceiverStep, ReceiverNext, Allocate, LoopEnds, ArrivalTimeElapses, ReceiverCancelled,
        CheckTermination, StopArrivals, JobArrives, Enqueue, FindQueueFull, DropJob,
        MarkAllArrived, ReceiverExits, RefillerStep, RefillerNext, RefillerExits, FindNoRequest,
        BlockOnSupplier, TakeRequest, FindPrinterFull, MeasureRefill, RefillTimeElapses,
        RefillerCancelled, ReadCount, WriteCount, NoteRefill, NotifyRefilled, MainStep, WakeupStep,
        SpuriousWakeup, vars, sharedVars, syncVars, flagVars, printerVars
  <2> QED BY <2>1 DEF RefillerGoesOnInv, Running
<1> QED BY <1>1, <1>2, <1>3 DEF Next, Stop

\* Whoever joins the wait for paper is a printer that found too little of it, and
\* its target was taken from the queue.
LEMMA PrinterRefillPlaces ==
  ASSUME TypeInv, JobInv, RefillPlacesInv, NEW p \in Printers, PrinterStep(p)
  PROVE  RefillPlacesInv'
<1>0. /\ ppc \in [Printers -> PrinterPCs] /\ target \in [Printers -> Jobs \cup {NoJob}]
      /\ waiting \in [CondVars -> SUBSET (Printers \cup {Refiller})]
      /\ jobId \in Nat /\ UNCHANGED jobId
  BY ParametersAssumption
  DEF TypeInv, ThreadInv, ThreadTypes, SharedTypeOK, PrinterTypeOK, ReceiverTypeOK, PrinterStep,
  receiverVars
<1>1. \A q \in Printers \ {p} : ppc'[q] = ppc[q] /\ target'[q] = target[q]
  BY <1>0
  DEF PrinterStep, PrinterNext, GoTo, Unpoint, ReadTerminate, LeaveFromCheck, FindNoJob,
      BlockOnJob, WakeForJob, FindTooLittlePaper, RequestRefill, PaperSuffices, NotePaperWait, PaperMissing,
      BlockOnRefill, WakeForRefill, WakeToTerminate, Dequeue, StartService, FinishPrinting,
      DeductPaper, JobDeparts, ReadArrived, LeaveFromRecheck, LookForNextJob, MarkServed,
      NotifyExit, CancelRefiller
<1>2. \A t \in waiting'["refill_needed"] :
        t \in waiting["refill_needed"] \/ (BlockOnRefill(p) /\ t = p)
  BY <1>0
  DEF PrinterStep, PrinterNext, ReadTerminate, LeaveFromCheck, FindNoJob, BlockOnJob, WakeForJob,
      FindTooLittlePaper, RequestRefill, PaperSuffices, NotePaperWait, PaperMissing, BlockOnRefill,
      WakeForRefill, WakeToTerminate, Dequeue, StartService, FinishPrinting, DeductPaper,
      JobDeparts, ReadArrived, LeaveFromRecheck, LookForNextJob, MarkServed, NotifyExit,
      CancelRefiller, sharedVars, syncVars, Broadcast, CondWait
<1>3. p \in waiting'["refill_needed"] => ppc'[p] = "waitForRefill"
  <2>1. CASE BlockOnRefill(p) BY <1>0, <2>1 DEF BlockOnRefill, GoTo
  <2>2. CASE ~BlockOnRefill(p)
    <3> SUFFICES ASSUME p \in waiting'["refill_needed"] PROVE ppc'[p] = "waitForRefill"
      OBVIOUS
    <3>1. p \in waiting["refill_needed"] /\ ppc[p] = "waitForRefill"
      BY <1>2, <2>2 DEF RefillPlacesInv
    <3> QED
      BY <3>1
      DEF PrinterStep, PrinterNext, GoTo, ReadTerminate, LeaveFromCheck, FindNoJob, BlockOnJob,
          WakeForJob, FindTooLittlePaper, RequestRefill, PaperSuffices, NotePaperWait, PaperMissing,
          BlockOnRefill, WakeForRefill, WakeToTerminate, Dequeue, StartService, FinishPrinting,
          DeductPaper, JobDeparts, ReadArrived, LeaveFromRecheck, LookForNextJob, MarkServed,
          NotifyExit, CancelRefiller, Woken
  <2> QED BY <2>1, <2>2
<1>4. InRefillLoop(p)' \/ ppc'[p] = "requestRefill" => target'[p] \in 1..jobId
  <2>1. CASE FindTooLittlePaper(p)
    <3>1. Head(jobQueue) \in Queued
      BY <2>1 DEF FindTooLittlePaper, Queued, TypeInv, ThreadInv, ThreadTypes, SharedTypeOK
    <3>2. Head(jobQueue) \in 1..jobId
      BY <1>0, <3>1, QueuedJobs, ParametersAssumption DEF TypeInv, JobInv, JobsOwned
    <3> QED BY <1>0, <2>1, <3>2 DEF FindTooLittlePaper
  <2>2. CASE ~FindTooLittlePaper(p)
    <3> SUFFICES ASSUME InRefillLoop(p)' \/ ppc'[p] = "requestRefill"
                 PROVE  target'[p] \in 1..jobId
      OBVIOUS
    <3>1. /\ InRefillLoop(p) \/ ppc[p] = "requestRefill"
          /\ target' = target
      BY <1>0, <2>2
      DEF PrinterStep, PrinterNext, GoTo, InRefillLoop, ReadTerminate, LeaveFromCheck, FindNoJob,
          BlockOnJob, WakeForJob, RequestRefill, PaperSuffices, NotePaperWait, PaperMissing, BlockOnRefill,
          WakeForRefill, WakeToTerminate, Dequeue, StartService, FinishPrinting, DeductPaper,
          JobDeparts, ReadArrived, LeaveFromRecheck, LookForNextJob, MarkServed, NotifyExit,
          CancelRefiller
    <3> QED BY <3>1 DEF RefillPlacesInv
  <2> QED BY <2>1, <2>2
<1>5. \A t \in waiting'["refill_needed"] : t \in Printers /\ ppc'[t] = "waitForRefill"
  BY <1>0, <1>1, <1>2, <1>3 DEF RefillPlacesInv
<1>6. \A q \in Printers : InRefillLoop(q)' \/ ppc'[q] = "requestRefill" => target'[q] \in 1..jobId
  BY <1>1, <1>4 DEF RefillPlacesInv, InRefillLoop
<1> QED BY <1>0, <1>5, <1>6 DEF RefillPlacesInv

\* The other threads wait for no paper and only let jobId grow.
LEMMA OtherRefillPlaces ==
  ASSUME TypeInv, RefillPlacesInv,
         ReceiverStep \/ RefillerStep \/ CatcherStep \/ MainStep \/ WakeupStep \/ UNCHANGED vars
  PROVE  RefillPlacesInv'
<1>0. jobId \in Nat /\ waiting \in [CondVars -> SUBSET (Printers \cup {Refiller})]
  BY ParametersAssumption DEF TypeInv, ThreadInv, ThreadTypes, SharedTypeOK, ReceiverTypeOK
<1>1. UNCHANGED <<ppc, target>> /\ (jobId' = jobId \/ jobId' = jobId + 1)
  BY DEF ReceiverStep, RefillerStep, CatcherStep, MainStep, WakeupStep, vars, printerVars,
         receiverVars, ReceiverNext, Allocate, LoopEnds, ArrivalTimeElapses, ReceiverCancelled,
         CheckTermination, StopArrivals, JobArrives, Enqueue, FindQueueFull, DropJob,
         MarkAllArrived, ReceiverExits
<1>2. waiting'["refill_needed"] \subseteq waiting["refill_needed"]
  <2>1. CASE ReceiverStep
    BY <1>0, <2>1
    DEF ReceiverStep, ReceiverNext, Allocate, LoopEnds, ArrivalTimeElapses, ReceiverCancelled,
        CheckTermination, StopArrivals, JobArrives, Enqueue, FindQueueFull, DropJob,
        MarkAllArrived, ReceiverExits, sharedVars, syncVars, Broadcast
  <2>2. CASE RefillerStep
    BY <1>0, <2>2
    DEF RefillerStep, RefillerNext, RefillerExits, FindNoRequest, BlockOnSupplier, TakeRequest,
        FindPrinterFull, MeasureRefill, RefillTimeElapses, RefillerCancelled, ReadCount,
        WriteCount, NoteRefill, NotifyRefilled, sharedVars, syncVars, Broadcast, CondWait
  <2>3. CASE CatcherStep
    BY <1>0, <2>3 DEF CatcherStep, CatcherNext, CatchSignal, CancelThreads, DrainQueue,
                      NotifyTermination, syncVars, Broadcast
  <2>4. CASE MainStep \/ WakeupStep \/ UNCHANGED vars
    BY <1>0, <2>4 DEF MainStep, WakeupStep, SpuriousWakeup, vars, sharedVars, syncVars
  <2> QED BY <2>1, <2>2, <2>3, <2>4
<1>3. \A q \in Printers : InRefillLoop(q)' <=> InRefillLoop(q)
  BY <1>1 DEF InRefillLoop
<1> QED BY <1>0, <1>1, <1>2, <1>3 DEF RefillPlacesInv

\* What printer q needs stays as it is, or vanishes with the job.
NeedStays(q) ==
  /\ target'[q] = target[q] /\ paper'[q] = paper[q]
  /\ papersRequired'[target[q]] \in {papersRequired[target[q]], NoMemory}

\* Steps of the other threads: the refiller goes on, requests are only added, a
\* printer enters the refill loop with a request, and goes to sleep without paper.
RefillStays ==
  /\ UNCHANGED refillerVars
  /\ Requesting \subseteq Requesting'
  /\ \A q \in Printers : InRefillLoop(q)' => q \in Requesting' \/ (InRefillLoop(q) /\ NeedStays(q))
  /\ \A q \in Printers : SleepsForPaper(q)' =>
       /\ InRefillLoop(q) /\ NeedStays(q)
       /\ SleepsForPaper(q) \/ (target[q] \in Live => ~HasPaperFor(q, target[q]))

\* Such a step preserves both invariants: a freed job needs no paper.
LEMMA RefillStaysInv ==
  ASSUME TypeInv, TypeInv', RefillPlacesInv, PaperInv', PaperComesInv, WakeComesInv,
         Running' => Running, RefillStays
  PROVE  PaperComesInv' /\ WakeComesInv'
<1>0. /\ papersRequired \in [Jobs -> 0..MaxPapers] /\ MaxPapers \in Nat
      /\ jobId \in 0..NumJobs /\ NumJobs \in Nat
      /\ paper \in [Printers -> Int] /\ paper' \in [Printers -> Int]
      /\ UNCHANGED <<fpc, refilling, papersNeeded, countRead>>
  BY ParametersAssumption
  DEF TypeInv, ThreadInv, ThreadTypes, SharedTypeOK, ReceiverTypeOK, RefillStays, refillerVars
<1>1. \A q \in Printers : InRefillLoop(q) => target[q] \in Jobs /\ papersRequired[target[q]] \in Int
  BY <1>0 DEF RefillPlacesInv
<1>2. \A q \in Printers : 0 <= paper'[q]
  BY DEF PaperInv, PrinterPaperInv
<1>3. ASSUME Running', NEW q \in Printers, InRefillLoop(q)'
      PROVE  HasPaperFor(q, target[q])' \/ q \in Requesting' \/ RefillWillDo(q)'
  <2>1. CASE q \in Requesting'
    BY <2>1
  <2>2. CASE q \notin Requesting'
    <3>1. InRefillLoop(q) /\ NeedStays(q) /\ q \notin Requesting
      BY <1>3, <2>2 DEF RefillStays
    <3>2. HasPaperFor(q, target[q]) \/ RefillWillDo(q)
      BY <1>3, <3>1 DEF PaperComesInv
    <3>3. ASSUME HasPaperFor(q, target[q]) PROVE HasPaperFor(q, target[q])'
      BY <1>1, <1>2, <3>1, <3>3 DEF HasPaperFor, NeedStays
    <3>4. ASSUME RefillWillDo(q) PROVE RefillWillDo(q)'
      BY <1>0, <3>1, <3>4 DEF RefillWillDo, NeedStays
    <3> QED
      BY <3>2, <3>3, <3>4
  <2> QED
    BY <2>1, <2>2
<1>4. ASSUME Running', NEW q \in Printers,
             SleepsForPaper(q)', target'[q] \in Live', HasPaperFor(q, target[q])'
      PROVE  fpc' \in {"note", "notify"}
  <2>1. /\ InRefillLoop(q) /\ NeedStays(q)
        /\ SleepsForPaper(q) \/ (target[q] \in Live => ~HasPaperFor(q, target[q]))
    BY <1>4 DEF RefillStays
  <2>2. papersRequired'[target[q]] # NoMemory
    BY <1>4, <2>1 DEF Live, NeedStays
  <2>3. papersRequired'[target[q]] = papersRequired[target[q]]
    BY <2>1, <2>2 DEF NeedStays
  <2>4. target[q] \in Live /\ HasPaperFor(q, target[q])
    BY <1>1, <1>4, <2>1, <2>2, <2>3 DEF Live, HasPaperFor, NeedStays
  <2> QED
    BY <1>0, <1>4, <2>1, <2>4 DEF WakeComesInv
<1> QED
  BY <1>3, <1>4 DEF PaperComesInv, WakeComesInv

\* A request is queued at the end, and taken from the front.
LEMMA RequestIsQueued ==
  ASSUME refillQueue \in Seq(Printers), NEW p \in Printers, refillQueue' = Append(refillQueue, p)
  PROVE  Requesting \subseteq Requesting' /\ p \in Requesting'
<1>1. /\ DOMAIN refillQueue = 1..Len(refillQueue) /\ Len(refillQueue) \in Nat
      /\ DOMAIN refillQueue' = 1..(Len(refillQueue) + 1)
      /\ refillQueue'[Len(refillQueue) + 1] = p
      /\ \A i \in 1..Len(refillQueue) : refillQueue'[i] = refillQueue[i]
  OBVIOUS
<1> QED BY <1>1 DEF Requesting

LEMMA RequestIsTaken ==
  ASSUME refillQueue \in Seq(Printers), refillQueue # <<>>, refillQueue' = Tail(refillQueue)
  PROVE  \A q \in Requesting : q = Head(refillQueue) \/ q \in Requesting'
<1>1. /\ DOMAIN refillQueue = 1..Len(refillQueue) /\ Len(refillQueue) \in Nat \ {0}
      /\ DOMAIN refillQueue' = 1..(Len(refillQueue) - 1)
      /\ Head(refillQueue) = refillQueue[1]
      /\ \A i \in 1..(Len(refillQueue) - 1) : refillQueue'[i] = refillQueue[i + 1]
  OBVIOUS
<1>2. ASSUME NEW i \in DOMAIN refillQueue, i # 1 PROVE refillQueue[i] \in Requesting'
  <2>1. i - 1 \in DOMAIN refillQueue' /\ refillQueue'[i - 1] = refillQueue[i]
    BY <1>1, <1>2
  <2> QED BY <2>1 DEF Requesting
<1> QED BY <1>1, <1>2 DEF Requesting

\* A printer moves no other printer, and its own need changes only outside the loop.
LEMMA PrinterRefillStays ==
  ASSUME TypeInv, PlacesInv, RefillPlacesInv, RefillPlacesInv', NEW p \in Printers, PrinterStep(p)
  PROVE  RefillStays
<1>0. /\ ppc \in [Printers -> PrinterPCs] /\ target \in [Printers -> Jobs \cup {NoJob}]
      /\ waiting \in [CondVars -> SUBSET (Printers \cup {Refiller})]
      /\ refillQueue \in Seq(Printers) /\ paper \in [Printers -> Int]
      /\ papersRequired \in [Jobs -> 0..MaxPapers]
      /\ UNCHANGED refillerVars /\ jobId \in 0..NumJobs /\ NumJobs \in Nat
  BY ParametersAssumption
  DEF TypeInv, ThreadInv, ThreadTypes, SharedTypeOK, PrinterTypeOK, ReceiverTypeOK, PrinterStep
<1>1. \A q \in Printers \ {p} : ppc'[q] = ppc[q] /\ target'[q] = target[q] /\ paper'[q] = paper[q]
  BY <1>0
  DEF PrinterStep, PrinterNext, GoTo, Unpoint, ReadTerminate, LeaveFromCheck, FindNoJob,
      BlockOnJob, WakeForJob, FindTooLittlePaper, RequestRefill, PaperSuffices, NotePaperWait, PaperMissing,
      BlockOnRefill, WakeForRefill, WakeToTerminate, Dequeue, StartService, FinishPrinting,
      DeductPaper, JobDeparts, ReadArrived, LeaveFromRecheck, LookForNextJob, MarkServed,
      NotifyExit, CancelRefiller, sharedVars, paperVars
<1>2. \A t \in waiting'["refill_needed"] :
        t \in waiting["refill_needed"] \/ (BlockOnRefill(p) /\ t = p)
  BY <1>0
  DEF PrinterStep, PrinterNext, ReadTerminate, LeaveFromCheck, FindNoJob, BlockOnJob, WakeForJob,
      FindTooLittlePaper, RequestRefill, PaperSuffices, NotePaperWait, PaperMissing, BlockOnRefill,
      WakeForRefill, WakeToTerminate, Dequeue, StartService, FinishPrinting, DeductPaper,
      JobDeparts, ReadArrived, LeaveFromRecheck, LookForNextJob, MarkServed, NotifyExit,
      CancelRefiller, sharedVars, syncVars, Broadcast, CondWait
<1>3. \A j \in Jobs : papersRequired'[j] \in {papersRequired[j], NoMemory}
  BY <1>0
  DEF PrinterStep, PrinterNext, ReadTerminate, LeaveFromCheck, FindNoJob, BlockOnJob, WakeForJob,
      FindTooLittlePaper, RequestRefill, PaperSuffices, NotePaperWait, PaperMissing, BlockOnRefill,
      WakeForRefill, WakeToTerminate, Dequeue, StartService, FinishPrinting, DeductPaper,
      JobDeparts, ReadArrived, LeaveFromRecheck, LookForNextJob, MarkServed, NotifyExit,
      CancelRefiller, sharedVars, queueVars, FreeJobs
<1>4. Requesting \subseteq Requesting'
  <2>1. CASE RequestRefill(p)
    BY <1>0, <2>1, RequestIsQueued DEF RequestRefill
  <2>2. CASE ~RequestRefill(p)
    <3>1. UNCHANGED refillQueue
      BY <2>2
      DEF PrinterStep, PrinterNext, ReadTerminate, LeaveFromCheck, FindNoJob, BlockOnJob,
          WakeForJob, FindTooLittlePaper, PaperSuffices, NotePaperWait, PaperMissing, BlockOnRefill,
          WakeForRefill, WakeToTerminate, Dequeue, StartService, FinishPrinting, DeductPaper,
          JobDeparts, ReadArrived, LeaveFromRecheck, LookForNextJob, MarkServed, NotifyExit,
          CancelRefiller, sharedVars
    <3> QED BY <3>1 DEF Requesting
  <2> QED BY <2>1, <2>2
<1>5. \A q \in Printers : InRefillLoop(q) => target[q] \in Jobs
  BY <1>0 DEF RefillPlacesInv
<1>6. \A q \in Printers \ {p} : InRefillLoop(q) => NeedStays(q)
  BY <1>1, <1>3, <1>5 DEF NeedStays
<1>7. InRefillLoop(p)' => p \in Requesting' \/ (InRefillLoop(p) /\ NeedStays(p))
  <2> SUFFICES ASSUME InRefillLoop(p)', p \notin Requesting'
               PROVE  InRefillLoop(p) /\ NeedStays(p)
    OBVIOUS
  <2>1. ~RequestRefill(p)
    BY <1>0, RequestIsQueued DEF RequestRefill
  <2>2. InRefillLoop(p) /\ target' = target /\ paper' = paper
    BY <1>0, <2>1
    DEF PrinterStep, PrinterNext, GoTo, InRefillLoop, ReadTerminate, LeaveFromCheck, FindNoJob,
        BlockOnJob, WakeForJob, FindTooLittlePaper, PaperSuffices, NotePaperWait, PaperMissing, BlockOnRefill,
        WakeForRefill, WakeToTerminate, Dequeue, StartService, FinishPrinting, DeductPaper,
        JobDeparts, ReadArrived, LeaveFromRecheck, LookForNextJob, MarkServed, NotifyExit,
        CancelRefiller, sharedVars, paperVars
  <2> QED BY <1>3, <1>5, <2>2 DEF NeedStays
<1>8. ASSUME NEW q \in Printers, SleepsForPaper(q)'
      PROVE  /\ InRefillLoop(q) /\ NeedStays(q)
             /\ SleepsForPaper(q) \/ (target[q] \in Live => ~HasPaperFor(q, target[q]))
  <2>1. CASE q # p
    BY <1>1, <1>2, <1>6, <1>8, <2>1 DEF SleepsForPaper, RefillPlacesInv, InRefillLoop
  <2>2. CASE q = p /\ (PaperMissing(p) \/ BlockOnRefill(p))
    <3>1. InRefillLoop(p) /\ UNCHANGED <<target, paper>>
      BY <2>2 DEF PaperMissing, BlockOnRefill, GoTo, InRefillLoop, sharedVars, paperVars
    <3>2. NeedStays(p)
      BY <1>3, <1>5, <3>1 DEF NeedStays
    <3>3. SleepsForPaper(p) \/ (target[p] \in Live => ~HasPaperFor(p, target[p]))
      <4>1. CASE PaperMissing(p)
        BY <1>0, <1>5, <3>1, <4>1 DEF PaperMissing, PapersRead, HasPaperFor
      <4>2. CASE BlockOnRefill(p)
        BY <4>2 DEF BlockOnRefill, GoTo, SleepsForPaper
      <4> QED BY <2>2, <4>1, <4>2
    <3> QED BY <2>2, <3>1, <3>2, <3>3
  <2>3. CASE q = p /\ ~(PaperMissing(p) \/ BlockOnRefill(p))
    <3>1. ppc'[p] # "blockOnRefill"
      BY <1>0, <2>3
      DEF PrinterStep, PrinterNext, GoTo, ReadTerminate, LeaveFromCheck, FindNoJob, BlockOnJob,
          WakeForJob, FindTooLittlePaper, RequestRefill, PaperSuffices, NotePaperWait,
          WakeForRefill, WakeToTerminate, Dequeue, StartService, FinishPrinting, DeductPaper, JobDeparts,
          ReadArrived, LeaveFromRecheck, LookForNextJob, MarkServed, NotifyExit, CancelRefiller
    <3>2. p \in waiting["refill_needed"] /\ ppc[p] = "waitForRefill"
      BY <1>2, <1>8, <2>3, <3>1 DEF SleepsForPaper, RefillPlacesInv
    <3>3. FALSE
      BY <2>3, <3>2
      DEF PrinterStep, PrinterNext, GoTo, ReadTerminate, LeaveFromCheck, FindNoJob, BlockOnJob,
          WakeForJob, FindTooLittlePaper, RequestRefill, PaperSuffices, NotePaperWait,
          WakeForRefill, WakeToTerminate, Dequeue, StartService, FinishPrinting, DeductPaper, JobDeparts,
          ReadArrived, LeaveFromRecheck, LookForNextJob, MarkServed, NotifyExit,
          CancelRefiller, Woken
    <3> QED BY <3>3
  <2> QED BY <2>1, <2>2, <2>3
<1>9. \A q \in Printers : InRefillLoop(q)' => q \in Requesting' \/ (InRefillLoop(q) /\ NeedStays(q))
  <2>1. \A q \in Printers \ {p} : InRefillLoop(q)' => InRefillLoop(q)
    BY <1>1 DEF InRefillLoop
  <2> QED BY <1>6, <1>7, <2>1
<1> QED BY <1>0, <1>4, <1>8, <1>9 DEF RefillStays

\* The receiver gives a need only to the job it creates, which no printer points
\* at, and the receiver and the catcher otherwise only free jobs.
LEMMA OtherRefillStays ==
  ASSUME TypeInv, RefillPlacesInv, RefillPlacesInv',
         ReceiverStep \/ CatcherStep \/ MainStep \/ WakeupStep \/ UNCHANGED vars
  PROVE  RefillStays
<1>0. /\ waiting \in [CondVars -> SUBSET (Printers \cup {Refiller})]
      /\ papersRequired \in [Jobs -> 0..MaxPapers]
      /\ jobId \in 0..NumJobs /\ NumJobs \in Nat
  BY ParametersAssumption DEF TypeInv, ThreadInv, ThreadTypes, SharedTypeOK, ReceiverTypeOK
<1>1. UNCHANGED <<ppc, target, refillerVars, refillQueue, paper>>
  BY DEF ReceiverStep, CatcherStep, MainStep, WakeupStep, SpuriousWakeup, ReceiverNext, Allocate,
         LoopEnds, ArrivalTimeElapses, ReceiverCancelled, CheckTermination, StopArrivals,
         JobArrives, Enqueue, FindQueueFull, DropJob, MarkAllArrived, ReceiverExits, CatcherNext,
         CatchSignal, CancelThreads, DrainQueue, NotifyTermination, vars, sharedVars, paperVars,
         printerVars
<1>2. waiting'["refill_needed"] \subseteq waiting["refill_needed"]
  BY <1>0
  DEF ReceiverStep, CatcherStep, MainStep, WakeupStep, SpuriousWakeup, ReceiverNext, Allocate,
      LoopEnds, ArrivalTimeElapses, ReceiverCancelled, CheckTermination, StopArrivals, JobArrives,
      Enqueue, FindQueueFull, DropJob, MarkAllArrived, ReceiverExits, CatcherNext, CatchSignal,
      CancelThreads, DrainQueue, NotifyTermination, vars, sharedVars, syncVars, Broadcast
<1>3. \A j \in 1..jobId : papersRequired'[j] \in {papersRequired[j], NoMemory}
  <2>1. CASE Allocate
    BY <1>0, <2>1 DEF Allocate
  <2>2. CASE StopArrivals \/ DropJob \/ DrainQueue
    BY <1>0, <2>2 DEF StopArrivals, DropJob, DrainQueue, FreeJobs
  <2>3. CASE UNCHANGED papersRequired
    BY <2>3
  <2> QED
    BY <2>1, <2>2, <2>3
    DEF ReceiverStep, CatcherStep, MainStep, WakeupStep, SpuriousWakeup, ReceiverNext, LoopEnds,
        ArrivalTimeElapses, ReceiverCancelled, CheckTermination, JobArrives, Enqueue,
        FindQueueFull, MarkAllArrived, ReceiverExits, CatcherNext, CatchSignal, CancelThreads,
        NotifyTermination, vars, sharedVars, queueVars
<1>4. \A q \in Printers : InRefillLoop(q) => NeedStays(q)
  BY <1>1, <1>3 DEF RefillPlacesInv, NeedStays
<1>5. \A q \in Printers : InRefillLoop(q)' <=> InRefillLoop(q)
  BY <1>1 DEF InRefillLoop
<1>6. \A q \in Printers : SleepsForPaper(q)' => SleepsForPaper(q) /\ InRefillLoop(q)
  BY <1>1, <1>2 DEF SleepsForPaper, RefillPlacesInv, InRefillLoop
<1>7. Requesting' = Requesting
  BY <1>1 DEF Requesting
<1> QED BY <1>1, <1>4, <1>5, <1>6, <1>7 DEF RefillStays

\* The refiller fills the printer it has taken the request of, and wakes every
\* sleeper afterwards, when no printer is between its test and its wait.
LEMMA RefillerRefillInv ==
  ASSUME TypeInv, TypeInv', PlacesInv, RefillPlacesInv, RefillerGoesOnInv, PaperInv,
         PaperComesInv, WakeComesInv, RefillerStep
  PROVE  PaperComesInv' /\ WakeComesInv'
<1>0. /\ waiting \in [CondVars -> SUBSET (Printers \cup {Refiller})]
      /\ papersRequired \in [Jobs -> 0..MaxPapers] /\ paper \in [Printers -> Int]
      /\ refillQueue \in Seq(Printers) /\ papersNeeded \in Int /\ countRead \in Int
      /\ jobId \in 0..NumJobs /\ NumJobs \in Nat /\ MaxPapers \in Nat /\ PaperCapacity \in Nat
      /\ MaxPapers <= PaperCapacity
      /\ fpc \in {"measure", "sleep", "readCount", "writeCount"} => refilling \in Printers
  BY ParametersAssumption
  DEF TypeInv, ThreadInv, ThreadTypes, SharedTypeOK, ReceiverTypeOK, RefillerTypeOK, PointersOK
<1>1. UNCHANGED <<ppc, target, papersRequired, terminateNow, allJobsServed>>
  BY DEF RefillerStep, RefillerNext, RefillerExits, FindNoRequest, BlockOnSupplier, TakeRequest,
         FindPrinterFull, MeasureRefill, RefillTimeElapses, RefillerCancelled, ReadCount,
         WriteCount, NoteRefill, NotifyRefilled, sharedVars, queueVars, flagVars, printerVars
<1>2. CASE ~Running'
  BY <1>2 DEF PaperComesInv, WakeComesInv
<1>3. CASE Running'
  <2>0. Running
    BY <1>1, <1>3 DEF Running
  <2>1. /\ \A q \in Printers : InRefillLoop(q)' <=> InRefillLoop(q)
        /\ \A q \in Printers : InRefillLoop(q) => target[q] \in Jobs
    BY <1>0, <1>1 DEF InRefillLoop, RefillPlacesInv
  <2>2. \A q \in Printers : InRefillLoop(q) =>
          papersRequired[target[q]] \in Int /\ papersRequired[target[q]] <= PaperCapacity
    BY <1>0, <2>1
  <2>3. \A q \in Printers : InRefillLoop(q) =>
          HasPaperFor(q, target[q]) \/ q \in Requesting \/ RefillWillDo(q)
    BY <2>0 DEF PaperComesInv
  <2>4. ~RefillerExits /\ ~RefillerCancelled
    BY <2>0 DEF RefillerExits, RefillerCancelled, Running, RefillerGoesOnInv
  <2>5. \A q \in Printers : InRefillLoop(q) =>
          HasPaperFor(q, target[q])' \/ q \in Requesting' \/ RefillWillDo(q)'
    <3> SUFFICES ASSUME NEW q \in Printers, InRefillLoop(q)
                 PROVE  HasPaperFor(q, target[q])' \/ q \in Requesting' \/ RefillWillDo(q)'
      OBVIOUS
    <3>0. ASSUME UNCHANGED paper, HasPaperFor(q, target[q]) PROVE HasPaperFor(q, target[q])'
      BY <1>1, <3>0 DEF HasPaperFor
    <3>00. ASSUME UNCHANGED refillQueue, q \in Requesting PROVE q \in Requesting'
      BY <3>00 DEF Requesting
    <3>1. CASE FindNoRequest \/ BlockOnSupplier \/ NoteRefill \/ NotifyRefilled
      <4>1. ~RefillWillDo(q) /\ UNCHANGED <<paper, refillQueue>>
        BY <3>1 DEF FindNoRequest, BlockOnSupplier, NoteRefill, NotifyRefilled, Inspecting,
                    RefillWillDo, sharedVars, paperVars
      <4> QED BY <2>3, <3>0, <3>00, <4>1
    <3>2. CASE TakeRequest
      <4>1. ~RefillWillDo(q) /\ UNCHANGED paper
        BY <3>2 DEF TakeRequest, Inspecting, RefillWillDo, paperVars
      <4>2. q = Head(refillQueue) => RefillWillDo(q)'
        BY <3>2 DEF TakeRequest, RefillWillDo
      <4> QED BY <1>0, <2>3, <3>0, <3>2, <4>1, <4>2, RequestIsTaken DEF TakeRequest
    <3>3. CASE FindPrinterFull
      <4>1. UNCHANGED <<paper, refillQueue>>
        BY <3>3 DEF FindPrinterFull, sharedVars, paperVars
      <4>2. RefillWillDo(q) => HasPaperFor(q, target[q])
        BY <1>0, <2>2, <3>3 DEF FindPrinterFull, RefillWillDo, HasPaperFor
      <4> QED BY <2>3, <3>0, <3>00, <4>1, <4>2
    <3>4. CASE MeasureRefill \/ RefillTimeElapses \/ ReadCount
      <4>1. UNCHANGED <<paper, refillQueue>>
        BY <3>4 DEF MeasureRefill, RefillTimeElapses, ReadCount, sharedVars, paperVars
      <4>2. RefillWillDo(q) => RefillWillDo(q)'
        BY <1>0, <3>4, <4>1 DEF MeasureRefill, RefillTimeElapses, ReadCount, RefillWillDo
      <4> QED BY <2>3, <3>0, <3>00, <4>1, <4>2
    <3>5. CASE WriteCount
      <4>1. /\ UNCHANGED refillQueue /\ refilling \in Printers
            /\ paper' = [paper EXCEPT ![refilling] = countRead + papersNeeded]
            /\ papersNeeded > 0 /\ paper[refilling] <= countRead
        BY <1>0, <3>5 DEF WriteCount, PaperInv, RefillerPaperInv
      <4>2. paper[refilling] \in Int /\ countRead \in Int /\ papersNeeded \in Int
        BY <1>0, <4>1
      <4>3. paper[refilling] <= countRead + papersNeeded
        BY <4>1, <4>2
      <4>4. UNCHANGED refillQueue /\ \A r \in Printers : paper[r] <= paper'[r]
        BY <1>0, <4>1, <4>3
      <4>5. HasPaperFor(q, target[q]) => HasPaperFor(q, target[q])'
        <5>1. paper'[q] \in Int /\ paper[q] \in Int
          BY DEF TypeInv, ThreadInv, ThreadTypes, SharedTypeOK
        <5> QED BY <1>1, <2>2, <4>4, <5>1 DEF HasPaperFor
      <4>6. RefillWillDo(q) => HasPaperFor(q, target[q])'
        BY <1>0, <1>1, <2>2, <3>5 DEF WriteCount, RefillWillDo, HasPaperFor
      <4> QED BY <2>3, <3>00, <4>4, <4>5, <4>6
    <3> QED BY <2>4, <3>1, <3>2, <3>3, <3>4, <3>5 DEF RefillerStep, RefillerNext
  <2>6. PaperComesInv'
    BY <2>1, <2>5 DEF PaperComesInv
  <2>7. WakeComesInv'
    <3>1. CASE FindPrinterFull \/ WriteCount
      BY <3>1 DEF FindPrinterFull, WriteCount, WakeComesInv
    <3>2. CASE NotifyRefilled
      <4>1. \A q \in Printers : ppc[q] # "blockOnRefill"
        BY <3>2 DEF NotifyRefilled, Free, PlacesInv
      <4>2. waiting'["refill_needed"] = {}
        BY <3>2 DEF NotifyRefilled, Broadcast
      <4> QED BY <1>1, <4>1, <4>2 DEF WakeComesInv, SleepsForPaper
    <3>3. CASE \/ FindNoRequest \/ BlockOnSupplier \/ TakeRequest \/ MeasureRefill
               \/ RefillTimeElapses \/ ReadCount
      <4>1. /\ fpc \notin {"note", "notify"} /\ UNCHANGED paper
            /\ waiting'["refill_needed"] = waiting["refill_needed"]
        BY <1>0, <3>3
        DEF FindNoRequest, BlockOnSupplier, TakeRequest, MeasureRefill, RefillTimeElapses,
            ReadCount, Inspecting, CondWait, sharedVars, syncVars, paperVars
      <4> QED BY <1>1, <2>0, <4>1 DEF WakeComesInv, SleepsForPaper, HasPaperFor, Live
    <3>4. CASE NoteRefill
      <4>1. fpc = "note" /\ fpc' = "notify"
        BY <3>4 DEF NoteRefill
      <4> QED BY <4>1 DEF WakeComesInv
    <3> QED BY <2>4, <3>1, <3>2, <3>3, <3>4 DEF RefillerStep, RefillerNext
  <2> QED BY <2>6, <2>7
<1> QED BY <1>2, <1>3

\* While neither flag is set, no printer sleeps for paper that nobody brings, and
\* none sleeps through the end of its refill.
THEOREM NoForgottenPrinterHolds == Spec => []NoForgottenPrinter
<1>1. Init => ArrivalInv /\ StartedInv
  BY InitArrivalInv
<1>2. TypeInv /\ ArrivalInv /\ StartedInv /\ [Next]_vars => ArrivalInv' /\ StartedInv'
  BY NextArrivalInv
<1>3. Init => RefillerGoesOnInv /\ RefillPlacesInv /\ PaperComesInv /\ WakeComesInv
  BY InitRefillInv
<1>4. TypeInv /\ ArrivalInv /\ RefillerGoesOnInv /\ [Next]_vars
        => RefillerGoesOnInv' /\ (Running' => Running)
  BY NextRefillerGoesOn
<1>5. TypeInv /\ JobInv /\ RefillPlacesInv /\ [Next]_vars => RefillPlacesInv'
  BY PrinterRefillPlaces, OtherRefillPlaces DEF Next, Stop
<1>6. ASSUME TypeInv, TypeInv', PlacesInv, PaperInv, PaperInv', RefillerGoesOnInv,
             RefillPlacesInv, RefillPlacesInv', PaperComesInv, WakeComesInv, Running' => Running,
             [Next]_vars
      PROVE  PaperComesInv' /\ WakeComesInv'
  <2>1. CASE RefillerStep
    BY <1>6, <2>1, RefillerRefillInv
  <2>2. CASE RefillStays
    BY <1>6, <2>2, RefillStaysInv
  <2>3. CASE \E p \in Printers : PrinterStep(p)
    BY <1>6, <2>2, <2>3, PrinterRefillStays
  <2>4. CASE ReceiverStep \/ CatcherStep \/ MainStep \/ WakeupStep \/ UNCHANGED vars
    BY <1>6, <2>2, <2>4, OtherRefillStays
  <2> QED
    BY <1>6, <2>1, <2>3, <2>4 DEF Next, Stop
<1>7. RefillPlacesInv /\ PaperComesInv /\ WakeComesInv => NoForgottenPrinter
  <2> SUFFICES ASSUME RefillPlacesInv, PaperComesInv, WakeComesInv, Running,
                      NEW p \in waiting["refill_needed"], target[p] \in Live
               PROVE  IF HasPaperFor(p, target[p]) THEN fpc \in {"note", "notify"} ELSE RefillUnderWay(p)
    BY DEF NoForgottenPrinter, Running
  <2>1. p \in Printers /\ InRefillLoop(p) /\ SleepsForPaper(p)
    BY DEF RefillPlacesInv, InRefillLoop, SleepsForPaper
  <2> QED
    BY <2>1 DEF PaperComesInv, WakeComesInv, RefillUnderWay, RefillWillDo
<1> QED
  BY <1>1, <1>2, <1>3, <1>4, <1>5, <1>6, <1>7, TypeCorrect, JobInvariant, PaperInvariant,
     PlacesInvariant, PTL DEF Spec
=============================================================================
