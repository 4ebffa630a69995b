----------------------------- MODULE PrintService -----------------------------
(***************************************************************************)
(* One simulation of the terminal program with a fixed number of printers  *)
(* (cli.c): the threads of JobReceiver, Printer, PaperRefiller and         *)
(* SignalCatcher, and main, which joins them in a fixed order.  The        *)
(* specification starts when main has created every thread.                *)
(***************************************************************************)
EXTENDS JobReceiver, Printer, PaperRefiller, SignalCatcher

VARIABLE mpc  \* the join main is at

vars == <<sharedVars, receiverVars, printerVars, refillerVars, spc, mpc>>

MainPCs == {"joinReceiver", "joinPrinters", "joinRefiller", "cancelCatcher",
            "joinCatcher", "report"}

Init ==
  /\ SharedInit
  /\ ReceiverInit
  /\ PrinterInit
  /\ RefillerInit
  /\ CatcherInit
  /\ mpc = "joinReceiver"

-----------------------------------------------------------------------------
(* main *)

JoinReceiver ==
  /\ mpc = "joinReceiver" /\ rpc \in {"done", "cancelled"}
  /\ mpc' = "joinPrinters"
  /\ UNCHANGED spc

JoinPrinters ==
  /\ mpc = "joinPrinters" /\ \A p \in Printers : ppc[p] \in {"done", "notStarted"}
  /\ mpc' = "joinRefiller"
  /\ UNCHANGED spc

JoinRefiller ==
  /\ mpc = "joinRefiller" /\ fpc \in {"done", "cancelled"}
  /\ mpc' = "cancelCatcher"
  /\ UNCHANGED spc

\* sigwait is a cancellation point, and so is the printf of emit_simulation_stopped,
\* which a catcher at "cancel" may have passed or not.
CancelCatcher ==
  /\ mpc = "cancelCatcher"
  /\ mpc' = "joinCatcher"
  /\ \/ spc \in {"sigwait", "cancel"} /\ spc' = "cancelled"
     \/ spc # "sigwait" /\ UNCHANGED spc

JoinCatcher ==
  /\ mpc = "joinCatcher" /\ spc \in {"done", "cancelled"}
  /\ mpc' = "report"
  /\ UNCHANGED spc

MainNext == JoinReceiver \/ JoinPrinters \/ JoinRefiller \/ CancelCatcher \/ JoinCatcher

\* emit_simulation_end, emit_statistics, return 0: nothing happens afterwards.
Terminated == mpc = "report"

-----------------------------------------------------------------------------
(* The whole program *)

ReceiverStep   == ReceiverNext   /\ UNCHANGED <<printerVars, refillerVars, spc, mpc>>
PrinterStep(p) == PrinterNext(p) /\ UNCHANGED <<receiverVars, refillerVars, spc, mpc>>
RefillerStep   == RefillerNext   /\ UNCHANGED <<receiverVars, printerVars, spc, mpc>>
CatcherStep    == CatcherNext    /\ UNCHANGED <<receiverVars, printerVars, refillerVars, mpc>>
MainStep       == MainNext /\ UNCHANGED <<sharedVars, receiverVars, printerVars, refillerVars>>
WakeupStep     == SpuriousWakeup /\ UNCHANGED <<receiverVars, printerVars, refillerVars, spc, mpc>>

Stop == Terminated /\ UNCHANGED vars

Next ==
  \/ ReceiverStep
  \/ \E p \in Printers : PrinterStep(p)
  \/ RefillerStep
  \/ CatcherStep
  \/ MainStep
  \/ WakeupStep
  \/ Stop

Spec == Init /\ [][Next]_vars

\* The scheduler runs every thread that can run; the user need never send
\* SIGINT, so only the steps after the signal are fair.
Fairness ==
  /\ WF_vars(ReceiverStep)
  /\ \A p \in Printers : WF_vars(PrinterStep(p))
  /\ WF_vars(RefillerStep)
  /\ WF_vars(spc # "sigwait" /\ CatcherStep)
  /\ WF_vars(MainStep)

FairSpec == Spec /\ Fairness

-----------------------------------------------------------------------------
(* Type invariant *)

\* Every variable has its type.  Paper counts are integers here: that they stay
\* between 0 and the capacity is PaperWithinCapacity.
TypeOK ==
  /\ SharedTypeOK
  /\ ReceiverTypeOK
  /\ PrinterTypeOK
  /\ RefillerTypeOK
  /\ CatcherTypeOK
  /\ mpc \in MainPCs

-----------------------------------------------------------------------------
(* Jobs *)

BeingServed == {target[p] : p \in {q \in Printers : Serving(q)}}

\* An allocated job has exactly one owner: the receiver that created it, one
\* place of the job queue, or one printer.  So no job is printed or freed twice
\* (printer.c:152-153, signalcatcher.c:24-25, job_receiver.c:113 and 47), and
\* none is forgotten while a thread could still free it.
JobOwnership ==
  /\ \A i, k \in DOMAIN jobQueue : jobQueue[i] = jobQueue[k] => i = k
  /\ \A p, q \in Printers : Serving(p) /\ Serving(q) /\ target[p] = target[q] => p = q
  /\ Queued \cap BeingServed = {}
  /\ ReceiverHolds => jobId \notin Queued \cup BeingServed
  /\ Live = Queued \cup BeingServed \cup {j \in Jobs : ReceiverHolds /\ j = jobId}

\* The statistics the program reports balance at every moment: each job that
\* arrived was served, dropped or removed, or is in the queue, in a printer or
\* between the receiver's arrival and queueing steps.
JobConservation ==
  stats.arrived = stats.served + stats.dropped + stats.removed
                  + Len(jobQueue) + Cardinality(BeingServed)
                  + (IF rpc \in {"offer", "drop"} THEN 1 ELSE 0)

\* Jobs leave the queue in the order they were created: the queue is sorted,
\* and every job a printer works on is older than every queued job.
FirstComeFirstServed ==
  /\ \A i, k \in DOMAIN jobQueue : i < k => jobQueue[i] < jobQueue[k]
  /\ \A j \in BeingServed, k \in Queued : j < k

\* A limited queue never outgrows its capacity: the receiver tests the length
\* and appends under one hold of the mutex (job_receiver.c:125-160).
QueueWithinCapacity == QueueCapacity # -1 => Len(jobQueue) <= QueueCapacity

\* The job-level behaviour is that of the abstract line of JobFlow.
Flow == INSTANCE JobFlow WITH
  Servers   <- Printers,
  Capacity  <- QueueCapacity,
  last      <- IF rpc \in {"sleep", "check", "arrive", "offer"} THEN jobId - 1 ELSE jobId,
  line      <- jobQueue,
  inService <- [p \in Printers |-> IF Serving(p) THEN target[p] ELSE NoJob],
  served    <- stats.served,
  dropped   <- stats.dropped + (IF rpc = "drop" THEN 1 ELSE 0),
  removed   <- stats.removed

\* Every behaviour of the threads is, seen through Flow's mapping, a behaviour
\* of the abstract service.
ImplementsJobFlow == Flow!Spec

-----------------------------------------------------------------------------
(* Paper *)

\* A printer's paper never goes below zero or above its capacity, although the
\* printer (printer.c:132) and the refiller (paper_refiller.c:101) update it
\* with no common mutex and can overlap; a printer that took a job still has the
\* paper the job needs when it deducts it.
PaperWithinCapacity ==
  \A p \in Printers :
    /\ 0 <= paper[p] /\ paper[p] <= PaperCapacity
    /\ ppc[p] \in {"startService", "printing", "deduct"} => HasPaperFor(p, target[p])

-----------------------------------------------------------------------------
(* Wakeups *)

\* No printer sleeps on job_queue_not_empty while there is work for it, and once
\* all_jobs_arrived is set a sleeping printer still has a broadcast coming.
NoLostJobWakeup ==
  waiting["job_queue_not_empty"] # {} =>
    /\ jobQueue = <<>>
    /\ allJobsArrived => rpc \in {"markArrived", "broadcast"} \/ spc \in {"cancel", "drain"}

\* The refiller knows of the printer's need: its request is queued or in progress.
RefillUnderWay(p) == p \in Requesting \/ refilling = p

\* While the simulation runs, a printer asleep on refill_needed is being looked
\* after: if it lacks paper for its job its request is pending, and if it has
\* enough the refiller is about to wake it.
NoForgottenPrinter ==
  ~terminateNow /\ ~allJobsServed =>
    \A p \in waiting["refill_needed"] :
      target[p] \in Live =>
        IF HasPaperFor(p, target[p]) THEN fpc \in {"note", "notify"} ELSE RefillUnderWay(p)

\* The refiller never sleeps on refill_supplier while a request is queued, and
\* when a flag tells it to exit somebody is still going to wake it.
NoLostRefillRequest ==
  Refiller \in waiting["refill_supplier"] =>
    /\ refillQueue = <<>>
    /\ terminateNow => spc \in {"cancel", "drain", "notify"}
    /\ allJobsServed => \E p \in Printers : ppc[p] = "notify"

-----------------------------------------------------------------------------
(* The end of a run *)

\* all_jobs_served, set by the first printer that leaves, is never early as far
\* as the queue goes: without SIGINT nothing is queued or can still arrive,
\* although the printer reads the arrival flag and the queue under different
\* mutexes (printer.c:156-160).
NoWorkLeftWhenServed ==
  allJobsServed /\ ~terminateNow => allJobsArrived /\ jobQueue = <<>>

\* When main reports, every thread is over, and without SIGINT every job was
\* printed or dropped and freed.
CompleteAtEnd ==
  Terminated /\ ~terminateNow =>
    /\ stats.arrived = NumJobs
    /\ stats.served + stats.dropped = NumJobs
    /\ Live = {} /\ jobQueue = <<>>

WaitsForPaper(p) == ppc[p] = "waitForRefill" /\ p \in waiting["refill_needed"]

\* The only way not to end is a printer that waits for paper for ever.
EndsOrStarves == <>Terminated \/ <>[](\E p \in Printers : WaitsForPaper(p))

\* Without SIGINT every job is printed or dropped, even in the runs that do not end.
AllJobsHandled == <>(terminateNow \/ stats.served + stats.dropped = NumJobs)

-----------------------------------------------------------------------------
(* What the comments of the code say and the code does not do *)

\* printer.c:67, "Not enough paper for the job at the front of the queue": the
\* job whose need the refill loop tests is still allocated.
TestedJobIsAllocated == \A p \in Printers : ppc[p] = "testPaper" => target[p] \in Live
=============================================================================
