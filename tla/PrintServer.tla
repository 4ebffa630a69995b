------------------------------ MODULE PrintServer ------------------------------
(***************************************************************************)
(* The WebSocket server (server.c) without autoscaling: the event loop     *)
(* handles the client's start and stop commands, a runner thread creates   *)
(* the threads of one simulation, joins them and reports, and the queues,  *)
(* flags and statistics of the one simulation context live on from run to  *)
(* run.  Job ids go on counting over the runs here, so that a job names    *)
(* its run; in the code they start at 1 in every run.                      *)
(*                                                                         *)
(* The catcher's steps are the body of request_stop_simulation, which the  *)
(* event loop executes.  Cancelling a thread that was joined, or not yet   *)
(* created, is taken to have no effect.                                    *)
(***************************************************************************)
EXTENDS JobReceiver, Printer, PaperRefiller, SignalCatcher

CONSTANTS
  JobsPerRun,  \* params.num_jobs
  MaxStops     \* bound on the number of stop commands

ASSUME ServerAssumption == JobsPerRun \in Nat \ {0} /\ MaxStops \in Nat

VARIABLES
  runner,    \* where simulation_runner is, "none" when there is no such thread
  isRunning, \* ctx->is_running
  lastJob,   \* id of the last job of the latest run
  started,   \* printers started so far in the latest run
  leaked,    \* jobs of receivers that were cancelled in their sleep
  stops,     \* stop commands so far
  stoppedRun \* history: a stop command came since the latest run was started

serverVars == <<runner, isRunning, lastJob, started, leaked, stops, stoppedRun>>
vars == <<sharedVars, receiverVars, printerVars, refillerVars, spc, serverVars>>

RunnerPCs == {"none", "initPool", "createReceiver", "createRefiller", "startPrinters",
              "joinReceiver", "joinPrinters", "joinRefiller", "report", "clearStats", "setIdle"}

\* init_context: no thread exists.
Init ==
  /\ SharedInit /\ CatcherInit
  /\ rpc = "done" /\ jobId = 0
  /\ fpc = "done" /\ refilling = NoPrinter /\ papersNeeded = 0 /\ countRead = 0
  /\ ppc = [p \in Printers |-> "notStarted"]
  /\ target = [p \in Printers |-> NoJob]
  /\ flagSeen = [p \in Printers |-> FALSE]
  /\ paperRead = [p \in Printers |-> 0]
  /\ runner = "none" /\ isRunning = FALSE
  /\ lastJob = 0 /\ started = 0 /\ leaked = {} /\ stops = 0 /\ stoppedRun = FALSE

Over(p) == ppc[p] \in {"done", "notStarted"}

-----------------------------------------------------------------------------
(* The event loop *)

AtCommand == spc = "sigwait"

\* start_simulation_async; a start command during a run is refused.  NumJobs
\* bounds the number of runs.
StartCommand ==
  /\ AtCommand /\ lastJob + JobsPerRun <= NumJobs
  /\ ~isRunning
  /\ isRunning' = TRUE
  /\ runner' = "initPool"
  /\ lastJob' = lastJob + JobsPerRun
  /\ started' = 0
  /\ stoppedRun' = FALSE
  /\ UNCHANGED <<sharedVars, receiverVars, printerVars, refillerVars, spc, leaked, stops>>

StopCommand ==
  /\ stops < MaxStops
  /\ CatchSignal
  /\ stops' = stops + 1
  /\ stoppedRun' = TRUE
  /\ UNCHANGED <<runner, isRunning, lastJob, started, leaked>>

StopReturns ==
  /\ spc = "done" /\ spc' = "sigwait"
  /\ UNCHANGED <<sharedVars, serverVars>>

EventLoopStep ==
  \/ StartCommand
  \/ /\ \/ StopCommand \/ StopReturns
        \/ (CancelThreads \/ DrainQueue \/ NotifyTermination) /\ UNCHANGED serverVars
     /\ UNCHANGED <<receiverVars, printerVars, refillerVars>>

-----------------------------------------------------------------------------
(* The runner *)

RunnerGoesTo(from, to) == runner = from /\ runner' = to

\* printer_pool_init wipes the printers' records.
InitPool ==
  /\ RunnerGoesTo("initPool", "createReceiver")
  /\ paper' = [p \in Printers |-> PaperCapacity]
  /\ isIdle' = [p \in Printers |-> TRUE]
  /\ ppc' = [p \in Printers |-> "notStarted"]
  /\ UNCHANGED <<queueVars, refillQueue, syncVars, flagVars, stats, receiverVars,
                 target, flagSeen, paperRead, refillerVars, leaked>>

\* A new thread has no cancellation pending.
CreateReceiver ==
  /\ RunnerGoesTo("createReceiver", "createRefiller")
  /\ rpc' = "allocate" /\ jobId' = lastJob - JobsPerRun
  /\ cancelled' = cancelled \ {"job_receiver"}
  /\ leaked' = IF rpc = "cancelled" THEN leaked \cup {jobId} ELSE leaked
  /\ UNCHANGED <<queueVars, refillQueue, owner, waiting, flagVars, paperVars, stats,
                 printerVars, refillerVars>>

CreateRefiller ==
  /\ RunnerGoesTo("createRefiller", "startPrinters")
  /\ fpc' = "lock" /\ refilling' = NoPrinter /\ papersNeeded' = 0 /\ countRead' = 0
  /\ cancelled' = cancelled \ {"paper_refiller"}
  /\ UNCHANGED <<queueVars, refillQueue, owner, waiting, flagVars, paperVars, stats,
                 printerVars, receiverVars, leaked>>

\* Mutant: i <= consumer_count + 1.
StartPrinter_OneTooMany ==
  /\ runner = "startPrinters" /\ started <= ConsumerCount
  /\ started' = started + 1
  /\ ppc' = [ppc EXCEPT ![started + 1] = "readTerminate"]
  /\ UNCHANGED <<sharedVars, receiverVars, target, flagSeen, paperRead, refillerVars,
                 runner, leaked>>

StartPrinter ==
  /\ runner = "startPrinters" /\ started < ConsumerCount
  /\ started' = started + 1
  /\ ppc' = [ppc EXCEPT ![started + 1] = "readTerminate"]
  /\ UNCHANGED <<sharedVars, receiverVars, target, flagSeen, paperRead, refillerVars,
                 runner, leaked>>

\* Mutant: the runner does not wait for the printers.
JoinThreads_PrintersForgotten ==
  \/ RunnerGoesTo("startPrinters", "joinReceiver") /\ started = ConsumerCount
  \/ RunnerGoesTo("joinReceiver", "joinPrinters")  /\ rpc \in {"done", "cancelled"}
  \/ RunnerGoesTo("joinPrinters", "joinRefiller")
  \/ RunnerGoesTo("joinRefiller", "report")        /\ fpc \in {"done", "cancelled"}

JoinThreads ==
  \/ RunnerGoesTo("startPrinters", "joinReceiver") /\ started = ConsumerCount
  \/ RunnerGoesTo("joinReceiver", "joinPrinters")  /\ rpc \in {"done", "cancelled"}
  \/ RunnerGoesTo("joinPrinters", "joinRefiller")  /\ \A p \in Printers : Over(p)
  \/ RunnerGoesTo("joinRefiller", "report")        /\ fpc \in {"done", "cancelled"}

\* emit_simulation_end and emit_statistics.
Report == RunnerGoesTo("report", "clearStats")

\* The statistics are cleared without their mutex.
ClearStats ==
  /\ RunnerGoesTo("clearStats", "setIdle")
  /\ stats' = NoStatistics
  /\ UNCHANGED <<queueVars, refillQueue, syncVars, flagVars, paperVars, receiverVars,
                 printerVars, refillerVars, leaked>>

SetIdle == RunnerGoesTo("setIdle", "none") /\ isRunning' = FALSE

RunnerStep ==
  /\ \/ /\ \/ InitPool \/ CreateReceiver \/ CreateRefiller \/ ClearStats
           \/ (JoinThreads \/ Report) /\ UNCHANGED <<sharedVars, receiverVars, printerVars,
                                                     refillerVars, leaked>>
        /\ UNCHANGED <<isRunning, started>>
     \/ StartPrinter /\ UNCHANGED isRunning
     \/ SetIdle /\ UNCHANGED <<sharedVars, receiverVars, printerVars, refillerVars,
                               started, leaked>>
  /\ UNCHANGED <<spc, lastJob, stops, stoppedRun>>

-----------------------------------------------------------------------------
(* The threads of a run *)

\* The receiver's loop ends after the jobs of this run.
RunLoopEnds ==
  /\ rpc = "allocate" /\ jobId = lastJob
  /\ rpc' = "markArrived"
  /\ UNCHANGED <<jobId, sharedVars>>

RunReceiverNext ==
  \/ jobId < lastJob /\ Allocate
  \/ RunLoopEnds
  \/ ArrivalTimeElapses \/ ReceiverCancelled
  \/ CheckTermination   \/ StopArrivals
  \/ JobArrives
  \/ Enqueue            \/ FindQueueFull     \/ DropJob
  \/ MarkAllArrived     \/ ReceiverExits

ReceiverStep   == RunReceiverNext /\ UNCHANGED <<printerVars, refillerVars, spc, serverVars>>
PrinterStep(p) == PrinterNext(p)  /\ UNCHANGED <<receiverVars, refillerVars, spc, serverVars>>
RefillerStep   == RefillerNext    /\ UNCHANGED <<receiverVars, printerVars, spc, serverVars>>

Next ==
  \/ EventLoopStep
  \/ RunnerStep
  \/ ReceiverStep
  \/ \E p \in Printers : PrinterStep(p)
  \/ RefillerStep

Spec == Init /\ [][Next]_vars

\* Threads are scheduled and a handler that started goes on; the client need
\* never send a command.
Fairness ==
  /\ WF_vars(~AtCommand /\ EventLoopStep)
  /\ WF_vars(RunnerStep)
  /\ WF_vars(ReceiverStep)
  /\ \A p \in Printers : WF_vars(PrinterStep(p))
  /\ WF_vars(RefillerStep)

FairSpec == Spec /\ Fairness

-----------------------------------------------------------------------------
(* Properties *)

TypeOK ==
  /\ SharedTypeOK /\ ReceiverTypeOK /\ PrinterTypeOK /\ RefillerTypeOK /\ CatcherTypeOK
  /\ runner \in RunnerPCs /\ isRunning \in BOOLEAN
  /\ lastJob \in 0..NumJobs /\ started \in 0..ConsumerCount
  /\ leaked \subseteq Jobs
  /\ stops \in 0..MaxStops /\ stoppedRun \in BOOLEAN

BeingServed == {target[p] : p \in {q \in Printers : Serving(q)}}

\* Over all runs, an allocated job has one owner: the receiver that created it,
\* one place of the queue, one printer, or nobody when its receiver was
\* cancelled.  A job that an earlier run left in the queue is still served or
\* freed once at most (server.c:98, 284-293).
JobOwnership ==
  /\ \A i, k \in DOMAIN jobQueue : jobQueue[i] = jobQueue[k] => i = k
  /\ \A p, q \in Printers : Serving(p) /\ Serving(q) /\ target[p] = target[q] => p = q
  /\ Queued \cap BeingServed = {} /\ leaked \cap (Queued \cup BeingServed) = {}
  /\ ReceiverHolds => jobId \notin Queued \cup BeingServed
  /\ Live = Queued \cup BeingServed \cup leaked \cup {j \in Jobs : ReceiverHolds /\ j = jobId}

\* One simulation at a time: the server answers "idle", and wipes the records of
\* the printers, only when every thread of the run before is over, although the
\* answer and the check of is_running are given by the event loop and the joins
\* made by the runner (server.c:240-242, 255-260, 144).
NoThreadOutlivesItsRun ==
  /\ isRunning <=> runner # "none"
  /\ runner \in {"none", "initPool", "createReceiver"} =>
       /\ rpc \in {"done", "cancelled"} /\ fpc \in {"done", "cancelled"}
       /\ \A p \in Printers : Over(p)

\* Jobs are taken in the order of their arrival, those that an earlier run left
\* in the queue before those of the run that serves them.
FirstComeFirstServed ==
  /\ \A i, k \in DOMAIN jobQueue : i < k => jobQueue[i] < jobQueue[k]
  /\ \A j \in BeingServed, k \in Queued : j < k

\* A stop empties the queue but for the one job that the receiver was about to
\* queue: it passed the test of g_terminate_now before the flag was set
\* (job_receiver.c:104-145, server.c:276-293).
StopLeavesOneJobAtMost ==
  terminateNow /\ AtCommand /\ runner \in {"none", "report"} => Len(jobQueue) <= 1

WaitsForPaper(p) == ppc[p] = "waitForRefill" /\ p \in waiting["refill_needed"]

\* Every run ends, or a printer waits for paper for ever; with a single printer
\* the second happens only after a stop, or in a later run, whose refiller finds
\* all_jobs_served set by the first (server.c:219-231, paper_refiller.c:51).
RunsEndOrStarve ==
  \/ []<>~isRunning
  \/ <>[](\E p \in Printers : WaitsForPaper(p) /\ (terminateNow \/ lastJob > JobsPerRun))

-----------------------------------------------------------------------------
(* What the documents say and the code does not do *)

\* FRONTEND_INTEGRATION_GUIDE.md:123, simulation_complete is sent when "the
\* simulation ends normally (all jobs processed)".
AllJobsProcessed == runner = "report" /\ ~terminateNow => jobQueue = <<>>
=============================================================================
