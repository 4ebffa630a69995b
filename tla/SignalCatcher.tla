----------------------------- MODULE SignalCatcher -----------------------------
(***************************************************************************)
(* The signal catching thread of the terminal program (signalcatcher.c):   *)
(* on SIGINT it sets the termination flags, cancels the job receiver and   *)
(* the paper refiller, empties the job queue and wakes every waiter.       *)
(***************************************************************************)
EXTENDS Orchestrator

VARIABLE spc  \* where the signal catcher is

CatcherPCs == {"sigwait", "cancel", "drain", "notify", "done", "cancelled"}

CatcherInit   == spc = "sigwait"
CatcherTypeOK == spc \in CatcherPCs

CatchSignal ==
  /\ UserMayInterrupt
  /\ spc = "sigwait"
  /\ spc' = "cancel"
  /\ terminateNow' = TRUE
  /\ allJobsArrived' = TRUE
  /\ UNCHANGED <<queueVars, refillQueue, syncVars, allJobsServed, paperVars, stats>>

\* The event of the stop comes first.
CancelThreads ==
  /\ spc = "cancel" /\ Free("stats") /\ MayPrint
  /\ spc' = "drain"
  /\ cancelled' = Cancellable
  /\ UNCHANGED <<queueVars, refillQueue, owner, waiting, flagVars, paperVars, stats>>

\* The drain runs under both mutexes and has an event for each removed job.
MayDrain == Free("job_queue") /\ Free("stats") /\ (jobQueue # <<>> => MayPrint)

\* Mutants: the removed jobs are not counted; the printers are not woken.
DrainQueue_Uncounted ==
  /\ spc = "drain" /\ MayDrain
  /\ spc' = "notify"
  /\ jobQueue' = <<>>
  /\ FreeJobs(Queued)
  /\ Broadcast({"job_queue_not_empty"})
  /\ UNCHANGED <<refillQueue, owner, cancelled, flagVars, paperVars, stats>>

DrainQueue_Silent ==
  /\ spc = "drain" /\ MayDrain
  /\ spc' = "notify"
  /\ jobQueue' = <<>>
  /\ FreeJobs(Queued)
  /\ stats' = [stats EXCEPT !.removed = @ + Len(jobQueue)]
  /\ UNCHANGED <<refillQueue, syncVars, flagVars, paperVars>>

\* empty_queue_if_terminating removes and frees every queued job.
DrainQueue ==
  /\ spc = "drain" /\ MayDrain
  /\ spc' = "notify"
  /\ jobQueue' = <<>>
  /\ FreeJobs(Queued)
  /\ stats' = [stats EXCEPT !.removed = @ + Len(jobQueue)]
  /\ Broadcast({"job_queue_not_empty"})
  /\ UNCHANGED <<refillQueue, owner, cancelled, flagVars, paperVars>>

NotifyTermination ==
  /\ spc = "notify" /\ Free("paper_refill_queue")
  /\ spc' = "done"
  /\ Broadcast({"refill_needed", "refill_supplier"})
  /\ UNCHANGED <<queueVars, refillQueue, owner, cancelled, flagVars, paperVars, stats>>

CatcherNext ==
  \/ CatchSignal \/ CancelThreads \/ DrainQueue \/ NotifyTermination
=============================================================================
