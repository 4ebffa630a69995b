------------------------------ MODULE JobReceiver ------------------------------
(***************************************************************************)
(* The job receiver thread (job_receiver.c): creates one job at a time,    *)
(* sleeps for its inter-arrival time, and drops it or queues it.  The      *)
(* thread can be cancelled only while it sleeps.                           *)
(***************************************************************************)
EXTENDS Orchestrator

VARIABLES
  rpc,   \* where the receiver is
  jobId  \* id of the latest job it created

receiverVars == <<rpc, jobId>>

ReceiverPCs == {"allocate", "sleep", "check", "arrive", "offer", "drop",
                "markArrived", "broadcast", "done", "cancelled"}

\* The receiver holds a job that it neither queued nor freed.
ReceiverHolds == rpc \in {"sleep", "check", "arrive", "offer", "drop", "cancelled"}

ReceiverInit == rpc = "allocate" /\ jobId = 0

ReceiverTypeOK == rpc \in ReceiverPCs /\ jobId \in 0..NumJobs

\* Mutant: job_id <= num_jobs in the for loop.
Allocate_OneTooMany ==
  /\ rpc = "allocate" /\ jobId <= NumJobs
  /\ rpc' = "sleep"
  /\ jobId' = jobId + 1
  /\ UNCHANGED <<queueVars, refillQueue, syncVars, flagVars, paperVars, stats>>

Allocate ==
  /\ rpc = "allocate" /\ jobId < NumJobs
  /\ rpc' = "sleep"
  /\ jobId' = jobId + 1
  /\ \E papers \in MinPapers..MaxPapers :
       papersRequired' = [papersRequired EXCEPT ![jobId + 1] = papers]
  /\ UNCHANGED <<jobQueue, refillQueue, syncVars, flagVars, paperVars, stats>>

LoopEnds ==
  /\ rpc = "allocate" /\ jobId = NumJobs
  /\ rpc' = "markArrived"
  /\ UNCHANGED <<jobId, sharedVars>>

\* usleep is a cancellation point: a pending cancel is acted upon there.
ArrivalTimeElapses ==
  /\ rpc = "sleep" /\ "job_receiver" \notin cancelled
  /\ rpc' = "check"
  /\ UNCHANGED <<jobId, sharedVars>>

ReceiverCancelled ==
  /\ rpc = "sleep" /\ "job_receiver" \in cancelled
  /\ rpc' = "cancelled"
  /\ UNCHANGED <<jobId, sharedVars>>

\* Mutant: the flag is not looked at.
CheckTermination_Ignored ==
  /\ rpc = "check"
  /\ rpc' = "arrive"
  /\ UNCHANGED <<jobId, sharedVars>>

CheckTermination ==
  /\ rpc = "check" /\ ~terminateNow
  /\ rpc' = "arrive"
  /\ UNCHANGED <<jobId, sharedVars>>

\* Mutant: the job is not freed before the break.
StopArrivals_Leak ==
  /\ rpc = "check" /\ terminateNow
  /\ rpc' = "markArrived"
  /\ allJobsArrived' = TRUE
  /\ UNCHANGED <<jobId, queueVars, refillQueue, syncVars, terminateNow, allJobsServed,
                 paperVars, stats>>

StopArrivals ==
  /\ rpc = "check" /\ terminateNow
  /\ rpc' = "markArrived"
  /\ allJobsArrived' = TRUE
  /\ FreeJobs({jobId})
  /\ UNCHANGED <<jobId, jobQueue, refillQueue, syncVars,
                 terminateNow, allJobsServed, paperVars, stats>>

JobArrives ==
  /\ rpc = "arrive" /\ Free("stats") /\ MayPrint
  /\ rpc' = "offer"
  /\ stats' = [stats EXCEPT !.arrived = @ + 1]
  /\ UNCHANGED <<jobId, queueVars, refillQueue, syncVars, flagVars, paperVars>>

\* Mutant: timed_queue_enqueue_front for timed_queue_enqueue.
Enqueue_AtFront ==
  /\ rpc = "offer" /\ Free("job_queue") /\ ~QueueFull
  /\ Free("stats") /\ MayPrint
  /\ rpc' = "allocate"
  /\ jobQueue' = <<jobId>> \o jobQueue
  /\ stats' = [stats EXCEPT !.maxQueue = larger(Len(jobQueue), @)]
  /\ Broadcast({"job_queue_not_empty"})
  /\ UNCHANGED <<jobId, papersRequired, refillQueue, owner, cancelled, flagVars, paperVars>>

\* The maximum is taken over the lengths found before each enqueue.
Enqueue ==
  /\ rpc = "offer" /\ Free("job_queue") /\ ~QueueFull
  /\ Free("stats") /\ MayPrint
  /\ rpc' = "allocate"
  /\ jobQueue' = Append(jobQueue, jobId)
  /\ stats' = [stats EXCEPT !.maxQueue = larger(Len(jobQueue), @)]
  /\ Broadcast({"job_queue_not_empty"})
  /\ UNCHANGED <<jobId, papersRequired, refillQueue, owner, cancelled,
                 flagVars, paperVars>>

FindQueueFull ==
  /\ rpc = "offer" /\ Free("job_queue") /\ QueueFull
  /\ rpc' = "drop"
  /\ UNCHANGED <<jobId, sharedVars>>

\* Mutant: the job is freed without emit_dropped_job.
DropJob_Uncounted ==
  /\ rpc = "drop" /\ Free("stats") /\ MayPrint
  /\ rpc' = "allocate"
  /\ FreeJobs({jobId})
  /\ UNCHANGED <<jobId, jobQueue, refillQueue, syncVars, flagVars, paperVars, stats>>

DropJob ==
  /\ rpc = "drop" /\ Free("stats") /\ MayPrint
  /\ rpc' = "allocate"
  /\ stats' = [stats EXCEPT !.dropped = @ + 1]
  /\ FreeJobs({jobId})
  /\ UNCHANGED <<jobId, jobQueue, refillQueue, syncVars, flagVars, paperVars>>

MarkAllArrived ==
  /\ rpc = "markArrived"
  /\ rpc' = "broadcast"
  /\ allJobsArrived' = TRUE
  /\ UNCHANGED <<jobId, queueVars, refillQueue, syncVars, terminateNow, allJobsServed,
                 paperVars, stats>>

\* Mutant: no broadcast after the flag is set.
ReceiverExits_Silent ==
  /\ rpc = "broadcast" /\ Free("job_queue")
  /\ rpc' = "done"
  /\ UNCHANGED <<jobId, sharedVars>>

ReceiverExits ==
  /\ rpc = "broadcast" /\ Free("job_queue")
  /\ rpc' = "done"
  /\ Broadcast({"job_queue_not_empty"})
  /\ UNCHANGED <<jobId, queueVars, refillQueue, owner, cancelled, flagVars, paperVars, stats>>

ReceiverNext ==
  \/ Allocate           \/ LoopEnds
  \/ ArrivalTimeElapses \/ ReceiverCancelled
  \/ CheckTermination   \/ StopArrivals
  \/ JobArrives
  \/ Enqueue            \/ FindQueueFull     \/ DropJob
  \/ MarkAllArrived     \/ ReceiverExits
=============================================================================
