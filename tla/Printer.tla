-------------------------------- MODULE Printer --------------------------------
(***************************************************************************)
(* The printer threads (printer.c).  A printer takes the oldest job if it  *)
(* has the paper for it; otherwise it queues a refill request and waits,   *)
(* still holding a pointer to the job it found at the front of the queue,  *)
(* which another printer may take and free in the meantime.                *)
(***************************************************************************)
EXTENDS Orchestrator

VARIABLES
  ppc,       \* where each printer is
  target,    \* job, or job_to_dequeue: the job the printer has a pointer to
  flagSeen,  \* the flag it read under the state mutex (terminate, have_all_jobs_arrived)
  paperRead  \* current_paper_count as read by the deduction, not yet written back

printerVars == <<ppc, target, flagSeen, paperRead>>

PrinterPCs == {"notStarted", "readTerminate", "checkQueue", "blockOnJob", "waitForJob",
               "requestRefill", "append", "testPaper", "blockOnRefill", "waitForRefill",
               "noteWait",
               "startService", "printing", "deduct", "depart",
               "readArrived", "recheck", "markServed", "notify", "cancelRefiller", "done"}

\* The printer dequeued its target and has not freed it yet.
Serving(p) == ppc[p] \in {"startService", "printing", "deduct", "depart"}

\* The printer asked for paper and has not left the refill loop.
InRefillLoop(p) == ppc[p] \in {"testPaper", "blockOnRefill", "waitForRefill"}

PrinterInit ==
  /\ ppc = [p \in Printers |-> IF p \in InitialPrinters THEN "readTerminate" ELSE "notStarted"]
  /\ target = [p \in Printers |-> NoJob]
  /\ flagSeen = [p \in Printers |-> FALSE]
  /\ paperRead = [p \in Printers |-> 0]

PrinterTypeOK ==
  /\ ppc \in [Printers -> PrinterPCs]
  /\ target \in [Printers -> Jobs \cup {NoJob}]
  /\ flagSeen \in [Printers -> BOOLEAN]
  /\ paperRead \in [Printers -> Int]

GoTo(p, from, to) ==
  /\ ppc[p] = from
  /\ ppc' = [ppc EXCEPT ![p] = to]

\* The local variables go out of scope.
Forget(p)  == flagSeen' = [flagSeen EXCEPT ![p] = FALSE]
Unpoint(p) == target' = [target EXCEPT ![p] = NoJob]

-----------------------------------------------------------------------------
(* Looking for a job *)

ReadTerminate(p) ==
  /\ GoTo(p, "readTerminate", "checkQueue")
  /\ flagSeen' = [flagSeen EXCEPT ![p] = terminateNow]
  /\ UNCHANGED <<target, paperRead, sharedVars>>

\* The test at the top of the loop, under the job queue mutex.
MayLeave_QueueIgnored(p) == flagSeen[p] \/ allJobsArrived  \* mutant

MayLeave(p) == flagSeen[p] \/ (allJobsArrived /\ jobQueue = <<>>)

LeaveFromCheck(p) ==
  /\ GoTo(p, "checkQueue", "markServed")
  /\ Free("job_queue") /\ MayLeave(p)
  /\ Forget(p)
  /\ UNCHANGED <<target, paperRead, sharedVars>>

\* Mutant: the queue is tested before the mutex is taken.
FindNoJob_Unlocked(p) ==
  /\ GoTo(p, "checkQueue", "blockOnJob")
  /\ ~MayLeave(p) /\ jobQueue = <<>>
  /\ UNCHANGED <<target, flagSeen, paperRead, sharedVars>>

FindNoJob(p) ==
  /\ GoTo(p, "checkQueue", "blockOnJob")
  /\ ~MayLeave(p) /\ jobQueue = <<>>
  /\ Acquire("job_queue", p)
  /\ UNCHANGED <<target, flagSeen, paperRead, queueVars, refillQueue, waiting, cancelled,
                 flagVars, paperVars, stats>>

BlockOnJob(p) ==
  /\ GoTo(p, "blockOnJob", "waitForJob")
  /\ CondWait("job_queue_not_empty", "job_queue", p)
  /\ UNCHANGED <<target, flagSeen, paperRead, queueVars, refillQueue, cancelled,
                 flagVars, paperVars, stats>>

\* Woken, the printer takes the mutex back, drops it and starts over.
WakeForJob(p) ==
  /\ GoTo(p, "waitForJob", "readTerminate")
  /\ Woken("job_queue_not_empty", p) /\ Free("job_queue")
  /\ UNCHANGED <<target, flagSeen, paperRead, sharedVars>>

\* Mutant: one sheet short is taken for enough.
HasPaperFor_OneShort(p, j) == papersRequired[j] <= paper[p] + 1

HasPaperFor(p, j) == papersRequired[j] <= paper[p]

FindTooLittlePaper(p) ==
  /\ GoTo(p, "checkQueue", "requestRefill")
  /\ Free("job_queue") /\ ~MayLeave(p) /\ jobQueue # <<>>
  /\ ~HasPaperFor(p, Head(jobQueue))
  /\ target' = [target EXCEPT ![p] = Head(jobQueue)]
  /\ UNCHANGED <<flagSeen, paperRead, sharedVars>>

\* Mutant: timed_queue_first for timed_queue_dequeue_front.
Dequeue_Peek(p) ==
  /\ GoTo(p, "checkQueue", "startService")
  /\ Free("job_queue") /\ ~MayLeave(p) /\ jobQueue # <<>>
  /\ HasPaperFor(p, Head(jobQueue)) /\ MayPrint
  /\ target' = [target EXCEPT ![p] = Head(jobQueue)]
  /\ UNCHANGED <<flagSeen, paperRead, queueVars, refillQueue, syncVars, flagVars, paperVars,
                 stats>>

Dequeue(p) ==
  /\ GoTo(p, "checkQueue", "startService")
  /\ Free("job_queue") /\ ~MayLeave(p) /\ jobQueue # <<>>
  /\ HasPaperFor(p, Head(jobQueue)) /\ MayPrint
  /\ target' = [target EXCEPT ![p] = Head(jobQueue)]
  /\ jobQueue' = Tail(jobQueue)
  /\ UNCHANGED <<flagSeen, paperRead, papersRequired, refillQueue, syncVars,
                 flagVars, paperVars, stats>>

-----------------------------------------------------------------------------
(* Waiting for paper *)

\* The refiller takes its requests under this mutex, so that a printer that holds
\* it has the request list to itself.
HoldsOffRefiller(p) == RefillMutex(p) = "paper_refill_queue"

\* Mutant: the refiller is not told of the request.
RequestRefill_Silent(p) ==
  /\ GoTo(p, "requestRefill", "testPaper")
  /\ HoldsOffRefiller(p)
  /\ Acquire(RefillMutex(p), p) /\ MayPrint
  /\ refillQueue' = Append(refillQueue, p)
  /\ UNCHANGED <<target, flagSeen, paperRead, queueVars, waiting, cancelled, flagVars,
                 paperVars, stats>>

\* The request of a printer with the other mutex is ScaledPrintService's.
RequestRefill(p) ==
  /\ GoTo(p, "requestRefill", "testPaper")
  /\ HoldsOffRefiller(p)
  /\ Acquire(RefillMutex(p), p) /\ MayPrint
  /\ refillQueue' = Append(refillQueue, p)
  /\ Broadcast({"refill_supplier"})
  /\ UNCHANGED <<target, flagSeen, paperRead, queueVars, cancelled, flagVars, paperVars, stats>>

PaperSuffices(p) ==
  /\ GoTo(p, "testPaper", "noteWait")
  /\ \E papers \in PapersRead(target[p]) : papers <= paper[p]
  /\ Release(RefillMutex(p))
  /\ Unpoint(p)
  /\ UNCHANGED <<flagSeen, paperRead, queueVars, refillQueue, waiting, cancelled,
                 flagVars, paperVars, stats>>

\* The time the printer waited, which no property here reads.
NotePaperWait(p) ==
  /\ GoTo(p, "noteWait", "readTerminate")
  /\ Free("stats")
  /\ UNCHANGED <<target, flagSeen, paperRead, sharedVars>>

PaperMissing(p) ==
  /\ GoTo(p, "testPaper", "blockOnRefill")
  /\ \E papers \in PapersRead(target[p]) : papers > paper[p]
  /\ UNCHANGED <<target, flagSeen, paperRead, sharedVars>>

BlockOnRefill(p) ==
  /\ GoTo(p, "blockOnRefill", "waitForRefill")
  /\ CondWait("refill_needed", RefillMutex(p), p)
  /\ UNCHANGED <<target, flagSeen, paperRead, queueVars, refillQueue, cancelled,
                 flagVars, paperVars, stats>>

\* Woken, the printer looks at g_terminate_now, and at its paper if it is unset.
WakeForRefill(p) ==
  /\ GoTo(p, "waitForRefill", "testPaper")
  /\ Woken("refill_needed", p) /\ ~terminateNow
  /\ Acquire(RefillMutex(p), p)
  /\ UNCHANGED <<target, flagSeen, paperRead, queueVars, refillQueue, waiting, cancelled,
                 flagVars, paperVars, stats>>

WakeToTerminate(p) ==
  /\ GoTo(p, "waitForRefill", "markServed")
  /\ Woken("refill_needed", p) /\ terminateNow
  /\ Free(RefillMutex(p))
  /\ Unpoint(p)
  /\ UNCHANGED <<flagSeen, paperRead, sharedVars>>

-----------------------------------------------------------------------------
(* Serving a job *)

StartService(p) ==
  /\ GoTo(p, "startService", "printing")
  /\ MayPrint
  /\ isIdle' = [isIdle EXCEPT ![p] = FALSE]
  /\ UNCHANGED <<target, flagSeen, paperRead, queueVars, refillQueue, syncVars, flagVars,
                 paper, stats>>

\* current_paper_count -= papers_required is a load and a store, under no mutex.
FinishPrinting(p) ==
  /\ GoTo(p, "printing", "deduct")
  /\ paperRead' = [paperRead EXCEPT ![p] = paper[p]]
  /\ UNCHANGED <<target, flagSeen, sharedVars>>

DeductPaper(p) ==
  /\ GoTo(p, "deduct", "depart")
  /\ paper' = [paper EXCEPT ![p] = paperRead[p] - papersRequired[target[p]]]
  /\ isIdle' = [isIdle EXCEPT ![p] = TRUE]
  /\ paperRead' = [paperRead EXCEPT ![p] = 0]
  /\ UNCHANGED <<target, flagSeen, queueVars, refillQueue, syncVars, flagVars, stats>>

JobDeparts(p) ==
  /\ GoTo(p, "depart", "readArrived")
  /\ Free("stats") /\ MayPrint
  /\ stats' = [stats EXCEPT !.served = @ + 1]
  /\ FreeJobs({target[p]})
  /\ Unpoint(p)
  /\ UNCHANGED <<flagSeen, paperRead, jobQueue, refillQueue, syncVars,
                 flagVars, paperVars>>

ReadArrived(p) ==
  /\ GoTo(p, "readArrived", "recheck")
  /\ flagSeen' = [flagSeen EXCEPT ![p] = allJobsArrived]
  /\ UNCHANGED <<target, paperRead, sharedVars>>

\* Mutant: the flag alone decides, jobs may still be queued.
LeaveFromRecheck_QueueIgnored(p) ==
  /\ GoTo(p, "recheck", "markServed")
  /\ Free("job_queue") /\ flagSeen[p]
  /\ Forget(p)
  /\ UNCHANGED <<target, paperRead, sharedVars>>

LeaveFromRecheck(p) ==
  /\ GoTo(p, "recheck", "markServed")
  /\ Free("job_queue") /\ flagSeen[p] /\ jobQueue = <<>>
  /\ Forget(p)
  /\ UNCHANGED <<target, paperRead, sharedVars>>

LookForNextJob(p) ==
  /\ GoTo(p, "recheck", "readTerminate")
  /\ Free("job_queue") /\ ~(flagSeen[p] /\ jobQueue = <<>>)
  /\ Forget(p)
  /\ UNCHANGED <<target, paperRead, sharedVars>>

-----------------------------------------------------------------------------
(* exit_printer *)

\* Mutant: the printer leaves without setting all_jobs_served.
MarkServed_Unset(p) ==
  /\ GoTo(p, "markServed", "notify")
  /\ UNCHANGED <<target, flagSeen, paperRead, sharedVars>>

MarkServed(p) ==
  /\ GoTo(p, "markServed", "notify")
  /\ allJobsServed' = TRUE
  /\ UNCHANGED <<target, flagSeen, paperRead, queueVars, refillQueue, syncVars,
                 terminateNow, allJobsArrived, paperVars, stats>>

\* Mutant: the refiller is not woken to see the flag.
NotifyExit_PrintersOnly(p) ==
  /\ GoTo(p, "notify", "cancelRefiller")
  /\ Free(RefillMutex(p))
  /\ Broadcast({"refill_needed"})
  /\ UNCHANGED <<target, flagSeen, paperRead, queueVars, refillQueue, owner, cancelled,
                 flagVars, paperVars, stats>>

NotifyExit(p) ==
  /\ GoTo(p, "notify", "cancelRefiller")
  /\ Free(RefillMutex(p))
  /\ Broadcast({"refill_supplier", "refill_needed"})
  /\ UNCHANGED <<target, flagSeen, paperRead, queueVars, refillQueue, owner, cancelled,
                 flagVars, paperVars, stats>>

CancelRefiller(p) ==
  /\ GoTo(p, "cancelRefiller", "done")
  /\ cancelled' = cancelled \cup {"paper_refiller"}
  /\ UNCHANGED <<target, flagSeen, paperRead, queueVars, refillQueue, owner, waiting,
                 flagVars, paperVars, stats>>

PrinterNext(p) ==
  \/ ReadTerminate(p)      \/ LeaveFromCheck(p)
  \/ FindNoJob(p)          \/ BlockOnJob(p)      \/ WakeForJob(p)
  \/ FindTooLittlePaper(p) \/ RequestRefill(p)
  \/ PaperSuffices(p)      \/ NotePaperWait(p)
  \/ PaperMissing(p)       \/ BlockOnRefill(p)
  \/ WakeForRefill(p)      \/ WakeToTerminate(p)
  \/ Dequeue(p)            \/ StartService(p)    \/ FinishPrinting(p)
  \/ DeductPaper(p)        \/ JobDeparts(p)
  \/ ReadArrived(p)        \/ LeaveFromRecheck(p) \/ LookForNextJob(p)
  \/ MarkServed(p)         \/ NotifyExit(p)      \/ CancelRefiller(p)
=============================================================================
