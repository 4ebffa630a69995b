----------------------------- MODULE PaperRefiller -----------------------------
(***************************************************************************)
(* The paper refiller thread (paper_refiller.c): takes the oldest refill   *)
(* request, sleeps for the time the refill takes, fills the printer up to  *)
(* its capacity and wakes the printers that wait for paper.  The thread    *)
(* can be cancelled only while it sleeps.                                  *)
(***************************************************************************)
EXTENDS Orchestrator

VARIABLES
  fpc,           \* where the refiller is
  refilling,     \* printer being refilled, NoPrinter when none
  papersNeeded,  \* papers_needed
  countRead      \* current_paper_count as read by the addition, not yet written back

refillerVars == <<fpc, refilling, papersNeeded, countRead>>

NoPrinter == 0

RefillerPCs == {"lock", "blockOnSupplier", "waitForRequest", "measure", "sleep",
                "readCount", "writeCount", "note", "notify", "done", "cancelled"}

RefillerInit ==
  /\ fpc = "lock"
  /\ refilling = NoPrinter
  /\ papersNeeded = 0
  /\ countRead = 0

RefillerTypeOK ==
  /\ fpc \in RefillerPCs
  /\ refilling \in Printers \cup {NoPrinter}
  /\ papersNeeded \in Int
  /\ countRead \in Int

\* The refiller, at the top of its loop or just woken, takes the refill mutex
\* and reads the flags.
Inspecting ==
  /\ fpc = "lock" \/ (fpc = "waitForRequest" /\ Woken("refill_supplier", Refiller))
  /\ Free("paper_refill_queue")

RefillerExits ==
  /\ Inspecting /\ (terminateNow \/ allJobsServed)
  /\ fpc' = "done"
  /\ Broadcast({"refill_needed"})
  /\ UNCHANGED <<refilling, papersNeeded, countRead, queueVars, refillQueue, owner, cancelled,
                 flagVars, paperVars, stats>>

FindNoRequest ==
  /\ Inspecting /\ ~(terminateNow \/ allJobsServed)
  /\ refillQueue = <<>>
  /\ fpc' = "blockOnSupplier"
  /\ Acquire("paper_refill_queue", Refiller)
  /\ UNCHANGED <<refilling, papersNeeded, countRead, queueVars, refillQueue, waiting,
                 cancelled, flagVars, paperVars, stats>>

BlockOnSupplier ==
  /\ fpc = "blockOnSupplier"
  /\ fpc' = "waitForRequest"
  /\ CondWait("refill_supplier", "paper_refill_queue", Refiller)
  /\ UNCHANGED <<refilling, papersNeeded, countRead, queueVars, refillQueue, cancelled,
                 flagVars, paperVars, stats>>

TakeRequest ==
  /\ Inspecting /\ ~(terminateNow \/ allJobsServed)
  /\ refillQueue # <<>>
  /\ fpc' = "measure"
  /\ refilling' = Head(refillQueue)
  /\ refillQueue' = Tail(refillQueue)
  /\ UNCHANGED <<papersNeeded, countRead, queueVars, syncVars, flagVars, paperVars, stats>>

FindPrinterFull ==
  /\ fpc = "measure" /\ paper[refilling] >= PaperCapacity
  /\ fpc' = "notify"
  /\ refilling' = NoPrinter
  /\ UNCHANGED <<papersNeeded, countRead, sharedVars>>

\* Mutant: a full load is added to whatever the printer has.
MeasureRefill_FullLoad ==
  /\ fpc = "measure" /\ paper[refilling] < PaperCapacity /\ MayPrint
  /\ fpc' = "sleep"
  /\ papersNeeded' = PaperCapacity
  /\ UNCHANGED <<refilling, countRead, sharedVars>>

MeasureRefill ==
  /\ fpc = "measure" /\ paper[refilling] < PaperCapacity /\ MayPrint
  /\ fpc' = "sleep"
  /\ papersNeeded' = PaperCapacity - paper[refilling]
  /\ UNCHANGED <<refilling, countRead, sharedVars>>

\* usleep is a cancellation point: a pending cancel is acted upon there.
RefillTimeElapses ==
  /\ fpc = "sleep" /\ "paper_refiller" \notin cancelled
  /\ fpc' = "readCount"
  /\ UNCHANGED <<refilling, papersNeeded, countRead, sharedVars>>

RefillerCancelled ==
  /\ fpc = "sleep" /\ "paper_refiller" \in cancelled
  /\ fpc' = "cancelled"
  /\ UNCHANGED <<refilling, papersNeeded, countRead, sharedVars>>

\* current_paper_count += papers_needed, after the event of the refill's end, is a
\* load and a store, under no mutex.
ReadCount ==
  /\ fpc = "readCount" /\ MayPrint
  /\ fpc' = "writeCount"
  /\ countRead' = paper[refilling]
  /\ UNCHANGED <<refilling, papersNeeded, sharedVars>>

WriteCount ==
  /\ fpc = "writeCount"
  /\ fpc' = "note"
  /\ paper' = [paper EXCEPT ![refilling] = countRead + papersNeeded]
  /\ refilling' = NoPrinter
  /\ papersNeeded' = 0
  /\ countRead' = 0
  /\ UNCHANGED <<queueVars, refillQueue, syncVars, flagVars, isIdle, stats>>

\* The statistics of the refill, which no property here reads.
NoteRefill ==
  /\ fpc = "note" /\ Free("stats")
  /\ fpc' = "notify"
  /\ UNCHANGED <<refilling, papersNeeded, countRead, sharedVars>>

\* Mutant: the wrong condition variable is signalled.
NotifyRefilled_WrongCV ==
  /\ fpc = "notify" /\ Free("paper_refill_queue")
  /\ fpc' = "lock"
  /\ Broadcast({"refill_supplier"})
  /\ UNCHANGED <<refilling, papersNeeded, countRead, queueVars, refillQueue, owner, cancelled,
                 flagVars, paperVars, stats>>

NotifyRefilled ==
  /\ fpc = "notify" /\ Free("paper_refill_queue")
  /\ fpc' = "lock"
  /\ Broadcast({"refill_needed"})
  /\ UNCHANGED <<refilling, papersNeeded, countRead, queueVars, refillQueue, owner, cancelled,
                 flagVars, paperVars, stats>>

RefillerNext ==
  \/ RefillerExits     \/ FindNoRequest   \/ BlockOnSupplier
  \/ TakeRequest       \/ FindPrinterFull \/ MeasureRefill
  \/ RefillTimeElapses \/ RefillerCancelled
  \/ ReadCount         \/ WriteCount      \/ NoteRefill
  \/ NotifyRefilled
=============================================================================
