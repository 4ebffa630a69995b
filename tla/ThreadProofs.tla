----------------------------- MODULE ThreadProofs -----------------------------
(***************************************************************************)
(* What the threads of a simulation preserve wherever they run: in the     *)
(* terminal program with a fixed or a scaled number of printers, and in    *)
(* the runs of the server.  The invariants are about the state of the      *)
(* threads alone; the proofs about the three programs cite these lemmas    *)
(* for the threads and add what main, the runner, the event loop and the   *)
(* autoscaler do.                                                          *)
(***************************************************************************)
EXTENDS JobReceiver, Printer, PaperRefiller, SignalCatcher, SequenceTheorems,
        FiniteSetTheorems, TLAPS

USE DEF Printers, Jobs, NoJob, NoMemory, Refiller, NoThread, Scaler, Cancellable, Mutexes, CondVars,
        NoPrinter

-----------------------------------------------------------------------------
(* A step of one thread, seen by the others *)

\* The receiver's loop may also end before NumJobs, where job ids go on counting
\* from run to run.
EndOfArrivals ==
  /\ rpc = "allocate" /\ rpc' = "markArrived"
  /\ UNCHANGED <<jobId, sharedVars>>

ReceiverTurn   == (ReceiverNext \/ EndOfArrivals) /\ UNCHANGED <<printerVars, refillerVars, spc>>
PrinterTurn(p) == PrinterNext(p) /\ UNCHANGED <<receiverVars, refillerVars, spc>>
RefillerTurn   == RefillerNext /\ UNCHANGED <<receiverVars, printerVars, spc>>
CatcherTurn    == CatcherNext /\ UNCHANGED <<receiverVars, printerVars, refillerVars>>
WakeupTurn     == SpuriousWakeup /\ UNCHANGED <<receiverVars, printerVars, refillerVars, spc>>

-----------------------------------------------------------------------------
(* Types.  ThreadTypes is not inductive: a printer reads                    *)
(* papersRequired[target] and the refiller writes paper[refilling], so the  *)
(* invariant also says where these point.                                   *)

ThreadTypes ==
  /\ SharedTypeOK
  /\ ReceiverTypeOK
  /\ PrinterTypeOK
  /\ RefillerTypeOK
  /\ CatcherTypeOK

PointersOK ==
  /\ \A p \in Printers : Serving(p) => target[p] \in Jobs
  /\ fpc \in {"measure", "sleep", "readCount", "writeCount"} => refilling \in Printers
  /\ ReceiverHolds => jobId \in Jobs

ThreadInv == ThreadTypes /\ PointersOK

\* What the threads do to the shared state keeps it well typed.
LEMMA StatisticsTypes ==
  /\ NoStatistics \in Statistics
  /\ \A s \in Statistics, n \in Nat :
       /\ [s EXCEPT !.arrived = @ + 1] \in Statistics
       /\ [s EXCEPT !.served = @ + 1] \in Statistics
       /\ [s EXCEPT !.dropped = @ + 1] \in Statistics
       /\ [s EXCEPT !.removed = @ + n] \in Statistics
       /\ [s EXCEPT !.maxQueue = larger(n, @)] \in Statistics
BY DEF Statistics, NoStatistics, larger

\* Freeing jobs keeps papersRequired well typed.
LEMMA FreeJobsType ==
  ASSUME papersRequired \in [Jobs -> 0..MaxPapers], NEW js, FreeJobs(js)
  PROVE  papersRequired' \in [Jobs -> 0..MaxPapers]
BY ParametersAssumption DEF FreeJobs

\* Allocating a job keeps papersRequired well typed.
LEMMA NewJobType ==
  ASSUME papersRequired \in [Jobs -> 0..MaxPapers], NEW j \in Jobs,
         NEW papers \in MinPapers..MaxPapers
  PROVE  [papersRequired EXCEPT ![j] = papers] \in [Jobs -> 0..MaxPapers]
BY ParametersAssumption

\* A broadcast keeps the wait sets well typed.
LEMMA BroadcastType ==
  ASSUME waiting \in [CondVars -> SUBSET (Printers \cup {Refiller})],
         NEW cs \in SUBSET CondVars, Broadcast(cs)
  PROVE  waiting' \in [CondVars -> SUBSET (Printers \cup {Refiller})]
BY DEF Broadcast

\* The head and the tail of a non-empty sequence over S.
LEMMA HeadTail ==
  ASSUME NEW S, NEW s \in Seq(S), s # <<>>
  PROVE  Head(s) \in S /\ Tail(s) \in Seq(S)
OBVIOUS

\* The receiver keeps the types.
LEMMA ReceiverKeepsTypes == ASSUME ThreadInv, ReceiverTurn PROVE ThreadInv'
<1> USE PrintersAssumption, ParametersAssumption
        DEF ThreadInv, ThreadTypes, PointersOK, SharedTypeOK, ReceiverTypeOK, PrinterTypeOK,
            RefillerTypeOK, CatcherTypeOK, ReceiverPCs, ReceiverHolds, Serving,
            ReceiverTurn, sharedVars, queueVars, syncVars, flagVars, paperVars,
            printerVars, refillerVars
<1>1. CASE Allocate
  <2>1. jobId + 1 \in Jobs /\ jobId' = jobId + 1
    BY <1>1 DEF Allocate
  <2>2. PICK papers \in MinPapers..MaxPapers :
          papersRequired' = [papersRequired EXCEPT ![jobId + 1] = papers]
    BY <1>1 DEF Allocate
  <2>3. papersRequired' \in [Jobs -> 0..MaxPapers]
    BY <2>1, <2>2, NewJobType
  <2>4. SharedTypeOK'
    BY <1>1, <2>3 DEF Allocate
  <2>5. ReceiverTypeOK' /\ PointersOK'
    BY <1>1, <2>1 DEF Allocate
  <2>6. PrinterTypeOK' /\ RefillerTypeOK' /\ CatcherTypeOK'
    BY <1>1 DEF Allocate
  <2> QED
    BY <2>4, <2>5, <2>6
<1>2. CASE LoopEnds \/ EndOfArrivals
  BY <1>2 DEF LoopEnds, EndOfArrivals
<1>3. CASE ArrivalTimeElapses
  BY <1>3 DEF ArrivalTimeElapses
<1>4. CASE ReceiverCancelled
  BY <1>4 DEF ReceiverCancelled
<1>5. CASE CheckTermination
  BY <1>5 DEF CheckTermination
<1>6. CASE StopArrivals
  BY <1>6, FreeJobsType DEF StopArrivals
<1>7. CASE JobArrives
  BY <1>7, StatisticsTypes DEF JobArrives
<1>8. CASE Enqueue
  <2>1. jobQueue' \in Seq(Jobs)
    BY <1>8 DEF Enqueue
  <2>2. stats' \in Statistics
    <3>1. stats' = [stats EXCEPT !.maxQueue = larger(Len(jobQueue), @)]
      BY <1>8 DEF Enqueue
    <3>2. Len(jobQueue) \in Nat /\ stats \in Statistics
      OBVIOUS
    <3> QED
      BY <3>1, <3>2, StatisticsTypes
  <2> QED
    BY <1>8, <2>1, <2>2, BroadcastType DEF Enqueue
<1>9. CASE FindQueueFull
  BY <1>9 DEF FindQueueFull
<1>10. CASE DropJob
  BY <1>10, FreeJobsType, StatisticsTypes DEF DropJob
<1>11. CASE MarkAllArrived
  BY <1>11 DEF MarkAllArrived
<1>12. CASE ReceiverExits
  BY <1>12, BroadcastType DEF ReceiverExits
<1> QED
  BY <1>1, <1>2, <1>3, <1>4, <1>5, <1>6, <1>7, <1>8, <1>9, <1>10, <1>11, <1>12
  DEF ReceiverNext

\* The printers keep the types.
LEMMA PrinterKeepsTypes ==
  ASSUME ThreadInv, NEW p \in Printers, PrinterTurn(p)
  PROVE  ThreadInv'
<1> USE PrintersAssumption, ParametersAssumption
        DEF ThreadInv, ThreadTypes, PointersOK, SharedTypeOK, ReceiverTypeOK, PrinterTypeOK,
            RefillerTypeOK, CatcherTypeOK, PrinterPCs, ReceiverHolds, Serving, GoTo,
            RefillMutex, PrinterTurn, sharedVars, queueVars, syncVars, flagVars, paperVars,
            receiverVars, refillerVars
<1>1. CASE ReadTerminate(p)
  BY <1>1 DEF ReadTerminate
<1>2. CASE LeaveFromCheck(p)
  BY <1>2 DEF LeaveFromCheck, Forget
<1>3. CASE FindNoJob(p)
  BY <1>3 DEF FindNoJob, Acquire
<1>4. CASE BlockOnJob(p)
  BY <1>4 DEF BlockOnJob, CondWait, Release
<1>5. CASE WakeForJob(p)
  BY <1>5 DEF WakeForJob
<1>6. CASE FindTooLittlePaper(p)
  <2>1. Head(jobQueue) \in Jobs
    BY <1>6, HeadTail DEF FindTooLittlePaper
  <2> QED
    BY <1>6, <2>1 DEF FindTooLittlePaper
<1>7. CASE RequestRefill(p)
  <2>1. refillQueue' \in Seq(Printers)
    BY <1>7 DEF RequestRefill
  <2> QED
    BY <1>7, <2>1, BroadcastType DEF RequestRefill, Acquire
<1>8. CASE PaperSuffices(p)
  BY <1>8 DEF PaperSuffices, Release, Unpoint
<1>9. CASE PaperMissing(p)
  BY <1>9 DEF PaperMissing
<1>10. CASE BlockOnRefill(p)
  BY <1>10 DEF BlockOnRefill, CondWait, Release
<1>11. CASE WakeForRefill(p)
  BY <1>11 DEF WakeForRefill, Acquire
<1>12. CASE WakeToTerminate(p)
  BY <1>12 DEF WakeToTerminate, Unpoint
<1>13. CASE Dequeue(p)
  <2>1. Head(jobQueue) \in Jobs /\ Tail(jobQueue) \in Seq(Jobs)
    BY <1>13, HeadTail DEF Dequeue
  <2> QED
    BY <1>13, <2>1 DEF Dequeue
<1>14. CASE StartService(p)
  BY <1>14 DEF StartService
<1>15. CASE FinishPrinting(p)
  BY <1>15 DEF FinishPrinting
<1>16. CASE DeductPaper(p)
  <2>1. paperRead[p] - papersRequired[target[p]] \in Int
    BY <1>16 DEF DeductPaper
  <2>2. paper' \in [Printers -> Int]
    BY <1>16, <2>1 DEF DeductPaper
  <2>3. SharedTypeOK'
    BY <1>16, <2>2 DEF DeductPaper
  <2>4a. paperRead' \in [Printers -> Int]
    BY <1>16 DEF DeductPaper
  <2>4b. PrinterTypeOK'
    BY <1>16, <2>4a DEF DeductPaper
  <2>4c. PointersOK'
    BY <1>16 DEF DeductPaper
  <2>5. ReceiverTypeOK' /\ RefillerTypeOK' /\ CatcherTypeOK'
    BY <1>16 DEF DeductPaper
  <2> QED
    BY <2>3, <2>4b, <2>4c, <2>5
<1>17. CASE JobDeparts(p)
  BY <1>17, FreeJobsType, StatisticsTypes DEF JobDeparts, Unpoint
<1>18. CASE ReadArrived(p)
  BY <1>18 DEF ReadArrived
<1>19. CASE LeaveFromRecheck(p)
  BY <1>19 DEF LeaveFromRecheck, Forget
<1>20. CASE LookForNextJob(p)
  BY <1>20 DEF LookForNextJob, Forget
<1>21. CASE MarkServed(p)
  BY <1>21 DEF MarkServed
<1>22. CASE NotifyExit(p)
  BY <1>22, BroadcastType DEF NotifyExit
<1>23. CASE CancelRefiller(p)
  BY <1>23 DEF CancelRefiller
<1>24. CASE NotePaperWait(p)
  BY <1>24 DEF NotePaperWait
<1> QED
  BY <1>1, <1>2, <1>3, <1>4, <1>5, <1>6, <1>7, <1>8, <1>9, <1>10, <1>11, <1>12, <1>13, <1>14,
     <1>15, <1>16, <1>17, <1>18, <1>19, <1>20, <1>21, <1>22, <1>23, <1>24
  DEF PrinterNext

\* The refiller keeps the types.
LEMMA RefillerKeepsTypes == ASSUME ThreadInv, RefillerTurn PROVE ThreadInv'
<1> USE PrintersAssumption, ParametersAssumption
        DEF ThreadInv, ThreadTypes, PointersOK, SharedTypeOK, ReceiverTypeOK, PrinterTypeOK,
            RefillerTypeOK, CatcherTypeOK, RefillerPCs, ReceiverHolds, Serving, RefillerTurn,
            sharedVars, queueVars, syncVars, flagVars, paperVars, receiverVars, printerVars
<1>1. CASE RefillerExits
  BY <1>1, BroadcastType DEF RefillerExits
<1>2. CASE FindNoRequest
  BY <1>2 DEF FindNoRequest, Inspecting, Acquire
<1>3. CASE BlockOnSupplier
  BY <1>3 DEF BlockOnSupplier, CondWait, Release
<1>4. CASE TakeRequest
  <2>1. Head(refillQueue) \in Printers /\ Tail(refillQueue) \in Seq(Printers)
    BY <1>4, HeadTail DEF TakeRequest
  <2> QED
    BY <1>4, <2>1 DEF TakeRequest
<1>5. CASE FindPrinterFull
  BY <1>5 DEF FindPrinterFull
<1>6. CASE MeasureRefill
  <2>1. papersNeeded' \in Int
    BY <1>6 DEF MeasureRefill
  <2> QED
    BY <1>6, <2>1 DEF MeasureRefill
<1>7. CASE RefillTimeElapses
  BY <1>7 DEF RefillTimeElapses
<1>8. CASE RefillerCancelled
  BY <1>8 DEF RefillerCancelled
<1>9. CASE ReadCount
  BY <1>9 DEF ReadCount
<1>10. CASE WriteCount
  <2>1. paper' \in [Printers -> Int]
    BY <1>10 DEF WriteCount
  <2>2. SharedTypeOK'
    BY <1>10, <2>1 DEF WriteCount
  <2>3. RefillerTypeOK' /\ PointersOK'
    BY <1>10 DEF WriteCount
  <2>4. ReceiverTypeOK' /\ PrinterTypeOK' /\ CatcherTypeOK'
    BY <1>10 DEF WriteCount
  <2> QED
    BY <2>2, <2>3, <2>4
<1>11. CASE NotifyRefilled
  BY <1>11, BroadcastType DEF NotifyRefilled
<1>12. CASE NoteRefill
  BY <1>12 DEF NoteRefill
<1> QED
  BY <1>1, <1>2, <1>3, <1>4, <1>5, <1>6, <1>7, <1>8, <1>9, <1>10, <1>11, <1>12
  DEF RefillerNext

\* The catcher keeps the types.
LEMMA CatcherKeepsTypes == ASSUME ThreadInv, CatcherTurn PROVE ThreadInv'
<1> USE PrintersAssumption, ParametersAssumption
        DEF ThreadInv, ThreadTypes, PointersOK, SharedTypeOK, ReceiverTypeOK, PrinterTypeOK,
            RefillerTypeOK, CatcherTypeOK, CatcherPCs, ReceiverHolds, Serving, CatcherTurn,
            sharedVars, queueVars, syncVars, flagVars, paperVars, receiverVars, printerVars,
            refillerVars
<1>1. CASE CatchSignal
  BY <1>1 DEF CatchSignal
<1>2. CASE CancelThreads
  BY <1>2 DEF CancelThreads
<1>3. CASE DrainQueue
  <2>1. stats' \in Statistics
    <3>1. stats' = [stats EXCEPT !.removed = @ + Len(jobQueue)]
      BY <1>3 DEF DrainQueue
    <3>2. Len(jobQueue) \in Nat /\ stats \in Statistics
      OBVIOUS
    <3> QED
      BY <3>1, <3>2, StatisticsTypes
  <2> QED
    BY <1>3, <2>1, FreeJobsType, BroadcastType, EmptySeq DEF DrainQueue
<1>4. CASE NotifyTermination
  BY <1>4, BroadcastType DEF NotifyTermination
<1> QED
  BY <1>1, <1>2, <1>3, <1>4 DEF CatcherNext

\* Spurious wakeups keep the types.
LEMMA WakeupKeepsTypes == ASSUME ThreadInv, WakeupTurn PROVE ThreadInv'
BY DEF ThreadInv, ThreadTypes, PointersOK, SharedTypeOK, ReceiverTypeOK, PrinterTypeOK,
       RefillerTypeOK, CatcherTypeOK, ReceiverHolds, Serving, WakeupTurn, SpuriousWakeup,
       queueVars, flagVars, paperVars, receiverVars, printerVars, refillerVars

-----------------------------------------------------------------------------
(* A thread that is over takes no step *)

Ended == {"done", "cancelled"}

LEMMA EndedReceiverStays == rpc \in Ended => ~ReceiverTurn
BY DEF Ended, ReceiverTurn, ReceiverNext, EndOfArrivals, Allocate, LoopEnds, ArrivalTimeElapses,
       ReceiverCancelled, CheckTermination, StopArrivals, JobArrives, Enqueue, FindQueueFull,
       DropJob, MarkAllArrived, ReceiverExits

LEMMA EndedRefillerStays == fpc \in Ended => ~RefillerTurn
BY DEF Ended, RefillerTurn, RefillerNext, RefillerExits, FindNoRequest, BlockOnSupplier,
       TakeRequest, FindPrinterFull, MeasureRefill, RefillTimeElapses, RefillerCancelled,
       ReadCount, WriteCount, NoteRefill, NotifyRefilled, Inspecting

\* A printer that is over takes no step, and no printer moves another one.
LEMMA EndedPrinterStays ==
  ASSUME ThreadInv, NEW p \in Printers, PrinterTurn(p)
  PROVE  ppc[p] \notin {"done", "notStarted"} /\ \A q \in Printers \ {p} : ppc'[q] = ppc[q]
<1>1. ppc \in [Printers -> PrinterPCs]
  BY DEF ThreadInv, ThreadTypes, PrinterTypeOK
<1>2. ppc[p] \notin {"done", "notStarted"} /\ \E pc \in PrinterPCs : ppc' = [ppc EXCEPT ![p] = pc]
  BY DEF PrinterTurn, PrinterNext, GoTo, PrinterPCs, ReadTerminate, LeaveFromCheck, FindNoJob,
         BlockOnJob, WakeForJob, FindTooLittlePaper, RequestRefill, PaperSuffices, NotePaperWait, PaperMissing,
         BlockOnRefill, WakeForRefill, WakeToTerminate, Dequeue, StartService, FinishPrinting,
         DeductPaper, JobDeparts, ReadArrived, LeaveFromRecheck, LookForNextJob, MarkServed,
         NotifyExit, CancelRefiller
<1> QED BY <1>1, <1>2

-----------------------------------------------------------------------------
(* Sorted sequences of jobs *)

Sorted(s)   == \A i, k \in DOMAIN s : i < k => s[i] < s[k]
Elements(s) == {s[i] : i \in DOMAIN s}

\* Every element of a sequence over S is in S.
LEMMA SeqElement == ASSUME NEW S, NEW s \in Seq(S), NEW i \in DOMAIN s PROVE s[i] \in S
OBVIOUS

\* Appending a job younger than all of a sorted queue keeps it sorted.
LEMMA SortedAppend ==
  ASSUME NEW s \in Seq(Jobs), NEW j \in Jobs, Sorted(s), \A e \in Elements(s) : e < j
  PROVE  Sorted(Append(s, j)) /\ Elements(Append(s, j)) = Elements(s) \cup {j}
<1>1. \A i \in DOMAIN s : s[i] < j
  <2>1. \A i \in DOMAIN s : s[i] \in Elements(s)
    BY DEF Elements
  <2> QED
    BY <2>1
<1>2. /\ DOMAIN Append(s, j) = 1..(Len(s) + 1)
      /\ \A i \in 1..Len(s) : Append(s, j)[i] = s[i]
      /\ Append(s, j)[Len(s) + 1] = j
      /\ DOMAIN s = 1..Len(s) /\ Len(s) \in Nat
  OBVIOUS
<1>3. Sorted(Append(s, j))
  BY <1>1, <1>2 DEF Sorted
<1>4. Elements(Append(s, j)) = Elements(s) \cup {j}
  BY <1>2 DEF Elements
<1> QED
  BY <1>3, <1>4

\* Taking the head of a sorted queue leaves it sorted, with younger jobs only.
LEMMA SortedTail ==
  ASSUME NEW s \in Seq(Jobs), Sorted(s), s # <<>>
  PROVE  /\ Sorted(Tail(s))
         /\ Elements(s) = Elements(Tail(s)) \cup {Head(s)}
         /\ \A e \in Elements(Tail(s)) : Head(s) < e
<1>1. /\ Len(s) \in Nat \ {0} /\ DOMAIN s = 1..Len(s)
      /\ DOMAIN Tail(s) = 1..(Len(s) - 1)
      /\ \A i \in 1..(Len(s) - 1) : Tail(s)[i] = s[i + 1]
      /\ Head(s) = s[1]
  OBVIOUS
<1>2. Sorted(Tail(s))
  BY <1>1 DEF Sorted
<1>3. \A e \in Elements(Tail(s)) : e \in Elements(s) /\ Head(s) < e
  BY <1>1 DEF Sorted, Elements
<1>4. \A e \in Elements(s) : e = Head(s) \/ e \in Elements(Tail(s))
  <2>1. ASSUME NEW i \in DOMAIN s, i # 1 PROVE s[i] \in Elements(Tail(s))
    <3>1. i - 1 \in DOMAIN Tail(s) /\ Tail(s)[i - 1] = s[i]
      BY <1>1, <2>1
    <3> QED
      BY <3>1 DEF Elements
  <2> QED
    BY <1>1, <2>1 DEF Elements
<1>5. Head(s) \in Elements(s)
  BY <1>1 DEF Elements
<1> QED
  BY <1>2, <1>3, <1>4, <1>5

-----------------------------------------------------------------------------
(* The inductive invariant about jobs.  That every job has one owner is not  *)
(* inductive by itself: a new job is distinct from every job in the system   *)
(* because all of them are at most jobId, and a dequeued job is older than   *)
(* the rest of the queue because the queue is sorted.  The jobs in gone stay *)
(* allocated and belong to no thread any more.                               *)

JobsOwned(gone) ==
  /\ Sorted(jobQueue)
  /\ \A j \in Queued : j <= jobId /\ (ReceiverHolds => j # jobId)
  /\ \A p \in Printers : Serving(p) =>
       /\ target[p] <= jobId /\ (ReceiverHolds => target[p] # jobId)
       /\ \A j \in Queued : target[p] < j
  /\ \A p, q \in Printers : Serving(p) /\ Serving(q) /\ target[p] = target[q] => p = q
  /\ \A j \in gone :
       /\ j \in Jobs /\ j <= jobId /\ (ReceiverHolds => j # jobId)
       /\ j \notin Queued
       /\ \A p \in Printers : Serving(p) => target[p] # j
  /\ \A j \in Jobs :
       j \in Live <=> \/ j \in Queued
                      \/ \E p \in Printers : Serving(p) /\ target[p] = j
                      \/ ReceiverHolds /\ j = jobId
                      \/ j \in gone

\* The queued jobs are the elements of the queue, and are jobs.
LEMMA QueuedJobs == ThreadInv => Queued = Elements(jobQueue) /\ Queued \subseteq Jobs
<1>1. Queued = Elements(jobQueue)
  BY DEF Queued, Elements
<1>2. ASSUME ThreadInv, NEW i \in DOMAIN jobQueue PROVE jobQueue[i] \in Jobs
  <2>1. jobQueue \in Seq(Jobs)
    BY <1>2 DEF ThreadInv, ThreadTypes, SharedTypeOK
  <2> QED
    BY <1>2, <2>1, SeqElement
<1> QED
  BY <1>1, <1>2 DEF Queued

\* Freeing jobs takes exactly these out of the live ones.
LEMMA FreedJobs ==
  ASSUME NEW js, FreeJobs(js)
  PROVE  \A j \in Jobs : j \in Live' <=> j \in Live /\ j \notin js
BY DEF FreeJobs, Live

\* Most steps move no job.
JobsStay ==
  /\ UNCHANGED <<jobQueue, papersRequired, jobId>>
  /\ ReceiverHolds' <=> ReceiverHolds
  /\ \A p \in Printers : (Serving(p)' <=> Serving(p)) /\ (Serving(p) => target'[p] = target[p])

\* A step that moves no job preserves the invariant.
LEMMA JobsStayKeepsJobs == ASSUME NEW gone, JobsOwned(gone), JobsStay PROVE JobsOwned(gone)'
<1>1. Queued' = Queued /\ Sorted(jobQueue)' /\ Live' = Live
  BY DEF JobsOwned, JobsStay, Queued, Sorted, Live
<1> QED
  BY <1>1 DEF JobsOwned, JobsStay

\* The refiller and spurious wakeups move no job.
LEMMA OthersJobsStay == ASSUME RefillerTurn \/ WakeupTurn PROVE JobsStay
<1>1. UNCHANGED <<jobQueue, papersRequired, rpc, jobId, ppc, target>>
  BY DEF RefillerTurn, RefillerNext, RefillerExits, FindNoRequest, BlockOnSupplier, TakeRequest,
         FindPrinterFull, MeasureRefill, RefillTimeElapses, RefillerCancelled, ReadCount,
         WriteCount, NoteRefill, NotifyRefilled, WakeupTurn, SpuriousWakeup, sharedVars, queueVars,
         receiverVars, printerVars
<1> QED
  BY <1>1 DEF JobsStay, ReceiverHolds, Serving

\* The receiver creates, frees and queues only the job it holds.
LEMMA ReceiverKeepsJobs == ASSUME ThreadInv, NEW gone, JobsOwned(gone), ReceiverTurn PROVE JobsOwned(gone)'
<1> USE DEF ReceiverTurn, printerVars
<1>0. /\ jobId \in 0..NumJobs /\ (ReceiverHolds => jobId \in Jobs)
      /\ \A p \in Printers : Serving(p) => target[p] \in Jobs
      /\ Queued = Elements(jobQueue) /\ Queued \subseteq Jobs
  BY QueuedJobs DEF ThreadInv, ThreadTypes, PointersOK, ReceiverTypeOK
<1>00. UNCHANGED <<ppc, target>> /\ \A p \in Printers : Serving(p)' <=> Serving(p)
  BY DEF Serving
<1>1. CASE Allocate
  <2>1. ReceiverHolds' /\ jobId' = jobId + 1 /\ Queued' = Queued /\ jobQueue' = jobQueue
    BY <1>1 DEF Allocate, ReceiverHolds, Queued
  <2>2. \A j \in Jobs : j \in Live' <=> j \in Live \/ j = jobId + 1
    BY <1>1, <1>0, ParametersAssumption DEF Allocate, Live, ThreadInv, ThreadTypes, SharedTypeOK
  <2>3. ~ReceiverHolds
    BY <1>1 DEF Allocate, ReceiverHolds
  <2> QED
    BY <1>0, <1>00, <2>1, <2>2, <2>3 DEF JobsOwned, Sorted
<1>2. CASE StopArrivals
  <2>1. ReceiverHolds /\ ~ReceiverHolds' /\ jobId' = jobId /\ Queued' = Queued
        /\ jobQueue' = jobQueue
    BY <1>2 DEF StopArrivals, ReceiverHolds, Queued
  <2>2. \A j \in Jobs : j \in Live' <=> j \in Live /\ j # jobId
    BY <1>2, FreedJobs DEF StopArrivals
  <2> QED
    BY <1>0, <1>00, <2>1, <2>2 DEF JobsOwned, Sorted
<1>3. CASE DropJob
  <2>1. ReceiverHolds /\ ~ReceiverHolds' /\ jobId' = jobId /\ Queued' = Queued
        /\ jobQueue' = jobQueue
    BY <1>3 DEF DropJob, ReceiverHolds, Queued
  <2>2. \A j \in Jobs : j \in Live' <=> j \in Live /\ j # jobId
    BY <1>3, FreedJobs DEF DropJob
  <2> QED
    BY <1>0, <1>00, <2>1, <2>2 DEF JobsOwned, Sorted
<1>4. CASE Enqueue
  <2>1. ReceiverHolds /\ ~ReceiverHolds' /\ jobId' = jobId /\ Live' = Live
    BY <1>4 DEF Enqueue, ReceiverHolds, Live
  <2>2. jobQueue \in Seq(Jobs) /\ jobQueue' = Append(jobQueue, jobId)
    BY <1>4 DEF Enqueue, ThreadInv, ThreadTypes, SharedTypeOK
  <2>3. \A j \in Queued : j < jobId
    BY <1>0, <2>1 DEF JobsOwned
  <2>4. Sorted(jobQueue') /\ Queued' = Queued \cup {jobId}
    <3>1. Sorted(jobQueue)
      BY DEF JobsOwned
    <3>2. Queued' = Elements(jobQueue')
      BY DEF Queued, Elements
    <3> QED
      BY <1>0, <2>1, <2>2, <2>3, <3>1, <3>2, SortedAppend
  <2> QED
    BY <1>0, <1>00, <2>1, <2>4 DEF JobsOwned, Sorted
<1>5. CASE \/ EndOfArrivals \/ LoopEnds \/ ArrivalTimeElapses \/ ReceiverCancelled
           \/ CheckTermination \/ JobArrives \/ FindQueueFull \/ MarkAllArrived \/ ReceiverExits
  <2>1. JobsStay
    BY <1>00, <1>5
    DEF JobsStay, EndOfArrivals, LoopEnds, ArrivalTimeElapses, ReceiverCancelled, CheckTermination,
    JobArrives,
        FindQueueFull, MarkAllArrived, ReceiverExits, ReceiverHolds, sharedVars, queueVars
  <2> QED
    BY <2>1, JobsStayKeepsJobs
<1> QED
  BY <1>1, <1>2, <1>3, <1>4, <1>5 DEF ReceiverNext

\* The other steps of a printer move no job and count none.
LEMMA PrinterJobsStay ==
  ASSUME ThreadInv, NEW p \in Printers, PrinterTurn(p), ~(Dequeue(p) \/ JobDeparts(p))
  PROVE  JobsStay /\ stats' = stats
<1>0. ppc \in [Printers -> PrinterPCs] /\ target \in [Printers -> Jobs \cup {NoJob}]
  BY DEF ThreadInv, ThreadTypes, PrinterTypeOK
<1>00. UNCHANGED jobId /\ (ReceiverHolds' <=> ReceiverHolds)
  BY DEF PrinterTurn, receiverVars, ReceiverHolds
<1>1. UNCHANGED <<jobQueue, papersRequired, stats>>
  BY DEF PrinterTurn, PrinterNext, 
      ReadTerminate, LeaveFromCheck, FindNoJob, BlockOnJob, WakeForJob,
      FindTooLittlePaper, RequestRefill, PaperSuffices, NotePaperWait, PaperMissing, BlockOnRefill,
      WakeForRefill, WakeToTerminate, StartService, FinishPrinting, DeductPaper,
      ReadArrived, LeaveFromRecheck, LookForNextJob, MarkServed, NotifyExit,
      CancelRefiller, sharedVars, queueVars
<1>2. (Serving(p)' <=> Serving(p)) /\ (Serving(p) => target'[p] = target[p])
  BY <1>0 DEF Serving, GoTo, PrinterTurn, PrinterNext, 
      ReadTerminate, LeaveFromCheck, FindNoJob, BlockOnJob, WakeForJob,
      FindTooLittlePaper, RequestRefill, PaperSuffices, NotePaperWait, PaperMissing, BlockOnRefill,
      WakeForRefill, WakeToTerminate, StartService, FinishPrinting, DeductPaper,
      ReadArrived, LeaveFromRecheck, LookForNextJob, MarkServed, NotifyExit,
      CancelRefiller, sharedVars, queueVars, Unpoint
<1>3. \A q \in Printers \ {p} : (Serving(q)' <=> Serving(q)) /\ target'[q] = target[q]
  BY <1>0 DEF Serving, GoTo, PrinterTurn, PrinterNext, 
      ReadTerminate, LeaveFromCheck, FindNoJob, BlockOnJob, WakeForJob,
      FindTooLittlePaper, RequestRefill, PaperSuffices, NotePaperWait, PaperMissing, BlockOnRefill,
      WakeForRefill, WakeToTerminate, StartService, FinishPrinting, DeductPaper,
      ReadArrived, LeaveFromRecheck, LookForNextJob, MarkServed, NotifyExit,
      CancelRefiller, sharedVars, queueVars, Unpoint
<1> QED
  BY <1>00, <1>1, <1>2, <1>3 DEF JobsStay

\* A printer takes the job at the front of the queue and frees the one it serves.
LEMMA PrinterKeepsJobs ==
  ASSUME ThreadInv, NEW gone, JobsOwned(gone), NEW p \in Printers, PrinterTurn(p)
  PROVE  JobsOwned(gone)'
<1>0. /\ jobId \in 0..NumJobs
      /\ \A q \in Printers : Serving(q) => target[q] \in Jobs
      /\ Queued = Elements(jobQueue) /\ Queued \subseteq Jobs
      /\ ppc \in [Printers -> PrinterPCs] /\ target \in [Printers -> Jobs \cup {NoJob}]
  BY QueuedJobs DEF ThreadInv, ThreadTypes, PointersOK, ReceiverTypeOK, PrinterTypeOK
<1>00. UNCHANGED <<rpc, jobId>> /\ (ReceiverHolds' <=> ReceiverHolds)
  BY DEF PrinterTurn, receiverVars, ReceiverHolds
<1>1. CASE Dequeue(p)
  <2>1. /\ jobQueue \in Seq(Jobs) /\ jobQueue # <<>>
        /\ jobQueue' = Tail(jobQueue) /\ target' = [target EXCEPT ![p] = Head(jobQueue)]
        /\ Live' = Live
    BY <1>1 DEF Dequeue, ThreadInv, ThreadTypes, SharedTypeOK, Live
  <2>2. /\ ~Serving(p) /\ Serving(p)'
        /\ \A q \in Printers \ {p} : (Serving(q)' <=> Serving(q)) /\ target'[q] = target[q]
        /\ target'[p] = Head(jobQueue)
    BY <1>0, <1>1, <2>1 DEF Dequeue, GoTo, Serving
  <2>3. /\ Sorted(jobQueue') /\ Queued = Queued' \cup {Head(jobQueue)}
        /\ \A j \in Queued' : Head(jobQueue) < j
    <3>1. Queued' = Elements(jobQueue') /\ Sorted(jobQueue)
      BY DEF Queued, Elements, JobsOwned
    <3> QED
      BY <1>0, <2>1, <3>1, SortedTail
  <2>4. \A j \in Queued' : j <= jobId /\ (ReceiverHolds => j # jobId)
    BY <2>3 DEF JobsOwned
  <2>5. /\ Head(jobQueue) \in Jobs /\ Head(jobQueue) <= jobId
        /\ ReceiverHolds => Head(jobQueue) # jobId
        /\ \A q \in Printers : Serving(q) => target[q] < Head(jobQueue)
    BY <1>0, <2>3 DEF JobsOwned
  <2>6. \A q \in Printers : Serving(q)' =>
          /\ target'[q] <= jobId /\ (ReceiverHolds => target'[q] # jobId)
          /\ \A j \in Queued' : target'[q] < j
    BY <2>2, <2>3, <2>5 DEF JobsOwned
  <2>7. \A q, r \in Printers : Serving(q)' /\ Serving(r)' /\ target'[q] = target'[r] => q = r
    <3>1. \A q \in Printers \ {p} : Serving(q)' => target'[q] # Head(jobQueue)
      BY <1>0, <2>2, <2>5
    <3> QED
      BY <2>2, <3>1 DEF JobsOwned
  <2>8. \A j \in Jobs : (j \in Queued \/ \E q \in Printers : Serving(q) /\ target[q] = j)
                     <=> (j \in Queued' \/ \E q \in Printers : Serving(q)' /\ target'[q] = j)
    BY <2>2, <2>3
  <2> QED
    BY <1>00, <2>1, <2>3, <2>4, <2>6, <2>7, <2>8 DEF JobsOwned
<1>2. CASE JobDeparts(p)
  <2>1. /\ Serving(p) /\ ~Serving(p)'
        /\ \A q \in Printers \ {p} : (Serving(q)' <=> Serving(q)) /\ target'[q] = target[q]
        /\ jobQueue' = jobQueue /\ Queued' = Queued
    BY <1>0, <1>2 DEF JobDeparts, GoTo, Serving, Unpoint, Queued
  <2>2. \A j \in Jobs : j \in Live' <=> j \in Live /\ j # target[p]
    BY <1>2, FreedJobs DEF JobDeparts
  <2> QED
    BY <1>0, <1>00, <2>1, <2>2 DEF JobsOwned, Sorted
<1>3. CASE ~(Dequeue(p) \/ JobDeparts(p))
  BY <1>3, PrinterJobsStay, JobsStayKeepsJobs
<1> QED
  BY <1>1, <1>2, <1>3

\* The catcher frees exactly the jobs it removes from the queue.
LEMMA CatcherKeepsJobs == ASSUME ThreadInv, NEW gone, JobsOwned(gone), CatcherTurn PROVE JobsOwned(gone)'
<1>00. /\ UNCHANGED <<rpc, jobId, ppc, target>> /\ (ReceiverHolds' <=> ReceiverHolds)
       /\ \A p \in Printers : Serving(p)' <=> Serving(p)
  BY DEF CatcherTurn, receiverVars, printerVars, ReceiverHolds, Serving
<1>1. CASE DrainQueue
  <2>1. jobQueue' = <<>> /\ Queued' = {} /\ Sorted(jobQueue')
    BY <1>1 DEF DrainQueue, Queued, Sorted
  <2>2. \A j \in Jobs : j \in Live' <=> j \in Live /\ j \notin Queued
    BY <1>1, FreedJobs DEF DrainQueue
  <2>3. \A p \in Printers : Serving(p) => target[p] \notin Queued
    <3> SUFFICES ASSUME NEW p \in Printers, Serving(p), target[p] \in Queued PROVE FALSE
      OBVIOUS
    <3>1. target[p] < target[p] /\ target[p] \in Jobs
      BY DEF JobsOwned, ThreadInv, PointersOK
    <3> QED
      BY <3>1
  <2>4. ReceiverHolds => jobId \notin Queued
    BY DEF JobsOwned
  <2> QED
    BY <1>00, <2>1, <2>2, <2>3, <2>4 DEF JobsOwned
<1>2. CASE CatchSignal \/ CancelThreads \/ NotifyTermination
  <2>1. JobsStay
    BY <1>00, <1>2 DEF JobsStay, CatchSignal, CancelThreads, NotifyTermination, queueVars
  <2> QED
    BY <2>1, JobsStayKeepsJobs
<1> QED
  BY <1>1, <1>2 DEF CatcherTurn, CatcherNext

-----------------------------------------------------------------------------
(* What the invariant about jobs says of their owners *)

InService == {target[p] : p \in {q \in Printers : Serving(q)}}

\* No two places hold the same job, and the places hold all the allocated jobs.
LEMMA OwnersAreDistinct ==
  ASSUME ThreadInv, NEW gone, JobsOwned(gone)
  PROVE  /\ \A i, k \in DOMAIN jobQueue : jobQueue[i] = jobQueue[k] => i = k
         /\ Queued \cap InService = {} /\ gone \cap (Queued \cup InService) = {}
         /\ ReceiverHolds => jobId \notin Queued \cup InService \cup gone
         /\ Live = Queued \cup InService \cup gone \cup {j \in Jobs : ReceiverHolds /\ j = jobId}
<1>0. /\ Queued \subseteq Jobs /\ \A p \in Printers : Serving(p) => target[p] \in Jobs
      /\ gone \subseteq Jobs
  BY QueuedJobs DEF ThreadInv, PointersOK, JobsOwned
<1>1. \A i, k \in DOMAIN jobQueue : jobQueue[i] = jobQueue[k] => i = k
  <2> SUFFICES ASSUME NEW i \in DOMAIN jobQueue, NEW k \in DOMAIN jobQueue,
                      jobQueue[i] = jobQueue[k], i # k
               PROVE  FALSE
    OBVIOUS
  <2>1. jobQueue \in Seq(Jobs)
    BY DEF ThreadInv, ThreadTypes, SharedTypeOK
  <2>2. jobQueue[i] \in Jobs
    BY <2>1, SeqElement
  <2>3. i \in Nat /\ k \in Nat
    BY <2>1
  <2>4. jobQueue[i] < jobQueue[i]
    BY <2>2, <2>3 DEF JobsOwned, Sorted
  <2> QED
    BY <2>2, <2>4
<1>2. Queued \cap InService = {}
  <2> SUFFICES ASSUME NEW p \in Printers, Serving(p), target[p] \in Queued PROVE FALSE
    BY DEF InService
  <2>1. target[p] < target[p]
    BY DEF JobsOwned
  <2> QED
    BY <1>0, <2>1
<1>3. gone \cap (Queued \cup InService) = {}
  BY DEF JobsOwned, InService
<1>4. ReceiverHolds => jobId \notin Queued \cup InService \cup gone
  BY DEF JobsOwned, InService
<1>5. Live = Queued \cup InService \cup gone \cup {j \in Jobs : ReceiverHolds /\ j = jobId}
  BY <1>0 DEF JobsOwned, InService, Live
<1> QED
  BY <1>1, <1>2, <1>3, <1>4, <1>5

-----------------------------------------------------------------------------
(* The start of a program: nothing is queued, and no thread holds anything *)

AtRest ==
  /\ SharedInit /\ CatcherInit
  /\ rpc \in {"allocate", "done"} /\ jobId = 0
  /\ fpc \in {"lock", "done"} /\ refilling = NoPrinter /\ papersNeeded = 0 /\ countRead = 0
  /\ ppc \in [Printers -> {"readTerminate", "notStarted"}]
  /\ target = [p \in Printers |-> NoJob]
  /\ flagSeen = [p \in Printers |-> FALSE]
  /\ paperRead = [p \in Printers |-> 0]

LEMMA AtRestTypes == AtRest => ThreadInv
<1> SUFFICES ASSUME AtRest PROVE ThreadInv
  OBVIOUS
<1> USE PrintersAssumption, ParametersAssumption DEF AtRest
<1>1. SharedTypeOK
  <2>1. papersRequired \in [Jobs -> 0..MaxPapers] /\ paper \in [Printers -> Int]
    BY DEF SharedInit
  <2>2. owner \in [Mutexes -> Printers \cup {Refiller, NoThread}]
    BY DEF SharedInit
  <2>3. waiting \in [CondVars -> SUBSET (Printers \cup {Refiller})]
    BY DEF SharedInit
  <2> QED
    BY <2>1, <2>2, <2>3, StatisticsTypes, EmptySeq DEF SharedInit, SharedTypeOK
<1>2. ReceiverTypeOK /\ ~ReceiverHolds
  BY DEF ReceiverTypeOK, ReceiverPCs, ReceiverHolds
<1>3. PrinterTypeOK /\ \A p \in Printers : ~Serving(p)
  BY DEF PrinterTypeOK, PrinterPCs, Serving
<1>4. RefillerTypeOK /\ CatcherTypeOK
  BY DEF RefillerTypeOK, RefillerPCs, CatcherInit, CatcherTypeOK, CatcherPCs
<1> QED
  BY <1>1, <1>2, <1>3, <1>4 DEF ThreadInv, ThreadTypes, PointersOK

LEMMA AtRestJobs == AtRest => JobsOwned({})
<1> SUFFICES ASSUME AtRest PROVE JobsOwned({})
  OBVIOUS
<1>1. jobQueue = <<>> /\ Queued = {} /\ Sorted(jobQueue)
  BY DEF AtRest, SharedInit, Queued, Sorted
<1>2. \A p \in Printers : ~Serving(p)
  BY DEF AtRest, Serving
<1>3. ~ReceiverHolds
  BY DEF AtRest, ReceiverHolds
<1>4. \A j \in Jobs : j \notin Live
  BY DEF AtRest, SharedInit, Live
<1> QED
  BY <1>1, <1>2, <1>3, <1>4 DEF JobsOwned

-----------------------------------------------------------------------------
(* The inductive invariant.  Only printer p lowers paper[p] and only the      *)
(* refiller raises it, so a value either of them has read and not yet written *)
(* back is off in one direction only: the printer may have read too little,   *)
(* never too much, and the refiller too much, but never so much that adding   *)
(* what it measured passes the capacity.                                      *)

Printing(p) == ppc[p] \in {"startService", "printing", "deduct"}

PrinterPaperInv ==
  \A p \in Printers :
    /\ 0 <= paper[p] /\ paper[p] <= PaperCapacity
    /\ Printing(p) => papersRequired[target[p]] <= paper[p]
    /\ ppc[p] = "deduct" =>
         papersRequired[target[p]] <= paperRead[p] /\ paperRead[p] <= paper[p]

RefillerPaperInv ==
  /\ fpc \in {"sleep", "readCount", "writeCount"} =>
       papersNeeded > 0 /\ paper[refilling] + papersNeeded <= PaperCapacity
  /\ fpc = "writeCount" =>
       paper[refilling] <= countRead /\ countRead + papersNeeded <= PaperCapacity

PaperInv == PrinterPaperInv /\ RefillerPaperInv

\* Every printer starts with a full load.
LEMMA AtRestPaper == AtRest => PaperInv
<1> SUFFICES ASSUME AtRest PROVE PaperInv
  OBVIOUS
<1>1. \A p \in Printers : paper[p] = PaperCapacity /\ ~Printing(p) /\ ppc[p] # "deduct"
  BY DEF AtRest, SharedInit, Printing
<1>2. fpc \in {"lock", "done"}
  BY DEF AtRest
<1> QED
  BY <1>1, <1>2, ParametersAssumption DEF PaperInv, PrinterPaperInv, RefillerPaperInv

\* A freed job has no papers_required, so freeing never raises the need of a target.
LEMMA FreedNeedNothing ==
  ASSUME ThreadInv, NEW js, FreeJobs(js)
  PROVE  \A j \in Jobs : papersRequired'[j] <= papersRequired[j]
BY DEF ThreadInv, ThreadTypes, SharedTypeOK, FreeJobs

\* Most steps of the printers and of the threads that create and free jobs touch
\* no paper and give no printer a job, or one that needs more than before.
PaperStays ==
  /\ UNCHANGED <<paper, refillerVars>>
  /\ \A p \in Printers :
       /\ Printing(p)' => Printing(p) /\ papersRequired'[target'[p]] <= papersRequired[target[p]]
       /\ ppc'[p] = "deduct" => ppc[p] = "deduct" /\ paperRead'[p] = paperRead[p]

\* A step that touches no paper count preserves the invariant.
LEMMA PaperStaysKeepsPaper == ASSUME ThreadInv, ThreadInv', PaperInv, PaperStays PROVE PaperInv'
<1>0. /\ paper \in [Printers -> Int] /\ paperRead \in [Printers -> Int]
      /\ papersRequired \in [Jobs -> 0..MaxPapers] /\ papersRequired' \in [Jobs -> 0..MaxPapers]
      /\ \A p \in Printers : Serving(p) => target[p] \in Jobs
      /\ \A p \in Printers : Serving(p)' => target'[p] \in Jobs
  BY DEF ThreadInv, ThreadTypes, SharedTypeOK, PrinterTypeOK, PointersOK
<1>1. PrinterPaperInv'
  <2> SUFFICES ASSUME NEW p \in Printers
               PROVE  /\ 0 <= paper'[p] /\ paper'[p] <= PaperCapacity
                      /\ Printing(p)' => papersRequired'[target'[p]] <= paper'[p]
                      /\ ppc'[p] = "deduct" =>
                           papersRequired'[target'[p]] <= paperRead'[p] /\ paperRead'[p] <= paper'[p]
    BY DEF PrinterPaperInv, Printing
  <2>1. paper'[p] = paper[p] /\ 0 <= paper[p] /\ paper[p] <= PaperCapacity
    BY DEF PaperStays, PaperInv, PrinterPaperInv
  <2>2. ASSUME Printing(p)' PROVE papersRequired'[target'[p]] <= paper'[p]
    <3>1. /\ papersRequired'[target'[p]] <= papersRequired[target[p]]
          /\ papersRequired[target[p]] <= paper[p]
      BY <2>2 DEF PaperStays, PaperInv, PrinterPaperInv
    <3>2. /\ papersRequired'[target'[p]] \in Int /\ papersRequired[target[p]] \in Int
          /\ paper[p] \in Int
      BY <1>0, <2>2 DEF Printing, Serving, PaperStays
    <3> QED
      BY <2>1, <3>1, <3>2
  <2>3. ASSUME ppc'[p] = "deduct"
        PROVE  papersRequired'[target'[p]] <= paperRead'[p] /\ paperRead'[p] <= paper'[p]
    <3>1. /\ papersRequired'[target'[p]] <= papersRequired[target[p]]
          /\ papersRequired[target[p]] <= paperRead[p]
          /\ paperRead'[p] = paperRead[p] /\ paperRead[p] <= paper[p]
      BY <2>3 DEF PaperStays, PaperInv, PrinterPaperInv, Printing
    <3>2. /\ papersRequired'[target'[p]] \in Int /\ papersRequired[target[p]] \in Int
          /\ paperRead[p] \in Int
      BY <1>0, <2>3 DEF Serving, PaperStays
    <3> QED
      BY <2>1, <3>1, <3>2
  <2> QED
    BY <2>1, <2>2, <2>3
<1>2. RefillerPaperInv'
  BY DEF PaperStays, PaperInv, RefillerPaperInv, refillerVars
<1> QED
  BY <1>1, <1>2 DEF PaperInv

\* The receiver changes only the job it holds, which no printer serves.
LEMMA ReceiverKeepsPaper ==
  ASSUME ThreadInv, ThreadInv', NEW gone, JobsOwned(gone), PaperInv, ReceiverTurn
  PROVE  PaperInv'
<1>0. UNCHANGED <<paper, ppc, target, paperRead, refillerVars>>
  BY DEF ReceiverTurn, ReceiverNext, EndOfArrivals, Allocate, StopArrivals, DropJob, LoopEnds,
         ArrivalTimeElapses, ReceiverCancelled, CheckTermination, JobArrives, Enqueue,
         FindQueueFull, MarkAllArrived, ReceiverExits, sharedVars, paperVars, printerVars
<1>1. \A p \in Printers : Serving(p) => target[p] \in Jobs /\ target[p] <= jobId
  BY DEF ThreadInv, PointersOK, JobsOwned
<1>1a. papersRequired \in [Jobs -> 0..MaxPapers]
  BY DEF ThreadInv, ThreadTypes, SharedTypeOK
<1>1b. \A p \in Printers : Serving(p) => papersRequired[target[p]] \in Int
  BY <1>1, <1>1a
<1>2. \A p \in Printers : Serving(p) => papersRequired'[target[p]] <= papersRequired[target[p]]
  <2>1. CASE Allocate
    <3>1. \A p \in Printers : Serving(p) => papersRequired'[target[p]] = papersRequired[target[p]]
      <4> SUFFICES ASSUME NEW p \in Printers, Serving(p)
                   PROVE  papersRequired'[target[p]] = papersRequired[target[p]]
        OBVIOUS
      <4>1. target[p] # jobId + 1
        BY <1>1 DEF ThreadInv, ThreadTypes, ReceiverTypeOK
      <4> QED
        BY <1>1, <2>1, <4>1 DEF Allocate, ThreadInv, ThreadTypes, SharedTypeOK
    <3> QED
      BY <1>1b, <3>1
  <2>2. CASE StopArrivals \/ DropJob
    <3>1. FreeJobs({jobId})
      BY <2>2 DEF StopArrivals, DropJob
    <3> QED
      BY <1>1, <3>1, FreedNeedNothing
  <2>3. CASE papersRequired' = papersRequired
    BY <1>1b, <2>3
  <2> QED
    BY <2>1, <2>2, <2>3
    DEF ReceiverTurn, ReceiverNext, EndOfArrivals, LoopEnds, ArrivalTimeElapses,
        ReceiverCancelled, CheckTermination, JobArrives, Enqueue, FindQueueFull, MarkAllArrived,
        ReceiverExits, sharedVars, queueVars
<1>3. PaperStays
  BY <1>0, <1>2 DEF PaperStays, Printing, Serving
<1> QED
  BY <1>3, PaperStaysKeepsPaper

\* The catcher frees queued jobs only, which no printer serves.
LEMMA CatcherKeepsPaper ==
  ASSUME ThreadInv, ThreadInv', PaperInv, CatcherTurn
  PROVE  PaperInv'
<1>0. UNCHANGED <<paper, ppc, target, paperRead, refillerVars>>
  BY DEF CatcherTurn, CatcherNext, CatchSignal, CancelThreads, DrainQueue, NotifyTermination,
         paperVars, printerVars
<1>1. \A j \in Jobs : papersRequired'[j] <= papersRequired[j]
  <2>1. CASE DrainQueue
    BY <2>1, FreedNeedNothing DEF DrainQueue
  <2>2. CASE papersRequired' = papersRequired
    <3>1. papersRequired \in [Jobs -> 0..MaxPapers]
      BY DEF ThreadInv, ThreadTypes, SharedTypeOK
    <3> QED
      BY <2>2, <3>1
  <2> QED
    BY <2>1, <2>2 DEF CatcherTurn, CatcherNext, CatchSignal, CancelThreads, NotifyTermination,
                      queueVars
<1>2. \A p \in Printers : Serving(p) => target[p] \in Jobs
  BY DEF ThreadInv, PointersOK
<1>3. PaperStays
  BY <1>0, <1>1, <1>2 DEF PaperStays, Printing, Serving
<1> QED
  BY <1>3, PaperStaysKeepsPaper

\* A printer takes jobs it has the paper for and deducts what they need.
LEMMA PrinterKeepsPaper ==
  ASSUME ThreadInv, ThreadInv', PaperInv, NEW p \in Printers, PrinterTurn(p)
  PROVE  PaperInv'
<1>0. /\ ppc \in [Printers -> PrinterPCs] /\ target \in [Printers -> Jobs \cup {NoJob}]
      /\ paper \in [Printers -> Int] /\ paperRead \in [Printers -> Int]
      /\ papersRequired \in [Jobs -> 0..MaxPapers]
      /\ \A q \in Printers : Serving(q) => target[q] \in Jobs
  BY DEF ThreadInv, ThreadTypes, SharedTypeOK, PrinterTypeOK, PointersOK
<1>00. UNCHANGED refillerVars
  BY DEF PrinterTurn
<1>1. CASE Dequeue(p)
  <2>1. /\ papersRequired' = papersRequired /\ paper' = paper
        /\ ppc' = [ppc EXCEPT ![p] = "startService"]
        /\ target' = [target EXCEPT ![p] = Head(jobQueue)]
        /\ paperRead' = paperRead
        /\ papersRequired[Head(jobQueue)] <= paper[p]
    BY <1>1 DEF Dequeue, GoTo, HasPaperFor, paperVars
  <2>2. PrinterPaperInv'
    BY <1>0, <2>1 DEF PaperInv, PrinterPaperInv, Printing
  <2> QED
    BY <1>00, <2>1, <2>2 DEF PaperInv, RefillerPaperInv, refillerVars
<1>2. CASE FinishPrinting(p)
  <2>1. /\ papersRequired' = papersRequired /\ paper' = paper /\ target' = target
        /\ ppc[p] = "printing" /\ ppc' = [ppc EXCEPT ![p] = "deduct"]
        /\ paperRead' = [paperRead EXCEPT ![p] = paper[p]]
    BY <1>2 DEF FinishPrinting, GoTo, sharedVars, queueVars, paperVars
  <2>2. PrinterPaperInv'
    BY <1>0, <2>1 DEF PaperInv, PrinterPaperInv, Printing
  <2> QED
    BY <1>00, <2>1, <2>2 DEF PaperInv, RefillerPaperInv, refillerVars
<1>3. CASE DeductPaper(p)
  <2>1. /\ papersRequired' = papersRequired /\ target' = target
        /\ ppc[p] = "deduct" /\ ppc' = [ppc EXCEPT ![p] = "depart"]
        /\ paper' = [paper EXCEPT ![p] = paperRead[p] - papersRequired[target[p]]]
        /\ paperRead' = [paperRead EXCEPT ![p] = 0]
    BY <1>3 DEF DeductPaper, GoTo, queueVars
  <2>2. /\ target[p] \in Jobs /\ papersRequired[target[p]] \in Nat /\ paperRead[p] \in Int
        /\ papersRequired[target[p]] <= paperRead[p] /\ paperRead[p] <= paper[p]
    BY <1>0, <2>1 DEF Serving, PaperInv, PrinterPaperInv
  <2>3. /\ 0 <= paper'[p] /\ paper'[p] <= paper[p] /\ paper'[p] \in Int
        /\ \A q \in Printers \ {p} : paper'[q] = paper[q]
    BY <1>0, <2>1, <2>2
  <2>4. PrinterPaperInv'
    BY <1>0, <2>1, <2>3, ParametersAssumption DEF PaperInv, PrinterPaperInv, Printing
  <2>5. RefillerPaperInv'
    <3>1. fpc \in {"sleep", "readCount", "writeCount"} =>
            refilling \in Printers /\ papersNeeded \in Int /\ countRead \in Int
      BY DEF ThreadInv, ThreadTypes, RefillerTypeOK, PointersOK
    <3>2. \A q \in Printers : paper'[q] <= paper[q] /\ paper'[q] \in Int /\ paper[q] \in Int
      BY <1>0, <2>3
    <3> QED
      BY <1>00, <3>1, <3>2, ParametersAssumption DEF PaperInv, RefillerPaperInv, refillerVars
  <2> QED
    BY <2>4, <2>5 DEF PaperInv
<1>4. CASE JobDeparts(p)
  <2>1. \A j \in Jobs : papersRequired'[j] <= papersRequired[j]
    BY <1>4, FreedNeedNothing DEF JobDeparts
  <2>2. /\ paper' = paper /\ paperRead' = paperRead /\ ppc' = [ppc EXCEPT ![p] = "readArrived"]
        /\ \A q \in Printers \ {p} : target'[q] = target[q]
    BY <1>0, <1>4 DEF JobDeparts, GoTo, Unpoint, paperVars
  <2>3. PaperStays
    BY <1>0, <1>00, <2>1, <2>2 DEF PaperStays, Printing, Serving
  <2> QED
    BY <2>3, PaperStaysKeepsPaper
<1>5. CASE ~(Dequeue(p) \/ FinishPrinting(p) \/ DeductPaper(p) \/ JobDeparts(p))
  <2>1. UNCHANGED <<paper, papersRequired, paperRead>>
    BY <1>5 DEF PrinterTurn, PrinterNext, 
        ReadTerminate, LeaveFromCheck, FindNoJob, BlockOnJob, WakeForJob,
        FindTooLittlePaper, RequestRefill, PaperSuffices, NotePaperWait, PaperMissing, BlockOnRefill,
        WakeForRefill, WakeToTerminate, StartService, ReadArrived, LeaveFromRecheck,
        LookForNextJob, MarkServed, NotifyExit, CancelRefiller, sharedVars, queueVars,
        paperVars
  <2>2. /\ Printing(p)' => Printing(p) /\ target'[p] = target[p]
        /\ ppc'[p] = "deduct" => ppc[p] = "deduct"
    BY <1>0, <1>5 DEF Printing, GoTo, PrinterTurn, PrinterNext, 
        ReadTerminate, LeaveFromCheck, FindNoJob, BlockOnJob, WakeForJob,
        FindTooLittlePaper, RequestRefill, PaperSuffices, NotePaperWait, PaperMissing, BlockOnRefill,
        WakeForRefill, WakeToTerminate, StartService, ReadArrived, LeaveFromRecheck,
        LookForNextJob, MarkServed, NotifyExit, CancelRefiller, sharedVars, queueVars,
        paperVars, Unpoint
  <2>3. \A q \in Printers \ {p} : ppc'[q] = ppc[q] /\ target'[q] = target[q]
    BY <1>0, <1>5 DEF GoTo, PrinterTurn, PrinterNext, 
        ReadTerminate, LeaveFromCheck, FindNoJob, BlockOnJob, WakeForJob,
        FindTooLittlePaper, RequestRefill, PaperSuffices, NotePaperWait, PaperMissing, BlockOnRefill,
        WakeForRefill, WakeToTerminate, StartService, ReadArrived, LeaveFromRecheck,
        LookForNextJob, MarkServed, NotifyExit, CancelRefiller, sharedVars, queueVars,
        paperVars, Unpoint
  <2>4. \A q \in Printers : Printing(q) => papersRequired[target[q]] <= papersRequired[target[q]]
    BY <1>0 DEF Printing, Serving
  <2>5. PaperStays
    BY <1>00, <2>1, <2>2, <2>3, <2>4 DEF PaperStays, Printing
  <2> QED
    BY <2>5, PaperStaysKeepsPaper
<1> QED
  BY <1>1, <1>2, <1>3, <1>4, <1>5

\* The refiller adds what it measured, while the printer can only use paper up.
LEMMA RefillerKeepsPaper ==
  ASSUME ThreadInv, ThreadInv', PaperInv, RefillerTurn
  PROVE  PaperInv'
<1>0. /\ paper \in [Printers -> Int] /\ papersNeeded \in Int /\ countRead \in Int
      /\ papersRequired \in [Jobs -> 0..MaxPapers]
      /\ fpc \in {"measure", "sleep", "readCount", "writeCount"} => refilling \in Printers
      /\ \A q \in Printers : Serving(q) => target[q] \in Jobs
      /\ paperRead \in [Printers -> Int]
  BY DEF ThreadInv, ThreadTypes, SharedTypeOK, RefillerTypeOK, PointersOK, PrinterTypeOK
<1>00. UNCHANGED <<ppc, target, paperRead, papersRequired>>
  BY DEF RefillerTurn, RefillerNext, RefillerExits, FindNoRequest, BlockOnSupplier, TakeRequest,
         FindPrinterFull, MeasureRefill, RefillTimeElapses, RefillerCancelled, ReadCount,
         WriteCount, NoteRefill, NotifyRefilled, sharedVars, queueVars, printerVars
<1>1. CASE WriteCount
  <2>1. /\ fpc = "writeCount" /\ fpc' = "note"
        /\ paper' = [paper EXCEPT ![refilling] = countRead + papersNeeded]
    BY <1>1 DEF WriteCount
  <2>2. /\ paper[refilling] <= countRead + papersNeeded
        /\ countRead + papersNeeded <= PaperCapacity
    BY <1>0, <2>1 DEF PaperInv, RefillerPaperInv
  <2>3. \A q \in Printers : paper[q] <= paper'[q] /\ paper'[q] \in Int /\ paper[q] \in Int
    BY <1>0, <2>1, <2>2
  <2>4. \A q \in Printers : paper'[q] <= PaperCapacity
    BY <1>0, <2>1, <2>2 DEF PaperInv, PrinterPaperInv
  <2>5. \A q \in Printers : Printing(q) => papersRequired[target[q]] \in Int
    BY <1>0 DEF Printing, Serving
  <2>6. PrinterPaperInv'
    <3> SUFFICES ASSUME NEW q \in Printers
                 PROVE  /\ 0 <= paper'[q] /\ paper'[q] <= PaperCapacity
                        /\ Printing(q) => papersRequired[target[q]] <= paper'[q]
                        /\ ppc[q] = "deduct" =>
                             papersRequired[target[q]] <= paperRead[q] /\ paperRead[q] <= paper'[q]
      BY <1>00 DEF PrinterPaperInv, Printing
    <3>1. paperRead[q] \in Int
      BY <1>0
    <3> QED
      BY <2>3, <2>4, <2>5, <3>1 DEF PaperInv, PrinterPaperInv
  <2> QED
    BY <2>1, <2>6 DEF PaperInv, RefillerPaperInv
<1>2. CASE ~WriteCount
  <2>1. paper' = paper
    BY <1>2 DEF RefillerTurn, RefillerNext, RefillerExits, FindNoRequest, BlockOnSupplier,
      TakeRequest, FindPrinterFull, MeasureRefill, RefillTimeElapses, RefillerCancelled,
      ReadCount, NoteRefill, NotifyRefilled, sharedVars, paperVars
  <2>2. PrinterPaperInv'
    BY <1>00, <2>1 DEF PaperInv, PrinterPaperInv, Printing
  <2>3. RefillerPaperInv'
    <3>1. CASE MeasureRefill
      BY <1>0, <2>1, <3>1, ParametersAssumption DEF MeasureRefill, RefillerPaperInv
    <3>2. CASE ReadCount
      BY <1>0, <2>1, <3>2 DEF ReadCount, PaperInv, RefillerPaperInv
    <3>3. CASE RefillTimeElapses
      BY <2>1, <3>3 DEF RefillTimeElapses, PaperInv, RefillerPaperInv
    <3>4. CASE fpc' \notin {"sleep", "readCount", "writeCount"}
      BY <3>4 DEF RefillerPaperInv
    <3> QED
      BY <1>2, <3>1, <3>2, <3>3, <3>4
      DEF RefillerTurn, RefillerNext, RefillerExits, FindNoRequest, BlockOnSupplier,
          TakeRequest, FindPrinterFull, RefillerCancelled, NoteRefill, NotifyRefilled
  <2> QED
    BY <2>2, <2>3 DEF PaperInv
<1> QED
  BY <1>1, <1>2

\* Spurious wakeups touch no paper.
LEMMA WakeupKeepsPaper == ASSUME PaperInv, WakeupTurn PROVE PaperInv'
<1>1. UNCHANGED <<paper, papersRequired, ppc, target, paperRead, refillerVars>>
  BY DEF WakeupTurn, SpuriousWakeup, queueVars, paperVars, printerVars
<1> QED
  BY <1>1 DEF PaperInv, PrinterPaperInv, RefillerPaperInv, Printing, refillerVars
=============================================================================
