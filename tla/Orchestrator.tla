----------------------------- MODULE Orchestrator -----------------------------
(***************************************************************************)
(* The state the threads of one simulation share: the job queue, the paper *)
(* refill queue, the mutexes and condition variables that protect them,    *)
(* the termination flags, the printers' paper and the statistics.  The     *)
(* thread modules (JobReceiver, Printer, PaperRefiller, SignalCatcher)     *)
(* extend this one; PrintService composes them.                            *)
(*                                                                         *)
(* A critical section is one step, enabled when its mutexes are free,      *)
(* except where the code keeps the mutex between a test and a wait: there  *)
(* the owner is recorded, so that a broadcast may only fall between the    *)
(* two if the code allows it.  The statistics mutex and the lock that      *)
(* flockfile(stdout) takes around every event of the console are never     *)
(* kept across a wait: their only owners are threads that died in an event *)
(* (ScaledPrintService).  The state mutex has no event in its sections and *)
(* no owner is recorded for it.                                            *)
(***************************************************************************)
EXTENDS Integers, Sequences, FiniteSets

CONSTANTS
  ConsumerCount,    \* params.consumer_count: printers started by main
  MaxPrinters,      \* CONFIG_RANGE_CONSUMER_COUNT_MAX: slots of the printer pool
  NumJobs,          \* params.num_jobs
  MinPapers,        \* params.papers_required_lower_bound
  MaxPapers,        \* params.papers_required_upper_bound
  PaperCapacity,    \* params.printer_paper_capacity
  QueueCapacity,    \* params.queue_capacity, -1 when unlimited
  UserMayInterrupt, \* whether the environment may send SIGINT
  WakesSpuriously   \* whether pthread_cond_wait may return without a broadcast

\* What preprocessing.c lets through to the threads.
ASSUME PrintersAssumption ==
  /\ ConsumerCount \in Nat \ {0}
  /\ MaxPrinters \in Nat /\ ConsumerCount <= MaxPrinters

ASSUME ParametersAssumption ==
  /\ NumJobs \in Nat
  /\ MinPapers \in Nat \ {0} /\ MaxPapers \in Nat /\ MinPapers <= MaxPapers
  /\ PaperCapacity \in Nat /\ MaxPapers <= PaperCapacity
  /\ QueueCapacity \in Nat \cup {-1}

ASSUME EnvironmentAssumption ==
  /\ UserMayInterrupt \in BOOLEAN
  /\ WakesSpuriously \in BOOLEAN

Printers        == 1..MaxPrinters
InitialPrinters == 1..ConsumerCount
Jobs            == 1..NumJobs
NoJob           == 0
NoMemory        == 0

\* Threads that may keep a mutex across steps, and the targets of pthread_cancel.
Refiller == 0
NoThread == -1
Scaler   == -2
Cancellable == {"job_receiver", "paper_refiller"}

Mutexes  == {"job_queue", "paper_refill_queue", "stats", "stdout"}
CondVars == {"job_queue_not_empty", "refill_needed", "refill_supplier"}

VARIABLES
  jobQueue,        \* job_queue: ids of the queued jobs, oldest first
  papersRequired,  \* job->papers_required, NoMemory unless the job is allocated
  refillQueue,     \* paper_refill_queue: printers asking for paper, oldest first
  owner,           \* thread that keeps each mutex
  waiting,         \* threads blocked on each condition variable
  cancelled,       \* threads with a pending pthread_cancel
  terminateNow,    \* g_terminate_now
  allJobsArrived,  \* *all_jobs_arrived
  allJobsServed,   \* *all_jobs_served
  paper,           \* printer->current_paper_count
  isIdle,          \* printer->is_idle
  stats            \* the counters of simulation_statistics_t about jobs

queueVars == <<jobQueue, papersRequired>>
syncVars  == <<owner, waiting, cancelled>>
flagVars  == <<terminateNow, allJobsArrived, allJobsServed>>
paperVars == <<paper, isIdle>>
sharedVars == <<queueVars, refillQueue, syncVars, flagVars, paperVars, stats>>

-----------------------------------------------------------------------------
(* pthread primitives *)

Free(m)       == owner[m] = NoThread
Acquire(m, t) == Free(m) /\ owner' = [owner EXCEPT ![m] = t]

\* An event of the console locks stdout for its output.
MayPrint == Free("stdout")

\* t is cancelled in the output of an event: nobody releases its mutexes ms again.
Keep(ms, t) ==
  /\ \A m \in ms : Free(m)
  /\ owner' = [m \in Mutexes |-> IF m \in ms THEN t ELSE owner[m]]
Release(m)    == owner' = [owner EXCEPT ![m] = NoThread]

\* pthread_cond_wait(c, m): release m and block on c in one step.
CondWait(c, m, t) ==
  /\ Release(m)
  /\ waiting' = [waiting EXCEPT ![c] = @ \cup {t}]

Broadcast(cs) == waiting' = [c \in CondVars |-> IF c \in cs THEN {} ELSE waiting[c]]

\* A thread blocked on c has been woken and contends for its mutex again.
Woken(c, t) == t \notin waiting[c]

\* POSIX lets pthread_cond_wait return although nobody signalled.
SpuriousWakeup ==
  /\ WakesSpuriously
  /\ \E c \in CondVars : \E t \in waiting[c] :
       waiting' = [waiting EXCEPT ![c] = @ \ {t}]
  /\ UNCHANGED <<queueVars, refillQueue, owner, cancelled, flagVars, paperVars, stats>>

-----------------------------------------------------------------------------
(* Jobs and printers *)

\* Mutant: every printer is given the job queue mutex.
RefillMutex_Same(p) == IF p \in Printers THEN "job_queue" ELSE "paper_refill_queue"

\* The mutex a printer is given as paper_refill_queue_mutex: main passes the
\* paper refill mutex, scale_up passes the job queue mutex.
RefillMutex(p) == IF p \in InitialPrinters THEN "paper_refill_queue" ELSE "job_queue"

\* The jobs malloc'ed and not freed.
Live == {j \in Jobs : papersRequired[j] # NoMemory}

FreeJobs(js) == papersRequired' = [j \in Jobs |-> IF j \in js THEN NoMemory ELSE papersRequired[j]]

\* Reading papers_required through a pointer to a freed job yields any value;
\* 0 .. PaperCapacity + 1 covers both outcomes of every comparison with it.
PapersRead(j) == IF j \in Live THEN {papersRequired[j]} ELSE 0..(PaperCapacity + 1)

\* Mutant: > for >=, the queue grows one job too long.
QueueFull_OneTooMany == QueueCapacity # -1 /\ Len(jobQueue) > QueueCapacity

QueueFull == QueueCapacity # -1 /\ Len(jobQueue) >= QueueCapacity

\* The jobs in the queue, and the printers with a queued refill request.
Queued     == {jobQueue[i] : i \in DOMAIN jobQueue}
Requesting == {refillQueue[i] : i \in DOMAIN refillQueue}

Statistics   == [arrived : Nat, served : Nat, dropped : Nat, removed : Nat, maxQueue : Nat]
NoStatistics == [arrived |-> 0, served |-> 0, dropped |-> 0, removed |-> 0, maxQueue |-> 0]

larger(a, b) == IF a > b THEN a ELSE b

SharedInit ==
  /\ jobQueue = <<>>
  /\ papersRequired = [j \in Jobs |-> NoMemory]
  /\ refillQueue = <<>>
  /\ owner = [m \in Mutexes |-> NoThread]
  /\ waiting = [c \in CondVars |-> {}]
  /\ cancelled = {}
  /\ terminateNow = FALSE
  /\ allJobsArrived = FALSE
  /\ allJobsServed = FALSE
  /\ paper = [p \in Printers |-> PaperCapacity]
  /\ isIdle = [p \in Printers |-> TRUE]
  /\ stats = NoStatistics

SharedTypeOK ==
  /\ jobQueue \in Seq(Jobs)
  /\ papersRequired \in [Jobs -> 0..MaxPapers]
  /\ refillQueue \in Seq(Printers)
  /\ owner \in [Mutexes -> Printers \cup {Refiller, Scaler, NoThread}]
  /\ waiting \in [CondVars -> SUBSET (Printers \cup {Refiller})]
  /\ cancelled \in SUBSET Cancellable
  /\ terminateNow \in BOOLEAN
  /\ allJobsArrived \in BOOLEAN
  /\ allJobsServed \in BOOLEAN
  /\ paper \in [Printers -> Int]
  /\ isIdle \in [Printers -> BOOLEAN]
  /\ stats \in Statistics
=============================================================================
