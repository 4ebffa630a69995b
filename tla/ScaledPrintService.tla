-------------------------- MODULE ScaledPrintService --------------------------
(***************************************************************************)
(* The terminal program with autoscaling on (cli.c with autoscaling.c):    *)
(* the threads of PrintService and the autoscaling thread, which starts    *)
(* printers and cancels them while the others run.  Its clock and timers   *)
(* are Autoscaler's subject; here a condition on time may hold or not.     *)
(*                                                                         *)
(* A cancelled printer dies at a cancellation point: in a condition wait,  *)
(* where it first takes the mutex back and keeps it, in usleep, or in the  *)
(* output of one of its events, where it keeps the lock of stdout and the  *)
(* mutexes it emits the event under.  A thread that then waits for ever in *)
(* the middle of a section is stopped here before the section.             *)
(*                                                                         *)
(* An added printer changes the request list under the wrong mutex, so its *)
(* append is two steps here and another thread may change the list between *)
(* them.                                                                   *)
(***************************************************************************)
EXTENDS PrintService

CONSTANTS
  ScaleUpLength,   \* get_scale_up_threshold for 2, 3 and 4 printers
  ScaleDownLength  \* CONFIG_AUTOSCALE_SCALE_DOWN_THRESHOLD

ASSUME ScalingAssumption == ScaleUpLength \in Nat /\ ScaleDownLength \in Nat

VARIABLES
  active,       \* pool->printers[p - 1].active
  activeCount,  \* pool->active_count
  apc,          \* where the autoscaling thread is
  victim,       \* printer that scale_down cancelled and joins
  doomed,       \* printers with a pending cancellation
  scalerDoomed, \* main has cancelled the autoscaling thread
  joinSlot,     \* slot that printer_pool_join_all is at
  lost,         \* jobs whose printer died while it worked on them
  listRaced     \* history: two threads have changed the request list at a time

Pool == INSTANCE PrinterPool

poolVars   == <<active, activeCount>>
scalerVars == <<poolVars, apc, victim, doomed>>
scaledVars == <<vars, scalerVars, scalerDoomed, joinSlot, lost, listRaced>>

ScalerPCs == {"check", "measure", "scaleUp", "scaleDown", "join", "measureAgain",
              "done", "cancelled"}

ScaledInit ==
  /\ Init
  /\ Pool!PoolInit
  /\ apc = "check" /\ victim = NoPrinter /\ doomed = {} /\ scalerDoomed = FALSE
  /\ joinSlot = 1
  /\ lost = {}
  /\ listRaced = FALSE

\* A slot's thread has ended, or was never started.
Over(p) == ppc[p] \in {"done", "notStarted"}

-----------------------------------------------------------------------------
(* The autoscaling thread *)

ScalerGoTo(from, to) == apc = from /\ apc' = to

AutoscalerChecks ==
  /\ apc = "check"
  /\ apc' = IF terminateNow \/ allJobsServed THEN "done" ELSE "measure"
  /\ UNCHANGED <<poolVars, victim, doomed, sharedVars, printerVars>>

Threshold(n) == IF n \in 2..4 THEN {ScaleUpLength} ELSE {}

Needed   == ~Pool!Full /\ \E length \in Threshold(activeCount) : Len(jobQueue) >= length
Spare    == activeCount > ConsumerCount /\ Len(jobQueue) < ScaleDownLength
            /\ Pool!Removable(isIdle) # {}

\* should_scale_up and should_scale_down; cooldown and timers may forbid either.
Measure ==
  /\ apc = "measure" /\ Free("job_queue")
  /\ \/ apc' = "check"
     \/ apc' = "scaleUp" /\ Needed
     \/ apc' = "scaleDown" /\ Spare
  /\ UNCHANGED <<poolVars, victim, doomed, sharedVars, printerVars>>

\* scale_up reads the queue length, announces the printer of the next slot and
\* starts it.
ScaleUp ==
  /\ ScalerGoTo("scaleUp", "check") /\ Free("job_queue") /\ MayPrint
  /\ LET p == activeCount + 1
     IN  IF active[p]
         THEN UNCHANGED <<poolVars, printerVars>>
         ELSE /\ Pool!StartPrinter(p)
              /\ ppc' = [ppc EXCEPT ![p] = "readTerminate"]
              /\ UNCHANGED <<target, flagSeen, paperRead>>
  /\ UNCHANGED <<victim, doomed, sharedVars>>

CancelPrinter ==
  /\ ScalerGoTo("scaleDown", "join")
  /\ Pool!Removable(isIdle) # {}
  /\ victim' = Pool!Newest(Pool!Removable(isIdle))
  /\ doomed' = IF Over(victim') THEN doomed ELSE doomed \cup {victim'}
  /\ UNCHANGED <<poolVars, sharedVars, printerVars>>

FindNoneIdle ==
  /\ ScalerGoTo("scaleDown", "check")
  /\ Pool!Removable(isIdle) = {}
  /\ UNCHANGED <<poolVars, victim, doomed, sharedVars, printerVars>>

\* Mutant: the slot is released without waiting for its thread.
JoinPrinter_Detached ==
  /\ ScalerGoTo("join", "measureAgain")
  /\ Pool!RemovePrinter(victim)
  /\ victim' = NoPrinter
  /\ UNCHANGED <<doomed, sharedVars, printerVars>>

JoinPrinter ==
  /\ ScalerGoTo("join", "measureAgain") /\ Over(victim)
  /\ Pool!RemovePrinter(victim)
  /\ ppc' = [ppc EXCEPT ![victim] = "notStarted"]
  /\ victim' = NoPrinter
  /\ UNCHANGED <<doomed, sharedVars, target, flagSeen, paperRead>>

\* scale_down ends with the queue length, for the event it emits.
MeasureAgain ==
  /\ ScalerGoTo("measureAgain", "check") /\ Free("job_queue") /\ MayPrint
  /\ UNCHANGED <<poolVars, victim, doomed, sharedVars, printerVars>>

\* In usleep or pthread_join nothing is kept; in the output of an event, which
\* follows the reading of the queue length, the lock of stdout is.
AutoscalerCancelled ==
  /\ scalerDoomed
  /\ \/ apc \in {"check", "join"} /\ UNCHANGED owner
     \/ apc \in {"scaleUp", "measureAgain"} /\ Free("job_queue") /\ Keep({"stdout"}, Scaler)
  /\ apc' = "cancelled"
  /\ UNCHANGED <<poolVars, victim, doomed, queueVars, refillQueue, waiting, cancelled,
                 flagVars, paperVars, stats, printerVars>>

AutoscalerNext ==
  \/ AutoscalerChecks \/ Measure     \/ ScaleUp
  \/ CancelPrinter    \/ FindNoneIdle
  \/ JoinPrinter      \/ MeasureAgain \/ AutoscalerCancelled

-----------------------------------------------------------------------------
(* The request of an added printer *)

Appending == \E q \in Printers : ppc[q] = "append"

\* What the threads' other changes of the list do to an append under way.
WatchList == listRaced' = (listRaced \/ (Appending /\ refillQueue' # refillQueue))

\* list_append reads the list's ends under the job queue mutex ...
StartAppend(p) ==
  /\ GoTo(p, "requestRefill", "append")
  /\ ~HoldsOffRefiller(p)
  /\ Acquire(RefillMutex(p), p) /\ MayPrint
  /\ UNCHANGED <<target, flagSeen, paperRead, queueVars, refillQueue, waiting, cancelled,
                 flagVars, paperVars, stats>>

IsSublist(t, s) ==
  \E at \in [DOMAIN t -> DOMAIN s] :
    /\ \A i, k \in DOMAIN t : i < k => at[i] < at[k]
    /\ \A i \in DOMAIN t : t[i] = s[at[i]]

\* The lists of printers that leave out any nodes of s.
Sublists(s) ==
  {t \in UNION {[1..n -> Printers] : n \in 0..Len(s)} : IsSublist(t, s)}

\* ... and stores its links and its count.  Once two changes have overlapped, the
\* stores of one may have undone the other's, and the refiller may miss requests.
FinishAppend(p) ==
  /\ GoTo(p, "append", "testPaper")
  /\ LET queue == Append(refillQueue, p)
     IN  refillQueue' \in IF listRaced THEN Sublists(queue) ELSE {queue}
  /\ Broadcast({"refill_supplier"})
  /\ UNCHANGED <<target, flagSeen, paperRead, queueVars, owner, cancelled, flagVars,
                 paperVars, stats>>

-----------------------------------------------------------------------------
(* The death of a cancelled printer *)

Dies(p) ==
  /\ p \in doomed /\ doomed' = doomed \ {p}
  /\ ppc' = [ppc EXCEPT ![p] = "notStarted"]
  /\ Unpoint(p) /\ Forget(p)
  /\ UNCHANGED <<paperRead, poolVars, apc, victim>>

\* The condition waits: the dying thread owns the mutex again and keeps it.
DieWaiting(p, pc, c, m) ==
  /\ ppc[p] = pc /\ Dies(p)
  /\ Acquire(m, p)
  /\ waiting' = [waiting EXCEPT ![c] = @ \ {p}]
  /\ UNCHANGED <<lost, queueVars, refillQueue, cancelled, flagVars, paperVars, stats>>

\* In usleep: the job is neither freed nor counted.
DiePrinting(p) ==
  /\ ppc[p] = "printing" /\ Dies(p)
  /\ lost' = lost \cup {target[p]}
  /\ UNCHANGED sharedVars

\* In emit_paper_empty, under the mutex the request would be queued under.
DieRequesting(p) ==
  /\ ppc[p] = "requestRefill" /\ Dies(p)
  /\ Keep({RefillMutex(p), "stdout"}, p)
  /\ UNCHANGED <<lost, queueVars, refillQueue, waiting, cancelled, flagVars, paperVars, stats>>

\* In emit_printer_arrival, under no mutex.
DieStarting(p) ==
  /\ ppc[p] = "startService" /\ Dies(p)
  /\ Keep({"stdout"}, p)
  /\ lost' = lost \cup {target[p]}
  /\ UNCHANGED <<queueVars, refillQueue, waiting, cancelled, flagVars, paperVars, stats>>

\* In emit_system_departure, under the statistics mutex: the printer already
\* counts as idle, and the job may be counted as served but is never freed.
DieDeparting(p) ==
  /\ ppc[p] = "depart" /\ Dies(p)
  /\ Keep({"stats", "stdout"}, p)
  /\ stats' \in {stats, [stats EXCEPT !.served = @ + 1]}
  /\ lost' = lost \cup {target[p]}
  /\ UNCHANGED <<queueVars, refillQueue, waiting, cancelled, flagVars, paperVars>>

\* In an event of the dequeue, under the job queue mutex.
DieDequeuing(p) ==
  /\ ppc[p] = "checkQueue" /\ ~MayLeave(p) /\ jobQueue # <<>>
  /\ HasPaperFor(p, Head(jobQueue))
  /\ Keep({"job_queue", "stdout"}, p)
  /\ jobQueue' = Tail(jobQueue)
  /\ lost' = lost \cup {Head(jobQueue)}
  /\ Dies(p)
  /\ UNCHANGED <<papersRequired, refillQueue, waiting, cancelled, flagVars, paperVars, stats>>

PrinterDies(p) ==
  \/ DieWaiting(p, "waitForJob", "job_queue_not_empty", "job_queue")
  \/ DieWaiting(p, "waitForRefill", "refill_needed", RefillMutex(p))
  \/ DieRequesting(p)
  \/ DieDequeuing(p)
  \/ DieStarting(p)
  \/ DiePrinting(p)
  \/ DieDeparting(p)

-----------------------------------------------------------------------------
(* main *)

\* Mutant: the printers are not waited for.
JoinSlot_NoWait ==
  /\ mpc = "joinPrinters" /\ joinSlot <= MaxPrinters
  /\ joinSlot' = joinSlot + 1
  /\ UNCHANGED <<mpc, spc, scalerDoomed>>

\* printer_pool_join_all walks the slots once, without the pool mutex.
JoinSlot ==
  /\ mpc = "joinPrinters" /\ joinSlot <= MaxPrinters
  /\ active[joinSlot] => Over(joinSlot)
  /\ joinSlot' = joinSlot + 1
  /\ UNCHANGED <<mpc, spc, scalerDoomed>>

JoinedAll ==
  /\ mpc = "joinPrinters" /\ joinSlot > MaxPrinters
  /\ mpc' = "joinRefiller"
  /\ UNCHANGED <<joinSlot, spc, scalerDoomed>>

CancelAutoscaler ==
  /\ mpc = "joinRefiller" /\ fpc \in {"done", "cancelled"}
  /\ mpc' = "joinAutoscaler"
  /\ scalerDoomed' = TRUE
  /\ UNCHANGED <<joinSlot, spc>>

JoinAutoscaler ==
  /\ mpc = "joinAutoscaler" /\ apc \in {"done", "cancelled"}
  /\ mpc' = "cancelCatcher"
  /\ UNCHANGED <<joinSlot, spc, scalerDoomed>>

ScaledMainNext ==
  \/ JoinSlot \/ JoinedAll \/ CancelAutoscaler \/ JoinAutoscaler
  \/ (JoinReceiver \/ CancelCatcher \/ JoinCatcher) /\ UNCHANGED <<joinSlot, scalerDoomed>>

-----------------------------------------------------------------------------
(* The whole program *)

UnscaledVars == <<scalerVars, scalerDoomed, joinSlot, lost>>

\* A started printer clears its slot's thread only by ending or dying.
ScaledPrinterStep(p) ==
  \/ PrinterStep(p) /\ WatchList /\ UNCHANGED UnscaledVars
  \/ /\ StartAppend(p) \/ FinishAppend(p)
     /\ UNCHANGED <<receiverVars, refillerVars, spc, mpc, listRaced, UnscaledVars>>
  \/ /\ PrinterDies(p)
     /\ UNCHANGED <<receiverVars, refillerVars, spc, mpc, scalerDoomed, joinSlot, listRaced>>

AutoscalerStep ==
  /\ AutoscalerNext
  /\ UNCHANGED <<receiverVars, refillerVars, spc, mpc, scalerDoomed, joinSlot, lost, listRaced>>

ScaledMainStep ==
  /\ ScaledMainNext
  /\ UNCHANGED <<sharedVars, receiverVars, printerVars, refillerVars, scalerVars, lost, listRaced>>

ScaledNext ==
  \/ (ReceiverStep \/ RefillerStep \/ CatcherStep) /\ WatchList /\ UNCHANGED UnscaledVars
  \/ \E p \in Printers : ScaledPrinterStep(p)
  \/ AutoscalerStep
  \/ ScaledMainStep
  \/ Terminated /\ UNCHANGED scaledVars

ScaledSpec == ScaledInit /\ [][ScaledNext]_scaledVars

ScaledFairness ==
  /\ WF_scaledVars(ReceiverStep /\ WatchList /\ UNCHANGED UnscaledVars)
  /\ \A p \in Printers : WF_scaledVars(ScaledPrinterStep(p))
  /\ WF_scaledVars(RefillerStep /\ WatchList /\ UNCHANGED UnscaledVars)
  /\ WF_scaledVars(AutoscalerStep)
  /\ WF_scaledVars(ScaledMainStep)

ScaledFairSpec == ScaledSpec /\ ScaledFairness

-----------------------------------------------------------------------------
(* Properties *)

ScaledTypeOK ==
  /\ SharedTypeOK /\ ReceiverTypeOK /\ PrinterTypeOK /\ RefillerTypeOK /\ CatcherTypeOK
  /\ mpc \in MainPCs \cup {"joinAutoscaler"}
  /\ Pool!PoolTypeOK
  /\ apc \in ScalerPCs /\ victim \in Printers \cup {NoPrinter}
  /\ doomed \subseteq Printers /\ scalerDoomed \in BOOLEAN
  /\ joinSlot \in 1..(MaxPrinters + 1)
  /\ lost \subseteq Jobs
  /\ listRaced \in BOOLEAN

\* Although printers die with jobs in their hands, in usleep or in an event
\* (autoscaling.c:182, printer.c:114, 126, 131 and 147), an allocated job still has
\* at most one owner and none is freed twice: it belongs to the receiver, to one
\* place of the queue, to one printer, or was lost with one.  A lost job may have
\* been counted as served; it is never freed.
ScaledJobOwnership ==
  /\ \A i, k \in DOMAIN jobQueue : jobQueue[i] = jobQueue[k] => i = k
  /\ \A p, q \in Printers : Serving(p) /\ Serving(q) /\ target[p] = target[q] => p = q
  /\ Queued \cap BeingServed = {} /\ lost \cap (Queued \cup BeingServed) = {}
  /\ ReceiverHolds => jobId \notin Queued \cup BeingServed \cup lost
  /\ Live = Queued \cup BeingServed \cup lost \cup {j \in Jobs : ReceiverHolds /\ j = jobId}

\* A printer's record belongs to one thread: a slot that is not active has no
\* running thread, so starting it again never lets two threads share the paper
\* count and the flags of one printer (printer.c:216-229, autoscaling.c:184-187).
OneThreadPerSlot == \A p \in Printers : ~active[p] => Over(p)

\* The request of a printer that main started is heard: the refiller never
\* sleeps while it is queued, although a printer that scale_up started signals
\* under the job queue mutex and its own request may be missed (autoscaling.c:119,
\* printer.c:73-75, paper_refiller.c:55-70).  Nothing is promised once an append of
\* such a printer has overlapped another change of the list: a request of any
\* printer may be lost then.
InitialRequestsAreHeard ==
  ~listRaced /\ Refiller \in waiting["refill_supplier"] => Requesting \cap InitialPrinters = {}

\* When main reports and destroys the mutexes, the printers it started are over
\* and only one that the autoscaler started in a slot that main had passed can
\* still run (printer.c:242-249, cli.c:196-206).
InitialPrintersAreJoined ==
  Terminated => /\ \A p \in InitialPrinters : Over(p)
                /\ BeingServed \subseteq {target[p] : p \in Printers \ InitialPrinters}

-----------------------------------------------------------------------------
(* What the comments say and the code does not do *)

\* autoscaling.c:183, "Unlock before join to avoid deadlock": scale_down comes to
\* an end.
ScaleDownReturns == apc = "measureAgain" ~> apc \in {"check", "cancelled"}
=============================================================================
