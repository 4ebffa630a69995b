------------------------------- MODULE Autoscaler -------------------------------
(***************************************************************************)
(* The autoscaling policy (autoscaling.c): the monitoring loop, its        *)
(* thresholds and timers, over a clock.  The queue length and the printers *)
(* are the environment: they change between any two steps of the loop.     *)
(* What cancelling a printer does to the threads is ScaledPrintService's   *)
(* subject; here the cancelled printer is joined some time later.          *)
(***************************************************************************)
EXTENDS PrinterPool

CONSTANTS
  Cooldown,       \* CONFIG_AUTOSCALE_COOLDOWN_US
  LowQueueWait,   \* CONFIG_AUTOSCALE_SCALE_DOWN_WAIT_US
  IdleTimeout,    \* CONFIG_AUTOSCALE_IDLE_TIMEOUT_US
  LowQueue,       \* CONFIG_AUTOSCALE_SCALE_DOWN_THRESHOLD
  HighQueue,      \* the scale-up thresholds: HighQueue * n for n printers
  Lengths,        \* the queue lengths that occur
  NoScaling,      \* the 999999 of get_scale_up_threshold
  StartTime,      \* the first time the program reads; microseconds of the epoch
  MaxTime,        \* bound of the clock
  TimeRange       \* number of values of an unsigned long

ASSUME AutoscalingAssumption ==
  /\ {Cooldown, LowQueueWait, IdleTimeout, LowQueue, HighQueue} \subseteq Nat \ {0}
  /\ StartTime \in Nat /\ MaxTime \in Nat /\ TimeRange \in Nat
  /\ Cooldown <= StartTime /\ StartTime <= MaxTime /\ MaxTime < TimeRange
  /\ NoScaling \in Nat
  /\ 0 \in Lengths /\ Lengths \subseteq Nat

VARIABLES
  clock,       \* gettimeofday
  queueLength, \* length of the job queue
  idle,        \* printer->is_idle
  completed,   \* printer->last_job_completion_time_us
  apc,         \* where the autoscaling thread is
  seenLength,  \* queue_length of the monitoring loop
  seenTime,    \* current_time_us of the monitoring loop
  lastScale,   \* pool->last_scale_time_us
  lowSince,    \* pool->low_queue_start_time_us, 0 when the timer is off
  scaleTime,   \* current_time_us of scale_up
  victim,      \* slot of the cancelled printer, 0 when none
  announced,   \* printer count of the last scaling event that was emitted
  toldAt,      \* history: time in the event of the last change of the pool
  idleFrom     \* history: since when each printer has been idle

worldVars   == <<clock, queueLength, idle, completed>>
loopVars    == <<apc, seenLength, seenTime, scaleTime, victim>>
timerVars   == <<lastScale, lowSince>>
historyVars == <<toldAt, idleFrom>>
vars == <<poolVars, worldVars, loopVars, timerVars, announced, historyVars>>

Extra  == Slots \ Minimum
NoSlot == 0

Init ==
  /\ PoolInit
  /\ clock = StartTime /\ queueLength = 0
  /\ idle = [s \in Slots |-> TRUE] /\ completed = [s \in Slots |-> 0]
  /\ apc = "observe" /\ seenLength = 0 /\ seenTime = 0 /\ scaleTime = 0 /\ victim = NoSlot
  /\ lastScale = 0 /\ lowSince = 0
  /\ announced = ConsumerCount
  /\ toldAt = 0 /\ idleFrom = [s \in Extra |-> 0]

-----------------------------------------------------------------------------
(* The monitoring loop *)

\* Differences of unsigned longs wrap around.
Elapsed(now, since) == (now - since) % TimeRange

\* get_scale_up_threshold: only 2, 3 and 4 printers have one.
Threshold(n) == IF n \in 2..4 THEN HighQueue * n ELSE NoScaling

CoolingDown == Elapsed(seenTime, lastScale) < Cooldown

GoTo(from, to) == apc = from /\ apc' = to

Observe ==
  /\ GoTo("observe", "readClock")
  /\ seenLength' = queueLength
  /\ UNCHANGED <<poolVars, worldVars, timerVars, seenTime, scaleTime, victim, announced>>

ReadClock ==
  /\ GoTo("readClock", "decideUp")
  /\ seenTime' = clock
  /\ UNCHANGED <<poolVars, worldVars, timerVars, seenLength, scaleTime, victim, announced>>

\* Mutant: the threshold has to be exceeded.
ShouldScaleUp_Above == ~Full /\ ~CoolingDown /\ seenLength > Threshold(activeCount)

ShouldScaleUp == ~Full /\ ~CoolingDown /\ seenLength >= Threshold(activeCount)

DecideUp ==
  /\ \/ GoTo("decideUp", "scaleUp") /\ ShouldScaleUp
     \/ GoTo("decideUp", "decideDown") /\ ~ShouldScaleUp
  /\ UNCHANGED <<poolVars, worldVars, timerVars, seenLength, seenTime, scaleTime, victim,
                 announced>>

\* The loop sleeps and starts over; its locals go out of scope.
StartOver == apc' = "observe" /\ seenLength' = 0 /\ seenTime' = 0

\* scale_up reads the time and announces the printer of slot active_count + 1
\* before it is started.
ScaleUp ==
  /\ GoTo("scaleUp", "startPrinter")
  /\ scaleTime' = clock
  /\ announced' = activeCount + 1
  /\ UNCHANGED <<poolVars, worldVars, timerVars, seenLength, seenTime, victim>>

\* Mutants: the slot is not looked at; the scaling is not noted.
StartNextPrinter_Unchecked ==
  /\ apc = "startPrinter"
  /\ active' = [active EXCEPT ![activeCount + 1] = TRUE]
  /\ activeCount' = activeCount + 1
  /\ lastScale' = scaleTime
  /\ lowSince' = 0
  /\ scaleTime' = 0
  /\ StartOver
  /\ UNCHANGED <<worldVars, victim, announced>>

StartNextPrinter_NoCooldown ==
  /\ apc = "startPrinter"
  /\ IF active[activeCount + 1] THEN UNCHANGED poolVars ELSE StartPrinter(activeCount + 1)
  /\ scaleTime' = 0
  /\ StartOver
  /\ UNCHANGED <<worldVars, timerVars, victim, announced>>

\* printer_pool_start_printer refuses a slot that is still occupied; the time
\* stored is the one read before the event and the start.
StartNextPrinter ==
  /\ apc = "startPrinter"
  /\ IF active[activeCount + 1]
     THEN UNCHANGED <<poolVars, timerVars>>
     ELSE /\ StartPrinter(activeCount + 1)
          /\ lastScale' = scaleTime
          /\ lowSince' = 0
  /\ scaleTime' = 0
  /\ StartOver
  /\ UNCHANGED <<worldVars, victim, announced>>

\* should_scale_down, in the order of its early returns.
IdleLongEnough_Inverted(s) == Elapsed(seenTime, completed[s]) <= IdleTimeout  \* mutant

IdleLongEnough(s) == Elapsed(seenTime, completed[s]) >= IdleTimeout

MayScaleDown == activeCount > ConsumerCount /\ ~CoolingDown

StayUp ==
  /\ apc = "decideDown" /\ ~MayScaleDown
  /\ StartOver
  /\ UNCHANGED <<poolVars, worldVars, timerVars, scaleTime, victim, announced>>

FindQueueHigh ==
  /\ apc = "decideDown" /\ MayScaleDown /\ seenLength >= LowQueue
  /\ lowSince' = 0
  /\ StartOver
  /\ UNCHANGED <<poolVars, worldVars, lastScale, scaleTime, victim, announced>>

\* Mutant: the end of the waiting time is stored, not its start.
FindQueueLow_Deadline ==
  /\ apc = "decideDown" /\ MayScaleDown /\ seenLength < LowQueue
  /\ lowSince = 0
  /\ lowSince' = seenTime + LowQueueWait
  /\ StartOver
  /\ UNCHANGED <<poolVars, worldVars, lastScale, scaleTime, victim, announced>>

FindQueueLow ==
  /\ apc = "decideDown" /\ MayScaleDown /\ seenLength < LowQueue
  /\ lowSince = 0
  /\ lowSince' = seenTime
  /\ StartOver
  /\ UNCHANGED <<poolVars, worldVars, lastScale, scaleTime, victim, announced>>

LowForLong == lowSince # 0 /\ Elapsed(seenTime, lowSince) >= LowQueueWait

WaitLonger ==
  /\ apc = "decideDown" /\ MayScaleDown /\ seenLength < LowQueue
  /\ lowSince # 0
  /\ ~LowForLong \/ \A s \in Removable(idle) : ~IdleLongEnough(s)
  /\ StartOver
  /\ UNCHANGED <<poolVars, worldVars, timerVars, scaleTime, victim, announced>>

DecideDown ==
  /\ GoTo("decideDown", "scaleDown")
  /\ MayScaleDown /\ seenLength < LowQueue /\ LowForLong
  /\ \E s \in Removable(idle) : IdleLongEnough(s)
  /\ UNCHANGED <<poolVars, worldVars, timerVars, seenLength, seenTime, scaleTime, victim,
                 announced>>

\* scale_down cancels the last idle printer it looks at and leaves the pool
\* mutex to join it.
CancelPrinter ==
  /\ GoTo("scaleDown", "join")
  /\ Removable(idle) # {}
  /\ victim' = Newest(Removable(idle))
  /\ UNCHANGED <<poolVars, worldVars, timerVars, seenLength, seenTime, scaleTime, announced>>

FindNoneIdle ==
  /\ apc = "scaleDown" /\ Removable(idle) = {}
  /\ StartOver
  /\ UNCHANGED <<poolVars, worldVars, timerVars, scaleTime, victim, announced>>

JoinPrinter ==
  /\ GoTo("join", "noteScaleDown")
  /\ RemovePrinter(victim)
  /\ victim' = NoSlot
  /\ UNCHANGED <<worldVars, timerVars, seenLength, seenTime, scaleTime, announced>>

\* Mutant: the count in the event is that of before.
FinishScaleDown_CountBefore ==
  /\ apc = "noteScaleDown"
  /\ lastScale' = clock
  /\ lowSince' = 0
  /\ announced' = activeCount + 1
  /\ StartOver
  /\ UNCHANGED <<poolVars, worldVars, scaleTime, victim>>

\* The time of a scale-down is read when the printer is gone.
FinishScaleDown ==
  /\ apc = "noteScaleDown"
  /\ lastScale' = clock
  /\ lowSince' = 0
  /\ announced' = activeCount
  /\ StartOver
  /\ UNCHANGED <<poolVars, worldVars, scaleTime, victim>>

Loop ==
  \/ Observe    \/ ReadClock     \/ DecideUp
  \/ ScaleUp    \/ StartNextPrinter
  \/ StayUp     \/ FindQueueHigh \/ FindQueueLow  \/ WaitLonger
  \/ DecideDown \/ CancelPrinter \/ FindNoneIdle  \/ JoinPrinter  \/ FinishScaleDown

-----------------------------------------------------------------------------
(* The environment *)

\* One unit of time passes.  The clock stops at the bound.
Tick ==
  /\ clock < MaxTime
  /\ clock' = clock + 1
  /\ UNCHANGED <<poolVars, queueLength, idle, completed, loopVars, timerVars, announced>>

\* Jobs arrive and leave: the length becomes anything.
QueueChanges ==
  /\ \E n \in Lengths \ {queueLength} : queueLength' = n
  /\ UNCHANGED <<poolVars, clock, idle, completed, loopVars, timerVars, announced>>

\* is_idle of the printers that are never removed is not read, so not followed.
JobStarts ==
  /\ \E s \in Extra : active[s] /\ idle[s] /\ idle' = [idle EXCEPT ![s] = FALSE]
  /\ UNCHANGED <<poolVars, clock, queueLength, completed, loopVars, timerVars, announced>>

JobFinishes ==
  /\ \E s \in Extra : /\ active[s] /\ ~idle[s]
                      /\ idle' = [idle EXCEPT ![s] = TRUE]
                      /\ completed' = [completed EXCEPT ![s] = clock]
  /\ UNCHANGED <<poolVars, clock, queueLength, loopVars, timerVars, announced>>

World == Tick \/ QueueChanges \/ JobStarts \/ JobFinishes

-----------------------------------------------------------------------------
(* The specification *)

\* What the properties remember of the past.  A printer that is started is idle
\* from the time that its scaling event carries.
Remember ==
  /\ toldAt' = IF active' # active /\ apc = "startPrinter" THEN scaleTime
               ELSE IF apc = "noteScaleDown" /\ apc' # apc THEN clock
               ELSE toldAt
  /\ idleFrom' = [s \in Extra |-> IF active'[s] /\ ~active[s] THEN scaleTime
                                 ELSE IF idle'[s] /\ ~idle[s] THEN clock
                                 ELSE idleFrom[s]]

Next == (Loop \/ World) /\ Remember

Spec == Init /\ [][Next]_vars

\* The loop and the clock go on; jobs need never come or end.
FairSpec == Spec /\ WF_vars(Loop /\ Remember) /\ WF_vars(Tick /\ Remember)

LoopTypeOK ==
  /\ clock \in StartTime..MaxTime /\ queueLength \in Lengths
  /\ idle \in [Slots -> BOOLEAN] /\ completed \in [Slots -> 0..MaxTime]
  /\ apc \in {"observe", "readClock", "decideUp", "scaleUp", "startPrinter", "decideDown",
              "scaleDown", "join", "noteScaleDown"}
  /\ seenLength \in Lengths /\ seenTime \in 0..MaxTime /\ scaleTime \in 0..MaxTime
  /\ victim \in Slots \cup {NoSlot}
  /\ lastScale \in 0..MaxTime /\ lowSince \in 0..MaxTime
  /\ announced \in 0..MaxPrinters

TypeOK ==
  /\ PoolTypeOK /\ LoopTypeOK
  /\ toldAt \in 0..MaxTime /\ idleFrom \in [Extra -> 0..MaxTime]

\* README.md:87, "Cooldown: 3 seconds between scale operations": a change of the
\* pool comes a cooldown after the time that the event of the change before it
\* carries, although each decision uses a time read before the pool was looked
\* at (autoscaling.c:42, 65, 143, 190).  That time is read before a printer is
\* started (140) and after one was removed (189), so the pool itself may change
\* again sooner after a scale-up, by as long as the start took.
CooldownKept ==
  [][active' # active => clock - toldAt >= Cooldown]_vars

\* scale_up has nothing to start: the pool is full, the next slot is taken, or
\* the count has no threshold (autoscaling.c:28, 37, printer.c:216).
NoMorePrinters ==
  \/ Full
  \/ active[activeCount + 1]
  \/ Threshold(activeCount) = NoScaling

\* No time is left for another cooldown before the bound of the clock.
OutOfTime == clock = MaxTime /\ clock - lastScale < Cooldown

\* While the queue stays as long as the highest threshold, printers are added
\* until there is nothing left to start, however the cooldown, the timers and the
\* removals before it fell (autoscaling.c:32-52, 140-146).
LongQueueExhaustsPool ==
  <>[](queueLength >= Threshold(MaxPrinters - 1)) => <>[](NoMorePrinters \/ OutOfTime)

\* should_scale_down finds a printer idle for the time that autoscaling.h:58
\* promises, "At least one printer has been idle for 5+ seconds", unless the
\* printer finished a job after the time was read, or never had a job: then the
\* unsigned difference is huge (autoscaling.c:95, 224).  A printer that was
\* started again is idle from the time of the scale-up, read before the start.
SomePrinterWasIdle ==
  [][DecideDown => \E s \in Removable(idle) :
       \/ clock - idleFrom[s] >= IdleTimeout
       \/ completed[s] > seenTime
       \/ completed[s] = 0]_vars

\* A slot beyond the count is occupied: a printer before it was removed.
Hole == \E s \in Slots : active[s] /\ s > activeCount

\* The printer count that the client was sent last, "Scaled UP to {n} printers"
\* (docs/FRONTEND_INTEGRATION_GUIDE.md:116), is the number of printers, although
\* it is sent before the printer is started, unless the pool has a hole: then
\* the slot that is started may be the occupied one (autoscaling.c:115, 141-142).
AnnouncedCountIsTrue == apc = "observe" /\ ~Hole => announced = activeCount
=============================================================================
