---------------------------- MODULE AutoscalerProofs ----------------------------
(***************************************************************************)
(* The autoscaling policy, for any number of printers, any thresholds and  *)
(* timers and any clock that does not wrap around: the pool's count is     *)
(* exact, the scaling decisions are a cooldown apart, and a printer is     *)
(* idle long enough before the pool shrinks.                               *)
(***************************************************************************)
EXTENDS Autoscaler, FiniteSetTheorems, WellFoundedInduction, TLAPS

USE PoolAssumption, AutoscalingAssumption

-----------------------------------------------------------------------------
(* Differences of times and the slots that are looked at *)

\* The unsigned difference of a time and an earlier one is how long ago that was.
LEMMA ElapsedIsDifference ==
  ASSUME NEW now \in 0..MaxTime, NEW since \in 0..MaxTime, since <= now
  PROVE  Elapsed(now, since) = now - since
<1>1. now - since \in 0..(TimeRange - 1) /\ TimeRange \in Nat \ {0}
  OBVIOUS
<1>2. \A x \in 0..(TimeRange - 1) : x % TimeRange = x
  BY <1>1
<1> QED BY <1>1, <1>2 DEF Elapsed

\* The slots found by the loops of autoscaling.c:92 and 169 are slots of printers
\* that may be removed.
LEMMA RemovableSlots ==
  ASSUME PoolTypeOK, NEW free
  PROVE  \A s \in Removable(free) : s \in Slots /\ s \in Extra /\ active[s] /\ free[s]
BY DEF PoolTypeOK, Removable, Slots, Extra, Minimum

\* A nonempty set of slots has a newest one.
LEMMA NewestIsMember ==
  ASSUME NEW S \in SUBSET Slots, S # {}
  PROVE  Newest(S) \in S
<1> DEFINE Below == {e \in Nat \X Nat : e[1] < e[2]}
           Distances == {MaxPrinters - s : s \in S}
<1>1. IsWellFoundedOn(Below, Nat)
  BY NatLessThanWellFounded, Zenon DEF OpToRel
<1>2. Distances \subseteq Nat /\ Distances # {}
  <2>1. \A r \in S : MaxPrinters - r \in Nat
    BY DEF Slots
  <2> QED BY <2>1
<1>3. PICK d \in Distances : \A e \in Distances : <<e, d>> \notin Below
  <2> HIDE DEF Below, Distances
  <2> QED BY <1>1, <1>2, WFMin
<1>4. \A e \in Distances : ~(e < d)
  BY <1>2, <1>3
<1>5. PICK s \in S : d = MaxPrinters - s
  OBVIOUS
<1>6. \A r \in S : r <= s
  <2>1. ASSUME NEW r \in S PROVE ~(MaxPrinters - r < MaxPrinters - s)
    BY <1>4, <1>5
  <2> QED BY <2>1 DEF Slots
<1> QED BY <1>6 DEF Newest

-----------------------------------------------------------------------------
(* The pool.  The count is exact because a slot is started only when it is   *)
(* free and removed only when it is occupied: the autoscaler alone changes   *)
(* the pool, so what it saw at its decision still holds when it acts.        *)

PoolInv ==
  /\ PoolTypeOK /\ PoolWithinLimits
  /\ activeCount >= ConsumerCount
  /\ apc \in {"scaleUp", "startPrinter"} => ~Full
  /\ apc \in {"scaleDown", "join"} => activeCount > ConsumerCount
  /\ apc = "join" => victim \in Extra /\ active[victim]

LEMMA OccupiedIsFinite == IsFiniteSet(Occupied)
<1>1. IsFiniteSet(Slots) BY FS_Interval DEF Slots
<1>2. Occupied \in SUBSET Slots BY DEF Occupied
<1> QED BY <1>1, <1>2, FS_Subset

\* Starting a printer in a free slot makes one more (printer.c:209-239).
LEMMA StartPrinterKeepsCount ==
  ASSUME PoolTypeOK, PoolWithinLimits, NEW s \in Slots, StartPrinter(s)
  PROVE  PoolTypeOK' /\ PoolWithinLimits' /\ activeCount' = activeCount + 1
<1>1. IsFiniteSet(Occupied)
  BY OccupiedIsFinite
<1>2. Occupied' = Occupied \cup {s} /\ s \notin Occupied
  BY DEF StartPrinter, Occupied, PoolTypeOK
<1>3. Cardinality(Occupied') = Cardinality(Occupied) + 1
  BY <1>1, <1>2, FS_AddElement
<1>4. PoolTypeOK' /\ activeCount' = activeCount + 1
  BY DEF StartPrinter, PoolTypeOK, Full
<1>5. \A m \in Minimum : active'[m]
  BY DEF StartPrinter, PoolTypeOK, PoolWithinLimits, Minimum, Slots
<1> QED BY <1>3, <1>4, <1>5 DEF PoolWithinLimits

\* Removing a printer that was added makes one less (autoscaling.c:187-188).
LEMMA RemovePrinterKeepsCount ==
  ASSUME PoolTypeOK, PoolWithinLimits, activeCount > ConsumerCount,
         NEW s \in Extra, active[s], RemovePrinter(s)
  PROVE  PoolTypeOK' /\ PoolWithinLimits' /\ activeCount' = activeCount - 1
<1>1. IsFiniteSet(Occupied)
  BY OccupiedIsFinite
<1>2. Occupied' = Occupied \ {s} /\ s \in Occupied
  BY DEF RemovePrinter, Occupied, PoolTypeOK, Extra
<1>3. Cardinality(Occupied') = Cardinality(Occupied) - 1
  BY <1>1, <1>2, FS_RemoveElement
<1>4. activeCount' = activeCount - 1 /\ activeCount' \in 0..MaxPrinters
  BY DEF RemovePrinter, PoolTypeOK
<1>6. active' \in [Slots -> BOOLEAN]
  BY DEF RemovePrinter, PoolTypeOK
<1>5. \A m \in Minimum : active'[m]
  BY DEF RemovePrinter, PoolTypeOK, PoolWithinLimits, Minimum, Slots, Extra
<1> QED BY <1>3, <1>4, <1>5, <1>6 DEF PoolTypeOK, PoolWithinLimits

LEMMA PoolInvStable ==
  ASSUME PoolInv, UNCHANGED poolVars, apc' \notin {"scaleUp", "startPrinter", "scaleDown", "join"}
  PROVE  PoolInv'
BY DEF PoolInv, PoolTypeOK, PoolWithinLimits, Occupied, poolVars

\* The printer that scale_down picks is one that was added (autoscaling.c:168-177).
LEMMA CancelKeepsPoolInv == ASSUME PoolInv, CancelPrinter PROVE PoolInv'
<1> DEFINE free == Removable(idle)
<1>1. free \subseteq Slots /\ \A s \in free : s \in Extra /\ active[s]
  BY RemovableSlots DEF PoolInv
<1>2. UNCHANGED poolVars /\ apc = "scaleDown" /\ apc' = "join" /\ free # {} /\ victim' = Newest(free)
  BY DEF CancelPrinter, GoTo
<1>3. victim' \in free
  <2> HIDE DEF free
  <2> QED BY <1>1, <1>2, NewestIsMember
<1>4. victim' \in Extra /\ active[victim']
  BY <1>1, <1>3
<1> QED
  BY <1>2, <1>4 DEF PoolInv, PoolTypeOK, PoolWithinLimits, Occupied, poolVars, Extra, Slots, Minimum

\* A printer is started only if the next slot is free (printer.c:216-218).
LEMMA StartKeepsPoolInv == ASSUME PoolInv, StartNextPrinter PROVE PoolInv'
<1>1. apc = "startPrinter" /\ apc' = "observe" /\ activeCount + 1 \in Slots
  BY DEF StartNextPrinter, StartOver, PoolInv, PoolTypeOK, Full, Slots
<1>2. CASE active[activeCount + 1]
  BY <1>1, <1>2, PoolInvStable DEF StartNextPrinter
<1>3. CASE ~active[activeCount + 1]
  <2>1. StartPrinter(activeCount + 1)
    BY <1>3 DEF StartNextPrinter
  <2>2. PoolTypeOK' /\ PoolWithinLimits' /\ activeCount' = activeCount + 1
    BY <1>1, <2>1, StartPrinterKeepsCount DEF PoolInv
  <2> QED BY <1>1, <2>2 DEF PoolInv, PoolTypeOK
<1> QED BY <1>2, <1>3

LEMMA JoinKeepsPoolInv == ASSUME PoolInv, JoinPrinter PROVE PoolInv'
<1>1. apc = "join" /\ apc' = "noteScaleDown" /\ RemovePrinter(victim)
  BY DEF JoinPrinter, GoTo
<1>2. PoolTypeOK' /\ PoolWithinLimits' /\ activeCount' = activeCount - 1
  BY <1>1, RemovePrinterKeepsCount DEF PoolInv
<1> QED BY <1>1, <1>2 DEF PoolInv, PoolTypeOK

\* No step spoils the pool.
LEMMA NextKeepsPoolInv == PoolInv /\ [Next]_vars => PoolInv'
<1> SUFFICES ASSUME PoolInv, [Next]_vars PROVE PoolInv'
  OBVIOUS
<1>1. CASE Observe \/ ReadClock \/ StayUp \/ FindQueueHigh \/ FindQueueLow \/ WaitLonger
           \/ FindNoneIdle \/ FinishScaleDown
  <2>1. UNCHANGED poolVars /\ apc' \in {"observe", "readClock", "decideUp"}
    BY <1>1 DEF Observe, ReadClock, StayUp, FindQueueHigh, FindQueueLow, WaitLonger,
                FindNoneIdle, FinishScaleDown, StartOver, GoTo
  <2> QED BY <2>1, PoolInvStable
<1>2. CASE DecideUp
  <2>1. UNCHANGED poolVars /\ (apc' = "decideDown" \/ (apc' = "scaleUp" /\ ~Full))
    BY <1>2, Zenon DEF DecideUp, GoTo, ShouldScaleUp
  <2> QED BY <2>1 DEF PoolInv, PoolTypeOK, PoolWithinLimits, Occupied, poolVars, Full
<1>5. CASE ScaleUp
  <2>1. UNCHANGED poolVars /\ apc = "scaleUp" /\ apc' = "startPrinter"
    BY <1>5 DEF ScaleUp, GoTo
  <2> QED BY <2>1 DEF PoolInv, PoolTypeOK, PoolWithinLimits, Occupied, poolVars, Full
<1>3. CASE DecideDown
  <2>1. UNCHANGED poolVars /\ apc' = "scaleDown" /\ activeCount > ConsumerCount
    BY <1>3 DEF DecideDown, GoTo, MayScaleDown
  <2> QED BY <2>1 DEF PoolInv, PoolTypeOK, PoolWithinLimits, Occupied, poolVars
<1>4. CASE World \/ UNCHANGED vars
  <2>1. UNCHANGED <<poolVars, apc, victim>>
    BY <1>4 DEF World, Tick, QueueChanges, JobStarts, JobFinishes, loopVars, vars
  <2> QED BY <2>1 DEF PoolInv, PoolTypeOK, PoolWithinLimits, Occupied, poolVars, Full
<1> QED
  BY <1>1, <1>2, <1>3, <1>4, <1>5, StartKeepsPoolInv, CancelKeepsPoolInv, JoinKeepsPoolInv
  DEF Next, Loop

LEMMA InitPoolInv == Init => PoolInv
<1> SUFFICES ASSUME Init PROVE PoolInv
  OBVIOUS
<1>0. active = [s \in Slots |-> s \in Minimum]
  BY DEF Init, PoolInit
<1>1. active \in [Slots -> BOOLEAN] /\ \A s \in Slots : active[s] <=> s \in Minimum
  <2>1. active \in [Slots -> BOOLEAN] BY <1>0
  <2>2. \A s \in Slots : active[s] <=> s \in Minimum BY <1>0, Zenon
  <2> QED BY <2>1, <2>2
<1>2. Minimum \subseteq Slots /\ activeCount = ConsumerCount /\ apc = "observe"
  BY DEF Init, PoolInit, Slots, Minimum
<1>3. Cardinality(Occupied) = ConsumerCount
  <2>1. Occupied = 1..ConsumerCount BY <1>1, <1>2 DEF Occupied, Minimum
  <2> QED BY <2>1, FS_Interval
<1>4. \A m \in Minimum : active[m]
  BY <1>1, <1>2
<1> QED BY <1>1, <1>2, <1>3, <1>4 DEF PoolInv, PoolTypeOK, PoolWithinLimits

-----------------------------------------------------------------------------
(* Types *)

\* What the history variables remember is a time.
LEMMA RememberKeepsTypes ==
  ASSUME TypeOK, Remember
  PROVE  toldAt' \in 0..MaxTime /\ idleFrom' \in [Extra -> 0..MaxTime]
<1>1. clock \in 0..MaxTime /\ scaleTime \in 0..MaxTime
  BY DEF TypeOK, LoopTypeOK
<1> QED BY <1>1 DEF TypeOK, Remember

\* The steps of the monitoring loop (autoscaling.c:209-236).
LEMMA LoopKeepsTypes == ASSUME PoolInv, PoolInv', LoopTypeOK, Loop PROVE LoopTypeOK'
<1> USE DEF LoopTypeOK, worldVars, timerVars, GoTo, StartOver
<1>1. CASE Observe BY <1>1 DEF Observe
<1>2. CASE ReadClock BY <1>2 DEF ReadClock
<1>3. CASE DecideUp BY <1>3 DEF DecideUp
<1>4. CASE ScaleUp
  <2>1. activeCount + 1 \in 0..MaxPrinters
    BY <1>4 DEF ScaleUp, PoolInv, PoolTypeOK, Full
  <2> QED BY <1>4, <2>1 DEF ScaleUp
<1>5. CASE StayUp BY <1>5 DEF StayUp
<1>6. CASE FindQueueHigh BY <1>6 DEF FindQueueHigh
<1>7. CASE FindQueueLow BY <1>7 DEF FindQueueLow
<1>8. CASE WaitLonger BY <1>8 DEF WaitLonger
<1>9. CASE DecideDown BY <1>9 DEF DecideDown
<1>10. CASE CancelPrinter
  <2>1. victim' \in Extra
    BY <1>10 DEF CancelPrinter, PoolInv
  <2> QED BY <1>10, <2>1 DEF CancelPrinter, Extra
<1>11. CASE FindNoneIdle BY <1>11 DEF FindNoneIdle
<1>12. CASE FinishScaleDown
  <2>1. activeCount \in 0..MaxPrinters
    BY DEF PoolInv, PoolTypeOK
  <2> QED BY <1>12, <2>1 DEF FinishScaleDown
<1>13. CASE StartNextPrinter
  <2>1. CASE active[activeCount + 1] BY <1>13, <2>1 DEF StartNextPrinter
  <2>2. CASE ~active[activeCount + 1] BY <1>13, <2>2 DEF StartNextPrinter
  <2> QED BY <2>1, <2>2
<1>14. CASE JoinPrinter BY <1>14 DEF JoinPrinter
<1> QED
  BY <1>1, <1>2, <1>3, <1>4, <1>5, <1>6, <1>7, <1>8, <1>9, <1>10, <1>11, <1>12,
     <1>13, <1>14 DEF Loop

\* The steps of the clock, the jobs and the printers.
LEMMA WorldKeepsTypes == ASSUME LoopTypeOK, World PROVE LoopTypeOK'
<1> USE DEF LoopTypeOK, loopVars, timerVars
<1>1. CASE Tick BY <1>1 DEF Tick
<1>2. CASE QueueChanges BY <1>2 DEF QueueChanges
<1>3. CASE JobStarts BY <1>3 DEF JobStarts
<1>4. CASE JobFinishes
  <2>1. clock \in 0..MaxTime OBVIOUS
  <2> QED BY <1>4, <2>1 DEF JobFinishes
<1> QED BY <1>1, <1>2, <1>3, <1>4 DEF World

LEMMA NextKeepsTypes == PoolInv /\ PoolInv' /\ TypeOK /\ [Next]_vars => TypeOK'
<1> SUFFICES ASSUME PoolInv, PoolInv', TypeOK, [Next]_vars PROVE TypeOK'
  OBVIOUS
<1>1. LoopTypeOK BY DEF TypeOK
<1>2. PoolTypeOK' BY DEF PoolInv
<1>3. CASE UNCHANGED vars
  BY <1>3
  DEF vars, poolVars, worldVars, loopVars, timerVars, historyVars, TypeOK, PoolTypeOK, LoopTypeOK
<1>4. CASE Next
  <2>1. LoopTypeOK' BY <1>1, <1>4, LoopKeepsTypes, WorldKeepsTypes DEF Next
  <2>2. toldAt' \in 0..MaxTime /\ idleFrom' \in [Extra -> 0..MaxTime]
    BY <1>4, RememberKeepsTypes DEF Next
  <2> QED BY <1>2, <2>1, <2>2 DEF TypeOK
<1> QED BY <1>3, <1>4

-----------------------------------------------------------------------------
(* Times.  The cooldown is checked against a time read earlier; it holds     *)
(* when the pool changes because the clock goes forward and nobody else      *)
(* sets last_scale_time_us in between.                                       *)

Deciding == apc \notin {"observe", "readClock"}
Scaling  == apc \in {"scaleUp", "startPrinter", "scaleDown", "join"}

TimeInv ==
  /\ toldAt = lastScale /\ lastScale <= clock /\ lowSince <= clock
  /\ lowSince # 0 => lowSince - lastScale >= Cooldown
  /\ Deciding => lastScale <= seenTime /\ lowSince <= seenTime /\ seenTime <= clock
  /\ Scaling  => seenTime - lastScale >= Cooldown
  /\ apc = "startPrinter" => seenTime <= scaleTime /\ scaleTime <= clock

\* A decision to scale is taken after the cooldown (autoscaling.c:42, 65).
LEMMA CooldownIsOver ==
  ASSUME LoopTypeOK, TimeInv, Deciding, ~CoolingDown
  PROVE  seenTime - lastScale >= Cooldown
<1>1. Elapsed(seenTime, lastScale) = seenTime - lastScale
  BY ElapsedIsDifference DEF LoopTypeOK, TimeInv
<1> QED BY <1>1 DEF CoolingDown, LoopTypeOK

LEMMA LoopKeepsTimeInv ==
  ASSUME PoolInv, LoopTypeOK, TimeInv, Loop, Remember
  PROVE  TimeInv'
<1> USE DEF LoopTypeOK, TimeInv, worldVars, timerVars, poolVars, GoTo, StartOver, Remember,
            Deciding, Scaling
<1>1. CASE Observe BY <1>1 DEF Observe
<1>2. CASE ReadClock BY <1>2 DEF ReadClock
<1>3. CASE DecideUp
  <2>1. CASE apc' = "scaleUp"
    <3>1. seenTime - lastScale >= Cooldown
      BY <1>3, <2>1, CooldownIsOver DEF DecideUp, ShouldScaleUp
    <3> QED BY <1>3, <3>1 DEF DecideUp
  <2>2. CASE apc' = "decideDown"
    BY <1>3, <2>2 DEF DecideUp
  <2> QED BY <1>3, <2>1, <2>2 DEF DecideUp
<1>4. CASE ScaleUp BY <1>4 DEF ScaleUp
<1>10. CASE StartNextPrinter
  <2>1. CASE active[activeCount + 1]
    BY <1>10, <2>1 DEF StartNextPrinter
  <2>2. CASE ~active[activeCount + 1]
    <3>1. active' # active
      BY <1>10, <2>2 DEF StartNextPrinter, StartPrinter, PoolInv, PoolTypeOK, Full, Slots
    <3> QED BY <1>10, <2>2, <3>1 DEF StartNextPrinter
  <2> QED BY <2>1, <2>2
<1>5. CASE StayUp \/ FindQueueHigh \/ WaitLonger \/ FindNoneIdle
  BY <1>5 DEF StayUp, FindQueueHigh, WaitLonger, FindNoneIdle
<1>6. CASE FindQueueLow
  <2>1. seenTime - lastScale >= Cooldown
    BY <1>6, CooldownIsOver DEF FindQueueLow, MayScaleDown
  <2> QED BY <1>6, <2>1 DEF FindQueueLow
<1>7. CASE DecideDown
  <2>1. seenTime - lastScale >= Cooldown
    BY <1>7, CooldownIsOver DEF DecideDown, MayScaleDown
  <2> QED BY <1>7, <2>1 DEF DecideDown
<1>8. CASE CancelPrinter BY <1>8 DEF CancelPrinter
<1>11. CASE JoinPrinter BY <1>11 DEF JoinPrinter
<1>9. CASE FinishScaleDown BY <1>9 DEF FinishScaleDown
<1> QED
  BY <1>1, <1>2, <1>3, <1>4, <1>5, <1>6, <1>7, <1>8, <1>9, <1>10, <1>11 DEF Loop

LEMMA NextKeepsTimeInv == PoolInv /\ TypeOK /\ TimeInv /\ [Next]_vars => TimeInv'
<1> SUFFICES ASSUME PoolInv, TypeOK, TimeInv, [Next]_vars PROVE TimeInv'
  OBVIOUS
<1>1. LoopTypeOK BY DEF TypeOK
<1>2. CASE Loop /\ Remember BY <1>1, <1>2, LoopKeepsTimeInv
<1>3. CASE (World /\ Remember) \/ UNCHANGED vars
  <2>1. /\ UNCHANGED <<apc, seenTime, scaleTime, lastScale, lowSince, toldAt>>
        /\ clock' \in Nat /\ clock <= clock'
    BY <1>1, <1>3
    DEF World, Tick, QueueChanges, JobStarts, JobFinishes, Remember, poolVars, loopVars,
        timerVars, historyVars, worldVars, vars, LoopTypeOK
  <2> QED BY <1>1, <2>1 DEF TimeInv, Deciding, Scaling, LoopTypeOK
<1> QED BY <1>2, <1>3 DEF Next

-----------------------------------------------------------------------------
(* Idle printers.  A printer that was started again keeps the time of its    *)
(* last job from before (printer.c:209-239), so it can look idle for long    *)
(* when it is new.  It is not removed early because scale_up also restarts   *)
(* the timer of the low queue.                                               *)

IdleInv ==
  \A s \in Extra : /\ completed[s] <= clock
                   /\ idleFrom[s] <= completed[s] \/ idleFrom[s] <= lastScale

LEMMA NextKeepsIdleInv ==
  PoolInv /\ TypeOK /\ TimeInv /\ IdleInv /\ [Next]_vars => IdleInv'
<1> SUFFICES ASSUME PoolInv, TypeOK, TimeInv, IdleInv, [Next]_vars, NEW s \in Extra
             PROVE  /\ completed'[s] <= clock'
                    /\ idleFrom'[s] <= completed'[s] \/ idleFrom'[s] <= lastScale'
  BY DEF IdleInv
<1>1. /\ clock \in Nat /\ lastScale \in Nat /\ lastScale <= clock
      /\ s \in Slots /\ completed \in [Slots -> 0..MaxTime] /\ completed[s] \in Nat
      /\ idleFrom[s] \in Nat
  BY DEF TypeOK, LoopTypeOK, TimeInv, Extra
<1>2. CASE StartNextPrinter /\ Remember
  <2>1. UNCHANGED <<clock, idle, completed>>
    BY <1>2 DEF StartNextPrinter, worldVars
  <2>2. CASE active' = active
    <3>1. idleFrom'[s] = idleFrom[s] BY <1>2, <2>1, <2>2 DEF Remember
    <3>2. lastScale' = lastScale
      BY <1>2, <2>2
      DEF StartNextPrinter, StartPrinter, timerVars, PoolInv, PoolTypeOK, Slots, Full
    <3> QED BY <2>1, <3>1, <3>2 DEF IdleInv
  <2>3. CASE active' # active
    <3>1. lastScale' = scaleTime BY <1>2, <2>3 DEF StartNextPrinter, poolVars
    <3>2. lastScale <= scaleTime /\ scaleTime \in Nat
      BY <1>2 DEF StartNextPrinter, TimeInv, Deciding, TypeOK, LoopTypeOK
    <3>3. idleFrom'[s] \in {scaleTime, idleFrom[s]} BY <1>2, <2>1 DEF Remember
    <3> QED BY <1>1, <2>1, <3>1, <3>2, <3>3 DEF IdleInv
  <2> QED BY <2>2, <2>3
<1>3. CASE FinishScaleDown /\ Remember
  <2>1. lastScale' = clock /\ UNCHANGED <<clock, idle, completed>> /\ active' = active
    BY <1>3 DEF FinishScaleDown, worldVars, poolVars
  <2>2. idleFrom'[s] = idleFrom[s] BY <1>3, <2>1 DEF Remember
  <2> QED BY <1>1, <2>1, <2>2 DEF IdleInv
<1>8. CASE JoinPrinter /\ Remember
  <2>1. UNCHANGED <<clock, idle, completed, lastScale>>
    BY <1>8 DEF JoinPrinter, worldVars, timerVars
  <2>2. active'[s] => active[s]
    BY <1>1, <1>8 DEF JoinPrinter, RemovePrinter, PoolInv, PoolTypeOK
  <2>3. idleFrom'[s] = idleFrom[s] BY <1>8, <2>1, <2>2 DEF Remember
  <2> QED BY <2>1, <2>3 DEF IdleInv
<1>4. CASE JobFinishes /\ Remember
  <2>1. PICK r \in Extra : /\ idle' = [idle EXCEPT ![r] = TRUE]
                           /\ completed' = [completed EXCEPT ![r] = clock]
    BY <1>4 DEF JobFinishes
  <2>2. UNCHANGED <<active, clock, lastScale>> BY <1>4 DEF JobFinishes, poolVars, timerVars
  <2>3. CASE s = r
    <3>1. completed'[s] = clock /\ idleFrom'[s] \in {clock, idleFrom[s]}
      BY <1>1, <1>4, <2>1, <2>2, <2>3 DEF Remember
    <3> QED BY <1>1, <2>2, <3>1 DEF IdleInv
  <2>4. CASE s # r
    <3>1. completed'[s] = completed[s] /\ idle'[s] = idle[s]
      BY <1>1, <2>1, <2>4 DEF TypeOK, LoopTypeOK
    <3>2. idleFrom'[s] = idleFrom[s] BY <1>4, <2>2, <3>1 DEF Remember
    <3> QED BY <2>2, <3>1, <3>2 DEF IdleInv
  <2> QED BY <2>3, <2>4
<1>5. CASE JobStarts /\ Remember
  <2>1. UNCHANGED <<active, clock, lastScale, completed>> /\ (idle'[s] => idle[s])
    BY <1>1, <1>5 DEF JobStarts, poolVars, timerVars, TypeOK, LoopTypeOK
  <2>2. idleFrom'[s] = idleFrom[s] BY <1>5, <2>1 DEF Remember
  <2> QED BY <2>1, <2>2 DEF IdleInv
<1>6. CASE (Tick \/ QueueChanges \/ Loop) /\ Remember
           /\ ~StartNextPrinter /\ ~FinishScaleDown /\ ~JoinPrinter
  <2>1. UNCHANGED <<active, idle, lastScale, completed>> /\ clock' \in {clock, clock + 1}
    BY <1>6 DEF Tick, QueueChanges, Loop, Observe, ReadClock, DecideUp, ScaleUp, StayUp,
                FindQueueHigh, FindQueueLow, WaitLonger, DecideDown, CancelPrinter, FindNoneIdle,
                poolVars, timerVars, worldVars
  <2>2. idleFrom'[s] = idleFrom[s] BY <1>6, <2>1 DEF Remember
  <2> QED BY <1>1, <2>1, <2>2 DEF IdleInv
<1>7. CASE UNCHANGED vars
  BY <1>7 DEF vars, worldVars, timerVars, historyVars, IdleInv
<1> QED BY <1>2, <1>3, <1>4, <1>5, <1>6, <1>7, <1>8 DEF Next, World

-----------------------------------------------------------------------------
(* The theorems *)

AutoscalerInv == PoolInv /\ TypeOK /\ TimeInv /\ IdleInv

LEMMA AutoscalerInvariant == Spec => []AutoscalerInv
<1>1. Init => PoolInv BY InitPoolInv
<1>2. Init => TypeOK
  <2> SUFFICES ASSUME Init PROVE TypeOK
    OBVIOUS
  <2>1. LoopTypeOK BY DEF Init, LoopTypeOK
  <2> QED BY <1>1, <2>1 DEF Init, TypeOK, PoolInv
<1>3. Init => TimeInv BY DEF Init, TimeInv, Deciding, Scaling
<1>4. Init => IdleInv BY DEF Init, IdleInv, Extra
<1> QED
  BY <1>1, <1>2, <1>3, <1>4, NextKeepsPoolInv, NextKeepsTypes, NextKeepsTimeInv, NextKeepsIdleInv,
     PTL DEF Spec, AutoscalerInv

\* The count kept beside the slots is always exact and the configured printers
\* stay, whatever the loop decides (printer.c:231, autoscaling.c:187-188).
THEOREM PoolWithinLimitsHolds == Spec => []PoolWithinLimits
<1>1. AutoscalerInv => PoolWithinLimits BY DEF AutoscalerInv, PoolInv
<1> QED BY <1>1, AutoscalerInvariant, PTL

\* A change of the pool comes a cooldown after the time that the event of the
\* change before it carries, on the clock that runs on while the loop decides, the
\* event is emitted and the printer is started (autoscaling.c:42, 65, 140-143, 190).
THEOREM CooldownIsKept == Spec => CooldownKept
<1>1. AutoscalerInv /\ [Next]_vars => [active' # active => clock - toldAt >= Cooldown]_vars
  <2> SUFFICES ASSUME AutoscalerInv, Next, active' # active
               PROVE  clock - toldAt >= Cooldown
    OBVIOUS
  <2>1. StartNextPrinter \/ JoinPrinter
    BY DEF Next, World, Tick, QueueChanges, JobStarts, JobFinishes, Loop, Observe, ReadClock,
           DecideUp, ScaleUp, StayUp, FindQueueHigh, FindQueueLow, WaitLonger, DecideDown,
           CancelPrinter, FindNoneIdle, FinishScaleDown, poolVars
  <2>2. Scaling /\ Deciding BY <2>1 DEF StartNextPrinter, JoinPrinter, GoTo, Scaling, Deciding
  <2> QED BY <2>2 DEF AutoscalerInv, TimeInv, TypeOK, LoopTypeOK
<1> QED BY <1>1, AutoscalerInvariant, PTL DEF Spec, CooldownKept

\* A printer that lets the pool shrink has been idle for the idle timeout, also
\* one that was stopped and started again with the completion time of its former
\* life (counted from the time read by the scale-up that started it), provided that
\* the cooldown and the wait of the low queue are together as
\* long as the timeout (config.h:87-93: 3 and 5 seconds, 5 seconds).
THEOREM SomePrinterWasIdleHolds ==
  ASSUME IdleTimeout <= Cooldown + LowQueueWait
  PROVE  Spec => SomePrinterWasIdle
<1> DEFINE Found == \E s \in Removable(idle) : \/ clock - idleFrom[s] >= IdleTimeout
                                               \/ completed[s] > seenTime
                                               \/ completed[s] = 0
<1>1. AutoscalerInv /\ [Next]_vars => [DecideDown => Found]_vars
  <2> SUFFICES ASSUME AutoscalerInv, DecideDown PROVE Found
    OBVIOUS
  <2>1. LoopTypeOK /\ TimeInv /\ Deciding /\ lowSince # 0
    BY DEF AutoscalerInv, TypeOK, DecideDown, GoTo, Deciding, LowForLong
  <2>2. seenTime - lowSince >= LowQueueWait
    <3>1. Elapsed(seenTime, lowSince) = seenTime - lowSince
      BY <2>1, ElapsedIsDifference DEF LoopTypeOK, TimeInv
    <3> QED BY <2>1, <3>1 DEF DecideDown, LowForLong
  <2>3. clock - lastScale >= IdleTimeout
    BY <2>1, <2>2 DEF LoopTypeOK, TimeInv
  <2>4. PICK s \in Removable(idle) : IdleLongEnough(s)
    BY DEF DecideDown
  <2>5. s \in Extra /\ s \in Slots
    BY <2>4, RemovableSlots DEF AutoscalerInv, PoolInv
  <2>6. CASE completed[s] > seenTime BY <2>6
  <2>7. CASE completed[s] <= seenTime
    <3>1. Elapsed(seenTime, completed[s]) = seenTime - completed[s]
      BY <2>1, <2>5, <2>7, ElapsedIsDifference DEF LoopTypeOK
    <3>2. clock - completed[s] >= IdleTimeout
      BY <2>1, <2>4, <2>5, <3>1 DEF IdleLongEnough, LoopTypeOK, TimeInv
    <3>3. idleFrom[s] <= completed[s] \/ idleFrom[s] <= lastScale
      BY <2>5 DEF AutoscalerInv, IdleInv
    <3>4. /\ idleFrom[s] \in Nat /\ completed[s] \in Nat /\ lastScale \in Nat /\ clock \in Nat
      BY <2>1, <2>5 DEF AutoscalerInv, TypeOK, LoopTypeOK
    <3>5. clock - idleFrom[s] >= IdleTimeout BY <2>3, <3>2, <3>3, <3>4
    <3> QED BY <3>5
  <2>8. completed[s] \in Nat /\ seenTime \in Nat BY <2>1, <2>5 DEF LoopTypeOK
  <2> QED BY <2>6, <2>7, <2>8
<1> QED BY <1>1, AutoscalerInvariant, PTL DEF Spec, SomePrinterWasIdle

\* Between the event of a scale-up and the start, and between a removal and its
\* event, the client's count is one off; otherwise it is right unless the pool has
\* a hole (autoscaling.c:115, 141-142, 187-197).
AnnouncedInv ==
  ~Hole => /\ apc = "startPrinter" => announced = activeCount + 1
           /\ apc \notin {"startPrinter", "noteScaleDown"} => announced = activeCount

THEOREM AnnouncedCountHolds == Spec => []AnnouncedCountIsTrue
<1>1. Init => AnnouncedInv BY DEF Init, PoolInit, AnnouncedInv
<1>2. AutoscalerInv /\ AnnouncedInv /\ [Next]_vars => AnnouncedInv'
  <2> SUFFICES ASSUME AutoscalerInv, AnnouncedInv, [Next]_vars PROVE AnnouncedInv'
    OBVIOUS
  <2>1. CASE StartNextPrinter
    <3>1. activeCount + 1 \in Slots /\ activeCount + 1 > activeCount
      BY <2>1 DEF StartNextPrinter, AutoscalerInv, PoolInv, PoolTypeOK, Full, Slots
    <3>2. CASE active[activeCount + 1]
      BY <2>1, <3>1, <3>2 DEF StartNextPrinter, Hole, AnnouncedInv, poolVars
    <3>3. CASE ~active[activeCount + 1]
      <4>1. activeCount' = activeCount + 1 /\ announced' = announced /\ apc' = "observe"
        BY <2>1, <3>3 DEF StartNextPrinter, StartPrinter, StartOver
      <4>2. ~Hole' => ~Hole
        BY <2>1, <3>1, <3>3, <4>1
        DEF StartNextPrinter, StartPrinter, Hole, AutoscalerInv, PoolInv, PoolTypeOK, Slots
      <4> QED BY <2>1, <4>1, <4>2 DEF StartNextPrinter, AnnouncedInv
    <3> QED BY <3>2, <3>3
  <2>2. CASE JoinPrinter
    BY <2>2 DEF JoinPrinter, GoTo, AnnouncedInv
  <2>3. CASE FinishScaleDown
    BY <2>3 DEF FinishScaleDown, StartOver, AnnouncedInv, poolVars
  <2>4. CASE ScaleUp
    BY <2>4 DEF ScaleUp, GoTo, AnnouncedInv, poolVars
  <2>5. CASE ~StartNextPrinter /\ ~JoinPrinter /\ ~FinishScaleDown /\ ~ScaleUp
    <3>1. /\ UNCHANGED <<active, activeCount, announced>>
          /\ apc' = apc \/ {apc, apc'} \cap {"startPrinter", "noteScaleDown"} = {}
      BY <2>5 DEF Next, World, Tick, QueueChanges, JobStarts, JobFinishes, Loop, Observe,
           ReadClock, DecideUp, StayUp, FindQueueHigh, FindQueueLow, WaitLonger, DecideDown,
           CancelPrinter, FindNoneIdle, GoTo, StartOver, poolVars, loopVars, vars
    <3> QED BY <3>1 DEF AnnouncedInv, Hole
  <2> QED BY <2>1, <2>2, <2>3, <2>4, <2>5
<1>3. AnnouncedInv => AnnouncedCountIsTrue BY DEF AnnouncedInv, AnnouncedCountIsTrue
<1> QED BY <1>1, <1>2, <1>3, AutoscalerInvariant, PTL DEF Spec

\* Every variable of the loop keeps its type; the announced count is a number of
\* printers that fit the pool (autoscaling.c:102, 115, 197).
THEOREM AutoscalerTypes == Spec => []TypeOK
<1>1. AutoscalerInv => TypeOK BY DEF AutoscalerInv
<1> QED BY <1>1, AutoscalerInvariant, PTL
=============================================================================
