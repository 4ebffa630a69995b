------------------------ MODULE ScaledPrintServiceProofs ------------------------
(***************************************************************************)
(* The terminal program with autoscaling, for any number of slots, jobs    *)
(* and sheets: types, one thread per slot although slots are used again,   *)
(* the ownership of jobs although printers die with them, the requests and *)
(* the end of the printers that main started, and the printers' paper.     *)
(***************************************************************************)
EXTENDS ScaledPrintService, ThreadProofs, WellFoundedInduction

USE DEF Printers, Jobs, NoJob, NoMemory, Refiller, NoThread, Scaler, Cancellable, Mutexes,
        CondVars, NoPrinter

-----------------------------------------------------------------------------
(* The kinds of steps *)

LEMMA StepsAreTurns ==
  /\ ReceiverStep => ReceiverTurn /\ UNCHANGED mpc
  /\ \A p \in Printers : PrinterStep(p) => PrinterTurn(p) /\ UNCHANGED mpc
  /\ RefillerStep => RefillerTurn /\ UNCHANGED mpc
  /\ CatcherStep => CatcherTurn /\ UNCHANGED mpc
BY DEF ReceiverStep, ReceiverTurn, PrinterStep, PrinterTurn, RefillerStep, RefillerTurn,
       CatcherStep, CatcherTurn

\* A step of a thread that PrintService has too.
ThreadStep ==
  /\ ReceiverTurn \/ RefillerTurn \/ CatcherTurn \/ \E p \in Printers : PrinterTurn(p)
  /\ WatchList /\ UNCHANGED <<mpc, UnscaledVars>>

\* A step of an added printer's request.
AppendStep(p) ==
  /\ StartAppend(p) \/ FinishAppend(p)
  /\ UNCHANGED <<receiverVars, refillerVars, spc, mpc, listRaced, UnscaledVars>>

\* The death of a printer.
DeathStep(p) ==
  /\ PrinterDies(p)
  /\ UNCHANGED <<receiverVars, refillerVars, spc, mpc, scalerDoomed, joinSlot, listRaced>>

LEMMA KindsOfSteps ==
  ASSUME [ScaledNext]_scaledVars
  PROVE  \/ ThreadStep \/ (\E p \in Printers : AppendStep(p) \/ DeathStep(p))
         \/ AutoscalerStep \/ ScaledMainStep \/ UNCHANGED scaledVars
BY StepsAreTurns DEF ScaledNext, ScaledPrinterStep, ThreadStep, AppendStep, DeathStep

-----------------------------------------------------------------------------
(* The slot that scale_down chooses *)

\* A nonempty set of slots has a newest one.
LEMMA NewestIsMember ==
  ASSUME NEW S \in SUBSET Printers, S # {}
  PROVE  Pool!Newest(S) \in S
<1> USE PrintersAssumption
<1> DEFINE Below == {e \in Nat \X Nat : e[1] < e[2]}
           Distances == {MaxPrinters - s : s \in S}
<1>1. IsWellFoundedOn(Below, Nat)
  BY NatLessThanWellFounded, Zenon DEF OpToRel
<1>2. Distances \subseteq Nat /\ Distances # {}
  <2>1. \A r \in S : MaxPrinters - r \in Nat
    OBVIOUS
  <2> QED BY <2>1
<1>3. PICK d \in Distances : \A e \in Distances : <<e, d>> \notin Below
  <2> HIDE DEF Below, Distances
  <2> QED BY <1>1, <1>2, WFMin
<1>4. \A e \in Distances : ~(e < d)
  BY <1>2, <1>3
<1>5. PICK s \in S : d = MaxPrinters - s
  OBVIOUS
<1>6. \A r \in S : r <= s
  <2>1. ASSUME NEW r \in S PROVE ~(MaxPrinters - r < MaxPrinters - s)
    BY <1>4, <1>5
  <2> QED BY <2>1
<1> QED BY <1>6 DEF Pool!Newest

\* scale_down looks at slots beyond those of the printers that are always there.
LEMMA RemovableSlots ==
  ASSUME NEW S, S = Pool!Removable(isIdle), activeCount \in 0..MaxPrinters
  PROVE  /\ S \subseteq Printers \ InitialPrinters
         /\ S # {} => activeCount > ConsumerCount
BY PrintersAssumption DEF Pool!Removable, InitialPrinters

-----------------------------------------------------------------------------
(* Types and slots.  A slot is used again only after its thread was joined,  *)
(* and the autoscaler alone changes the pool, so a slot that is not active   *)
(* has no thread; the slots of the first printers are never released.        *)

ScalerTypes ==
  /\ mpc \in MainPCs \cup {"joinAutoscaler"}
  /\ Pool!PoolTypeOK
  /\ apc \in ScalerPCs /\ victim \in Printers \cup {NoPrinter}
  /\ doomed \subseteq Printers /\ scalerDoomed \in BOOLEAN
  /\ joinSlot \in 1..(MaxPrinters + 1)
  /\ lost \subseteq Jobs
  /\ listRaced \in BOOLEAN

TypeInv == ThreadInv /\ ScalerTypes

SlotInv ==
  /\ OneThreadPerSlot
  /\ \A s \in InitialPrinters : active[s]
  /\ activeCount >= ConsumerCount
  /\ apc = "join" => victim \in Printers \ InitialPrinters /\ activeCount > ConsumerCount

LEMMA InitInv == ScaledInit => AtRest /\ TypeInv /\ SlotInv /\ lost = {}
<1> SUFFICES ASSUME ScaledInit PROVE AtRest /\ TypeInv /\ SlotInv /\ lost = {}
  OBVIOUS
<1>1. AtRest
  BY DEF ScaledInit, Init, AtRest, ReceiverInit, PrinterInit, RefillerInit
<1>2. Pool!PoolTypeOK
  BY PrintersAssumption DEF ScaledInit, Pool!PoolInit, Pool!PoolTypeOK, Pool!Slots, Pool!Minimum
<1>3. ScalerTypes
  <2>1. /\ mpc = "joinReceiver" /\ apc = "check" /\ victim = NoPrinter /\ doomed = {}
        /\ scalerDoomed = FALSE /\ joinSlot = 1 /\ lost = {} /\ listRaced = FALSE
    BY DEF ScaledInit, Init
  <2>2. 1 \in 1..(MaxPrinters + 1)
    BY PrintersAssumption
  <2> QED BY <1>2, <2>1, <2>2 DEF ScalerTypes, MainPCs, ScalerPCs
<1>4. SlotInv
  <2>1. /\ \A p \in Printers : active[p] <=> p \in InitialPrinters
        /\ activeCount = ConsumerCount /\ apc = "check"
    BY DEF ScaledInit, InitialPrinters, Pool!PoolInit, Pool!Slots, Pool!Minimum
  <2>2. \A p \in Printers : p \notin InitialPrinters => Over(p)
    BY DEF ScaledInit, Init, PrinterInit, Over
  <2>3. InitialPrinters \subseteq Printers
    BY PrintersAssumption DEF InitialPrinters
  <2> QED BY <2>1, <2>2, <2>3, PrintersAssumption DEF SlotInv, OneThreadPerSlot
<1> QED BY <1>1, <1>3, <1>4, AtRestTypes DEF TypeInv, ScaledInit

\* What a death changes.
LEMMA DeathEffect ==
  ASSUME ThreadInv, NEW p \in Printers, DeathStep(p)
  PROVE  /\ ppc' = [ppc EXCEPT ![p] = "notStarted"]
         /\ target' = [target EXCEPT ![p] = NoJob]
         /\ flagSeen' = [flagSeen EXCEPT ![p] = FALSE]
         /\ ~Over(p) /\ doomed' \subseteq doomed
         /\ UNCHANGED <<paperRead, papersRequired, refillQueue, cancelled, flagVars, paperVars,
                        poolVars, apc, victim, receiverVars, refillerVars, spc, mpc,
                        scalerDoomed, joinSlot, listRaced>>
BY DEF DeathStep, PrinterDies, DieWaiting, DieRequesting, DieDequeuing, DieStarting, DiePrinting,
       DieDeparting, Dies, Unpoint, Forget, Over, sharedVars, queueVars, syncVars

\* A death takes mutexes that nobody keeps, and may count the job as served.
LEMMA DeathTakesMutexes ==
  ASSUME ThreadInv, NEW p \in Printers, DeathStep(p)
  PROVE  /\ owner' \in [Mutexes -> Printers \cup {Refiller, Scaler, NoThread}]
         /\ \A m \in Mutexes : owner'[m] = owner[m] \/ owner[m] = NoThread
         /\ stats' \in Statistics
<1>0. /\ owner \in [Mutexes -> Printers \cup {Refiller, Scaler, NoThread}]
      /\ stats \in Statistics
  BY DEF ThreadInv, ThreadTypes, SharedTypeOK
<1>1. \/ owner' = owner
      \/ \E m \in Mutexes : Acquire(m, p)
      \/ \E ms \in SUBSET Mutexes : Keep(ms, p)
  BY DEF DeathStep, PrinterDies, DieWaiting, DieRequesting, DieDequeuing, DieStarting,
         DiePrinting, DieDeparting, RefillMutex, sharedVars, syncVars
<1>2. stats' = stats \/ stats' = [stats EXCEPT !.served = @ + 1]
  BY DEF DeathStep, PrinterDies, DieWaiting, DieRequesting, DieDequeuing, DieStarting,
         DiePrinting, DieDeparting, sharedVars
<1>3. stats' \in Statistics
  BY <1>0, <1>2, StatisticsTypes
<1> QED BY <1>0, <1>1, <1>3 DEF Acquire, Keep, Free

\* A dying printer keeps the types.
LEMMA DeathKeepsTypes ==
  ASSUME TypeInv, NEW p \in Printers, DeathStep(p)
  PROVE  TypeInv'
<1>0. ThreadInv /\ ScalerTypes
  BY DEF TypeInv
<1>1. jobQueue' \in Seq(Jobs) /\ lost' \subseteq Jobs
  <2>1. jobQueue \in Seq(Jobs) /\ lost \subseteq Jobs
    BY <1>0 DEF ThreadInv, ThreadTypes, SharedTypeOK, ScalerTypes
  <2>2. Serving(p) => target[p] \in Jobs
    BY <1>0 DEF ThreadInv, PointersOK
  <2>3. jobQueue # <<>> => Head(jobQueue) \in Jobs /\ Tail(jobQueue) \in Seq(Jobs)
    BY <2>1, HeadTail
  <2> QED
    BY <2>1, <2>2, <2>3
    DEF DeathStep, PrinterDies, DieWaiting, DieRequesting, DieDequeuing, DieStarting, DiePrinting,
        DieDeparting, Serving, sharedVars, queueVars
<1>2. waiting' \in [CondVars -> SUBSET (Printers \cup {Refiller})]
  <2>1. waiting \in [CondVars -> SUBSET (Printers \cup {Refiller})]
    BY <1>0 DEF ThreadInv, ThreadTypes, SharedTypeOK
  <2>2. waiting' = waiting \/ \E c \in CondVars : waiting' = [waiting EXCEPT ![c] = @ \ {p}]
    BY DEF DeathStep, PrinterDies, DieWaiting, DieRequesting, DieDequeuing, DieStarting,
           DiePrinting, DieDeparting, sharedVars, syncVars
  <2> QED BY <2>1, <2>2
<1>3. SharedTypeOK'
  BY <1>0, <1>1, <1>2, DeathEffect, DeathTakesMutexes
  DEF ThreadInv, ThreadTypes, SharedTypeOK, flagVars, paperVars
<1>4. PrinterTypeOK' /\ \A q \in Printers : Serving(q)' => Serving(q) /\ target'[q] = target[q]
  BY <1>0, DeathEffect
  DEF ThreadInv, ThreadTypes, PrinterTypeOK, PrinterPCs, Serving
<1>5. ReceiverTypeOK' /\ RefillerTypeOK' /\ CatcherTypeOK' /\ (ReceiverHolds' <=> ReceiverHolds)
  BY <1>0, DeathEffect
  DEF ThreadInv, ThreadTypes, ReceiverTypeOK, RefillerTypeOK, CatcherTypeOK, ReceiverHolds,
      receiverVars, refillerVars
<1>6. PointersOK'
  BY <1>0, <1>4, <1>5, DeathEffect DEF ThreadInv, PointersOK, receiverVars, refillerVars
<1>7. ScalerTypes'
  BY <1>0, <1>1, DeathEffect DEF ScalerTypes, poolVars, Pool!PoolTypeOK, Pool!Slots
<1> QED BY <1>3, <1>4, <1>5, <1>6, <1>7 DEF TypeInv, ThreadInv, ThreadTypes

\* What the request of an added printer changes.
LEMMA AppendEffect ==
  ASSUME ThreadInv, NEW p \in Printers, AppendStep(p)
  PROVE  /\ \E pc \in {"append", "testPaper"} : ppc' = [ppc EXCEPT ![p] = pc]
         /\ ppc[p] \in {"requestRefill", "append"}
         /\ UNCHANGED <<target, flagSeen, paperRead, queueVars, cancelled, flagVars, paperVars,
                        stats, receiverVars, refillerVars, spc, mpc, listRaced, UnscaledVars>>
BY DEF AppendStep, StartAppend, FinishAppend, GoTo

\* A list that lacks nodes of s is a list of printers, and of none but those of s.
LEMMA SublistElements ==
  ASSUME NEW s \in Seq(Printers), NEW t \in Sublists(s)
  PROVE  t \in Seq(Printers) /\ \A i \in DOMAIN t : \E k \in DOMAIN s : t[i] = s[k]
<1>1. PICK n \in 0..Len(s) : t \in [1..n -> Printers]
  BY DEF Sublists
<1>2. n \in Nat
  BY <1>1
<1>3. t \in Seq(Printers)
  BY <1>1, <1>2, SeqDef, Zenon
<1>4. PICK at \in [DOMAIN t -> DOMAIN s] : \A i \in DOMAIN t : t[i] = s[at[i]]
  BY DEF Sublists, IsSublist
<1> QED BY <1>3, <1>4

\* The list after the append holds requests of the list before it and the new one.
LEMMA AppendedRequests ==
  ASSUME ThreadInv, NEW p \in Printers, FinishAppend(p)
  PROVE  refillQueue' \in Seq(Printers) /\ Requesting' \subseteq Requesting \cup {p}
<1>1. refillQueue \in Seq(Printers)
  BY DEF ThreadInv, ThreadTypes, SharedTypeOK
<1>2. PICK queue : queue = Append(refillQueue, p)
  OBVIOUS
<1>3. queue \in Seq(Printers) /\ \A i \in DOMAIN queue : queue[i] \in Requesting \cup {p}
  <2>1. /\ DOMAIN queue = 1..(Len(refillQueue) + 1)
        /\ \A i \in 1..Len(refillQueue) : queue[i] = refillQueue[i]
        /\ queue[Len(refillQueue) + 1] = p
        /\ DOMAIN refillQueue = 1..Len(refillQueue) /\ Len(refillQueue) \in Nat
    BY <1>1, <1>2
  <2>2. queue \in Seq(Printers)
    BY <1>1, <1>2
  <2>3. \A i \in 1..Len(refillQueue) : refillQueue[i] \in Requesting
    BY <2>1 DEF Requesting
  <2>4. \A i \in 1..(Len(refillQueue) + 1) :
          i \in 1..Len(refillQueue) \/ i = Len(refillQueue) + 1
    BY <2>1
  <2> QED BY <2>1, <2>2, <2>3, <2>4
<1>4. refillQueue' = queue \/ refillQueue' \in Sublists(queue)
  BY <1>2 DEF FinishAppend
<1>5. PICK list : list = refillQueue'
  OBVIOUS
<1>6. list \in Seq(Printers) /\ \A i \in DOMAIN list : list[i] \in Requesting \cup {p}
  BY <1>3, <1>4, <1>5, SublistElements
<1> QED BY <1>5, <1>6 DEF Requesting

\* An added printer's request keeps the types.
LEMMA AppendKeepsTypes ==
  ASSUME TypeInv, NEW p \in Printers, AppendStep(p)
  PROVE  TypeInv'
<1>0. ThreadInv /\ ScalerTypes
  BY DEF TypeInv
<1>1. /\ refillQueue' \in Seq(Printers)
      /\ owner' \in [Mutexes -> Printers \cup {Refiller, Scaler, NoThread}]
      /\ waiting' \in [CondVars -> SUBSET (Printers \cup {Refiller})]
  <2>1. /\ refillQueue \in Seq(Printers)
        /\ owner \in [Mutexes -> Printers \cup {Refiller, Scaler, NoThread}]
        /\ waiting \in [CondVars -> SUBSET (Printers \cup {Refiller})]
    BY <1>0 DEF ThreadInv, ThreadTypes, SharedTypeOK
  <2>2. CASE StartAppend(p)
    BY <2>1, <2>2 DEF StartAppend, Acquire, RefillMutex
  <2>3. CASE FinishAppend(p)
    BY <1>0, <2>1, <2>3, AppendedRequests, BroadcastType DEF FinishAppend
  <2> QED BY <2>2, <2>3 DEF AppendStep
<1>2. SharedTypeOK'
  BY <1>0, <1>1, AppendEffect DEF ThreadInv, ThreadTypes, SharedTypeOK, queueVars, flagVars,
     paperVars
<1>3. PrinterTypeOK' /\ \A q \in Printers : Serving(q)' <=> Serving(q)
  BY <1>0, AppendEffect DEF ThreadInv, ThreadTypes, PrinterTypeOK, PrinterPCs, Serving
<1>4. ReceiverTypeOK' /\ RefillerTypeOK' /\ CatcherTypeOK' /\ (ReceiverHolds' <=> ReceiverHolds)
  BY <1>0, AppendEffect
  DEF ThreadInv, ThreadTypes, ReceiverTypeOK, RefillerTypeOK, CatcherTypeOK, ReceiverHolds,
      receiverVars, refillerVars
<1>5. PointersOK'
  BY <1>0, <1>3, <1>4, AppendEffect DEF ThreadInv, PointersOK, receiverVars, refillerVars
<1>6. ScalerTypes'
  BY <1>0, AppendEffect
  DEF ScalerTypes, UnscaledVars, scalerVars, poolVars, Pool!PoolTypeOK, Pool!Slots
<1> QED BY <1>2, <1>3, <1>4, <1>5, <1>6 DEF TypeInv, ThreadInv, ThreadTypes

\* What the autoscaler changes: it starts printers in slots that are over and
\* clears those of threads that are over.  Cancelled, it may keep stdout.
LEMMA AutoscalerEffect ==
  ASSUME TypeInv, SlotInv, AutoscalerStep
  PROVE  /\ UNCHANGED <<queueVars, refillQueue, waiting, cancelled, flagVars, paperVars, stats,
                        target, flagSeen, paperRead, receiverVars, refillerVars, spc, mpc,
                        scalerDoomed, joinSlot, lost, listRaced>>
         /\ owner' \in [Mutexes -> Printers \cup {Refiller, Scaler, NoThread}]
         /\ owner'["paper_refill_queue"] = owner["paper_refill_queue"]
         /\ ppc' \in [Printers -> PrinterPCs]
         /\ \A q \in Printers : \/ ppc'[q] = ppc[q]
                                \/ /\ q \notin InitialPrinters /\ Over(q)
                                   /\ ppc'[q] \in {"readTerminate", "notStarted"}
         /\ ScalerTypes' /\ SlotInv'
<1> USE PrintersAssumption DEF ScalerGoTo, poolVars
<1>0. /\ ppc \in [Printers -> PrinterPCs] /\ active \in [Printers -> BOOLEAN]
      /\ activeCount \in 0..MaxPrinters
  BY DEF TypeInv, ThreadInv, ThreadTypes, PrinterTypeOK, ScalerTypes, Pool!PoolTypeOK, Pool!Slots
<1>1. UNCHANGED <<queueVars, refillQueue, waiting, cancelled, flagVars, paperVars, stats,
                  target, flagSeen, paperRead, receiverVars, refillerVars, spc, mpc,
                  scalerDoomed, joinSlot, lost, listRaced>>
  BY DEF AutoscalerStep, AutoscalerNext, AutoscalerChecks, Measure, ScaleUp, CancelPrinter,
         FindNoneIdle, JoinPrinter, MeasureAgain, AutoscalerCancelled, printerVars, sharedVars,
         syncVars
<1>6. /\ owner' \in [Mutexes -> Printers \cup {Refiller, Scaler, NoThread}]
      /\ owner'["paper_refill_queue"] = owner["paper_refill_queue"]
  <2>1. owner \in [Mutexes -> Printers \cup {Refiller, Scaler, NoThread}]
    BY DEF TypeInv, ThreadInv, ThreadTypes, SharedTypeOK
  <2>2. owner' = owner \/ Keep({"stdout"}, Scaler)
    BY DEF AutoscalerStep, AutoscalerNext, AutoscalerChecks, Measure, ScaleUp, CancelPrinter,
           FindNoneIdle, JoinPrinter, MeasureAgain, AutoscalerCancelled, sharedVars, syncVars
  <2> QED BY <2>1, <2>2 DEF Keep
<1>2. CASE ScaleUp /\ ~active[activeCount + 1]
  <2>1. /\ activeCount < MaxPrinters /\ apc' = "check" /\ UNCHANGED <<victim, doomed>>
        /\ active' = [active EXCEPT ![activeCount + 1] = TRUE]
        /\ activeCount' = activeCount + 1
        /\ ppc' = [ppc EXCEPT ![activeCount + 1] = "readTerminate"]
    BY <1>0, <1>2 DEF ScaleUp, Pool!StartPrinter, Pool!Full
  <2>2. activeCount + 1 \in Printers BY <1>0, <2>1
  <2>3. Over(activeCount + 1) /\ activeCount + 1 \notin InitialPrinters
    BY <1>0, <1>2, <2>2 DEF SlotInv, OneThreadPerSlot, InitialPrinters
  <2>4. ppc' \in [Printers -> PrinterPCs] BY <1>0, <2>1 DEF PrinterPCs
  <2>5. ScalerTypes'
    BY <1>0, <1>1, <2>1, <2>2
    DEF TypeInv, ScalerTypes, ScalerPCs, Pool!PoolTypeOK, Pool!Slots
  <2>6. SlotInv'
    BY <1>0, <2>1, <2>2 DEF SlotInv, OneThreadPerSlot, Over, InitialPrinters
  <2> QED BY <1>0, <1>1, <1>6, <2>1, <2>2, <2>3, <2>4, <2>5, <2>6
<1>3. CASE JoinPrinter
  <2>1. /\ apc = "join" /\ apc' = "measureAgain" /\ Over(victim) /\ victim' = NoPrinter
        /\ doomed' = doomed /\ active' = [active EXCEPT ![victim] = FALSE]
        /\ activeCount' = activeCount - 1
        /\ ppc' = [ppc EXCEPT ![victim] = "notStarted"]
    BY <1>3 DEF JoinPrinter, Pool!RemovePrinter
  <2>2. victim \in Printers \ InitialPrinters /\ activeCount > ConsumerCount
    BY <2>1 DEF SlotInv
  <2>3. ppc' \in [Printers -> PrinterPCs] BY <1>0, <2>1 DEF PrinterPCs
  <2>4. ScalerTypes'
    BY <1>0, <1>1, <2>1, <2>2
    DEF TypeInv, ScalerTypes, ScalerPCs, Pool!PoolTypeOK, Pool!Slots
  <2>5. SlotInv'
    BY <1>0, <2>1, <2>2 DEF SlotInv, OneThreadPerSlot, Over, InitialPrinters
  <2> QED BY <1>0, <1>1, <1>6, <2>1, <2>2, <2>3, <2>4, <2>5
<1>4. CASE CancelPrinter
  <2>1. /\ apc' = "join" /\ UNCHANGED <<active, activeCount, ppc>>
        /\ doomed' \subseteq doomed \cup {victim'}
    BY <1>4 DEF CancelPrinter, printerVars
  <2>2. PICK S : S = Pool!Removable(isIdle) OBVIOUS
  <2>3. S # {} /\ victim' = Pool!Newest(S) BY <1>4, <2>2 DEF CancelPrinter
  <2>4. victim' \in Printers \ InitialPrinters /\ activeCount > ConsumerCount
    BY <1>0, <2>2, <2>3, RemovableSlots, NewestIsMember
  <2>5. ScalerTypes'
    BY <1>0, <1>1, <2>1, <2>4
    DEF TypeInv, ScalerTypes, ScalerPCs, Pool!PoolTypeOK, Pool!Slots
  <2>6. SlotInv'
    BY <1>0, <2>1, <2>4 DEF SlotInv, OneThreadPerSlot, Over
  <2> QED BY <1>0, <1>1, <1>6, <2>1, <2>5, <2>6
<1>5. CASE ~(CancelPrinter \/ JoinPrinter \/ (ScaleUp /\ ~active[activeCount + 1]))
  <2>1. /\ apc' \in ScalerPCs \ {"join"} /\ UNCHANGED <<active, activeCount, ppc, victim, doomed>>
    BY <1>5
    DEF AutoscalerStep, AutoscalerNext, AutoscalerChecks, Measure, ScaleUp, FindNoneIdle,
        MeasureAgain, AutoscalerCancelled, printerVars, ScalerPCs
  <2>2. ScalerTypes'
    BY <1>1, <2>1 DEF TypeInv, ScalerTypes, ScalerPCs, Pool!PoolTypeOK
  <2>3. SlotInv'
    BY <2>1 DEF SlotInv, OneThreadPerSlot, Over
  <2> QED BY <1>0, <1>1, <1>6, <2>1, <2>2, <2>3
<1> QED BY <1>2, <1>3, <1>4, <1>5

\* The autoscaler keeps the types.
LEMMA AutoscalerKeepsTypes == ASSUME TypeInv, SlotInv, AutoscalerStep PROVE TypeInv'
<1>0. ThreadInv
  BY DEF TypeInv
<1>1. SharedTypeOK' /\ ReceiverTypeOK' /\ RefillerTypeOK' /\ CatcherTypeOK'
  BY <1>0, AutoscalerEffect
  DEF ThreadInv, ThreadTypes, SharedTypeOK, ReceiverTypeOK, RefillerTypeOK, CatcherTypeOK,
      sharedVars, queueVars, syncVars, flagVars, paperVars, receiverVars, refillerVars
<1>2. PrinterTypeOK' /\ \A q \in Printers : Serving(q)' <=> Serving(q)
  BY <1>0, AutoscalerEffect DEF ThreadInv, ThreadTypes, PrinterTypeOK, Serving, Over
<1>3. PointersOK'
  BY <1>0, <1>2, AutoscalerEffect
  DEF ThreadInv, PointersOK, ReceiverHolds, receiverVars, refillerVars
<1> QED BY <1>1, <1>2, <1>3, AutoscalerEffect DEF TypeInv, ThreadInv, ThreadTypes

\* What main changes.
LEMMA MainEffect ==
  ASSUME TypeInv, ScaledMainStep
  PROVE  /\ UNCHANGED <<sharedVars, receiverVars, printerVars, refillerVars, scalerVars, lost,
                        listRaced>>
         /\ TypeInv'
<1>1. UNCHANGED <<sharedVars, receiverVars, printerVars, refillerVars, scalerVars, lost,
                  listRaced>>
  BY DEF ScaledMainStep
<1>2. /\ spc' \in CatcherPCs /\ mpc' \in MainPCs \cup {"joinAutoscaler"}
      /\ joinSlot' \in 1..(MaxPrinters + 1) /\ scalerDoomed' \in BOOLEAN
  <2>1. joinSlot \in 1..(MaxPrinters + 1) /\ scalerDoomed \in BOOLEAN /\ spc \in CatcherPCs
        /\ mpc \in MainPCs \cup {"joinAutoscaler"}
    BY DEF TypeInv, ThreadInv, ThreadTypes, CatcherTypeOK, ScalerTypes
  <2>2. CASE JoinSlot
    BY <2>1, <2>2, PrintersAssumption DEF JoinSlot
  <2>3. CASE JoinedAll \/ CancelAutoscaler \/ JoinAutoscaler
    BY <2>1, <2>3 DEF JoinedAll, CancelAutoscaler, JoinAutoscaler, MainPCs
  <2>4. CASE (JoinReceiver \/ CancelCatcher \/ JoinCatcher) /\ UNCHANGED <<joinSlot, scalerDoomed>>
    BY <2>1, <2>4 DEF JoinReceiver, CancelCatcher, JoinCatcher, MainPCs, CatcherPCs
  <2> QED BY <2>2, <2>3, <2>4 DEF ScaledMainStep, ScaledMainNext
<1>3. SharedTypeOK' /\ ReceiverTypeOK' /\ PrinterTypeOK' /\ RefillerTypeOK' /\ PointersOK'
  BY <1>1
  DEF TypeInv, ThreadInv, ThreadTypes, PointersOK, SharedTypeOK, ReceiverTypeOK, PrinterTypeOK,
      RefillerTypeOK, ReceiverHolds, Serving, sharedVars, queueVars, syncVars, flagVars,
      paperVars, receiverVars, printerVars, refillerVars
<1>4. ScalerTypes'
  BY <1>1, <1>2 DEF TypeInv, ScalerTypes, scalerVars, poolVars, Pool!PoolTypeOK
<1> QED BY <1>1, <1>2, <1>3, <1>4 DEF TypeInv, ThreadInv, ThreadTypes, CatcherTypeOK

LEMMA StutterTypeInv == ASSUME TypeInv, UNCHANGED scaledVars PROVE TypeInv'
<1>1. ThreadInv'
  BY DEF TypeInv, ThreadInv, ThreadTypes, PointersOK, SharedTypeOK, ReceiverTypeOK, PrinterTypeOK,
         RefillerTypeOK, CatcherTypeOK, ReceiverHolds, Serving, scaledVars, vars, sharedVars,
         queueVars, syncVars, flagVars, paperVars, receiverVars, printerVars, refillerVars
<1>2. ScalerTypes'
  BY DEF TypeInv, ScalerTypes, scaledVars, vars, scalerVars, poolVars, Pool!PoolTypeOK
<1> QED BY <1>1, <1>2 DEF TypeInv

\* No step but the autoscaler's starts a printer or clears a slot, and no step
\* but the autoscaler's revives one that is over.
LEMMA OverStaysOver ==
  ASSUME TypeInv,
         \/ ThreadStep \/ (\E p \in Printers : AppendStep(p) \/ DeathStep(p))
         \/ ScaledMainStep \/ UNCHANGED scaledVars
  PROVE  UNCHANGED <<poolVars, apc, victim>> /\ \A q \in Printers : Over(q) => Over(q)'
<1>0. ThreadInv /\ ppc \in [Printers -> PrinterPCs]
  BY DEF TypeInv, ThreadInv, ThreadTypes, PrinterTypeOK
<1>1. CASE ThreadStep
  <2>1. UNCHANGED <<poolVars, apc, victim>> BY <1>1 DEF ThreadStep, UnscaledVars, scalerVars
  <2>2. CASE ReceiverTurn \/ RefillerTurn \/ CatcherTurn
    BY <2>1, <2>2 DEF ReceiverTurn, RefillerTurn, CatcherTurn, printerVars, Over
  <2>3. ASSUME NEW p \in Printers, PrinterTurn(p)
        PROVE  \A q \in Printers : Over(q) => Over(q)'
    BY <1>0, <2>3, EndedPrinterStays DEF Over
  <2> QED BY <1>1, <2>1, <2>2, <2>3 DEF ThreadStep
<1>2. ASSUME NEW p \in Printers, DeathStep(p)
      PROVE  UNCHANGED <<poolVars, apc, victim>> /\ \A q \in Printers : Over(q) => Over(q)'
  BY <1>0, <1>2, DeathEffect DEF Over
<1>3. ASSUME NEW p \in Printers, AppendStep(p)
      PROVE  UNCHANGED <<poolVars, apc, victim>> /\ \A q \in Printers : Over(q) => Over(q)'
  BY <1>0, <1>3, AppendEffect DEF Over, UnscaledVars, scalerVars
<1>4. CASE ScaledMainStep \/ UNCHANGED scaledVars
  BY <1>4, MainEffect DEF scalerVars, scaledVars, vars, printerVars, Over
<1> QED BY <1>1, <1>2, <1>3, <1>4

\* Types and slots are inductive.
LEMMA NextTypeInv == TypeInv /\ SlotInv /\ [ScaledNext]_scaledVars => TypeInv' /\ SlotInv'
<1> SUFFICES ASSUME TypeInv, SlotInv, [ScaledNext]_scaledVars PROVE TypeInv' /\ SlotInv'
  OBVIOUS
<1>1. TypeInv'
  <2>1. CASE ThreadStep
    <3>1. ThreadInv'
      BY <2>1, ReceiverKeepsTypes, PrinterKeepsTypes, RefillerKeepsTypes, CatcherKeepsTypes
      DEF ThreadStep, TypeInv
    <3>2. ScalerTypes'
      <4>1. UNCHANGED <<mpc, UnscaledVars>> /\ listRaced' \in BOOLEAN
        BY <2>1 DEF ThreadStep, WatchList, TypeInv, ScalerTypes
      <4> QED
        BY <4>1 DEF UnscaledVars, scalerVars, poolVars, TypeInv, ScalerTypes, Pool!PoolTypeOK
    <3> QED BY <3>1, <3>2 DEF TypeInv
  <2> QED
    BY <2>1, KindsOfSteps, AppendKeepsTypes, DeathKeepsTypes, AutoscalerKeepsTypes, MainEffect,
       StutterTypeInv
<1>2. SlotInv'
  <2>1. CASE AutoscalerStep
    BY <2>1, AutoscalerEffect
  <2>2. CASE ~AutoscalerStep
    BY <2>2, KindsOfSteps, OverStaysOver DEF SlotInv, OneThreadPerSlot, poolVars
  <2> QED BY <2>1, <2>2
<1> QED BY <1>1, <1>2

\* Types, pointers and slots, while printers come and go.
THEOREM ScaledInvariant == ScaledSpec => [](TypeInv /\ SlotInv)
BY InitInv, NextTypeInv, PTL DEF ScaledSpec

\* Every variable of the scaled program keeps its type.
THEOREM ScaledTypesHold == ScaledSpec => []ScaledTypeOK
<1>1. TypeInv => ScaledTypeOK
  BY DEF TypeInv, ThreadInv, ThreadTypes, ScalerTypes, ScaledTypeOK
<1> QED BY <1>1, ScaledInvariant, PTL

\* Starting a printer in a slot that was released never gives one printer's record
\* to two threads (printer.c:216-229).
THEOREM OneThreadPerSlotHolds == ScaledSpec => []OneThreadPerSlot
<1>1. SlotInv => OneThreadPerSlot
  BY DEF SlotInv
<1> QED BY <1>1, ScaledInvariant, PTL

-----------------------------------------------------------------------------
(* The joins.  main walks the slots once; a printer that it started stays    *)
(* over because its slot is never released, so never started again.          *)

JoinInv ==
  /\ \A s \in InitialPrinters : s < joinSlot => Over(s)
  /\ mpc \notin {"joinReceiver", "joinPrinters"} => joinSlot > MaxPrinters

LEMMA InitialAreSlots == InitialPrinters \subseteq Printers
BY PrintersAssumption DEF InitialPrinters

LEMMA NextJoinInv == TypeInv /\ SlotInv /\ JoinInv /\ [ScaledNext]_scaledVars => JoinInv'
<1> SUFFICES ASSUME TypeInv, SlotInv, JoinInv, [ScaledNext]_scaledVars PROVE JoinInv'
  OBVIOUS
<1>0. joinSlot \in Int /\ MaxPrinters \in Nat
  BY PrintersAssumption DEF TypeInv, ScalerTypes
<1>1. \A s \in InitialPrinters : Over(s) => Over(s)'
  BY KindsOfSteps, OverStaysOver, AutoscalerEffect, InitialAreSlots DEF Over
<1>2. CASE JoinSlot /\ ScaledMainStep
  <2>1. Over(joinSlot) \/ joinSlot \notin InitialPrinters
    BY <1>2 DEF JoinSlot, SlotInv
  <2>2. joinSlot' = joinSlot + 1 /\ mpc' = mpc /\ mpc = "joinPrinters" BY <1>2 DEF JoinSlot
  <2>3. \A s \in InitialPrinters : s < joinSlot' => s < joinSlot \/ s = joinSlot
    BY <1>0, <2>2 DEF InitialPrinters
  <2> QED BY <1>1, <2>1, <2>2, <2>3 DEF JoinInv
<1>3. CASE ScaledMainStep /\ ~JoinSlot
  <2>1. joinSlot' = joinSlot
    BY <1>3 DEF ScaledMainStep, ScaledMainNext, JoinedAll, CancelAutoscaler, JoinAutoscaler
  <2>2. mpc' \notin {"joinReceiver", "joinPrinters"} => joinSlot > MaxPrinters
    BY <1>3
    DEF ScaledMainStep, ScaledMainNext, JoinedAll, CancelAutoscaler, JoinAutoscaler, JoinReceiver,
        CancelCatcher, JoinCatcher, JoinInv
  <2> QED BY <1>1, <2>1, <2>2 DEF JoinInv
<1>4. CASE ~ScaledMainStep
  <2>1. UNCHANGED <<mpc, joinSlot>>
    BY <1>4, KindsOfSteps, AutoscalerEffect
    DEF ThreadStep, AppendStep, DeathStep, UnscaledVars, scaledVars, vars
  <2> QED BY <1>1, <2>1 DEF JoinInv
<1> QED BY <1>2, <1>3, <1>4

\* When main reports and destroys the mutexes, every printer that it started is
\* over: the autoscaler can have taken none of their slots (printer.c:242-249).
THEOREM InitialPrintersAreJoinedHolds == ScaledSpec => []InitialPrintersAreJoined
<1>1. ScaledInit => JoinInv
  BY DEF ScaledInit, Init, JoinInv, InitialPrinters
<1>2. ScaledInit /\ [][ScaledNext]_scaledVars /\ [](TypeInv /\ SlotInv) => []JoinInv
  BY <1>1, NextJoinInv, PTL
<1>3. TypeInv /\ JoinInv => InitialPrintersAreJoined
  <2> SUFFICES ASSUME TypeInv, JoinInv, Terminated PROVE InitialPrintersAreJoined
    BY DEF InitialPrintersAreJoined
  <2>1. \A p \in InitialPrinters : Over(p)
    <3>1. joinSlot \in Int /\ MaxPrinters \in Nat /\ joinSlot > MaxPrinters
      BY PrintersAssumption DEF TypeInv, ScalerTypes, JoinInv, Terminated
    <3>2. \A p \in InitialPrinters : p < joinSlot
      BY <3>1, InitialAreSlots
    <3> QED BY <3>2 DEF JoinInv
  <2>2. \A p \in Printers : Serving(p) => ~Over(p)
    BY DEF Serving, Over
  <2> QED BY <2>1, <2>2 DEF InitialPrintersAreJoined, BeingServed
<1> QED BY <1>2, <1>3, ScaledInvariant, PTL DEF ScaledSpec

-----------------------------------------------------------------------------
(* Jobs.  The jobs that died with a printer stay allocated for good; the     *)
(* invariant of the threads counts them among those that belong to nobody.   *)

JobInv == JobsOwned(lost)

\* A job whose printer dies while it serves it is lost, and nothing else moves.
LEMMA ServedJobIsLost ==
  ASSUME ThreadInv, NEW gone, JobsOwned(gone), NEW p \in Printers, NEW job,
         Serving(p), job = target[p], ~Serving(p)',
         \A q \in Printers \ {p} : (Serving(q)' <=> Serving(q)) /\ target'[q] = target[q],
         UNCHANGED <<jobQueue, papersRequired, rpc, jobId>>
  PROVE  JobsOwned(gone \cup {job})'
<1>1. /\ Queued' = Queued /\ Live' = Live /\ (ReceiverHolds' <=> ReceiverHolds)
      /\ Sorted(jobQueue') = Sorted(jobQueue)
  BY DEF Queued, Live, ReceiverHolds
<1>2. /\ job \in Jobs /\ job <= jobId /\ (ReceiverHolds => job # jobId) /\ job \notin Queued
      /\ \A q \in Printers \ {p} : Serving(q) => target[q] # job
  <2>1. job \in Jobs BY DEF ThreadInv, PointersOK
  <2>2. \A j \in Queued : job < j BY DEF JobsOwned
  <2> QED BY <2>1, <2>2 DEF JobsOwned
<1>3. \A j \in gone : \A q \in Printers : Serving(q)' => target'[q] # j
  BY DEF JobsOwned
<1> QED BY <1>1, <1>2, <1>3 DEF JobsOwned

\* The job at the front is lost when a printer dies between its dequeue and the
\* release of the mutex.
LEMMA FrontJobIsLost ==
  ASSUME ThreadInv, NEW gone, JobsOwned(gone), NEW job,
         jobQueue # <<>>, job = Head(jobQueue), jobQueue' = Tail(jobQueue),
         \A q \in Printers : (Serving(q)' <=> Serving(q)) /\ (Serving(q) => target'[q] = target[q]),
         UNCHANGED <<papersRequired, rpc, jobId>>
  PROVE  JobsOwned(gone \cup {job})'
<1>1. Live' = Live /\ (ReceiverHolds' <=> ReceiverHolds)
  BY DEF Live, ReceiverHolds
<1>2. /\ Queued \subseteq Jobs /\ Sorted(jobQueue')
      /\ Queued = Queued' \cup {job} /\ \A j \in Queued' : job < j
  <2>1. Queued = Elements(jobQueue) /\ Queued' = Elements(jobQueue') /\ Queued \subseteq Jobs
    BY QueuedJobs DEF Queued, Elements
  <2>2. jobQueue \in Seq(Jobs) /\ Sorted(jobQueue)
    BY DEF ThreadInv, ThreadTypes, SharedTypeOK, JobsOwned
  <2> QED BY <2>1, <2>2, SortedTail
<1>3. /\ job \in Jobs /\ job <= jobId /\ (ReceiverHolds => job # jobId) /\ job \notin Queued'
      /\ \A q \in Printers : Serving(q) => target[q] # job
  <2>1. job \in Jobs /\ job \in Queued BY <1>2
  <2>2. \A q \in Printers : Serving(q) => target[q] \in Jobs /\ target[q] < job
    BY <2>1 DEF JobsOwned, ThreadInv, PointersOK
  <2> QED BY <1>2, <2>1, <2>2 DEF JobsOwned
<1>4. \A j \in Queued' : j <= jobId /\ (ReceiverHolds => j # jobId)
  BY <1>2 DEF JobsOwned
<1>5. \A q \in Printers : Serving(q) =>
        /\ target[q] <= jobId /\ (ReceiverHolds => target[q] # jobId)
        /\ \A j \in Queued' : target[q] < j
  BY <1>2 DEF JobsOwned
<1>6. \A q, r \in Printers : Serving(q) /\ Serving(r) /\ target[q] = target[r] => q = r
  BY DEF JobsOwned
<1>7. \A j \in gone \cup {job} :
        /\ j \in Jobs /\ j <= jobId /\ (ReceiverHolds => j # jobId)
        /\ j \notin Queued'
        /\ \A q \in Printers : Serving(q) => target[q] # j
  BY <1>2, <1>3 DEF JobsOwned
<1>8. \A j \in Jobs :
        j \in Live <=> \/ j \in Queued'
                       \/ \E q \in Printers : Serving(q) /\ target[q] = j
                       \/ ReceiverHolds /\ j = jobId
                       \/ j \in gone \cup {job}
  BY <1>2 DEF JobsOwned
<1> QED BY <1>1, <1>2, <1>4, <1>5, <1>6, <1>7, <1>8 DEF JobsOwned

\* A dying printer takes at most the job it holds, or is dequeuing, with it.
LEMMA DeathKeepsJobs ==
  ASSUME TypeInv, JobInv, NEW p \in Printers, DeathStep(p)
  PROVE  JobInv'
<1>0. ThreadInv /\ ppc \in [Printers -> PrinterPCs]
      /\ target \in [Printers -> Jobs \cup {NoJob}]
  BY DEF TypeInv, ThreadInv, ThreadTypes, PrinterTypeOK
<1>1. /\ ~Serving(p)' /\ UNCHANGED <<papersRequired, rpc, jobId>>
      /\ \A q \in Printers \ {p} : (Serving(q)' <=> Serving(q)) /\ target'[q] = target[q]
  BY <1>0, DeathEffect DEF Serving, receiverVars
<1>2. PICK gone : gone = lost OBVIOUS
<1>3. JobsOwned(gone) BY <1>2 DEF JobInv, JobsOwned
<1>4. CASE DieStarting(p) \/ DiePrinting(p) \/ DieDeparting(p)
  <2>1. PICK job : job = target[p] OBVIOUS
  <2>2. Serving(p) /\ UNCHANGED jobQueue /\ lost' = gone \cup {job}
    BY <1>2, <1>4, <2>1
    DEF DieStarting, DiePrinting, DieDeparting, Serving, sharedVars, queueVars
  <2>3. JobsOwned(gone \cup {job})'
    BY <1>0, <1>1, <1>3, <2>1, <2>2, ServedJobIsLost
  <2> QED BY <2>2, <2>3 DEF JobInv, JobsOwned
<1>5. CASE DieDequeuing(p)
  <2>1. PICK job : job = Head(jobQueue) OBVIOUS
  <2>2. /\ ~Serving(p) /\ jobQueue # <<>> /\ jobQueue' = Tail(jobQueue)
        /\ lost' = gone \cup {job}
    BY <1>2, <1>5, <2>1 DEF DieDequeuing, Serving
  <2>3. JobsOwned(gone \cup {job})'
    BY <1>0, <1>1, <1>3, <2>1, <2>2, FrontJobIsLost
  <2> QED BY <2>2, <2>3 DEF JobInv, JobsOwned
<1>6. CASE ~(DieStarting(p) \/ DiePrinting(p) \/ DieDeparting(p) \/ DieDequeuing(p))
  <2>1. ~Serving(p) /\ UNCHANGED <<jobQueue, lost>>
    BY <1>6 DEF DeathStep, PrinterDies, DieWaiting, DieRequesting, Serving, queueVars
  <2>2. JobsStay
    BY <1>1, <2>1 DEF JobsStay, ReceiverHolds
  <2>3. JobsOwned(gone)'
    BY <1>3, <2>2, JobsStayKeepsJobs
  <2> QED BY <1>2, <2>1, <2>3 DEF JobInv, JobsOwned
<1> QED BY <1>4, <1>5, <1>6

\* The job invariant is inductive, given types and slots.
LEMMA NextJobInv == TypeInv /\ SlotInv /\ JobInv /\ [ScaledNext]_scaledVars => JobInv'
<1> SUFFICES ASSUME TypeInv, SlotInv, JobInv, [ScaledNext]_scaledVars PROVE JobInv'
  OBVIOUS
<1>0. ThreadInv
  BY DEF TypeInv
<1>1. PICK gone : gone = lost OBVIOUS
<1>2. JobsOwned(gone) BY <1>1 DEF JobInv, JobsOwned
<1>3. CASE ThreadStep
  <2>1. JobsOwned(gone)'
    BY <1>0, <1>2, <1>3, ReceiverKeepsJobs, PrinterKeepsJobs, CatcherKeepsJobs, OthersJobsStay,
       JobsStayKeepsJobs DEF ThreadStep
  <2>2. lost' = lost BY <1>3 DEF ThreadStep, UnscaledVars
  <2> QED BY <1>1, <2>1, <2>2 DEF JobInv, JobsOwned
<1>4. CASE AutoscalerStep \/ ScaledMainStep \/ UNCHANGED scaledVars
  <2>1. UNCHANGED <<queueVars, receiverVars, target, lost>>
    BY <1>4, AutoscalerEffect, MainEffect DEF scaledVars, vars, printerVars, sharedVars
  <2>2. \A q \in Printers : Serving(q)' <=> Serving(q)
    BY <1>4, AutoscalerEffect, MainEffect DEF scaledVars, vars, printerVars, Serving, Over
  <2>3. JobsStay
    BY <2>1, <2>2 DEF JobsStay, ReceiverHolds, queueVars, receiverVars
  <2>4. JobsOwned(gone)' BY <1>2, <2>3, JobsStayKeepsJobs
  <2> QED BY <1>1, <2>1, <2>4 DEF JobInv, JobsOwned
<1>5. ASSUME NEW p \in Printers, AppendStep(p) PROVE JobInv'
  <2>1. ppc \in [Printers -> PrinterPCs]
    BY <1>0 DEF ThreadInv, ThreadTypes, PrinterTypeOK
  <2>2. /\ UNCHANGED <<queueVars, receiverVars, target, lost>>
        /\ \A q \in Printers : Serving(q)' <=> Serving(q)
    BY <1>0, <1>5, <2>1, AppendEffect DEF Serving, UnscaledVars
  <2>3. JobsStay
    BY <2>2 DEF JobsStay, ReceiverHolds, queueVars, receiverVars
  <2>4. JobsOwned(gone)' BY <1>2, <2>3, JobsStayKeepsJobs
  <2> QED BY <1>1, <2>2, <2>4 DEF JobInv, JobsOwned
<1> QED BY <1>3, <1>4, <1>5, KindsOfSteps, DeathKeepsJobs

\* Queue, printers, receiver and the jobs whose printer died before it freed them
\* are disjoint and sorted by age, and together the allocated jobs.  Printers die in
\* usleep, in a wait and in their events (printer.c:70-72, 109-114, 124-131, 147).
THEOREM ScaledJobInvariant == ScaledSpec => []JobInv
<1>1. ScaledInit => JobInv
  BY InitInv, AtRestJobs DEF JobInv, JobsOwned
<1>2. ScaledInit /\ [][ScaledNext]_scaledVars /\ [](TypeInv /\ SlotInv) => []JobInv
  BY <1>1, NextJobInv, PTL
<1> QED BY <1>2, ScaledInvariant, PTL DEF ScaledSpec

\* No job is printed or freed twice although printers are cancelled with jobs in
\* their hands, for any number of them, in usleep or in the events of the dequeue, of
\* the start and of the end of a job, where is_idle is set already and the job may be
\* counted as served (autoscaling.c:182, printer.c:114, 126, 131 and 140-147).
THEOREM ScaledOwnershipHolds == ScaledSpec => []ScaledJobOwnership
<1>1. ASSUME TypeInv, JobInv PROVE ScaledJobOwnership
  <2>1. BeingServed = InService
    BY DEF BeingServed, InService
  <2>2. PICK gone : gone = lost OBVIOUS
  <2>3. ThreadInv /\ JobsOwned(gone)
    BY <1>1, <2>2 DEF TypeInv, JobInv, JobsOwned
  <2>4. /\ \A i, k \in DOMAIN jobQueue : jobQueue[i] = jobQueue[k] => i = k
        /\ Queued \cap InService = {} /\ gone \cap (Queued \cup InService) = {}
        /\ ReceiverHolds => jobId \notin Queued \cup InService \cup gone
        /\ Live = Queued \cup InService \cup gone \cup {j \in Jobs : ReceiverHolds /\ j = jobId}
    BY <2>3, OwnersAreDistinct
  <2>5. \A p, q \in Printers : Serving(p) /\ Serving(q) /\ target[p] = target[q] => p = q
    BY <2>3 DEF JobsOwned
  <2> QED BY <2>1, <2>2, <2>4, <2>5 DEF ScaledJobOwnership
<1> QED BY <1>1, ScaledInvariant, ScaledJobInvariant, PTL

-----------------------------------------------------------------------------
(* Requests.  The printers that main started and the refiller use the refill *)
(* mutex for requests, so the refiller finds the queue empty and blocks      *)
(* before such a printer can append; the printers of scale_up use the job    *)
(* queue mutex, and theirs are not excluded.                                 *)

RequestInv ==
  /\ fpc = "blockOnSupplier" => owner["paper_refill_queue"] = Refiller
  /\ \A p \in InitialPrinters :
       ppc[p] \in {"append", "testPaper", "blockOnRefill"} => owner["paper_refill_queue"] = p
  /\ Refiller \in waiting["refill_supplier"] => fpc = "waitForRequest"
  /\ Refiller \in waiting["refill_supplier"] \/ fpc = "blockOnSupplier" =>
       Requesting \cap InitialPrinters = {}

\* Most steps append no request, leave the refill mutex alone and wake the
\* refiller if anything.
RequestsStay ==
  /\ owner'["paper_refill_queue"] = owner["paper_refill_queue"]
  /\ UNCHANGED <<refillQueue, fpc>>
  /\ Refiller \in waiting'["refill_supplier"] => Refiller \in waiting["refill_supplier"]
  /\ \A p \in InitialPrinters :
       ppc'[p] \in {"append", "testPaper", "blockOnRefill"} =>
         ppc[p] \in {"append", "testPaper", "blockOnRefill"}

LEMMA RequestsStayKeepsRequests == ASSUME RequestInv, RequestsStay PROVE RequestInv'
BY DEF RequestInv, RequestsStay, Requesting

\* The receiver and the catcher make no requests.
LEMMA OthersKeepRequests ==
  ASSUME ThreadInv, RequestInv, ReceiverTurn \/ CatcherTurn
  PROVE  RequestInv'
<1>1. UNCHANGED <<owner, refillQueue, fpc, ppc>>
  BY DEF ReceiverTurn, CatcherTurn, ReceiverNext, EndOfArrivals, Allocate, LoopEnds,
         ArrivalTimeElapses, ReceiverCancelled, CheckTermination, StopArrivals, JobArrives,
         Enqueue, FindQueueFull, DropJob, MarkAllArrived, ReceiverExits, CatcherNext, CatchSignal,
         CancelThreads, DrainQueue, NotifyTermination, sharedVars, syncVars, refillerVars,
         printerVars
<1>2. waiting' = waiting \/ \E cs \in SUBSET CondVars : Broadcast(cs)
  BY DEF ReceiverTurn, CatcherTurn, ReceiverNext, EndOfArrivals, Allocate, LoopEnds,
         ArrivalTimeElapses, ReceiverCancelled, CheckTermination, StopArrivals, JobArrives,
         Enqueue, FindQueueFull, DropJob, MarkAllArrived, ReceiverExits, CatcherNext, CatchSignal,
         CancelThreads, DrainQueue, NotifyTermination, sharedVars, syncVars
<1>3. Refiller \in waiting'["refill_supplier"] => Refiller \in waiting["refill_supplier"]
  BY <1>2 DEF Broadcast
<1> QED BY <1>1, <1>3, RequestsStayKeepsRequests DEF RequestsStay

\* The refiller sees the queue empty and blocks under one hold of the mutex.
LEMMA RefillerKeepsRequests ==
  ASSUME ThreadInv, RequestInv, RefillerTurn
  PROVE  RequestInv'
<1>0. /\ owner \in [Mutexes -> Printers \cup {Refiller, Scaler, NoThread}]
      /\ waiting \in [CondVars -> SUBSET (Printers \cup {Refiller})] /\ ppc' = ppc
      /\ 0 \notin InitialPrinters /\ -1 \notin InitialPrinters
  BY PrintersAssumption
  DEF ThreadInv, ThreadTypes, SharedTypeOK, RefillerTurn, printerVars, InitialPrinters
<1>1. CASE FindNoRequest
  <2>1. /\ Requesting' = {} /\ waiting' = waiting /\ fpc' = "blockOnSupplier"
        /\ owner["paper_refill_queue"] = NoThread /\ owner'["paper_refill_queue"] = Refiller
        /\ Refiller \notin waiting["refill_supplier"]
    BY <1>0, <1>1 DEF FindNoRequest, Requesting, Acquire, Free, Inspecting, Woken, RequestInv
  <2> QED BY <1>0, <2>1 DEF RequestInv
<1>2. CASE BlockOnSupplier
  <2>1. /\ refillQueue' = refillQueue /\ fpc = "blockOnSupplier" /\ fpc' = "waitForRequest"
        /\ owner["paper_refill_queue"] = Refiller
    BY <1>2 DEF BlockOnSupplier, RequestInv
  <2> QED BY <1>0, <2>1 DEF RequestInv, Requesting
<1>3. CASE ~(FindNoRequest \/ BlockOnSupplier)
  <2>1. /\ owner' = owner /\ fpc' \notin {"blockOnSupplier", "waitForRequest"}
        /\ Refiller \notin waiting["refill_supplier"]
    BY <1>3
    DEF RefillerTurn, RefillerNext, RefillerExits, TakeRequest, FindPrinterFull, MeasureRefill,
        RefillTimeElapses, RefillerCancelled, ReadCount, WriteCount, NoteRefill, NotifyRefilled,
        Inspecting, Woken, sharedVars, syncVars, RequestInv
  <2>2. waiting' = waiting \/ \E cs \in SUBSET CondVars : Broadcast(cs)
    BY <1>3
    DEF RefillerTurn, RefillerNext, RefillerExits, TakeRequest, FindPrinterFull, MeasureRefill,
        RefillTimeElapses, RefillerCancelled, ReadCount, WriteCount, NoteRefill, NotifyRefilled,
        sharedVars, syncVars
  <2>3. Refiller \notin waiting'["refill_supplier"]
    BY <2>1, <2>2 DEF Broadcast
  <2> QED BY <1>0, <2>1, <2>3 DEF RequestInv
<1> QED BY <1>1, <1>2, <1>3

\* A printer that appends a request wakes the refiller, and one that main started
\* cannot append between the refiller's look at the queue and its wait.
LEMMA PrinterKeepsRequests ==
  ASSUME ThreadInv, RequestInv, NEW p \in Printers, PrinterTurn(p)
  PROVE  RequestInv'
<1>0. /\ owner \in [Mutexes -> Printers \cup {Refiller, Scaler, NoThread}]
      /\ waiting \in [CondVars -> SUBSET (Printers \cup {Refiller})]
      /\ ppc \in [Printers -> PrinterPCs] /\ refillQueue \in Seq(Printers)
      /\ InitialPrinters \subseteq Printers
      /\ 0 \notin Printers /\ -1 \notin Printers
  BY InitialAreSlots DEF ThreadInv, ThreadTypes, SharedTypeOK, PrinterTypeOK
<1>00. fpc' = fpc /\ \A q \in InitialPrinters \ {p} : ppc'[q] = ppc[q]
  BY <1>0, EndedPrinterStays DEF PrinterTurn, refillerVars
<1>1. CASE RequestRefill(p)
  <2>0. p \in InitialPrinters
    BY <1>1 DEF RequestRefill, HoldsOffRefiller, RefillMutex
  <2>1. /\ Refiller \notin waiting'["refill_supplier"]
        /\ refillQueue' = Append(refillQueue, p) /\ ppc'[p] = "testPaper"
    BY <1>0, <1>1 DEF RequestRefill, GoTo, Broadcast
  <2>2. owner["paper_refill_queue"] = NoThread /\ owner'["paper_refill_queue"] = p
    BY <1>0, <1>1, <2>0 DEF RequestRefill, RefillMutex, Acquire, Free
  <2> QED BY <1>0, <1>00, <2>1, <2>2 DEF RequestInv
<1>2. CASE WakeForRefill(p)
  <2>1. /\ refillQueue' = refillQueue /\ waiting' = waiting
        /\ p \in InitialPrinters => /\ owner["paper_refill_queue"] = NoThread
                                    /\ owner'["paper_refill_queue"] = p
        /\ p \notin InitialPrinters =>
             owner'["paper_refill_queue"] = owner["paper_refill_queue"]
    BY <1>0, <1>2 DEF WakeForRefill, RefillMutex, Acquire, Free
  <2> QED BY <1>0, <1>00, <2>1 DEF RequestInv, Requesting
<1>3. CASE PaperSuffices(p) \/ BlockOnRefill(p)
  <2>1. /\ refillQueue' = refillQueue
        /\ waiting'["refill_supplier"] = waiting["refill_supplier"]
        /\ ppc[p] \in {"testPaper", "blockOnRefill"}
        /\ ppc'[p] \notin {"append", "testPaper", "blockOnRefill"}
        /\ p \notin InitialPrinters =>
             owner'["paper_refill_queue"] = owner["paper_refill_queue"]
    BY <1>0, <1>3 DEF PaperSuffices, BlockOnRefill, GoTo, CondWait, Release, RefillMutex
  <2>2. p \in InitialPrinters => owner["paper_refill_queue"] = p
    BY <2>1 DEF RequestInv
  <2> QED BY <1>0, <1>00, <2>1, <2>2 DEF RequestInv, Requesting
<1>4. CASE ~(RequestRefill(p) \/ WakeForRefill(p) \/ PaperSuffices(p) \/ BlockOnRefill(p))
  <2>1. refillQueue' = refillQueue /\ owner'["paper_refill_queue"] = owner["paper_refill_queue"]
    BY <1>0, <1>4
    DEF PrinterTurn, PrinterNext, ReadTerminate, LeaveFromCheck, FindNoJob, BlockOnJob,
        WakeForJob, FindTooLittlePaper, NotePaperWait, PaperMissing, WakeToTerminate, Dequeue, StartService,
        FinishPrinting, DeductPaper, JobDeparts, ReadArrived, LeaveFromRecheck, LookForNextJob,
        MarkServed, NotifyExit, CancelRefiller, CondWait, Acquire, Release, sharedVars, syncVars
  <2>2. Refiller \in waiting'["refill_supplier"] => Refiller \in waiting["refill_supplier"]
    BY <1>0, <1>4
    DEF PrinterTurn, PrinterNext, ReadTerminate, LeaveFromCheck, FindNoJob, BlockOnJob,
        WakeForJob, FindTooLittlePaper, NotePaperWait, PaperMissing, WakeToTerminate, Dequeue, StartService,
        FinishPrinting, DeductPaper, JobDeparts, ReadArrived, LeaveFromRecheck, LookForNextJob,
        MarkServed, NotifyExit, CancelRefiller, CondWait, Broadcast, sharedVars, syncVars
  <2>3. ppc'[p] \in {"append", "testPaper", "blockOnRefill"} =>
          ppc[p] \in {"append", "testPaper", "blockOnRefill"}
    BY <1>0, <1>4
    DEF PrinterTurn, PrinterNext, ReadTerminate, LeaveFromCheck, FindNoJob, BlockOnJob,
        WakeForJob, FindTooLittlePaper, NotePaperWait, PaperMissing, WakeToTerminate, Dequeue, StartService,
        FinishPrinting, DeductPaper, JobDeparts, ReadArrived, LeaveFromRecheck, LookForNextJob,
        MarkServed, NotifyExit, CancelRefiller, GoTo
  <2> QED
    BY <1>00, <2>1, <2>2, <2>3, RequestsStayKeepsRequests DEF RequestsStay
<1> QED BY <1>1, <1>2, <1>3, <1>4

\* An added printer's append wakes the refiller, adds no request of another printer
\* and leaves the refill mutex alone.
LEMMA AppendKeepsRequests ==
  ASSUME ThreadInv, RequestInv, NEW p \in Printers, AppendStep(p)
  PROVE  RequestInv'
<1>0. /\ owner \in [Mutexes -> Printers \cup {Refiller, Scaler, NoThread}]
      /\ waiting \in [CondVars -> SUBSET (Printers \cup {Refiller})]
      /\ ppc \in [Printers -> PrinterPCs] /\ InitialPrinters \subseteq Printers
      /\ 0 \notin Printers
  BY InitialAreSlots DEF ThreadInv, ThreadTypes, SharedTypeOK, PrinterTypeOK
<1>1. fpc' = fpc /\ \A q \in InitialPrinters \ {p} : ppc'[q] = ppc[q]
  <2>1. fpc' = fpc /\ \E pc \in {"append", "testPaper"} : ppc' = [ppc EXCEPT ![p] = pc]
    BY AppendEffect DEF refillerVars
  <2> QED BY <1>0, <2>1
<1>2. CASE StartAppend(p)
  <2>1. p \notin InitialPrinters
    BY <1>2 DEF StartAppend, HoldsOffRefiller, RefillMutex
  <2>2. /\ owner'["paper_refill_queue"] = owner["paper_refill_queue"]
        /\ UNCHANGED <<refillQueue, waiting>>
    BY <1>0, <1>2, <2>1 DEF StartAppend, RefillMutex, Acquire
  <2> QED BY <1>1, <2>1, <2>2, RequestsStayKeepsRequests DEF RequestsStay
<1>3. CASE FinishAppend(p)
  <2>1. /\ owner' = owner /\ Refiller \notin waiting'["refill_supplier"]
        /\ ppc[p] = "append"
    BY <1>0, <1>3 DEF FinishAppend, GoTo, Broadcast
  <2>2. Requesting' \subseteq Requesting \cup {p}
    BY <1>3, AppendedRequests
  <2>3. p \in InitialPrinters => owner["paper_refill_queue"] = p
    BY <2>1 DEF RequestInv
  <2>4. fpc' = "blockOnSupplier" => Requesting' \cap InitialPrinters = {}
    BY <1>0, <1>1, <2>2, <2>3 DEF RequestInv
  <2>5. \A q \in InitialPrinters :
          ppc'[q] \in {"append", "testPaper", "blockOnRefill"} => owner["paper_refill_queue"] = q
    BY <1>1, <2>3 DEF RequestInv
  <2>6. fpc = "blockOnSupplier" => owner["paper_refill_queue"] = Refiller
    BY DEF RequestInv
  <2> QED BY <1>1, <2>1, <2>4, <2>5, <2>6 DEF RequestInv
<1> QED BY <1>2, <1>3 DEF AppendStep

\* A printer that dies takes mutexes that nobody keeps.
LEMMA DeathKeepsRequests ==
  ASSUME ThreadInv, RequestInv, NEW p \in Printers, DeathStep(p)
  PROVE  RequestInv'
<1>0. /\ owner \in [Mutexes -> Printers \cup {Refiller, Scaler, NoThread}]
      /\ waiting \in [CondVars -> SUBSET (Printers \cup {Refiller})]
      /\ ppc \in [Printers -> PrinterPCs] /\ InitialPrinters \subseteq Printers
      /\ 0 \notin Printers /\ -1 \notin Printers
  BY InitialAreSlots DEF ThreadInv, ThreadTypes, SharedTypeOK, PrinterTypeOK
<1>1. /\ fpc' = fpc /\ refillQueue' = refillQueue
      /\ ppc'[p] = "notStarted" /\ \A q \in InitialPrinters \ {p} : ppc'[q] = ppc[q]
  <2>1. UNCHANGED <<fpc, refillQueue>> /\ ppc' = [ppc EXCEPT ![p] = "notStarted"]
    BY DeathEffect DEF refillerVars
  <2> QED BY <1>0, <2>1
<1>2. waiting'["refill_supplier"] = waiting["refill_supplier"]
  BY <1>0
  DEF DeathStep, PrinterDies, DieWaiting, DieRequesting, DieDequeuing, DieStarting, DiePrinting,
      DieDeparting, sharedVars, syncVars
<1>3. \/ owner'["paper_refill_queue"] = owner["paper_refill_queue"]
      \/ owner["paper_refill_queue"] = NoThread
  BY DeathTakesMutexes
<1> QED BY <1>0, <1>1, <1>2, <1>3 DEF RequestInv, Requesting

\* The invariant about requests is inductive, given types and slots.
LEMMA NextRequestInv ==
  TypeInv /\ SlotInv /\ RequestInv /\ [ScaledNext]_scaledVars => RequestInv'
<1> SUFFICES ASSUME TypeInv, SlotInv, RequestInv, [ScaledNext]_scaledVars PROVE RequestInv'
  OBVIOUS
<1>0. ThreadInv
  BY DEF TypeInv
<1>1. CASE ThreadStep
  BY <1>0, <1>1, OthersKeepRequests, RefillerKeepsRequests, PrinterKeepsRequests DEF ThreadStep
<1>2. CASE AutoscalerStep \/ ScaledMainStep \/ UNCHANGED scaledVars
  <2>1. /\ UNCHANGED <<refillQueue, waiting, refillerVars>>
        /\ owner'["paper_refill_queue"] = owner["paper_refill_queue"]
    BY <1>2, AutoscalerEffect, MainEffect DEF scaledVars, vars, sharedVars, syncVars
  <2>2. \A q \in InitialPrinters : ppc'[q] = ppc[q]
    BY <1>2, AutoscalerEffect, MainEffect, InitialAreSlots DEF scaledVars, vars, printerVars
  <2>3. RequestsStay
    BY <2>1, <2>2 DEF RequestsStay, refillerVars
  <2> QED BY <2>3, RequestsStayKeepsRequests
<1> QED BY <1>0, <1>1, <1>2, KindsOfSteps, AppendKeepsRequests, DeathKeepsRequests

\* The refiller never sleeps over the request of a printer that main started, as long
\* as no append of a printer that scale_up started has overlapped another change of the
\* list (paper_refiller.c:55-70, autoscaling.c:119).
THEOREM InitialRequestsAreHeardHolds == ScaledSpec => []InitialRequestsAreHeard
<1>1. ScaledInit => RequestInv
  <2> SUFFICES ASSUME ScaledInit PROVE RequestInv
    OBVIOUS
  <2>1. waiting["refill_supplier"] = {} /\ fpc = "lock"
    BY DEF ScaledInit, Init, SharedInit, RefillerInit
  <2>2. \A p \in InitialPrinters : ppc[p] = "readTerminate"
    BY InitialAreSlots DEF ScaledInit, Init, PrinterInit
  <2> QED BY <2>1, <2>2 DEF RequestInv
<1>2. ScaledInit /\ [][ScaledNext]_scaledVars /\ [](TypeInv /\ SlotInv) => []RequestInv
  BY <1>1, NextRequestInv, PTL
<1>3. RequestInv => InitialRequestsAreHeard
  BY DEF RequestInv, InitialRequestsAreHeard
<1> QED BY <1>2, <1>3, ScaledInvariant, PTL DEF ScaledSpec

-----------------------------------------------------------------------------
(* Paper.  A printer that dies keeps its count; the next thread of its slot  *)
(* finds it there.                                                           *)

LEMMA NextPaperInv ==
  /\ TypeInv /\ TypeInv' /\ SlotInv /\ JobInv /\ PaperInv /\ [ScaledNext]_scaledVars
  => PaperInv'
<1> SUFFICES ASSUME TypeInv, TypeInv', SlotInv, JobInv, PaperInv, [ScaledNext]_scaledVars
             PROVE  PaperInv'
  OBVIOUS
<1>0. ThreadInv /\ ThreadInv'
  BY DEF TypeInv
<1>1. PICK gone : gone = lost OBVIOUS
<1>2. JobsOwned(gone) BY <1>1 DEF JobInv, JobsOwned
<1>3. CASE ThreadStep
  BY <1>0, <1>2, <1>3, ReceiverKeepsPaper, PrinterKeepsPaper, RefillerKeepsPaper,
     CatcherKeepsPaper DEF ThreadStep
<1>4. CASE ~ThreadStep
  <2>1. UNCHANGED <<paper, papersRequired, paperRead, refillerVars>>
    BY <1>0, <1>4, KindsOfSteps, AppendEffect, DeathEffect, AutoscalerEffect, MainEffect
    DEF scaledVars, vars, sharedVars, queueVars, paperVars, printerVars
  <2>2. ppc \in [Printers -> PrinterPCs] /\ target \in [Printers -> Jobs \cup {NoJob}]
    BY <1>0 DEF ThreadInv, ThreadTypes, PrinterTypeOK
  <2>3. \A q \in Printers : Printing(q)' =>
          /\ Printing(q) /\ ppc'[q] = ppc[q] /\ target'[q] = target[q]
    <3>1. ASSUME NEW p \in Printers, DeathStep(p)
          PROVE  \A q \in Printers : Printing(q)' =>
                   /\ Printing(q) /\ ppc'[q] = ppc[q] /\ target'[q] = target[q]
      BY <1>0, <2>2, <3>1, DeathEffect DEF Printing
    <3>2. CASE AutoscalerStep
      BY <3>2, AutoscalerEffect DEF Printing
    <3>3. CASE ScaledMainStep \/ UNCHANGED scaledVars
      BY <3>3, MainEffect DEF scaledVars, vars, printerVars, Printing
    <3>4. ASSUME NEW p \in Printers, AppendStep(p)
          PROVE  \A q \in Printers : Printing(q)' =>
                   /\ Printing(q) /\ ppc'[q] = ppc[q] /\ target'[q] = target[q]
      BY <1>0, <2>2, <3>4, AppendEffect DEF Printing
    <3> QED BY <1>4, <3>1, <3>2, <3>3, <3>4, KindsOfSteps
  <2>4. \A q \in Printers : Printing(q) => papersRequired[target[q]] <= papersRequired[target[q]]
    <3>1. \A q \in Printers : Printing(q) => papersRequired[target[q]] \in Int
      <4>1. papersRequired \in [Jobs -> 0..MaxPapers]
        BY <1>0 DEF ThreadInv, ThreadTypes, SharedTypeOK
      <4>2. \A q \in Printers : Printing(q) => target[q] \in Jobs
        BY <1>0 DEF ThreadInv, PointersOK, Printing, Serving
      <4> QED BY <4>1, <4>2
    <3> QED BY <3>1
  <2>5. PaperStays
    BY <2>1, <2>3, <2>4 DEF PaperStays, Printing
  <2> QED BY <1>0, <2>5, PaperStaysKeepsPaper
<1> QED BY <1>3, <1>4

\* While printers come and go, no printer has a negative amount of paper or more
\* than its capacity, and none prints a job it lacks the paper for.
THEOREM ScaledPaperWithinCapacityHolds == ScaledSpec => []PaperWithinCapacity
<1>1. ScaledInit => PaperInv
  BY InitInv, AtRestPaper
<1>2. ScaledInit /\ [][ScaledNext]_scaledVars /\ [](TypeInv /\ SlotInv) /\ []JobInv => []PaperInv
  BY <1>1, NextPaperInv, PTL
<1>3. PaperInv => PaperWithinCapacity
  BY DEF PaperInv, PrinterPaperInv, PaperWithinCapacity, Printing, HasPaperFor
<1> QED BY <1>2, <1>3, ScaledInvariant, ScaledJobInvariant, PTL DEF ScaledSpec
=============================================================================
