--------------------------- MODULE PrintServerProofs ---------------------------
(***************************************************************************)
(* The server, for every number of printers, runs, jobs and stop commands: *)
(* types, no thread outlives its run, every job has one owner over all     *)
(* the runs, jobs are taken in order, and a stop leaves one job at most.   *)
(***************************************************************************)
EXTENDS PrintServer, ThreadProofs

USE DEF Printers, Jobs, NoJob, NoMemory, Refiller, NoThread, Scaler, Cancellable, Mutexes, CondVars,
        NoPrinter

-----------------------------------------------------------------------------
(* Every step is that of one thread of the run, a part of a stop command,  *)
(* which runs the catcher's code, or moves the event loop or the runner.   *)

RunVars == <<runner, isRunning, lastJob, started, leaked>>

LEMMA StepsAreTurns ==
  /\ ReceiverStep => ReceiverTurn /\ UNCHANGED serverVars
  /\ \A p \in Printers : PrinterStep(p) => PrinterTurn(p) /\ UNCHANGED serverVars
  /\ RefillerStep => RefillerTurn /\ UNCHANGED serverVars
BY DEF ReceiverStep, RunReceiverNext, RunLoopEnds, EndOfArrivals, ReceiverTurn, ReceiverNext,
       PrinterStep, PrinterTurn, RefillerStep, RefillerTurn

LEMMA CommandsAreTurns ==
  ASSUME EventLoopStep, ~StartCommand
  PROVE  /\ UNCHANGED RunVars
         /\ \/ CatcherTurn /\ (StopCommand \/ UNCHANGED <<stops, stoppedRun>>)
            \/ StopReturns /\ UNCHANGED <<receiverVars, printerVars, refillerVars>>
BY DEF EventLoopStep, CatcherTurn, CatcherNext, StopCommand, StopReturns, serverVars, RunVars

\* The runner creates threads, joins them, or works on the shared state.
LEMMA RunnerSteps ==
  ASSUME RunnerStep
  PROVE  /\ UNCHANGED <<spc, lastJob, stops, stoppedRun>>
         /\ \/ InitPool /\ UNCHANGED <<isRunning, started>>
            \/ CreateReceiver /\ UNCHANGED <<isRunning, started>>
            \/ CreateRefiller /\ UNCHANGED <<isRunning, started>>
            \/ ClearStats /\ UNCHANGED <<isRunning, started>>
            \/ /\ JoinThreads \/ Report
               /\ UNCHANGED <<sharedVars, receiverVars, printerVars, refillerVars, leaked,
                              isRunning, started>>
            \/ StartPrinter /\ UNCHANGED isRunning
            \/ SetIdle /\ UNCHANGED <<sharedVars, receiverVars, printerVars, refillerVars,
                                      started, leaked>>
BY DEF RunnerStep

-----------------------------------------------------------------------------
(* The phases of a run.  The runner joins every thread that it created, so   *)
(* each phase knows which threads are over and which it may wipe or create   *)
(* again; NoThreadOutlivesItsRun says it of the first phases alone, and is   *)
(* not inductive.                                                            *)

Idle  == {"none", "initPool", "createReceiver"}
Final == {"report", "clearStats", "setIdle"}

RunInv ==
  /\ isRunning <=> runner # "none"
  /\ runner \in Idle \cup {"joinPrinters", "joinRefiller"} \cup Final => rpc \in Ended
  /\ runner \in Idle \cup {"createRefiller"} \cup Final => fpc \in Ended
  /\ runner \in Idle \cup {"createRefiller", "joinRefiller"} \cup Final =>
       \A p \in Printers : Over(p)
  /\ runner = "startPrinters" => \A p \in Printers : p > started => Over(p)
  /\ jobId <= lastJob
  /\ runner \in {"initPool", "createReceiver"} => jobId <= lastJob - JobsPerRun

ServerTypes ==
  /\ runner \in RunnerPCs /\ isRunning \in BOOLEAN
  /\ lastJob \in 0..NumJobs /\ started \in 0..ConsumerCount
  /\ leaked \subseteq Jobs
  /\ stops \in 0..MaxStops /\ stoppedRun \in BOOLEAN

TypeInv == ThreadInv /\ ServerTypes

\* Before the first command nothing runs.
LEMMA InitInv == Init => TypeInv /\ RunInv /\ JobsOwned({}) /\ leaked = {}
<1> SUFFICES ASSUME Init PROVE TypeInv /\ RunInv /\ JobsOwned({}) /\ leaked = {}
  OBVIOUS
<1>1. AtRest
  BY DEF Init, AtRest
<1>2. ServerTypes
  <2>1. runner = "none" /\ lastJob = 0 /\ started = 0 /\ leaked = {} /\ stops = 0
    BY DEF Init
  <2>2. isRunning \in BOOLEAN /\ stoppedRun \in BOOLEAN
    BY DEF Init
  <2> QED
    BY <2>1, <2>2, PrintersAssumption, ParametersAssumption, ServerAssumption
    DEF ServerTypes, RunnerPCs
<1>3. RunInv
  BY DEF Init, RunInv, Idle, Final, Ended, Over
<1> QED
  BY <1>1, <1>2, <1>3, AtRestTypes, AtRestJobs DEF TypeInv, Init

\* The variables of the threads, and those the types speak of, do not move.
LEMMA UnmovedKeepTypes ==
  ASSUME ThreadInv, spc' \in CatcherPCs,
         UNCHANGED <<sharedVars, receiverVars, printerVars, refillerVars>>
  PROVE  ThreadInv'
BY DEF ThreadInv, ThreadTypes, PointersOK, SharedTypeOK, ReceiverTypeOK, PrinterTypeOK,
       RefillerTypeOK, CatcherTypeOK, ReceiverHolds, Serving, sharedVars, queueVars, syncVars,
       flagVars, paperVars, receiverVars, printerVars, refillerVars

\* The runner keeps the types of what it wipes and creates.
LEMMA RunnerKeepsTypes == ASSUME TypeInv, RunInv, RunnerStep PROVE TypeInv'
<1> USE PrintersAssumption, ParametersAssumption, ServerAssumption
<1>0. /\ UNCHANGED <<spc, lastJob, stops, stoppedRun>> /\ spc \in CatcherPCs
      /\ ThreadInv /\ ServerTypes
  BY RunnerSteps DEF TypeInv, ThreadInv, ThreadTypes, CatcherTypeOK
<1> USE DEF RunnerGoesTo, ServerTypes, RunnerPCs
<1>1. CASE InitPool /\ UNCHANGED <<isRunning, started>>
  <2>1. /\ paper' \in [Printers -> Int] /\ isIdle' \in [Printers -> BOOLEAN]
        /\ ppc' \in [Printers -> PrinterPCs] /\ \A p \in Printers : ~Serving(p)'
    BY <1>0, <1>1 DEF InitPool, PrinterPCs, Serving
  <2>2. SharedTypeOK'
    BY <1>0, <1>1, <2>1
    DEF InitPool, ThreadInv, ThreadTypes, SharedTypeOK, queueVars, syncVars, flagVars
  <2>3. ReceiverTypeOK' /\ PrinterTypeOK' /\ RefillerTypeOK' /\ CatcherTypeOK' /\ PointersOK'
    BY <1>0, <1>1, <2>1
    DEF InitPool, ThreadInv, ThreadTypes, PointersOK, ReceiverTypeOK, PrinterTypeOK,
        RefillerTypeOK, CatcherTypeOK, ReceiverHolds, receiverVars, refillerVars
  <2>4. ServerTypes' BY <1>0, <1>1 DEF InitPool
  <2> QED BY <2>2, <2>3, <2>4 DEF TypeInv, ThreadInv, ThreadTypes
<1>2. CASE CreateReceiver /\ UNCHANGED <<isRunning, started>>
  <2>1. rpc' = "allocate" /\ jobId' \in 0..NumJobs
    <3>1. jobId \in 0..NumJobs /\ lastJob \in 0..NumJobs /\ jobId <= lastJob - JobsPerRun
      BY <1>0, <1>2 DEF CreateReceiver, RunInv, ThreadInv, ThreadTypes, ReceiverTypeOK
    <3> QED BY <1>2, <3>1 DEF CreateReceiver
  <2>2. ReceiverTypeOK' /\ ~ReceiverHolds'
    BY <2>1 DEF ReceiverTypeOK, ReceiverPCs, ReceiverHolds
  <2>3. ThreadInv'
    BY <1>0, <1>2, <2>2
    DEF CreateReceiver, ThreadInv, ThreadTypes, PointersOK, SharedTypeOK, PrinterTypeOK,
        RefillerTypeOK, CatcherTypeOK, Serving, queueVars, flagVars, paperVars, printerVars,
        refillerVars
  <2>4. rpc = "cancelled" => jobId \in Jobs
    BY <1>0 DEF ThreadInv, PointersOK, ReceiverHolds
  <2>5. ServerTypes' BY <1>0, <1>2, <2>4 DEF CreateReceiver
  <2> QED BY <2>3, <2>5 DEF TypeInv
<1>3. CASE CreateRefiller /\ UNCHANGED <<isRunning, started>>
  <2>1. RefillerTypeOK' /\ fpc' = "lock"
    BY <1>3 DEF CreateRefiller, RefillerTypeOK, RefillerPCs
  <2>2. SharedTypeOK'
    BY <1>0, <1>3
    DEF CreateRefiller, ThreadInv, ThreadTypes, SharedTypeOK, queueVars, flagVars, paperVars
  <2>3. ReceiverTypeOK' /\ PrinterTypeOK' /\ CatcherTypeOK' /\ PointersOK'
    BY <1>0, <1>3, <2>1
    DEF CreateRefiller, ThreadInv, ThreadTypes, PointersOK, ReceiverTypeOK, PrinterTypeOK,
        CatcherTypeOK, ReceiverHolds, Serving, receiverVars, printerVars
  <2>4. ServerTypes' BY <1>0, <1>3 DEF CreateRefiller
  <2> QED BY <2>1, <2>2, <2>3, <2>4 DEF TypeInv, ThreadInv, ThreadTypes
<1>4. CASE ClearStats /\ UNCHANGED <<isRunning, started>>
  <2>1. ThreadInv'
    BY <1>0, <1>4, StatisticsTypes
    DEF ClearStats, ThreadInv, ThreadTypes, PointersOK, SharedTypeOK, ReceiverTypeOK,
        PrinterTypeOK, RefillerTypeOK, CatcherTypeOK, ReceiverHolds, Serving, queueVars,
        syncVars, flagVars, paperVars, receiverVars, printerVars, refillerVars
  <2>2. ServerTypes' BY <1>0, <1>4 DEF ClearStats
  <2> QED BY <2>1, <2>2 DEF TypeInv
<1>5. CASE /\ JoinThreads \/ Report
           /\ UNCHANGED <<sharedVars, receiverVars, printerVars, refillerVars, leaked,
                          isRunning, started>>
  <2>1. ThreadInv' BY <1>0, <1>5, UnmovedKeepTypes
  <2>2. ServerTypes' BY <1>0, <1>5 DEF JoinThreads, Report
  <2> QED BY <2>1, <2>2 DEF TypeInv
<1>6. CASE StartPrinter /\ UNCHANGED isRunning
  <2>1. started + 1 \in Printers /\ started + 1 \in 0..ConsumerCount
    BY <1>0, <1>6 DEF StartPrinter
  <2>2a. /\ ppc' \in [Printers -> PrinterPCs]
         /\ \A p \in Printers : Serving(p)' => Serving(p)
    BY <1>0, <1>6, <2>1
    DEF StartPrinter, ThreadInv, ThreadTypes, PrinterTypeOK, PrinterPCs, Serving
  <2>2b. SharedTypeOK'
    BY <1>0, <1>6
    DEF StartPrinter, ThreadInv, ThreadTypes, SharedTypeOK, sharedVars, queueVars, syncVars,
        flagVars, paperVars
  <2>2c. ReceiverTypeOK' /\ PrinterTypeOK' /\ RefillerTypeOK' /\ CatcherTypeOK' /\ PointersOK'
    BY <1>0, <1>6, <2>2a
    DEF StartPrinter, ThreadInv, ThreadTypes, PointersOK, ReceiverTypeOK, PrinterTypeOK,
        RefillerTypeOK, CatcherTypeOK, ReceiverHolds, receiverVars, refillerVars
  <2>2. ThreadInv' BY <2>2b, <2>2c DEF ThreadInv, ThreadTypes
  <2>3. ServerTypes' BY <1>0, <1>6, <2>1 DEF StartPrinter
  <2> QED BY <2>2, <2>3 DEF TypeInv
<1>7. CASE SetIdle /\ UNCHANGED <<sharedVars, receiverVars, printerVars, refillerVars,
                                  started, leaked>>
  <2>1. ThreadInv' BY <1>0, <1>7, UnmovedKeepTypes
  <2>2. ServerTypes' BY <1>0, <1>7 DEF SetIdle
  <2> QED BY <2>1, <2>2 DEF TypeInv
<1> QED BY <1>1, <1>2, <1>3, <1>4, <1>5, <1>6, <1>7, RunnerSteps

\* The event loop keeps the types.
LEMMA EventLoopKeepsTypes == ASSUME TypeInv, EventLoopStep PROVE TypeInv'
<1> USE PrintersAssumption, ParametersAssumption, ServerAssumption
<1>1. CASE StartCommand
  <2>1. ThreadInv'
    BY <1>1, UnmovedKeepTypes
    DEF StartCommand, TypeInv, ThreadInv, ThreadTypes, CatcherTypeOK
  <2>2. lastJob' \in 0..NumJobs /\ started' \in 0..ConsumerCount
    BY <1>1 DEF StartCommand, TypeInv, ServerTypes
  <2>3. /\ runner' \in RunnerPCs /\ isRunning' \in BOOLEAN /\ leaked' \subseteq Jobs
        /\ stops' \in 0..MaxStops /\ stoppedRun' \in BOOLEAN
    BY <1>1 DEF StartCommand, TypeInv, ServerTypes, RunnerPCs
  <2>4. ServerTypes' BY <2>2, <2>3 DEF ServerTypes
  <2> QED BY <2>1, <2>4 DEF TypeInv
<1>2. CASE ~StartCommand
  <2>1. ThreadInv'
    <3>1. CASE CatcherTurn BY <3>1, CatcherKeepsTypes DEF TypeInv
    <3>2. CASE StopReturns /\ UNCHANGED <<receiverVars, printerVars, refillerVars>>
      BY <3>2, UnmovedKeepTypes DEF StopReturns, TypeInv, CatcherPCs
    <3> QED BY <1>2, <3>1, <3>2, CommandsAreTurns
  <2>2. UNCHANGED RunVars /\ stops' \in 0..MaxStops /\ stoppedRun' \in BOOLEAN
    <3>1. stops \in 0..MaxStops /\ stoppedRun \in BOOLEAN
      BY DEF TypeInv, ServerTypes
    <3>2. CASE StopCommand
      BY <1>2, <3>1, <3>2, CommandsAreTurns DEF StopCommand
    <3>3. CASE UNCHANGED <<stops, stoppedRun>>
      BY <1>2, <3>1, <3>3, CommandsAreTurns
    <3> QED BY <1>2, <3>2, <3>3, CommandsAreTurns DEF StopReturns, serverVars
  <2> QED BY <2>1, <2>2 DEF TypeInv, ServerTypes, RunVars
<1> QED BY <1>1, <1>2

\* The type invariant is preserved, given that threads are over when the runner
\* creates them again.
LEMMA NextTypeInv == TypeInv /\ RunInv /\ [Next]_vars => TypeInv'
<1> SUFFICES ASSUME TypeInv, RunInv, [Next]_vars PROVE TypeInv'
  OBVIOUS
<1>1. CASE ReceiverStep \/ (\E p \in Printers : PrinterStep(p)) \/ RefillerStep
  <2>1. ThreadInv'
    BY <1>1, StepsAreTurns, ReceiverKeepsTypes, PrinterKeepsTypes, RefillerKeepsTypes
    DEF TypeInv
  <2>2. UNCHANGED serverVars BY <1>1, StepsAreTurns
  <2> QED BY <2>1, <2>2 DEF TypeInv, ServerTypes, serverVars
<1>2. CASE UNCHANGED vars
  <2>1. ThreadInv'
    BY <1>2, UnmovedKeepTypes DEF vars, TypeInv, ThreadInv, ThreadTypes, CatcherTypeOK
  <2> QED BY <1>2, <2>1 DEF TypeInv, ServerTypes, vars, serverVars
<1> QED BY <1>1, <1>2, RunnerKeepsTypes, EventLoopKeepsTypes DEF Next

-----------------------------------------------------------------------------
(* The runner's phases are preserved *)

\* The runner creates threads only where none is left, and passes a join only
\* when the thread is over (server.c:219-262).
LEMMA RunnerKeepsRunInv == ASSUME TypeInv, RunInv, RunnerStep PROVE RunInv'
<1>0. /\ lastJob' = lastJob /\ runner \in RunnerPCs /\ ppc \in [Printers -> PrinterPCs]
      /\ lastJob \in 0..NumJobs /\ jobId \in 0..NumJobs /\ started \in 0..ConsumerCount
  BY RunnerSteps
  DEF TypeInv, ServerTypes, ThreadInv, ThreadTypes, PrinterTypeOK, ReceiverTypeOK
<1> USE DEF RunInv, RunnerGoesTo, Idle, Final, Ended, RunnerPCs
<1>1. CASE InitPool /\ UNCHANGED <<isRunning, started>>
  <2>1. \A p \in Printers : Over(p)'
    BY <1>1 DEF InitPool, Over
  <2> QED BY <1>0, <1>1, <2>1 DEF InitPool, receiverVars, refillerVars
<1>2. CASE CreateReceiver /\ UNCHANGED <<isRunning, started>>
  <2>1. jobId' <= lastJob'
    BY <1>0, <1>2, ServerAssumption, ParametersAssumption DEF CreateReceiver
  <2> QED BY <1>0, <1>2, <2>1 DEF CreateReceiver, Over, printerVars, refillerVars
<1>3. CASE CreateRefiller /\ UNCHANGED <<isRunning, started>>
  BY <1>0, <1>3 DEF CreateRefiller, Over, printerVars, receiverVars
<1>4. CASE ClearStats /\ UNCHANGED <<isRunning, started>>
  BY <1>0, <1>4 DEF ClearStats, Over, printerVars, receiverVars, refillerVars
<1>5. CASE /\ JoinThreads \/ Report
           /\ UNCHANGED <<sharedVars, receiverVars, printerVars, refillerVars, leaked,
                          isRunning, started>>
  BY <1>0, <1>5 DEF JoinThreads, Report, Over, printerVars, receiverVars, refillerVars
<1>6. CASE StartPrinter /\ UNCHANGED isRunning
  <2>1. /\ started' = started + 1 /\ runner = "startPrinters" /\ runner' = runner
        /\ UNCHANGED <<rpc, fpc, jobId>>
        /\ \A p \in Printers : p > started + 1 => ppc'[p] = ppc[p]
    BY <1>0, <1>6 DEF StartPrinter, receiverVars, refillerVars
  <2>2. \A p \in Printers : p > started' => Over(p)'
    BY <1>0, <1>6, <2>1 DEF StartPrinter, Over
  <2> QED BY <1>0, <1>6, <2>1, <2>2
<1>7. CASE SetIdle /\ UNCHANGED <<sharedVars, receiverVars, printerVars, refillerVars,
                                  started, leaked>>
  BY <1>0, <1>7 DEF SetIdle, Over, printerVars, receiverVars, refillerVars
<1> QED BY <1>1, <1>2, <1>3, <1>4, <1>5, <1>6, <1>7, RunnerSteps

\* A start command finds no thread of the run before.
LEMMA EventLoopKeepsRunInv == ASSUME TypeInv, RunInv, EventLoopStep PROVE RunInv'
<1> USE DEF RunInv, Idle, Final, Ended
<1>1. CASE StartCommand
  <2>1. /\ runner = "none" /\ runner' = "initPool" /\ isRunning'
        /\ UNCHANGED <<rpc, jobId, fpc, ppc>>
    BY <1>1 DEF StartCommand, receiverVars, refillerVars, printerVars
  <2>2. jobId' <= lastJob' - JobsPerRun /\ jobId' <= lastJob'
    BY <1>1, <2>1, ServerAssumption, ParametersAssumption
    DEF StartCommand, TypeInv, ServerTypes, ThreadInv, ThreadTypes, ReceiverTypeOK
  <2> QED BY <2>1, <2>2 DEF Over
<1>2. CASE ~StartCommand
  <2>1. UNCHANGED RunVars /\ UNCHANGED <<receiverVars, printerVars, refillerVars>>
    BY <1>2, CommandsAreTurns DEF CatcherTurn
  <2> QED BY <2>1 DEF RunVars, receiverVars, printerVars, refillerVars, Over
<1> QED BY <1>1, <1>2

\* The phases are inductive, given the types.
LEMMA NextRunInv == TypeInv /\ RunInv /\ [Next]_vars => RunInv'
<1> SUFFICES ASSUME TypeInv, RunInv, [Next]_vars PROVE RunInv'
  OBVIOUS
<1>0. ThreadInv /\ runner \in RunnerPCs
  BY DEF TypeInv, ServerTypes
<1>1. CASE ReceiverStep
  <2>1. UNCHANGED <<runner, isRunning, lastJob, started, fpc, ppc>>
    BY <1>1 DEF ReceiverStep, serverVars, refillerVars, printerVars
  <2>2. rpc \notin Ended
    BY <1>1, StepsAreTurns, EndedReceiverStays
  <2>3. jobId' <= lastJob
    BY <1>1 DEF ReceiverStep, RunReceiverNext, RunLoopEnds, Allocate, ArrivalTimeElapses,
      ReceiverCancelled, CheckTermination, StopArrivals, JobArrives, Enqueue, FindQueueFull,
      DropJob, MarkAllArrived, ReceiverExits, RunInv, TypeInv, ServerTypes, ThreadInv,
      ThreadTypes, ReceiverTypeOK
  <2> QED BY <2>1, <2>2, <2>3 DEF RunInv, Idle, Final, Over
<1>2. ASSUME NEW p \in Printers, PrinterStep(p) PROVE RunInv'
  <2>1. UNCHANGED <<runner, isRunning, lastJob, started, fpc, rpc, jobId>>
    BY <1>2 DEF PrinterStep, serverVars, refillerVars, receiverVars
  <2>2. \A q \in Printers : Over(q) => Over(q)'
    BY <1>0, <1>2, StepsAreTurns, EndedPrinterStays DEF Over
  <2> QED BY <2>1, <2>2 DEF RunInv
<1>3. CASE RefillerStep
  <2>1. UNCHANGED <<runner, isRunning, lastJob, started, rpc, jobId, ppc>>
    BY <1>3 DEF RefillerStep, serverVars, receiverVars, printerVars
  <2>2. fpc \notin Ended
    BY <1>3, StepsAreTurns, EndedRefillerStays
  <2> QED BY <2>1, <2>2 DEF RunInv, Idle, Final, Over
<1>4. CASE UNCHANGED vars
  BY <1>4 DEF vars, serverVars, receiverVars, printerVars, refillerVars, RunInv, Over
<1> QED BY <1>1, <1>2, <1>3, <1>4, RunnerKeepsRunInv, EventLoopKeepsRunInv DEF Next

\* Whatever the interleaving of commands, runs and threads, every variable keeps
\* its type, a thread follows only pointers that it set in its own life, and each
\* phase of a run finds the threads of the phases before it over.
THEOREM ServerInvariant == Spec => [](TypeInv /\ RunInv)
BY InitInv, NextTypeInv, NextRunInv, PTL DEF Spec

\* The type invariant of PrintServer.
THEOREM ServerTypesHold == Spec => []TypeOK
<1>1. TypeInv => TypeOK
  BY DEF TypeInv, ThreadInv, ThreadTypes, ServerTypes, TypeOK
<1> QED BY <1>1, ServerInvariant, PTL

\* The server says that it is idle, and wipes the records of the printers, only
\* when every thread of the run before is over (server.c:144, 240-260).
THEOREM NoThreadOutlivesItsRunHolds == Spec => []NoThreadOutlivesItsRun
<1>1. RunInv => NoThreadOutlivesItsRun
  BY DEF RunInv, Idle, Ended, NoThreadOutlivesItsRun
<1> QED BY <1>1, ServerInvariant, PTL

-----------------------------------------------------------------------------
(* Jobs.  The invariant of the threads holds over all the runs with leaked   *)
(* for the jobs that belong to nobody: a new receiver starts from an id that *)
(* is no smaller than that of any job of an earlier run, and what the        *)
(* receiver before it held when it was cancelled is leaked.                  *)

JobInv == JobsOwned(leaked)

\* The runner moves no job but the one of a cancelled receiver.
LEMMA RunnerKeepsJobs == ASSUME TypeInv, RunInv, JobInv, RunnerStep PROVE JobInv'
<1>1. CASE CreateReceiver
  <2>1. /\ UNCHANGED <<jobQueue, papersRequired, ppc, target>>
        /\ runner = "createReceiver" /\ ~ReceiverHolds' /\ jobId' = lastJob - JobsPerRun
        /\ leaked' = IF ReceiverHolds THEN leaked \cup {jobId} ELSE leaked
    BY <1>1 DEF CreateReceiver, RunnerGoesTo, ReceiverHolds, RunInv, Idle, Ended, queueVars,
                printerVars
  <2>2. Queued' = Queued /\ Live' = Live /\ \A p \in Printers : Serving(p)' <=> Serving(p)
    BY <2>1 DEF Queued, Live, Serving
  <2>3. jobId <= jobId' /\ jobId \in Int /\ jobId' \in Int
    BY <2>1, ServerAssumption
    DEF RunInv, TypeInv, ServerTypes, ThreadInv, ThreadTypes, ReceiverTypeOK
  <2>4. /\ Queued \subseteq Jobs /\ \A p \in Printers : Serving(p) => target[p] \in Jobs
        /\ ReceiverHolds => jobId \in Jobs
    BY QueuedJobs DEF TypeInv, ThreadInv, PointersOK
  <2>5. \A j \in Queued : j <= jobId'
    BY <2>3, <2>4 DEF JobInv, JobsOwned
  <2>6. \A p \in Printers : Serving(p) => target[p] <= jobId'
    BY <2>3, <2>4 DEF JobInv, JobsOwned
  <2>7. \A j \in leaked' : /\ j \in Jobs /\ j <= jobId' /\ j \notin Queued
                           /\ \A p \in Printers : Serving(p) => target[p] # j
    BY <2>1, <2>3, <2>4 DEF JobInv, JobsOwned
  <2> QED
    BY <2>1, <2>2, <2>5, <2>6, <2>7 DEF JobInv, JobsOwned, Sorted
<1>2. CASE RunnerStep /\ ~CreateReceiver
  <2>1. UNCHANGED <<jobQueue, papersRequired, rpc, jobId, target, leaked>>
    BY <1>2, RunnerSteps
    DEF InitPool, CreateRefiller, ClearStats, StartPrinter, queueVars, sharedVars, receiverVars,
        printerVars
  <2>2. \A p \in Printers : Serving(p)' <=> Serving(p)
    <3>1. CASE InitPool
      <4>1. \A p \in Printers : Over(p) BY <3>1 DEF InitPool, RunnerGoesTo, RunInv, Idle
      <4> QED BY <3>1, <4>1 DEF InitPool, Over, Serving
    <3>2. CASE StartPrinter
      <4>1. /\ runner = "startPrinters" /\ ppc' = [ppc EXCEPT ![started + 1] = "readTerminate"]
            /\ started + 1 \in Printers
        BY <3>2, PrintersAssumption DEF StartPrinter, TypeInv, ServerTypes
      <4>2. started \in Nat /\ ppc \in [Printers -> PrinterPCs]
        BY DEF TypeInv, ServerTypes, ThreadInv, ThreadTypes, PrinterTypeOK
      <4>3. Over(started + 1)
        BY <4>1, <4>2 DEF RunInv
      <4> QED BY <4>1, <4>2, <4>3 DEF Over, Serving
    <3>3. CASE ppc' = ppc BY <3>3 DEF Serving
    <3> QED
      BY <1>2, <3>1, <3>2, <3>3, RunnerSteps DEF CreateRefiller, ClearStats, printerVars
  <2>3. JobsStay BY <2>1, <2>2 DEF JobsStay, ReceiverHolds
  <2>4. PICK gone : gone = leaked OBVIOUS
  <2>5. JobsOwned(gone) BY <2>4 DEF JobInv, JobsOwned
  <2>6. JobsOwned(gone)' BY <2>3, <2>5, JobsStayKeepsJobs
  <2> QED BY <2>1, <2>4, <2>6 DEF JobInv, JobsOwned
<1> QED BY <1>1, <1>2

\* No other step makes a job nobody's.
LEMMA NextJobInv == TypeInv /\ RunInv /\ JobInv /\ [Next]_vars => JobInv'
<1> SUFFICES ASSUME TypeInv, RunInv, JobInv, [Next]_vars PROVE JobInv'
  OBVIOUS
<1>0. ThreadInv
  BY DEF TypeInv
<1>1. PICK gone : gone = leaked OBVIOUS
<1>2. JobsOwned(gone) BY <1>1 DEF JobInv, JobsOwned
<1>3. CASE ReceiverStep \/ (\E p \in Printers : PrinterStep(p)) \/ RefillerStep
  <2>1. JobsOwned(gone)'
    BY <1>0, <1>2, <1>3, StepsAreTurns, ReceiverKeepsJobs, PrinterKeepsJobs, OthersJobsStay,
       JobsStayKeepsJobs
  <2>2. leaked' = leaked BY <1>3, StepsAreTurns DEF serverVars
  <2> QED BY <1>1, <2>1, <2>2 DEF JobInv, JobsOwned
<1>4. CASE (EventLoopStep /\ ~CatcherTurn) \/ UNCHANGED vars
  <2>1. JobsStay /\ leaked' = leaked
    BY <1>4, CommandsAreTurns
    DEF StartCommand, StopReturns, RunVars, vars, serverVars, JobsStay, ReceiverHolds, Serving,
        sharedVars, queueVars, receiverVars, printerVars
  <2>2. JobsOwned(gone)' BY <1>2, <2>1, JobsStayKeepsJobs
  <2> QED BY <1>1, <2>1, <2>2 DEF JobInv, JobsOwned
<1>5. CASE EventLoopStep /\ CatcherTurn
  <2>1. JobsOwned(gone)' BY <1>0, <1>2, <1>5, CatcherKeepsJobs
  <2>2. leaked' = leaked
    BY <1>5, CommandsAreTurns DEF RunVars, StartCommand
  <2> QED BY <1>1, <2>1, <2>2 DEF JobInv, JobsOwned
<1> QED BY <1>3, <1>4, <1>5, RunnerKeepsJobs DEF Next

\* Over all the runs, queue, printers, receiver and the leaked jobs are disjoint,
\* sorted by age, and together the allocated jobs.
THEOREM ServerJobInvariant == Spec => []JobInv
<1>1. Init => JobInv
  BY InitInv DEF JobInv, JobsOwned
<1>2. Init /\ [][Next]_vars /\ [](TypeInv /\ RunInv) => []JobInv
  BY <1>1, NextJobInv, PTL
<1> QED BY <1>2, ServerInvariant, PTL DEF Spec

\* No job is printed or freed twice by the threads of one run or of two, for any
\* number of runs and stop commands (server.c:98, 284-293).
THEOREM ServerOwnershipHolds == Spec => []JobOwnership
<1>1. ASSUME TypeInv, JobInv PROVE JobOwnership
  <2>1. BeingServed = InService
    BY DEF BeingServed, InService
  <2>2. PICK gone : gone = leaked OBVIOUS
  <2>3. ThreadInv /\ JobsOwned(gone)
    BY <1>1, <2>2 DEF TypeInv, JobInv, JobsOwned
  <2>4. /\ \A i, k \in DOMAIN jobQueue : jobQueue[i] = jobQueue[k] => i = k
        /\ Queued \cap InService = {} /\ gone \cap (Queued \cup InService) = {}
        /\ ReceiverHolds => jobId \notin Queued \cup InService
        /\ Live = Queued \cup InService \cup gone \cup {j \in Jobs : ReceiverHolds /\ j = jobId}
    BY <2>3, OwnersAreDistinct
  <2>5. \A p, q \in Printers : Serving(p) /\ Serving(q) /\ target[p] = target[q] => p = q
    BY <2>3 DEF JobsOwned
  <2> QED BY <2>1, <2>2, <2>4, <2>5 DEF JobOwnership
<1> QED BY <1>1, ServerInvariant, ServerJobInvariant, PTL

\* The jobs are taken in the order of their arrival, and those that an earlier run
\* left in the queue first.
THEOREM ServerFirstComeFirstServedHolds == Spec => []FirstComeFirstServed
<1>1. JobInv => FirstComeFirstServed
  BY DEF JobInv, JobsOwned, Sorted, BeingServed, FirstComeFirstServed
<1> QED BY <1>1, ServerJobInvariant, PTL

-----------------------------------------------------------------------------
(* Stop commands.  The flag is never reset, so once the queue has been       *)
(* emptied only the job for which the receiver had read the flag before it   *)
(* was set can still come in.                                                *)

PassedTheTest == rpc \in {"arrive", "offer"}

StopInv ==
  terminateNow /\ spc \notin {"cancel", "drain"} =>
    IF PassedTheTest THEN jobQueue = <<>> ELSE Len(jobQueue) <= 1

\* Once the flag is set no job passes the test of it, and only one that has
\* passed it before is queued (job_receiver.c:104-145).
LEMMA ReceiverAfterStop ==
  ASSUME ThreadInv, ReceiverTurn, terminateNow
  PROVE  \/ jobQueue' = jobQueue /\ (PassedTheTest' => PassedTheTest)
         \/ PassedTheTest /\ ~PassedTheTest' /\ Len(jobQueue') = Len(jobQueue) + 1
<1>0. jobQueue \in Seq(Jobs) /\ (ReceiverHolds => jobId \in Jobs)
  BY DEF ThreadInv, ThreadTypes, PointersOK, SharedTypeOK
<1>1. CASE Enqueue
  BY <1>0, <1>1 DEF Enqueue, PassedTheTest, ReceiverHolds
<1>2. CASE ~Enqueue
  BY <1>2 DEF ReceiverTurn, ReceiverNext, EndOfArrivals, Allocate, LoopEnds, ArrivalTimeElapses,
      ReceiverCancelled, CheckTermination, StopArrivals, JobArrives, FindQueueFull, DropJob,
      MarkAllArrived, ReceiverExits, PassedTheTest, sharedVars, queueVars
<1> QED BY <1>1, <1>2

\* A printer or the refiller can only make the queue shorter.
LEMMA WorkersOnlyTake ==
  ASSUME ThreadInv, NEW p \in Printers, PrinterTurn(p) \/ RefillerTurn
  PROVE  /\ UNCHANGED <<rpc, spc, terminateNow>>
         /\ jobQueue = <<>> => jobQueue' = <<>>
         /\ Len(jobQueue') <= Len(jobQueue) /\ Len(jobQueue) \in Nat /\ Len(jobQueue') \in Nat
<1>0. jobQueue \in Seq(Jobs)
  BY DEF ThreadInv, ThreadTypes, SharedTypeOK
<1>1. UNCHANGED <<rpc, spc, terminateNow>>
  BY DEF PrinterTurn, RefillerTurn, receiverVars, PrinterNext, ReadTerminate, LeaveFromCheck,
         FindNoJob, BlockOnJob, WakeForJob, FindTooLittlePaper, RequestRefill, PaperSuffices,
         NotePaperWait, PaperMissing, BlockOnRefill, WakeForRefill, WakeToTerminate, Dequeue, StartService,
         FinishPrinting, DeductPaper, JobDeparts, ReadArrived, LeaveFromRecheck, LookForNextJob,
         MarkServed, NotifyExit, CancelRefiller, RefillerNext, RefillerExits, FindNoRequest,
         BlockOnSupplier, TakeRequest, FindPrinterFull, MeasureRefill, RefillTimeElapses,
         RefillerCancelled, ReadCount, WriteCount, NoteRefill, NotifyRefilled, sharedVars, flagVars
<1>2. jobQueue' = jobQueue \/ (jobQueue # <<>> /\ jobQueue' = Tail(jobQueue))
  BY DEF PrinterTurn, RefillerTurn, PrinterNext, ReadTerminate, LeaveFromCheck,
         FindNoJob, BlockOnJob, WakeForJob, FindTooLittlePaper, RequestRefill, PaperSuffices,
         NotePaperWait, PaperMissing, BlockOnRefill, WakeForRefill, WakeToTerminate, Dequeue, StartService,
         FinishPrinting, DeductPaper, JobDeparts, ReadArrived, LeaveFromRecheck, LookForNextJob,
         MarkServed, NotifyExit, CancelRefiller, RefillerNext, RefillerExits, FindNoRequest,
         BlockOnSupplier, TakeRequest, FindPrinterFull, MeasureRefill, RefillTimeElapses,
         RefillerCancelled, ReadCount, WriteCount, NoteRefill, NotifyRefilled, sharedVars, queueVars
<1> QED BY <1>0, <1>1, <1>2

\* What a stop leaves is preserved.
LEMMA NextStopInv == TypeInv /\ StopInv /\ [Next]_vars => StopInv'
<1> SUFFICES ASSUME TypeInv, StopInv, [Next]_vars PROVE StopInv'
  OBVIOUS
<1>0. ThreadInv /\ jobQueue \in Seq(Jobs)
  BY DEF TypeInv, ThreadInv, ThreadTypes, SharedTypeOK
<1>1. CASE ReceiverStep
  <2>1. spc' = spc /\ terminateNow' = terminateNow
    BY <1>1 DEF ReceiverStep, RunReceiverNext, RunLoopEnds, Allocate, ArrivalTimeElapses,
      ReceiverCancelled, CheckTermination, StopArrivals, JobArrives, Enqueue, FindQueueFull,
      DropJob, MarkAllArrived, ReceiverExits, sharedVars, flagVars
  <2>2. CASE ~terminateNow BY <2>1, <2>2 DEF StopInv
  <2>3. CASE terminateNow
    BY <1>0, <1>1, <2>1, <2>3, StepsAreTurns, ReceiverAfterStop DEF StopInv
  <2> QED BY <2>2, <2>3
<1>2. CASE (\E p \in Printers : PrinterStep(p)) \/ RefillerStep
  <2>1. \E p \in Printers : PrinterTurn(p) \/ RefillerTurn
    <3>1. 1 \in Printers BY PrintersAssumption
    <3> QED BY <1>2, <3>1, StepsAreTurns
  <2>2. PICK p \in Printers : PrinterTurn(p) \/ RefillerTurn BY <2>1
  <2>3. /\ UNCHANGED <<spc, terminateNow>> /\ PassedTheTest' = PassedTheTest
        /\ jobQueue = <<>> => jobQueue' = <<>>
    BY <1>0, <2>2, WorkersOnlyTake DEF PassedTheTest
  <2>4. Len(jobQueue) <= 1 => Len(jobQueue') <= 1
    BY <1>0, <2>2, WorkersOnlyTake
  <2> QED BY <2>3, <2>4 DEF StopInv
<1>3. CASE EventLoopStep /\ CatcherTurn
  <2>1. CASE CatchSignal BY <2>1 DEF CatchSignal, StopInv
  <2>2. CASE CancelThreads BY <2>2 DEF CancelThreads, StopInv
  <2>3. CASE DrainQueue
    <3>1. jobQueue' = <<>> BY <2>3 DEF DrainQueue
    <3> QED BY <3>1 DEF StopInv
  <2>4. CASE NotifyTermination
    BY <1>3, <2>4
    DEF NotifyTermination, CatcherTurn, receiverVars, queueVars, flagVars, StopInv, PassedTheTest
  <2> QED BY <1>3, <2>1, <2>2, <2>3, <2>4 DEF CatcherTurn, CatcherNext
<1>4. CASE (EventLoopStep /\ ~CatcherTurn) \/ UNCHANGED vars
  <2>1. /\ UNCHANGED <<jobQueue, terminateNow, rpc>>
        /\ spc \in {"cancel", "drain"} => spc' = spc
    BY <1>4, CommandsAreTurns
    DEF StartCommand, StopReturns, vars, sharedVars, queueVars, flagVars, receiverVars
  <2> QED BY <2>1 DEF StopInv, PassedTheTest
<1>5. CASE RunnerStep
  <2>1. UNCHANGED <<jobQueue, terminateNow, spc>> /\ (PassedTheTest' => PassedTheTest)
    BY <1>5, RunnerSteps
    DEF InitPool, CreateReceiver, CreateRefiller, ClearStats, StartPrinter, sharedVars,
        queueVars, flagVars, receiverVars, PassedTheTest
  <2>2. Len(<<>>) = 0 OBVIOUS
  <2> QED BY <2>1, <2>2 DEF StopInv
<1> QED BY <1>1, <1>2, <1>3, <1>4, <1>5 DEF Next

\* When a stop command has returned and no run is active, the queue holds one
\* job at most, whichever thread was where when the command came.
THEOREM StopLeavesOneJobAtMostHolds == Spec => []StopLeavesOneJobAtMost
<1>1. Init => StopInv
  BY DEF Init, SharedInit, StopInv
<1>2. Init /\ [][Next]_vars /\ [](TypeInv /\ RunInv) => []StopInv
  BY <1>1, NextStopInv, PTL
<1>3. StopInv => StopLeavesOneJobAtMost
  <2>1. Len(<<>>) = 0 OBVIOUS
  <2> QED BY <2>1 DEF StopInv, StopLeavesOneJobAtMost, AtCommand
<1> QED BY <1>2, <1>3, ServerInvariant, PTL DEF Spec
=============================================================================
