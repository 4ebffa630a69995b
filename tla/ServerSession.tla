----------------------------- MODULE ServerSession -----------------------------
(***************************************************************************)
(* A client's session with the server: it connects, starts a simulation,   *)
(* perhaps with a configuration, perhaps again while it runs, and watches  *)
(* the statistics that the receiver and the printers send (server.c, with  *)
(* job_receiver.c, printer.c and websocket_handler.c reduced to what       *)
(* stats_update shows).                                                    *)
(*                                                                         *)
(* There is one run, the server's first, and no stop command: a stop       *)
(* removes jobs and sends no update, and a second run may leave jobs in    *)
(* the queue (PrintServer); ScaledPrintService has what the autoscaler     *)
(* does.  The refiller is over when a printer has left, which cancels it;  *)
(* no job waits for paper, and the update the refiller sends is left out.  *)
(***************************************************************************)
EXTENDS Parameters, WebSocketBridge

CONSTANTS
  Configs,     \* configurations a start command may carry
  MaxCommands  \* bound on the number of start commands

Receiver == 0
Printers == 1..MaxPrinters
Runner   == MaxPrinters + 1

ASSUME SessionAssumption ==
  /\ MaxPrinters \in Nat \ {0} /\ MaxCommands \in Nat /\ Threads = 0..(MaxPrinters + 1)
  /\ \A config \in Configs : "num_jobs" \in DOMAIN config => config.num_jobs \in Int

VARIABLES
  epc, commands,         \* the event loop, and the start commands so far
  runner, isRunning,     \* simulation_runner, and ctx->is_running
  created,               \* the index of the loop that starts the printers
  scaler,                \* the autoscaler's thread
  rpc, jobId,            \* the receiver
  ppc, seen,             \* the printers, and the statistics at their last dequeue
  queue,                 \* length of the job queue
  allArrived, allServed, \* the flags
  stats,                 \* the counters stats_update shows
  statsFree, jobsFree,   \* the statistics mutex and the job queue mutex
  watcher,               \* history: connection that was active through the whole run
  final,                 \* history: the counters at the end of the run
  changed                \* history: a configuration was applied during the run

eventVars    == <<epc, commands>>
runnerVars   == <<runner, isRunning, created, scaler>>
receiverVars == <<rpc, jobId>>
printerVars  == <<ppc, seen>>
stateVars    == <<queue, allArrived, allServed, stats, statsFree, jobsFree>>
historyVars  == <<watcher, final, changed>>
vars == <<paramVars, bridgeVars, eventVars, runnerVars, receiverVars, printerVars, stateVars,
          historyVars>>

NoStats == [arrived |-> 0, served |-> 0]

Init ==
  /\ ParametersInit /\ BridgeInit
  /\ epc = "poll" /\ commands = 0
  /\ runner = "none" /\ isRunning = FALSE /\ created = 0 /\ scaler = "none"
  /\ rpc = "none" /\ jobId = 0
  /\ ppc = [p \in Printers |-> "none"] /\ seen = [p \in Printers |-> NoStats]
  /\ queue = 0 /\ allArrived = FALSE /\ allServed = FALSE
  /\ stats = NoStats /\ statsFree = TRUE /\ jobsFree = TRUE
  /\ watcher = NoConnection /\ final = NoStats /\ changed = FALSE

BridgeUnchangedButSending == UNCHANGED <<link, wsConnId, latest, pipe, shown, lost>>

\* publish_stats_update
StatsUpdate(t, s, length) ==
  BeginSend(t, "stats_update", [arrived |-> s.arrived, served |-> s.served, queue |-> length])

-----------------------------------------------------------------------------
(* The event loop *)

Boot ==
  /\ \/ \E a \in Arguments : ProcessArgument(a[1], a[2])
     \/ ArgumentsAccepted
  /\ UNCHANGED <<bridgeVars, eventVars, runnerVars, receiverVars, printerVars, stateVars, historyVars>>

AtPoll == boot = "ready" /\ epc = "poll"

ConnectionEvent ==
  /\ AtPoll
  /\ \E c \in Connections : WsOpen(c) \/ Close(c)
  /\ watcher' = IF wsConnId' = watcher THEN watcher ELSE NoConnection
  /\ UNCHANGED <<paramVars, eventVars, runnerVars, receiverVars, printerVars, stateVars, final, changed>>

WakeupEvent ==
  /\ AtPoll /\ Deliver
  /\ UNCHANGED <<paramVars, eventVars, runnerVars, receiverVars, printerVars, stateVars, historyVars>>

\* A start message: the configuration is applied before anything else.
StartMessage ==
  /\ AtPoll /\ commands < MaxCommands /\ \E c \in Connections : IsOpen(c)
  /\ epc' = "start" /\ commands' = commands + 1
  /\ \E config \in Configs :
       /\ Configure(config)
       /\ changed' = (changed \/ (isRunning /\ Applies(config)))
  /\ UNCHANGED <<bridgeVars, runnerVars, receiverVars, printerVars, stateVars, watcher, final>>

\* start_simulation_async; refused during a run, and here after the one run.
StartSimulation ==
  /\ epc = "start" /\ epc' = "poll"
  /\ IF isRunning \/ runner # "none"
     THEN UNCHANGED <<runner, isRunning, watcher>>
     ELSE runner' = "begin" /\ isRunning' = TRUE /\ watcher' = wsConnId
  /\ UNCHANGED <<paramVars, bridgeVars, commands, created, scaler, receiverVars, printerVars, stateVars,
                 final, changed>>

-----------------------------------------------------------------------------
(* The runner *)

RunnerGoesTo(from, to) == runner = from /\ runner' = to

CreateReceiver ==
  /\ RunnerGoesTo("begin", "startPrinters")
  /\ rpc' = "sleep"
  /\ UNCHANGED <<bridgeVars, isRunning, created, scaler, jobId, printerVars, stateVars, final>>

\* The number of printers is read again in every iteration; printer_pool_start_printer
\* refuses those that do not fit in the pool.
StartPrinter ==
  /\ runner = "startPrinters" /\ created < params.consumer_count
  /\ created' = created + 1
  /\ ppc' = [p \in Printers |-> IF p = created + 1 THEN "ready" ELSE ppc[p]]
  /\ UNCHANGED <<bridgeVars, runner, isRunning, scaler, receiverVars, seen, stateVars, final>>

PrintersStarted ==
  /\ RunnerGoesTo("startPrinters", "startScaler") /\ created >= params.consumer_count
  /\ UNCHANGED <<bridgeVars, isRunning, created, scaler, receiverVars, printerVars, stateVars, final>>

StartScaler ==
  /\ RunnerGoesTo("startScaler", "joinThreads")
  /\ scaler' = IF params.auto_scaling = 1 THEN "running" ELSE "none"
  /\ UNCHANGED <<bridgeVars, isRunning, created, receiverVars, printerVars, stateVars, final>>

\* The receiver, the printers and the refiller.
JoinThreads ==
  /\ RunnerGoesTo("joinThreads", "joinScaler")
  /\ rpc = "done" /\ (\A p \in Printers : ppc[p] \in {"none", "over"}) /\ allServed
  /\ UNCHANGED <<bridgeVars, isRunning, created, scaler, receiverVars, printerVars, stateVars, final>>

\* auto_scaling is read again.  Joining a thread that was never created is
\* taken to return.
JoinScaler ==
  /\ RunnerGoesTo("joinScaler", "report")
  /\ params.auto_scaling = 1 => scaler # "running"
  /\ UNCHANGED <<bridgeVars, isRunning, created, scaler, receiverVars, printerVars, stateVars, final>>

\* publish_simulation_end
Report ==
  /\ RunnerGoesTo("report", "clearStats")
  /\ BeginSend(Runner, "simulation_complete", NoStats)
  /\ final' = stats
  /\ BridgeUnchangedButSending
  /\ UNCHANGED <<isRunning, created, scaler, receiverVars, printerVars, stateVars>>

ClearStats ==
  /\ RunnerGoesTo("clearStats", "setIdle") /\ mg_wakeup(Runner)
  /\ stats' = NoStats
  /\ UNCHANGED <<isRunning, created, scaler, receiverVars, printerVars,
                 queue, allArrived, allServed, statsFree, jobsFree, final>>

SetIdle ==
  /\ RunnerGoesTo("setIdle", "over")
  /\ isRunning' = FALSE
  /\ UNCHANGED <<bridgeVars, created, scaler, receiverVars, printerVars, stateVars, final>>

RunnerStep ==
  /\ \/ CreateReceiver \/ StartPrinter \/ PrintersStarted \/ StartScaler
     \/ JoinThreads \/ JoinScaler \/ Report \/ ClearStats \/ SetIdle
  /\ UNCHANGED <<paramVars, eventVars, watcher, changed>>

\* The autoscaler leaves when it finds all_jobs_served set.
ScalerLeaves ==
  /\ scaler = "running" /\ allServed
  /\ scaler' = "over"
  /\ UNCHANGED <<paramVars, bridgeVars, eventVars, runner, isRunning, created, receiverVars,
                 printerVars, stateVars, historyVars>>

-----------------------------------------------------------------------------
(* The receiver.  A mutex is held from one step to the one that sends and      *)
(* releases it.                                                               *)

ReceiverGoesTo(from, to) == rpc = from /\ rpc' = to

JobArrives ==
  /\ ReceiverGoesTo("sleep", "arrival") /\ jobId < params.num_jobs /\ statsFree
  /\ jobId' = jobId + 1
  /\ statsFree' = FALSE
  /\ stats' = [stats EXCEPT !.arrived = @ + 1]
  /\ StatsUpdate(Receiver, stats', queue)
  /\ BridgeUnchangedButSending
  /\ UNCHANGED <<queue, allArrived, allServed, jobsFree>>

ArrivalSent ==
  /\ ReceiverGoesTo("arrival", "offer") /\ mg_wakeup(Receiver)
  /\ statsFree' = TRUE
  /\ UNCHANGED <<jobId, queue, allArrived, allServed, stats, jobsFree>>

QueueFull == params.queue_capacity # -1 /\ queue >= params.queue_capacity

\* stats_update does not show the jobs dropped.
DropJob ==
  /\ ReceiverGoesTo("offer", "sleep") /\ jobsFree /\ QueueFull
  /\ UNCHANGED <<bridgeVars, jobId, stateVars>>

Enqueue ==
  /\ ReceiverGoesTo("offer", "enqueued") /\ jobsFree /\ ~QueueFull
  /\ jobsFree' = FALSE
  /\ queue' = queue + 1
  /\ UNCHANGED <<bridgeVars, jobId, allArrived, allServed, stats, statsFree>>

TellEnqueued ==
  /\ ReceiverGoesTo("enqueued", "told") /\ statsFree
  /\ statsFree' = FALSE
  /\ StatsUpdate(Receiver, stats, queue)
  /\ BridgeUnchangedButSending
  /\ UNCHANGED <<jobId, queue, allArrived, allServed, stats, jobsFree>>

EnqueuedSent ==
  /\ ReceiverGoesTo("told", "sleep") /\ mg_wakeup(Receiver)
  /\ statsFree' = TRUE /\ jobsFree' = TRUE
  /\ UNCHANGED <<jobId, queue, allArrived, allServed, stats>>

\* The number of jobs is read again in every iteration.
ReceiverLeaves ==
  /\ ReceiverGoesTo("sleep", "done") /\ jobId >= params.num_jobs
  /\ allArrived' = TRUE
  /\ UNCHANGED <<bridgeVars, jobId, queue, allServed, stats, statsFree, jobsFree>>

ReceiverStep ==
  /\ \/ JobArrives \/ ArrivalSent \/ DropJob \/ Enqueue \/ TellEnqueued \/ EnqueuedSent
     \/ ReceiverLeaves
  /\ UNCHANGED <<paramVars, eventVars, runnerVars, printerVars, historyVars>>

-----------------------------------------------------------------------------
(* The printers *)

PrinterGoesTo(p, from, to) == ppc[p] = from /\ ppc' = [ppc EXCEPT ![p] = to]

Dequeue(p) ==
  /\ PrinterGoesTo(p, "ready", "dequeued") /\ jobsFree /\ queue > 0
  /\ jobsFree' = FALSE
  /\ queue' = queue - 1
  /\ seen' = [seen EXCEPT ![p] = stats]
  /\ UNCHANGED <<bridgeVars, allArrived, allServed, stats, statsFree>>

\* The counters are read without the statistics mutex, each at its own time.
TellDequeued(p) ==
  /\ PrinterGoesTo(p, "dequeued", "told")
  /\ \E a \in seen[p].arrived..stats.arrived, s \in seen[p].served..stats.served :
       StatsUpdate(p, [arrived |-> a, served |-> s], queue)
  /\ seen' = [seen EXCEPT ![p] = NoStats]
  /\ BridgeUnchangedButSending
  /\ UNCHANGED stateVars

BeginPrinting(p) ==
  /\ PrinterGoesTo(p, "told", "printing") /\ mg_wakeup(p)
  /\ jobsFree' = TRUE
  /\ UNCHANGED <<seen, queue, allArrived, allServed, stats, statsFree>>

\* Mutant: the counters are sent before the job is counted.
Depart_SendsFirst(p) ==
  /\ PrinterGoesTo(p, "printing", "departed") /\ statsFree
  /\ statsFree' = FALSE
  /\ stats' = [stats EXCEPT !.served = @ + 1]
  /\ StatsUpdate(p, stats, queue)
  /\ BridgeUnchangedButSending
  /\ UNCHANGED <<seen, queue, allArrived, allServed, jobsFree>>

\* The length of the queue is read without the job queue mutex.
Depart(p) ==
  /\ PrinterGoesTo(p, "printing", "departed") /\ statsFree
  /\ statsFree' = FALSE
  /\ stats' = [stats EXCEPT !.served = @ + 1]
  /\ StatsUpdate(p, stats', queue)
  /\ BridgeUnchangedButSending
  /\ UNCHANGED <<seen, queue, allArrived, allServed, jobsFree>>

DepartureSent(p) ==
  /\ PrinterGoesTo(p, "departed", "ready") /\ mg_wakeup(p)
  /\ statsFree' = TRUE
  /\ UNCHANGED <<seen, queue, allArrived, allServed, stats, jobsFree>>

PrinterLeaves(p) ==
  /\ PrinterGoesTo(p, "ready", "over") /\ jobsFree /\ allArrived /\ queue = 0
  /\ allServed' = TRUE
  /\ UNCHANGED <<bridgeVars, seen, queue, allArrived, stats, statsFree, jobsFree>>

PrinterStep(p) ==
  /\ \/ Dequeue(p) \/ TellDequeued(p) \/ BeginPrinting(p) \/ Depart(p) \/ DepartureSent(p)
     \/ PrinterLeaves(p)
  /\ UNCHANGED <<paramVars, eventVars, runnerVars, receiverVars, historyVars>>

Next ==
  \/ Boot \/ ConnectionEvent \/ WakeupEvent \/ StartMessage \/ StartSimulation
  \/ RunnerStep \/ ScalerLeaves \/ ReceiverStep
  \/ \E p \in Printers : PrinterStep(p)

Spec == Init /\ [][Next]_vars

-----------------------------------------------------------------------------
(* Properties *)

\* In a server's first run, when no stop command ends it: a client that was
\* connected for the whole run, lost no frame and was told that the simulation is
\* complete shows the final counters and an empty queue.  The frames sent without
\* the statistics mutex, which may show older counters, never arrive last
\* (printer.c:116, 144-149, job_receiver.c:119-153, server.c:234).
LastUpdateIsFinal ==
  watcher # NoConnection /\ watcher \notin lost /\ shown[watcher].complete =>
    shown[watcher].update = [arrived |-> final.arrived, served |-> final.served, queue |-> 0]

\* Until a client's configuration is applied the parameters are what the threads
\* rely on, whatever arguments were accepted; and the run leaves its autoscaler
\* behind only if a start command, refused or not, changed auto_scaling while it
\* ran (preprocessing.c:70-207, server.c:212, 228, 422-464).
ParametersHold ==
  /\ boot = "ready" /\ ~configured => Safe(params)
  /\ runner \in {"report", "clearStats", "setIdle", "over"} /\ scaler = "running" => changed
=============================================================================
