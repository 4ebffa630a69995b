--------------------------- MODULE ServerSessionProofs ---------------------------
(***************************************************************************)
(* Which connection gets the frames, what holds of the parameters, and what *)
(* a client shows last, for any number of connections, printers, arguments, *)
(* configurations and start commands, and any size of the pipe.             *)
(***************************************************************************)
EXTENDS ServerSession, TLAPS

\* What the two conjuncts of LatestOpenIsActive do not say.
LinkType == link \in [Connections -> {"none", "open", "closed"}]

ConnectionInv == LinkType /\ LatestOpenIsActive

connectionVars == <<link, wsConnId, latest>>

LEMMA ConnectionInvStable ==
  ASSUME ConnectionInv, UNCHANGED connectionVars
  PROVE  ConnectionInv'
BY DEF ConnectionInv, LinkType, LatestOpenIsActive, IsOpen, connectionVars

\* A connection that opens becomes the latest and the active one (server.c:405-409).
LEMMA OpenKeepsConnectionInv ==
  ASSUME ConnectionInv, NEW c \in Connections, WsOpen(c)
  PROVE  ConnectionInv'
<1> USE BridgeAssumption DEF ConnectionInv, LinkType
<1>1. LinkType' /\ link'[c] = "open" BY DEF WsOpen
<1>2. LatestOpenIsActive' BY <1>1 DEF WsOpen, LatestOpenIsActive, IsOpen
<1> QED BY <1>1, <1>2

\* One that closes is forgotten only if it is the active one (server.c:485-490).
LEMMA CloseKeepsConnectionInv ==
  ASSUME ConnectionInv, NEW c \in Connections, Close(c)
  PROVE  ConnectionInv'
<1> USE BridgeAssumption DEF ConnectionInv, LinkType
<1>1. /\ LinkType'
      /\ link'[c] = "closed"
      /\ \A d \in Connections : d # c => link'[d] = link[d]
      BY DEF Close
<1>2. CASE wsConnId = c
  <2>1. wsConnId' = NoConnection /\ latest' = latest BY <1>2 DEF Close
  <2>2. ~IsOpen(latest)' BY <1>1, <1>2, <2>1 DEF LatestOpenIsActive, IsOpen
  <2> QED BY <1>1, <2>1, <2>2 DEF LatestOpenIsActive, IsOpen
<1>3. CASE wsConnId # c
  <2>1. wsConnId' = wsConnId /\ latest' = latest BY <1>3 DEF Close
  <2>2. \A d : IsOpen(d)' => IsOpen(d) BY <1>1 DEF IsOpen
  <2>3. wsConnId # NoConnection => IsOpen(wsConnId)'
    BY <1>1, <1>3, <2>1 DEF LatestOpenIsActive, IsOpen
  <2> QED BY <1>1, <2>1, <2>2, <2>3 DEF LatestOpenIsActive
<1> QED BY <1>2, <1>3

\* No thread of the simulation decides which connection is active.
LEMMA OthersKeepConnections ==
  ASSUME \/ Boot \/ WakeupEvent \/ StartMessage \/ StartSimulation
         \/ RunnerStep \/ ScalerLeaves \/ ReceiverStep
         \/ \E p \in Printers : PrinterStep(p)
         \/ UNCHANGED vars
  PROVE  UNCHANGED connectionVars
<1> USE DEF connectionVars, bridgeVars
<1>1. CASE Boot \/ StartMessage \/ StartSimulation \/ ScalerLeaves \/ UNCHANGED vars
  BY <1>1 DEF Boot, StartMessage, StartSimulation, ScalerLeaves, vars
<1>2. CASE WakeupEvent BY <1>2 DEF WakeupEvent, Deliver
<1>3. CASE RunnerStep
  BY <1>3 DEF RunnerStep, CreateReceiver, StartPrinter, PrintersStarted, StartScaler,
              JoinThreads, JoinScaler, Report, ClearStats, SetIdle, mg_wakeup,
              BridgeUnchangedButSending
<1>4. CASE ReceiverStep
  BY <1>4 DEF ReceiverStep, JobArrives, ArrivalSent, DropJob, Enqueue, TellEnqueued,
              EnqueuedSent, ReceiverLeaves, mg_wakeup, BridgeUnchangedButSending
<1>5. ASSUME NEW p \in Printers, PrinterStep(p) PROVE UNCHANGED connectionVars
  BY <1>5 DEF PrinterStep, Dequeue, TellDequeued, BeginPrinting, Depart, DepartureSent,
              PrinterLeaves, mg_wakeup, BridgeUnchangedButSending
<1> QED BY <1>1, <1>2, <1>3, <1>4, <1>5

\* Which connection is active follows the connections that open and close.
THEOREM ConnectionInvariant == Spec => []ConnectionInv
<1>1. Init => ConnectionInv
  BY BridgeAssumption
  DEF Init, BridgeInit, ConnectionInv, LinkType, LatestOpenIsActive, IsOpen
<1>2. ConnectionInv /\ [Next]_vars => ConnectionInv'
  <2> SUFFICES ASSUME ConnectionInv, [Next]_vars PROVE ConnectionInv' OBVIOUS
  <2>1. CASE ConnectionEvent
    BY <2>1, OpenKeepsConnectionInv, CloseKeepsConnectionInv DEF ConnectionEvent
  <2>2. CASE ~ConnectionEvent
    <3>1. UNCHANGED connectionVars BY <2>2, OthersKeepConnections DEF Next
    <3> QED BY <3>1, ConnectionInvStable
  <2> QED BY <2>1, <2>2
<1> QED BY <1>1, <1>2, PTL DEF Spec

\* A client that reconnects gets the frames, in whichever order the server hears
\* of its two connections, and the server never addresses a connection that it
\* knows to be closed (server.c:405-409, 485-490).
THEOREM LatestOpenIsActiveHolds == Spec => []LatestOpenIsActive
<1>1. ConnectionInv => LatestOpenIsActive BY DEF ConnectionInv
<1> QED BY <1>1, ConnectionInvariant, PTL

-----------------------------------------------------------------------------
(* The parameters *)

\* An option that is accepted keeps the parameters in the ranges of config.h;
\* the bounds of the papers are never in the wrong order (preprocessing.c:70-207).
LEMMA AcceptedArgumentKeepsRanges ==
  ASSUME NEW ps \in AcceptedParameters, NEW option, NEW value \in Int,
         Accepts(option, value),
         NEW stored, stored = IF option \in DOMAIN ps THEN [ps EXCEPT ![option] = value] ELSE ps
  PROVE  swap_bounds(stored) \in AcceptedParameters
<1>1. stored \in AcceptedParameters
  <2>1. CASE option = "num_jobs" BY <2>1 DEF Accepts, AcceptedParameters
  <2>2. CASE option = "queue_capacity" BY <2>2 DEF Accepts, AcceptedParameters
  <2>3. CASE option = "papers_lower" BY <2>3 DEF Accepts, AcceptedParameters
  <2>4. CASE option = "papers_upper" BY <2>4 DEF Accepts, AcceptedParameters
  <2>5. CASE option = "printer_paper_capacity" BY <2>5 DEF Accepts, AcceptedParameters
  <2>6. CASE option = "consumer_count" BY <2>6 DEF Accepts, AcceptedParameters
  <2>7. CASE option = "auto_scaling" BY <2>7 DEF Accepts, AcceptedParameters
  <2> QED BY <2>1, <2>2, <2>3, <2>4, <2>5, <2>6, <2>7 DEF Accepts
<1>2. stored.papers_lower <= stored.papers_upper BY <1>1 DEF AcceptedParameters
<1> QED BY <1>1, <1>2 DEF swap_bounds

LEMMA AcceptedIsSafe ==
  ASSUME NEW ps \in AcceptedParameters
  PROVE  Safe(ps)
<1>1. ps.num_jobs > 0 /\ (ps.queue_capacity = -1 \/ ps.queue_capacity > 0)
  BY DEF AcceptedParameters
<1>2. /\ ps.papers_lower \in 5..10 /\ ps.papers_upper \in 15..30
      /\ ps.printer_paper_capacity \in 50..200
  BY DEF AcceptedParameters
<1>3. ps.consumer_count \in 1..MaxPrinters BY DEF AcceptedParameters
<1> QED BY <1>1, <1>2, <1>3 DEF Safe

\* While the autoscaler runs, the run will wait for it, or was changed.
BeforeJoin == {"joinThreads", "joinScaler"}
AfterJoin  == {"report", "clearStats", "setIdle", "over"}

RunInv ==
  /\ runner \notin {"none", "over"} => isRunning
  /\ runner \in BeforeJoin /\ scaler = "running" /\ ~changed => params.auto_scaling = 1
  /\ runner \in AfterJoin /\ scaler = "running" => changed
  /\ boot # "ready" => runner = "none" /\ epc = "poll"

AcceptedInv ==
  /\ boot \in {"arguments", "ready", "refused"}
  /\ boot # "refused" /\ ~configured => params \in AcceptedParameters
  /\ configured => boot = "ready"

ParametersInv == RunInv /\ AcceptedInv

runVars == <<paramVars, epc, runner, isRunning, scaler, changed>>

LEMMA ParametersInvStable ==
  ASSUME ParametersInv, UNCHANGED runVars
  PROVE  ParametersInv'
BY DEF ParametersInv, RunInv, AcceptedInv, runVars, paramVars

\* No run is under way while the arguments are processed.
LEMMA BootKeepsParametersInv ==
  ASSUME ParametersInv, Boot
  PROVE  ParametersInv'
<1>1. RunInv'
  <2>1. runner = "none" /\ epc = "poll"
    BY DEF Boot, ProcessArgument, ArgumentsAccepted, ParametersInv, RunInv
  <2>2. UNCHANGED <<runner, epc>> BY DEF Boot, runnerVars, eventVars
  <2> QED BY <2>1, <2>2 DEF RunInv, BeforeJoin, AfterJoin
<1>2. ASSUME ArgumentsAccepted PROVE AcceptedInv'
  BY <1>2 DEF ArgumentsAccepted, ParametersInv, AcceptedInv
<1>3. ASSUME NEW a \in Arguments, ProcessArgument(a[1], a[2]) PROVE AcceptedInv'
  <2> DEFINE stored == IF a[1] \in DOMAIN params THEN [params EXCEPT ![a[1]] = a[2]] ELSE params
  <2>1. /\ boot = "arguments" /\ configured' = configured /\ ~configured
        /\ params \in AcceptedParameters
    BY <1>3 DEF ProcessArgument, ParametersInv, AcceptedInv
  <2>2. CASE Accepts(a[1], a[2])
    <3>1. params' = swap_bounds(stored) /\ boot' = boot BY <1>3, <2>2 DEF ProcessArgument
    <3>2. swap_bounds(stored) \in AcceptedParameters
      BY <2>1, <2>2, DefaultsAssumption, AcceptedArgumentKeepsRanges
    <3> QED BY <2>1, <3>1, <3>2 DEF AcceptedInv
  <2>3. CASE ~Accepts(a[1], a[2])
    <3>1. boot' = "refused" BY <1>3, <2>3 DEF ProcessArgument
    <3> QED BY <2>1, <3>1 DEF AcceptedInv
  <2> QED BY <2>2, <2>3
<1> QED BY <1>1, <1>2, <1>3 DEF Boot, ParametersInv

\* A configuration applied during the run is remembered, and no safety is
\* claimed after it (server.c:422-464).
LEMMA StartMessageKeepsParametersInv ==
  ASSUME ParametersInv, StartMessage
  PROVE  ParametersInv'
<1>1. PICK config \in Configs :
        Configure(config) /\ changed' = (changed \/ (isRunning /\ Applies(config)))
  BY DEF StartMessage
<1>2. UNCHANGED <<runner, isRunning, scaler, boot>> /\ boot = "ready"
  BY <1>1 DEF StartMessage, runnerVars, AtPoll, Configure
<1>3. CASE Applies(config)
  <2>1. configured' = TRUE BY <1>1, <1>3 DEF Configure
  <2>2. changed' = (changed \/ isRunning) BY <1>1, <1>3
  <2>3. RunInv' BY <1>2, <2>2 DEF ParametersInv, RunInv, BeforeJoin, AfterJoin
  <2> QED BY <1>2, <2>1, <2>3 DEF ParametersInv, AcceptedInv
<1>4. CASE ~Applies(config)
  <2>1. UNCHANGED <<params, configured>> BY <1>1, <1>4 DEF Configure
  <2>2. changed' <=> changed BY <1>1, <1>4
  <2> QED BY <1>2, <2>1, <2>2 DEF ParametersInv, RunInv, AcceptedInv
<1> QED BY <1>3, <1>4

\* A run begins with no thread of its own.
LEMMA StartKeepsParametersInv ==
  ASSUME ParametersInv, StartSimulation
  PROVE  ParametersInv'
<1>1. UNCHANGED <<paramVars, scaler, changed>> /\ boot = "ready"
  BY DEF StartSimulation, ParametersInv, RunInv
<1>2. \/ UNCHANGED <<runner, isRunning>>
      \/ runner' = "begin" /\ isRunning' = TRUE
  BY DEF StartSimulation
<1>3. RunInv' BY <1>1, <1>2 DEF ParametersInv, RunInv, paramVars, BeforeJoin, AfterJoin
<1> QED BY <1>1, <1>3 DEF ParametersInv, AcceptedInv, paramVars

\* auto_scaling is read when the autoscaler is created and again when it is
\* joined (server.c:212, 228).
LEMMA RunnerKeepsParametersInv ==
  ASSUME ParametersInv, RunnerStep
  PROVE  ParametersInv'
<1> USE DEF RunInv, BeforeJoin, AfterJoin, RunnerGoesTo
<1>0. UNCHANGED <<params, boot, configured, epc, changed>> /\ RunInv /\ AcceptedInv
  BY DEF RunnerStep, ParametersInv, paramVars, eventVars
<1>1. AcceptedInv' BY <1>0 DEF AcceptedInv
<1>2. CASE CreateReceiver BY <1>0, <1>1, <1>2 DEF CreateReceiver, ParametersInv
<1>3. CASE StartPrinter BY <1>0, <1>1, <1>3 DEF StartPrinter, ParametersInv
<1>4. CASE PrintersStarted BY <1>0, <1>1, <1>4 DEF PrintersStarted, ParametersInv
<1>5. CASE StartScaler BY <1>0, <1>1, <1>5 DEF StartScaler, ParametersInv
<1>6. CASE JoinThreads BY <1>0, <1>1, <1>6 DEF JoinThreads, ParametersInv
<1>7. CASE JoinScaler BY <1>0, <1>1, <1>7 DEF JoinScaler, ParametersInv
<1>8. CASE Report BY <1>0, <1>1, <1>8 DEF Report, ParametersInv
<1>9. CASE ClearStats BY <1>0, <1>1, <1>9 DEF ClearStats, ParametersInv
<1>10. CASE SetIdle BY <1>0, <1>1, <1>10 DEF SetIdle, ParametersInv
<1> QED BY <1>2, <1>3, <1>4, <1>5, <1>6, <1>7, <1>8, <1>9, <1>10 DEF RunnerStep

\* The threads of the run do not touch the parameters.
LEMMA OthersKeepParametersInv ==
  ASSUME ParametersInv,
         \/ ConnectionEvent \/ WakeupEvent \/ ScalerLeaves \/ ReceiverStep
         \/ \E p \in Printers : PrinterStep(p)
         \/ UNCHANGED vars
  PROVE  ParametersInv'
<1>1. CASE ScalerLeaves
  <2>1. UNCHANGED <<params, boot, configured, epc, runner, isRunning, changed>> /\ scaler' = "over"
    BY <1>1 DEF ScalerLeaves, paramVars, eventVars, historyVars
  <2> QED BY <2>1 DEF ParametersInv, RunInv, AcceptedInv
<1>2. CASE ~ScalerLeaves
  <2>1. UNCHANGED runVars
    BY <1>2 DEF ConnectionEvent, WakeupEvent, ReceiverStep, PrinterStep, vars, runVars,
                runnerVars, eventVars, historyVars
  <2> QED BY <2>1, ParametersInvStable
<1> QED BY <1>1, <1>2

\* The parameters stay in their ranges and auto_scaling is what it was, or it is
\* remembered that a client changed them.
THEOREM ParametersInvariant == Spec => []ParametersInv
<1>1. Init => ParametersInv
  BY DefaultsAssumption
  DEF Init, ParametersInit, ParametersInv, RunInv, AcceptedInv, BeforeJoin, AfterJoin
<1>2. ParametersInv /\ [Next]_vars => ParametersInv'
  BY BootKeepsParametersInv, StartMessageKeepsParametersInv, StartKeepsParametersInv,
     RunnerKeepsParametersInv, OthersKeepParametersInv
  DEF Next
<1> QED BY <1>1, <1>2, PTL DEF Spec

\* Until a client's configuration is applied the parameters are what the threads
\* rely on, whatever the arguments; the autoscaler outlives its run only if a
\* start command changed the parameters during it (preprocessing.c:70-207,
\* server.c:212, 228, 422-464).
THEOREM ParametersHoldThroughout == Spec => []ParametersHold
<1>1. ParametersInv => ParametersHold
  BY AcceptedIsSafe DEF ParametersInv, RunInv, AcceptedInv, AfterJoin, ParametersHold
<1> QED BY <1>1, ParametersInvariant, PTL

-----------------------------------------------------------------------------
(* The last update *)

\* What the threads and the bridge keep.
Counts  == [arrived : Nat, served : Nat]
Updates == [arrived : Nat, served : Nat, queue : Nat]
Frames  ==
  [to : Connections \cup {NoConnection}, kind : {"stats_update"}, data : Updates]
    \cup [to : Connections \cup {NoConnection}, kind : {"simulation_complete"}, data : {NoStats}]

Ending == {"joinScaler", "report", "clearStats", "setIdle", "over"}
Ended  == {"setIdle", "over"}

SessionType ==
  /\ rpc \in {"none", "sleep", "arrival", "offer", "enqueued", "told", "done"}
  /\ ppc \in [Printers -> {"none", "ready", "dequeued", "told", "printing", "departed", "over"}]
  /\ runner \in {"none", "begin", "startPrinters", "startScaler", "joinThreads"} \cup Ending
  /\ created \in Nat /\ jobId \in Nat /\ queue \in Nat
  /\ stats \in Counts /\ final \in Counts /\ seen \in [Printers -> Counts]
  /\ sending \in [Threads -> Frames \cup {NoFrame}]
  /\ pipe \in Seq(Frames)
  /\ shown \in [Connections -> [update : Updates \cup {<<>>}, complete : BOOLEAN]]

\* Who has a frame at hand, and of which kind.
SendInv ==
  \A t \in Threads : sending[t] # NoFrame =>
    \/ t = Receiver /\ rpc \in {"arrival", "told"} /\ sending[t].kind = "stats_update"
    \/ t \in Printers /\ ppc[t] \in {"told", "departed"} /\ sending[t].kind = "stats_update"
    \/ t = Runner /\ runner = "clearStats" /\ sending[t].kind = "simulation_complete"

\* The watcher has been the active connection since the run began, so every
\* frame of the run is for it.
WatchInv ==
  /\ runner = "none" =>
       /\ watcher = NoConnection /\ pipe = <<>> /\ \A t \in Threads : sending[t] = NoFrame
  /\ watcher # NoConnection =>
       /\ wsConnId = watcher
       /\ \A t \in Threads : sending[t] # NoFrame => sending[t].to = watcher
       /\ \A i \in 1..Len(pipe) : pipe[i].to = watcher

\* Who holds which mutex.
MutexInv ==
  /\ rpc \in {"arrival", "told"} => ~statsFree
  /\ \A p \in Printers : ppc[p] = "departed" => ~statsFree /\ rpc \notin {"arrival", "told"}
  /\ \A p, q \in Printers : ppc[p] = "departed" /\ ppc[q] = "departed" => p = q
  /\ rpc \in {"enqueued", "told"} => ~jobsFree /\ queue > 0
  /\ \A p \in Printers : ppc[p] \in {"dequeued", "told"} => ~jobsFree /\ rpc \notin {"enqueued", "told"}
  /\ \A p, q \in Printers :
       ppc[p] \in {"dequeued", "told"} /\ ppc[q] \in {"dequeued", "told"} => p = q

\* The counters of the run, also when they have been cleared.
Counters == IF runner \in Ended THEN final ELSE stats

\* The course of the run.
StageInv ==
  /\ runner \in {"none", "begin"} => rpc = "none" /\ created = 0
  /\ rpc = "none" => jobId = 0
  /\ \A p \in Printers : p > created => ppc[p] = "none"
  /\ allArrived => rpc = "done"
  /\ rpc = "done" => jobId > 0
  /\ allServed => allArrived /\ queue = 0
  /\ Counters.arrived = jobId
  /\ runner \in Ending => rpc = "done" /\ allServed /\ \A p \in Printers : ppc[p] \in {"none", "over"}
  /\ runner = "clearStats" => final = stats

\* A frame that was addressed with the statistics mutex held shows the counters,
\* and shows a job that has left the queue only if a printer still has it.
Busy(p) == ppc[p] \in {"dequeued", "told", "printing"}

Fresh(data) ==
  /\ data.arrived = stats.arrived /\ data.served = stats.served
  /\ queue = 0 => data.queue = 0 \/ \E p \in Printers : Busy(p)

FreshInv ==
  /\ rpc = "arrival" => sending[Receiver] # NoFrame /\ Fresh(sending[Receiver].data)
  /\ \A p \in Printers : ppc[p] = "departed" => sending[p] # NoFrame /\ Fresh(sending[p].data)

\* d is the last update of the frames s, or, when they have none, the update u.
LastUpdate(s, u, d) ==
  \/ \E i \in 1..Len(s) : /\ s[i].kind = "stats_update" /\ s[i].data = d
                          /\ \A k \in 1..Len(s) : k > i => s[k].kind # "stats_update"
  \/ (\A k \in 1..Len(s) : s[k].kind # "stats_update") /\ u = d

Quiet ==
  /\ queue = 0 /\ rpc \in {"none", "sleep", "offer", "done"} /\ Counters.arrived > 0
  /\ \A p \in Printers : ppc[p] \in {"none", "ready", "over"}

\* When no job is under way, the last update on its way is that of the counters.
LastInv ==
  watcher # NoConnection /\ watcher \notin lost /\ Quiet =>
    LastUpdate(pipe, shown[watcher].update,
               [arrived |-> Counters.arrived, served |-> Counters.served, queue |-> 0])

\* The message that the simulation is complete is the last.
CompleteInv ==
  /\ runner \notin Ended => /\ \A i \in 1..Len(pipe) : pipe[i].kind = "stats_update"
                            /\ \A c \in Connections : ~shown[c].complete
  /\ \A i \in 1..Len(pipe) : pipe[i].kind = "simulation_complete" => i = Len(pipe)
  /\ \A c \in Connections : shown[c].complete => pipe = <<>>

-----------------------------------------------------------------------------
\* The last update of some frames, when one is added or the first is taken.
LEMMA LastOfAppend ==
  ASSUME NEW s \in Seq(Frames), NEW f \in Frames, NEW u, NEW d
  PROVE  /\ f.kind = "stats_update" => LastUpdate(Append(s, f), u, f.data)
         /\ f.kind = "simulation_complete" /\ LastUpdate(s, u, d) => LastUpdate(Append(s, f), u, d)
<1> DEFINE n == Len(s)
           r == Append(s, f)
<1>1. /\ n \in Nat /\ Len(r) = n + 1 /\ r[n + 1] = f
      /\ \A i \in 1..n : r[i] = s[i]
  OBVIOUS
<1> HIDE DEF n, r
<1>2. ASSUME f.kind = "stats_update" PROVE LastUpdate(r, u, f.data)
  <2>1. n + 1 \in 1..Len(r) /\ \A k \in 1..Len(r) : ~(k > n + 1)
    BY <1>1
  <2> QED BY <1>1, <1>2, <2>1 DEF LastUpdate
<1>3. ASSUME f.kind = "simulation_complete", LastUpdate(s, u, d) PROVE LastUpdate(r, u, d)
  <2>1. \A k \in 1..Len(r) : k \in 1..n \/ (k = n + 1 /\ r[k].kind # "stats_update")
    BY <1>1, <1>3
  <2>2. CASE (\A k \in 1..n : s[k].kind # "stats_update") /\ u = d
    BY <1>1, <2>1, <2>2 DEF LastUpdate
  <2>3. ASSUME NEW i \in 1..n, s[i].kind = "stats_update", s[i].data = d,
               \A k \in 1..n : k > i => s[k].kind # "stats_update"
        PROVE  LastUpdate(r, u, d)
    <3>1. i \in 1..Len(r) /\ r[i] = s[i]
      BY <1>1
    <3>2. \A k \in 1..Len(r) : k > i => r[k].kind # "stats_update"
      BY <1>1, <2>1, <2>3
    <3> QED BY <2>3, <3>1, <3>2 DEF LastUpdate
  <2> QED BY <1>3, <2>2, <2>3 DEF LastUpdate, n
<1> QED BY <1>2, <1>3 DEF r

LEMMA LastOfTail ==
  ASSUME NEW s \in Seq(Frames), s # <<>>, NEW u, NEW d, LastUpdate(s, u, d),
         NEW v, v = IF Head(s).kind = "stats_update" THEN Head(s).data ELSE u
  PROVE  LastUpdate(Tail(s), v, d)
<1> DEFINE n == Len(s)
           r == Tail(s)
<1>1. /\ n \in Nat \ {0} /\ Len(r) = n - 1 /\ Head(s) = s[1]
      /\ \A i \in 1..(n - 1) : r[i] = s[i + 1]
  OBVIOUS
<1>2. \A k \in 1..(n - 1) : k + 1 \in 1..n
  BY <1>1
<1> HIDE DEF n, r
<1>3. ASSUME \A k \in 1..n : s[k].kind # "stats_update", u = d
      PROVE  LastUpdate(r, v, d)
  <2>1. n >= 1 /\ 1 \in 1..n
    BY <1>1
  <2>2. v = d
    BY <1>1, <1>3, <2>1
  <2>3. \A k \in 1..Len(r) : r[k].kind # "stats_update"
    BY <1>1, <1>2, <1>3
  <2> QED BY <2>2, <2>3 DEF LastUpdate
<1>4. ASSUME NEW i \in 1..n, s[i].kind = "stats_update", s[i].data = d,
             \A k \in 1..n : k > i => s[k].kind # "stats_update"
      PROVE  LastUpdate(r, v, d)
  <2>1. CASE i = 1
    <3>1. \A k \in 1..(n - 1) : r[k].kind # "stats_update"
      <4> TAKE k \in 1..(n - 1)
      <4>1. k + 1 \in 1..n /\ k + 1 > i
        BY <1>1, <2>1
      <4> QED BY <1>1, <1>4, <4>1
    <3> QED BY <1>1, <1>4, <2>1, <3>1 DEF LastUpdate
  <2>2. CASE i # 1
    <3>1. i - 1 \in 1..(n - 1) /\ r[i - 1] = s[i]
      BY <1>1, <2>2
    <3>2. \A k \in 1..(n - 1) : k > i - 1 => r[k].kind # "stats_update"
      <4> TAKE k \in 1..(n - 1)
      <4>1. k + 1 \in 1..n /\ (k > i - 1 => k + 1 > i)
        BY <1>1
      <4> QED BY <1>1, <1>4, <4>1
    <3> QED BY <1>1, <1>4, <3>1, <3>2 DEF LastUpdate
  <2> QED BY <2>1, <2>2
<1>5. LastUpdate(r, v, d)
  BY <1>3, <1>4 DEF LastUpdate, n
<1> QED BY <1>5 DEF r

LEMMA LastOfNone ==
  ASSUME NEW u, NEW d, LastUpdate(<<>>, u, d)
  PROVE  u = d
BY DEF LastUpdate

\* The numbers of the threads.
LEMMA ThreadNumbers ==
  /\ Receiver \in Threads /\ Runner \in Threads /\ Printers \subseteq Threads
  /\ Receiver \notin Printers /\ Runner \notin Printers /\ Runner # Receiver
BY SessionAssumption DEF Receiver, Runner, Printers

\* A frame is written to the socket, or lost if that is full (ws_bridge.c).
LEMMA WakeupWrites ==
  ASSUME SessionType, NEW t \in Threads, mg_wakeup(t)
  PROVE  /\ sending[t] \in Frames /\ sending' = [sending EXCEPT ![t] = NoFrame]
         /\ UNCHANGED <<link, wsConnId, latest, shown>>
         /\ pipe' = pipe \/ pipe' = Append(pipe, sending[t])
         /\ pipe' \in Seq(Frames)
         /\ watcher \in Connections /\ sending[t].to = watcher /\ IsOpen(watcher) /\ watcher \notin lost'
              => watcher \notin lost /\ pipe' = Append(pipe, sending[t])
<1>1. /\ sending[t] \in Frames /\ pipe \in Seq(Frames)
      /\ sending' = [sending EXCEPT ![t] = NoFrame] /\ UNCHANGED <<link, wsConnId, latest, shown>>
  BY DEF SessionType, mg_wakeup
<1>2. CASE sending[t].to = NoConnection
  <2>1. pipe' = pipe /\ lost' = lost
    BY <1>2 DEF mg_wakeup
  <2> QED BY <1>1, <1>2, <2>1, BridgeAssumption
<1>3. CASE sending[t].to # NoConnection /\ Len(pipe) < PipeSize
  <2>1. pipe' = Append(pipe, sending[t]) /\ lost' = lost
    BY <1>3 DEF mg_wakeup
  <2> QED BY <1>1, <2>1
<1>4. CASE sending[t].to # NoConnection /\ ~(Len(pipe) < PipeSize)
  <2>1. pipe' = pipe /\ lost' = lost \cup {c \in Connections : c = sending[t].to /\ IsOpen(c)}
    BY <1>4 DEF mg_wakeup
  <2> QED BY <1>1, <2>1
<1> QED BY <1>2, <1>3, <1>4

\* A thread that addresses a frame has it at hand.
LEMMA BeginSendKeeps ==
  ASSUME SessionType, ConnectionInv, NEW t \in Threads, NEW kind, NEW data, BeginSend(t, kind, data),
         \/ kind = "stats_update" /\ data \in Updates
         \/ kind = "simulation_complete" /\ data = NoStats
  PROVE  /\ sending' = [sending EXCEPT ![t] = [to |-> wsConnId, kind |-> kind, data |-> data]]
         /\ sending' \in [Threads -> Frames \cup {NoFrame}]
         /\ sending'[t].kind = kind /\ sending'[t].data = data /\ sending'[t].to = wsConnId
         /\ sending'[t] # NoFrame
<1>1. wsConnId \in Connections \cup {NoConnection}
  BY DEF ConnectionInv, LatestOpenIsActive, IsOpen
<1> DEFINE f == [to |-> wsConnId, kind |-> kind, data |-> data]
<1>2. f \in Frames /\ f.kind = kind /\ f.data = data /\ f.to = wsConnId
  BY <1>1 DEF Frames
<1>3. f.kind # "none"
  BY <1>2
<1>4. f # NoFrame
  BY <1>3 DEF NoFrame
<1>5. sending' = [sending EXCEPT ![t] = f]
  BY DEF BeginSend
<1> HIDE DEF f
<1>6. sending' \in [Threads -> Frames \cup {NoFrame}] /\ sending'[t] = f
  BY <1>2, <1>5 DEF SessionType
<1> QED BY <1>2, <1>4, <1>5, <1>6 DEF f

sessionVars == <<rpc, ppc, runner, created, jobId, queue, allArrived, allServed, stats, statsFree,
                 jobsFree, final, seen, sending, pipe, shown, wsConnId, lost, watcher>>
threadVars  == <<rpc, ppc, runner, created, jobId, queue, allArrived, allServed, stats, statsFree,
                 jobsFree, final, seen>>

\* What of the session the other steps change.
LEMMA IdleSteps ==
  /\ Boot \/ StartMessage \/ ScalerLeaves \/ UNCHANGED vars => UNCHANGED sessionVars
  /\ ConnectionEvent => UNCHANGED <<threadVars, sending, pipe>>
  /\ WakeupEvent => UNCHANGED <<threadVars, sending, wsConnId, lost, watcher>>
  /\ StartSimulation =>
       /\ UNCHANGED <<rpc, ppc, created, jobId, queue, allArrived, allServed, stats, statsFree, jobsFree,
                      final, seen, sending, pipe, shown, wsConnId, lost>>
       /\ (runner' = runner /\ watcher' = watcher)
          \/ (runner = "none" /\ runner' = "begin" /\ watcher' = wsConnId)
<1>1. Boot \/ StartMessage \/ ScalerLeaves \/ UNCHANGED vars => UNCHANGED sessionVars
  BY DEF Boot, StartMessage, ScalerLeaves, vars, sessionVars, bridgeVars, runnerVars, receiverVars,
         printerVars, stateVars, historyVars
<1>2. ConnectionEvent => UNCHANGED <<threadVars, sending, pipe>>
  BY DEF ConnectionEvent, WsOpen, Close, threadVars, runnerVars, receiverVars, printerVars,
         stateVars
<1>3. WakeupEvent => UNCHANGED <<threadVars, sending, wsConnId, lost, watcher>>
  BY DEF WakeupEvent, Deliver, threadVars, runnerVars, receiverVars, printerVars, stateVars,
         historyVars
<1>4. StartSimulation =>
        /\ UNCHANGED <<rpc, ppc, created, jobId, queue, allArrived, allServed, stats, statsFree, jobsFree,
                       final, seen, sending, pipe, shown, wsConnId, lost>>
        /\ (runner' = runner /\ watcher' = watcher)
           \/ (runner = "none" /\ runner' = "begin" /\ watcher' = wsConnId)
  BY DEF StartSimulation, bridgeVars, receiverVars, printerVars, stateVars
<1> QED BY <1>1, <1>2, <1>3, <1>4

\* What the client shows when a frame reaches it.
LEMMA DeliveryShows ==
  ASSUME SessionType, WakeupEvent
  PROVE  /\ pipe # <<>> /\ pipe' = Tail(pipe) /\ pipe' \in Seq(Frames) /\ Head(pipe) \in Frames
         /\ shown' \in [Connections -> [update : Updates \cup {<<>>}, complete : BOOLEAN]]
         /\ \A c \in Connections :
              /\ c = Head(pipe).to /\ IsOpen(c) =>
                   /\ shown'[c].update = IF Head(pipe).kind = "stats_update" THEN Head(pipe).data
                                                                            ELSE shown[c].update
                   /\ shown'[c].complete = IF Head(pipe).kind = "stats_update" THEN shown[c].complete
                                                                              ELSE TRUE
              /\ ~(c = Head(pipe).to /\ IsOpen(c)) => shown'[c] = shown[c]
<1>1. PICK s \in Seq(Frames) : s = pipe
  BY DEF SessionType
<1>2. s # <<>> /\ pipe' = Tail(s)
  BY <1>1 DEF WakeupEvent, Deliver
<1>3. Tail(s) \in Seq(Frames) /\ Head(s) \in Frames
  BY <1>2
<1>4. PICK f \in Frames : f = Head(s)
  BY <1>3
<1>5. shown' = IF IsOpen(f.to) THEN [shown EXCEPT ![f.to] = Show(shown[f.to], f)] ELSE shown
  BY <1>1, <1>4 DEF WakeupEvent, Deliver
<1> DEFINE Views == [update : Updates \cup {<<>>}, complete : BOOLEAN]
<1>6. shown \in [Connections -> Views]
  BY DEF SessionType
<1>7. ASSUME NEW v \in Views
      PROVE  /\ Show(v, f) \in Views
             /\ Show(v, f).update = IF f.kind = "stats_update" THEN f.data ELSE v.update
             /\ Show(v, f).complete = IF f.kind = "stats_update" THEN v.complete ELSE TRUE
  <2>1. CASE f.kind = "stats_update"
    <3>1. f.data \in Updates
      BY <2>1 DEF Frames
    <3>2. Show(v, f) = [v EXCEPT !.update = f.data]
      BY <2>1 DEF Show
    <3> QED BY <2>1, <3>1, <3>2
  <2>2. CASE f.kind # "stats_update"
    <3>1. Show(v, f) = [v EXCEPT !.complete = TRUE]
      BY <2>2 DEF Show
    <3> QED BY <2>2, <3>1
  <2> QED BY <2>1, <2>2
<1>8. CASE IsOpen(f.to)
  <2>1. f.to \in Connections
    BY <1>8 DEF IsOpen
  <2>2. shown' = [shown EXCEPT ![f.to] = Show(shown[f.to], f)] /\ shown[f.to] \in Views
    BY <1>5, <1>6, <1>8, <2>1
  <2>3. PICK w \in Views : w = Show(shown[f.to], f)
    BY <1>7, <2>2
  <2>4. shown' = [shown EXCEPT ![f.to] = w]
    BY <2>2, <2>3
  <2> HIDE DEF Views
  <2>5. shown' \in [Connections -> Views] /\ shown'[f.to] = w
        /\ \A c \in Connections : c # f.to => shown'[c] = shown[c]
    BY <1>6, <2>1, <2>4
  <2>6. /\ w.update = IF f.kind = "stats_update" THEN f.data ELSE shown[f.to].update
        /\ w.complete = IF f.kind = "stats_update" THEN shown[f.to].complete ELSE TRUE
    BY <1>7, <2>2, <2>3
  <2> QED BY <1>1, <1>2, <1>3, <1>4, <1>8, <2>5, <2>6 DEF Views
<1>9. CASE ~IsOpen(f.to)
  BY <1>1, <1>2, <1>3, <1>4, <1>5, <1>6, <1>9
<1> QED BY <1>8, <1>9

\* The threads keep the types.
LEMMA ThreadsKeepTypes ==
  ASSUME SessionType, ConnectionInv, RunnerStep \/ ReceiverStep \/ \E p \in Printers : PrinterStep(p)
  PROVE  SessionType'
<1> USE ThreadNumbers
<1>0. /\ rpc \in {"none", "sleep", "arrival", "offer", "enqueued", "told", "done"}
      /\ ppc \in [Printers -> {"none", "ready", "dequeued", "told", "printing", "departed", "over"}]
      /\ runner \in {"none", "begin", "startPrinters", "startScaler", "joinThreads"} \cup Ending
      /\ created \in Nat /\ jobId \in Nat /\ queue \in Nat
      /\ stats \in Counts /\ final \in Counts /\ seen \in [Printers -> Counts]
      /\ sending \in [Threads -> Frames \cup {NoFrame}]
      /\ pipe \in Seq(Frames)
      /\ shown \in [Connections -> [update : Updates \cup {<<>>}, complete : BOOLEAN]]
  BY DEF SessionType
<1>1. NoStats \in Counts /\ \A s \in Counts, n \in Nat :
        [arrived |-> s.arrived, served |-> s.served, queue |-> n] \in Updates
  BY DEF NoStats, Counts, Updates
<1>2. ASSUME NEW t \in Threads, mg_wakeup(t)
      PROVE  /\ sending' \in [Threads -> Frames \cup {NoFrame}] /\ pipe' \in Seq(Frames) /\ shown' = shown
  BY <1>0, <1>2, WakeupWrites
<1>3. ASSUME NEW t \in Threads, NEW s \in Counts, StatsUpdate(t, s, queue)
      PROVE  sending' \in [Threads -> Frames \cup {NoFrame}]
  BY <1>0, <1>1, <1>3, BeginSendKeeps DEF StatsUpdate
<1>4. CASE RunnerStep
  <2>1. CASE Report
    <3>1. sending' \in [Threads -> Frames \cup {NoFrame}]
      BY <2>1, BeginSendKeeps DEF Report
    <3> QED BY <1>0, <2>1, <3>1
        DEF Report, RunnerGoesTo, BridgeUnchangedButSending, receiverVars, printerVars, stateVars,
            SessionType, Ending
  <2>2. CASE ClearStats
    <3>1. mg_wakeup(Runner)
      BY <2>2 DEF ClearStats
    <3> QED BY <1>0, <1>1, <1>2, <2>2, <3>1
        DEF ClearStats, RunnerGoesTo, receiverVars, printerVars, SessionType, Ending
  <2>3. CASE StartPrinter
    BY <1>0, <2>3 DEF StartPrinter, bridgeVars, receiverVars, stateVars, SessionType
  <2>4. CASE CreateReceiver \/ PrintersStarted \/ StartScaler
    BY <1>0, <2>4 DEF CreateReceiver, PrintersStarted, StartScaler, RunnerGoesTo, bridgeVars,
                      receiverVars,
                      printerVars, stateVars, SessionType
  <2>5. CASE JoinThreads \/ JoinScaler \/ SetIdle
    BY <1>0, <2>5 DEF JoinThreads, JoinScaler, SetIdle, RunnerGoesTo, bridgeVars, receiverVars,
                      printerVars, stateVars, SessionType, Ending
  <2> QED BY <1>4, <2>1, <2>2, <2>3, <2>4, <2>5 DEF RunnerStep
<1>5. CASE ReceiverStep
  <2>0. UNCHANGED <<ppc, seen, runner, created, final>>
    BY <1>5 DEF ReceiverStep, runnerVars, printerVars, historyVars
  <2>1. CASE JobArrives
    <3>1. stats' \in Counts
      <4>1. PICK n \in Nat : n = stats.arrived + 1
        BY <1>0 DEF Counts
      <4>2. stats' = [stats EXCEPT !.arrived = n]
        BY <2>1, <4>1 DEF JobArrives
      <4> QED BY <1>0, <4>2 DEF Counts
    <3>2. StatsUpdate(Receiver, stats', queue)
      BY <2>1 DEF JobArrives
    <3>3. sending' \in [Threads -> Frames \cup {NoFrame}]
      BY <1>3, <3>1, <3>2
    <3> QED BY <1>0, <2>0, <2>1, <3>1, <3>3
        DEF JobArrives, ReceiverGoesTo, BridgeUnchangedButSending, SessionType
  <2>2. CASE TellEnqueued
    <3>1. StatsUpdate(Receiver, stats, queue)
      BY <2>2 DEF TellEnqueued
    <3>2. sending' \in [Threads -> Frames \cup {NoFrame}]
      BY <1>0, <1>3, <3>1
    <3> QED BY <1>0, <2>0, <2>2, <3>2
        DEF TellEnqueued, ReceiverGoesTo, BridgeUnchangedButSending, SessionType
  <2>3. CASE ArrivalSent \/ EnqueuedSent
    <3>1. mg_wakeup(Receiver)
      BY <2>3 DEF ArrivalSent, EnqueuedSent
    <3> QED BY <1>0, <1>2, <2>0, <2>3, <3>1
        DEF ArrivalSent, EnqueuedSent, ReceiverGoesTo, SessionType
  <2>4. CASE DropJob \/ Enqueue \/ ReceiverLeaves
    BY <1>0, <2>0, <2>4
    DEF DropJob, Enqueue, ReceiverLeaves, ReceiverGoesTo, bridgeVars, stateVars, SessionType
  <2> QED BY <1>5, <2>1, <2>2, <2>3, <2>4 DEF ReceiverStep
<1>6. ASSUME NEW p \in Printers, PrinterStep(p) PROVE SessionType'
  <2>0. UNCHANGED <<rpc, jobId, runner, created, final>>
    BY <1>6 DEF PrinterStep, runnerVars, receiverVars, historyVars
  <2>1. CASE TellDequeued(p)
    <3>1. PICK a \in seen[p].arrived..stats.arrived, s \in seen[p].served..stats.served :
            StatsUpdate(p, [arrived |-> a, served |-> s], queue)
      BY <2>1 DEF TellDequeued
    <3>2. /\ seen[p].arrived \in Nat /\ seen[p].served \in Nat
          /\ stats.arrived \in Nat /\ stats.served \in Nat
      BY <1>0 DEF Counts
    <3>3. [arrived |-> a, served |-> s] \in Counts
      BY <3>1, <3>2 DEF Counts
    <3>4. sending' \in [Threads -> Frames \cup {NoFrame}]
      BY <1>3, <3>1, <3>3
    <3> QED BY <1>0, <1>1, <2>0, <2>1, <3>4
        DEF TellDequeued, PrinterGoesTo, BridgeUnchangedButSending, stateVars, SessionType
  <2>2. CASE Depart(p)
    <3>1. stats' \in Counts
      <4>1. PICK n \in Nat : n = stats.served + 1
        BY <1>0 DEF Counts
      <4>2. stats' = [stats EXCEPT !.served = n]
        BY <2>2, <4>1 DEF Depart
      <4> QED BY <1>0, <4>2 DEF Counts
    <3>2. StatsUpdate(p, stats', queue)
      BY <2>2 DEF Depart
    <3>3. sending' \in [Threads -> Frames \cup {NoFrame}]
      BY <1>3, <3>1, <3>2
    <3> QED BY <1>0, <2>0, <2>2, <3>1, <3>3
        DEF Depart, PrinterGoesTo, BridgeUnchangedButSending, SessionType
  <2>3. CASE BeginPrinting(p) \/ DepartureSent(p)
    <3>1. mg_wakeup(p)
      BY <2>3 DEF BeginPrinting, DepartureSent
    <3> QED BY <1>0, <1>2, <2>0, <2>3, <3>1
        DEF BeginPrinting, DepartureSent, PrinterGoesTo, SessionType
  <2>4. CASE Dequeue(p) \/ PrinterLeaves(p)
    <3>1. queue' \in Nat
      BY <1>0, <2>4 DEF Dequeue, PrinterLeaves
    <3> QED BY <1>0, <2>0, <2>4, <3>1 DEF Dequeue, PrinterLeaves, PrinterGoesTo, bridgeVars,
                                          SessionType
  <2> QED BY <1>6, <2>1, <2>2, <2>3, <2>4 DEF PrinterStep
<1> QED BY <1>4, <1>5, <1>6

THEOREM SessionTypes == Spec => []SessionType
<1>1. Init => SessionType
  BY DEF Init, BridgeInit, SessionType, NoStats, Counts, Nothing, Ending
<1>2. SessionType /\ ConnectionInv /\ [Next]_vars => SessionType'
  <2> SUFFICES ASSUME SessionType, ConnectionInv, [Next]_vars PROVE SessionType'
    OBVIOUS
  <2>1. CASE Boot \/ StartMessage \/ ScalerLeaves \/ UNCHANGED vars
    BY <2>1, IdleSteps DEF SessionType, sessionVars
  <2>2. CASE ConnectionEvent
    <3>1. UNCHANGED <<threadVars, sending, pipe>>
      BY <2>2, IdleSteps
    <3>2. shown' \in [Connections -> [update : Updates \cup {<<>>}, complete : BOOLEAN]]
      <4>1. shown' = shown \/ \E c \in Connections : shown' = [shown EXCEPT ![c] = Nothing]
        BY <2>2 DEF ConnectionEvent, WsOpen, Close
      <4>2. Nothing \in [update : Updates \cup {<<>>}, complete : BOOLEAN]
        BY DEF Nothing
      <4> HIDE DEF Nothing
      <4> QED BY <4>1, <4>2 DEF SessionType
    <3> QED BY <3>1, <3>2 DEF SessionType, threadVars
  <2>3. CASE WakeupEvent
    BY <2>3, IdleSteps, DeliveryShows DEF SessionType, threadVars
  <2>4. CASE StartSimulation
    BY <2>4, IdleSteps DEF SessionType
  <2>5. CASE RunnerStep \/ ReceiverStep \/ \E p \in Printers : PrinterStep(p)
    BY <2>5, ThreadsKeepTypes
  <2> QED BY <2>1, <2>2, <2>3, <2>4, <2>5 DEF Next
<1>3. Spec => []ConnectionInv
  BY ConnectionInvariant
<1> QED BY <1>1, <1>2, <1>3, PTL DEF Spec

\* There is at least one job once the arguments are accepted, whatever
\* configurations come (preprocessing.c:70-207, server.c:418-424).
JobsInv == ParametersInv /\ (boot = "ready" => params.num_jobs \in Nat \ {0})

THEOREM JobsInvariant == Spec => []JobsInv
<1>1. Init => boot # "ready"
  BY DEF Init, ParametersInit
<1>2. ParametersInv /\ ParametersInv' /\ JobsInv /\ [Next]_vars => JobsInv'
  <2> SUFFICES ASSUME ParametersInv, ParametersInv', JobsInv, [Next]_vars PROVE JobsInv'
    OBVIOUS
  <2>1. CASE Boot
    <3>1. boot' = "ready" => ArgumentsAccepted
      BY <2>1 DEF Boot, ProcessArgument, ArgumentsAccepted
    <3>2. ASSUME ArgumentsAccepted PROVE params'.num_jobs \in Nat \ {0}
      <4>1. boot = "arguments" /\ params' = params
        BY <3>2 DEF ArgumentsAccepted
      <4>2. params \in AcceptedParameters
        BY <4>1 DEF ParametersInv, AcceptedInv
      <4> QED BY <4>1, <4>2 DEF AcceptedParameters
    <3> QED BY <3>1, <3>2 DEF JobsInv
  <2>2. CASE StartMessage
    <3>1. PICK config \in Configs : Configure(config)
      BY <2>2 DEF StartMessage
    <3>2. boot' = boot /\ boot = "ready"
      BY <2>2, <3>1 DEF StartMessage, AtPoll, Configure
    <3>3. CASE Applies(config)
      <4>1. /\ "num_jobs" \in DOMAIN config /\ config.num_jobs > 0
            /\ params' = [f \in DOMAIN config \cup DOMAIN params |->
                           IF f \in DOMAIN config THEN config[f] ELSE params[f]]
        BY <3>1, <3>3 DEF Applies, Configure
      <4>2. config.num_jobs \in Int
        BY <4>1, SessionAssumption
      <4>3. params'.num_jobs = config.num_jobs
        BY <4>1
      <4> QED BY <4>1, <4>2, <4>3 DEF JobsInv
    <3>4. CASE ~Applies(config)
      BY <3>1, <3>2, <3>4 DEF Configure, JobsInv
    <3> QED BY <3>3, <3>4
  <2>3. CASE ~Boot /\ ~StartMessage
    <3>1. UNCHANGED paramVars
      BY <2>3 DEF Next, vars, ConnectionEvent, WakeupEvent, StartSimulation, RunnerStep,
                  ScalerLeaves,
                  ReceiverStep, PrinterStep
    <3> QED BY <3>1 DEF JobsInv, paramVars
  <2> QED BY <2>1, <2>2, <2>3
<1>3. Init => JobsInv \/ ~ParametersInv
  BY <1>1 DEF JobsInv
<1> QED BY <1>2, <1>3, ParametersInvariant, PTL DEF Spec

\* The course of the run, and who holds the mutexes, do not depend on what is sent.
StageStep ==
  \/ RunnerStep \/ ReceiverStep \/ \E p \in Printers : PrinterStep(p)

LEMMA ReceiverKeepsStage ==
  ASSUME SessionType, JobsInv, StageInv, ReceiverStep
  PROVE  StageInv'
<1>0. /\ UNCHANGED <<ppc, runner, created, final>>
      /\ stats \in Counts /\ jobId \in Nat /\ queue \in Nat
  BY DEF ReceiverStep, runnerVars, printerVars, historyVars, SessionType
<1>1. runner \notin Ending /\ ~allServed
  <2>1. rpc # "done"
    BY DEF ReceiverStep, JobArrives, ArrivalSent, DropJob, Enqueue, TellEnqueued, EnqueuedSent,
           ReceiverLeaves, ReceiverGoesTo
  <2> QED BY <2>1 DEF StageInv
<1>2. rpc # "none" /\ runner \notin {"none", "begin"} /\ boot = "ready"
  <2>1. rpc # "none"
    BY DEF ReceiverStep, JobArrives, ArrivalSent, DropJob, Enqueue, TellEnqueued, EnqueuedSent,
           ReceiverLeaves, ReceiverGoesTo
  <2> QED BY <2>1 DEF StageInv, JobsInv, ParametersInv, RunInv
<1>3. CASE JobArrives
  <2>1. PICK n \in Nat : n = stats.arrived + 1
    BY <1>0 DEF Counts
  <2>2. stats' = [stats EXCEPT !.arrived = n] /\ jobId' = jobId + 1 /\ rpc' = "arrival"
        /\ rpc = "sleep" /\ UNCHANGED <<queue, allArrived, allServed>>
    BY <1>3, <2>1 DEF JobArrives, ReceiverGoesTo
  <2>3. stats'.arrived = n
    BY <1>0, <2>2 DEF Counts
  <2>4. stats.arrived = jobId /\ Counters' = stats'
    BY <1>0, <1>1 DEF StageInv, Counters, Ending, Ended
  <2> QED BY <1>0, <1>1, <1>2, <2>1, <2>2, <2>3, <2>4 DEF StageInv, Ending
<1>4. CASE ReceiverLeaves
  <2>1. /\ rpc' = "done" /\ jobId >= params.num_jobs /\ UNCHANGED <<jobId, queue, allServed, stats>>
    BY <1>4 DEF ReceiverLeaves, ReceiverGoesTo
  <2>2. jobId > 0
    BY <1>0, <1>2, <2>1 DEF JobsInv
  <2>3. Counters' = Counters
    BY <1>0, <2>1 DEF Counters
  <2> QED BY <1>0, <1>1, <1>2, <2>1, <2>2, <2>3 DEF StageInv, Ending
<1>5. CASE ArrivalSent \/ DropJob \/ Enqueue \/ TellEnqueued \/ EnqueuedSent
  <2>1. /\ UNCHANGED <<jobId, stats, allArrived, allServed>>
        /\ rpc # "done" /\ rpc' # "done" /\ rpc' # "none"
    BY <1>5 DEF ArrivalSent, DropJob, Enqueue, TellEnqueued, EnqueuedSent, ReceiverGoesTo, stateVars
  <2>2. Counters' = Counters
    BY <1>0, <2>1 DEF Counters
  <2> QED BY <1>0, <1>1, <1>2, <2>1, <2>2 DEF StageInv, Ending
<1> QED BY <1>3, <1>4, <1>5 DEF ReceiverStep

LEMMA PrinterKeepsStage ==
  ASSUME SessionType, StageInv, NEW p \in Printers, PrinterStep(p)
  PROVE  StageInv'
<1>0. /\ UNCHANGED <<runner, created, final, rpc, jobId>> /\ allArrived' = allArrived
      /\ stats \in Counts /\ jobId \in Nat /\ queue \in Nat
      /\ ppc \in [Printers -> {"none", "ready", "dequeued", "told", "printing", "departed", "over"}]
  BY DEF PrinterStep, runnerVars, receiverVars, historyVars, SessionType, Dequeue, TellDequeued,
         BeginPrinting, Depart, DepartureSent, PrinterLeaves, stateVars
<1>1. /\ ppc[p] \notin {"none", "over"} /\ ppc' = [ppc EXCEPT ![p] = ppc'[p]]
      /\ runner \notin Ending
  <2>1. ppc[p] \notin {"none", "over"} /\ ppc' = [ppc EXCEPT ![p] = ppc'[p]]
    BY <1>0 DEF PrinterStep, Dequeue, TellDequeued, BeginPrinting, Depart, DepartureSent,
                PrinterLeaves,
                PrinterGoesTo
  <2> QED BY <2>1 DEF StageInv
<1>2. \A q \in Printers : q > created => ppc'[q] = "none"
  BY <1>0, <1>1 DEF StageInv
<1>3. Counters' = stats' /\ Counters = stats
  BY <1>0, <1>1 DEF Counters, Ending, Ended
<1>4. stats'.arrived = stats.arrived
  BY <1>0 DEF PrinterStep, Dequeue, TellDequeued, BeginPrinting, Depart, DepartureSent,
              PrinterLeaves,
              stateVars, Counts
<1>5. allServed' => allArrived /\ queue' = 0
  <2>1. CASE PrinterLeaves(p)
    BY <2>1 DEF PrinterLeaves
  <2>2. CASE Dequeue(p)
    <3>1. queue > 0 /\ allServed' = allServed
      BY <2>2 DEF Dequeue
    <3> QED BY <1>0, <3>1 DEF StageInv
  <2>3. CASE TellDequeued(p) \/ BeginPrinting(p) \/ Depart(p) \/ DepartureSent(p)
    BY <2>3 DEF TellDequeued, BeginPrinting, Depart, DepartureSent, stateVars, StageInv
  <2> QED BY <2>1, <2>2, <2>3 DEF PrinterStep
<1> QED BY <1>0, <1>1, <1>2, <1>3, <1>4, <1>5 DEF StageInv, Ending

LEMMA RunnerKeepsStage ==
  ASSUME SessionType, StageInv, RunnerStep
  PROVE  StageInv'
<1>0. /\ created \in Nat /\ jobId' = jobId
      /\ ppc \in [Printers -> {"none", "ready", "dequeued", "told", "printing", "departed", "over"}]
  BY DEF SessionType, RunnerStep, CreateReceiver, StartPrinter, PrintersStarted, StartScaler,
         JoinThreads,
         JoinScaler, Report, ClearStats, SetIdle, receiverVars
<1>1. CASE CreateReceiver \/ PrintersStarted \/ StartScaler
  <2>1. /\ UNCHANGED <<created, ppc, queue, allArrived, allServed, stats, final>>
        /\ runner \notin Ending /\ runner' \notin Ending \cup {"none", "begin"}
        /\ \/ rpc' = rpc
           \/ runner = "begin" /\ rpc' = "sleep"
    BY <1>1 DEF CreateReceiver, PrintersStarted, StartScaler, RunnerGoesTo, receiverVars,
                printerVars,
                stateVars, Ending
  <2>2. Counters' = Counters
    BY <2>1 DEF Counters, Ending, Ended
  <2> QED BY <1>0, <2>1, <2>2 DEF StageInv, Ending
<1>2. CASE StartPrinter
  <2>1. /\ UNCHANGED <<runner, rpc, queue, allArrived, allServed, stats, final>> /\ runner = "startPrinters"
        /\ created' = created + 1
        /\ ppc' = [p \in Printers |-> IF p = created + 1 THEN "ready" ELSE ppc[p]]
    BY <1>2 DEF StartPrinter, receiverVars, stateVars
  <2>2. \A p \in Printers : p > created' => ppc'[p] = "none"
    <3> TAKE p \in Printers
    <3>1. p \in Int
      BY DEF Printers
    <3>2. p > created + 1 => p > created /\ p # created + 1
      BY <1>0, <3>1
    <3> QED BY <2>1, <3>2 DEF StageInv
  <2>3. Counters' = Counters
    BY <2>1 DEF Counters
  <2> QED BY <1>0, <2>1, <2>2, <2>3 DEF StageInv, Ending
<1>3. CASE JoinThreads
  <2>1. /\ UNCHANGED <<created, ppc, rpc, queue, allArrived, allServed, stats, final>>
        /\ runner = "joinThreads" /\ runner' = "joinScaler"
        /\ rpc = "done" /\ allServed /\ \A p \in Printers : ppc[p] \in {"none", "over"}
    BY <1>3 DEF JoinThreads, RunnerGoesTo, receiverVars, printerVars, stateVars
  <2>2. Counters' = Counters
    BY <2>1 DEF Counters, Ended
  <2> QED BY <1>0, <2>1, <2>2 DEF StageInv
<1>4. CASE JoinScaler \/ SetIdle
  <2>1. /\ UNCHANGED <<created, ppc, rpc, queue, allArrived, allServed, stats, final>>
        /\ runner \in Ending /\ runner' \notin {"none", "begin", "clearStats"}
        /\ runner \in Ended <=> runner' \in Ended
    BY <1>4 DEF JoinScaler, SetIdle, RunnerGoesTo, receiverVars, printerVars, stateVars, Ending,
                Ended
  <2>2. Counters' = Counters
    BY <2>1 DEF Counters
  <2> QED BY <1>0, <2>1, <2>2 DEF StageInv
<1>5. CASE Report
  <2>1. /\ UNCHANGED <<created, ppc, rpc, queue, allArrived, allServed, stats>>
        /\ runner = "report" /\ runner' = "clearStats" /\ final' = stats
    BY <1>5 DEF Report, RunnerGoesTo, receiverVars, printerVars, stateVars
  <2>2. Counters' = Counters
    BY <2>1 DEF Counters, Ended
  <2> QED BY <1>0, <2>1, <2>2 DEF StageInv, Ending
<1>6. CASE ClearStats
  <2>1. /\ UNCHANGED <<created, ppc, rpc, queue, allArrived, allServed, final>>
        /\ runner = "clearStats" /\ runner' = "setIdle"
    BY <1>6 DEF ClearStats, RunnerGoesTo, receiverVars, printerVars
  <2>2. Counters' = Counters
    BY <2>1 DEF Counters, Ended, StageInv
  <2> QED BY <1>0, <2>1, <2>2 DEF StageInv, Ending
<1> QED BY <1>1, <1>2, <1>3, <1>4, <1>5, <1>6 DEF RunnerStep

THEOREM StageInvariant == Spec => []StageInv
<1>1. Init => StageInv
  BY DEF Init, StageInv, Counters, NoStats, Ending, Ended
<1>2. SessionType /\ JobsInv /\ StageInv /\ [Next]_vars => StageInv'
  <2> SUFFICES ASSUME SessionType, JobsInv, StageInv, [Next]_vars PROVE StageInv'
    OBVIOUS
  <2>1. ASSUME UNCHANGED threadVars PROVE StageInv'
    BY <2>1 DEF StageInv, threadVars, Counters
  <2>2. CASE Boot \/ StartMessage \/ ScalerLeaves \/ UNCHANGED vars \/ ConnectionEvent \/ WakeupEvent
    BY <2>1, <2>2, IdleSteps DEF sessionVars, threadVars
  <2>3. CASE StartSimulation
    <3>1. /\ UNCHANGED <<rpc, ppc, created, jobId, queue, allArrived, allServed, stats, final>>
          /\ runner' = runner \/ (runner = "none" /\ runner' = "begin")
      BY <2>3, IdleSteps
    <3> QED BY <3>1 DEF StageInv, Counters, Ending, Ended
  <2>4. CASE StageStep
    BY <2>4, ReceiverKeepsStage, PrinterKeepsStage, RunnerKeepsStage DEF StageStep
  <2> QED BY <2>2, <2>3, <2>4 DEF Next, StageStep
<1> QED BY <1>1, <1>2, SessionTypes, JobsInvariant, PTL DEF Spec

\* A mutex is held from one step to the one that releases it, by one thread
\* (job_receiver.c:119-153, printer.c:62-116, 143-149).
THEOREM MutexInvariant == Spec => []MutexInv
<1>1. Init => MutexInv
  BY DEF Init, MutexInv
<1>2. SessionType /\ StageInv /\ MutexInv /\ [Next]_vars => MutexInv'
  <2> SUFFICES ASSUME SessionType, StageInv, MutexInv, [Next]_vars PROVE MutexInv'
    OBVIOUS
  <2>0. ppc \in [Printers -> {"none", "ready", "dequeued", "told", "printing", "departed", "over"}]
        /\ queue \in Nat
    BY DEF SessionType
  <2>1. CASE UNCHANGED <<rpc, ppc, queue, statsFree, jobsFree>>
    BY <2>1 DEF MutexInv
  <2>2. CASE RunnerStep
    <3>1. CASE StartPrinter
      <4>1. \A p \in Printers : ppc'[p] = ppc[p] \/ ppc'[p] = "ready"
        BY <2>0, <3>1 DEF StartPrinter
      <4>2. UNCHANGED <<rpc, queue, statsFree, jobsFree>>
        BY <3>1 DEF StartPrinter, receiverVars, stateVars
      <4> QED BY <4>1, <4>2 DEF MutexInv
    <3>2. CASE CreateReceiver
      <4>1. rpc' = "sleep" /\ UNCHANGED <<ppc, queue, statsFree, jobsFree>>
        BY <3>2 DEF CreateReceiver, printerVars, stateVars
      <4> QED BY <4>1 DEF MutexInv
    <3>3. CASE ~StartPrinter /\ ~CreateReceiver
      <4>1. UNCHANGED <<rpc, ppc, queue, statsFree, jobsFree>>
        BY <2>2, <3>3 DEF RunnerStep, PrintersStarted, StartScaler, JoinThreads, JoinScaler, Report,
                          ClearStats, SetIdle, receiverVars, printerVars, stateVars
      <4> QED BY <2>1, <4>1
    <3> QED BY <3>1, <3>2, <3>3
  <2>3. CASE ReceiverStep
    <3>1. ppc' = ppc
      BY <2>3 DEF ReceiverStep, printerVars
    <3>2. CASE JobArrives
      BY <3>1, <3>2 DEF JobArrives, ReceiverGoesTo, MutexInv
    <3>3. CASE ArrivalSent
      BY <3>1, <3>3 DEF ArrivalSent, ReceiverGoesTo, MutexInv
    <3>4. CASE DropJob \/ ReceiverLeaves
      BY <3>1, <3>4 DEF DropJob, ReceiverLeaves, ReceiverGoesTo, MutexInv, stateVars
    <3>5. CASE Enqueue
      <4>1. queue' > 0 /\ rpc' = "enqueued" /\ jobsFree /\ jobsFree' = FALSE /\ statsFree' = statsFree
        BY <2>0, <3>5 DEF Enqueue, ReceiverGoesTo
      <4> QED BY <3>1, <4>1 DEF MutexInv
    <3>6. CASE TellEnqueued
      BY <3>1, <3>6 DEF TellEnqueued, ReceiverGoesTo, MutexInv
    <3>7. CASE EnqueuedSent
      BY <3>1, <3>7 DEF EnqueuedSent, ReceiverGoesTo, MutexInv
    <3> QED BY <2>3, <3>2, <3>3, <3>4, <3>5, <3>6, <3>7 DEF ReceiverStep
  <2>4. ASSUME NEW p \in Printers, PrinterStep(p) PROVE MutexInv'
    <3>1. rpc' = rpc
      BY <2>4 DEF PrinterStep, receiverVars
    <3>2. \A at : PrinterGoesTo(p, ppc[p], at) =>
            \A q \in Printers : ppc'[q] = IF q = p THEN at ELSE ppc[q]
      BY <2>0 DEF PrinterGoesTo
    <3>3. CASE Dequeue(p)
      <4>1. /\ \A q \in Printers : ppc'[q] = IF q = p THEN "dequeued" ELSE ppc[q]
            /\ jobsFree /\ jobsFree' = FALSE /\ statsFree' = statsFree
        BY <3>2, <3>3 DEF Dequeue, PrinterGoesTo
      <4> QED BY <3>1, <4>1 DEF MutexInv
    <3>4. CASE TellDequeued(p)
      <4>1. /\ \A q \in Printers : ppc'[q] = IF q = p THEN "told" ELSE ppc[q]
            /\ ppc[p] = "dequeued" /\ UNCHANGED <<queue, jobsFree, statsFree>>
        BY <3>2, <3>4 DEF TellDequeued, PrinterGoesTo, stateVars
      <4> QED BY <3>1, <4>1 DEF MutexInv
    <3>5. CASE BeginPrinting(p)
      <4>1. /\ \A q \in Printers : ppc'[q] = IF q = p THEN "printing" ELSE ppc[q]
            /\ ppc[p] = "told" /\ jobsFree' = TRUE /\ UNCHANGED <<queue, statsFree>>
        BY <3>2, <3>5 DEF BeginPrinting, PrinterGoesTo
      <4> QED BY <3>1, <4>1 DEF MutexInv
    <3>6. CASE Depart(p)
      <4>1. /\ \A q \in Printers : ppc'[q] = IF q = p THEN "departed" ELSE ppc[q]
            /\ statsFree /\ statsFree' = FALSE /\ UNCHANGED <<queue, jobsFree>>
        BY <3>2, <3>6 DEF Depart, PrinterGoesTo
      <4> QED BY <3>1, <4>1 DEF MutexInv
    <3>7. CASE DepartureSent(p)
      <4>1. /\ \A q \in Printers : ppc'[q] = IF q = p THEN "ready" ELSE ppc[q]
            /\ ppc[p] = "departed" /\ statsFree' = TRUE /\ UNCHANGED <<queue, jobsFree>>
        BY <3>2, <3>7 DEF DepartureSent, PrinterGoesTo
      <4> QED BY <3>1, <4>1 DEF MutexInv
    <3>8. CASE PrinterLeaves(p)
      <4>1. /\ \A q \in Printers : ppc'[q] = IF q = p THEN "over" ELSE ppc[q]
            /\ UNCHANGED <<queue, jobsFree, statsFree>>
        BY <3>2, <3>8 DEF PrinterLeaves, PrinterGoesTo
      <4> QED BY <3>1, <4>1 DEF MutexInv
    <3> QED BY <2>4, <3>3, <3>4, <3>5, <3>6, <3>7, <3>8 DEF PrinterStep
  <2>5. CASE Boot \/ StartMessage \/ ScalerLeaves \/ UNCHANGED vars \/ ConnectionEvent \/ WakeupEvent
             \/ StartSimulation
    <3>1. UNCHANGED <<rpc, ppc, queue, statsFree, jobsFree>>
      BY <2>5, IdleSteps DEF sessionVars, threadVars
    <3> QED BY <2>1, <3>1
  <2> QED BY <2>2, <2>3, <2>4, <2>5 DEF Next
<1> QED BY <1>1, <1>2, SessionTypes, StageInvariant, PTL DEF Spec

\* What a thread that sends, or writes, has at hand before and after.
Only(t) == \A s \in Threads : s # t => sending'[s] = sending[s]

LEMMA SendSteps ==
  ASSUME SessionType, ConnectionInv, [Next]_vars
  PROVE  \/ sending' = sending /\ UNCHANGED <<pipe, shown, wsConnId, lost>> /\ watcher' = watcher
         \/ ConnectionEvent \/ WakeupEvent \/ StartSimulation
         \/ \E t \in Threads, kind \in {"stats_update", "simulation_complete"} :
              /\ Only(t) /\ sending'[t].kind = kind /\ sending'[t].to = wsConnId
              /\ UNCHANGED <<pipe, shown, wsConnId, lost, watcher>>
              /\ \/ t = Receiver /\ rpc' \in {"arrival", "told"} /\ kind = "stats_update"
                 \/ t \in Printers /\ ppc'[t] \in {"told", "departed"} /\ kind = "stats_update"
                 \/ t = Runner /\ runner' = "clearStats" /\ kind = "simulation_complete"
         \/ \E t \in Threads :
              /\ mg_wakeup(t) /\ UNCHANGED watcher
              /\ \/ t = Receiver /\ (ArrivalSent \/ EnqueuedSent)
                 \/ t \in Printers /\ (BeginPrinting(t) \/ DepartureSent(t))
                 \/ t = Runner /\ ClearStats
<1> USE ThreadNumbers
<1>0. /\ sending \in [Threads -> Frames \cup {NoFrame}]
      /\ ppc \in [Printers -> {"none", "ready", "dequeued", "told", "printing", "departed", "over"}]
      /\ stats \in Counts /\ queue \in Nat
  BY DEF SessionType
<1>1. ASSUME NEW t \in Threads, NEW kind, NEW data, BeginSend(t, kind, data)
      PROVE  Only(t) /\ sending'[t].kind = kind /\ sending'[t].to = wsConnId
  BY <1>0, <1>1 DEF BeginSend, Only
<1>2. CASE Boot \/ StartMessage \/ ScalerLeaves \/ UNCHANGED vars
  BY <1>2, IdleSteps DEF sessionVars
<1>3. CASE RunnerStep
  <2>0. watcher' = watcher
    BY <1>3 DEF RunnerStep
  <2>1. CASE Report
    <3>1. BeginSend(Runner, "simulation_complete", NoStats) /\ runner' = "clearStats"
          /\ UNCHANGED <<pipe, shown, wsConnId, lost>>
      BY <2>1 DEF Report, RunnerGoesTo, BridgeUnchangedButSending
    <3> QED BY <1>1, <2>0, <3>1
  <2>2. CASE ClearStats
    BY <2>0, <2>2 DEF ClearStats
  <2>3. CASE ~Report /\ ~ClearStats
    BY <1>3, <2>0, <2>3 DEF RunnerStep, CreateReceiver, StartPrinter, PrintersStarted, StartScaler,
                            JoinThreads,
                            JoinScaler, SetIdle, bridgeVars
  <2> QED BY <2>1, <2>2, <2>3
<1>4. CASE ReceiverStep
  <2>0. watcher' = watcher
    BY <1>4 DEF ReceiverStep, historyVars
  <2>1. CASE JobArrives \/ TellEnqueued
    <3>1. /\ \E s : StatsUpdate(Receiver, s, queue)
          /\ rpc' \in {"arrival", "told"} /\ UNCHANGED <<pipe, shown, wsConnId, lost>>
      BY <2>1 DEF JobArrives, TellEnqueued, ReceiverGoesTo, BridgeUnchangedButSending
    <3> QED BY <1>1, <2>0, <3>1 DEF StatsUpdate
  <2>2. CASE ArrivalSent \/ EnqueuedSent
    <3>1. mg_wakeup(Receiver)
      BY <2>2 DEF ArrivalSent, EnqueuedSent
    <3>2. \E t \in Threads :
            /\ mg_wakeup(t) /\ UNCHANGED watcher
            /\ \/ t = Receiver /\ (ArrivalSent \/ EnqueuedSent)
               \/ t \in Printers /\ (BeginPrinting(t) \/ DepartureSent(t))
               \/ t = Runner /\ ClearStats
      <4> WITNESS Receiver \in Threads
      <4> QED BY <2>0, <2>2, <3>1
    <3> QED BY <3>2
  <2>3. CASE DropJob \/ Enqueue \/ ReceiverLeaves
    BY <2>0, <2>3 DEF DropJob, Enqueue, ReceiverLeaves, bridgeVars
  <2> QED BY <1>4, <2>1, <2>2, <2>3 DEF ReceiverStep
<1>5. ASSUME NEW p \in Printers, PrinterStep(p)
      PROVE  \/ sending' = sending /\ UNCHANGED <<pipe, shown, wsConnId, lost>> /\ watcher' = watcher
             \/ \E kind \in {"stats_update"} :
                  /\ Only(p) /\ sending'[p].kind = kind /\ sending'[p].to = wsConnId
                  /\ UNCHANGED <<pipe, shown, wsConnId, lost, watcher>>
                  /\ ppc'[p] \in {"told", "departed"}
             \/ mg_wakeup(p) /\ UNCHANGED watcher /\ (BeginPrinting(p) \/ DepartureSent(p))
  <2>0. watcher' = watcher
    BY <1>5 DEF PrinterStep, historyVars
  <2>1. CASE TellDequeued(p) \/ Depart(p)
    <3>1. /\ \E s : StatsUpdate(p, s, queue)
          /\ ppc'[p] \in {"told", "departed"} /\ UNCHANGED <<pipe, shown, wsConnId, lost>>
      BY <1>0, <2>1 DEF TellDequeued, Depart, PrinterGoesTo, BridgeUnchangedButSending
    <3>2. p \in Threads
      OBVIOUS
    <3> QED BY <1>1, <2>0, <3>1, <3>2 DEF StatsUpdate
  <2>2. CASE BeginPrinting(p) \/ DepartureSent(p)
    BY <2>0, <2>2 DEF BeginPrinting, DepartureSent
  <2>3. CASE Dequeue(p) \/ PrinterLeaves(p)
    BY <2>0, <2>3 DEF Dequeue, PrinterLeaves, bridgeVars
  <2> QED BY <1>5, <2>1, <2>2, <2>3 DEF PrinterStep
<1> QED BY <1>2, <1>3, <1>4, <1>5 DEF Next

\* A thread has a frame at hand between the step that addresses it and the one
\* that writes it (ws_bridge_send_json_from_any_thread).
THEOREM SendInvariant == Spec => []SendInv
<1> USE ThreadNumbers
<1>1. Init => SendInv
  BY DEF Init, BridgeInit, SendInv
<1>2. SessionType /\ ConnectionInv /\ StageInv /\ SendInv /\ [Next]_vars => SendInv'
  <2> SUFFICES ASSUME SessionType, ConnectionInv, StageInv, SendInv, [Next]_vars PROVE SendInv'
    OBVIOUS
  <2>0. /\ sending \in [Threads -> Frames \cup {NoFrame}]
        /\ ppc \in [Printers -> {"none", "ready", "dequeued", "told", "printing", "departed", "over"}]
        /\ stats \in Counts /\ queue \in Nat
    BY DEF SessionType
  <2>1. ASSUME NEW t \in Threads, NEW kind, NEW data, BeginSend(t, kind, data)
        PROVE  Only(t) /\ sending'[t].kind = kind
    BY <2>0, <2>1 DEF BeginSend, Only
  <2>2. ASSUME NEW t \in Threads, mg_wakeup(t)
        PROVE  Only(t) /\ sending'[t] = NoFrame
    BY <2>0, <2>2, WakeupWrites DEF Only
  <2>3. CASE UNCHANGED <<sending, rpc, ppc, runner>>
    BY <2>3 DEF SendInv
  <2>4. CASE RunnerStep
    <3>1. \A p \in Printers : ppc'[p] = ppc[p] \/ ppc[p] \notin {"told", "departed"}
      <4>1. CASE StartPrinter
        <5>1. \A p \in Printers : p = created + 1 => ppc[p] = "none"
          <6> TAKE p \in Printers
          <6>1. created \in Nat
            BY DEF SessionType
          <6>2. p = created + 1 => p > created
            BY <6>1
          <6> QED BY <6>2 DEF StageInv
        <5> QED BY <2>0, <4>1, <5>1 DEF StartPrinter
      <4>2. CASE ~StartPrinter
        <5>1. ppc' = ppc
          BY <2>4, <4>2 DEF RunnerStep, CreateReceiver, PrintersStarted, StartScaler, JoinThreads,
                            JoinScaler,
                            Report, ClearStats, SetIdle, printerVars
        <5> QED BY <5>1
      <4> QED BY <4>1, <4>2
    <3>2. rpc' = rpc \/ rpc = "none"
      BY <2>4 DEF RunnerStep, CreateReceiver, StartPrinter, PrintersStarted, StartScaler,
                  JoinThreads,
                  JoinScaler, Report, ClearStats, SetIdle, receiverVars, RunnerGoesTo, StageInv
    <3>3. \/ sending'[Runner] = NoFrame
          \/ runner' = "clearStats" /\ sending'[Runner].kind = "simulation_complete"
      <4>1. CASE Report
        BY <2>1, <4>1 DEF Report, RunnerGoesTo
      <4>2. CASE ClearStats
        BY <2>2, <4>2 DEF ClearStats
      <4>3. CASE ~Report /\ ~ClearStats
        <5>1. sending' = sending /\ runner # "clearStats"
          BY <2>4, <4>3 DEF RunnerStep, CreateReceiver, StartPrinter, PrintersStarted, StartScaler,
                            JoinThreads,
                            JoinScaler, SetIdle, bridgeVars, RunnerGoesTo
        <5> QED BY <5>1 DEF SendInv
      <4> QED BY <4>1, <4>2, <4>3
    <3>4. Only(Runner)
      <4>1. CASE Report
        BY <2>1, <4>1 DEF Report
      <4>2. CASE ClearStats
        BY <2>2, <4>2 DEF ClearStats
      <4>3. CASE ~Report /\ ~ClearStats
        BY <2>4, <4>3 DEF RunnerStep, CreateReceiver, StartPrinter, PrintersStarted, StartScaler,
                          JoinThreads,
                          JoinScaler, SetIdle, bridgeVars, Only
      <4> QED BY <4>1, <4>2, <4>3
    <3> QED BY <3>1, <3>2, <3>3, <3>4 DEF SendInv, Only
  <2>5. CASE ReceiverStep
    <3>1. UNCHANGED <<ppc, runner>>
      BY <2>5 DEF ReceiverStep, printerVars, runnerVars
    <3>2. Only(Receiver) /\ \/ sending'[Receiver] = NoFrame
                            \/ rpc' \in {"arrival", "told"} /\ sending'[Receiver].kind = "stats_update"
      <4>1. CASE JobArrives \/ TellEnqueued
        <5>1. (\E s : StatsUpdate(Receiver, s, queue)) /\ rpc' \in {"arrival", "told"}
          BY <4>1 DEF JobArrives, TellEnqueued, ReceiverGoesTo
        <5> QED BY <2>1, <5>1 DEF StatsUpdate
      <4>2. CASE ArrivalSent \/ EnqueuedSent
        <5>1. mg_wakeup(Receiver)
          BY <4>2 DEF ArrivalSent, EnqueuedSent
        <5> QED BY <2>2, <5>1
      <4>3. CASE DropJob \/ Enqueue \/ ReceiverLeaves
        <5>1. sending' = sending /\ rpc \notin {"arrival", "told"}
          BY <4>3 DEF DropJob, Enqueue, ReceiverLeaves, ReceiverGoesTo, bridgeVars
        <5> QED BY <5>1 DEF SendInv, Only
      <4> QED BY <2>5, <4>1, <4>2, <4>3 DEF ReceiverStep
    <3> QED BY <3>1, <3>2 DEF SendInv, Only
  <2>6. ASSUME NEW p \in Printers, PrinterStep(p) PROVE SendInv'
    <3>0. p \in Threads
      OBVIOUS
    <3>1. UNCHANGED <<rpc, runner>> /\ \A q \in Printers : q # p => ppc'[q] = ppc[q]
      BY <2>0, <2>6 DEF PrinterStep, receiverVars, runnerVars, Dequeue, TellDequeued,
                        BeginPrinting, Depart,
                        DepartureSent, PrinterLeaves, PrinterGoesTo
    <3>2. Only(p) /\ \/ sending'[p] = NoFrame
                     \/ ppc'[p] \in {"told", "departed"} /\ sending'[p].kind = "stats_update"
      <4>1. CASE TellDequeued(p) \/ Depart(p)
        <5>1. (\E s : StatsUpdate(p, s, queue)) /\ ppc'[p] \in {"told", "departed"}
          BY <2>0, <4>1 DEF TellDequeued, Depart, PrinterGoesTo
        <5> QED BY <2>1, <3>0, <5>1 DEF StatsUpdate
      <4>2. CASE BeginPrinting(p) \/ DepartureSent(p)
        <5>1. mg_wakeup(p)
          BY <4>2 DEF BeginPrinting, DepartureSent
        <5> QED BY <2>2, <3>0, <5>1
      <4>3. CASE Dequeue(p) \/ PrinterLeaves(p)
        <5>1. sending' = sending /\ ppc[p] = "ready"
          BY <4>3 DEF Dequeue, PrinterLeaves, PrinterGoesTo, bridgeVars
        <5> QED BY <3>0, <5>1 DEF SendInv, Only
      <4> QED BY <2>6, <4>1, <4>2, <4>3 DEF PrinterStep
    <3> QED BY <3>0, <3>1, <3>2 DEF SendInv, Only
  <2>7. CASE Boot \/ StartMessage \/ ScalerLeaves \/ UNCHANGED vars \/ ConnectionEvent \/ WakeupEvent
    <3>1. UNCHANGED <<sending, rpc, ppc, runner>>
      BY <2>7, IdleSteps DEF sessionVars, threadVars
    <3> QED BY <2>3, <3>1
  <2>8. CASE StartSimulation
    <3>1. UNCHANGED <<sending, rpc, ppc>> /\ (runner' = runner \/ runner = "none")
      BY <2>8, IdleSteps
    <3> QED BY <3>1 DEF SendInv
  <2> QED BY <2>4, <2>5, <2>6, <2>7, <2>8 DEF Next
<1> QED BY <1>1, <1>2, SessionTypes, ConnectionInvariant, StageInvariant, PTL DEF Spec

\* The watcher is the active connection, and what is under way is for it.
THEOREM WatchInvariant == Spec => []WatchInv
<1> USE ThreadNumbers
<1>1. Init => WatchInv
  BY DEF Init, BridgeInit, WatchInv
<1>2. SessionType /\ ConnectionInv /\ StageInv /\ SendInv /\ WatchInv /\ [Next]_vars => WatchInv'
  <2> SUFFICES ASSUME SessionType, ConnectionInv, StageInv, SendInv, WatchInv,
  [Next]_vars PROVE WatchInv'
    OBVIOUS
  <2>0. /\ sending \in [Threads -> Frames \cup {NoFrame}] /\ pipe \in Seq(Frames)
        /\ \A t \in Threads : sending[t] \in Frames => sending[t] # NoFrame
    <3>1. \A f \in Frames : f.kind # "none"
      BY DEF Frames
    <3>2. NoFrame.kind = "none"
      BY DEF NoFrame
    <3> QED BY <3>1, <3>2 DEF SessionType
  <2>1. runner' = "none" => runner = "none"
    BY IdleSteps DEF Next, sessionVars, threadVars, RunnerStep, CreateReceiver, StartPrinter,
                     PrintersStarted,
                     StartScaler, JoinThreads, JoinScaler, Report, ClearStats, SetIdle,
                     RunnerGoesTo,
                     ReceiverStep, PrinterStep, runnerVars
  <2>2. CASE sending' = sending /\ UNCHANGED <<pipe, shown, wsConnId, lost>> /\ watcher' = watcher
    BY <2>1, <2>2 DEF WatchInv
  <2>3. CASE ConnectionEvent
    <3>1. /\ UNCHANGED <<sending, pipe, runner>>
          /\ watcher' = IF wsConnId' = watcher THEN watcher ELSE NoConnection
      BY <2>3, IdleSteps DEF ConnectionEvent, threadVars
    <3> QED BY <3>1 DEF WatchInv
  <2>4. CASE WakeupEvent
    <3>1. UNCHANGED <<sending, wsConnId, watcher>> /\ pipe # <<>> /\ pipe' = Tail(pipe)
      BY <2>4, IdleSteps, DeliveryShows
    <3>2. \A i \in 1..Len(pipe') : pipe'[i] = pipe[i + 1] /\ i + 1 \in 1..Len(pipe)
      BY <2>0, <3>1
    <3> QED BY <2>1, <3>1, <3>2 DEF WatchInv
  <2>5. CASE StartSimulation
    <3>1. /\ UNCHANGED <<sending, pipe, wsConnId>>
          /\ (runner' = runner /\ watcher' = watcher)
             \/ (runner = "none" /\ runner' = "begin" /\ watcher' = wsConnId)
      BY <2>5, IdleSteps
    <3>2. runner = "none" => Len(pipe) = 0
      BY DEF WatchInv
    <3> QED BY <3>1, <3>2 DEF WatchInv
  <2>6. ASSUME NEW t \in Threads, Only(t), sending'[t].to = wsConnId,
               UNCHANGED <<pipe, wsConnId, watcher>>, runner' # "none"
        PROVE  WatchInv'
    BY <2>6 DEF WatchInv, Only
  <2>7. ASSUME NEW t \in Threads, mg_wakeup(t), UNCHANGED watcher, runner' # "none"
        PROVE  WatchInv'
    <3>1. /\ sending[t] \in Frames /\ sending' = [sending EXCEPT ![t] = NoFrame]
          /\ wsConnId' = wsConnId
          /\ pipe' = pipe \/ pipe' = Append(pipe, sending[t])
      BY <2>7, WakeupWrites
    <3>2. watcher # NoConnection => sending[t].to = watcher
      BY <2>0, <3>1 DEF WatchInv
    <3>3. watcher # NoConnection => \A i \in 1..Len(pipe') : pipe'[i].to = watcher
      <4>1. CASE pipe' = pipe
        BY <4>1 DEF WatchInv
      <4>2. CASE pipe' = Append(pipe, sending[t])
        <5>1. \A i \in 1..Len(pipe') : (i \in 1..Len(pipe) /\ pipe'[i] = pipe[i]) \/ pipe'[i] = sending[t]
          BY <2>0, <3>1, <4>2
        <5> QED BY <3>2, <5>1 DEF WatchInv
      <4> QED BY <3>1, <4>1, <4>2
    <3> QED BY <2>0, <2>7, <3>1, <3>3 DEF WatchInv
  <2>9. ASSUME RunnerStep \/ ReceiverStep \/ \E p \in Printers : PrinterStep(p)
        PROVE  runner' # "none"
    <3>1. CASE RunnerStep
      BY <3>1 DEF RunnerStep, CreateReceiver, StartPrinter, PrintersStarted,
                  StartScaler, JoinThreads, JoinScaler, Report, ClearStats, SetIdle, RunnerGoesTo
    <3>2. CASE ReceiverStep
      <4>1. rpc # "none"
        BY <3>2 DEF ReceiverStep, JobArrives, ArrivalSent, DropJob, Enqueue, TellEnqueued,
                    EnqueuedSent,
               ReceiverLeaves, ReceiverGoesTo
      <4>2. runner # "none" /\ runner' = runner
        BY <3>2, <4>1 DEF ReceiverStep, runnerVars, StageInv
      <4> QED BY <4>2
    <3>3. ASSUME NEW p \in Printers, PrinterStep(p) PROVE runner' # "none"
      <4>1. ppc[p] # "none" /\ runner' = runner
        BY <3>3 DEF PrinterStep, Dequeue, TellDequeued, BeginPrinting, Depart, DepartureSent,
                    PrinterLeaves,
                    PrinterGoesTo, runnerVars
      <4>2. p > 0
        BY DEF Printers
      <4> QED BY <4>1, <4>2 DEF StageInv
    <3> QED BY <2>9, <3>1, <3>2, <3>3
  <2>10. CASE RunnerStep \/ ReceiverStep \/ \E p \in Printers : PrinterStep(p)
    <3>1. runner' # "none"
      BY <2>9, <2>10
    <3>2. CASE \E t \in Threads, kind \in {"stats_update", "simulation_complete"} :
                 /\ Only(t) /\ sending'[t].kind = kind /\ sending'[t].to = wsConnId
                 /\ UNCHANGED <<pipe, shown, wsConnId, lost, watcher>>
      BY <2>6, <3>1, <3>2
    <3>3. CASE \E t \in Threads : mg_wakeup(t) /\ UNCHANGED watcher
      BY <2>7, <3>1, <3>3
    <3> HIDE DEF Only
    <3> QED BY <2>2, <2>3, <2>4, <2>5, <3>2, <3>3, SendSteps
  <2>11. CASE Boot \/ StartMessage \/ ScalerLeaves \/ UNCHANGED vars
    BY <2>2, <2>11, IdleSteps DEF sessionVars
  <2> QED BY <2>3, <2>4, <2>5, <2>10, <2>11 DEF Next
<1> QED BY <1>1, <1>2, SessionTypes, ConnectionInvariant, StageInvariant, SendInvariant,
           PTL DEF Spec

\* While a thread holds the statistics mutex the counters stay as they are, and
\* a printer that has a job does not finish with it (printer.c:143-149).
LEMMA FreshStays ==
  ASSUME SessionType, StageInv, [Next]_vars, ~statsFree, runner \notin Ending, NEW d, Fresh(d)
  PROVE  Fresh(d)'
<1>0. /\ ppc \in [Printers -> {"none", "ready", "dequeued", "told", "printing", "departed", "over"}]
      /\ queue \in Nat /\ created \in Nat
  BY DEF SessionType
<1>1. CASE UNCHANGED <<stats, queue, ppc>>
  BY <1>1 DEF Fresh, Busy
<1>2. CASE RunnerStep
  <2>1. UNCHANGED <<stats, queue>>
    BY <1>2 DEF RunnerStep, CreateReceiver, StartPrinter, PrintersStarted, StartScaler, JoinThreads,
                JoinScaler, Report, ClearStats, SetIdle, RunnerGoesTo, stateVars, Ending
  <2>2. \A p \in Printers : Busy(p) => ppc'[p] = ppc[p]
    <3>1. CASE StartPrinter
      <4>1. \A p \in Printers : p = created + 1 => ppc[p] = "none"
        <5> TAKE p \in Printers
        <5>1. p = created + 1 => p > created
          BY <1>0
        <5> QED BY <5>1 DEF StageInv
      <4> QED BY <3>1, <4>1 DEF StartPrinter, Busy
    <3>2. CASE ~StartPrinter
      BY <1>2, <3>2 DEF RunnerStep, CreateReceiver, PrintersStarted, StartScaler, JoinThreads,
                        JoinScaler, Report, ClearStats, SetIdle, printerVars
    <3> QED BY <3>1, <3>2
  <2> QED BY <2>1, <2>2 DEF Fresh, Busy
<1>3. CASE ReceiverStep
  <2>1. ppc' = ppc /\ stats' = stats /\ (queue' = queue \/ queue' = queue + 1)
    BY <1>3 DEF ReceiverStep, JobArrives, ArrivalSent, DropJob, Enqueue, TellEnqueued, EnqueuedSent,
                ReceiverLeaves, stateVars, printerVars
  <2>2. queue' = 0 => queue = 0
    BY <1>0, <2>1
  <2> QED BY <2>1, <2>2 DEF Fresh, Busy
<1>4. ASSUME NEW p \in Printers, PrinterStep(p) PROVE Fresh(d)'
  <2>1. CASE Dequeue(p)
    <3>1. stats' = stats /\ ppc'[p] = "dequeued"
      BY <1>0, <2>1 DEF Dequeue, PrinterGoesTo
    <3> QED BY <3>1 DEF Fresh, Busy
  <2>2. CASE ~Dequeue(p)
    <3>1. /\ UNCHANGED <<stats, queue>>
          /\ \A q \in Printers : Busy(q) => ppc'[q] \in {"dequeued", "told", "printing"}
      BY <1>0, <1>4, <2>2 DEF PrinterStep, TellDequeued, BeginPrinting, Depart, DepartureSent,
                              PrinterLeaves,
                              PrinterGoesTo, stateVars, Busy
    <3> QED BY <3>1 DEF Fresh, Busy
  <2> QED BY <2>1, <2>2
<1>5. CASE Boot \/ StartMessage \/ ScalerLeaves \/ UNCHANGED vars \/ ConnectionEvent \/ WakeupEvent
           \/ StartSimulation
  <2>1. UNCHANGED <<stats, queue, ppc>>
    BY <1>5, IdleSteps DEF sessionVars, threadVars
  <2> QED BY <1>1, <2>1
<1> QED BY <1>2, <1>3, <1>4, <1>5 DEF Next

\* A thread that has addressed a frame and not written it still has it.
LEMMA FrameStays ==
  ASSUME SessionType, [Next]_vars, NEW t \in Threads, sending[t] # NoFrame,
         t # Runner,
         t = Receiver => rpc = "arrival" /\ rpc' = "arrival",
         t \in Printers => ppc[t] = "departed" /\ ppc'[t] = "departed"
  PROVE  sending'[t] = sending[t]
<1> USE ThreadNumbers
<1>0. /\ sending \in [Threads -> Frames \cup {NoFrame}]
      /\ ppc \in [Printers -> {"none", "ready", "dequeued", "told", "printing", "departed", "over"}]
  BY DEF SessionType
<1>1. ASSUME NEW s \in Threads, NEW kind, NEW data, s # t, BeginSend(s, kind, data)
      PROVE  sending'[t] = sending[t]
  BY <1>0, <1>1 DEF BeginSend
<1>2. ASSUME NEW s \in Threads, s # t, mg_wakeup(s)
      PROVE  sending'[t] = sending[t]
  BY <1>0, <1>2 DEF mg_wakeup
<1>3. CASE RunnerStep
  <2>1. CASE Report
    BY <1>1, <2>1 DEF Report
  <2>2. CASE ClearStats
    BY <1>2, <2>2 DEF ClearStats
  <2>3. CASE ~Report /\ ~ClearStats
    BY <1>3, <2>3 DEF RunnerStep, CreateReceiver, StartPrinter, PrintersStarted, StartScaler,
                      JoinThreads,
                      JoinScaler, SetIdle, bridgeVars
  <2> QED BY <2>1, <2>2, <2>3
<1>4. CASE ReceiverStep
  <2>1. CASE t = Receiver
    BY <1>4, <2>1 DEF ReceiverStep, JobArrives, ArrivalSent, DropJob, Enqueue, TellEnqueued,
                      EnqueuedSent,
                      ReceiverLeaves, ReceiverGoesTo
  <2>2. CASE t # Receiver
    <3>1. CASE JobArrives \/ TellEnqueued
      BY <1>1, <2>2, <3>1 DEF JobArrives, TellEnqueued, StatsUpdate
    <3>2. CASE ArrivalSent \/ EnqueuedSent
      BY <1>2, <2>2, <3>2 DEF ArrivalSent, EnqueuedSent
    <3>3. CASE DropJob \/ Enqueue \/ ReceiverLeaves
      BY <3>3 DEF DropJob, Enqueue, ReceiverLeaves, bridgeVars
    <3> QED BY <1>4, <3>1, <3>2, <3>3 DEF ReceiverStep
  <2> QED BY <2>1, <2>2
<1>5. ASSUME NEW p \in Printers, PrinterStep(p) PROVE sending'[t] = sending[t]
  <2>0. p \in Threads
    OBVIOUS
  <2>1. p # t
    BY <1>0, <1>5 DEF PrinterStep, Dequeue, TellDequeued, BeginPrinting, Depart, DepartureSent,
                      PrinterLeaves, PrinterGoesTo
  <2>2. CASE TellDequeued(p) \/ Depart(p)
    BY <1>1, <2>0, <2>1, <2>2 DEF TellDequeued, Depart, StatsUpdate
  <2>3. CASE BeginPrinting(p) \/ DepartureSent(p)
    BY <1>2, <2>0, <2>1, <2>3 DEF BeginPrinting, DepartureSent
  <2>4. CASE Dequeue(p) \/ PrinterLeaves(p)
    BY <2>4 DEF Dequeue, PrinterLeaves, bridgeVars
  <2> QED BY <1>5, <2>2, <2>3, <2>4 DEF PrinterStep
<1>6. CASE Boot \/ StartMessage \/ ScalerLeaves \/ UNCHANGED vars \/ ConnectionEvent \/ WakeupEvent
           \/ StartSimulation
  BY <1>6, IdleSteps DEF sessionVars
<1> QED BY <1>3, <1>4, <1>5, <1>6 DEF Next

\* The frames addressed with the statistics mutex held show the counters as
\* they are (job_receiver.c:79-85, printer.c:143-149).
THEOREM FreshInvariant == Spec => []FreshInv
<1> USE ThreadNumbers
<1>1. Init => FreshInv
  BY DEF Init, FreshInv
<1>2. SessionType /\ ConnectionInv /\ StageInv /\ MutexInv /\ FreshInv /\ [Next]_vars => FreshInv'
  <2> SUFFICES ASSUME SessionType, ConnectionInv, StageInv, MutexInv, FreshInv,
  [Next]_vars PROVE FreshInv'
    OBVIOUS
  <2>0. /\ ppc \in [Printers -> {"none", "ready", "dequeued", "told", "printing", "departed", "over"}]
        /\ stats \in Counts /\ queue \in Nat /\ created \in Nat
    BY DEF SessionType
  <2>1. ASSUME NEW t \in Threads, NEW s \in Counts, s = stats', queue' = queue, StatsUpdate(t, s, queue)
        PROVE  sending'[t] # NoFrame /\ Fresh(sending[t].data)'
    <3>1. PICK u \in Updates : u = [arrived |-> s.arrived, served |-> s.served, queue |-> queue]
      BY <2>0 DEF Counts, Updates
    <3>2. BeginSend(t, "stats_update", u)
      BY <2>1, <3>1 DEF StatsUpdate
    <3>3. sending'[t] # NoFrame /\ sending'[t].data = u
      BY <3>2, BeginSendKeeps
    <3>4. u.arrived = s.arrived /\ u.served = s.served /\ u.queue = queue
      BY <3>1
    <3> QED BY <2>1, <3>3, <3>4 DEF Fresh
  <2>2. ASSUME rpc' = "arrival" PROVE sending'[Receiver] # NoFrame /\ Fresh(sending[Receiver].data)'
    <3>1. CASE rpc = "arrival"
      <4>1. ~statsFree /\ runner \notin Ending /\ sending[Receiver] # NoFrame
            /\ Fresh(sending[Receiver].data)
        BY <3>1 DEF MutexInv, StageInv, FreshInv
      <4>2. sending'[Receiver] = sending[Receiver]
        BY <2>2, <3>1, <4>1, FrameStays
      <4>4. PICK d : d = sending[Receiver].data
        OBVIOUS
      <4>5. Fresh(d)'
        BY <4>1, <4>4, FreshStays
      <4> QED BY <4>1, <4>2, <4>4, <4>5 DEF Fresh
    <3>2. CASE rpc # "arrival"
      <4>1. JobArrives
        BY <2>2, <3>2, IdleSteps
        DEF Next, RunnerStep, CreateReceiver, StartPrinter, PrintersStarted, StartScaler,
        JoinThreads,
            JoinScaler, Report, ClearStats, SetIdle, receiverVars, sessionVars, threadVars,
            PrinterStep,
            ReceiverStep, JobArrives, ArrivalSent, DropJob, Enqueue, TellEnqueued, EnqueuedSent,
            ReceiverLeaves, ReceiverGoesTo
      <4>2. PICK n \in Nat : n = stats.arrived + 1
        BY <2>0 DEF Counts
      <4>3. stats' = [stats EXCEPT !.arrived = n]
        BY <4>1, <4>2 DEF JobArrives
      <4>4. PICK s \in Counts : s = stats'
        BY <2>0, <4>3 DEF Counts
      <4>5. StatsUpdate(Receiver, s, queue) /\ queue' = queue
        BY <4>1, <4>4 DEF JobArrives
      <4> QED BY <2>1, <4>4, <4>5
    <3> QED BY <3>1, <3>2
  <2>3. ASSUME NEW p \in Printers, ppc'[p] = "departed"
        PROVE  sending'[p] # NoFrame /\ Fresh(sending[p].data)'
    <3>0. p \in Threads /\ p # Runner /\ p # Receiver
      OBVIOUS
    <3>1. CASE ppc[p] = "departed"
      <4>1. ~statsFree /\ runner \notin Ending /\ sending[p] # NoFrame /\ Fresh(sending[p].data)
        BY <3>1 DEF MutexInv, StageInv, FreshInv
      <4>2. sending'[p] = sending[p]
        BY <2>3, <3>0, <3>1, <4>1, FrameStays
      <4>4. PICK d : d = sending[p].data
        OBVIOUS
      <4>5. Fresh(d)'
        BY <4>1, <4>4, FreshStays
      <4> QED BY <4>1, <4>2, <4>4, <4>5 DEF Fresh
    <3>2. CASE ppc[p] # "departed"
      <4>1. Depart(p)
        <5>1. CASE RunnerStep
          BY <2>0, <2>3, <3>2, <5>1
          DEF RunnerStep, CreateReceiver, StartPrinter, PrintersStarted, StartScaler, JoinThreads,
              JoinScaler, Report, ClearStats, SetIdle, printerVars
        <5>2. ASSUME NEW q \in Printers, PrinterStep(q) PROVE Depart(p)
          BY <2>0, <2>3, <3>2, <5>2
          DEF PrinterStep, Dequeue, TellDequeued, BeginPrinting, Depart, DepartureSent,
          PrinterLeaves,
              PrinterGoesTo
        <5>3. CASE ReceiverStep
          BY <2>3, <3>2, <5>3 DEF ReceiverStep, printerVars
        <5> QED BY <2>3, <3>2, <5>1, <5>2, <5>3, IdleSteps DEF Next, sessionVars, threadVars
      <4>2. PICK n \in Nat : n = stats.served + 1
        BY <2>0 DEF Counts
      <4>3. stats' = [stats EXCEPT !.served = n]
        BY <4>1, <4>2 DEF Depart
      <4>4. PICK s \in Counts : s = stats'
        BY <2>0, <4>3 DEF Counts
      <4>5. StatsUpdate(p, s, queue) /\ queue' = queue
        BY <4>1, <4>4 DEF Depart
      <4> QED BY <2>1, <3>0, <4>4, <4>5
    <3> QED BY <3>1, <3>2
  <2> QED BY <2>2, <2>3 DEF FreshInv
<1> QED BY <1>1, <1>2, SessionTypes, ConnectionInvariant, StageInvariant, MutexInvariant,
           PTL DEF Spec

\* When the run has ended nobody has a frame to write, so that a thread writes
\* one only before (server.c:227-238).
LEMMA NobodySends ==
  ASSUME SessionType, StageInv, SendInv, runner \in Ended, NEW t \in Threads
  PROVE  sending[t] = NoFrame
<1>1. rpc = "done" /\ \A p \in Printers : ppc[p] \in {"none", "over"}
  BY DEF StageInv, Ending, Ended
<1> QED BY <1>1 DEF SendInv, Ended

\* The message that the simulation is complete is the last the client gets.
THEOREM CompleteInvariant == Spec => []CompleteInv
<1> USE ThreadNumbers
<1>1. Init => CompleteInv
  BY DEF Init, BridgeInit, Nothing, CompleteInv, Ended
<1>2. /\ SessionType /\ ConnectionInv /\ StageInv /\ SendInv /\ WatchInv /\ CompleteInv /\ [Next]_vars
      => CompleteInv'
  <2> SUFFICES ASSUME SessionType, ConnectionInv, StageInv, SendInv, WatchInv, CompleteInv,
  [Next]_vars
               PROVE  CompleteInv'
    OBVIOUS
  <2>0. /\ pipe \in Seq(Frames)
        /\ shown \in [Connections -> [update : Updates \cup {<<>>}, complete : BOOLEAN]]
    BY DEF SessionType
  <2>1. runner \in Ended => runner' \in Ended
    BY IdleSteps
    DEF Next, sessionVars, threadVars, RunnerStep, CreateReceiver, StartPrinter, PrintersStarted,
        StartScaler, JoinThreads, JoinScaler, Report, ClearStats, SetIdle, RunnerGoesTo,
        ReceiverStep, PrinterStep, runnerVars, Ended
  <2>2. CASE UNCHANGED <<pipe, shown>>
    BY <2>1, <2>2 DEF CompleteInv
  <2>3. CASE ConnectionEvent
    <3>1. UNCHANGED <<pipe, runner>>
      BY <2>3, IdleSteps DEF threadVars
    <3>2. \A c \in Connections : shown'[c].complete => shown[c].complete
      <4>1. shown' = shown \/ \E c \in Connections : shown' = [shown EXCEPT ![c] = Nothing]
        BY <2>3 DEF ConnectionEvent, WsOpen, Close
      <4>2. ~Nothing.complete
        BY DEF Nothing
      <4> HIDE DEF Nothing
      <4> QED BY <2>0, <4>1, <4>2
    <3> QED BY <3>1, <3>2 DEF CompleteInv
  <2>4. CASE WakeupEvent
    <3>1. /\ runner' = runner /\ pipe # <<>> /\ pipe' = Tail(pipe)
          /\ \A c \in Connections :
               shown'[c].complete => shown[c].complete \/ Head(pipe).kind # "stats_update"
      BY <2>4, IdleSteps, DeliveryShows DEF threadVars
    <3>2. /\ Len(pipe) \in Nat \ {0} /\ Head(pipe) = pipe[1]
          /\ Len(pipe') = Len(pipe) - 1
          /\ \A i \in 1..Len(pipe') : pipe'[i] = pipe[i + 1] /\ i + 1 \in 1..Len(pipe)
      BY <2>0, <3>1
    <3>3. \A c \in Connections : ~shown[c].complete
      BY <3>1 DEF CompleteInv
    <3>4. 1 \in 1..Len(pipe)
      BY <3>2
    <3>5. pipe[1].kind \in {"stats_update", "simulation_complete"}
      BY <2>0, <3>4 DEF Frames
    <3>6. pipe[1].kind # "stats_update" => Len(pipe) = 1
      BY <3>4, <3>5 DEF CompleteInv
    <3>7. Len(pipe) = 1 => pipe' = <<>>
      BY <2>0, <3>1
    <3>8. runner' \notin Ended => /\ \A i \in 1..Len(pipe') : pipe'[i].kind = "stats_update"
                                  /\ \A c \in Connections : ~shown'[c].complete
      <4> SUFFICES ASSUME runner \notin Ended
                   PROVE  /\ \A i \in 1..Len(pipe') : pipe'[i].kind = "stats_update"
                          /\ \A c \in Connections : ~shown'[c].complete
        BY <3>1
      <4>1. \A i \in 1..Len(pipe) : pipe[i].kind = "stats_update"
        BY DEF CompleteInv
      <4>2. Head(pipe).kind = "stats_update"
        BY <3>2, <3>4, <4>1
      <4>3. \A i \in 1..Len(pipe') : pipe'[i].kind = "stats_update"
        BY <3>2, <4>1
      <4> QED BY <3>1, <3>3, <4>2, <4>3
    <3>9. \A i \in 1..Len(pipe') : pipe'[i].kind = "simulation_complete" => i = Len(pipe')
      <4> TAKE i \in 1..Len(pipe')
      <4>1. pipe[i + 1].kind = "simulation_complete" => i + 1 = Len(pipe)
        BY <3>2 DEF CompleteInv
      <4> QED BY <3>2, <4>1
    <3>10. \A c \in Connections : shown'[c].complete => pipe' = <<>>
      BY <3>1, <3>2, <3>3, <3>6, <3>7
    <3> QED BY <3>8, <3>9, <3>10 DEF CompleteInv
  <2>5. ASSUME NEW t \in Threads, mg_wakeup(t),
               sending[t].kind = "simulation_complete" => runner' \in Ended
        PROVE  CompleteInv'
    <3>1. /\ sending[t] \in Frames /\ shown' = shown
          /\ pipe' = pipe \/ pipe' = Append(pipe, sending[t])
      BY <2>5, WakeupWrites
    <3>2. CASE pipe' = pipe
      BY <2>2, <3>1, <3>2
    <3>3. CASE pipe' = Append(pipe, sending[t])
      <4>1. runner \notin Ended
        BY <2>5, NobodySends DEF mg_wakeup
      <4>2. /\ \A i \in 1..Len(pipe) : pipe[i].kind = "stats_update"
            /\ \A c \in Connections : ~shown'[c].complete
        BY <3>1, <4>1 DEF CompleteInv
      <4>3. /\ Len(pipe) \in Nat /\ Len(pipe') = Len(pipe) + 1 /\ pipe'[Len(pipe) + 1] = sending[t]
            /\ \A i \in 1..Len(pipe') : (i \in 1..Len(pipe) /\ pipe'[i] = pipe[i]) \/ i = Len(pipe) + 1
        BY <2>0, <3>1, <3>3
      <4>4. sending[t].kind \in {"stats_update", "simulation_complete"}
        BY <3>1 DEF Frames
      <4>5. \A i \in 1..Len(pipe') : pipe'[i].kind = "simulation_complete" => i = Len(pipe')
        BY <4>2, <4>3
      <4>6. runner' \notin Ended => \A i \in 1..Len(pipe') : pipe'[i].kind = "stats_update"
        BY <2>5, <4>2, <4>3, <4>4
      <4> QED BY <4>2, <4>5, <4>6 DEF CompleteInv
    <3> QED BY <3>1, <3>2, <3>3
  <2>6. CASE StartSimulation
    BY <2>2, <2>6, IdleSteps
  <2>7. CASE RunnerStep \/ ReceiverStep \/ \E p \in Printers : PrinterStep(p)
    <3>1. CASE \E t \in Threads : mg_wakeup(t) /\ (t = Runner => ClearStats)
      <4>1. PICK t \in Threads : mg_wakeup(t) /\ (t = Runner => ClearStats)
        BY <3>1
      <4>2. t = Runner => runner' \in Ended
        BY <4>1 DEF ClearStats, RunnerGoesTo, Ended
      <4>3. sending[t].kind = "simulation_complete" => t = Runner
        BY <4>1 DEF SendInv, mg_wakeup
      <4> QED BY <2>5, <4>1, <4>2, <4>3
    <3>2. (\E t \in Threads :
             /\ mg_wakeup(t) /\ UNCHANGED watcher
             /\ \/ t = Receiver /\ (ArrivalSent \/ EnqueuedSent)
                \/ t \in Printers /\ (BeginPrinting(t) \/ DepartureSent(t))
                \/ t = Runner /\ ClearStats)
          => \E t \in Threads : mg_wakeup(t) /\ (t = Runner => ClearStats)
      OBVIOUS
    <3> QED BY <2>2, <2>3, <2>4, <3>1, <3>2, <2>6, SendSteps
  <2> QED BY <2>2, <2>3, <2>4, <2>7, <2>6, IdleSteps DEF Next, sessionVars
<1> QED BY <1>1, <1>2, SessionTypes, ConnectionInvariant, StageInvariant, SendInvariant,
           WatchInvariant,
           PTL DEF Spec

\* No job comes under way, or is over, but by the steps that write the frame of
\* an arrival or of a departure.
LEMMA QuietSteps ==
  ASSUME SessionType, StageInv, MutexInv, [Next]_vars, Quiet'
  PROVE  \/ Quiet /\ Counters' = Counters
         \/ ReceiverStep /\ ArrivalSent
         \/ \E p \in Printers : PrinterStep(p) /\ DepartureSent(p)
<1>0. /\ ppc \in [Printers -> {"none", "ready", "dequeued", "told", "printing", "departed", "over"}]
      /\ queue \in Nat /\ created \in Nat /\ stats \in Counts
  BY DEF SessionType
<1>1. CASE RunnerStep
  <2>1. Counters' = Counters
    <3>1. CASE ClearStats
      BY <3>1 DEF ClearStats, RunnerGoesTo, Counters, Ended, StageInv
    <3>2. CASE Report
      BY <3>2 DEF Report, RunnerGoesTo, Counters, Ended, stateVars
    <3>3. CASE ~ClearStats /\ ~Report
      BY <1>1, <3>3
      DEF RunnerStep, CreateReceiver, StartPrinter, PrintersStarted, StartScaler, JoinThreads,
          JoinScaler, SetIdle, RunnerGoesTo, Counters, Ended, stateVars
    <3> QED BY <3>1, <3>2, <3>3
  <2>2. queue' = queue /\ (rpc' = rpc \/ (rpc = "none" /\ rpc' = "sleep"))
    BY <1>1
    DEF RunnerStep, CreateReceiver, StartPrinter, PrintersStarted, StartScaler, JoinThreads,
        JoinScaler, Report, ClearStats, SetIdle, RunnerGoesTo, stateVars, receiverVars, StageInv
  <2>3. \A p \in Printers : ppc'[p] = ppc[p] \/ ppc[p] = "none"
    <3>1. CASE StartPrinter
      <4>1. \A p \in Printers : p = created + 1 => ppc[p] = "none"
        <5> TAKE p \in Printers
        <5>1. p = created + 1 => p > created
          BY <1>0
        <5> QED BY <5>1 DEF StageInv
      <4> QED BY <3>1, <4>1 DEF StartPrinter
    <3>2. CASE ~StartPrinter
      BY <1>1, <3>2 DEF RunnerStep, CreateReceiver, PrintersStarted, StartScaler, JoinThreads,
                        JoinScaler, Report, ClearStats, SetIdle, printerVars
    <3> QED BY <3>1, <3>2
  <2> QED BY <2>1, <2>2, <2>3 DEF Quiet
<1>2. CASE ReceiverStep
  <2>0. UNCHANGED <<ppc, runner, final>>
    BY <1>2 DEF ReceiverStep, printerVars, runnerVars, historyVars
  <2>1. CASE DropJob \/ ReceiverLeaves
    <3>1. /\ rpc \in {"offer", "sleep"} /\ UNCHANGED <<queue, stats>>
      BY <2>1 DEF DropJob, ReceiverLeaves, ReceiverGoesTo, stateVars
    <3> QED BY <2>0, <3>1 DEF Quiet, Counters
  <2>2. CASE EnqueuedSent
    <3>1. queue' = queue /\ queue > 0
      BY <2>2 DEF EnqueuedSent, ReceiverGoesTo, MutexInv
    <3> QED BY <1>0, <3>1 DEF Quiet
  <2>3. CASE JobArrives \/ Enqueue \/ TellEnqueued
    BY <2>3 DEF JobArrives, Enqueue, TellEnqueued, ReceiverGoesTo, Quiet
  <2> QED BY <1>2, <2>1, <2>2, <2>3 DEF ReceiverStep
<1>3. ASSUME NEW p \in Printers, PrinterStep(p)
      PROVE  (Quiet /\ Counters' = Counters) \/ DepartureSent(p)
  <2>0. UNCHANGED <<rpc, runner, final>>
    BY <1>3 DEF PrinterStep, receiverVars, runnerVars, historyVars
  <2>1. CASE PrinterLeaves(p)
    <3>1. UNCHANGED <<queue, stats>> /\ ppc[p] = "ready" /\ \A q \in Printers : q # p => ppc'[q] = ppc[q]
      BY <1>0, <2>1 DEF PrinterLeaves, PrinterGoesTo
    <3> QED BY <2>0, <3>1 DEF Quiet, Counters
  <2>2. CASE Dequeue(p) \/ TellDequeued(p) \/ BeginPrinting(p) \/ Depart(p)
    <3>1. ppc'[p] \in {"dequeued", "told", "printing", "departed"}
      BY <1>0, <2>2 DEF Dequeue, TellDequeued, BeginPrinting, Depart, PrinterGoesTo
    <3> QED BY <3>1 DEF Quiet
  <2> QED BY <1>3, <2>1, <2>2 DEF PrinterStep
<1>4. CASE Boot \/ StartMessage \/ ScalerLeaves \/ UNCHANGED vars \/ ConnectionEvent \/ WakeupEvent
  <2>1. UNCHANGED <<rpc, ppc, queue, runner, final, stats>>
    BY <1>4, IdleSteps DEF sessionVars, threadVars
  <2> QED BY <2>1 DEF Quiet, Counters
<1>5. CASE StartSimulation
  <2>1. /\ UNCHANGED <<rpc, ppc, queue, final, stats>>
        /\ runner' = runner \/ (runner = "none" /\ runner' = "begin")
    BY <1>5, IdleSteps
  <2> QED BY <2>1 DEF Quiet, Counters, Ended
<1> QED BY <1>1, <1>2, <1>3, <1>4, <1>5 DEF Next

\* The frame of an arrival or of a departure is the last update, of the counters.
LEMMA WrittenIsLast ==
  ASSUME SessionType, ConnectionInv, WatchInv, SendInv, NEW t \in Threads, mg_wakeup(t),
         t # Runner, Fresh(sending[t].data), Quiet', UNCHANGED <<watcher, stats, queue, runner>>,
         runner \notin Ended, \A p \in Printers : Busy(p) => ppc'[p] = ppc[p],
         watcher' # NoConnection, watcher' \notin lost'
  PROVE  LastUpdate(pipe', shown'[watcher'].update,
               [arrived |-> Counters'.arrived, served |-> Counters'.served, queue |-> 0])
<1>1. /\ watcher \in Connections /\ IsOpen(watcher) /\ sending[t].to = watcher
  BY DEF WatchInv, ConnectionInv, LatestOpenIsActive, mg_wakeup, IsOpen
<1>2. /\ sending[t] \in Frames /\ pipe' = Append(pipe, sending[t]) /\ shown' = shown
  BY <1>1, WakeupWrites
<1>3. sending[t].kind = "stats_update"
  BY DEF SendInv, mg_wakeup
<1>4. PICK f \in Frames : f = sending[t]
  BY <1>2
<1>5. f.data \in Updates
  BY <1>3, <1>4 DEF Frames
<1>6. \A p \in Printers : ~Busy(p)
  BY DEF Quiet, Busy
<1>7. f.data.arrived = stats.arrived /\ f.data.served = stats.served /\ f.data.queue = 0
  BY <1>4, <1>6 DEF Fresh, Quiet
<1>8. f.data = [arrived |-> stats.arrived, served |-> stats.served, queue |-> 0]
  BY <1>5, <1>7 DEF Updates
<1>9. Counters' = stats
  BY DEF Counters
<1>10. pipe \in Seq(Frames)
  BY DEF SessionType
<1>11. LastUpdate(Append(pipe, f), shown[watcher].update, f.data)
  BY <1>3, <1>4, <1>10, LastOfAppend
<1> QED BY <1>2, <1>4, <1>8, <1>9, <1>11

THEOREM LastInvariant == Spec => []LastInv
<1> USE ThreadNumbers
<1>1. Init => LastInv
  BY DEF Init, LastInv
<1>2. /\ SessionType /\ ConnectionInv /\ StageInv /\ MutexInv /\ SendInv /\ WatchInv /\ FreshInv /\ LastInv
      /\ [Next]_vars
      => LastInv'
  <2> DEFINE Now == [arrived |-> Counters.arrived, served |-> Counters.served, queue |-> 0]
  <2> SUFFICES ASSUME SessionType, ConnectionInv, StageInv, MutexInv, SendInv, WatchInv, FreshInv,
  LastInv,
                      [Next]_vars, watcher' # NoConnection, watcher' \notin lost', Quiet'
               PROVE  LastUpdate(pipe', shown'[watcher'].update, Now')
    BY DEF LastInv
  <2>0. pipe \in Seq(Frames)
    BY DEF SessionType
  <2>1. CASE ReceiverStep /\ ArrivalSent
    <3>1. /\ rpc = "arrival" /\ mg_wakeup(Receiver) /\ UNCHANGED <<stats, queue>>
      BY <2>1 DEF ArrivalSent, ReceiverGoesTo
    <3>2. UNCHANGED <<watcher, runner, ppc>>
      BY <2>1 DEF ReceiverStep, historyVars, runnerVars, printerVars
    <3>3. Fresh(sending[Receiver].data) /\ runner \notin Ended
      BY <3>1 DEF FreshInv, StageInv, Ending, Ended
    <3> QED BY <3>1, <3>2, <3>3, WrittenIsLast
  <2>2. ASSUME NEW p \in Printers, PrinterStep(p), DepartureSent(p)
        PROVE  LastUpdate(pipe', shown'[watcher'].update, Now')
    <3>1. /\ ppc[p] = "departed" /\ mg_wakeup(p) /\ UNCHANGED <<stats, queue>>
          /\ \A q \in Printers : q # p => ppc'[q] = ppc[q]
      BY <2>2 DEF DepartureSent, PrinterGoesTo, SessionType
    <3>2. UNCHANGED <<watcher, runner>>
      BY <2>2 DEF PrinterStep, historyVars, runnerVars
    <3>3. Fresh(sending[p].data) /\ runner \notin Ended
      BY <3>1 DEF FreshInv, StageInv, Ending, Ended
    <3>4. p \in Threads /\ p # Runner /\ ~Busy(p)
      BY <3>1 DEF Busy
    <3>5. \A q \in Printers : Busy(q) => ppc'[q] = ppc[q]
      BY <3>1, <3>4
    <3> QED BY <3>1, <3>2, <3>3, <3>4, <3>5, WrittenIsLast
  <2>3. ASSUME Quiet, Counters' = Counters
        PROVE  LastUpdate(pipe', shown'[watcher'].update, Now')
    <3>0. Now' = Now
      BY <2>3
    <3>1. watcher # NoConnection /\ watcher \notin lost => LastUpdate(pipe, shown[watcher].update, Now)
      BY <2>3 DEF LastInv
    <3> HIDE DEF Now
    <3>2. CASE UNCHANGED <<pipe, shown, lost, watcher>>
      BY <3>0, <3>1, <3>2
    <3>3. CASE ConnectionEvent
      <4>1. pipe' = pipe /\ watcher' = watcher /\ wsConnId' = watcher
        BY <3>3, IdleSteps DEF ConnectionEvent
      <4>2. wsConnId = watcher
        BY <4>1 DEF WatchInv
      <4>3. PICK c \in Connections : WsOpen(c) \/ Close(c)
        BY <3>3 DEF ConnectionEvent
      <4>4. CASE WsOpen(c)
        BY <3>2, <4>1, <4>4 DEF WsOpen
      <4>5. CASE Close(c)
        <5>1. c # watcher
          BY <4>1, <4>2, <4>5 DEF Close
        <5>2. shown'[watcher] = shown[watcher] /\ lost' = lost \ {c}
          BY <4>5, <5>1 DEF Close, SessionType
        <5> QED BY <3>0, <3>1, <4>1, <5>1, <5>2
      <4> QED BY <4>3, <4>4, <4>5
    <3>4. CASE WakeupEvent
      <4>1. UNCHANGED <<lost, watcher>>
        BY <3>4, IdleSteps
      <4>2. /\ IsOpen(watcher) /\ watcher \in Connections
            /\ pipe # <<>> => pipe[1].to = watcher
        <5>1. pipe # <<>> => 1 \in 1..Len(pipe)
          BY <2>0
        <5> QED BY <4>1, <5>1 DEF WatchInv, ConnectionInv, LatestOpenIsActive, IsOpen
      <4>3. /\ pipe # <<>> /\ pipe' = Tail(pipe)
            /\ Head(pipe) = pipe[1]
            /\ shown'[watcher].update = IF Head(pipe).kind = "stats_update" THEN Head(pipe).data
                                                                            ELSE shown[watcher].update
        <5>1. /\ pipe # <<>> /\ pipe' = Tail(pipe)
              /\ (watcher = Head(pipe).to /\ IsOpen(watcher)) =>
                   shown'[watcher].update = IF Head(pipe).kind = "stats_update" THEN Head(pipe).data
                                                                            ELSE shown[watcher].update
          BY <3>4, <4>2, DeliveryShows
        <5>2. Head(pipe) = pipe[1]
          BY <2>0, <5>1
        <5> QED BY <4>2, <5>1, <5>2
      <4>4. LastUpdate(pipe, shown[watcher].update, Now)
        BY <3>1, <4>1
      <4>5. PICK v : v = shown'[watcher].update
        OBVIOUS
      <4>6. PICK u : u = shown[watcher].update
        OBVIOUS
      <4>7. PICK s \in Seq(Frames) : s = pipe
        BY <2>0
      <4>8. PICK d : d = Now
        OBVIOUS
      <4>9. s # <<>> /\ LastUpdate(s, u, d)
            /\ v = IF Head(s).kind = "stats_update" THEN Head(s).data ELSE u
        BY <4>3, <4>4, <4>5, <4>6, <4>7, <4>8
      <4>10. LastUpdate(Tail(s), v, d)
        BY <4>9, LastOfTail
      <4> QED BY <3>0, <4>1, <4>3, <4>5, <4>7, <4>8, <4>10
    <3>5. CASE StartSimulation
      <4>1. UNCHANGED <<pipe, shown, lost>> /\ (watcher' = watcher \/ runner = "none")
        BY <3>5, IdleSteps
      <4>2. runner # "none"
        <5>1. runner = "none" => jobId = 0 /\ Counters.arrived = jobId
          BY DEF StageInv
        <5> QED BY <2>3, <5>1 DEF Quiet
      <4> QED BY <3>2, <4>1, <4>2
    <3>6. ASSUME NEW t \in Threads, mg_wakeup(t), UNCHANGED watcher, t = Runner
          PROVE  LastUpdate(pipe', shown'[watcher'].update, Now')
      <4>1. /\ watcher \in Connections /\ IsOpen(watcher) /\ sending[t].to = watcher
        BY <3>6 DEF WatchInv, ConnectionInv, LatestOpenIsActive, mg_wakeup, IsOpen
      <4>2. /\ sending[t] \in Frames /\ pipe' = Append(pipe, sending[t]) /\ shown' = shown
            /\ watcher \notin lost
        BY <3>6, <4>1, WakeupWrites
      <4>3. sending[t].kind = "simulation_complete"
        BY <3>6 DEF SendInv, mg_wakeup
      <4>4. PICK f \in Frames : f = sending[t]
        BY <4>2
      <4>5. PICK d : d = Now
        OBVIOUS
      <4>6. PICK u : u = shown[watcher].update
        OBVIOUS
      <4>7. LastUpdate(pipe, u, d)
        BY <3>1, <3>6, <4>2, <4>5, <4>6
      <4>8. LastUpdate(Append(pipe, f), u, d)
        BY <2>0, <4>3, <4>4, <4>7, LastOfAppend
      <4> QED BY <3>0, <3>6, <4>2, <4>4, <4>5, <4>6, <4>8
    <3>7. CASE \E t \in Threads :
                 /\ mg_wakeup(t) /\ UNCHANGED watcher
                 /\ \/ t = Receiver /\ (ArrivalSent \/ EnqueuedSent)
                    \/ t \in Printers /\ (BeginPrinting(t) \/ DepartureSent(t))
                    \/ t = Runner /\ ClearStats
      <4>1. PICK t \in Threads :
                 /\ mg_wakeup(t) /\ UNCHANGED watcher
                 /\ \/ t = Receiver /\ (ArrivalSent \/ EnqueuedSent)
                    \/ t \in Printers /\ (BeginPrinting(t) \/ DepartureSent(t))
                    \/ t = Runner /\ ClearStats
        BY <3>7
      <4>2. t = Runner
        BY <2>3, <4>1 DEF Quiet, ArrivalSent, EnqueuedSent, ReceiverGoesTo, BeginPrinting,
                          DepartureSent,
                          PrinterGoesTo
      <4> QED BY <3>6, <4>1, <4>2
    <3> QED BY <3>2, <3>3, <3>4, <3>5, <3>7, SendSteps
  <2> QED BY <2>1, <2>2, <2>3, QuietSteps
<1> QED BY <1>1, <1>2, SessionTypes, ConnectionInvariant, StageInvariant, MutexInvariant,
           SendInvariant,
           WatchInvariant, FreshInvariant, PTL DEF Spec

\* In a server's first run, if no stop command ends it, a client that was
\* connected for the whole run, lost no frame and was told that the simulation is
\* complete shows the final counters and an empty queue
\* (printer.c:116, 144-149, job_receiver.c:119-153, server.c:234).
THEOREM LastUpdateIsFinalHolds == Spec => []LastUpdateIsFinal
<1>1. /\ SessionType /\ ConnectionInv /\ StageInv /\ WatchInv /\ LastInv /\ CompleteInv
      => LastUpdateIsFinal
  <2> SUFFICES ASSUME SessionType, ConnectionInv, StageInv, WatchInv, LastInv, CompleteInv,
                      watcher # NoConnection, watcher \notin lost, shown[watcher].complete
               PROVE  shown[watcher].update =
                        [arrived |-> final.arrived, served |-> final.served, queue |-> 0]
    BY DEF LastUpdateIsFinal
  <2>1. watcher \in Connections
    BY DEF WatchInv, ConnectionInv, LatestOpenIsActive, IsOpen
  <2>2. runner \in Ended /\ pipe = <<>>
    BY <2>1 DEF CompleteInv
  <2>3. Counters = final /\ final.arrived = jobId
    BY <2>2 DEF Counters, StageInv
  <2>4. queue = 0 /\ rpc = "done" /\ jobId > 0 /\ \A p \in Printers : ppc[p] \in {"none", "over"}
    BY <2>2 DEF StageInv, Ending, Ended
  <2>5. Quiet
    BY <2>3, <2>4 DEF Quiet
  <2>6. LastUpdate(<<>>, shown[watcher].update,
                   [arrived |-> final.arrived, served |-> final.served, queue |-> 0])
    BY <2>2, <2>3, <2>5 DEF LastInv
  <2> QED BY <2>6, LastOfNone
<1> QED BY <1>1, SessionTypes, ConnectionInvariant, StageInvariant, WatchInvariant, LastInvariant,
           CompleteInvariant, PTL
=============================================================================
