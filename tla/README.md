# A verification of the print service

The repository simulates a print shop with threads: a *job receiver* produces
jobs, *printers* take them from a bounded queue, a *paper refiller* supplies the
printers that run out, an *autoscaler* adds and removes printers, and either a
*signal catcher* (terminal program) or a WebSocket command (server) stops the
run early. This directory holds TLA+ models of that code, the TLC runs that
check them, and proofs, checked by TLAPS, of what matters most.

To check a run: `tlc -config MCInterrupted.cfg MCPrintService.tla`. To check the
proofs of a module: `tlapm PrintServiceProofs.tla`. `PROJECT.json` lists the
runs, which lines of the source each definition stands for, the hazards of the
code, the disagreements found, and the theorems.

## 1. The system

| Component | State | Operations | Correct when | Modules |
|---|---|---|---|---|
| Job receiver (`job_receiver.c`) | id of the latest job, the job in hand | allocate, sleep, check for termination, count, drop or queue, announce the end | a bounded queue keeps its bound; each job is queued, dropped or freed; every sleeping printer hears of a job and of the end of arrivals | `JobReceiver` |
| Printer (`printer.c`) | the job it points at, its paper, idle flag | test for exit, wait for a job, wait for paper, dequeue, print, free, leave | no job is printed twice; jobs leave in order; enough paper for what it prints; it leaves only when nothing is left, and does leave | `Printer` |
| Paper refiller (`paper_refiller.c`) | request in hand, papers needed | wait for a request, measure, sleep, add, announce | paper stays between 0 and the capacity; each request is answered; it exits when the run is over | `PaperRefiller` |
| Signal catcher (`signalcatcher.c`) | – | set flags, cancel two threads, empty the queue, wake everybody | the run ends, and the report covers every job | `SignalCatcher` |
| Terminal program (`cli.c`) | owns everything shared | create the threads, join them in order, report | it terminates, with a complete report | `PrintService`, `ScaledPrintService` |
| Autoscaler (`autoscaling.c`, pool of `printer.c`) | pool slots and count, time of last scaling, time the queue became short | every second: scale up, scale down or nothing | pool size stays in its range, changes are a cooldown apart, a removed printer holds no job and no mutex | `PrinterPool`, `Autoscaler`, `ScaledPrintService` |
| WebSocket server (`server.c`) | one simulation context, `is_running` | start, stop, status, open, close, wakeup; the runner thread | one run at a time; no thread outlives its run; each run ends | `PrintServer`, `ServerSession` |
| WebSocket bridge and handler (`server.c:499-507`, `websocket_handler.c`) | id of the active connection, frames on their way | read the id, write to mongoose's socket, deliver | a client that reconnects gets the frames; what it saw last is final | `WebSocketBridge`, `ServerSession` |
| Console handler (`console_handler.c`), statistics (`simulation_stats.c`), clock (`timeutils.c`) | the statistics record | add up counts and times; averages | the time integral of the queue, the sums and the averages agree with each other | `JobStatistics` |
| Queues (`linked_list.c`, `timed_queue.c`) | doubly linked list with sentinels, member count, time stamp | append, pop, remove, clear, traverse, at either end | it is a sequence; links and count stay consistent | `LinkedList`, `JobStatistics` |
| Command line (`preprocessing.c`), start configuration (`server.c:418-464`) | the parameters | check and store arguments; store a client's configuration | the threads may rely on the ranges | `Parameters` |

The threads share four mutexes (job queue, paper refill queue, simulation state,
statistics) and three condition variables: `job_queue_not_empty` (receiver and
catcher to printers), `refill_supplier` (printers and catcher to refiller) and
`refill_needed` (refiller, leaving printers and catcher to printers waiting for
paper). Flags `g_terminate_now`, `all_jobs_arrived` and `all_jobs_served` are
written by several threads; the receiver and the refiller can be cancelled, at
their `usleep` only, a printer of the autoscaler at any cancellation point. In
the server one thread runs mongoose's event loop, which executes the commands
and owns the connections; a runner thread creates and joins the threads of a
run; all of these send frames through the bridge.

What is hard in this code, and what the properties are aimed at:

* flags read under one mutex and acted upon under another (`printer.c:43-48`,
  `156-160`), or left over from an earlier run (`server.c:86-87`);
* a pointer to a job kept across the release of the mutex that protects it
  (`printer.c:65`, used at `78`);
* `current_paper_count` updated by two threads under no mutex
  (`printer.c:132`, `paper_refiller.c:101`);
* waits whose condition can change between test and wait, and exits that have
  to be announced to threads asleep on three condition variables;
* SIGINT or a stop command at any moment of all this, with two cancellations and
  a queue emptied under the feet of the others;
* the cancellation of a printer that may own a mutex or hold a job, a wrong mutex
  for added printers, a count used as an index, unsigned time differences;
* statistics that two threads update under different mutexes, from times taken
  before those mutexes; frames whose counters were read without one;
* a connection that closes while another opens; a configuration that arrives
  during a run.

`PROJECT.json` ("hazards") lists them one by one with their lines and the
properties that cover them, or why none does.

## 2. Modules

```
Orchestrator      shared state, pthread primitives, type of the shared state
  JobReceiver     the receiver thread      (job_receiver.c)
  Printer         a printer thread         (printer.c)
  PaperRefiller   the refiller thread      (paper_refiller.c)
  SignalCatcher   the SIGINT thread        (signalcatcher.c)
    PrintService  main (cli.c) and the composition of the four
      MCPrintService
      PrintServiceProofs       types, ownership, order, balance, refinement, queue, paper
        PrintServiceWakeupProofs  wakeups, no work left behind, a complete end
      ScaledPrintService  the same with the autoscaling thread (INSTANCE PrinterPool)
        MCScaledPrintService
        ScaledPrintServiceProofs  slots, ownership with deaths, requests, joins, paper
    PrintServer   event loop, runner, several runs over one context (server.c)
      PrintServerProofs        types, runs and threads, ownership and order, stops
    ThreadProofs  lemmas on one step of each thread, for the three compositions
JobFlow           what the service promises about jobs, without threads
PrinterPool       the slots of the pool and the count beside them
  Autoscaler      thresholds, timers and clock of autoscaling.c
    AutoscalerProofs
LinkedList        linked_list.c on its pointers
  JobStatistics   the statistics of a run; its job queue is that list
    JobStatisticsProofs        the list, the queue, the area, the report
Parameters        defaults, command line, configuration of a start command
WebSocketBridge   connections, the active one, frames on their way
  ServerSession   a client that connects, configures, starts and watches (EXTENDS both)
    MCServerSession
    ServerSessionProofs        the active connection, the parameters, the last update
```

### The threads

Each thread module has a program counter (`rpc`, `ppc[p]`, `fpc`, `spc`, `mpc`
for main) and one action per step. A step is what the thread does between two
points at which another thread can make a difference:

* A critical section is one step, enabled when its mutex is free. Where the code
  keeps a mutex between a test and a `pthread_cond_wait`, test and wait are two
  steps and `owner` records who holds the mutex in between (`FindNoJob` and
  `BlockOnJob`, `RequestRefill`/`PaperMissing` and `BlockOnRefill`,
  `FindNoRequest` and `BlockOnSupplier`), so a broadcast falls in between only
  if the code lets it. The state and statistics mutexes are never held across a
  wait: their sections are single steps.
* A section under the statistics mutex that only adds up times is a step of its own
  (`NotePaperWait`, `NoteRefill`), as that mutex may have died with its owner.
* A read of a flag that is used later is a step of its own, and the value is kept
  in a variable (`flagSeen`).
* The build has no `-O` flag (`Makefile:4`), so `current_paper_count -= n` and
  `+= n` are a load and a store; they are two steps (`FinishPrinting` and
  `DeductPaper`, `ReadCount` and `WriteCount`).
* `usleep` is a step that other threads may interleave with arbitrarily; time has
  no other role. In the receiver and the refiller it is where a pending
  cancellation is acted upon.
* A job is its number, in the order of creation. `papersRequired[j]` is
  `NoMemory` (0) unless the job is allocated. A read of `papers_required` through
  a pointer to a freed job (`printer.c:78`) gives any of `0 .. PaperCapacity+1`,
  which covers both outcomes of every comparison the code makes.
* `pthread_cond_wait` may return without a broadcast where `WakesSpuriously` is
  set, as POSIX allows.

Abstracted away here: times, log messages, the per-printer and time statistics,
and failures of `malloc` and `pthread_create`. `Init` is the state when `main`
has created all threads (no thread's behaviour before that differs: those already
started just run earlier). The catcher can be cancelled by `main` at its
`sigwait` or before the drain; cancellation in a `printf` in the middle of the
drain is left out.

`ScaledPrintService` adds the autoscaling thread: it starts printers, with the
job queue mutex in place of the refill mutex as `scale_up` passes it
(`RefillMutex`), and cancels idle ones. Conditions on time may hold or not.

* *Deaths.* `doomed` holds the printers with a cancellation pending; one dies at a
  cancellation point. In a condition wait it owns the mutex again and keeps it. In
  `usleep` it keeps nothing. In the output of an event (paper missing, dequeue,
  start of the service, departure) it keeps the lock of stdout and whichever
  mutexes the event is emitted under (`DieRequesting`, `DieDequeuing`,
  `DieStarting`, `DieDeparting`). At the departure the printer counts as idle
  already, and the job may have been counted as served. `lost` holds the jobs of the
  dead; they are never freed. A thread that would wait for ever for the lock of
  stdout, or for a mutex of the dead, in the middle of a section stops before the
  section (`MayPrint`, `Free`), where others see the same.
* *The request list.* The append of an added printer runs under the job queue
  mutex, beside the appends and the pop of the others under the refill mutex, and
  `linked_list.c` stores links and count one by one. It is two steps here
  (`StartAppend`, `FinishAppend`); `listRaced` records that another thread has
  changed the list between them. From then on the stores of one may have undone
  the other's, and an append may leave any requests out of the list. Requests that
  come back after they were left out, and a pop that takes the sentinel, are not
  modelled: no property says anything of a list that raced.

`PrintServer` reuses the four threads under a runner that creates and joins
them, and an event loop that starts and stops runs; queues, flags, and jobs left
over live on. Job ids go on counting, so that a job names its run. It has no
autoscaler.

### The other modules

* `Autoscaler` has the monitoring loop over a clock, with the queue length and
  the printers' idle flags as an environment that changes between any two steps.
  Time differences are taken modulo `TimeRange`, as unsigned longs are.
* `LinkedList`: the list is a record of its `next`, `prev` and `data` pointers,
  two sentinels included, each call an action that performs the assignments of
  the code; `line` is the sequence the interface speaks of, changed the way the
  comments of `linked_list.h` say. `ListIsSequence` relates the two.
* `JobStatistics` reduces the threads to the order in which they take time
  stamps, touch the queue and add up. Its queue is the `LinkedList`; its clock
  may advance between any two steps. It covers both handlers: they have the same
  arithmetic, in ints and unsigned longs. The averages of the report are pairs
  of numerator and denominator.
* `Parameters`: `ProcessArgument` is an iteration of `process_args`, which stores
  a value before it rejects it; `Configure` is what a start command does.
* `WebSocketBridge`: a frame is addressed (the id is read under its mutex),
  written to mongoose's datagram socket, which drops it when full, and delivered
  if there still is a connection with that id. The text is composed in the same
  step as the id is read: the two read disjoint state.
* `ServerSession` composes the last two with the receiver and the printers
  reduced to what a `stats_update` frame shows, and the runner with its two reads
  of `auto_scaling`. Only the frames that properties are about are sent; the
  others could only fill the socket, which a full `PipeSize` shows as well. There
  is one run, the server's first, and no stop command, and nobody waits for paper,
  so the update of the refiller (`paper_refiller.c:106`) is not sent. It is sent
  with the statistics mutex held, as those of arrivals and departures are.

Definitions named `X_Something` next to a definition `X` are mutants: `X` with a
plausible bug. Each property of a passing run has one that it catches
(`PROJECT.json`, "mutants").

## 3. Runs

| Run | Instance | Shows |
|---|---|---|
| `MCInterrupted` | 2 printers, 2 jobs of 1-2 papers, capacity 2, queue of 1, SIGINT or none, spurious wakeups | types, ownership, accounting, queue bound, paper counts, no lost wakeup, nothing left behind and a complete report when there was no SIGINT, refinement of `JobFlow` |
| `MCEndsOrStarves` | 2 printers, 2 jobs that each take a full load, unlimited queue, SIGINT or none, fairness | jobs in order; a run ends unless a printer waits for paper for ever; without SIGINT all jobs are handled anyway |
| `MCAutoscaler` | 2 initial printers, 4 slots, 6 units of time, queue of 0-4, fairness | the pool keeps its count and minimum; cooldown; idle test; announced count; a queue that stays long ends with no printer left to start |
| `MCScaled` | 2 initial printers, 1 slot more, 2 jobs | one owner per job although printers die in waits, sleeps and events; one thread per slot; the refiller hears the initial printers until an append has raced, main joins them; paper counts |
| `MCPrintServer` | 1 printer, 3 runs of 2 jobs, one stop at any moment, fairness | ownership and order over runs; no thread outlives its run; what a stop leaves; runs end or starve |
| `MCStatistics` | 3 jobs, 2 printers, queue of 1 or 2, 2 ticks, a stop at any moment | the list, the order in it, the integral of its length, the report |
| `MCServerSession` | the first run, without a stop; 2 connections, 2 start commands, 1 argument, 2 jobs, 2 printers, a socket of 1 frame | the active connection, the last update, the parameters |
| `MCFreedJob`, `MCScaleDownWedges`, `MCSecondRun`, `MCPeak`, `MCSquares` | | violated: see below |

### Properties

*Threads.* `TypeOK`; `JobOwnership` and `ScaledJobOwnership`: every allocated job
has one owner; `JobConservation`: the counters balance at every moment;
`FirstComeFirstServed`; `QueueWithinCapacity`; `PaperWithinCapacity`;
`NoLostJobWakeup`, `NoLostRefillRequest`, `NoForgottenPrinter`,
`InitialRequestsAreHeard`: whoever sleeps on a condition variable has nothing to
do, or somebody is still going to wake it; `NoWorkLeftWhenServed` and
`CompleteAtEnd`: what holds when the first printer leaves and when `main`
reports; `OneThreadPerSlot`, `InitialPrintersAreJoined`, `NoThreadOutlivesItsRun`:
who may still run when a record is reused or destroyed; `StopLeavesOneJobAtMost`.

*Policy.* `PoolWithinLimits`, `AnnouncedCountIsTrue`; as action properties
`CooldownKept` and `SomePrinterWasIdle`. `scale_up` reads the time, emits its event
with it, starts the printer and stores that time (`autoscaling.c:140-143`), which are
two steps here; so `CooldownKept` counts from the time in the event. The next change
may follow the start itself more closely, by as long as the event and the start
took, which the code puts no bound on. `AnnouncedCountIsTrue` and `SomePrinterWasIdle`
name the exceptions that the code really has: a slot that is occupied beyond the count, a
printer that finished a job after the time was read.

*Data.* `ListIsSequence`; `QueueHoldsWaitingJobs`: walking the queue in either
direction gives the waiting jobs, in order; `AreaIsIntegral`;
`ReportIsConsistent`; `LatestOpenIsActive`; `LastUpdateIsFinal`: although frames
composed without a mutex carry older counters, the frame a client gets last is
the final one, in a server's first run that no stop command ends (a stop removes jobs
without an update, and a second run leaves jobs in the queue, as `MCSecondRun`
shows); `ParametersHold`.

*Refinement.* `JobFlow` is a bounded first-come first-served line with several
servers: a job is accepted, refused or withdrawn; a server begins and completes
jobs; a stop purges the line. `ImplementsJobFlow` maps the threads to it: the
line is `jobQueue`, a server works on `target[p]` from `Dequeue` to
`JobDeparts`, and a job is decided when the receiver queues it, finds the queue
full (it is refused then, and freed one step later) or discovers the
termination. A job the cancelled receiver holds is withdrawn at the moment of
the cancellation.

*Liveness.* `EndsOrStarves`, `AllJobsHandled`, `RunsEndOrStarve`,
`LongQueueExhaustsPool`: while the queue stays as long as the highest threshold, printers
are added until the pool is full, the next slot is taken by a printer beyond a hole, or
the count has no threshold. They assume weak fairness of every thread: the operating system's scheduler
keeps running a thread that can run, and no mutex is contended for ever (every
critical section is short and the number of threads is fixed). SIGINT, the
client's commands and connections, and spurious wakeups are not fair; neither
are the environment's changes in `Autoscaler`, only its clock. Nothing is
assumed of a thread asleep on a condition variable.

### Bounds

Two printers are needed for one to take what another was looking at; two jobs that
each take a full load make one of them wait for paper while the other takes its job
and empties the queue, and give one printer two requests in the refill queue; a
capacity of 2 papers with jobs of 1 or 2 gives a printer with just enough, one
short and empty; a queue of 1 place fills with the second job. One slot more
than the initial printers is what the autoscaler needs to start, cancel and
start again; the policy has two more, so that a hole in the pool can occur.
In `MCScaled` the two jobs give each death its job. An append that races with another
change takes three: an added printer and another one must both have printed before
they ask for paper at once. The theorems cover it for any number of jobs. `MCAutoscaler` has the two
printers below which no count has a threshold; a service of one never scales up.
Three runs of the server are the first, one that inherits flags, and one that
inherits jobs and a stop. One printer suffices there: what several do within a
run is the other runs' subject.

In `MCStatistics` two ticks give each interval the lengths 0, 1 and 2; `MCSquares` has
ticks enough for a square to leave the range of an int.
In `MCServerSession`, `PipeSize` 1 makes the socket full whenever a frame is not
yet read; two connections are an old and a new one; `MaxCommands` 2 allows a
start and one that is refused during the run but changes the parameters, also
to fewer jobs and no printers; `MaxArguments` 1 suffices as each argument is
checked on its own, and the order of the paper bounds cannot be wrong after an
accepted one. Connection ids are only compared, so the run uses symmetry; it
has no liveness property. `MCScaled` and `MCScaleDownWedges` bound the same
instance; the first uses a `VIEW` that leaves the counters out: no guard reads them, and
of the properties only `ScaledTypeOK` does, for their type, which `ScaledTypesHold` proves.

Deadlock checking is off where the system may really stop: a printer that starves,
a mutex that died with its owner, a server nobody uses, a clock at its bound.
`MCStatistics` leaves it on: its run always ends in a report. What more printers,
jobs, papers, nodes or connections could change is covered by the proofs for the
invariants they are about.

### Disagreements between the code and its documents

Checked by a run that TLC finds violated:

| Run | The code | says |
|---|---|---|
| `MCFreedJob` | the refill loop reads a job another printer freed (`printer.c:78`) | "the job at the front of the queue" (`printer.c:67`) |
| `MCScaleDownWedges` | a printer cancelled in its wait dies with the job queue mutex, which `scale_down` then locks (`autoscaling.c:182-193`) | "Unlock before join to avoid deadlock" (`autoscaling.c:183`) |
| `MCSecondRun` | nothing resets the flags between runs, so the printers of the second leave at once (`server.c:86-87`, `262`) | "all jobs processed" (`FRONTEND_INTEGRATION_GUIDE.md:123`) |
| `MCPeak` | `max_job_queue_length` is over the lengths before an insertion (`job_receiver.c:127-150`): one short in every run in which a job waits | "Peak number of jobs ever in the queue" (`simulation_stats.h:25`), "Maximum Queue Length" (`simulation_stats.c:238`) |
| `MCSquares` | the square of a time in µs is an int product (`console_handler.c:171`, `websocket_handler.c:199`); every job of the terminal program takes longer than 46 ms | "Sum of (system_time)^2" (`simulation_stats.h:22`) |

Met while modelling, and written into properties or left to the reader:

* The first printer to leave sets `all_jobs_served` (`printer.c:173`), the
  "Indicator if all jobs have been served" (`paper_refiller.c:26`), while others
  print. A printer woken by the refiller's exit waits again, as only
  `g_terminate_now` releases it (`printer.c:82-88` against `paper_refiller.c:55`),
  and one can start waiting after the catcher's broadcasts. These are the ways in
  which a run does not end; `EndsOrStarves` allows both and shows that there is no
  third.
* The average inter-arrival time divides n gaps by n - 1 (`ReportIsConsistent` allows
  it just that much). Jobs a stop removes leave their last
  time out of the queue integral (`AreaIsIntegral`), and a job queued after the
  drain is in no count of the report.
* `get_scale_up_threshold` gives 999999 for one printer, so a service that starts
  with one never scales. A printer removed in the middle of the pool leaves a
  hole: the slot of the next `scale_up` is occupied, it is refused, and the event
  has been sent (`AnnouncedCountIsTrue`). The idle test subtracts unsigned times
  taken in the wrong order (`SomePrinterWasIdle`). A cancelled printer may have
  taken a job, or be leaving it counted and not freed (`lost`); added printers signal
  and append under the wrong mutex (`InitialRequestsAreHeard` speaks of the others'
  requests, while no append has raced); and one may be started in a slot main has
  passed (`InitialPrintersAreJoined`).
* A stop command with no run leaves `g_terminate_now` set for the next one; the
  statistics of a run start with what threads and commands did after they were
  cleared.
* A start command stores its configuration before it is refused: the runner then
  joins an autoscaler it never created, or leaves one running (`ParametersHold`).
  Nothing checks it: with `consumerCount` 0 a run never ends.
* `jobArrivalTime` is documented and served in milliseconds (`config.h:27`,
  `preprocessing.h:27`) and stored as microseconds (`server.c:445`); `fixed_arrival`,
  `min_arr` and `max_arr` are accepted (`preprocessing.c:24-25`) and never used.

## 4. Proofs

All theorems are about the specifications without fairness, for every value of
the constants that satisfies the assumptions of the modules. They state every
safety property and every action property of the runs that pass, and the refinement.

**Each thread** (`ThreadProofs`). Three programs run the same four threads, so what a
step of a thread keeps is proved once, of the thread's action with the others'
variables unchanged (`ReceiverTurn`, `PrinterTurn`, ...), in terms that do not say
who else runs: the types with what the pointers point at (`ThreadInv`), the owners
of the jobs (`JobsOwned(gone)`, where `gone` is the set of jobs that have left the
program without being freed), and the sheets of paper (`PaperInv`). A program's
proof shows that each of its steps is such a turn or one of its own, and treats
those.

**The terminal program** (`PrintService`; at least one printer and at most `MaxPrinters`,
jobs of at least one paper that fit the capacity, a queue capacity of -1 or a
natural number, which `preprocessing.c` enforces for it):

* `TypesHold` (`TypeOK`). Not inductive by itself: `papersRequired[target[p]]`
  and `paper[refilling]` are read and written through pointers. `TypeInv` adds
  `PointersOK`: a serving printer points at a job, a refiller at work at a
  printer, and a receiver that holds a job holds one in range.
* `OwnershipHolds` (`JobOwnership`) and `FirstComeFirstServedHolds`, from one
  inductive invariant `JobInv`. It adds to ownership that the queue is sorted,
  that served jobs are older than queued ones, and that no job beyond `jobId` is
  in either; so a new job is new. Steps that move no job are one case
  (`JobsStay`), and seven actions move some.
* `JobConservationHolds`, an equation of counters with the number of jobs in
  printers. Ownership makes it provable: the served jobs form a finite set, in
  which a dequeued job is new and from which a departing one disappears for good,
  because no two printers serve the same.
* `ThreadsImplementJobFlow`. Through the mapping of `PrintService` (`Flow`) a job is
  offered to the line when the receiver queues it, finds the queue full or gives
  it up after SIGINT; a printer's dequeue and departure, and the catcher's drain,
  are steps of the line; every other step of every thread is a stutter.
* `QueueWithinCapacityHolds`, inductive given the types.
* `PaperWithinCapacityHolds`, from `PaperInv`. Printer `p` only lowers `paper[p]`
  and the refiller only raises it, so a value read and not yet written back errs
  in one direction: the printer's copy may be too low, the refiller's too high,
  but never by more than what fits (`paper[refilling] + papersNeeded` and
  `countRead + papersNeeded` stay within the capacity). The counts may be wrong
  after the race; the theorem says that they are never out of range and never
  less than what the printer is printing. It uses `JobInv`: nobody frees a job
  under the printer that serves it.
* `NoLostJobWakeupHolds` and `NoLostRefillRequestHolds`. Whether a wakeup is lost
  is decided between a thread's test and its wait, so both invariants speak of a
  thread that sleeps *or is about to* (`SleepsForJob`, `SleepsForRequest`).
  `PlacesInv` carries the argument: a thread between test and wait owns the
  mutex, so whoever queues work, sets a flag's broadcast in motion or drains the
  queue comes before the test, and is seen by it, or after the wait, and wakes
  it. `PlacesInv` also says that only printers started by main take steps: they
  share the paper refill mutex with the refiller, which the second proof needs.
  It fails for a printer that the autoscaler starts, as `MCScaled` shows.
* `NoWorkLeftWhenServedHolds`, from `LeaveInv`: what a printer read earlier
  (`flagSeen`) still holds when it uses it, because both flags are only ever set,
  and without SIGINT nothing is queued after `all_jobs_arrived`.
* `CompleteAtEndHolds`. `ArrivalInv` says that without SIGINT the receiver is not
  cancelled and passes every job, `StartedInv` that there is a printer to leave.
  When main has joined the printers, the first of them has left, so `LeaveInv`
  gives the end of the arrivals and an empty queue; ownership then leaves no
  allocated job and the balance leaves no uncounted one.
* `NoForgottenPrinterHolds`. `PaperComesInv`: a printer in the refill loop has its
  paper, or a request, or the refiller, which will leave it full (`RefillWillDo`:
  nobody else changes the paper of a printer that waits). `WakeComesInv`: a
  printer asleep with enough paper has the refiller before its broadcast, which
  cannot fall between the printer's test and its wait (`PlacesInv`). The write of
  the new count never lowers it (`PaperInv`), and the job in question can only be
  freed, which the property excludes and `MCFreedJob` shows to happen.

**The terminal program with autoscaling** (`ScaledPrintService`; any number of slots
beyond the first printers):

* `ScaledTypesHold` and `OneThreadPerSlotHolds`. `SlotInv`: a slot that the pool does
  not list has no thread. The autoscaler alone lists slots, releases one only when
  it has joined its printer, and never one of those started by main: what it may
  remove lies beyond them and exists only while there are more printers than that.
* `ScaledOwnershipHolds`, from `JobsOwned(lost)`: the threads' lemmas with the jobs
  of dead printers as those that are gone. A printer that dies in its service or in the
  event of the departure takes its job along, one that dies in the dequeue the front of
  the queue, and one that dies in a wait or in the event of missing paper none.
* `InitialRequestsAreHeardHolds`. `RequestInv`: the refiller and a printer *that main
  started* own the paper refill mutex from their test to their wait. A printer that
  the autoscaler started does not, as `scale_up` gave it another mutex, so that it
  may wake a refiller that is not asleep yet, and its append may overlap another change
  of the list. The theorem is about the others' requests, while no append has.
* `InitialPrintersAreJoinedHolds`. `JoinInv`: the slots below `joinSlot` that are
  main's are over. They are never used again (`SlotInv`), unlike the others.
* `ScaledPaperWithinCapacityHolds`: deaths and new printers keep `PaperInv`.

**The server** (`PrintServer`; any number of printers, runs, jobs of a run and stops):

* `ServerTypesHold` and `NoThreadOutlivesItsRunHolds`. `RunInv` is an account of the
  runner: which threads are over at each of its steps, which jobs this run may still
  make, and that `is_running` is set exactly while there is a runner, which is why
  no second run starts over the first.
* `ServerOwnershipHolds` and `ServerFirstComeFirstServedHolds` over all the runs, from
  `JobsOwned(leaked)`: `leaked` holds the jobs that a cancelled receiver had in hand
  when the next run's receiver was created over it.
* `StopLeavesOneJobAtMostHolds`. `StopInv`: after the drain only a job that had passed
  the test of `g_terminate_now` before can be queued, and the receiver has one job in
  hand at most. The flag stays set, so no later job passes.

**The autoscaler** (`Autoscaler`; any pool, thresholds, timers and queue lengths, a
clock that does not wrap around and starts after the first cooldown):

* `PoolWithinLimitsHolds`. `PoolInv` adds what the loop knows where it is: the
  pool is not full when it scales up, a printer beyond the minimum exists when it
  scales down, and the cancelled one is still in its slot when it is joined.
  `NewestIsMember` needs a greatest slot; it comes from the well-founded order of
  the numbers, not from an induction.
* `CooldownIsKept`. The history variable `toldAt`, the time in the event of the last
  change, turns out to be `last_scale_time_us`; `TimeInv` orders the times (`lastScale`, `lowSince`,
  `seenTime`, `clock`), so that no unsigned difference with the loop's time wraps.
* `SomePrinterWasIdleHolds`, under the hypothesis
  `IdleTimeout <= Cooldown + LowQueueWait`. A printer that is started again keeps
  the completion time of its former life, so the test of `autoscaling.c:95` alone
  would find it idle at once. It is safe because scaling up also restarts the
  timer of the low queue (`IdleInv`). The hypothesis is true of `config.h:87-93`
  (5 <= 3 + 5 seconds); with a timeout longer than both TLC finds a new printer
  that lets the pool shrink.
* `AnnouncedCountHolds`, at every step of the loop.

* `AutoscalerTypes`: the flags and times that the environment changes stay in range.

**The list and the statistics** (`JobStatistics`; any number of jobs, printers, nodes,
ticks and places in the queue):

* `LinkedListIsSequence`, for every order of calls of the whole interface. The
  invariant adds types. The work is in two lemmas on the pointers: `InsertStep`,
  a node linked between two neighbours becomes the k-th of the sequence, which
  serves both appends, and `UnlinkStep`, its inverse, which serves the pops, the
  removal and an iteration of `list_clear`. That the nodes are distinct is what
  makes an assignment to one pointer leave the others alone.
* `JobQueueIsSequence`: the steps of a run call the list within its contract.
* `WaitingJobsAreQueued`. `WaitInv` has three parts: a printer's node holds a job that
  no other has (`HoldInv`), each job that has entered and has no outcome is in the
  list or in a hand (`OutcomeInv`), and the list is in the order of arrival, after
  all that left it (`OrderInv`). That a *walk* along the pointers, forward or backward,
  then gives exactly those jobs needs no induction principle: a place at which it
  first goes wrong would be minimal in a well-founded order, and the one before is right.
* `AreaUnderQueue`. `AreaInv` says it of sums (`SumTo`, a function on sets of jobs that
  adds one at a time). Each interaction with the queue adds to the area what it adds
  to the time of each waiting job; a dequeue moves one term from the jobs that wait to
  those that left. The fold by which the property is stated is shown equal to the sum.
* `ReportIsSound`: every sum and average of the report agrees with what it is of, and
  none is negative, with no hypothesis. The invariants: types, with times not in the
  future (`StatsType`); what the receiver counted (`ArrivalsInv`); who is joined when
  main reports, and that jobs are removed by a stop alone (`EndInv`); the times of a
  job are in order, and a printer's jobs do not overlap, so its service time is at most
  the clock (`CourseInv`); the queue is no longer than its peak (`LongestInv`); the sums over served jobs, printers and the area (`SumsInv`).

**The session** (`ServerSession`; any number of connections, printers, arguments,
configurations and commands, any size of the socket):

* `LatestOpenIsActiveHolds`. The invariant adds that a connection that is active
  or latest was opened; frames and threads play no part (`OthersKeepConnections`).
* `ParametersHoldThroughout`. `AcceptedInv` keeps the parameters in the ranges of
  `config.h`, from which the threads' needs follow (the ranges of the two paper
  bounds do not overlap, and the smallest capacity exceeds the largest job).
  `RunInv` says what the runner knows between its two reads of `auto_scaling`:
  an autoscaler runs only if the parameter is still set, or it was changed.

* `LastUpdateIsFinalHolds`, of the first run without a stop. `LastInv`: while no job is under way (`Quiet`), the last
  update among the frames in the pipe, or else what the client shows, is that of the
  counters as they are. Such a moment begins only when the frame of an arrival or of a
  departure is written (`QuietSteps`). Both are addressed and written with the
  statistics mutex held (`MutexInv`), under which no counter changes and no printer
  finishes its job (`FreshStays`), so the frame shows the counters as they are when it
  is written (`FreshInv`). The frames with older counters are written while a printer
  still has the job they are about, or the queue is not empty. `StageInv` is an account
  of the run: at its end there was a job and nobody has one. `WatchInv` sends every
  frame of the run to the client in question, and `CompleteInv` puts the last message
  last, so that nothing is in the pipe when it has been shown.

Model-checked only: liveness (`EndsOrStarves`, `AllJobsHandled`, `RunsEndOrStarve`,
`LongQueueExhaustsPool`), which is out of the prover's reach, and the five properties
that are violated.

## 5. What is not modelled

* *Text and transport*: the wording of log lines and JSON messages, the reading of
  JSON, HTTP replies (`/api/config` among them), `printf`, and Mongoose, which is
  vendored, but for `mg_wakeup` as the server uses it. `publish_jobs_update` stops
  at 7900 bytes; the walk in `LinkedList` goes on.
* *Rates and durations*: how long a job takes is any time; `job_arrival_time_us`,
  printing and refill rates, with their options, are left out. So are the paper
  statistics (papers used, refill events), which are sums like the others, and the
  rounding of doubles.
* `list_find`, which no thread calls, and `get_wake_up_time`, which nobody calls.
* Failures of `malloc` and `pthread_create`.
* The terminal program's cancellation of the catcher in the middle of the drain,
  and what the C library does when a thread is cancelled or joined that was never
  created or was joined before; the models let these calls return.
* The report as steps: a catcher or printer that died in an event keeps the lock of
  stdout, at which the report of main would wait.
* The standard deviation of the report: the sum of squares it is computed from is wrong
  for every job of the terminal program (`MCSquares`).
* The server with autoscaling and a stop at once: `PrintServer` has the stop,
  `ScaledPrintService` the autoscaler, `ServerSession` the autoscaler's join.

Next would be the accounting and the refinement of `JobFlow` for the other two
compositions: `PrintServer`, in which a stop purges the line and a new run inherits
what is left of it, and `ScaledPrintService`, in which a server may vanish with its job.
