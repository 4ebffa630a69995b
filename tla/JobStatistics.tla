---------------------------- MODULE JobStatistics ----------------------------
(***************************************************************************)
(* The statistics of a run: when each job passes each point, what the      *)
(* handlers add up (console_handler.c and, with the same arithmetic,       *)
(* websocket_handler.c, chosen by log_router.c), and what                  *)
(* simulation_stats.c makes of it.  The job queue is the linked list of    *)
(* linked_list.c with the time stamp of timed_queue.c; the threads are     *)
(* reduced to the order in which they touch the queue and the statistics.  *)
(*                                                                         *)
(* A tick of the clock is 2^14 microseconds, so the square of a time in    *)
(* ticks is in units of 2^28, and an int product wraps around modulo       *)
(* SquareRange = 2^32 / 2^28.                                              *)
(***************************************************************************)
EXTENDS LinkedList, FiniteSetsExt

CONSTANTS
  NumJobs,       \* params.num_jobs
  NumPrinters,   \* printers at work
  Capacities,    \* values of params.queue_capacity, -1 when unlimited
  MaxTime,       \* bound of the clock
  SquareRange    \* number of values of an int, in squared ticks

Jobs     == 1..NumJobs
Printers == 1..NumPrinters

ASSUME StatisticsAssumption ==
  /\ NumJobs \in Nat /\ NumPrinters \in Nat /\ MaxTime \in Nat
  /\ Capacities \subseteq Nat \cup {-1}
  /\ SquareRange \in Nat \ {0}
  /\ Data = Jobs

VARIABLES
  queueCapacity,   \* params.queue_capacity
  clock,           \* get_time_in_us since simulation_start_time_us
  lastInteraction, \* job_queue->last_interaction_time_us
  stamp,           \* the five times kept in each job
  outcome,         \* history: how each job ended
  rpc, latest,     \* the receiver, and its latest job
  previous,        \* previous_job_arrival_time_us
  ppc, elem,       \* the printers, and the node each one holds
  spc, mpc,        \* the signal catcher and main
  stats,           \* simulation_statistics_t
  peak             \* history: the longest the queue has been

worldVars    == <<queueCapacity, clock>>
queueVars    == <<listVars, lastInteraction>>
receiverVars == <<rpc, latest, previous>>
printerVars  == <<ppc, elem>>
vars == <<worldVars, queueVars, stamp, outcome, receiverVars, printerVars, spc, mpc, stats, peak>>

Stamps == {"systemArrival", "queueArrival", "queueDeparture", "serviceArrival",
           "serviceDeparture"}
NoNode == Null

Init ==
  /\ list_init
  /\ queueCapacity \in Capacities
  /\ clock = 0 /\ lastInteraction = 0
  /\ stamp = [j \in Jobs |-> [t \in Stamps |-> 0]]
  /\ outcome = [j \in Jobs |-> "none"]
  /\ rpc = "sleep" /\ latest = 0 /\ previous = 0
  /\ ppc = [p \in Printers |-> "ready"] /\ elem = [p \in Printers |-> NoNode]
  /\ spc = "sigwait" /\ mpc = "join"
  /\ stats = [arrived |-> 0, served |-> 0, dropped |-> 0, removed |-> 0,
              interArrival |-> 0, systemTime |-> 0, squares |-> 0, queueWait |-> 0,
              area |-> 0, maxQueue |-> 0,
              jobsServed |-> [p \in Printers |-> 0], serviceTime |-> [p \in Printers |-> 0],
              printersUsed |-> 0, duration |-> 0]
  /\ peak = 0

Tick ==
  /\ mpc = "join" /\ clock < MaxTime
  /\ clock' = clock + 1
  /\ UNCHANGED <<queueCapacity, queueVars, stamp, outcome, receiverVars, printerVars, spc, mpc,
                 stats, peak>>

Stamped(j, point) == stamp' = [stamp EXCEPT ![j][point] = clock]

\* The catcher holds the job queue mutex and the statistics mutex while it removes jobs.
MutexesFree == spc # "drain"

-----------------------------------------------------------------------------
(* The receiver *)

\* Awake, the receiver sees g_terminate_now unset; a stop may still come.
CheckTermination ==
  /\ rpc = "sleep" /\ latest < NumJobs /\ spc = "sigwait"
  /\ rpc' = "arrive"
  /\ UNCHANGED <<worldVars, queueVars, stamp, outcome, latest, previous, printerVars, spc, mpc,
                 stats, peak>>

Arrive ==
  /\ rpc = "arrive" /\ MutexesFree
  /\ rpc' = "offer" /\ latest' = latest + 1
  /\ Stamped(latest + 1, "systemArrival")
  /\ stats' = [stats EXCEPT !.arrived = @ + 1, !.interArrival = @ + (clock - previous)]
  /\ UNCHANGED <<worldVars, queueVars, outcome, previous, printerVars, spc, mpc, peak>>

\* The last job was queued, or the receiver was cancelled or saw g_terminate_now.
StopReceiving ==
  /\ rpc = "sleep" /\ (latest = NumJobs \/ spc # "sigwait")
  /\ rpc' = "done"
  /\ UNCHANGED <<worldVars, queueVars, stamp, outcome, latest, previous, printerVars, spc, mpc,
                 stats, peak>>

QueueFull == queueCapacity # -1 /\ list_length >= queueCapacity

\* Mutant: the time of the dropped job is lost with the job.
Drop_Forgets ==
  /\ rpc = "offer" /\ MutexesFree /\ QueueFull
  /\ rpc' = "sleep"
  /\ outcome' = [outcome EXCEPT ![latest] = "dropped"]
  /\ stats' = [stats EXCEPT !.dropped = @ + 1]
  /\ UNCHANGED <<worldVars, queueVars, stamp, latest, previous, printerVars, spc, mpc, peak>>

Drop ==
  /\ rpc = "offer" /\ MutexesFree /\ QueueFull
  /\ rpc' = "sleep"
  /\ outcome' = [outcome EXCEPT ![latest] = "dropped"]
  /\ stats' = [stats EXCEPT !.dropped = @ + 1]
  /\ previous' = stamp[latest].systemArrival
  /\ UNCHANGED <<worldVars, queueVars, stamp, latest, printerVars, spc, mpc, peak>>

\* Which memory is given is of no consequence.
Malloc == Min(Unused)

\* log_queue_arrival, after the job was put in the queue.
AreaAtArrival(length) == stats.area + (clock - lastInteraction) * (length - 1)

\* The length compared is the one before the job was put in the queue.
NewPeak(queueLength) == Max({queueLength, stats.maxQueue})

Enqueue ==
  /\ rpc = "offer" /\ MutexesFree /\ ~QueueFull
  /\ rpc' = "sleep"
  /\ Stamped(latest, "queueArrival")
  /\ \E node \in Nodes : node = Malloc /\ list_append(node, latest)
  /\ stats' = [stats EXCEPT !.maxQueue = NewPeak(list_length), !.area = AreaAtArrival(list_length')]
  /\ lastInteraction' = clock
  /\ previous' = stamp[latest].systemArrival
  /\ peak' = Max({peak, Len(line')})
  /\ UNCHANGED <<worldVars, outcome, latest, printerVars, spc, mpc>>

-----------------------------------------------------------------------------
(* The printers *)

JobOf(p) == list.data[elem[p]]

PrinterAt(p, from, to) == ppc[p] = from /\ ppc' = [ppc EXCEPT ![p] = to]

\* Mutant: the job that leaves is not counted for the time before.
AreaAtDeparture_Short(length) == stats.area + (clock - lastInteraction) * length

\* log_queue_departure, after the job was taken from the queue.
AreaAtDeparture(length) == stats.area + (clock - lastInteraction) * (length + 1)

\* Mutant: the job is taken from the wrong end.
Dequeue_Last(p) ==
  /\ PrinterAt(p, "ready", "holding") /\ MutexesFree /\ mpc = "join"
  /\ list_pop
  /\ elem' = [elem EXCEPT ![p] = list.prev[TailNode]]
  /\ Stamped(list.data[list.prev[TailNode]], "queueDeparture")
  /\ stats' = [stats EXCEPT !.area = AreaAtDeparture(list_length')]
  /\ lastInteraction' = clock
  /\ UNCHANGED <<worldVars, outcome, receiverVars, spc, mpc, peak>>

\* Main joins the printers before it reports.
Dequeue(p) ==
  /\ PrinterAt(p, "ready", "holding") /\ MutexesFree /\ mpc = "join"
  /\ list_pop_left
  /\ elem' = [elem EXCEPT ![p] = list_first]
  /\ Stamped(list.data[list_first], "queueDeparture")
  /\ stats' = [stats EXCEPT !.area = AreaAtDeparture(list_length')]
  /\ lastInteraction' = clock
  /\ UNCHANGED <<worldVars, outcome, receiverVars, spc, mpc, peak>>

BeginService(p) ==
  /\ PrinterAt(p, "holding", "printing")
  /\ Stamped(JobOf(p), "serviceArrival")
  /\ UNCHANGED <<worldVars, queueVars, outcome, receiverVars, elem, spc, mpc, stats, peak>>

EndService(p) ==
  /\ PrinterAt(p, "printing", "printed")
  /\ Stamped(JobOf(p), "serviceDeparture")
  /\ UNCHANGED <<worldVars, queueVars, outcome, receiverVars, elem, spc, mpc, stats, peak>>

\* Two's complement: what the product of two ints is.
AsInt(x) == ((x + SquareRange \div 2) % SquareRange) - (SquareRange \div 2)

\* log_system_departure; printers are numbered by id, at most CONFIG_RANGE_CONSUMER_COUNT_MAX.
Departed(p, t) ==
  LET systemTime == t.serviceDeparture - t.systemArrival
      service    == t.serviceDeparture - t.serviceArrival
  IN  [stats EXCEPT !.systemTime = @ + systemTime,
                    !.squares = @ + AsInt(systemTime * systemTime),
                    !.served = @ + 1,
                    !.jobsServed[p] = @ + 1,
                    !.serviceTime[p] = @ + service,
                    !.printersUsed = Max({p, @}),
                    !.queueWait = @ + (t.queueDeparture - t.queueArrival)]

Depart(p) ==
  /\ PrinterAt(p, "printed", "ready") /\ MutexesFree
  /\ stats' = Departed(p, stamp[JobOf(p)])
  /\ outcome' = [outcome EXCEPT ![JobOf(p)] = "served"]
  /\ free(elem[p])
  /\ elem' = [elem EXCEPT ![p] = NoNode]
  /\ UNCHANGED <<worldVars, lastInteraction, stamp, receiverVars, spc, mpc, peak>>

-----------------------------------------------------------------------------
(* The signal catcher, and main *)

\* log_ctrl_c_pressed; then the receiver is cancelled and the queue locked.
Stop ==
  /\ spc = "sigwait" /\ mpc = "join"
  /\ spc' = "drain"
  /\ stats' = [stats EXCEPT !.duration = clock]
  /\ UNCHANGED <<worldVars, queueVars, stamp, outcome, receiverVars, printerVars, mpc, peak>>

\* An iteration of empty_queue_if_terminating: dequeue_front notes the time, but
\* nothing is added to the area.
DrainOne ==
  /\ spc = "drain"
  /\ list_clear_one
  /\ outcome' = [outcome EXCEPT ![list.data[list_first]] = "removed"]
  /\ Stamped(list.data[list_first], "queueDeparture")
  /\ stats' = [stats EXCEPT !.removed = @ + 1]
  /\ lastInteraction' = clock
  /\ UNCHANGED <<worldVars, receiverVars, printerVars, spc, mpc, peak>>

Drained ==
  /\ spc = "drain" /\ list_is_empty
  /\ spc' = "done"
  /\ UNCHANGED <<worldVars, queueVars, stamp, outcome, receiverVars, printerVars, mpc, stats, peak>>

\* After a stop the printers may leave before the receiver queues its last job.
EveryoneJoined ==
  /\ rpc = "done" /\ \A p \in Printers : ppc[p] = "ready"
  /\ spc # "drain" /\ (list_is_empty \/ spc = "done")

\* log_simulation_end, then the report; the duration noted at a stop is overwritten.
End ==
  /\ mpc = "join" /\ EveryoneJoined
  /\ mpc' = "report"
  /\ stats' = [stats EXCEPT !.duration = clock]
  /\ UNCHANGED <<worldVars, queueVars, stamp, outcome, receiverVars, printerVars, spc, peak>>

Reported == mpc = "report" /\ UNCHANGED vars

Next ==
  \/ Tick
  \/ CheckTermination \/ Arrive \/ StopReceiving \/ Drop \/ Enqueue
  \/ \E p \in Printers : Dequeue(p) \/ BeginService(p) \/ EndService(p) \/ Depart(p)
  \/ Stop \/ DrainOne \/ Drained
  \/ End \/ Reported

Spec == Init /\ [][Next]_vars

-----------------------------------------------------------------------------
(* The report (simulation_stats.c) *)

\* A quotient is a pair; what the code returns 0.0 for is Zero.
Quotient(n, d) == [num |-> n, den |-> d]
Zero           == Quotient(0, 1)
PerJob(total)  == IF stats.served = 0 THEN Zero ELSE Quotient(total, stats.served)
PerTime(total) == IF stats.duration = 0 THEN Zero ELSE Quotient(total, stats.duration)

\* Over the printers that served a job, and those before them.
Total(f) == MapThenSumSet(LAMBDA p : f[p], 1..stats.printersUsed)

calculate_average_inter_arrival_time ==
  IF stats.arrived <= 1 THEN Zero ELSE Quotient(stats.interArrival, stats.arrived - 1)

calculate_average_queue_wait_time      == PerJob(stats.queueWait)
calculate_average_system_time          == PerJob(stats.systemTime)
calculate_overall_average_service_time == PerJob(Total(stats.serviceTime))

calculate_average_queue_length  == PerTime(stats.area)
calculate_system_utilization(p) == PerTime(stats.serviceTime[p])
calculate_job_arrival_rate      == PerTime(stats.arrived)

calculate_job_drop_probability ==
  IF stats.arrived = 0 THEN Zero ELSE Quotient(stats.dropped, stats.arrived)

PrintersToReport == 1..(IF stats.printersUsed > 0 THEN stats.printersUsed ELSE 2)

-----------------------------------------------------------------------------
(* Properties *)

InHands   == {JobOf(p) : p \in {q \in Printers : elem[q] # NoNode}}
Offered   == IF rpc = "offer" THEN {latest} ELSE {}
Waiting   == {j \in 1..latest : outcome[j] = "none"} \ (InHands \cup Offered)
LeftQueue == InHands \cup {j \in Jobs : outcome[j] = "served"}

\* What is found by walking the queue from its front, as publish_jobs_update
\* does, is the jobs that wait, oldest first, and the other way round from its
\* back; whatever left the queue was older (websocket_handler.c:155-181,
\* linked_list.c:83-117, printer.c:111).
QueueHoldsWaitingJobs ==
  /\ {Forward[i] : i \in DOMAIN Forward} = Waiting
  /\ \A j \in LeftQueue, k \in Waiting : j < k
  /\ \A i, k \in DOMAIN Forward : i < k => Forward[i] < Forward[k]
  /\ Backward = [i \in DOMAIN Forward |-> Forward[Len(Forward) + 1 - i]]

TimeInQueue(j) == stamp[j].queueDeparture - stamp[j].queueArrival
TimeSoFar(j)   == lastInteraction - stamp[j].queueArrival

\* The receiver and the printers together maintain the integral of the queue
\* length: the time each job has spent in the queue, up to the last change.  A
\* stop that removes jobs leaves out part of their time, so the integral is then
\* a lower bound (console_handler.c:120-141, signalcatcher.c:18-28).
AreaIsIntegral ==
  LET spent == MapThenSumSet(TimeInQueue, LeftQueue) + MapThenSumSet(TimeSoFar, Waiting)
      removed == {j \in Jobs : outcome[j] = "removed"}
  IN  /\ removed = {} => stats.area = spent
      /\ stats.area <= spent + MapThenSumSet(TimeInQueue, removed)

\* simulation_stats.h:25 says of max_job_queue_length: the peak number of jobs ever
\* in the queue.
MaxQueueIsPeak == stats.maxQueue = peak

a \preceq b  == a.num * b.den <= b.num * a.den
Plus(a, b)   == Quotient(a.num * b.den + b.num * a.den, a.den * b.den)
Times(a, b)  == Quotient(a.num * b.num, a.den * b.den)

\* The printers listed served all the jobs served, none of them busy for longer
\* than the run; a job waits and is printed in its time in the system; the average
\* queue is no longer than the longest, and without a stop Little's law holds, the
\* area being the time the served jobs waited; dropped jobs are some of those that
\* arrived, and their gaps are counted; the average gap, n of them divided by
\* n - 1, is too long by no more than that.
ReportAddsUp ==
  /\ Total(stats.jobsServed) = stats.served
  /\ \A p \in Printers : stats.jobsServed[p] > 0 => p \in PrintersToReport
  /\ \A p \in Printers : calculate_system_utilization(p) \preceq Quotient(1, 1)
  /\ Plus(calculate_average_queue_wait_time, calculate_overall_average_service_time)
       \preceq calculate_average_system_time
  /\ calculate_average_queue_length \preceq Quotient(peak, 1)
  /\ spc = "sigwait" => stats.area = stats.queueWait
  /\ calculate_job_drop_probability \preceq Quotient(1, 1)
  /\ latest > 0 => stats.interArrival = stamp[latest].systemArrival
  /\ latest > 1 => Times(calculate_average_inter_arrival_time, calculate_job_arrival_rate)
                     \preceq Quotient(latest, latest - 1)

\* When main reports, the figures of the report agree with each other
\* (simulation_stats.c:15-121).
ReportIsConsistent == mpc = "report" => ReportAddsUp

SystemTime(j) == stamp[j].serviceDeparture - stamp[j].systemArrival

\* simulation_stats.h says of sum_of_system_time_squared_us2: the sum of
\* (system_time)^2, for the standard deviation.
SquaresAreSummed ==
  stats.squares = MapThenSumSet(LAMBDA j : SystemTime(j) * SystemTime(j),
                                {j \in Jobs : outcome[j] = "served"})
=============================================================================
