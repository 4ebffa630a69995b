------------------------------ MODULE Parameters ------------------------------
(***************************************************************************)
(* The parameters of a simulation: the defaults and the command line        *)
(* (preprocessing.c) at the start of either program, and the configuration *)
(* a client sends with a start command (server.c), which nothing checks.   *)
(* Rates and times are left out.                                           *)
(***************************************************************************)
EXTENDS Integers

CONSTANTS
  Defaults,     \* SIMULATION_DEFAULT_PARAMS or SIMULATION_DEFAULT_PARAMS_HIGH_LOAD
  Arguments,    \* pairs <<option, value>> that may be given
  MaxArguments, \* bound on their number
  MaxPrinters   \* CONFIG_RANGE_CONSUMER_COUNT_MAX

\* The ranges of config.h; a printer that is full can print any job.
AcceptedParameters ==
  [num_jobs : Nat \ {0}, queue_capacity : {-1} \cup (Nat \ {0}), papers_lower : 5..10,
   papers_upper : 15..30, printer_paper_capacity : 50..200, consumer_count : 1..MaxPrinters,
   auto_scaling : {0, 1}]

ASSUME DefaultsAssumption ==
  Defaults \in AcceptedParameters /\ \A a \in Arguments : a[2] \in Int

VARIABLES
  params,     \* simulation_parameters_t
  boot,       \* processing the arguments, refused, or ready
  argsSeen,   \* arguments processed
  configured  \* history: a client's configuration was applied

paramVars == <<params, boot, argsSeen, configured>>

ParametersInit ==
  params = Defaults /\ boot = "arguments" /\ argsSeen = 0 /\ configured = FALSE

\* Mutant: no printer at all is accepted.
Accepts_NoPrinters(option, value) ==
  CASE option = "num_jobs"               -> value > 0
    [] option = "queue_capacity"         -> value = -1 \/ value > 0
    [] option = "papers_lower"           -> value \in 5..10
    [] option = "papers_upper"           -> value \in 15..30
    [] option = "printer_paper_capacity" -> value \in 50..200
    [] option = "consumer_count"         -> value \in 0..MaxPrinters
    [] option = "auto_scaling"           -> value \in {0, 1}
    [] OTHER                             -> FALSE

\* The options and what process_args accepts for each.
Accepts(option, value) ==
  CASE option = "num_jobs"               -> value > 0
    [] option = "queue_capacity"         -> value = -1 \/ value > 0
    [] option = "papers_lower"           -> value \in 5..10
    [] option = "papers_upper"           -> value \in 15..30
    [] option = "printer_paper_capacity" -> value \in 50..200
    [] option = "consumer_count"         -> value \in 1..MaxPrinters
    [] option = "auto_scaling"           -> value \in {0, 1}
    [] OTHER                             -> FALSE

swap_bounds(ps) ==
  IF ps.papers_lower <= ps.papers_upper THEN ps
  ELSE [ps EXCEPT !.papers_lower = ps.papers_upper, !.papers_upper = ps.papers_lower]

\* An iteration of process_args: the value is stored before it is checked.
ProcessArgument(option, value) ==
  /\ boot = "arguments" /\ argsSeen < MaxArguments
  /\ argsSeen' = argsSeen + 1
  /\ LET stored == IF option \in DOMAIN params THEN [params EXCEPT ![option] = value] ELSE params
     IN  IF Accepts(option, value)
         THEN params' = swap_bounds(stored) /\ UNCHANGED boot
         ELSE params' = stored /\ boot' = "refused"
  /\ UNCHANGED configured

ArgumentsAccepted ==
  /\ boot = "arguments"
  /\ boot' = "ready"
  /\ UNCHANGED <<params, argsSeen, configured>>

\* A configuration without a positive jobCount is ignored as a whole; of the
\* others each value that is there is stored as it is.
Applies(config) == "num_jobs" \in DOMAIN config /\ config.num_jobs > 0

Configure(config) ==
  /\ IF Applies(config)
     THEN /\ params' = [f \in DOMAIN config \cup DOMAIN params |->
                         IF f \in DOMAIN config THEN config[f] ELSE params[f]]
          /\ configured' = TRUE
     ELSE UNCHANGED <<params, configured>>
  /\ UNCHANGED <<boot, argsSeen>>

\* What the threads rely on.
Safe(ps) ==
  /\ ps.num_jobs > 0 /\ (ps.queue_capacity = -1 \/ ps.queue_capacity > 0)
  /\ 0 < ps.papers_lower /\ ps.papers_lower <= ps.papers_upper
  /\ ps.papers_upper <= ps.printer_paper_capacity
  /\ ps.consumer_count \in 1..MaxPrinters
=============================================================================
