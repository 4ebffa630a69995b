------------------------------ MODULE PrinterPool ------------------------------
(***************************************************************************)
(* The slots of the printer pool (printer_pool_t of printer.h): which slot *)
(* has a printer thread, and the count the code keeps beside them.  The    *)
(* pool mutex is taken by the autoscaler alone, so it guards nothing that  *)
(* happens here; the autoscaler and main use the pool through these        *)
(* operators.                                                              *)
(***************************************************************************)
EXTENDS Integers, FiniteSets

CONSTANTS
  ConsumerCount,  \* pool->min_count: the printers main starts
  MaxPrinters     \* CONFIG_RANGE_CONSUMER_COUNT_MAX: slots of the pool

ASSUME PoolAssumption ==
  /\ ConsumerCount \in Nat \ {0}
  /\ MaxPrinters \in Nat /\ ConsumerCount <= MaxPrinters

VARIABLES
  active,       \* pool->printers[s - 1].active
  activeCount   \* pool->active_count

poolVars == <<active, activeCount>>

Slots    == 1..MaxPrinters
Minimum  == 1..ConsumerCount
Occupied == {s \in Slots : active[s]}

\* printer_pool_init, and the initial printers started by main.
PoolInit ==
  /\ active = [s \in Slots |-> s \in Minimum]
  /\ activeCount = ConsumerCount

Full == activeCount >= MaxPrinters

\* printer_pool_start_printer returns 1.
StartPrinter(s) ==
  /\ ~Full /\ ~active[s]
  /\ active' = [active EXCEPT ![s] = TRUE]
  /\ activeCount' = activeCount + 1

RemovePrinter(s) ==
  /\ active' = [active EXCEPT ![s] = FALSE]
  /\ activeCount' = activeCount - 1

\* Mutant: the loop also looks at index min_count - 1.
Removable_OneTooMany(idle) == {s \in ConsumerCount..activeCount : active[s] /\ idle[s]}

\* The slots that the loops from active_count - 1 down to min_count find
\* active and idle.  active_count is the index of the last slot looked at,
\* whether or not the occupied slots are the first ones.
Removable(idle) == {s \in (ConsumerCount + 1)..activeCount : active[s] /\ idle[s]}

Newest(S) == CHOOSE s \in S : \A r \in S : r <= s

PoolTypeOK ==
  /\ active \in [Slots -> BOOLEAN]
  /\ activeCount \in 0..MaxPrinters

\* The count that the code keeps, and uses as an index, is the number of
\* occupied slots (printer.c:231, autoscaling.c:187-188), and the printers the
\* program was configured with are never removed.
PoolWithinLimits ==
  /\ activeCount = Cardinality(Occupied)
  /\ \A s \in Minimum : active[s]
=============================================================================
