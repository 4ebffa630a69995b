---------------------------- MODULE MCServerSession ----------------------------
(* A small session for TLC: two jobs, two printers, arguments at the limits.   *)
EXTENDS ServerSession, TLC

MCThreads == 0..3

\* Ids are only compared, and no property here is about liveness.
Symmetry == Permutations(Connections)

\* SIMULATION_DEFAULT_PARAMS_HIGH_LOAD with two jobs.
MCDefaults ==
  [num_jobs |-> 2, queue_capacity |-> -1, papers_lower |-> 10, papers_upper |-> 30,
   printer_paper_capacity |-> 90, consumer_count |-> 2, auto_scaling |-> 1]

MCArguments ==
  {<<"num_jobs", 0>>, <<"queue_capacity", 0>>, <<"papers_lower", 11>>,
   <<"papers_upper", 31>>, <<"printer_paper_capacity", 49>>, <<"printer_paper_capacity", 50>>,
   <<"consumer_count", 0>>, <<"consumer_count", 3>>, <<"unknown", 1>>}

MCConfigs ==
  {[auto_scaling |-> 0],
   [num_jobs |-> 1, auto_scaling |-> 0, consumer_count |-> 0, printer_paper_capacity |-> 1,
    queue_capacity |-> 1]}
=============================================================================
