-------------------------- MODULE MCScaledPrintService --------------------------
(***************************************************************************)
(* ScaledPrintService for TLC; the instances are in the cfg files.         *)
(***************************************************************************)
EXTENDS ScaledPrintService

Unlimited == -1  \* CONFIG_DEFAULT_MAX_QUEUE

\* The state but for the counters.  No guard reads them, so two states that differ
\* in them alone have the same future, and no invariant of the run says more of
\* them than their type, which every step that changes one keeps.
WithoutStatistics ==
  <<queueVars, refillQueue, syncVars, flagVars, paperVars, receiverVars, printerVars,
    refillerVars, spc, mpc, scalerVars, scalerDoomed, joinSlot, lost, listRaced>>
=============================================================================
