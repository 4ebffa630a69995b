---------------------------- MODULE MCPrintService ----------------------------
(***************************************************************************)
(* PrintService for TLC.  The instances are given in the cfg files; this   *)
(* module names the one value a cfg cannot write.                          *)
(***************************************************************************)
EXTENDS PrintService

Unlimited == -1  \* CONFIG_DEFAULT_MAX_QUEUE
=============================================================================
