--------------------------- MODULE MCShutdownWait ---------------------------
(* A shutdown that waits for a pool with one or two jobs. *)
EXTENDS Executions
==============================================================================
