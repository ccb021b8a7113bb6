----------------------------- MODULE MCLifecycle -----------------------------
(***************************************************************************)
(* Lifecycle for two users, which are enough to overlap a start with a     *)
(* shutdown, a start or an add_task, on one thread and on several.         *)
(***************************************************************************)
EXTENDS Lifecycle

CONSTANTS u1, u2, t1, t2
=============================================================================
