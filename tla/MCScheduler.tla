----------------------------- MODULE MCScheduler -----------------------------
(***************************************************************************)
(* Scheduler on up to three objects: a, and b and b2, which share an id.   *)
(***************************************************************************)
EXTENDS Scheduler, TLC

CONSTANTS a, b, b2

MCIds   == 1..2
MCIdOf  == [t \in Tasks |-> IF t = a THEN 1 ELSE 2]
MCTimes == 0 .. MaxTime

\* Clients do the same calls: their names do not matter to the invariants.
ClientSymmetry == Permutations(Clients)
=============================================================================
