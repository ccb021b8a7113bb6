---------------------------- MODULE MCMemoryStore ----------------------------
(***************************************************************************)
(* MemoryStore on four objects and three ids: a list of three rows makes   *)
(* the search probe on both sides, and two objects share an id.            *)
(***************************************************************************)
EXTENDS MemoryStore

CONSTANTS a, b, c, c2

MCTasks == {a, b, c, c2}
MCIds   == 1..3
MCIdOf  == (a :> 1) @@ (b :> 2) @@ (c :> 3) @@ (c2 :> 3)
MCTimes == 1..2
==============================================================================
