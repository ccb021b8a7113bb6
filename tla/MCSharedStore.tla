---------------------------- MODULE MCSharedStore ----------------------------
(***************************************************************************)
(* Two processes and one task on every kind of store, up to two calls of   *)
(* the API and one shutdown or crash; q cannot rebuild what p stores.      *)
(***************************************************************************)
EXTENDS SharedStore

CONSTANTS p, q, a

MCProcs    == {p, q}
MCIds      == {a}
MCTimes    == 1..2
MCUserTimes == {1, Paused}
MCStrangers == {q}
==============================================================================
