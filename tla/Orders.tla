------------------------------- MODULE Orders -------------------------------
(***************************************************************************)
(* Sorting and filtering as the dashboard does them: sorted and list.sort  *)
(* of Python, comprehensions that keep the order.  An order is given by    *)
(* what comes before each element, as a function, and the n-th element is  *)
(* the one with n - 1 others before it: that is all there is to prove      *)
(* about, where SetToSortSeq and SelectSeq rest on built-ins of their own. *)
(***************************************************************************)
EXTENDS Naturals, Sequences, FiniteSets

\* The elements of DOMAIN before, ordered.
Sorted(before) ==
  [n \in 1..Cardinality(DOMAIN before) |->
     CHOOSE x \in DOMAIN before : Cardinality(before[x]) = n - 1]

\* What a sequence has at some of its places, in its order.
Subsequence(q, places) ==
  LET order == Sorted([n \in places |-> {m \in places : m < n}])
  IN [k \in DOMAIN order |-> q[order[k]]]
=============================================================================
