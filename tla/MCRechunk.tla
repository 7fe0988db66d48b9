----------------------------- MODULE MCRechunk ------------------------------
(* Three pieces and three ways to chunk them: piece by piece, a long lead   *)
(* with a tail, and a short lead with a long tail.                          *)
EXTENDS Rechunk, TLC

MCPlans == { <<{1}, {2}, {3}>>, <<{1, 2}, {3}>>, <<{1}, {2, 3}>> }

\* Three different pieces.
DistinctText == <<"title", "one", "two">>

\* Bound: what follows two different mishaps is not explored.
MCMishaps == Cardinality(mishaps) <= 1

MCSymmetry == Permutations(Requests)
=============================================================================
