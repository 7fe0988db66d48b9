----------------------------- MODULE MCArrivals -----------------------------
(* One name of each kind of file. *)
EXTENDS Arrivals, TLC

CONSTANTS note, paper, data

MCNames    == {note, paper, data}
MCSuffix   == [n \in MCNames |-> CASE n = note -> "md" [] n = paper -> "pdf" [] OTHER -> "other"]

\* Requests are alike, and no property is about liveness.
MCSymmetry == Permutations(Requests)
=============================================================================
