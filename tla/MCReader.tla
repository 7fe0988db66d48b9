-------------------------------- MODULE MCReader ------------------------------
(* Reader.tla with one or two short documents. *)
EXTENDS Reader, TLC

CONSTANTS d1, d2

TwoDocuments == {d1, d2}
ALongAndAShortOne == d1 :> 3 @@ d2 :> 1
OneDocument == {d1}
ThreeChunks == d1 :> 3
FourChunks == d1 :> 4

===============================================================================
