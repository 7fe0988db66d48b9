------------------------------- MODULE MCEconomy ------------------------------
(* Economy.tla on a short document, with a small bucket that regenerates in  *)
(* two time units and refills after an absence of more than four.            *)
EXTENDS Economy

MCCapacity == 2
MCRegenSeconds == 2
MCIdleMultiplier == 2

===============================================================================
