--------------------------------- MODULE MCPage --------------------------------
(* Page.tla on numbered requests. *)
EXTENDS Page

===============================================================================
