------------------------------- MODULE MCStartup ------------------------------
(* Startup.tla on two servers and a command-line process.  *)
EXTENDS Startup

===============================================================================
