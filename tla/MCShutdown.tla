----------------------------- MODULE MCShutdown -----------------------------
(* Shutdown with a few clients; every constant is a bound of the run.      *)
EXTENDS Shutdown
=============================================================================
