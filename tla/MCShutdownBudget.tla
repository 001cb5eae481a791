-------------------------- MODULE MCShutdownBudget --------------------------
(* ShutdownBudget with the timeouts of the code; the hooks and requests    *)
(* are bounds.                                                             *)
EXTENDS ShutdownBudget
=============================================================================
