--------------------------- MODULE MCCallTracking ---------------------------
(* CallTracking with a few handlers; every constant is a bound of the run. *)
EXTENDS CallTracking, TLC

Handlers == Permutations(Calls) \cup Permutations(Deletes) \cup Permutations(Conns)
=============================================================================
