--------------------------- MODULE MCUsageTracker ---------------------------
(* UsageTracker on few connections and updates; the bounds are constants.  *)
EXTENDS UsageTracker
=============================================================================
