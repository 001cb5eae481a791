---------------------------- MODULE MCServerRun -----------------------------
(* ServerRun with one client and one hook; the constants are bounds.       *)
EXTENDS ServerRun
=============================================================================
