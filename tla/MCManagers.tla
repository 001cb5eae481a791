----------------------------- MODULE MCManagers -----------------------------
(* Managers with a bounded number of registrations; the bound is MaxHooks. *)
EXTENDS Managers
=============================================================================
