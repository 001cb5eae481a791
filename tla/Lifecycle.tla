----------------------------- MODULE Lifecycle ------------------------------
(***************************************************************************)
(* What a server promises the owner of its ServerHandle: it is up until    *)
(* something stops it; it then stops its hooks one after another and goes  *)
(* down once, or is lost while one of them stops; and the answer of        *)
(* wait_for_completion is never better than what happened.  Shutdown is    *)
(* shown to implement this.                                                *)
(***************************************************************************)
EXTENDS Naturals

CONSTANT Hooks   \* number of hooks to stop

VARIABLES
  life,      \* "up", "stopping", "down" or "lost"
  pending,   \* hooks that have not stopped yet
  answer     \* what wait_for_completion has returned, if anything

lvars == <<life, pending, answer>>

Init == life = "up" /\ pending = Hooks /\ answer = "none"

Stop ==
  /\ life = "up"
  /\ life' = "stopping"
  /\ UNCHANGED <<pending, answer>>

StopHook ==
  /\ life = "stopping" /\ pending > 0
  /\ pending' = pending - 1
  /\ UNCHANGED <<life, answer>>

GoDown ==
  /\ life = "stopping" /\ pending = 0
  /\ life' = "down"
  /\ UNCHANGED <<pending, answer>>

GetLost ==
  /\ life = "stopping" /\ pending > 0
  /\ pending' = pending - 1
  /\ life' = "lost"
  /\ UNCHANGED answer

Answer ==
  /\ answer = "none"
  /\ \/ life = "down" /\ answer' = "ok"
     \/ life = "lost" /\ answer' = "lost"
     \/ life \in {"up", "stopping"} /\ answer' = "timeout"
  /\ UNCHANGED <<life, pending>>

Next == Stop \/ StopHook \/ GoDown \/ GetLost \/ Answer

Spec ==
  /\ Init
  /\ [][Next]_lvars
  /\ WF_lvars(StopHook \/ GoDown \/ GetLost)
=============================================================================
