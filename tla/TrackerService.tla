--------------------------- MODULE TrackerService ---------------------------
(***************************************************************************)
(* What a tracker promises over the life of its process: it serves its     *)
(* TrackerTable until it is shut down, after which it takes nothing more,  *)
(* or until the process dies; a tracker started again has the entries its  *)
(* file held, and serves on.  UsageTracker and ToolHistory are shown to    *)
(* implement this.                                                         *)
(***************************************************************************)
EXTENDS TrackerTable

VARIABLE status   \* "up", "closed" or "down"

servars == <<queue, present, status>>

ServiceInit == Init /\ status = "up"

(* While it is up, what its table does.                                    *)
Up(Step) ==
  /\ status = "up"
  /\ Step
  /\ UNCHANGED status

Serve == Up(Next)

(* Updates sent after the shutdown are dropped with the channel.           *)
Stop ==
  /\ status = "up"
  /\ status' = "closed"
  /\ queue' = << >>
  /\ UNCHANGED present

Die ==
  /\ status # "down"
  /\ status' = "down"
  /\ queue' = << >>
  /\ present' = {}

Revive ==
  /\ status = "down"
  /\ status' = "up"
  /\ present' \in SUBSET Conns
  /\ UNCHANGED queue

ServiceNext == Serve \/ Stop \/ Die \/ Revive

ServiceSpec ==
  /\ ServiceInit
  /\ [][ServiceNext]_servars
  /\ WF_servars(Up(Apply))
=============================================================================
