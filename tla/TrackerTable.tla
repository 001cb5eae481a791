---------------------------- MODULE TrackerTable ----------------------------
(***************************************************************************)
(* What the usage tracker and the tool history have in common: a           *)
(* fire-and-forget channel of updates, applied in order by one background  *)
(* task, and a table with an entry for each connection that has one.  What *)
(* an entry holds is left to UsageTracker.                                 *)
(***************************************************************************)
EXTENDS Naturals, Sequences

CONSTANT Conns   \* connection ids

VARIABLES
  queue,     \* the unbounded channel, oldest update first
  present    \* the connections with an entry in the table

tvars == <<queue, present>>

Update == [op : {"add", "remove"}, conn : Conns]

Init == queue = << >> /\ present = {}

(* track_call, track_success, track_failure; remove_connection.            *)
Send(u) ==
  /\ queue' = Append(queue, u)
  /\ UNCHANGED present

Add(c)    == Send([op |-> "add", conn |-> c])
Remove(c) == Send([op |-> "remove", conn |-> c])

(* The background task: entry(..).or_default(), or remove.                 *)
Apply ==
  /\ queue # << >>
  /\ queue' = Tail(queue)
  /\ present' = IF Head(queue).op = "add"
                  THEN present \cup {Head(queue).conn}
                  ELSE present \ {Head(queue).conn}

Next ==
  \/ \E c \in Conns : Add(c) \/ Remove(c)
  \/ Apply

Spec == Init /\ [][Next]_tvars /\ WF_tvars(Apply)

-----------------------------------------------------------------------------
(* Whether c has an entry once the updates sent so far have been applied:  *)
(* the last update about c decides.                                        *)
LastAbout(i, c) ==
  /\ queue[i].conn = c
  /\ \A j \in 1..Len(queue) : j > i => queue[j].conn # c

EndsPresent(c) ==
  \/ \E i \in 1..Len(queue) : LastAbout(i, c) /\ queue[i].op = "add"
  \/ c \in present /\ \A i \in 1..Len(queue) : queue[i].conn # c

TypeOK == queue \in Seq(Update) /\ present \subseteq Conns
=============================================================================
