---------------------------- MODULE CallTracking ----------------------------
(***************************************************************************)
(* What call_tool and handle_connection_delete (src/src/server.rs) do to   *)
(* the two trackers.  A call sends to the history and then to the usage    *)
(* tracker; a delete sends to the usage tracker and then to the history;   *)
(* each tracker has its own channel and its own background task, and the   *)
(* handlers run on several threads.                                        *)
(*                                                                         *)
(* The connection id is a header the client may leave out: such a call is  *)
(* not tracked.  A tool may panic, or its handler be dropped, at the await *)
(* of the tool; there is no await between the two sends.                   *)
(***************************************************************************)
EXTENDS Naturals, Sequences

CONSTANTS
  Conns,     \* connection ids
  NoConn,    \* what call_tool finds when the header is missing
  Calls,     \* tool calls
  Deletes    \* DELETE /mcp/connection/{id} requests

ASSUME CallTrackingAssumption == NoConn \notin Conns

VARIABLES
  call,           \* progress of each call_tool
  callConn,       \* the connection id it carries
  delete,         \* progress of each handle_connection_delete
  deleteConn,     \* the connection it deletes
  usageQueue,     \* UsageTracker: the channel
  usage,          \* UsageTracker: connections with stats
  historyQueue,   \* ToolHistory: the channel
  history,        \* ToolHistory: connections with records
  overlap         \* history variable: how a call relates to the deletes
                  \* of its connection

vars == <<call, callConn, delete, deleteConn, usageQueue, usage,
          historyQueue, history, overlap>>

U == INSTANCE TrackerTable WITH queue <- usageQueue, present <- usage
H == INSTANCE TrackerTable WITH queue <- historyQueue, present <- history

handlers == <<call, callConn, delete, deleteConn, overlap>>

CallState   == {"none", "running", "historySent", "done"}
DeleteState == {"none", "usageRemoved", "cleaning", "done"}

-----------------------------------------------------------------------------
Init ==
  /\ call = [k \in Calls |-> "none"]
  /\ callConn \in [Calls -> Conns \cup {NoConn}]
  /\ delete = [d \in Deletes |-> "none"]
  /\ deleteConn \in [Deletes -> Conns]
  /\ overlap = [k \in Calls |-> "clear"]
  /\ U!Init
  /\ H!Init

CallStep(k, from, to) ==
  /\ call[k] = from
  /\ call' = [call EXCEPT ![k] = to]
  /\ UNCHANGED <<callConn, delete, deleteConn>>

DeleteStep(d, from, to) ==
  /\ delete[d] = from
  /\ delete' = [delete EXCEPT ![d] = to]
  /\ UNCHANGED <<call, callConn, deleteConn>>

DeletesOf(c) == {d \in Deletes : deleteConn[d] = c}

(* The tool starts.  A call that begins after a delete of its connection   *)
(* has started is marked "after".                                          *)
BeginCall(k) ==
  /\ CallStep(k, "none", "running")
  /\ overlap' = [overlap EXCEPT ![k] =
       IF \E d \in DeletesOf(callConn[k]) : delete[d] # "none"
         THEN "after" ELSE @]
  /\ UNCHANGED <<usageQueue, usage, historyQueue, history>>

(* The tool has answered; history.track_call, if there is a connection id. *)
TrackHistory(k) ==
  /\ callConn[k] # NoConn
  /\ CallStep(k, "running", "historySent")
  /\ H!Add(callConn[k])
  /\ UNCHANGED <<usageQueue, usage, overlap>>

TrackUsage_MayBeSkipped(k) ==
  /\ CallStep(k, "historySent", "done")
  /\ U!Add(callConn[k]) \/ UNCHANGED <<usageQueue, usage>>
  /\ UNCHANGED <<historyQueue, history, overlap>>

(* usage_tracker.track_success or track_failure.                           *)
TrackUsage(k) ==
  /\ CallStep(k, "historySent", "done")
  /\ U!Add(callConn[k])
  /\ UNCHANGED <<historyQueue, history, overlap>>

(* The answer of a call without a connection id, a panic, a dropped call.  *)
EndUntracked(k) ==
  /\ CallStep(k, "running", "done")
  /\ UNCHANGED <<usageQueue, usage, historyQueue, history, overlap>>

(* usage_tracker.remove_connection.  The calls of the connection that are  *)
(* under way are marked "during".                                          *)
InFlight(k, d) ==
  callConn[k] = deleteConn[d] /\ call[k] \in {"running", "historySent"}

MarkOverlap(d) ==
  overlap' = [k \in Calls |-> IF InFlight(k, d) /\ overlap[k] = "clear"
                                THEN "during" ELSE overlap[k]]

RemoveUsage_OnEmptyTable(d) ==
  /\ DeleteStep(d, "none", "usageRemoved")
  /\ IF deleteConn[d] \in usage
       THEN U!Remove(deleteConn[d])
       ELSE UNCHANGED <<usageQueue, usage>>
  /\ MarkOverlap(d)
  /\ UNCHANGED <<historyQueue, history>>

RemoveUsage(d) ==
  /\ DeleteStep(d, "none", "usageRemoved")
  /\ U!Remove(deleteConn[d])
  /\ MarkOverlap(d)
  /\ UNCHANGED <<historyQueue, history>>

(* tool_history.remove_connection, up to the await of the cleanup handler. *)
RemoveHistory(d) ==
  /\ DeleteStep(d, "usageRemoved", "cleaning")
  /\ H!Remove(deleteConn[d])
  /\ UNCHANGED <<usageQueue, usage, overlap>>

(* The cleanup handler of the category server returns, if there is one.    *)
CleanupDone(d) ==
  /\ DeleteStep(d, "cleaning", "done")
  /\ UNCHANGED <<usageQueue, usage, historyQueue, history, overlap>>

ApplyUsage   == U!Apply /\ UNCHANGED <<handlers, historyQueue, history>>
ApplyHistory == H!Apply /\ UNCHANGED <<handlers, usageQueue, usage>>

CallNext(k) ==
  \/ BeginCall(k)
  \/ TrackHistory(k)
  \/ TrackUsage(k)
  \/ EndUntracked(k)

DeleteNext(d) ==
  \/ RemoveUsage(d)
  \/ RemoveHistory(d)
  \/ CleanupDone(d)

Next ==
  \/ \E k \in Calls : CallNext(k)
  \/ \E d \in Deletes : DeleteNext(d)
  \/ ApplyUsage
  \/ ApplyHistory

Spec == Init /\ [][Next]_vars

-----------------------------------------------------------------------------
TypeOK ==
  /\ call \in [Calls -> CallState]
  /\ callConn \in [Calls -> Conns \cup {NoConn}]
  /\ delete \in [Deletes -> DeleteState]
  /\ deleteConn \in [Deletes -> Conns]
  /\ overlap \in [Calls -> {"clear", "during", "after"}]
  /\ U!TypeOK
  /\ H!TypeOK

(* Nothing about c is still on its way.                                    *)
BetweenSends(c) ==
  \/ \E k \in Calls : callConn[k] = c /\ call[k] = "historySent"
  \/ \E d \in Deletes : deleteConn[d] = c /\ delete[d] = "usageRemoved"

Quiet(c) == usageQueue = << >> /\ historyQueue = << >> /\ ~BetweenSends(c)

(* GET /mcp/stats and GET /mcp/history: a copy of the connection's entry,  *)
(* or 404.  Neither waits for the updates that are still queued.           *)
get_stats_for_connection(c)   == c \in usage
get_history_for_connection(c) == c \in history

handle_stats(c)   == IF get_stats_for_connection(c) THEN "OK" ELSE "NOT_FOUND"
handle_history(c) == IF get_history_for_connection(c) THEN "OK" ELSE "NOT_FOUND"

(* Calls and deletes send to the two trackers in opposite orders, through  *)
(* channels that nothing synchronises.  Whatever the interleaving, once    *)
(* the updates are applied GET /mcp/stats answers for every connection for *)
(* which GET /mcp/history does.                                            *)
HistoryImpliesStats ==
  \A c \in Conns :
    Quiet(c) /\ handle_history(c) = "OK" => handle_stats(c) = "OK"

(* A delete that overlaps no call of its connection forgets it for good.   *)
ForgetsWhen(tags) ==
  \A d \in Deletes :
    LET c == deleteConn[d] IN
      /\ delete[d] \in {"cleaning", "done"}
      /\ Quiet(c)
      /\ \A k \in Calls : callConn[k] = c => overlap[k] \in tags
      => c \notin usage /\ c \notin history

OrderlyDeleteForgets == ForgetsWhen({"clear"})

(* "Called when a connection drops to cleanup connection-specific          *)
(* resources": when no call of the connection begins after its delete, no  *)
(* entry of it is left.  A call under way when the delete arrives breaks   *)
(* this: it enters the connection again when it ends.                      *)
DroppedConnectionForgotten == ForgetsWhen({"clear", "during"})

-----------------------------------------------------------------------------
(* The same of the tables as they will be once the channels are empty.     *)
HistoryEndsWithStats ==
  \A c \in Conns :
    H!EndsPresent(c) => U!EndsPresent(c) \/ BetweenSends(c)

DeletedEndsAbsent ==
  \A d \in Deletes :
    (\A k \in Calls : callConn[k] = deleteConn[d] => overlap[k] = "clear") =>
      /\ delete[d] # "none" => ~U!EndsPresent(deleteConn[d])
      /\ delete[d] \in {"cleaning", "done"} => ~H!EndsPresent(deleteConn[d])

ClearMeansApart ==
  \A d \in Deletes, k \in Calls :
    callConn[k] = deleteConn[d] /\ delete[d] # "none" /\ overlap[k] = "clear"
      => call[k] \in {"none", "done"}

TrackedHasConn == \A k \in Calls : call[k] = "historySent" => callConn[k] # NoConn

IInv ==
  /\ TypeOK
  /\ TrackedHasConn
  /\ HistoryEndsWithStats
  /\ ClearMeansApart
  /\ DeletedEndsAbsent
=============================================================================
