------------------------- MODULE CallTrackingProofs -------------------------
(***************************************************************************)
(* Proofs about the two trackers for any connections, calls and deletes.   *)
(* The argument looks past the queues, at what each table will hold when   *)
(* they are empty: sending is what counts, applying changes nothing.       *)
(***************************************************************************)
EXTENDS CallTracking, TLAPS

UP == INSTANCE TrackerLemmas WITH queue <- usageQueue, present <- usage
HP == INSTANCE TrackerLemmas WITH queue <- historyQueue, present <- history

-----------------------------------------------------------------------------
(* The facts about one table, for each of the two.                         *)

(* The operators of the usage table are those its lemmas are about.        *)
LEMMA UsageSame ==
  /\ U!TypeOK <=> UP!TypeOK
  /\ U!TypeOK' <=> UP!TypeOK'
  /\ \A c : U!EndsPresent(c) <=> UP!EndsPresent(c)
  /\ \A c : U!EndsPresent(c)' <=> UP!EndsPresent(c)'
  /\ \A u : U!Send(u) <=> UP!Send(u)
  /\ U!Apply <=> UP!Apply
  BY DEF U!TypeOK, UP!TypeOK, U!Update, UP!Update, U!EndsPresent,
         UP!EndsPresent, U!LastAbout, UP!LastAbout, U!Send, UP!Send,
         U!Apply, UP!Apply

(* A send to the usage tracker decides how its connection ends there.      *)
LEMMA UsageSend ==
  ASSUME U!TypeOK, NEW c \in Conns, NEW o \in {"add", "remove"},
         U!Send([op |-> o, conn |-> c])
  PROVE  /\ U!TypeOK'
         /\ \A e \in Conns :
              U!EndsPresent(e)' <=> IF e = c THEN o = "add" ELSE U!EndsPresent(e)
<1> DEFINE u == [op |-> o, conn |-> c]
<1>1. u \in UP!Update /\ UP!Send(u) /\ UP!TypeOK
  BY UsageSame DEF UP!Update
<1>2. U!TypeOK'
  BY <1>1, UsageSame, UP!StepTyped
<1>3. ASSUME NEW e \in Conns
      PROVE  UP!EndsPresent(e)'
               <=> IF u.conn = e THEN u.op = "add" ELSE UP!EndsPresent(e)
  BY <1>1, UP!SendDecides
<1> QED
  BY <1>2, <1>3, UsageSame

(* Applying an update of the usage table changes no ending.                *)
LEMMA UsageApply ==
  ASSUME U!TypeOK, U!Apply
  PROVE  /\ U!TypeOK'
         /\ \A e \in Conns : U!EndsPresent(e)' <=> U!EndsPresent(e)
<1>1. UP!TypeOK /\ UP!Apply
  BY UsageSame
<1>2. U!TypeOK'
  BY <1>1, UsageSame, UP!StepTyped
<1>3. ASSUME NEW e \in Conns
      PROVE  UP!EndsPresent(e)' <=> UP!EndsPresent(e)
  BY <1>1, UP!ApplyKeeps
<1> QED
  BY <1>2, <1>3, UsageSame

(* A step that leaves the usage tracker alone keeps its endings.           *)
LEMMA UsageFrame ==
  ASSUME UNCHANGED <<usageQueue, usage>>
  PROVE  /\ U!TypeOK => U!TypeOK'
         /\ \A e \in Conns : U!EndsPresent(e)' <=> U!EndsPresent(e)
  BY DEF U!TypeOK, U!EndsPresent, U!LastAbout

(* The operators of the history are those its lemmas are about.            *)
LEMMA HistorySame ==
  /\ H!TypeOK <=> HP!TypeOK
  /\ H!TypeOK' <=> HP!TypeOK'
  /\ \A c : H!EndsPresent(c) <=> HP!EndsPresent(c)
  /\ \A c : H!EndsPresent(c)' <=> HP!EndsPresent(c)'
  /\ \A u : H!Send(u) <=> HP!Send(u)
  /\ H!Apply <=> HP!Apply
  BY DEF H!TypeOK, HP!TypeOK, H!Update, HP!Update, H!EndsPresent,
         HP!EndsPresent, H!LastAbout, HP!LastAbout, H!Send, HP!Send,
         H!Apply, HP!Apply

(* A send to the history decides how its connection ends there.            *)
LEMMA HistorySend ==
  ASSUME H!TypeOK, NEW c \in Conns, NEW o \in {"add", "remove"},
         H!Send([op |-> o, conn |-> c])
  PROVE  /\ H!TypeOK'
         /\ \A e \in Conns :
              H!EndsPresent(e)' <=> IF e = c THEN o = "add" ELSE H!EndsPresent(e)
<1> DEFINE u == [op |-> o, conn |-> c]
<1>1. u \in HP!Update /\ HP!Send(u) /\ HP!TypeOK
  BY HistorySame DEF HP!Update
<1>2. H!TypeOK'
  BY <1>1, HistorySame, HP!StepTyped
<1>3. ASSUME NEW e \in Conns
      PROVE  HP!EndsPresent(e)'
               <=> IF u.conn = e THEN u.op = "add" ELSE HP!EndsPresent(e)
  BY <1>1, HP!SendDecides
<1> QED
  BY <1>2, <1>3, HistorySame

(* Applying an update of the history changes no ending.                    *)
LEMMA HistoryApply ==
  ASSUME H!TypeOK, H!Apply
  PROVE  /\ H!TypeOK'
         /\ \A e \in Conns : H!EndsPresent(e)' <=> H!EndsPresent(e)
<1>1. HP!TypeOK /\ HP!Apply
  BY HistorySame
<1>2. H!TypeOK'
  BY <1>1, HistorySame, HP!StepTyped
<1>3. ASSUME NEW e \in Conns
      PROVE  HP!EndsPresent(e)' <=> HP!EndsPresent(e)
  BY <1>1, HP!ApplyKeeps
<1> QED
  BY <1>2, <1>3, HistorySame

(* A step that leaves the history alone keeps its endings.                 *)
LEMMA HistoryFrame ==
  ASSUME UNCHANGED <<historyQueue, history>>
  PROVE  /\ H!TypeOK => H!TypeOK'
         /\ \A e \in Conns : H!EndsPresent(e)' <=> H!EndsPresent(e)
  BY DEF H!TypeOK, H!EndsPresent, H!LastAbout

-----------------------------------------------------------------------------
(* Each action keeps IInv.                                                 *)

(* Before any handler starts both channels and both tables are empty.      *)
LEMMA InitIInv == Init => IInv
<1> SUFFICES ASSUME Init PROVE IInv
  OBVIOUS
<1>1. /\ usageQueue = << >> /\ usage = {}
      /\ historyQueue = << >> /\ history = {}
  BY DEF Init, U!Init, H!Init
<1>2. U!TypeOK /\ H!TypeOK
  BY <1>1 DEF U!TypeOK, H!TypeOK
<1>3. \A c : ~U!EndsPresent(c) /\ ~H!EndsPresent(c)
  BY <1>1 DEF U!EndsPresent, H!EndsPresent
<1>4. TypeOK
  BY <1>2 DEF Init, TypeOK, CallState, DeleteState
<1>5. TrackedHasConn /\ ClearMeansApart
  BY DEF Init, TrackedHasConn, ClearMeansApart
<1> QED
  BY <1>3, <1>4, <1>5 DEF IInv, HistoryEndsWithStats, DeletedEndsAbsent

(* Starting or ending a call without a word to the trackers.               *)
LEMMA SilentCallIInv ==
  ASSUME IInv, NEW k \in Calls, BeginCall(k) \/ EndUntracked(k) PROVE IInv'
<1> USE DEF IInv, CallStep
<1>1. UNCHANGED <<usageQueue, usage>> /\ UNCHANGED <<historyQueue, history>>
  BY DEF BeginCall, EndUntracked
<1>2. TypeOK'
  BY <1>1, UsageFrame, HistoryFrame
     DEF BeginCall, EndUntracked, TypeOK, CallState
<1>3. TrackedHasConn' /\ ClearMeansApart'
  BY DEF BeginCall, EndUntracked, DeletesOf, TypeOK, TrackedHasConn,
         ClearMeansApart
<1>4. HistoryEndsWithStats'
  <2>1. \A c \in Conns : BetweenSends(c)' <=> BetweenSends(c)
    BY DEF BeginCall, EndUntracked, TypeOK, BetweenSends
  <2> QED
    BY <1>1, <2>1, UsageFrame, HistoryFrame DEF HistoryEndsWithStats
<1>5. DeletedEndsAbsent'
  <2>1. \A j \in Calls : overlap'[j] = "clear" => overlap[j] = "clear"
    BY DEF BeginCall, EndUntracked, TypeOK
  <2>2. UNCHANGED <<callConn, delete, deleteConn>>
    BY DEF BeginCall, EndUntracked
  <2> QED
    BY <1>1, <2>1, <2>2, UsageFrame, HistoryFrame
       DEF DeletedEndsAbsent, TypeOK
<1> QED
  BY <1>2, <1>3, <1>4, <1>5

(* The first send of a call: its history ends present, its stats are on    *)
(* their way.  No delete that counts it as clear has started.              *)
LEMMA TrackHistoryIInv ==
  ASSUME IInv, NEW k \in Calls, TrackHistory(k) PROVE IInv'
<1> USE DEF IInv, CallStep
<1> DEFINE c == callConn[k]
<1>1. /\ c \in Conns /\ call[k] = "running" /\ call'[k] = "historySent"
      /\ \A j \in Calls : j # k => call'[j] = call[j]
      /\ UNCHANGED <<callConn, delete, deleteConn, overlap>>
      /\ UNCHANGED <<usageQueue, usage>>
  BY DEF TrackHistory, TypeOK
<1>2. /\ H!TypeOK'
      /\ \A e \in Conns : H!EndsPresent(e)' <=> (e = c \/ H!EndsPresent(e))
  <2>1. H!Send([op |-> "add", conn |-> c])
    BY DEF TrackHistory, H!Add
  <2> QED
    BY <1>1, <2>1, HistorySend DEF TypeOK
<1>3. TypeOK'
  BY <1>1, <1>2, UsageFrame DEF TrackHistory, TypeOK, CallState
<1>4. \A d \in Deletes : deleteConn[d] = c /\ delete[d] # "none" => overlap[k] # "clear"
  BY <1>1 DEF ClearMeansApart
<1>5. TrackedHasConn' /\ ClearMeansApart'
  BY <1>1, <1>4 DEF TrackHistory, TypeOK, TrackedHasConn, ClearMeansApart
<1>6. HistoryEndsWithStats'
  <2>1. BetweenSends(c)' /\ \A e \in Conns : BetweenSends(e) => BetweenSends(e)'
    BY <1>1 DEF BetweenSends
  <2> QED
    BY <1>1, <1>2, <2>1, UsageFrame DEF HistoryEndsWithStats
<1>7. DeletedEndsAbsent'
  BY <1>1, <1>2, <1>4, UsageFrame DEF DeletedEndsAbsent, TypeOK
<1> QED
  BY <1>3, <1>5, <1>6, <1>7

(* The second send of a call: its stats end present.                       *)
LEMMA TrackUsageIInv ==
  ASSUME IInv, NEW k \in Calls, TrackUsage(k) PROVE IInv'
<1> USE DEF IInv, CallStep
<1> DEFINE c == callConn[k]
<1>1. /\ c \in Conns /\ call[k] = "historySent" /\ call'[k] = "done"
      /\ \A j \in Calls : j # k => call'[j] = call[j]
      /\ UNCHANGED <<callConn, delete, deleteConn, overlap>>
      /\ UNCHANGED <<historyQueue, history>>
  BY DEF TrackUsage, TypeOK, TrackedHasConn
<1>2. /\ U!TypeOK'
      /\ \A e \in Conns : U!EndsPresent(e)' <=> (e = c \/ U!EndsPresent(e))
  <2>1. U!Send([op |-> "add", conn |-> c])
    BY DEF TrackUsage, U!Add
  <2> QED
    BY <1>1, <2>1, UsageSend DEF TypeOK
<1>3. TypeOK'
  BY <1>1, <1>2, HistoryFrame DEF TrackUsage, TypeOK, CallState
<1>4. \A d \in Deletes : deleteConn[d] = c /\ delete[d] # "none" => overlap[k] # "clear"
  BY <1>1 DEF ClearMeansApart
<1>5. TrackedHasConn' /\ ClearMeansApart'
  BY <1>1 DEF TypeOK, TrackedHasConn, ClearMeansApart
<1>6. HistoryEndsWithStats'
  <2>1. \A e \in Conns : e # c /\ BetweenSends(e) => BetweenSends(e)'
    BY <1>1 DEF BetweenSends
  <2> QED
    BY <1>1, <1>2, <2>1, HistoryFrame DEF HistoryEndsWithStats
<1>7. DeletedEndsAbsent'
  BY <1>1, <1>2, <1>4, HistoryFrame DEF DeletedEndsAbsent, TypeOK
<1> QED
  BY <1>3, <1>5, <1>6, <1>7

(* The first send of a delete: the stats end absent, the history is next.  *)
LEMMA RemoveUsageIInv ==
  ASSUME IInv, NEW d \in Deletes, RemoveUsage(d) PROVE IInv'
<1> USE DEF IInv, DeleteStep
<1> DEFINE c == deleteConn[d]
<1>1. /\ c \in Conns /\ delete[d] = "none" /\ delete'[d] = "usageRemoved"
      /\ \A e \in Deletes : e # d => delete'[e] = delete[e]
      /\ UNCHANGED <<call, callConn, deleteConn>>
      /\ UNCHANGED <<historyQueue, history>>
  BY DEF RemoveUsage, TypeOK
<1>2. /\ U!TypeOK'
      /\ \A e \in Conns : U!EndsPresent(e)' <=> (e # c /\ U!EndsPresent(e))
  <2>1. U!Send([op |-> "remove", conn |-> c])
    BY DEF RemoveUsage, U!Remove
  <2> QED
    BY <1>1, <2>1, UsageSend DEF TypeOK
<1>3. overlap' = [k \in Calls |-> IF InFlight(k, d) /\ overlap[k] = "clear"
                                    THEN "during" ELSE overlap[k]]
  BY DEF RemoveUsage, MarkOverlap
<1>4. TypeOK'
  BY <1>1, <1>2, <1>3, HistoryFrame DEF RemoveUsage, TypeOK, DeleteState
<1>5. \A k \in Calls :
        overlap'[k] = "clear" =>
          /\ overlap[k] = "clear"
          /\ callConn[k] = c => call[k] \in {"none", "done"}
  BY <1>3 DEF InFlight, TypeOK, CallState
<1>6. TrackedHasConn' /\ ClearMeansApart'
  BY <1>1, <1>5 DEF TypeOK, TrackedHasConn, ClearMeansApart
<1>7. HistoryEndsWithStats'
  <2>1. BetweenSends(c)' /\ \A e \in Conns : BetweenSends(e) => BetweenSends(e)'
    BY <1>1 DEF BetweenSends
  <2> QED
    BY <1>1, <1>2, <2>1, HistoryFrame DEF HistoryEndsWithStats
<1>8. DeletedEndsAbsent'
  BY <1>1, <1>2, <1>5, HistoryFrame DEF DeletedEndsAbsent, TypeOK
<1> QED
  BY <1>4, <1>6, <1>7, <1>8

(* The second send of a delete: the history ends absent.                   *)
LEMMA RemoveHistoryIInv ==
  ASSUME IInv, NEW d \in Deletes, RemoveHistory(d) PROVE IInv'
<1> USE DEF IInv, DeleteStep
<1> DEFINE c == deleteConn[d]
<1>1. /\ c \in Conns /\ delete[d] = "usageRemoved" /\ delete'[d] = "cleaning"
      /\ \A e \in Deletes : e # d => delete'[e] = delete[e]
      /\ UNCHANGED <<call, callConn, deleteConn, overlap>>
      /\ UNCHANGED <<usageQueue, usage>>
  BY DEF RemoveHistory, TypeOK
<1>2. /\ H!TypeOK'
      /\ \A e \in Conns : H!EndsPresent(e)' <=> (e # c /\ H!EndsPresent(e))
  <2>1. H!Send([op |-> "remove", conn |-> c])
    BY DEF RemoveHistory, H!Remove
  <2> QED
    BY <1>1, <2>1, HistorySend DEF TypeOK
<1>3. TypeOK'
  BY <1>1, <1>2, UsageFrame DEF RemoveHistory, TypeOK, DeleteState
<1>4. TrackedHasConn' /\ ClearMeansApart'
  BY <1>1 DEF TypeOK, TrackedHasConn, ClearMeansApart
<1>5. HistoryEndsWithStats'
  <2>1. \A e \in Conns : e # c /\ BetweenSends(e) => BetweenSends(e)'
    BY <1>1 DEF BetweenSends
  <2> QED
    BY <1>1, <1>2, <2>1, UsageFrame DEF HistoryEndsWithStats
<1>6. DeletedEndsAbsent'
  BY <1>1, <1>2, UsageFrame DEF DeletedEndsAbsent, TypeOK
<1> QED
  BY <1>3, <1>4, <1>5, <1>6

(* The end of a delete touches neither tracker.                            *)
LEMMA CleanupIInv ==
  ASSUME IInv, NEW d \in Deletes, CleanupDone(d) PROVE IInv'
<1> USE DEF IInv, DeleteStep
<1>1. /\ delete[d] = "cleaning" /\ delete'[d] = "done"
      /\ \A e \in Deletes : e # d => delete'[e] = delete[e]
      /\ UNCHANGED <<call, callConn, deleteConn, overlap>>
      /\ UNCHANGED <<usageQueue, usage>> /\ UNCHANGED <<historyQueue, history>>
  BY DEF CleanupDone, TypeOK
<1>2. TypeOK'
  BY <1>1, UsageFrame, HistoryFrame DEF CleanupDone, TypeOK, DeleteState
<1>3. TrackedHasConn' /\ ClearMeansApart'
  BY <1>1 DEF TypeOK, TrackedHasConn, ClearMeansApart
<1>4. \A e \in Conns : BetweenSends(e) => BetweenSends(e)'
  BY <1>1 DEF BetweenSends
<1>5. HistoryEndsWithStats' /\ DeletedEndsAbsent'
  BY <1>1, <1>4, UsageFrame, HistoryFrame
     DEF HistoryEndsWithStats, DeletedEndsAbsent, TypeOK
<1> QED
  BY <1>2, <1>3, <1>5

(* The background tasks: neither table ends otherwise than it would have.  *)
LEMMA ApplyIInv ==
  ASSUME IInv, ApplyUsage \/ ApplyHistory \/ UNCHANGED vars PROVE IInv'
<1> USE DEF IInv
<1>1. UNCHANGED <<call, callConn, delete, deleteConn, overlap>>
  BY DEF ApplyUsage, ApplyHistory, vars, handlers
<1>2. /\ U!TypeOK' /\ H!TypeOK'
      /\ \A e \in Conns : /\ U!EndsPresent(e)' <=> U!EndsPresent(e)
                          /\ H!EndsPresent(e)' <=> H!EndsPresent(e)
  <2>1. CASE ApplyUsage
    BY <2>1, UsageApply, HistoryFrame DEF ApplyUsage, TypeOK
  <2>2. CASE ApplyHistory
    BY <2>2, HistoryApply, UsageFrame DEF ApplyHistory, TypeOK
  <2>3. CASE UNCHANGED vars
    BY <2>3, UsageFrame, HistoryFrame DEF vars, TypeOK
  <2> QED
    BY <2>1, <2>2, <2>3
<1>3. TypeOK' /\ TrackedHasConn' /\ ClearMeansApart'
  BY <1>1, <1>2 DEF TypeOK, TrackedHasConn, ClearMeansApart
<1>4. \A e \in Conns : BetweenSends(e)' <=> BetweenSends(e)
  BY <1>1 DEF BetweenSends
<1>5. HistoryEndsWithStats' /\ DeletedEndsAbsent'
  BY <1>1, <1>2, <1>4 DEF HistoryEndsWithStats, DeletedEndsAbsent, TypeOK
<1> QED
  BY <1>3, <1>5

(* IInv is inductive: one case per kind of handler and per task.           *)
LEMMA NextIInv == IInv /\ [Next]_vars => IInv'
<1> SUFFICES ASSUME IInv, [Next]_vars PROVE IInv'
  OBVIOUS
<1>1. CASE \E k \in Calls : CallNext(k)
  BY <1>1, SilentCallIInv, TrackHistoryIInv, TrackUsageIInv DEF CallNext
<1>2. CASE \E d \in Deletes : DeleteNext(d)
  BY <1>2, RemoveUsageIInv, RemoveHistoryIInv, CleanupIInv DEF DeleteNext
<1>3. CASE ApplyUsage \/ ApplyHistory \/ UNCHANGED vars
  BY <1>3, ApplyIInv
<1> QED
  BY <1>1, <1>2, <1>3 DEF Next

-----------------------------------------------------------------------------
(* IInv holds whatever the order of the sends and of the applications.     *)
THEOREM Invariance == Spec => []IInv
  BY InitIInv, NextIInv, PTL DEF Spec

(* Every handler and both trackers keep the variables in their types.      *)
THEOREM TypeCorrect == Spec => []TypeOK
<1>1. IInv => TypeOK
  BY DEF IInv
<1> QED
  BY <1>1, Invariance, PTL

(* With the channels empty the tables are as they were going to end.       *)
LEMMA QuietTables ==
  ASSUME NEW c, Quiet(c)
  PROVE  /\ U!EndsPresent(c) <=> c \in usage
         /\ H!EndsPresent(c) <=> c \in history
  BY DEF Quiet, U!EndsPresent, H!EndsPresent

(* Once its updates are applied, a connection with a history has stats.    *)
THEOREM StatsFollowHistory == Spec => []HistoryImpliesStats
<1>1. IInv => HistoryImpliesStats
  BY QuietTables DEF IInv, HistoryEndsWithStats, HistoryImpliesStats, Quiet,
                     handle_stats, handle_history, get_stats_for_connection,
                     get_history_for_connection
<1> QED
  BY <1>1, Invariance, PTL

(* A delete that overlaps no call of its connection forgets it for good.   *)
THEOREM DeleteForgets == Spec => []OrderlyDeleteForgets
<1>1. IInv => OrderlyDeleteForgets
  BY QuietTables DEF IInv, DeletedEndsAbsent, OrderlyDeleteForgets, ForgetsWhen
<1> QED
  BY <1>1, Invariance, PTL
=============================================================================
