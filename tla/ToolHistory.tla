---------------------------- MODULE ToolHistory -----------------------------
(***************************************************************************)
(* The history of tool calls (src/src/tool_history.rs): the cache of each  *)
(* connection, the queue of records to write, and the background task that *)
(* applies updates, appends to the file once a second and rotates it.      *)
(* Rotation is part of the task, so the counter of writes needs no lock.   *)
(*                                                                         *)
(* A record is a number; records are numbered in the order of track_call.  *)
(*                                                                         *)
(* External (tokio::fs::File): write_all hands its bytes to another thread *)
(* and returns, the next write_all waits for that and reports how it went. *)
(* A File that is dropped without flush leaves its last write under way,   *)
(* on the file it had opened, wherever the name points by then.            *)
(*                                                                         *)
(* The interval branch of select! matches always, so its else branch is    *)
(* never taken and has no action here.  A crash is the death of the        *)
(* process; Restart is new() with the instance id of an earlier history,   *)
(* which ServerBuilder never reuses.                                       *)
(***************************************************************************)
EXTENDS Integers, SequencesExt

CONSTANTS
  Conns,                     \* connection ids
  Legacy,                    \* "__legacy__"
  MAX_HISTORY_ENTRIES,       \* records cached for one connection
  MAX_DISK_ENTRIES,          \* records a rotation keeps
  ROTATION_CHECK_INTERVAL,   \* writes between two checks
  OffsetLimit,               \* an offset is at least its negation
  MaxCalls, MaxRemoves,      \* bounds: updates sent by the handlers
  MaxFaults,                 \* bound: failures of file operations
  MaxCrashes                 \* bound: deaths of the process

ASSUME HistoryAssumption ==
  /\ Legacy \notin Conns
  /\ MAX_HISTORY_ENTRIES \in Nat \ {0}
  /\ MAX_DISK_ENTRIES \in Nat \ {0}
  /\ ROTATION_CHECK_INTERVAL \in Nat \ {0}
  /\ OffsetLimit \in Nat \ {0}
  /\ MaxCalls \in Nat /\ MaxRemoves \in Nat
  /\ MaxFaults \in Nat /\ MaxCrashes \in Nat

VARIABLES
  channel,               \* the unbounded mpsc channel, oldest update first
  entries,               \* entries_by_connection
  write_queue,           \* records not yet taken by a flush, by connection
  processor,             \* what the background task is doing
  batch,                 \* all_records: those left to hand to the file
  taken,                 \* all_records.len()
  inflight,              \* writes that have not ended
  write_error,           \* the open File has an error to report
  writes_since_check,    \* the counter of rotation
  kept, temp,            \* kept_lines; the temporary file
  file,                  \* the records in the history file
  calls, removes, faults, crashes   \* what has been used of the bounds

memory == <<channel, entries, write_queue>>
flush  == <<batch, taken, write_error, writes_since_check>>
disk   == <<kept, temp, file>>
bounds == <<calls, removes, faults, crashes>>
vars   == <<memory, processor, flush, inflight, disk, bounds>>

Record == 1..MaxCalls
Update == [op : {"add"}, conn : Conns, rec : Record] \cup [op : {"remove"}, conn : Conns]
Write  == [rec : Record, to : {"open", "dropped", "replaced"}]

LastN(s, n) == IF Len(s) > n THEN SubSeq(s, Len(s) - n + 1, Len(s)) ELSE s
Of(table, c) == IF c \in DOMAIN table THEN table[c] ELSE << >>
Empty == [c \in {} |-> << >>]

-----------------------------------------------------------------------------
Init ==
  /\ channel = << >> /\ entries = Empty /\ write_queue = Empty
  /\ processor = "idle"
  /\ batch = << >> /\ taken = 0 /\ write_error = FALSE
  /\ writes_since_check = 0
  /\ inflight = {}
  /\ kept = << >> /\ temp = << >> /\ file = << >>
  /\ calls = 0 /\ removes = 0 /\ faults = 0 /\ crashes = 0

-----------------------------------------------------------------------------
Send(u) ==
  /\ processor # "dead"
  /\ channel' = Append(channel, u)
  /\ UNCHANGED <<entries, write_queue, processor, flush, inflight, disk, faults, crashes>>

track_call(c) ==
  /\ calls < MaxCalls
  /\ calls' = calls + 1
  /\ Send([op |-> "add", conn |-> c, rec |-> calls + 1])
  /\ UNCHANGED removes

remove_connection(c) ==
  /\ removes < MaxRemoves
  /\ removes' = removes + 1
  /\ Send([op |-> "remove", conn |-> c])
  /\ UNCHANGED calls

-----------------------------------------------------------------------------
(* The background task takes the next update.                              *)
Receive(op) ==
  /\ processor = "idle"
  /\ channel # << >>
  /\ Head(channel).op = op
  /\ channel' = Tail(channel)
  /\ UNCHANGED <<processor, flush, inflight, disk, bounds>>

Push(table, c, r) ==
  [d \in DOMAIN table \cup {c} |->
     IF d = c THEN Append(Of(table, c), r) ELSE table[d]]

(* The cache of a connection loses its oldest record beyond the limit.     *)
PushNewest(table, c, r) ==
  [Push(table, c, r) EXCEPT ![c] = LastN(@, MAX_HISTORY_ENTRIES)]

Drop(table, c) == [d \in DOMAIN table \ {c} |-> table[d]]

ReceiveAdd_NoQueueWhenFull ==
  /\ Receive("add")
  /\ LET c == Head(channel).conn
         r == Head(channel).rec IN
       /\ entries' = PushNewest(entries, c, r)
       /\ write_queue' = IF Len(Of(entries, c)) < MAX_HISTORY_ENTRIES
                           THEN Push(write_queue, c, r) ELSE write_queue

ReceiveAdd ==
  /\ Receive("add")
  /\ LET c == Head(channel).conn
         r == Head(channel).rec IN
       /\ entries' = PushNewest(entries, c, r)
       /\ write_queue' = Push(write_queue, c, r)

ReceiveRemove_CacheOnly ==
  /\ Receive("remove")
  /\ entries' = Drop(entries, Head(channel).conn)
  /\ UNCHANGED write_queue

ReceiveRemove_Empties ==
  /\ Receive("remove")
  /\ entries' = [entries EXCEPT ![Head(channel).conn] = << >>]
  /\ write_queue' = Drop(write_queue, Head(channel).conn)

ReceiveRemove ==
  /\ Receive("remove")
  /\ entries' = Drop(entries, Head(channel).conn)
  /\ write_queue' = Drop(write_queue, Head(channel).conn)

-----------------------------------------------------------------------------
(* One tick of the flush interval: all queues are emptied into one batch,  *)
(* the connections in any order.  An empty batch ends the turn.            *)
TakeAll(queues) ==
  \E order \in SetToSeqs(DOMAIN write_queue) :
    /\ batch' = FlattenSeq([i \in DOMAIN order |-> write_queue[order[i]]])
    /\ batch' # << >>
    /\ taken' = Len(batch')
    /\ write_queue' = queues
    /\ processor = "idle"
    /\ processor' = "opening"
    /\ UNCHANGED <<channel, entries, write_error, writes_since_check, inflight,
                   disk, bounds>>

FlushTick_Clones == TakeAll(write_queue)

FlushTick == TakeAll([c \in DOMAIN write_queue |-> << >>])

TaskStep(from, to) ==
  /\ processor = from
  /\ processor' = to
  /\ UNCHANGED <<memory, calls, removes, crashes>>

Fault == faults < MaxFaults /\ faults' = faults + 1

Open ==
  /\ TaskStep("opening", "writing")
  /\ UNCHANGED <<flush, inflight, disk, faults>>

(* The records already taken are not put back.                             *)
OpenFails ==
  /\ Fault
  /\ TaskStep("opening", "idle")
  /\ batch' = << >>
  /\ UNCHANGED <<taken, write_error, writes_since_check, inflight, disk>>

(* write_all: waits for the write before it; if that failed the record is  *)
(* refused, and the error is ignored.                                      *)
WriteRecord ==
  /\ batch # << >>
  /\ \A w \in inflight : w.to # "open"
  /\ TaskStep("writing", "writing")
  /\ batch' = Tail(batch)
  /\ inflight' = IF write_error THEN inflight
                 ELSE inflight \cup {[rec |-> Head(batch), to |-> "open"]}
  /\ write_error' = FALSE
  /\ UNCHANGED <<taken, writes_since_check, disk, faults>>

EndBatch_CounterKept ==
  /\ batch = << >>
  /\ LET written == writes_since_check + taken IN
       /\ TaskStep("writing", IF written >= ROTATION_CHECK_INTERVAL
                                THEN "reading" ELSE "idle")
       /\ writes_since_check' = written
  /\ inflight' = {IF w.to = "open" THEN [w EXCEPT !.to = "dropped"] ELSE w :
                    w \in inflight}
  /\ write_error' = FALSE
  /\ UNCHANGED <<batch, taken, disk, faults>>

(* All records are handed over: the File is dropped without flush and the  *)
(* counter moves.                                                          *)
EndBatch ==
  /\ batch = << >>
  /\ LET written == writes_since_check + taken
         due     == written >= ROTATION_CHECK_INTERVAL IN
       /\ TaskStep("writing", IF due THEN "reading" ELSE "idle")
       /\ writes_since_check' = IF due THEN 0 ELSE written
  /\ inflight' = {IF w.to = "open" THEN [w EXCEPT !.to = "dropped"] ELSE w :
                    w \in inflight}
  /\ write_error' = FALSE
  /\ UNCHANGED <<batch, taken, disk, faults>>

(* Another thread ends a write.                                            *)
EndWrite(w) ==
  /\ w \in inflight
  /\ inflight' = inflight \ {w}
  /\ UNCHANGED <<memory, processor, batch, taken, writes_since_check, kept, temp,
                 calls, removes, crashes>>

WriteLands(w) ==
  /\ EndWrite(w)
  /\ file' = IF w.to = "replaced" THEN file ELSE Append(file, w.rec)
  /\ UNCHANGED <<write_error, faults>>

WriteFails(w) ==
  /\ Fault
  /\ EndWrite(w)
  /\ write_error' = (write_error \/ w.to = "open")
  /\ UNCHANGED file

-----------------------------------------------------------------------------
(* rotate_if_needed().  Every failure leaves the file alone.               *)
ReadFile ==
  /\ TaskStep("reading", IF Len(file) > MAX_DISK_ENTRIES THEN "creating" ELSE "idle")
  /\ kept' = LastN(file, MAX_DISK_ENTRIES)
  /\ UNCHANGED <<flush, inflight, temp, file, faults>>

CreateTemp ==
  /\ TaskStep("creating", "copying")
  /\ temp' = << >>
  /\ UNCHANGED <<flush, inflight, kept, file, faults>>

FinishCopy ==
  /\ TaskStep("copying", "renaming")
  /\ temp' = kept
  /\ UNCHANGED <<flush, inflight, kept, file, faults>>

Rename ==
  /\ TaskStep("renaming", "idle")
  /\ file' = temp
  /\ temp' = << >>
  /\ inflight' = {[w EXCEPT !.to = "replaced"] : w \in inflight}
  /\ UNCHANGED <<flush, kept, faults>>

RotationFails_CopyIgnored ==
  /\ Fault
  /\ \/ \E from \in {"reading", "creating", "renaming"} : TaskStep(from, "idle")
     \/ TaskStep("copying", "renaming")
  /\ UNCHANGED <<flush, inflight, disk>>

RotationFails ==
  /\ Fault
  /\ \E from \in {"reading", "creating", "copying", "renaming"} : TaskStep(from, "idle")
  /\ UNCHANGED <<flush, inflight, disk>>

-----------------------------------------------------------------------------
Crash ==
  /\ crashes < MaxCrashes /\ processor # "dead"
  /\ crashes' = crashes + 1
  /\ processor' = "dead"
  /\ channel' = << >> /\ entries' = Empty /\ write_queue' = Empty
  /\ batch' = << >> /\ taken' = 0 /\ write_error' = FALSE
  /\ writes_since_check' = 0
  /\ inflight' = {}
  /\ kept' = << >>
  /\ UNCHANGED <<temp, file, calls, removes, faults>>

(* What a file that can be read gives: it belongs to no connection.        *)
load_from_disk ==
  IF file = << >> THEN Empty
  ELSE [c \in {Legacy} |-> LastN(file, MAX_HISTORY_ENTRIES)]

(* new() starts a task on a cache.                                         *)
RestartOn(cache) ==
  /\ processor = "dead"
  /\ processor' = "idle"
  /\ entries' = cache
  /\ UNCHANGED <<channel, write_queue, flush, inflight, disk, calls, removes, crashes>>

(* A file that cannot be found or read is passed over.                     *)
Restart ==
  \/ RestartOn(load_from_disk) /\ UNCHANGED faults
  \/ RestartOn(Empty) /\ Fault

-----------------------------------------------------------------------------
SendNext == \E c \in Conns : track_call(c) \/ remove_connection(c)

ReceiveNext == ReceiveAdd \/ ReceiveRemove

FlushNext ==
  \/ FlushTick
  \/ Open
  \/ OpenFails
  \/ WriteRecord
  \/ EndBatch

RotateNext ==
  \/ ReadFile
  \/ CreateTemp
  \/ FinishCopy
  \/ Rename
  \/ RotationFails

LandNext == \E w \in inflight : WriteLands(w) \/ WriteFails(w)

Next ==
  \/ SendNext
  \/ ReceiveNext
  \/ FlushNext
  \/ RotateNext
  \/ LandNext
  \/ Crash
  \/ Restart

(* The background task is polled, its interval ticks, and a write that has *)
(* been handed over ends.                                                  *)
Spec ==
  /\ Init
  /\ [][Next]_vars
  /\ WF_vars(ReceiveNext)
  /\ WF_vars(FlushNext)
  /\ WF_vars(RotateNext)
  /\ WF_vars(LandNext)

-----------------------------------------------------------------------------
Table(t, D) ==
  /\ DOMAIN t \subseteq D
  /\ \A c \in DOMAIN t : t[c] \in Seq(Record)

TypeOK ==
  /\ channel \in Seq(Update)
  /\ Table(entries, Conns \cup {Legacy})
  /\ \A c \in DOMAIN entries : Len(entries[c]) \in 1..MAX_HISTORY_ENTRIES
  /\ Table(write_queue, Conns) /\ IsFiniteSet(DOMAIN write_queue)
  /\ processor \in {"idle", "opening", "writing", "reading", "creating",
                    "copying", "renaming", "dead"}
  /\ batch \in Seq(Record)
  /\ taken \in 0..MaxCalls
  /\ inflight \subseteq Write
  /\ write_error \in BOOLEAN
  /\ writes_since_check \in 0..(ROTATION_CHECK_INTERVAL - 1)
  /\ kept \in Seq(Record) /\ temp \in Seq(Record) /\ file \in Seq(Record)
  /\ calls \in 0..MaxCalls /\ removes \in 0..MaxRemoves
  /\ faults \in 0..MaxFaults /\ crashes \in 0..MaxCrashes

(* However flushes, failures, rotations and restarts interleave, no record *)
(* is in the file twice.                                                   *)
WrittenOnce == IsInjective(file)

(* The cache and the queue of a connection are fed together but emptied    *)
(* apart: at any time the records waiting to be written are the newest of  *)
(* the cache, or the cache the newest of those, and nothing of a           *)
(* connection that was removed is still waiting.                           *)
QueueIsCacheTail ==
  \A c \in Conns :
    LET cached  == Of(entries, c)
        waiting == Of(write_queue, c)
    IN /\ c \notin DOMAIN entries => waiting = << >>
       /\ IsSuffix(cached, waiting) \/ IsSuffix(waiting, cached)

(* Where a record can be on its way: every one is in one place at most,    *)
(* and those still in the channel are the newest.                          *)
Queued   == UNION {ToSet(write_queue[c]) : c \in DOMAIN write_queue}
InFlight == {w.rec : w \in inflight}
Received == Queued \cup ToSet(batch) \cup InFlight \cup ToSet(file)

ChannelInOrder ==
  \A i \in DOMAIN channel :
    channel[i].op = "add" =>
      /\ channel[i].rec <= calls
      /\ \A j \in DOMAIN channel :
           channel[j].op = "add" /\ i < j => channel[i].rec < channel[j].rec
      /\ \A r \in Received : r < channel[i].rec

QueuesApart ==
  \A c \in DOMAIN write_queue :
    /\ IsInjective(write_queue[c])
    /\ \A d \in DOMAIN write_queue :
         c # d => ToSet(write_queue[c]) \cap ToSet(write_queue[d]) = {}

InOnePlace ==
  /\ \A r \in Received : r <= calls
  /\ QueuesApart
  /\ IsInjective(batch)
  /\ \A v, w \in inflight : v.rec = w.rec => v = w
  /\ Queued \cap (ToSet(batch) \cup InFlight \cup ToSet(file)) = {}
  /\ ToSet(batch) \cap (InFlight \cup ToSet(file)) = {}
  /\ InFlight \cap ToSet(file) = {}

(* A rotation copies as many records as the limit allows, all of which are *)
(* still in the file when it is replaced.                                  *)
RotationCopies ==
  processor \in {"creating", "copying", "renaming"} =>
    /\ Len(kept) = MAX_DISK_ENTRIES
    /\ IsInjective(kept) /\ ToSet(kept) \subseteq ToSet(file)
    /\ processor = "renaming" => temp = kept

DeadHasNothing == processor = "dead" => channel = << >> /\ write_queue = Empty

IInv ==
  /\ TypeOK
  /\ QueueIsCacheTail
  /\ WrittenOnce
  /\ ChannelInOrder
  /\ InOnePlace
  /\ RotationCopies
  /\ DeadHasNothing

(* get_recent_calls_for_connection.                                        *)
P == INSTANCE HistoryPage

get_recent_calls(c, wanted, max_results, offset) ==
  P!Page(Of(entries, c), wanted, max_results, offset)

(* After any change of a cache, -n asks for the newest n, and a page and   *)
(* the one behind it join to what a larger page holds: a reader that goes  *)
(* from page to page misses no record and gets none twice.  The smallest   *)
(* offset is left out: there the code does not do what "Negative offset:   *)
(* tail behavior" says (HistoryPage).                                      *)
TailIs(c, wanted) ==
  LET all == P!filtered(Of(entries, c), wanted) IN
    \A offset \in (P!MinInt + 1)..-1 :
      get_recent_calls(c, wanted, 0, offset) = LastN(all, -offset)

PagesJoin(c, wanted) ==
  LET From(offset, size) == get_recent_calls(c, wanted, size, offset) IN
    /\ From(0, MAX_HISTORY_ENTRIES) = P!filtered(Of(entries, c), wanted)
    /\ \A size \in 1..MAX_HISTORY_ENTRIES, offset \in 0..(P!MaxInt - MAX_HISTORY_ENTRIES) :
         From(offset, size) \o From(offset + size, MAX_HISTORY_ENTRIES)
           = From(offset, MAX_HISTORY_ENTRIES)

PagesOf(c) ==
  \A wanted \in {Record, {r \in Record : r % 2 = 0}} :
    TailIs(c, wanted) /\ PagesJoin(c, wanted)

PagesAreWindows ==
  [][\A c \in Conns \cup {Legacy} :
       Of(entries', c) # Of(entries, c) => PagesOf(c)']_vars

(* Whatever fails or dies during a rotation, the file loses no record that *)
(* the limit has room for.                                                 *)
RotationKeepsEnough ==
  [][\/ Len(file') >= Len(file)
     \/ Len(file') = MAX_DISK_ENTRIES]_vars

(* As long as nothing fails, dies, is removed or rotated away, every       *)
(* record tracked is in the file in the end, those behind an unflushed     *)
(* File included.                                                          *)
Undisturbed == removes = 0 /\ faults = 0 /\ crashes = 0 /\ processor # "creating"

FlushedInTheEnd == []Undisturbed => <>[](ToSet(file) = 1..calls)

(* Across failures and crashes the task keeps the promise of a tracker.    *)
AsUpdate(u) == [op |-> u.op, conn |-> u.conn]
Updates == [i \in DOMAIN channel |-> AsUpdate(channel[i])]
Listed  == DOMAIN entries \ {Legacy}
Status  == IF processor = "dead" THEN "down" ELSE "up"

T == INSTANCE TrackerService
       WITH queue <- Updates, present <- Listed, status <- Status

ImplementsTracker == T!ServiceSpec

(* "It keeps only the last MAX_DISK_ENTRIES lines and atomically replaces  *)
(* the file": what a rotation leaves is the end of the file it replaces.   *)
(* A write still under way when the file was read breaks this.             *)
RotationKeepsNewest ==
  [][Len(file') < Len(file) => file' = LastN(file, MAX_DISK_ENTRIES)]_vars
=============================================================================
