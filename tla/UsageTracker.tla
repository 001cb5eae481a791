---------------------------- MODULE UsageTracker ----------------------------
(***************************************************************************)
(* The per-connection statistics of tool calls (src/src/usage_tracker.rs): *)
(* a channel of updates, the background task that applies them in order,   *)
(* the timer that asks for a save, and the save through a temporary file.  *)
(*                                                                         *)
(* The counters per tool and per category are left out: they move with     *)
(* total_tool_calls; so is first_used, which is only reported.  A crash is *)
(* the death of the process; what the kernel has been given stays.         *)
(* Restart is new() with the instance id of an earlier tracker;            *)
(* ServerBuilder makes a fresh id at each start, so there it concerns only *)
(* those who build a tracker themselves.                                   *)
(*                                                                         *)
(* The code reads the wall clock up to three times for one call.  Time     *)
(* passes between the readings and the clock may be set, back as well as   *)
(* forward, so each reading is any instant.                                *)
(*                                                                         *)
(* recv() answers None only when every sender has been dropped.  The timer *)
(* task owns one and never ends, so that branch of the processor cannot be *)
(* taken and has no action here.                                           *)
(***************************************************************************)
EXTENDS Integers, Sequences, Filter

CONSTANTS
  Conns,                  \* connection ids
  SESSION_TIMEOUT_SECS,   \* idle time after which a call opens a session
  Missing, Torn,          \* a file that does not exist, or is half written
  CanShutDown,            \* whether the owner ever calls shutdown()
  MaxTracked,             \* bound: updates sent by the handlers
  MaxChannel,             \* bound: messages in the channel when the timer ticks
  Horizon,                \* bound: the last instant the clock may show
  MaxFaults,              \* bound: failures of file operations
  MaxCrashes              \* bound: deaths of the process

(* What a reading of the wall clock may be.                                *)
Instant == 0..Horizon

(* UsageStats, and the map of them by connection.                          *)
Entry == [total : Nat, successful : Nat, failed : Nat, sessions : Nat,
          last_used : Instant]
IsTable(t) == \E D \in SUBSET Conns : t \in [D -> Entry]

ASSUME UsageAssumption ==
  /\ Missing # Torn /\ ~IsTable(Missing) /\ ~IsTable(Torn)
  /\ SESSION_TIMEOUT_SECS \in Nat
  /\ MaxTracked \in Nat /\ MaxChannel \in Nat /\ Horizon \in Nat
  /\ MaxFaults \in Nat /\ MaxCrashes \in Nat
  /\ CanShutDown \in BOOLEAN

VARIABLES
  channel,     \* the unbounded mpsc channel, oldest message first
  stats,       \* stats_by_connection: a function on the connections it has
  processor,   \* what the background task is doing
  final,       \* whether the save under way is the last one
  saved,       \* how the last finished save ended
  temp,        \* the temporary file next to the stats file
  file,        \* the stats file
  held,        \* whether a handler still holds the tracker
  given_up,    \* history: the connections deleted since the last save, or
               \* all of them when new() could not read the file
  tracked, faults, crashes   \* what is left of the bounds

vars == <<channel, stats, processor, final, saved, temp, file, held,
          given_up, tracked, faults, crashes>>

Call    == [op : {"success", "failure"}, conn : Conns]
Change  == Call \cup [op : {"remove"}, conn : Conns]
Message == Change \cup [op : {"save", "shutdown"}]
Empty   == [c \in {} |-> 0]

(* UsageStats::default(), with its own reading of the clock.               *)
NewStats(created) ==
  [total |-> 0, successful |-> 0, failed |-> 0, sessions |-> 1,
   last_used |-> created]

(* The check reads the clock again.                                        *)
is_new_session(asked, last_used) == asked - last_used > SESSION_TIMEOUT_SECS

-----------------------------------------------------------------------------
Init ==
  /\ channel = << >>
  /\ stats = Empty
  /\ processor = "idle"
  /\ final = FALSE
  /\ saved = "never"
  /\ temp = Missing
  /\ file = Missing
  /\ held = TRUE
  /\ given_up = {}
  /\ tracked = MaxTracked
  /\ faults = MaxFaults
  /\ crashes = MaxCrashes

(* update_sender.send(m): a task that has ended takes no more messages.    *)
Send(m) ==
  /\ processor # "dead"
  /\ channel' = IF processor = "stopped" THEN << >> ELSE Append(channel, m)
  /\ UNCHANGED <<stats, processor, final, saved, temp, file, given_up, faults,
                 crashes>>

(* track_success, track_failure and remove_connection.                     *)
Track(m) ==
  /\ held /\ tracked > 0
  /\ Send(m)
  /\ tracked' = tracked - 1
  /\ UNCHANGED held

(* save(), and the timer, which ticks for as long as the process lives.    *)
SaveTick ==
  /\ Len(channel) < MaxChannel
  /\ Send([op |-> "save"])
  /\ UNCHANGED <<held, tracked>>

Shutdown ==
  /\ CanShutDown /\ held
  /\ Len(channel) < MaxChannel
  /\ Send([op |-> "shutdown"])
  /\ UNCHANGED <<held, tracked>>

(* The last clone of the tracker outside the timer task is dropped.        *)
DropHandles ==
  /\ held /\ processor # "dead"
  /\ held' = FALSE
  /\ UNCHANGED <<channel, stats, processor, final, saved, temp, file, given_up,
                 tracked, faults, crashes>>

-----------------------------------------------------------------------------
(* The background task takes the next message.                             *)
Receive(op) ==
  /\ processor = "idle"
  /\ channel # << >>
  /\ Head(channel).op = op
  /\ channel' = Tail(channel)
  /\ UNCHANGED <<temp, file, held, tracked, faults, crashes>>

EntryOr(c, created) == IF c \in DOMAIN stats THEN stats[c] ELSE NewStats(created)

Counted_FailedForgotten(s, op, read, asked) ==
  [total |-> s.total + 1,
   successful |-> IF op = "success" THEN s.successful + 1 ELSE s.successful,
   failed |-> s.failed,
   sessions |-> IF is_new_session(asked, s.last_used) THEN s.sessions + 1
                                                      ELSE s.sessions,
   last_used |-> read]

(* The instant that is stored was read before the one that is compared.    *)
Counted(s, op, read, asked) ==
  [total |-> s.total + 1,
   successful |-> IF op = "success" THEN s.successful + 1 ELSE s.successful,
   failed |-> IF op = "failure" THEN s.failed + 1 ELSE s.failed,
   sessions |-> IF is_new_session(asked, s.last_used) THEN s.sessions + 1
                                                      ELSE s.sessions,
   last_used |-> read]

ReceiveCall(op) ==
  /\ Receive(op)
  /\ \E created, read, asked \in Instant :
       LET c == Head(channel).conn IN
         stats' = [d \in DOMAIN stats \cup {c} |->
                    IF d = c THEN Counted(EntryOr(c, created), op, read, asked)
                             ELSE stats[d]]
  /\ UNCHANGED <<processor, final, saved, given_up>>

ReceiveRemove_Zeroes ==
  /\ Receive("remove")
  /\ LET c == Head(channel).conn IN
       /\ stats' = [d \in DOMAIN stats |-> IF d = c THEN NewStats(0) ELSE stats[d]]
       /\ given_up' = given_up \cup {c}
  /\ UNCHANGED <<processor, final, saved>>

ReceiveRemove ==
  /\ Receive("remove")
  /\ LET c == Head(channel).conn IN
       /\ stats' = [d \in DOMAIN stats \ {c} |-> stats[d]]
       /\ given_up' = given_up \cup {c}
  /\ UNCHANGED <<processor, final, saved>>

ReceiveSave ==
  /\ Receive("save")
  /\ processor' = "saving"
  /\ UNCHANGED <<stats, final, saved, given_up>>

ReceiveShutdown ==
  /\ Receive("shutdown")
  /\ processor' = "saving"
  /\ final' = TRUE
  /\ UNCHANGED <<stats, saved, given_up>>

-----------------------------------------------------------------------------
(* save_to_disk(), which runs inside the background task and blocks it.    *)
SaveStep(from) ==
  /\ processor = from
  /\ UNCHANGED <<stats, final, held, tracked, crashes>>

SaveEnds_Dies(result) ==
  LET ends == final \/ result = "failed" IN
    /\ saved' = result
    /\ processor' = IF ends THEN "stopped" ELSE "idle"
    /\ channel' = IF ends THEN << >> ELSE channel

(* The task that ends drops the receiver with the messages behind it.      *)
SaveEnds(result) ==
  /\ saved' = result
  /\ processor' = IF final THEN "stopped" ELSE "idle"
  /\ channel' = IF final THEN << >> ELSE channel

(* The write of the temporary file has begun.                              *)
StartWrite_InPlace ==
  /\ SaveStep("saving")
  /\ processor' = "writing"
  /\ file' = Torn
  /\ UNCHANGED <<channel, temp, saved, given_up, faults>>

StartWrite ==
  /\ SaveStep("saving")
  /\ processor' = "writing"
  /\ temp' = Torn
  /\ UNCHANGED <<channel, file, saved, given_up, faults>>

FinishWrite ==
  /\ SaveStep("writing")
  /\ processor' = "renaming"
  /\ temp' = stats
  /\ UNCHANGED <<channel, file, saved, given_up, faults>>

Rename_NotDone ==
  /\ SaveStep("renaming")
  /\ temp' = Missing
  /\ SaveEnds("ok")
  /\ given_up' = {}
  /\ UNCHANGED <<file, faults>>

Rename ==
  /\ SaveStep("renaming")
  /\ file' = temp
  /\ temp' = Missing
  /\ SaveEnds("ok")
  /\ given_up' = {}
  /\ UNCHANGED faults

(* Each failure is logged and ends the save; a temporary file is removed   *)
(* only after a failed rename.                                             *)
Fault == faults > 0 /\ faults' = faults - 1

DirectoryFails ==
  /\ Fault
  /\ SaveStep("saving")
  /\ SaveEnds("failed")
  /\ UNCHANGED <<temp, file, given_up>>

WriteFails ==
  /\ Fault
  /\ SaveStep("writing")
  /\ SaveEnds("failed")
  /\ UNCHANGED <<temp, file, given_up>>

RenameFails ==
  /\ Fault
  /\ SaveStep("renaming")
  /\ temp' = Missing
  /\ SaveEnds("failed")
  /\ UNCHANGED <<file, given_up>>

-----------------------------------------------------------------------------
(* The process dies with its memory and its channel.                       *)
Crash ==
  /\ crashes > 0 /\ processor # "dead"
  /\ crashes' = crashes - 1
  /\ processor' = "dead"
  /\ channel' = << >>
  /\ stats' = Empty
  /\ UNCHANGED <<final, saved, temp, file, held, given_up, tracked, faults>>

load_from_disk_StartsFresh == Empty

(* What a file that can be read gives: one that does not parse is as good  *)
(* as none.                                                                *)
load_from_disk == IF file \in {Missing, Torn} THEN Empty ELSE file

(* new() starts a task on a table.                                         *)
RestartOn(table) ==
  /\ processor = "dead"
  /\ processor' = "idle"
  /\ stats' = table
  /\ final' = FALSE
  /\ saved' = "never"
  /\ held' = TRUE
  /\ UNCHANGED <<channel, temp, file, tracked, crashes>>

(* A file that cannot be read is passed over, with a warning, and the next *)
(* save replaces it.                                                       *)
Restart ==
  \/ RestartOn(load_from_disk) /\ given_up' = {} /\ UNCHANGED faults
  \/ RestartOn(Empty) /\ given_up' = Conns /\ Fault

-----------------------------------------------------------------------------
SendNext ==
  \/ \E c \in Conns, op \in {"success", "failure", "remove"} :
       Track([op |-> op, conn |-> c])
  \/ SaveTick
  \/ Shutdown
  \/ DropHandles

ReceiveNext ==
  \/ ReceiveCall("success")
  \/ ReceiveCall("failure")
  \/ ReceiveRemove
  \/ ReceiveSave
  \/ ReceiveShutdown

SaveNext ==
  \/ StartWrite
  \/ FinishWrite
  \/ Rename
  \/ DirectoryFails
  \/ WriteFails
  \/ RenameFails

Next == SendNext \/ ReceiveNext \/ SaveNext \/ Crash \/ Restart

(* The background task and the timer are polled.  A file operation ends;   *)
(* that it may fail is in MaxFaults.                                       *)
Spec ==
  /\ Init
  /\ [][Next]_vars
  /\ WF_vars(ReceiveNext)
  /\ WF_vars(SaveNext)
  /\ WF_vars(SaveTick)

-----------------------------------------------------------------------------
TypeOK ==
  /\ channel \in Seq(Message)
  /\ IsTable(stats)
  /\ processor \in {"idle", "saving", "writing", "renaming", "stopped", "dead"}
  /\ final \in BOOLEAN
  /\ saved \in {"never", "ok", "failed"}
  /\ temp \in {Missing, Torn} \/ IsTable(temp)
  /\ file \in {Missing, Torn} \/ IsTable(file)
  /\ held \in BOOLEAN
  /\ given_up \subseteq Conns
  /\ tracked \in 0..MaxTracked /\ faults \in 0..MaxFaults
  /\ crashes \in 0..MaxCrashes

(* What GET /mcp/stats reports adds up, in memory and on disk and across   *)
(* restarts: each call is a success or a failure, and opens one session at *)
(* most.  (The first one may open a second: the clock is read again after  *)
(* the entry was made.)                                                    *)
AddsUp(s) ==
  /\ s.total = s.successful + s.failed
  /\ 1 <= s.sessions /\ s.sessions <= s.total + 1

StatsAddUp ==
  /\ \A c \in DOMAIN stats : AddsUp(stats[c])
  /\ file \notin {Missing, Torn} => \A c \in DOMAIN file : AddsUp(file[c])

(* Whenever the process dies, what new() reads is a whole table.           *)
FileIsWhole == file # Torn

(* After shutdown() nothing sent before it is missing from the file,       *)
(* unless the last save itself failed.                                     *)
ShutdownSaves ==
  processor = "stopped" => saved = "failed" \/ file = stats

(* No save takes a count back: a connection in the file stays there and   *)
(* its total never falls, over failed saves, crashes and restarts, unless  *)
(* it was deleted, or new() could not read the file and started fresh.     *)
Saved == IF file \in {Missing, Torn} THEN {} ELSE DOMAIN file

SavedCountsSurvive ==
  [][\A c \in Saved \ given_up : c \in Saved' /\ file[c].total <= file'[c].total]_vars

(* What the tables in memory and in both files have in common, why a       *)
(* rename puts the statistics of its moment in place, and why these have   *)
(* no less than the file.                                                  *)
Sound(t) == \A c \in DOMAIN t : AddsUp(t[c])

NoLessThanSaved ==
  processor # "dead" =>
    \A c \in Saved \ given_up :
      c \in DOMAIN stats /\ file[c].total <= stats[c].total

IInv ==
  /\ TypeOK
  /\ Sound(stats)
  /\ IsTable(temp) => Sound(temp)
  /\ IsTable(file) => Sound(file)
  /\ processor = "renaming" => temp = stats
  /\ FileIsWhole
  /\ ShutdownSaves
  /\ NoLessThanSaved

(* In a process that lives on, every update reaches the file, whatever     *)
(* saves fail on the way and whatever was lost earlier: the timer asks     *)
(* again.                                                                  *)
EverythingSaved ==
  <>[](~final /\ processor # "dead") => <>[](file = stats)

(* Across saves, failures, a shutdown and crashes the task keeps the       *)
(* promise of a tracker.                                                   *)
AsUpdate(m) == [op |-> IF m.op = "remove" THEN "remove" ELSE "add",
                conn |-> m.conn]
AsUpdates(s) == [i \in DOMAIN s |-> AsUpdate(s[i])]
Updates == Filter(channel, Change)
Listed  == DOMAIN stats
Status  == CASE processor = "dead"    -> "down"
             [] processor = "stopped" -> "closed"
             [] OTHER                 -> "up"

T == INSTANCE TrackerService
       WITH queue <- AsUpdates(Updates), present <- Listed, status <- Status

ImplementsTracker == T!ServiceSpec

(* "Channel closed (server shutdown)": once the server has dropped its     *)
(* tracker, the task saves for the last time and ends.  The timer's own    *)
(* sender keeps the channel open.                                          *)
DroppedTrackerStops == ~held ~> processor = "stopped"
=============================================================================
