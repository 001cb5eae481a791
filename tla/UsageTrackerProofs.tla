------------------------- MODULE UsageTrackerProofs -------------------------
(***************************************************************************)
(* Proofs about UsageTracker for any connections, session timeout and      *)
(* bounds.  IInv says of every table, in memory and in the two files, that *)
(* its entries add up, that a save which is about to rename holds the      *)
(* statistics of the moment (the task that would change them is the one    *)
(* that saves), and that these have no less than the file.  With it, no    *)
(* save takes a count back and the task implements TrackerService.         *)
(***************************************************************************)
EXTENDS UsageTracker, TLAPS

(* The facts about indices and filters that all trackers share.            *)
L == INSTANCE TrackerLemmas WITH queue <- channel, present <- DOMAIN stats

(* Tables are functions on some of the connections.                        *)
LEMMA TableIs ==
  ASSUME NEW t
  PROVE  IsTable(t) <=> /\ t = [c \in DOMAIN t |-> t[c]]
                        /\ DOMAIN t \subseteq Conns
                        /\ \A c \in DOMAIN t : t[c] \in Entry
  BY DEF IsTable

LEMMA EmptyTable == IsTable(Empty) /\ Sound(Empty)
  BY TableIs DEF Empty, Sound

(* An entry that is put in place, or dropped, leaves a table.              *)
LEMMA PutTable ==
  ASSUME NEW t, IsTable(t), NEW c \in Conns, NEW e \in Entry
  PROVE  IsTable([d \in DOMAIN t \cup {c} |-> IF d = c THEN e ELSE t[d]])
<1> DEFINE u == [d \in DOMAIN t \cup {c} |-> IF d = c THEN e ELSE t[d]]
<1>1. DOMAIN t \subseteq Conns /\ \A d \in DOMAIN t : t[d] \in Entry
  BY TableIs
<1>2. DOMAIN u = DOMAIN t \cup {c} /\ \A d \in DOMAIN u : u[d] \in Entry
  BY <1>1
<1>3. u \in [DOMAIN u -> Entry]
  BY <1>2
<1> QED
  BY <1>1, <1>2, <1>3 DEF IsTable

LEMMA DropTable ==
  ASSUME NEW t, IsTable(t), NEW c
  PROVE  IsTable([d \in DOMAIN t \ {c} |-> t[d]])
<1>1. DOMAIN t \subseteq Conns /\ \A d \in DOMAIN t : t[d] \in Entry
  BY TableIs
<1> QED
  BY <1>1 DEF IsTable

(* A call on an entry opens one session at most, whatever the two readings *)
(* of the clock.                                                           *)
LEMMA CountedAddsUp ==
  ASSUME NEW s \in Entry, AddsUp(s),
         NEW op \in {"success", "failure"},
         NEW read \in Instant, NEW asked \in Instant
  PROVE  /\ Counted(s, op, read, asked) \in Entry
         /\ AddsUp(Counted(s, op, read, asked))
         /\ Counted(s, op, read, asked).total = s.total + 1
<1> DEFINE r == Counted(s, op, read, asked)
<1>1. /\ r.total = s.total + 1
      /\ r.successful = IF op = "success" THEN s.successful + 1 ELSE s.successful
      /\ r.failed = IF op = "failure" THEN s.failed + 1 ELSE s.failed
      /\ r.sessions \in {s.sessions, s.sessions + 1}
  BY DEF Counted
<1>2. /\ s.total \in Nat /\ s.successful \in Nat /\ s.failed \in Nat
      /\ s.sessions \in Nat
  BY DEF Entry
<1>3. r \in Entry
  BY <1>2 DEF Counted, Entry
<1> HIDE DEF r
<1>4. AddsUp(r)
  BY <1>1, <1>2 DEF AddsUp
<1> QED
  BY <1>1, <1>3, <1>4 DEF r

(* The first call of a connection finds an entry that has its session      *)
(* already.                                                                *)
LEMMA FirstAddsUp ==
  ASSUME NEW op \in {"success", "failure"},
         NEW created \in Instant, NEW read \in Instant, NEW asked \in Instant
  PROVE  /\ Counted(NewStats(created), op, read, asked) \in Entry
         /\ AddsUp(Counted(NewStats(created), op, read, asked))
<1> DEFINE s == NewStats(created)
<1>1. s \in Entry /\ AddsUp(s)
  BY DEF NewStats, Entry, AddsUp
<1> HIDE DEF s
<1>2. Counted(s, op, read, asked) \in Entry /\ AddsUp(Counted(s, op, read, asked))
  BY <1>1, CountedAddsUp
<1> QED
  BY <1>2 DEF s

(* Totals are numbers, so they can be compared.                            *)
LEMMA TotalTyped ==
  ASSUME NEW t, IsTable(t), NEW c \in DOMAIN t
  PROVE  t[c].total \in Nat
<1>1. t[c] \in Entry
  BY TableIs
<1> QED
  BY <1>1 DEF Entry

(* What the file has is a table.                                           *)
LEMMA SavedTable ==
  ASSUME TypeOK
  PROVE  \A c \in Saved : IsTable(file) /\ c \in DOMAIN file /\ file[c].total \in Nat
<1> SUFFICES ASSUME NEW c \in Saved
             PROVE  IsTable(file) /\ c \in DOMAIN file /\ file[c].total \in Nat
  OBVIOUS
<1>1. file \notin {Missing, Torn} /\ c \in DOMAIN file
  BY DEF Saved
<1>2. IsTable(file)
  BY <1>1 DEF TypeOK
<1> QED
  BY <1>1, <1>2, TotalTyped

-----------------------------------------------------------------------------
LEMMA InitIInv == Init => IInv
<1> SUFFICES ASSUME Init PROVE IInv
  OBVIOUS
<1>1. TypeOK
  <2>2. channel \in Seq(Message)
    BY DEF Init
  <2>3. IsTable(stats)
    BY EmptyTable DEF Init
  <2>4. /\ tracked \in 0..MaxTracked /\ faults \in 0..MaxFaults
        /\ crashes \in 0..MaxCrashes
    BY UsageAssumption DEF Init
  <2> QED
    BY <2>2, <2>3, <2>4 DEF Init, TypeOK
<1>2. Sound(stats) /\ ~IsTable(temp) /\ ~IsTable(file) /\ Saved = {}
  BY UsageAssumption, EmptyTable DEF Init, Saved
<1> QED
  BY <1>1, <1>2, UsageAssumption
     DEF Init, IInv, FileIsWhole, ShutdownSaves, NoLessThanSaved

-----------------------------------------------------------------------------
(* A step that changes no table.                                           *)
LEMMA SameTables ==
  ASSUME IInv, TypeOK',
         UNCHANGED <<stats, processor, saved, temp, file, given_up>>
  PROVE  IInv'
<1>1. Sound(stats)' /\ (IsTable(temp) => Sound(temp))' /\ (IsTable(file) => Sound(file))'
  BY DEF IInv, Sound
<1>2. NoLessThanSaved'
  BY DEF IInv, NoLessThanSaved, Saved
<1> QED
  BY <1>1, <1>2 DEF IInv, FileIsWhole, ShutdownSaves

-----------------------------------------------------------------------------
(* A message that is sent touches no table.                                *)
LEMMA MessageTyped ==
  /\ \A op \in {"success", "failure", "remove"}, c \in Conns :
       [op |-> op, conn |-> c] \in Message
  /\ [op |-> "save"] \in Message
  /\ [op |-> "shutdown"] \in Message
  BY DEF Message, Change, Call

LEMMA SendTyped ==
  ASSUME TypeOK, NEW m \in Message, Send(m)
  PROVE  /\ channel' \in Seq(Message)
         /\ UNCHANGED <<stats, processor, final, saved, temp, file, given_up,
                        faults, crashes>>
<1>1. Append(channel, m) \in Seq(Message) /\ << >> \in Seq(Message)
  BY DEF TypeOK
<1> QED
  BY <1>1 DEF Send

LEMMA SendIInv == IInv /\ SendNext => IInv'
<1> SUFFICES ASSUME IInv, SendNext PROVE IInv'
  OBVIOUS
<1> DEFINE Sent ==
             /\ channel' \in Seq(Message)
             /\ UNCHANGED <<stats, processor, final, saved, temp, file, given_up,
                            faults, crashes>>
             /\ held' \in BOOLEAN /\ tracked' \in 0..MaxTracked
<1>1. Sent
  <2>1. ASSUME NEW c \in Conns, NEW op \in {"success", "failure", "remove"},
               Track([op |-> op, conn |-> c])
        PROVE  Sent
    <3>1. [op |-> op, conn |-> c] \in Message
      BY MessageTyped
    <3>2. Send([op |-> op, conn |-> c])
      BY <2>1 DEF Track
    <3>3. held' \in BOOLEAN /\ tracked' \in 0..MaxTracked
      BY <2>1, UsageAssumption DEF Track, IInv, TypeOK
    <3> QED
      BY <3>1, <3>2, <3>3, SendTyped DEF IInv
  <2>2. CASE SaveTick
    <3>1. Send([op |-> "save"]) /\ UNCHANGED <<held, tracked>>
      BY <2>2 DEF SaveTick
    <3> QED
      BY <3>1, MessageTyped, SendTyped DEF IInv, TypeOK
  <2>3. CASE Shutdown
    <3>1. Send([op |-> "shutdown"]) /\ UNCHANGED <<held, tracked>>
      BY <2>3 DEF Shutdown
    <3> QED
      BY <3>1, MessageTyped, SendTyped DEF IInv, TypeOK
  <2>4. CASE DropHandles
    BY <2>4 DEF DropHandles, IInv, TypeOK
  <2> QED
    BY <2>1, <2>2, <2>3, <2>4 DEF SendNext
<1>2. TypeOK'
  BY <1>1 DEF IInv, TypeOK
<1> QED
  BY <1>1, <1>2, SameTables

-----------------------------------------------------------------------------
(* The task is idle when it takes a message, so no save is under way.      *)
LEMMA ReceiveTyped ==
  ASSUME TypeOK, NEW op, Receive(op)
  PROVE  /\ processor = "idle"
         /\ channel' \in Seq(Message)
         /\ Head(channel) \in Message /\ Head(channel).op = op
         /\ UNCHANGED <<temp, file, held, tracked, faults, crashes>>
<1>1. channel # << >> /\ channel \in Seq(Message)
  BY DEF TypeOK, Receive
<1>2. Head(channel) \in Message /\ Tail(channel) \in Seq(Message)
  BY <1>1
<1> QED
  BY <1>2 DEF Receive

(* What every message leaves of the invariant, once stats is typed and     *)
(* sound.                                                                  *)
LEMMA ReceiveFrame ==
  ASSUME IInv, NEW op, Receive(op),
         IsTable(stats'), Sound(stats)',
         processor' \in {"idle", "saving"}, final' \in BOOLEAN,
         UNCHANGED saved, given_up' \subseteq Conns, NoLessThanSaved'
  PROVE  IInv'
<1>1. /\ channel' \in Seq(Message)
      /\ UNCHANGED <<temp, file, held, tracked, faults, crashes>>
  BY ReceiveTyped DEF IInv
<1>2. TypeOK'
  BY <1>1 DEF IInv, TypeOK
<1>3. (IsTable(temp') => Sound(temp)') /\ (IsTable(file') => Sound(file)')
  BY <1>1 DEF IInv, Sound
<1>4. file' # Torn
  BY <1>1 DEF IInv, FileIsWhole
<1> QED
  BY <1>2, <1>3, <1>4 DEF IInv, FileIsWhole, ShutdownSaves

LEMMA ReceiveCallIInv ==
  ASSUME IInv, NEW op \in {"success", "failure"}, ReceiveCall(op)
  PROVE  IInv'
<1> DEFINE c == Head(channel).conn
<1>1. Receive(op) /\ UNCHANGED <<processor, final, saved, given_up>>
  BY DEF ReceiveCall
<1>2. PICK created \in Instant, read \in Instant, asked \in Instant :
        stats' = [d \in DOMAIN stats \cup {c} |->
                   IF d = c THEN Counted(EntryOr(c, created), op, read, asked)
                            ELSE stats[d]]
  BY DEF ReceiveCall
<1> DEFINE e == Counted(EntryOr(c, created), op, read, asked)
<1>3. processor = "idle" /\ Head(channel) \in Message /\ Head(channel).op = op
      /\ UNCHANGED file
  BY <1>1, ReceiveTyped DEF IInv
<1>4. c \in Conns
  BY <1>3 DEF Message, Change, Call
<1>5. IsTable(stats) /\ TypeOK /\ Sound(stats)
  BY DEF IInv, TypeOK
<1>6. /\ e \in Entry /\ AddsUp(e)
      /\ c \in DOMAIN stats => stats[c].total <= e.total
  <2>1. CASE c \in DOMAIN stats
    <3>1. stats[c] \in Entry /\ AddsUp(stats[c]) /\ stats[c].total \in Nat
      BY <1>5, <2>1, TableIs, TotalTyped DEF Sound
    <3>2. e = Counted(stats[c], op, read, asked)
      BY <2>1 DEF EntryOr
    <3>3. /\ Counted(stats[c], op, read, asked) \in Entry
          /\ AddsUp(Counted(stats[c], op, read, asked))
          /\ Counted(stats[c], op, read, asked).total = stats[c].total + 1
      BY <3>1, CountedAddsUp
    <3> HIDE DEF e, c
    <3>4. e \in Entry /\ AddsUp(e) /\ e.total = stats[c].total + 1
      BY <3>2, <3>3
    <3> QED
      BY <3>1, <3>4
  <2>2. CASE c \notin DOMAIN stats
    <3>1. e = Counted(NewStats(created), op, read, asked)
      BY <2>2 DEF EntryOr
    <3> HIDE DEF e, c
    <3> QED
      BY <2>2, <3>1, FirstAddsUp
  <2> QED
    BY <2>1, <2>2
<1>7. stats' = [d \in DOMAIN stats \cup {c} |-> IF d = c THEN e ELSE stats[d]]
  BY <1>2
<1> HIDE DEF c, e
<1>8. IsTable(stats')
  BY <1>4, <1>5, <1>6, <1>7, PutTable
<1>9. /\ DOMAIN stats' = DOMAIN stats \cup {c}
      /\ stats'[c] = e
      /\ \A d \in DOMAIN stats \ {c} : stats'[d] = stats[d]
  BY <1>7
<1>10. Sound(stats)'
  BY <1>5, <1>6, <1>9 DEF Sound
<1>11. NoLessThanSaved'
  <2> SUFFICES ASSUME NEW d \in Saved', d \notin given_up'
               PROVE  d \in DOMAIN stats' /\ file'[d].total <= stats'[d].total
    BY DEF NoLessThanSaved
  <2>1. d \in Saved /\ d \notin given_up
    BY <1>1, <1>3 DEF Saved
  <2>2. d \in DOMAIN stats /\ file[d].total <= stats[d].total
    BY <1>3, <2>1 DEF IInv, NoLessThanSaved
  <2>3. CASE d = c
    <3>1. /\ file[d].total \in Nat /\ stats[d].total \in Nat
          /\ e.total \in Nat /\ stats[c].total <= e.total
      BY <1>5, <1>6, <2>1, <2>2, <2>3, SavedTable, TotalTyped DEF Entry
    <3> QED
      BY <1>3, <1>9, <2>2, <2>3, <3>1
  <2>4. CASE d # c
    BY <1>3, <1>9, <2>2, <2>4
  <2> QED
    BY <2>3, <2>4
<1>12. /\ processor' \in {"idle", "saving"} /\ final' \in BOOLEAN
       /\ given_up' \subseteq Conns
  BY <1>1, <1>3 DEF IInv, TypeOK
<1> QED
  BY <1>1, <1>8, <1>10, <1>11, <1>12, ReceiveFrame

LEMMA ReceiveRemoveIInv == IInv /\ ReceiveRemove => IInv'
<1> SUFFICES ASSUME IInv, ReceiveRemove PROVE IInv'
  OBVIOUS
<1> DEFINE c == Head(channel).conn
<1>1. /\ Receive("remove") /\ UNCHANGED <<processor, final, saved>>
      /\ stats' = [d \in DOMAIN stats \ {c} |-> stats[d]]
      /\ given_up' = given_up \cup {c}
  BY DEF ReceiveRemove
<1>2. /\ processor = "idle" /\ UNCHANGED file
      /\ Head(channel) \in Message /\ Head(channel).op = "remove"
  BY <1>1, ReceiveTyped DEF IInv
<1>3. c \in Conns
  BY <1>2 DEF Message, Change, Call
<1> HIDE DEF c
<1>4. IsTable(stats')
  BY <1>1, DropTable DEF IInv, TypeOK
<1>5. Sound(stats)'
  BY <1>1 DEF IInv, Sound
<1>6. NoLessThanSaved'
  BY <1>1, <1>2 DEF IInv, NoLessThanSaved, Saved
<1>7. /\ processor' \in {"idle", "saving"} /\ final' \in BOOLEAN
      /\ given_up' \subseteq Conns
  BY <1>1, <1>2, <1>3 DEF IInv, TypeOK
<1> QED
  BY <1>1, <1>4, <1>5, <1>6, <1>7, ReceiveFrame

LEMMA ReceiveSaveIInv == IInv /\ (ReceiveSave \/ ReceiveShutdown) => IInv'
<1> SUFFICES ASSUME IInv, ReceiveSave \/ ReceiveShutdown PROVE IInv'
  OBVIOUS
<1>1. PICK op : /\ Receive(op)
                /\ processor' = "saving" /\ final' \in BOOLEAN
                /\ UNCHANGED <<stats, saved, given_up>>
  BY DEF ReceiveSave, ReceiveShutdown, IInv, TypeOK
<1>2. processor = "idle" /\ UNCHANGED file
  BY <1>1, ReceiveTyped DEF IInv
<1>3. IsTable(stats') /\ Sound(stats)' /\ given_up' \subseteq Conns
  BY <1>1 DEF IInv, TypeOK, Sound
<1>4. NoLessThanSaved'
  BY <1>1, <1>2 DEF IInv, NoLessThanSaved, Saved
<1> QED
  BY <1>1, <1>3, <1>4, ReceiveFrame

-----------------------------------------------------------------------------
(* A save changes no statistics; this is what it leaves of the invariant.  *)
LEMMA SaveFrame ==
  ASSUME IInv, UNCHANGED <<stats, final, held, tracked, crashes>>,
         processor # "dead",
         channel' \in {channel, << >>},
         processor' \in {"idle", "writing", "renaming", "stopped"},
         saved' \in {"never", "ok", "failed"}, faults' \in 0..MaxFaults,
         temp' \in {temp, Missing, Torn, stats},
         \/ UNCHANGED <<file, given_up>>
         \/ file' = stats /\ given_up' = {},
         processor' = "renaming" => temp' = stats,
         processor' = "stopped" => saved' = "failed" \/ file' = stats
  PROVE  IInv'
<1>1. IsTable(stats) /\ Sound(stats) /\ Sound(stats)'
  BY DEF IInv, TypeOK, Sound
<1>2. file' # Torn
  BY <1>1, UsageAssumption DEF IInv, FileIsWhole
<1>3. IsTable(temp') => Sound(temp)'
  <2>1. CASE temp' = temp
    BY <2>1 DEF IInv, Sound
  <2>2. CASE temp' = stats
    BY <1>1, <2>2 DEF Sound
  <2> QED
    BY <2>1, <2>2, UsageAssumption
<1>4. IsTable(file') => Sound(file)'
  <2>1. CASE file' = file
    BY <2>1 DEF IInv, Sound
  <2>2. CASE file' = stats
    BY <1>1, <2>2 DEF Sound
  <2> QED
    BY <2>1, <2>2
<1>5. channel' \in Seq(Message)
  <2>1. channel \in Seq(Message) /\ << >> \in Seq(Message)
    BY DEF IInv, TypeOK
  <2> QED
    BY <2>1
<1>6. TypeOK'
  BY <1>1, <1>5 DEF IInv, TypeOK
<1>7. NoLessThanSaved'
  <2>1. CASE UNCHANGED <<file, given_up>>
    BY <2>1 DEF IInv, NoLessThanSaved, Saved
  <2>2. CASE file' = stats
    <3>1. Saved' \subseteq DOMAIN stats
      BY <2>2 DEF Saved
    <3>2. \A d \in DOMAIN stats : stats[d].total \in Nat
      BY <1>1, TotalTyped
    <3>3. \A d \in DOMAIN stats : stats[d].total <= stats[d].total
      BY <3>2
    <3> QED
      BY <2>2, <3>1, <3>3 DEF NoLessThanSaved
  <2> QED
    BY <2>1, <2>2
<1> QED
  BY <1>1, <1>2, <1>3, <1>4, <1>6, <1>7 DEF IInv, FileIsWhole, ShutdownSaves

(* The outcome of a save.                                                  *)
LEMMA SaveEndsTo ==
  ASSUME NEW result \in {"ok", "failed"}, SaveEnds(result)
  PROVE  /\ channel' \in {channel, << >>}
         /\ processor' \in {"idle", "stopped"}
         /\ saved' = result
  BY DEF SaveEnds

LEMMA WriteIInv == IInv /\ (StartWrite \/ FinishWrite) => IInv'
<1> SUFFICES ASSUME IInv, StartWrite \/ FinishWrite PROVE IInv'
  OBVIOUS
<1>1. /\ UNCHANGED <<stats, final, held, tracked, crashes>>
      /\ UNCHANGED <<channel, file, saved, given_up, faults>>
      /\ processor # "dead"
      /\ \/ processor' = "writing" /\ temp' = Torn
         \/ processor' = "renaming" /\ temp' = stats
  BY DEF StartWrite, FinishWrite, SaveStep
<1>2. saved' \in {"never", "ok", "failed"} /\ faults' \in 0..MaxFaults
  BY <1>1 DEF IInv, TypeOK
<1> QED
  BY <1>1, <1>2, SaveFrame

LEMMA RenameIInv == IInv /\ Rename => IInv'
<1> SUFFICES ASSUME IInv, Rename PROVE IInv'
  OBVIOUS
<1>1. /\ processor = "renaming" /\ SaveEnds("ok")
      /\ UNCHANGED <<stats, final, held, tracked, crashes>>
      /\ given_up' = {} /\ file' = temp /\ temp' = Missing /\ faults' = faults
  BY DEF Rename, SaveStep
<1>2. file' = stats
  BY <1>1 DEF IInv
<1>3. /\ channel' \in {channel, << >>}
      /\ processor' \in {"idle", "stopped"}
      /\ saved' = "ok"
  BY <1>1, SaveEndsTo
<1>4. faults' \in 0..MaxFaults
  BY <1>1 DEF IInv, TypeOK
<1> QED
  BY <1>1, <1>2, <1>3, <1>4, SaveFrame

LEMMA SaveFailsIInv ==
  IInv /\ (DirectoryFails \/ WriteFails \/ RenameFails) => IInv'
<1> SUFFICES ASSUME IInv, DirectoryFails \/ WriteFails \/ RenameFails
             PROVE  IInv'
  OBVIOUS
<1>1. /\ Fault /\ SaveEnds("failed")
      /\ UNCHANGED <<stats, final, held, tracked, crashes>>
      /\ temp' \in {temp, Missing} /\ UNCHANGED <<file, given_up>>
      /\ processor # "dead"
  BY DEF DirectoryFails, WriteFails, RenameFails, SaveStep
<1>2. /\ channel' \in {channel, << >>}
      /\ processor' \in {"idle", "stopped"}
      /\ saved' = "failed"
  BY <1>1, SaveEndsTo
<1>3. faults' \in 0..MaxFaults
  BY <1>1, UsageAssumption DEF Fault, IInv, TypeOK
<1> QED
  BY <1>1, <1>2, <1>3, SaveFrame

-----------------------------------------------------------------------------
(* What is read back is a table that was written whole, or none.           *)
LEMMA CrashIInv == IInv /\ Crash => IInv'
<1> SUFFICES ASSUME IInv, Crash PROVE IInv'
  OBVIOUS
<1>1. /\ UNCHANGED <<final, saved, temp, file, held, given_up, tracked, faults>>
      /\ channel' = << >> /\ stats' = Empty /\ processor' = "dead"
      /\ crashes' \in 0..MaxCrashes
  BY UsageAssumption DEF Crash, IInv, TypeOK
<1>2. IsTable(stats') /\ Sound(stats)'
  BY <1>1, EmptyTable DEF Sound, Empty
<1>3. channel' \in Seq(Message)
  BY <1>1
<1>4. TypeOK'
  BY <1>1, <1>2, <1>3 DEF IInv, TypeOK
<1>5. (IsTable(temp') => Sound(temp)') /\ (IsTable(file') => Sound(file)')
  BY <1>1 DEF IInv, Sound
<1> QED
  BY <1>1, <1>2, <1>4, <1>5
     DEF IInv, FileIsWhole, ShutdownSaves, NoLessThanSaved

(* What new() makes of the file, and where it leaves the rest.             *)
LEMMA RestartTo ==
  ASSUME TypeOK, Restart
  PROVE  /\ UNCHANGED <<channel, temp, file, tracked, crashes>>
         /\ processor' = "idle" /\ final' = FALSE /\ saved' = "never" /\ held' = TRUE
         /\ faults' \in 0..MaxFaults
         /\ \/ stats' = load_from_disk /\ given_up' = {}
            \/ stats' = Empty /\ given_up' = Conns
<1>1. CASE RestartOn(load_from_disk) /\ given_up' = {} /\ UNCHANGED faults
  BY <1>1 DEF RestartOn, TypeOK
<1>2. CASE RestartOn(Empty) /\ given_up' = Conns /\ Fault
  BY <1>2, UsageAssumption DEF RestartOn, Fault, TypeOK
<1> QED
  BY <1>1, <1>2 DEF Restart

LEMMA RestartIInv == IInv /\ Restart => IInv'
<1> SUFFICES ASSUME IInv, Restart PROVE IInv'
  OBVIOUS
<1>1. /\ UNCHANGED <<channel, temp, file, tracked, crashes>>
      /\ processor' = "idle" /\ final' = FALSE /\ saved' = "never" /\ held' = TRUE
      /\ faults' \in 0..MaxFaults
      /\ \/ stats' = load_from_disk /\ given_up' = {}
         \/ stats' = Empty /\ given_up' = Conns
  BY RestartTo DEF IInv
<1>2. /\ IsTable(load_from_disk)
      /\ \A c \in DOMAIN load_from_disk : AddsUp(load_from_disk[c])
      /\ Saved = DOMAIN load_from_disk
      /\ \A c \in Saved : load_from_disk[c] = file[c]
  <2>1. CASE file \in {Missing, Torn}
    BY <2>1, EmptyTable DEF load_from_disk, Saved, Sound, Empty
  <2>2. CASE file \notin {Missing, Torn}
    BY <2>2 DEF load_from_disk, Saved, IInv, TypeOK, Sound
  <2> QED
    BY <2>1, <2>2
<1>3. IsTable(stats') /\ Sound(stats)'
  <2>1. CASE stats' = load_from_disk
    BY <1>2, <2>1 DEF Sound
  <2>2. CASE stats' = Empty
    BY <2>2, EmptyTable DEF Sound
  <2> QED
    BY <1>1, <2>1, <2>2
<1>4. TypeOK'
  BY <1>1, <1>3 DEF IInv, TypeOK
<1>5. (IsTable(temp') => Sound(temp)') /\ (IsTable(file') => Sound(file)')
  BY <1>1 DEF IInv, Sound
<1>6. NoLessThanSaved'
  <2>1. Saved' = Saved /\ \A c \in Saved : file[c].total \in Nat /\ c \in Conns
    BY <1>1, SavedTable, TableIs DEF Saved, IInv
  <2>2. \A c \in Saved : file[c].total <= file[c].total
    BY <2>1
  <2>3. CASE stats' = load_from_disk
    BY <1>1, <1>2, <2>1, <2>2, <2>3 DEF NoLessThanSaved
  <2>4. CASE given_up' = Conns
    BY <2>1, <2>4 DEF NoLessThanSaved
  <2> QED
    BY <1>1, <2>3, <2>4
<1> QED
  BY <1>1, <1>3, <1>4, <1>5, <1>6 DEF IInv, FileIsWhole, ShutdownSaves

-----------------------------------------------------------------------------
LEMMA NextIInv == IInv /\ [Next]_vars => IInv'
<1> SUFFICES ASSUME IInv, [Next]_vars PROVE IInv'
  OBVIOUS
<1>1. CASE ReceiveNext
  BY <1>1, ReceiveCallIInv, ReceiveRemoveIInv, ReceiveSaveIInv DEF ReceiveNext
<1>2. CASE SaveNext
  BY <1>2, WriteIInv, RenameIInv, SaveFailsIInv DEF SaveNext
<1>3. CASE UNCHANGED vars
  <2>1. TypeOK'
    BY <1>3 DEF vars, IInv, TypeOK
  <2> QED
    BY <1>3, <2>1, SameTables DEF vars
<1> QED
  BY <1>1, <1>2, <1>3, SendIInv, CrashIInv, RestartIInv DEF Next

(* IInv holds across updates, saves, faults, crashes and restarts.         *)
THEOREM Invariance == Spec => []IInv
  BY InitIInv, NextIInv, PTL DEF Spec

(* The statistics, the files and the task stay in their types.             *)
THEOREM TypeCorrect == Spec => []TypeOK
<1>1. IInv => TypeOK
  BY DEF IInv
<1> QED
  BY <1>1, Invariance, PTL

(* The counters of a connection add up, in memory and in the file.         *)
THEOREM CountersAddUp == Spec => []StatsAddUp
<1>1. IInv => StatsAddUp
  BY DEF IInv, TypeOK, Sound, StatsAddUp
<1> QED
  BY <1>1, Invariance, PTL

(* At no moment would a crash leave half a table under the file's name.    *)
THEOREM NeverTorn == Spec => []FileIsWhole
<1>1. IInv => FileIsWhole
  BY DEF IInv
<1> QED
  BY <1>1, Invariance, PTL

(* shutdown() ends the task only when the statistics are in the file, or   *)
(* when writing them has failed.                                           *)
THEOREM ShutdownKeepsStats == Spec => []ShutdownSaves
<1>1. IInv => ShutdownSaves
  BY DEF IInv
<1> QED
  BY <1>1, Invariance, PTL

(* Only a rename changes the file, and what it puts there has no less.     *)
LEMMA SavedKept ==
  ASSUME IInv, [Next]_vars
  PROVE  \A c \in Saved \ given_up : c \in Saved' /\ file[c].total <= file'[c].total
<1> SUFFICES ASSUME NEW c \in Saved, c \notin given_up
             PROVE  c \in Saved' /\ file[c].total <= file'[c].total
  OBVIOUS
<1>1. IsTable(file) /\ c \in DOMAIN file /\ file[c].total \in Nat
  BY SavedTable DEF IInv
<1>2. CASE UNCHANGED file
  BY <1>1, <1>2 DEF Saved
<1>3. CASE Rename
  <2>1. processor = "renaming" /\ file' = stats
    BY <1>3 DEF Rename, SaveStep, IInv
  <2>2. c \in DOMAIN stats /\ file[c].total <= stats[c].total
    BY <2>1 DEF IInv, NoLessThanSaved
  <2>3. IsTable(stats)
    BY DEF IInv, TypeOK
  <2>4. file' \notin {Missing, Torn}
    BY <2>1, <2>3, UsageAssumption
  <2> QED
    BY <2>1, <2>2, <2>4 DEF Saved
<1>4. ASSUME ~Rename PROVE UNCHANGED file
  <2>1. CASE SendNext
    BY <2>1 DEF SendNext, Track, SaveTick, Shutdown, DropHandles, Send
  <2>2. CASE ReceiveNext
    BY <2>2 DEF ReceiveNext, ReceiveCall, ReceiveRemove, ReceiveSave,
                ReceiveShutdown, Receive
  <2>3. CASE SaveNext
    BY <1>4, <2>3 DEF SaveNext, StartWrite, FinishWrite, DirectoryFails,
                      WriteFails, RenameFails
  <2>4. CASE Crash \/ Restart
    BY <2>4 DEF Crash, Restart, RestartOn
  <2> QED
    BY <2>1, <2>2, <2>3, <2>4 DEF Next, vars
<1> QED
  BY <1>2, <1>3, <1>4

(* A connection in the file stays there and its total never falls, over    *)
(* failed saves, crashes and restarts, unless it was deleted or the file   *)
(* could not be read.                                                      *)
THEOREM CountsSurvive == Spec => SavedCountsSurvive
<1>1. IInv /\ [Next]_vars =>
        [\A c \in Saved \ given_up : c \in Saved' /\ file[c].total <= file'[c].total]_vars
  BY SavedKept
<1> QED
  BY <1>1, Invariance, PTL DEF Spec, SavedCountsSurvive

-----------------------------------------------------------------------------
(* The promise of a tracker.  Of the channel the service sees the changes  *)
(* of the table, without the requests to save.                             *)
LEMMA AsUpdatesAppend ==
  ASSUME NEW s \in Seq(Change), NEW m \in Change
  PROVE  AsUpdates(Append(s, m)) = Append(AsUpdates(s), AsUpdate(m))
<1> DEFINE n == Len(s)
           t == Append(s, m)
           u == AsUpdates(s)
<1>1. /\ n \in Nat /\ DOMAIN s = 1..n /\ DOMAIN t = 1..(n + 1)
      /\ \A i \in 1..n : t[i] = s[i]
      /\ t[n + 1] = m
  OBVIOUS
<1> HIDE DEF n, t
<1>2. u = [i \in 1..n |-> AsUpdate(s[i])]
  BY <1>1 DEF AsUpdates
<1>3. AsUpdates(t) = [i \in 1..(n + 1) |-> AsUpdate(t[i])]
  BY <1>1 DEF AsUpdates
<1> HIDE DEF u
<1> DEFINE S == {AsUpdate(s[i]) : i \in 1..n}
           a == AsUpdate(m)
<1>4. u \in Seq(S) /\ Len(u) = n
  BY <1>1, <1>2
<1> HIDE DEF S, a
<1>5. Append(u, a) = [i \in 1..(n + 1) |-> IF i = n + 1 THEN a ELSE u[i]]
  <2> DEFINE v == Append(u, a)
  <2>1. u \in Seq(S \cup {a}) /\ a \in S \cup {a}
    BY <1>4
  <2>2. /\ v \in Seq(S \cup {a}) /\ Len(v) = n + 1
        /\ \A i \in 1..(n + 1) : v[i] = IF i = n + 1 THEN a ELSE u[i]
    BY <1>1, <1>4, <2>1
  <2> HIDE DEF v
  <2>3. v = [i \in 1..(n + 1) |-> v[i]]
    BY <1>1, <2>2
  <2> QED
    BY <2>2, <2>3 DEF v
<1>6. \A i \in 1..(n + 1) : i = n + 1 \/ i \in 1..n
  BY <1>1
<1>7. \A i \in 1..(n + 1) : AsUpdate(t[i]) = IF i = n + 1 THEN a ELSE u[i]
  BY <1>1, <1>2, <1>6 DEF a
<1> QED
  BY <1>3, <1>5, <1>7 DEF t, u, a

(* The first of a sequence is mapped apart from the rest.                  *)
LEMMA AsUpdatesBehind ==
  ASSUME NEW m \in Change, NEW s \in Seq(Change)
  PROVE  LET q == AsUpdates(<< m >> \o s) IN
           q # << >> /\ Head(q) = AsUpdate(m) /\ Tail(q) = AsUpdates(s)
<1> DEFINE n == Len(s)
           t == << m >> \o s
           q == AsUpdates(t)
           S == {AsUpdate(t[i]) : i \in 1..(n + 1)}
           r == Tail(q)
<1>1. << m >> \in Seq(Change) /\ Len(<< m >>) = 1
  OBVIOUS
<1>2. t \in Seq(Change) /\ Len(t) = n + 1 /\ n \in Nat
  BY <1>1
<1>3. t[1] = m /\ \A i \in 1..n : t[i + 1] = s[i]
  <2>1. t[1] = m
    BY <1>1, <1>2
  <2>2. ASSUME NEW i \in 1..n PROVE t[i + 1] = s[i]
    <3>1. /\ i + 1 \in 1..(1 + n) /\ i + 1 > 1 /\ (i + 1) - 1 = i
      BY <1>2
    <3> QED
      BY <1>1, <1>2, <3>1
  <2> QED
    BY <2>1, <2>2
<1>4. DOMAIN t = 1..(n + 1) /\ DOMAIN s = 1..n
  BY <1>2
<1> HIDE DEF t, n
<1>5. q = [i \in 1..(n + 1) |-> AsUpdate(t[i])]
  BY <1>4 DEF AsUpdates
<1>6. q \in Seq(S) /\ Len(q) = n + 1
  BY <1>2, <1>5
<1> HIDE DEF q, S
<1>7. q # << >> /\ Head(q) = q[1] /\ 1 \in 1..(n + 1)
  BY <1>2, <1>6
<1>8. r \in Seq(S) /\ Len(r) = n /\ \A i \in 1..n : r[i] = q[i + 1]
  BY <1>2, <1>6, <1>7
<1> HIDE DEF r
<1>9. r = [i \in 1..n |-> r[i]]
  BY <1>2, <1>8
<1>10. \A i \in 1..n : i + 1 \in 1..(n + 1)
  BY <1>2
<1>11. \A i \in 1..n : r[i] = AsUpdate(s[i])
  BY <1>3, <1>5, <1>8, <1>10
<1>12. AsUpdates(s) = [i \in 1..n |-> AsUpdate(s[i])]
  BY <1>4 DEF AsUpdates
<1>13. r = AsUpdates(s)
  BY <1>9, <1>11, <1>12
<1> QED
  BY <1>3, <1>5, <1>7, <1>13 DEF q, r, t

(* The lemmas about Filter are stated in an instance of its module.        *)
LEMMA UpdatesIs == \A s : Filter(s, Change) = L!Filter(s, Change)
  BY DEF Filter, L!Filter

LEMMA UpdatesTyped == TypeOK => Updates \in Seq(Change)
<1> SUFFICES ASSUME TypeOK PROVE Updates \in Seq(Change)
  OBVIOUS
<1>1. channel \in Seq(Message)
  BY DEF TypeOK
<1>2. L!Filter(channel, Change) \in Seq(Message \cap Change)
  BY <1>1, L!FilterTyped
<1>3. L!Filter(channel, Change) \in Seq(Change)
  BY <1>2
<1> QED
  BY <1>3, UpdatesIs DEF Updates

(* Sending and taking a message, as the service sees it.                   *)
LEMMA SendMapped ==
  ASSUME TypeOK, NEW m \in Message, channel' = Append(channel, m)
  PROVE  /\ m \in Change =>
              AsUpdates(Updates)' = Append(AsUpdates(Updates), AsUpdate(m))
         /\ m \notin Change => AsUpdates(Updates)' = AsUpdates(Updates)
<1>1. channel \in Seq(Message)
  BY DEF TypeOK
<1>2. L!Filter(Append(channel, m), Change)
        = IF m \in Change THEN Append(L!Filter(channel, Change), m)
                          ELSE L!Filter(channel, Change)
  BY <1>1, L!FilterAppend
<1>3. Updates' = IF m \in Change THEN Append(Updates, m) ELSE Updates
  BY <1>2, UpdatesIs DEF Updates
<1>4. AsUpdates(Updates)' = AsUpdates(Updates')
  BY DEF AsUpdates, AsUpdate
<1>5. Updates \in Seq(Change)
  BY UpdatesTyped
<1> HIDE DEF Updates
<1> QED
  BY <1>3, <1>4, <1>5, AsUpdatesAppend

(* Taking a message takes an update from the mapped channel, or nothing.   *)
LEMMA ReceiveMapped ==
  ASSUME TypeOK, NEW op, Receive(op)
  PROVE  /\ Head(channel) \in Change =>
              /\ AsUpdates(Updates) # << >>
              /\ Head(AsUpdates(Updates)) = AsUpdate(Head(channel))
              /\ AsUpdates(Updates)' = Tail(AsUpdates(Updates))
         /\ Head(channel) \notin Change => AsUpdates(Updates)' = AsUpdates(Updates)
<1>1. channel \in Seq(Message) /\ channel # << >> /\ channel' = Tail(channel)
  BY DEF TypeOK, Receive
<1>2. L!Filter(channel, Change)
        = IF Head(channel) \in Change
            THEN << Head(channel) >> \o L!Filter(Tail(channel), Change)
            ELSE L!Filter(Tail(channel), Change)
  BY <1>1, L!FilterTail
<1>3. Updates = IF Head(channel) \in Change THEN << Head(channel) >> \o Updates'
                                            ELSE Updates'
  BY <1>1, <1>2, UpdatesIs DEF Updates
<1>4. AsUpdates(Updates)' = AsUpdates(Updates')
  BY DEF AsUpdates, AsUpdate
<1>5. Updates' \in Seq(Change)
  <2>1. Tail(channel) \in Seq(Message)
    BY <1>1
  <2>2. L!Filter(Tail(channel), Change) \in Seq(Message \cap Change)
    BY <2>1, L!FilterTyped
  <2>3. L!Filter(Tail(channel), Change) \in Seq(Change)
    BY <2>2
  <2> QED
    BY <1>1, <2>3, UpdatesIs DEF Updates
<1> HIDE DEF Updates
<1> DEFINE m == Head(channel)
           up == Updates'
<1>6. Updates = IF m \in Change THEN << m >> \o up ELSE up
  BY <1>3
<1>7. up \in Seq(Change) /\ AsUpdates(Updates)' = AsUpdates(up)
  BY <1>4, <1>5
<1> HIDE DEF m, up
<1>8. CASE m \in Change
  <2>1. /\ AsUpdates(<< m >> \o up) # << >>
        /\ Head(AsUpdates(<< m >> \o up)) = AsUpdate(m)
        /\ Tail(AsUpdates(<< m >> \o up)) = AsUpdates(up)
    BY <1>7, <1>8, AsUpdatesBehind
  <2> QED
    BY <1>6, <1>7, <1>8, <2>1 DEF m
<1>9. CASE m \notin Change
  BY <1>6, <1>7, <1>9 DEF m
<1> QED
  BY <1>8, <1>9

(* A task that has ended has no messages.                                  *)
EndedIsQuiet == processor \in {"stopped", "dead"} => channel = << >>

LEMMA NextQuiet == IInv /\ EndedIsQuiet /\ [Next]_vars => EndedIsQuiet'
<1> SUFFICES ASSUME IInv, EndedIsQuiet, [Next]_vars PROVE EndedIsQuiet'
  OBVIOUS
<1>1. CASE UNCHANGED vars
  BY <1>1 DEF vars, EndedIsQuiet
<1>2. CASE SendNext
  <2>1. CASE DropHandles
    BY <2>1 DEF DropHandles, EndedIsQuiet
  <2>2. CASE \E m : Send(m)
    BY <2>2 DEF Send, EndedIsQuiet
  <2> QED
    BY <1>2, <2>1, <2>2 DEF SendNext, Track, SaveTick, Shutdown
<1>3. CASE ReceiveNext
  BY <1>3 DEF ReceiveNext, ReceiveCall, ReceiveRemove, ReceiveSave, ReceiveShutdown,
              Receive, EndedIsQuiet
<1>4. CASE SaveNext
  <2>1. CASE StartWrite \/ FinishWrite
    BY <2>1 DEF StartWrite, FinishWrite, EndedIsQuiet
  <2>2. CASE \E result : SaveEnds(result)
    BY <2>2 DEF SaveEnds, EndedIsQuiet
  <2> QED
    BY <1>4, <2>1, <2>2 DEF SaveNext, Rename, DirectoryFails, WriteFails, RenameFails
<1>5. CASE Crash \/ Restart
  BY <1>5 DEF Crash, Restart, RestartOn, EndedIsQuiet
<1> QED
  BY <1>1, <1>2, <1>3, <1>4, <1>5 DEF Next

(* What the service calls the state of the task.                           *)
LEMMA StatusIs ==
  /\ processor = "dead" => Status = "down"
  /\ processor = "stopped" => Status = "closed"
  /\ processor \notin {"dead", "stopped"} => Status = "up"
  BY DEF Status

(* Steps the service does not see.                                         *)
LEMMA Stutters ==
  ASSUME UNCHANGED <<channel, stats, processor>>
  PROVE  UNCHANGED T!servars
  BY DEF T!servars, AsUpdates, AsUpdate, Updates, Listed, Status

LEMMA InitMapped == Init => T!ServiceInit /\ EndedIsQuiet
<1> SUFFICES ASSUME Init PROVE T!ServiceInit /\ EndedIsQuiet
  OBVIOUS
<1>1. channel = << >> /\ channel \in Seq({})
  BY DEF Init
<1>2. L!Filter(channel, Change) \in Seq({} \cap Change)
  BY <1>1, L!FilterTyped
<1>3. Updates = << >>
  BY <1>2, UpdatesIs DEF Updates
<1>4. AsUpdates(Updates) = << >>
  BY <1>3 DEF AsUpdates
<1>5. Listed = {} /\ Status = "up" /\ EndedIsQuiet
  BY StatusIs DEF Init, Listed, Empty, EndedIsQuiet
<1> QED
  BY <1>4, <1>5 DEF T!ServiceInit, T!Init

(* A task that has ended drops what is sent to it.                         *)
LEMMA TrackMapped ==
  ASSUME IInv, EndedIsQuiet, NEW m \in Message, Send(m)
  PROVE  /\ Listed' = Listed /\ Status' = Status
         /\ \/ /\ Status = "up" /\ m \in Change
               /\ AsUpdates(Updates)' = Append(AsUpdates(Updates), AsUpdate(m))
            \/ AsUpdates(Updates)' = AsUpdates(Updates)
<1>1. UNCHANGED <<stats, processor>> /\ processor # "dead" /\ TypeOK
  BY DEF Send, IInv
<1>2. Listed' = Listed /\ Status' = Status
  BY <1>1 DEF Listed, Status
<1>3. CASE processor = "stopped"
  <2>1. channel' = channel
    BY <1>3 DEF Send, EndedIsQuiet
  <2> QED
    BY <1>2, <2>1 DEF AsUpdates, AsUpdate, Updates
<1>4. CASE processor # "stopped"
  <2>1. channel' = Append(channel, m)
    BY <1>4 DEF Send
  <2>2. Status = "up"
    BY <1>1, <1>4, StatusIs
  <2> QED
    BY <1>1, <1>2, <2>1, <2>2, SendMapped
<1> QED
  BY <1>3, <1>4

(* A message of the handlers is an update of the service, or, like the     *)
(* requests to save, none.                                                 *)
LEMMA SendImplements ==
  ASSUME IInv, EndedIsQuiet, SendNext
  PROVE  [T!ServiceNext]_T!servars
<1>1. ASSUME NEW c \in Conns, NEW op \in {"success", "failure", "remove"},
             Track([op |-> op, conn |-> c])
      PROVE  [T!ServiceNext]_T!servars
  <2> DEFINE m == [op |-> op, conn |-> c]
  <2>1. Send(m) /\ m \in Message
    BY <1>1, MessageTyped DEF Track
  <2>2. \/ AsUpdate(m) = [op |-> "add", conn |-> c]
        \/ AsUpdate(m) = [op |-> "remove", conn |-> c]
    BY DEF AsUpdate
  <2> HIDE DEF m
  <2>3. /\ Listed' = Listed /\ Status' = Status
        /\ \/ /\ Status = "up"
              /\ AsUpdates(Updates)' = Append(AsUpdates(Updates), AsUpdate(m))
           \/ AsUpdates(Updates)' = AsUpdates(Updates)
    BY <2>1, TrackMapped
  <2>4. CASE AsUpdates(Updates)' = AsUpdates(Updates)
    BY <2>3, <2>4 DEF T!servars
  <2>5. CASE /\ Status = "up"
             /\ AsUpdates(Updates)' = Append(AsUpdates(Updates), AsUpdate(m))
    <3>1. T!Add(c) \/ T!Remove(c)
      BY <2>2, <2>3, <2>5 DEF T!Add, T!Remove, T!Send
    <3> QED
      BY <2>3, <2>5, <3>1 DEF T!ServiceNext, T!Serve, T!Up, T!Next
  <2> QED
    BY <2>3, <2>4, <2>5
<1>2. ASSUME NEW m \in Message \ Change, Send(m)
      PROVE  UNCHANGED T!servars
  BY <1>2, TrackMapped DEF T!servars
<1>3. CASE SaveTick \/ Shutdown
  <2>1. PICK op \in {"save", "shutdown"} : Send([op |-> op])
    BY <1>3 DEF SaveTick, Shutdown
  <2>2. [op |-> op] \in Message
    BY MessageTyped
  <2>3. [op |-> op] \notin Change
    BY DEF Change, Call
  <2> QED
    BY <1>2, <2>1, <2>2, <2>3
<1>4. CASE DropHandles
  BY <1>4, Stutters DEF DropHandles
<1> QED
  BY <1>1, <1>3, <1>4 DEF SendNext

(* An update is applied; a request to save leaves the table alone.         *)
LEMMA ReceiveImplements ==
  ASSUME IInv, ReceiveNext
  PROVE  [T!ServiceNext]_T!servars
<1> DEFINE c == Head(channel).conn
           q == AsUpdates(Updates)
<1>1. TypeOK
  BY DEF IInv
<1>2. ASSUME NEW op \in {"success", "failure", "remove"}, Receive(op),
             processor' = processor,
             Listed' = IF op = "remove" THEN Listed \ {c} ELSE Listed \cup {c}
      PROVE  T!ServiceNext
  <2>1. /\ processor = "idle" /\ Head(channel) \in Message /\ Head(channel).op = op
    BY <1>1, <1>2, ReceiveTyped
  <2>2. Head(channel) \in Change
    BY <2>1 DEF Message
  <2>3. /\ q # << >> /\ Head(q) = AsUpdate(Head(channel)) /\ q' = Tail(q)
    BY <1>1, <1>2, <2>2, ReceiveMapped
  <2>4. /\ Head(q).op = (IF op = "remove" THEN "remove" ELSE "add")
        /\ Head(q).conn = c
    BY <2>1, <2>3 DEF AsUpdate
  <2>5. Status = "up" /\ Status' = "up"
    BY <1>2, <2>1 DEF Status
  <2> HIDE DEF c
  <2>6. T!Apply
    BY <1>2, <2>3, <2>4 DEF T!Apply
  <2> QED
    BY <2>5, <2>6 DEF T!ServiceNext, T!Serve, T!Up, T!Next
<1>3. ASSUME NEW op \in {"success", "failure"}, ReceiveCall(op)
      PROVE  T!ServiceNext
  <2>1. /\ Receive(op) /\ processor' = processor
        /\ DOMAIN stats' = DOMAIN stats \cup {c}
    BY <1>3 DEF ReceiveCall
  <2> QED
    BY <1>2, <2>1 DEF Listed
<1>4. CASE ReceiveRemove
  <2>1. /\ Receive("remove") /\ processor' = processor
        /\ DOMAIN stats' = DOMAIN stats \ {c}
    BY <1>4 DEF ReceiveRemove
  <2> QED
    BY <1>2, <2>1 DEF Listed
<1>5. CASE ReceiveSave \/ ReceiveShutdown
  <2>1. PICK op \in {"save", "shutdown"} :
          Receive(op) /\ processor' = "saving" /\ stats' = stats
    BY <1>5 DEF ReceiveSave, ReceiveShutdown
  <2>2. processor = "idle" /\ Head(channel).op = op
    BY <2>1 DEF Receive
  <2>3. Head(channel) \notin Change
    BY <2>2 DEF Change, Call
  <2>4. q' = q
    BY <1>1, <2>1, <2>3, ReceiveMapped
  <2>5. Listed' = Listed /\ Status' = Status
    BY <2>1, <2>2 DEF Listed, Status
  <2> QED
    BY <2>4, <2>5 DEF T!servars
<1> QED
  BY <1>3, <1>4, <1>5 DEF ReceiveNext

(* A save is invisible, unless it is the last.                             *)
LEMMA SaveImplements ==
  ASSUME IInv, SaveNext
  PROVE  [T!ServiceNext]_T!servars
<1>1. processor \in {"saving", "writing", "renaming"} /\ stats' = stats
  BY DEF SaveNext, StartWrite, FinishWrite, Rename, DirectoryFails, WriteFails,
         RenameFails, SaveStep
<1>2. Status = "up" /\ Listed' = Listed
  BY <1>1, StatusIs DEF Listed
<1>3. CASE channel' = channel /\ processor' \notin {"dead", "stopped"}
  <2>1. AsUpdates(Updates)' = AsUpdates(Updates) /\ Status' = "up"
    BY <1>3 DEF AsUpdates, AsUpdate, Updates, Status
  <2> QED
    BY <1>2, <2>1 DEF T!servars
<1>4. CASE channel' = << >> /\ processor' = "stopped"
  <2>1. << >> \in Seq({})
    OBVIOUS
  <2>2. L!Filter(<< >>, Change) \in Seq({} \cap Change)
    BY <2>1, L!FilterTyped
  <2>3. Updates' = << >>
    BY <1>4, <2>2, UpdatesIs DEF Updates
  <2>4. AsUpdates(Updates)' = << >> /\ Status' = "closed"
    BY <1>4, <2>3 DEF AsUpdates, Status
  <2> QED
    BY <1>2, <2>4 DEF T!ServiceNext, T!Stop
<1>5. ASSUME NEW result, SaveEnds(result)
      PROVE  \/ channel' = channel /\ processor' \notin {"dead", "stopped"}
             \/ channel' = << >> /\ processor' = "stopped"
  BY <1>5 DEF SaveEnds
<1>6. CASE StartWrite \/ FinishWrite
  BY <1>3, <1>6 DEF StartWrite, FinishWrite
<1>7. CASE Rename \/ DirectoryFails \/ WriteFails \/ RenameFails
  <2>1. \E result : SaveEnds(result)
    BY <1>7 DEF Rename, DirectoryFails, WriteFails, RenameFails
  <2> QED
    BY <1>3, <1>4, <1>5, <2>1
<1> QED
  BY <1>6, <1>7 DEF SaveNext

(* Each kind of step, with the step of the service it is.                  *)
LEMMA StepMapped ==
  IInv /\ EndedIsQuiet /\ [Next]_vars => [T!ServiceNext]_T!servars
<1> SUFFICES ASSUME IInv, EndedIsQuiet, [Next]_vars
             PROVE  [T!ServiceNext]_T!servars
  OBVIOUS
<1>1. CASE UNCHANGED vars
  <2>1. UNCHANGED <<channel, stats, processor>>
    BY <1>1 DEF vars
  <2> QED
    BY <2>1, Stutters
<1>2. CASE Crash
  <2>1. << >> \in Seq({})
    OBVIOUS
  <2>2. L!Filter(<< >>, Change) \in Seq({} \cap Change)
    BY <2>1, L!FilterTyped
  <2>3. Updates' = << >>
    BY <1>2, <2>2, UpdatesIs DEF Updates, Crash
  <2>4. /\ AsUpdates(Updates)' = << >> /\ Listed' = {}
        /\ Status # "down" /\ Status' = "down"
    BY <1>2, <2>3 DEF Crash, AsUpdates, Listed, Empty, Status
  <2> QED
    BY <2>4 DEF T!ServiceNext, T!Die
<1>3. CASE Restart
  <2>1. Status = "down" /\ Status' = "up" /\ channel' = channel
    BY <1>3 DEF Restart, RestartOn, Status
  <2>2. Listed' \in SUBSET Conns
    <3>1. IsTable(load_from_disk)
      BY EmptyTable DEF load_from_disk, IInv, TypeOK
    <3> QED
      BY <1>3, <3>1, EmptyTable, TableIs DEF Restart, RestartOn, Listed
  <2>3. AsUpdates(Updates)' = AsUpdates(Updates)
    BY <2>1 DEF AsUpdates, AsUpdate, Updates
  <2> QED
    BY <2>1, <2>2, <2>3 DEF T!ServiceNext, T!Revive
<1> QED
  BY <1>1, <1>2, <1>3, SendImplements, ReceiveImplements, SaveImplements DEF Next

(* Every behaviour of the usage tracker is one of a tracker: each step     *)
(* maps to a step of TrackerService or to a stutter. (Its fairness is left *)
(* to TLC.)                                                                *)
THEOREM ImplementsService == Spec => T!ServiceInit /\ [][T!ServiceNext]_T!servars
<1>1. Spec => []EndedIsQuiet
  BY InitMapped, NextQuiet, Invariance, PTL DEF Spec
<1> QED
  BY <1>1, InitMapped, StepMapped, Invariance, PTL DEF Spec
=============================================================================
