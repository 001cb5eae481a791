-------------------------- MODULE ToolHistoryProofs -------------------------
(***************************************************************************)
(* Proofs about ToolHistory for any limits and bounds.                     *)
(*                                                                         *)
(* The cache and the queue of a connection end with the same records.  A   *)
(* call is appended to both, and the cache then cut from the front; since  *)
(* of two sequences that end alike one is the end of the other, the cut    *)
(* does no harm.                                                           *)
(*                                                                         *)
(* No record is written twice.  Records are numbered in the order of the   *)
(* calls and the channel keeps that order, so that the one received next   *)
(* is newer than all received before; from there each has one place, which *)
(* a flush, a write, a rotation or a crash can only change for another.    *)
(*                                                                         *)
(* The task implements TrackerService, and the pages of a cache are        *)
(* windows of it.                                                          *)
(***************************************************************************)
EXTENDS ToolHistory, FiniteSetTheorems, TLAPS

(* The facts about indices and filters that all trackers share.            *)
L == INSTANCE TrackerLemmas WITH queue <- channel, present <- DOMAIN entries

(* s is the end of t: they agree from the back, as far as s goes.          *)
LEMMA SuffixIs ==
  ASSUME NEW s \in Seq(Record), NEW t \in Seq(Record)
  PROVE  IsSuffix(s, t) <=> /\ Len(s) <= Len(t)
                            /\ \A i \in 1..Len(s) :
                                 s[i] = t[Len(t) - Len(s) + i]
<1> DEFINE r == Reverse(s)
           u == Reverse(t)
<1>1. /\ r \in Seq(Record) /\ Len(r) = Len(s)
      /\ \A i \in 1..Len(s) : r[i] = s[Len(s) - i + 1]
  BY DEF Reverse
<1>2. /\ u \in Seq(Record) /\ Len(u) = Len(t)
      /\ \A i \in 1..Len(t) : u[i] = t[Len(t) - i + 1]
  BY DEF Reverse
<1>3. IsSuffix(s, t) <=> IsPrefix(r, u)
  BY DEF IsSuffix
<1> HIDE DEF r, u
<1>4. IsPrefix(r, u) <=> /\ Len(s) <= Len(t)
                         /\ \A i \in 1..Len(s) : r[i] = u[i]
  BY <1>1, <1>2 DEF IsPrefix
<1>5. ASSUME Len(s) <= Len(t)
      PROVE  (\A i \in 1..Len(s) : r[i] = u[i])
               <=> \A i \in 1..Len(s) : s[i] = t[Len(t) - Len(s) + i]
  <2>1. ASSUME \A i \in 1..Len(s) : r[i] = u[i], NEW i \in 1..Len(s)
        PROVE  s[i] = t[Len(t) - Len(s) + i]
    <3> DEFINE k == Len(s) - i + 1
    <3>1. /\ k \in 1..Len(s) /\ k \in 1..Len(t)
          /\ Len(s) - k + 1 = i
          /\ Len(t) - k + 1 = Len(t) - Len(s) + i
      BY <1>5
    <3> HIDE DEF k
    <3>2. r[k] = u[k] /\ r[k] = s[Len(s) - k + 1] /\ u[k] = t[Len(t) - k + 1]
      BY <1>1, <1>2, <2>1, <3>1
    <3> QED
      BY <3>1, <3>2
  <2>2. ASSUME \A i \in 1..Len(s) : s[i] = t[Len(t) - Len(s) + i],
               NEW i \in 1..Len(s)
        PROVE  r[i] = u[i]
    <3>1. Len(s) - i + 1 \in 1..Len(s) /\ i \in 1..Len(t)
      BY <1>5
    <3>2. s[Len(s) - i + 1] = t[Len(t) - Len(s) + (Len(s) - i + 1)]
      BY <2>2, <3>1
    <3>3. Len(t) - Len(s) + (Len(s) - i + 1) = Len(t) - i + 1
      OBVIOUS
    <3> QED
      BY <1>1, <1>2, <3>1, <3>2, <3>3
  <2> QED
    BY <2>1, <2>2
<1> QED
  BY <1>3, <1>4, <1>5

(* The newest n of s are the end of s.                                     *)
LEMMA LastNIs ==
  ASSUME NEW s \in Seq(Record), NEW n \in Nat
  PROVE  LastN(s, n) \in Seq(Record) /\ IsSuffix(LastN(s, n), s)
<1>1. CASE Len(s) > n
  <2> DEFINE t == SubSeq(s, Len(s) - n + 1, Len(s))
  <2>1. /\ t \in Seq(Record) /\ Len(t) = n
        /\ \A i \in 1..Len(t) : t[i] = s[Len(s) - Len(t) + i]
    BY <1>1
  <2>2. LastN(s, n) = t
    BY <1>1 DEF LastN
  <2>3. Len(t) <= Len(s)
    BY <1>1, <2>1
  <2> HIDE DEF t
  <2>4. IsSuffix(t, s)
    BY <2>1, <2>3, SuffixIs
  <2> QED
    BY <2>1, <2>2, <2>4
<1>2. CASE ~(Len(s) > n)
  <2>1. LastN(s, n) = s
    BY <1>2 DEF LastN
  <2>2. IsSuffix(s, s)
    BY SuffixIs
  <2> QED
    BY <2>1, <2>2
<1> QED
  BY <1>1, <1>2

(* What ends like the end ends like the whole.                             *)
LEMMA SuffixOfSuffix ==
  ASSUME NEW s \in Seq(Record), NEW t \in Seq(Record), NEW u \in Seq(Record),
         IsSuffix(s, t), IsSuffix(t, u)
  PROVE  IsSuffix(s, u)
<1>1. /\ Len(s) <= Len(t) /\ Len(t) <= Len(u)
      /\ \A i \in 1..Len(s) : s[i] = t[Len(t) - Len(s) + i]
      /\ \A i \in 1..Len(t) : t[i] = u[Len(u) - Len(t) + i]
  BY SuffixIs
<1>2. ASSUME NEW i \in 1..Len(s)
      PROVE  s[i] = u[Len(u) - Len(s) + i]
  <2>1. /\ Len(t) - Len(s) + i \in 1..Len(t)
        /\ Len(u) - Len(t) + (Len(t) - Len(s) + i) = Len(u) - Len(s) + i
    BY <1>1
  <2> QED
    BY <1>1, <2>1
<1> QED
  BY <1>1, <1>2, SuffixIs

(* Of two ends of the same sequence one is the end of the other.           *)
LEMMA SuffixesCompare ==
  ASSUME NEW s \in Seq(Record), NEW t \in Seq(Record), NEW u \in Seq(Record),
         IsSuffix(s, u), IsSuffix(t, u), Len(s) <= Len(t)
  PROVE  IsSuffix(s, t)
<1>1. /\ Len(s) <= Len(u) /\ Len(t) <= Len(u)
      /\ \A i \in 1..Len(s) : s[i] = u[Len(u) - Len(s) + i]
      /\ \A i \in 1..Len(t) : t[i] = u[Len(u) - Len(t) + i]
  BY SuffixIs
<1>2. ASSUME NEW i \in 1..Len(s)
      PROVE  s[i] = t[Len(t) - Len(s) + i]
  <2>1. /\ Len(t) - Len(s) + i \in 1..Len(t)
        /\ Len(u) - Len(t) + (Len(t) - Len(s) + i) = Len(u) - Len(s) + i
    BY <1>1
  <2> QED
    BY <1>1, <2>1
<1> QED
  BY <1>2, SuffixIs

LEMMA AppendToBoth ==
  ASSUME NEW s \in Seq(Record), NEW t \in Seq(Record), NEW r \in Record,
         IsSuffix(s, t)
  PROVE  IsSuffix(Append(s, r), Append(t, r))
<1> DEFINE a == Append(s, r)
           b == Append(t, r)
<1>1. /\ a \in Seq(Record) /\ b \in Seq(Record)
      /\ Len(a) = Len(s) + 1 /\ Len(b) = Len(t) + 1
      /\ \A i \in 1..Len(s) : a[i] = s[i]
      /\ \A i \in 1..Len(t) : b[i] = t[i]
      /\ a[Len(s) + 1] = r /\ b[Len(t) + 1] = r
  OBVIOUS
<1>2. /\ Len(s) <= Len(t)
      /\ \A i \in 1..Len(s) : s[i] = t[Len(t) - Len(s) + i]
  BY SuffixIs
<1> HIDE DEF a, b
<1>3. ASSUME NEW i \in 1..Len(a)
      PROVE  a[i] = b[Len(b) - Len(a) + i]
  <2>1. CASE i = Len(s) + 1
    <3>1. Len(b) - Len(a) + i = Len(t) + 1
      BY <1>1, <2>1
    <3> QED
      BY <1>1, <2>1, <3>1
  <2>2. CASE i # Len(s) + 1
    <3>1. /\ i \in 1..Len(s)
          /\ Len(b) - Len(a) + i = Len(t) - Len(s) + i
          /\ Len(t) - Len(s) + i \in 1..Len(t)
      BY <1>1, <1>2, <2>2
    <3> QED
      BY <1>1, <1>2, <3>1
  <2> QED
    BY <2>1, <2>2
<1>4. a \in Seq(Record) /\ b \in Seq(Record) /\ Len(a) <= Len(b)
  BY <1>1, <1>2
<1>5. IsSuffix(a, b)
  BY <1>3, <1>4, SuffixIs
<1> QED
  BY <1>5 DEF a, b

LEMMA EmptyIsSuffix ==
  ASSUME NEW s \in Seq(Record)
  PROVE  << >> \in Seq(Record) /\ IsSuffix(<< >>, s)
<1> DEFINE e == << >>
<1>1. e \in Seq(Record) /\ Len(e) = 0 /\ 0 <= Len(s)
  OBVIOUS
<1> HIDE DEF e
<1>2. \A i \in 1..Len(e) : e[i] = s[Len(s) - Len(e) + i]
  BY <1>1
<1>3. IsSuffix(e, s)
  BY <1>1, <1>2, SuffixIs
<1> QED
  BY <1>1, <1>3 DEF e

-----------------------------------------------------------------------------
(* One of the two is the end of the other.                                 *)
Tails(s, t) == IsSuffix(s, t) \/ IsSuffix(t, s)

(* A call goes to both, and the cache is cut to its limit.                 *)
LEMMA PushKeepsTails ==
  ASSUME NEW cached \in Seq(Record), NEW waiting \in Seq(Record),
         NEW r \in Record, NEW n \in Nat, Tails(cached, waiting)
  PROVE  Tails(LastN(Append(cached, r), n), Append(waiting, r))
<1> DEFINE a == Append(cached, r)
           w == Append(waiting, r)
           x == LastN(a, n)
<1>1. a \in Seq(Record) /\ w \in Seq(Record)
  OBVIOUS
<1>2. x \in Seq(Record) /\ IsSuffix(x, a)
  BY <1>1, LastNIs
<1>3. IsSuffix(a, w) \/ IsSuffix(w, a)
  BY AppendToBoth DEF Tails
<1> HIDE DEF a, w, x
<1>4. CASE IsSuffix(a, w)
  BY <1>1, <1>2, <1>4, SuffixOfSuffix DEF Tails, x, a, w
<1>5. CASE IsSuffix(w, a)
  <2>1. Len(x) <= Len(w) \/ Len(w) <= Len(x)
    BY <1>1, <1>2
  <2>2. IsSuffix(x, w) \/ IsSuffix(w, x)
    BY <1>1, <1>2, <1>5, <2>1, SuffixesCompare
  <2> QED
    BY <2>2 DEF Tails, x, a, w
<1> QED
  BY <1>3, <1>4, <1>5

(* What the three ways to change a table leave for each connection.        *)
LEMMA PushOf ==
  ASSUME NEW t, NEW c, NEW r
  PROVE  \A d : Of(Push(t, c, r), d) = IF d = c THEN Append(Of(t, c), r)
                                                ELSE Of(t, d)
  BY DEF Push, Of

LEMMA PushNewestDomain ==
  ASSUME NEW t, NEW c, NEW r
  PROVE  DOMAIN PushNewest(t, c, r) = DOMAIN t \cup {c}
  BY DEF PushNewest, Push

LEMMA PushNewestValue ==
  ASSUME NEW t, NEW c, NEW r
  PROVE  /\ PushNewest(t, c, r)[c]
              = LastN(Append(Of(t, c), r), MAX_HISTORY_ENTRIES)
         /\ \A d \in DOMAIN t : d # c => PushNewest(t, c, r)[d] = t[d]
<1>1. /\ DOMAIN Push(t, c, r) = DOMAIN t \cup {c}
      /\ Push(t, c, r)[c] = Append(Of(t, c), r)
      /\ \A d \in DOMAIN t : d # c => Push(t, c, r)[d] = t[d]
  BY DEF Push
<1> QED
  BY <1>1 DEF PushNewest

LEMMA PushNewestAt ==
  ASSUME NEW t, NEW c, NEW r
  PROVE  Of(PushNewest(t, c, r), c)
           = LastN(Append(Of(t, c), r), MAX_HISTORY_ENTRIES)
<1> DEFINE u == PushNewest(t, c, r)
<1>1. DOMAIN u = DOMAIN t \cup {c}
  BY PushNewestDomain
<1>3. u[c] = LastN(Append(Of(t, c), r), MAX_HISTORY_ENTRIES)
  BY PushNewestValue
<1> HIDE DEF u
<1>2. Of(u, c) = u[c]
  BY <1>1 DEF Of
<1> QED
  BY <1>3, <1>2 DEF u

LEMMA PushNewestElse ==
  ASSUME NEW t, NEW c, NEW r, NEW d, d # c
  PROVE  Of(PushNewest(t, c, r), d) = Of(t, d)
<1> DEFINE u == PushNewest(t, c, r)
<1>1. DOMAIN u = DOMAIN t \cup {c}
  BY PushNewestDomain
<1>3. d \in DOMAIN t => u[d] = t[d]
  BY PushNewestValue
<1> HIDE DEF u
<1>2. Of(u, d) = Of(t, d)
  BY <1>1, <1>3 DEF Of
<1> QED
  BY <1>2 DEF u

LEMMA DropOf ==
  ASSUME NEW t, NEW c
  PROVE  /\ DOMAIN Drop(t, c) = DOMAIN t \ {c}
         /\ \A d : Of(Drop(t, c), d) = IF d = c THEN << >> ELSE Of(t, d)
  BY DEF Drop, Of

-----------------------------------------------------------------------------
(* What keeps it so: the types of what the task moves from the channel to  *)
(* the cache and the queue, which a dead process has lost.                 *)
CacheTyped ==
  /\ channel \in Seq(Update)
  /\ calls \in 0..MaxCalls
  /\ \A c \in Conns : /\ Of(entries, c) \in Seq(Record)
                      /\ Of(write_queue, c) \in Seq(Record)
  /\ processor = "dead" => write_queue = Empty

TailInv == CacheTyped /\ QueueIsCacheTail

(* The invariant, connection by connection.                                *)
LEMMA TailInvIs ==
  QueueIsCacheTail <=>
    \A c \in Conns :
      /\ c \notin DOMAIN entries => Of(write_queue, c) = << >>
      /\ Tails(Of(entries, c), Of(write_queue, c))
  BY DEF QueueIsCacheTail, Tails

LEMMA InitTailInv == Init => TailInv
<1> SUFFICES ASSUME Init PROVE TailInv
  OBVIOUS
<1>1. \A c \in Conns : Of(entries, c) = << >> /\ Of(write_queue, c) = << >>
  BY DEF Init, Of, Empty
<1>2. << >> \in Seq(Record)
  OBVIOUS
<1>3. IsSuffix(<< >>, << >>)
  BY <1>2, EmptyIsSuffix
<1>4. channel \in Seq(Update) /\ calls \in 0..MaxCalls
  BY HistoryAssumption DEF Init
<1>5. CacheTyped
  BY <1>1, <1>2, <1>4 DEF Init, CacheTyped
<1>6. QueueIsCacheTail
  BY <1>1, <1>3, TailInvIs DEF Tails
<1> QED
  BY <1>5, <1>6 DEF TailInv

(* A step that leaves the cache and the queue alone, and revives nothing.  *)
LEMMA Untouched ==
  ASSUME TailInv, UNCHANGED <<entries, write_queue>>,
         channel' \in Seq(Update), calls' \in 0..MaxCalls,
         processor' = "dead" => write_queue = Empty
  PROVE  TailInv'
  BY DEF TailInv, CacheTyped, QueueIsCacheTail

LEMMA SendTailInv == TailInv /\ SendNext => TailInv'
<1> SUFFICES ASSUME TailInv, SendNext PROVE TailInv'
  OBVIOUS
<1>1. PICK c \in Conns : track_call(c) \/ remove_connection(c)
  BY DEF SendNext
<1>2. PICK u \in Update : Send(u) /\ calls' \in 0..MaxCalls
  <2>1. CASE track_call(c)
    <3>1. calls + 1 \in 1..MaxCalls /\ calls' = calls + 1
      BY <2>1, HistoryAssumption DEF track_call, TailInv, CacheTyped
    <3>2. [op |-> "add", conn |-> c, rec |-> calls + 1] \in Update
      BY <3>1 DEF Update, Record
    <3> QED
      BY <2>1, <3>1, <3>2 DEF track_call
  <2>2. CASE remove_connection(c)
    <3>1. [op |-> "remove", conn |-> c] \in Update
      BY DEF Update
    <3> QED
      BY <2>2, <3>1 DEF remove_connection, TailInv, CacheTyped
  <2> QED
    BY <1>1, <2>1, <2>2
<1>3. channel' \in Seq(Update)
  BY <1>2 DEF Send, TailInv, CacheTyped
<1> QED
  BY <1>2, <1>3, Untouched DEF Send, TailInv, CacheTyped

(* What both kinds of update leave, once cache and queue agree again.      *)
LEMMA ReceiveFrame ==
  ASSUME TailInv, NEW op, Receive(op)
  PROVE  /\ Head(channel) \in Update /\ Head(channel).op = op
         /\ channel' \in Seq(Update)
         /\ calls' = calls /\ calls \in 0..MaxCalls
         /\ processor' = "idle"
<1>1. channel # << >> /\ channel \in Seq(Update)
  BY DEF TailInv, CacheTyped, Receive
<1>2. Head(channel) \in Update /\ Tail(channel) \in Seq(Update)
  BY <1>1
<1> QED
  BY <1>2 DEF Receive, bounds, TailInv, CacheTyped

LEMMA ReceiveAddTailInv == TailInv /\ ReceiveAdd => TailInv'
<1> SUFFICES ASSUME TailInv, ReceiveAdd PROVE TailInv'
  OBVIOUS
<1>1. /\ Receive("add")
      /\ entries' = PushNewest(entries, Head(channel).conn, Head(channel).rec)
      /\ write_queue' = Push(write_queue, Head(channel).conn, Head(channel).rec)
  BY DEF ReceiveAdd
<1>2. /\ Head(channel) \in Update /\ Head(channel).op = "add"
      /\ channel' \in Seq(Update) /\ calls' \in 0..MaxCalls
      /\ processor' = "idle"
  BY <1>1, ReceiveFrame
<1>3. PICK c \in Conns, r \in Record :
        /\ entries' = PushNewest(entries, c, r)
        /\ write_queue' = Push(write_queue, c, r)
  BY <1>1, <1>2 DEF Update
<1>4. DOMAIN entries' = DOMAIN entries \cup {c}
  BY <1>3, PushNewestDomain
<1>9. Of(entries', c) = LastN(Append(Of(entries, c), r), MAX_HISTORY_ENTRIES)
  BY <1>3, PushNewestAt
<1>10. \A d : d # c => Of(entries', d) = Of(entries, d)
  BY <1>3, PushNewestElse
<1>5. \A d : Of(write_queue', d) = IF d = c THEN Append(Of(write_queue, c), r)
                                            ELSE Of(write_queue, d)
  BY <1>3, PushOf
<1>6. ASSUME NEW d \in Conns
      PROVE  /\ Of(entries', d) \in Seq(Record)
             /\ Of(write_queue', d) \in Seq(Record)
             /\ d \notin DOMAIN entries' => Of(write_queue', d) = << >>
             /\ Tails(Of(entries', d), Of(write_queue', d))
  <2>1. /\ Of(entries, d) \in Seq(Record)
        /\ Of(write_queue, d) \in Seq(Record)
        /\ d \notin DOMAIN entries => Of(write_queue, d) = << >>
        /\ Tails(Of(entries, d), Of(write_queue, d))
    BY TailInvIs DEF TailInv, CacheTyped
  <2>2. CASE d = c
    <3>1. MAX_HISTORY_ENTRIES \in Nat
      BY HistoryAssumption
    <3>2. Append(Of(entries, c), r) \in Seq(Record)
          /\ Append(Of(write_queue, c), r) \in Seq(Record)
      BY <1>3, <2>1, <2>2
    <3>3. LastN(Append(Of(entries, c), r), MAX_HISTORY_ENTRIES) \in Seq(Record)
      BY <3>1, <3>2, LastNIs
    <3>4. Tails(LastN(Append(Of(entries, c), r), MAX_HISTORY_ENTRIES),
                Append(Of(write_queue, c), r))
      BY <1>3, <2>1, <2>2, <3>1, PushKeepsTails
    <3> QED
      BY <1>4, <1>5, <1>9, <2>2, <3>2, <3>3, <3>4
  <2>3. CASE d # c
    BY <1>4, <1>5, <1>10, <2>1, <2>3
  <2> QED
    BY <2>2, <2>3
<1>7. CacheTyped'
  BY <1>2, <1>6 DEF CacheTyped
<1>8. QueueIsCacheTail'
  BY <1>6 DEF QueueIsCacheTail, Tails
<1> QED
  BY <1>7, <1>8 DEF TailInv

LEMMA ReceiveRemoveTailInv == TailInv /\ ReceiveRemove => TailInv'
<1> SUFFICES ASSUME TailInv, ReceiveRemove PROVE TailInv'
  OBVIOUS
<1> DEFINE c == Head(channel).conn
<1>1. /\ Receive("remove")
      /\ entries' = Drop(entries, c)
      /\ write_queue' = Drop(write_queue, c)
  BY DEF ReceiveRemove
<1>2. /\ channel' \in Seq(Update) /\ calls' \in 0..MaxCalls
      /\ processor' = "idle"
  BY <1>1, ReceiveFrame
<1> HIDE DEF c
<1>3. /\ DOMAIN entries' = DOMAIN entries \ {c}
      /\ \A d : Of(entries', d) = IF d = c THEN << >> ELSE Of(entries, d)
      /\ \A d : Of(write_queue', d) = IF d = c THEN << >> ELSE Of(write_queue, d)
  BY <1>1, DropOf
<1>4. << >> \in Seq(Record)
  OBVIOUS
<1>5. Tails(<< >>, << >>)
  <2>1. IsSuffix(<< >>, << >>)
    BY <1>4, EmptyIsSuffix
  <2> QED
    BY <2>1 DEF Tails
<1>6. ASSUME NEW d \in Conns
      PROVE  /\ Of(entries', d) \in Seq(Record)
             /\ Of(write_queue', d) \in Seq(Record)
             /\ d \notin DOMAIN entries' => Of(write_queue', d) = << >>
             /\ Tails(Of(entries', d), Of(write_queue', d))
  BY <1>3, <1>4, <1>5, TailInvIs DEF TailInv, CacheTyped
<1>7. CacheTyped'
  BY <1>2, <1>6 DEF CacheTyped
<1>8. QueueIsCacheTail'
  BY <1>6 DEF QueueIsCacheTail, Tails
<1> QED
  BY <1>7, <1>8 DEF TailInv

-----------------------------------------------------------------------------
(* The flush empties every queue.                                          *)
LEMMA FlushTailInv == TailInv /\ FlushTick => TailInv'
<1> SUFFICES ASSUME TailInv, FlushTick PROVE TailInv'
  OBVIOUS
<1>1. /\ write_queue' = [c \in DOMAIN write_queue |-> << >>]
      /\ UNCHANGED <<channel, entries, calls>> /\ processor' = "opening"
  BY DEF FlushTick, TakeAll, bounds
<1>2. \A c : Of(write_queue', c) = << >>
  BY <1>1 DEF Of
<1>3. << >> \in Seq(Record)
  OBVIOUS
<1>4. \A c \in Conns : IsSuffix(<< >>, Of(entries, c))
  BY EmptyIsSuffix DEF TailInv, CacheTyped
<1>5. CacheTyped'
  BY <1>1, <1>2, <1>3 DEF TailInv, CacheTyped
<1>6. QueueIsCacheTail'
  BY <1>1, <1>2, <1>4 DEF QueueIsCacheTail
<1> QED
  BY <1>5, <1>6 DEF TailInv

LEMMA TaskStepTailInv ==
  ASSUME TailInv, NEW from, NEW to, TaskStep(from, to), to # "dead"
  PROVE  TailInv'
  BY Untouched DEF TaskStep, memory, TailInv, CacheTyped

LEMMA TaskTailInv ==
  TailInv /\ (Open \/ OpenFails \/ WriteRecord \/ EndBatch \/ RotateNext) => TailInv'
<1> SUFFICES ASSUME TailInv,
                    Open \/ OpenFails \/ WriteRecord \/ EndBatch \/ RotateNext
             PROVE  TailInv'
  OBVIOUS
<1>1. \E from, to : TaskStep(from, to) /\ to # "dead"
  <2>1. CASE Open \/ OpenFails \/ WriteRecord
    BY <2>1 DEF Open, OpenFails, WriteRecord
  <2>2. CASE EndBatch
    BY <2>2 DEF EndBatch
  <2>3. CASE ReadFile
    BY <2>3 DEF ReadFile
  <2>4. CASE CreateTemp \/ FinishCopy \/ Rename \/ RotationFails
    BY <2>4 DEF CreateTemp, FinishCopy, Rename, RotationFails
  <2> QED
    BY <2>1, <2>2, <2>3, <2>4 DEF RotateNext
<1> QED
  BY <1>1, TaskStepTailInv

LEMMA LandTailInv == TailInv /\ LandNext => TailInv'
<1> SUFFICES ASSUME TailInv, LandNext PROVE TailInv'
  OBVIOUS
<1>1. UNCHANGED <<channel, entries, write_queue, processor, calls>>
  BY DEF LandNext, WriteLands, WriteFails, EndWrite, memory
<1> QED
  BY <1>1, Untouched DEF TailInv, CacheTyped

(* What a restart reads back belongs to no connection.                     *)
LEMMA CrashTailInv == TailInv /\ Crash => TailInv'
<1> SUFFICES ASSUME TailInv, Crash PROVE TailInv'
  OBVIOUS
<1>1. /\ channel' = << >> /\ entries' = Empty /\ write_queue' = Empty
      /\ calls' = calls
  BY DEF Crash
<1>2. \A c : Of(entries', c) = << >> /\ Of(write_queue', c) = << >>
  BY <1>1 DEF Of, Empty
<1>3. << >> \in Seq(Record) /\ channel' \in Seq(Update)
  BY <1>1
<1>4. IsSuffix(<< >>, << >>)
  BY <1>3, EmptyIsSuffix
<1>5. CacheTyped'
  BY <1>1, <1>2, <1>3 DEF TailInv, CacheTyped
<1>6. QueueIsCacheTail'
  BY <1>2, <1>4 DEF QueueIsCacheTail
<1> QED
  BY <1>5, <1>6 DEF TailInv

LEMMA RestartTailInv == TailInv /\ Restart => TailInv'
<1> SUFFICES ASSUME TailInv, Restart PROVE TailInv'
  OBVIOUS
<1>1. /\ entries' \in {load_from_disk, Empty} /\ processor' = "idle"
      /\ UNCHANGED <<channel, write_queue, calls>> /\ write_queue = Empty
  BY DEF Restart, RestartOn, TailInv, CacheTyped
<1>2. ASSUME NEW c \in Conns
      PROVE  Of(entries', c) = << >> /\ Of(write_queue', c) = << >>
  <2>1. c # Legacy
    BY HistoryAssumption
  <2> QED
    BY <1>1, <2>1 DEF Of, Empty, load_from_disk
<1>3. << >> \in Seq(Record)
  OBVIOUS
<1>4. IsSuffix(<< >>, << >>)
  BY <1>3, EmptyIsSuffix
<1>5. CacheTyped'
  BY <1>1, <1>2, <1>3 DEF TailInv, CacheTyped
<1>6. QueueIsCacheTail'
  BY <1>2, <1>4 DEF QueueIsCacheTail
<1> QED
  BY <1>5, <1>6 DEF TailInv

-----------------------------------------------------------------------------
LEMMA NextTailInv == TailInv /\ [Next]_vars => TailInv'
<1> SUFFICES ASSUME TailInv, [Next]_vars PROVE TailInv'
  OBVIOUS
<1>1. CASE ReceiveNext
  BY <1>1, ReceiveAddTailInv, ReceiveRemoveTailInv DEF ReceiveNext
<1>2. CASE FlushNext
  BY <1>2, FlushTailInv, TaskTailInv DEF FlushNext
<1>3. CASE RotateNext
  BY <1>3, TaskTailInv
<1>4. CASE UNCHANGED vars
  BY <1>4, Untouched DEF vars, memory, bounds, TailInv, CacheTyped
<1> QED
  BY <1>1, <1>2, <1>3, <1>4, SendTailInv, LandTailInv, CrashTailInv,
     RestartTailInv DEF Next

(* At any time, and for any limits, one of a connection's cache and queue  *)
(* is the end of the other, and a removed connection has nothing waiting.  *)
THEOREM CacheAndQueueAgree == Spec => [](CacheTyped /\ QueueIsCacheTail)
<1>1. TailInv => CacheTyped /\ QueueIsCacheTail
  BY DEF TailInv
<1> QED
  BY <1>1, InitTailInv, NextTailInv, PTL DEF Spec

-----------------------------------------------------------------------------
(* Sequences without repetition.                                           *)
(* g has the first i sequences of ss, joined, at i.                        *)
Joined(g, ss, n) == g = [i \in 1..n |-> IF i = 1 THEN ss[i] ELSE g[i-1] \o ss[i]]

(* The sequences of ss are joined one by one: induction over how many.     *)
LEMMA JoinedExists ==
  ASSUME NEW ss, NEW n \in Nat, n >= 1
  PROVE \E g : Joined(g, ss, n)
<1> DEFINE Good == {k \in Nat : \E g : Joined(g, ss, k)}
<1>1. 1 \in Good
  <2> DEFINE g == [i \in 1..1 |-> ss[1]]
  <2>1. Joined(g, ss, 1)
    BY DEF Joined
  <2> QED
    BY <2>1
<1>2. ASSUME NEW k \in 1..(n-1), k \in Good PROVE k+1 \in Good
  <2>1. PICK g : Joined(g, ss, k)
    BY <1>2
  <2> DEFINE h == [i \in 1..(k+1) |-> IF i <= k THEN g[i] ELSE g[k] \o ss[k+1]]
  <2>2. \A i \in 1..(k+1) : h[i] = IF i = 1 THEN ss[i] ELSE h[i-1] \o ss[i]
    <3> SUFFICES ASSUME NEW i \in 1..(k+1)
                 PROVE  h[i] = IF i = 1 THEN ss[i] ELSE h[i-1] \o ss[i]
      OBVIOUS
    <3>1. CASE i <= k
       <4>1. i \in 1..k /\ h[i] = g[i] /\ (i # 1 => h[i-1] = g[i-1])
         BY <3>1
       <4>2. g[i] = IF i = 1 THEN ss[i] ELSE g[i-1] \o ss[i]
         BY <4>1, <2>1 DEF Joined
       <4> QED
         BY <4>1, <4>2
    <3>2. CASE i = k+1
       BY <3>2
    <3> QED
      BY <3>1, <3>2
  <2> HIDE DEF h
  <2>3. h = [i \in 1..(k+1) |-> h[i]]
    BY DEF h
  <2>4. Joined(h, ss, k+1)
    BY <2>2, <2>3 DEF Joined
  <2> QED
    BY <2>4
<1> HIDE DEF Good
<1>3. 1..n \subseteq Good
  BY <1>1, <1>2, L!IndexInduction
<1> QED
  BY <1>3 DEF Good

(* The definition of FlattenSeq, which a proof cannot use as it stands.    *)
LEMMA FlattenJoined ==
  ASSUME NEW ss, Len(ss) \in Nat, Len(ss) # 0
  PROVE \E g : Joined(g, ss, Len(ss)) /\ FlattenSeq(ss) = g[Len(ss)]
<1> DEFINE g == CHOOSE g : Joined(g, ss, Len(ss))
<1>1. Joined(g, ss, Len(ss))
  BY JoinedExists
<1>2. FlattenSeq(ss) = g[Len(ss)]
  BY DEF FlattenSeq, Joined
<1> QED
  BY <1>1, <1>2

(* What a sequence behind another adds.                                    *)
LEMMA ConcatIs ==
  ASSUME NEW S, NEW s \in Seq(S), NEW t \in Seq(S)
  PROVE  /\ s \o t \in Seq(S)
         /\ ToSet(s \o t) = ToSet(s) \cup ToSet(t)
         /\ IsInjective(s) /\ IsInjective(t) /\ ToSet(s) \cap ToSet(t) = {}
              => IsInjective(s \o t)
<1> DEFINE u == s \o t
<1>1. /\ u \in Seq(S) /\ Len(u) = Len(s) + Len(t)
      /\ \A i \in 1..Len(u) : u[i] = IF i <= Len(s) THEN s[i] ELSE t[i - Len(s)]
  OBVIOUS
<1>2. DOMAIN s = 1..Len(s) /\ DOMAIN t = 1..Len(t) /\ DOMAIN u = 1..Len(u)
  BY <1>1
<1> HIDE DEF u
<1>3. ToSet(u) = ToSet(s) \cup ToSet(t)
  <2>1. ASSUME NEW i \in 1..Len(u) PROVE u[i] \in ToSet(s) \cup ToSet(t)
    <3>1. CASE i <= Len(s)
      BY <1>1, <1>2, <3>1 DEF ToSet
    <3>2. CASE ~(i <= Len(s))
      <4>1. i - Len(s) \in 1..Len(t)
        BY <1>1, <3>2
      <4> QED
        BY <1>1, <1>2, <3>2, <4>1 DEF ToSet
    <3> QED
      BY <3>1, <3>2
  <2>2. ASSUME NEW i \in 1..Len(s) PROVE s[i] \in ToSet(u)
    <3>1. i \in 1..Len(u) /\ u[i] = s[i]
      BY <1>1
    <3> QED
      BY <1>2, <3>1 DEF ToSet
  <2>3. ASSUME NEW i \in 1..Len(t) PROVE t[i] \in ToSet(u)
    <3>1. /\ Len(s) + i \in 1..Len(u) /\ ~(Len(s) + i <= Len(s))
          /\ (Len(s) + i) - Len(s) = i
      BY <1>1
    <3>2. u[Len(s) + i] = t[i]
      BY <1>1, <3>1
    <3> QED
      BY <1>2, <3>1, <3>2 DEF ToSet
  <2> QED
    BY <1>2, <2>1, <2>2, <2>3 DEF ToSet
<1>4. ASSUME IsInjective(s), IsInjective(t), ToSet(s) \cap ToSet(t) = {}
      PROVE  IsInjective(u)
  <2>1. \A i \in 1..Len(s), j \in 1..Len(t) : s[i] # t[j]
    BY <1>2, <1>4 DEF ToSet
  <2>2. ASSUME NEW i \in 1..Len(u), NEW j \in 1..Len(u), u[i] = u[j] PROVE i = j
    <3>1. (i <= Len(s) => i \in 1..Len(s)) /\ (~(i <= Len(s)) => i - Len(s) \in 1..Len(t))
      BY <1>1
    <3>2. (j <= Len(s) => j \in 1..Len(s)) /\ (~(j <= Len(s)) => j - Len(s) \in 1..Len(t))
      BY <1>1
    <3>3. /\ \A a, b \in 1..Len(s) : s[a] = s[b] => a = b
          /\ \A a, b \in 1..Len(t) : t[a] = t[b] => a = b
      BY <1>2, <1>4 DEF IsInjective
    <3>4. u[i] = IF i <= Len(s) THEN s[i] ELSE t[i - Len(s)]
      BY <1>1
    <3>5. u[j] = IF j <= Len(s) THEN s[j] ELSE t[j - Len(s)]
      BY <1>1
    <3>6. CASE i <= Len(s) /\ j <= Len(s)
      BY <2>2, <3>1, <3>2, <3>3, <3>4, <3>5, <3>6
    <3>7. CASE i <= Len(s) /\ ~(j <= Len(s))
      BY <2>1, <2>2, <3>1, <3>2, <3>4, <3>5, <3>7
    <3>8. CASE ~(i <= Len(s)) /\ j <= Len(s)
      BY <2>1, <2>2, <3>1, <3>2, <3>4, <3>5, <3>8
    <3>9. CASE ~(i <= Len(s)) /\ ~(j <= Len(s))
      <4>1. i - Len(s) = j - Len(s)
        BY <2>2, <3>1, <3>2, <3>3, <3>4, <3>5, <3>9
      <4> QED
        BY <1>1, <4>1
    <3> QED
      BY <3>6, <3>7, <3>8, <3>9
  <2> QED
    BY <1>2, <2>2 DEF IsInjective
<1> QED
  BY <1>1, <1>3, <1>4 DEF u

(* Joining sequences that are each free of repetition and share nothing    *)
(* gives one free of repetition that holds what they held.                 *)
LEMMA FlattenIs ==
  ASSUME NEW S, NEW ss \in Seq(Seq(S)),
         \A i \in 1..Len(ss) : IsInjective(ss[i]),
         \A i, j \in 1..Len(ss) : i # j => ToSet(ss[i]) \cap ToSet(ss[j]) = {}
  PROVE  /\ FlattenSeq(ss) \in Seq(S)
         /\ IsInjective(FlattenSeq(ss))
         /\ ToSet(FlattenSeq(ss)) = UNION {ToSet(ss[i]) : i \in 1..Len(ss)}
<1> DEFINE n == Len(ss)
<1>0. n \in Nat /\ \A i \in 1..n : ss[i] \in Seq(S)
  OBVIOUS
<1>1. CASE n = 0
  <2>1. ss = << >>
    BY <1>1
  <2>2. FlattenSeq(ss) = << >>
    BY <1>1, <2>1 DEF FlattenSeq
  <2>3. /\ FlattenSeq(ss) \in Seq(S) /\ DOMAIN FlattenSeq(ss) = {}
        /\ 1..Len(ss) = {}
    BY <1>1, <2>2
  <2> QED
    BY <2>3 DEF IsInjective, ToSet
<1>2. CASE n # 0
  <2>1. PICK g : Joined(g, ss, n) /\ FlattenSeq(ss) = g[n]
    BY <1>0, <1>2, FlattenJoined
  <2> DEFINE Good == {k \in 1..n : /\ g[k] \in Seq(S)
                                   /\ IsInjective(g[k])
                                   /\ ToSet(g[k]) = UNION {ToSet(ss[i]) : i \in 1..k}}
  <2>2. \A i \in 1..n : g[i] = IF i = 1 THEN ss[i] ELSE g[i-1] \o ss[i]
    BY <2>1 DEF Joined
  <2> HIDE DEF n
  <2>3. 1 \in Good
    <3>1. g[1] = ss[1] /\ 1 \in 1..n
      BY <1>0, <1>2, <2>2
    <3>2. UNION {ToSet(ss[i]) : i \in 1..1} = ToSet(ss[1])
      OBVIOUS
    <3> QED
      BY <1>0, <3>1, <3>2 DEF n
  <2>4. ASSUME NEW k \in 1..(n - 1), k \in Good PROVE k + 1 \in Good
    <3>1. k + 1 \in 1..n /\ k + 1 # 1 /\ (k + 1) - 1 = k /\ k \in Nat
      BY <1>0
    <3>2. g[k + 1] = g[k] \o ss[k + 1]
      BY <2>2, <3>1
    <3>3. ToSet(g[k]) \cap ToSet(ss[k + 1]) = {}
      <4>1. \A i \in 1..k : i \in 1..n /\ i # k + 1
        BY <1>0
      <4> QED
        BY <2>4, <3>1, <4>1 DEF n
    <3>4. ss[k + 1] \in Seq(S) /\ IsInjective(ss[k + 1])
      BY <1>0, <3>1 DEF n
    <3>5. /\ g[k + 1] \in Seq(S) /\ IsInjective(g[k + 1])
          /\ ToSet(g[k + 1]) = ToSet(g[k]) \cup ToSet(ss[k + 1])
      BY <2>4, <3>2, <3>3, <3>4, ConcatIs
    <3>6. UNION {ToSet(ss[i]) : i \in 1..(k + 1)}
            = (UNION {ToSet(ss[i]) : i \in 1..k}) \cup ToSet(ss[k + 1])
      <4>1. 1..(k + 1) = (1..k) \cup {k + 1}
        BY <3>1
      <4> QED
        BY <4>1
    <3> QED
      BY <2>4, <3>1, <3>5, <3>6
  <2> HIDE DEF Good
  <2>5. 1..n \subseteq Good
    BY <1>0, <1>2, <2>3, <2>4, L!IndexInduction
  <2>6. n \in Good
    BY <1>0, <1>2, <2>5
  <2> QED
    BY <2>1, <2>6 DEF Good, n
<1> QED
  BY <1>1, <1>2

(* One element more.                                                       *)
LEMMA AppendIs ==
  ASSUME NEW S, NEW s \in Seq(S), NEW e \in S
  PROVE  /\ ToSet(Append(s, e)) = ToSet(s) \cup {e}
         /\ IsInjective(s) /\ e \notin ToSet(s) => IsInjective(Append(s, e))
<1> DEFINE t == Append(s, e)
<1>1. /\ Len(s) \in Nat
      /\ DOMAIN s = 1..Len(s) /\ DOMAIN t = 1..(Len(s) + 1)
      /\ t[Len(s) + 1] = e /\ \A i \in 1..Len(s) : t[i] = s[i]
  OBVIOUS
<1> HIDE DEF t
<1>2. \A i \in 1..(Len(s) + 1) : i = Len(s) + 1 \/ i \in 1..Len(s)
  BY <1>1
<1>3. /\ Len(s) + 1 \in 1..(Len(s) + 1)
      /\ \A i \in 1..Len(s) : i \in 1..(Len(s) + 1)
  BY <1>1
<1>4. ToSet(t) = ToSet(s) \cup {e}
  BY <1>1, <1>2, <1>3 DEF ToSet
<1>5. ASSUME IsInjective(s), e \notin ToSet(s) PROVE IsInjective(t)
  <2>1. \A i \in 1..Len(s) : s[i] # e
    BY <1>1, <1>5 DEF ToSet
  <2> QED
    BY <1>1, <1>2, <1>5, <2>1 DEF IsInjective
<1> QED
  BY <1>4, <1>5 DEF t

(* One element less.                                                       *)
LEMMA HeadTailIs ==
  ASSUME NEW S, NEW s \in Seq(S), s # << >>
  PROVE  /\ Head(s) \in ToSet(s) /\ Head(s) \in S /\ Tail(s) \in Seq(S)
         /\ ToSet(Tail(s)) \subseteq ToSet(s)
         /\ IsInjective(s) => IsInjective(Tail(s)) /\ Head(s) \notin ToSet(Tail(s))
<1> DEFINE t == Tail(s)
           n == Len(s) - 1
<1>1. /\ n \in Nat /\ DOMAIN s = 1..(n + 1) /\ DOMAIN t = 1..n
      /\ Head(s) = s[1] /\ \A i \in 1..n : t[i] = s[i + 1]
      /\ t \in Seq(S) /\ s[1] \in S
  OBVIOUS
<1> HIDE DEF t, n
<1>2. /\ 1 \in 1..(n + 1)
      /\ \A i \in 1..n : i + 1 \in 1..(n + 1) /\ i + 1 # 1
      /\ \A i, j \in 1..n : i + 1 = j + 1 => i = j
  BY <1>1
<1>3. Head(s) \in ToSet(s) /\ ToSet(t) \subseteq ToSet(s)
  BY <1>1, <1>2 DEF ToSet
<1>4. ASSUME IsInjective(s) PROVE IsInjective(t) /\ Head(s) \notin ToSet(t)
  <2>1. \A i, j \in 1..(n + 1) : s[i] = s[j] => i = j
    BY <1>1, <1>4 DEF IsInjective
  <2>2. \A i, j \in 1..n : t[i] = t[j] => i = j
    BY <1>1, <1>2, <2>1
  <2>3. \A i \in 1..n : t[i] # s[1]
    BY <1>1, <1>2, <2>1
  <2>4. IsInjective(t)
    BY <1>1, <2>2 DEF IsInjective
  <2>5. Head(s) \notin ToSet(t)
    BY <1>1, <2>3 DEF ToSet
  <2> QED
    BY <2>4, <2>5
<1> QED
  BY <1>1, <1>3, <1>4 DEF t

(* The newest n are no new ones.                                           *)
LEMMA LastNKeeps ==
  ASSUME NEW s \in Seq(Record), NEW n \in Nat
  PROVE  /\ LastN(s, n) \in Seq(Record)
         /\ Len(LastN(s, n)) = IF Len(s) > n THEN n ELSE Len(s)
         /\ ToSet(LastN(s, n)) \subseteq ToSet(s)
         /\ IsInjective(s) => IsInjective(LastN(s, n))
<1> DEFINE t == LastN(s, n)
           d == Len(s) - Len(t)
<1>1. t \in Seq(Record) /\ Len(t) = IF Len(s) > n THEN n ELSE Len(s)
  BY DEF LastN
<1>2. /\ DOMAIN s = 1..Len(s) /\ DOMAIN t = 1..Len(t) /\ d \in Nat
      /\ \A i \in 1..Len(t) : t[i] = s[d + i]
  <2>1. t \in Seq(Record) /\ IsSuffix(t, s)
    BY LastNIs
  <2> HIDE DEF t
  <2>2. Len(t) <= Len(s) /\ \A i \in 1..Len(t) : t[i] = s[d + i]
    BY <2>1, SuffixIs
  <2> QED
    BY <2>1, <2>2
<1> HIDE DEF t
<1>3. /\ \A i \in 1..Len(t) : d + i \in 1..Len(s)
      /\ \A i, j \in 1..Len(t) : d + i = d + j => i = j
  BY <1>1, <1>2
<1> HIDE DEF d
<1>4. ToSet(t) \subseteq ToSet(s)
  BY <1>2, <1>3 DEF ToSet
<1>5. IsInjective(s) => IsInjective(t)
  BY <1>2, <1>3 DEF IsInjective
<1> QED
  BY <1>1, <1>4, <1>5 DEF t

(* Distinct records are no more than there are.                            *)
LEMMA InjectiveLen ==
  ASSUME NEW n \in Nat, NEW s \in Seq(1..n), IsInjective(s)
  PROVE  Len(s) \in 0..n
<1>1. s \in Injection(1..Len(s), 1..n) /\ Len(s) \in Nat
  BY DEF Injection
<1>2. \A m \in Nat : IsFiniteSet(1..m) /\ Cardinality(1..m) = m
  <2> SUFFICES ASSUME NEW m \in Nat
               PROVE  IsFiniteSet(1..m) /\ Cardinality(1..m) = m
    OBVIOUS
  <2>1. /\ IsFiniteSet(1..m)
        /\ Cardinality(1..m) = IF 1 > m THEN 0 ELSE m - 1 + 1
    BY FS_Interval
  <2> QED
    BY <2>1
<1>3. Cardinality(1..Len(s)) <= Cardinality(1..n)
  BY <1>1, <1>2, FS_Injection
<1> QED
  BY <1>1, <1>2, <1>3

(* An order of a finite set is a sequence that goes once to each element.  *)
LEMMA OrderIs ==
  ASSUME NEW D, IsFiniteSet(D), NEW order \in SetToSeqs(D)
  PROVE  /\ order \in Seq(D)
         /\ \A i, j \in 1..Len(order) : i # j => order[i] # order[j]
         /\ D = {order[i] : i \in 1..Len(order)}
<1> DEFINE n == Cardinality(D)
<1>1. /\ order \in [1..n -> D] /\ n \in Nat
      /\ \A i, j \in 1..n : i # j => order[i] # order[j]
  BY FS_CardinalityType DEF SetToSeqs
<1>2. order \in Seq(D) /\ Len(order) = n
  BY <1>1
<1>3. D = {order[i] : i \in 1..n}
  <2>1. order \in Injection(1..n, D)
    BY <1>1 DEF Injection, IsInjective
  <2>2. Cardinality(1..n) = n
    BY <1>1, FS_Interval
  <2> HIDE DEF n
  <2>4. Cardinality(1..n) = Cardinality(D)
    BY <2>2 DEF n
  <2>3. order \in Surjection(1..n, D)
    BY <2>1, <2>4, FS_Injection
  <2> QED
    BY <1>1, <2>3 DEF Surjection
<1> QED
  BY <1>1, <1>2, <1>3

(* What the ways to change a table leave of its type.                      *)
LEMMA PushTyped ==
  ASSUME NEW D, NEW t, Table(t, D), NEW c \in D, NEW r \in Record
  PROVE  /\ DOMAIN Push(t, c, r) = DOMAIN t \cup {c}
         /\ Table(Push(t, c, r), D)
<1>1. Of(t, c) \in Seq(Record)
  BY DEF Of, Table
<1>2. Append(Of(t, c), r) \in Seq(Record)
  BY <1>1
<1> QED
  BY <1>2 DEF Push, Table

LEMMA PushNewestTyped ==
  ASSUME NEW D, NEW t, Table(t, D), NEW c \in D, NEW r \in Record,
         \A d \in DOMAIN t : Len(t[d]) \in 1..MAX_HISTORY_ENTRIES
  PROVE  /\ Table(PushNewest(t, c, r), D)
         /\ \A d \in DOMAIN PushNewest(t, c, r) :
              Len(PushNewest(t, c, r)[d]) \in 1..MAX_HISTORY_ENTRIES
<1> DEFINE u == PushNewest(t, c, r)
           a == Append(Of(t, c), r)
<1>1. DOMAIN u = DOMAIN t \cup {c} /\ u[c] = LastN(a, MAX_HISTORY_ENTRIES)
  <2>1. DOMAIN u = DOMAIN t \cup {c}
    BY PushNewestDomain
  <2>2. u[c] = LastN(a, MAX_HISTORY_ENTRIES)
    BY PushNewestValue
  <2> QED
    BY <2>1, <2>2
<1>2. \A d \in DOMAIN t : d # c => u[d] = t[d]
  BY PushNewestValue
<1>3. a \in Seq(Record) /\ Len(a) \in Nat \ {0}
  BY DEF Of, Table
<1> HIDE DEF u, a
<1>4. MAX_HISTORY_ENTRIES \in Nat \ {0}
  BY HistoryAssumption
<1>5. u[c] \in Seq(Record) /\ Len(u[c]) \in 1..MAX_HISTORY_ENTRIES
  BY <1>1, <1>3, <1>4, LastNKeeps
<1>6. ASSUME NEW d \in DOMAIN u
      PROVE  u[d] \in Seq(Record) /\ Len(u[d]) \in 1..MAX_HISTORY_ENTRIES
  BY <1>1, <1>2, <1>5, <1>6 DEF Table
<1>7. DOMAIN u \subseteq D
  BY <1>1 DEF Table
<1> QED
  BY <1>6, <1>7 DEF Table, u

LEMMA DropTyped ==
  ASSUME NEW D, NEW t, Table(t, D), NEW c
  PROVE  /\ Table(Drop(t, c), D) /\ DOMAIN Drop(t, c) \subseteq DOMAIN t
         /\ \A d \in DOMAIN Drop(t, c) : Drop(t, c)[d] = t[d]
  BY DEF Drop, Table

-----------------------------------------------------------------------------
(* Types.  What the handlers send.                                         *)
LEMMA SendTyped == TypeOK /\ SendNext => TypeOK'
<1> SUFFICES ASSUME TypeOK, NEW c \in Conns, track_call(c) \/ remove_connection(c)
             PROVE  TypeOK'
  BY DEF SendNext
<1>1. CASE track_call(c)
  <2>1. calls + 1 \in 1..MaxCalls /\ calls' \in 0..MaxCalls
    BY <1>1, HistoryAssumption DEF track_call, TypeOK
  <2>2. [op |-> "add", conn |-> c, rec |-> calls + 1] \in Update
    BY <2>1 DEF Update, Record
  <2>3. channel' \in Seq(Update)
    BY <1>1, <2>2 DEF track_call, Send, TypeOK
  <2> QED
    BY <1>1, <2>1, <2>3 DEF track_call, Send, flush, disk, TypeOK
<1>2. CASE remove_connection(c)
  <2>1. [op |-> "remove", conn |-> c] \in Update
    BY DEF Update
  <2>2. channel' \in Seq(Update) /\ removes' \in 0..MaxRemoves
    BY <1>2, <2>1, HistoryAssumption DEF remove_connection, Send, TypeOK
  <2> QED
    BY <1>2, <2>2 DEF remove_connection, Send, flush, disk, TypeOK
<1> QED
  BY <1>1, <1>2

(* What the task finds in the channel.                                     *)
LEMMA ReceivedUpdate ==
  ASSUME TypeOK, NEW op, Receive(op)
  PROVE  /\ Head(channel) \in Update /\ Head(channel).op = op
         /\ Head(channel).conn \in Conns
         /\ op = "add" => Head(channel).rec \in Record
         /\ channel' \in Seq(Update)
<1>1. channel # << >> /\ channel \in Seq(Update)
  BY DEF TypeOK, Receive
<1>2. Head(channel) \in Update /\ Tail(channel) \in Seq(Update)
  BY <1>1
<1> QED
  BY <1>2 DEF Receive, Update

(* An update moves to the cache and the queue of its connection.           *)
LEMMA ReceiveTyped == TypeOK /\ ReceiveNext => TypeOK'
<1> SUFFICES ASSUME TypeOK, ReceiveNext PROVE TypeOK'
  OBVIOUS
<1> DEFINE c == Head(channel).conn
           r == Head(channel).rec
<1>1. ASSUME NEW op, Receive(op), Table(entries', Conns \cup {Legacy}),
             \A d \in DOMAIN entries' : Len(entries'[d]) \in 1..MAX_HISTORY_ENTRIES,
             Table(write_queue', Conns), IsFiniteSet(DOMAIN write_queue')
      PROVE  TypeOK'
  BY <1>1, ReceivedUpdate DEF Receive, flush, disk, bounds, TypeOK
<1>2. CASE ReceiveAdd
  <2>1. /\ Receive("add") /\ entries' = PushNewest(entries, c, r)
        /\ write_queue' = Push(write_queue, c, r)
    BY <1>2 DEF ReceiveAdd
  <2>2. c \in Conns /\ r \in Record
    BY <2>1, ReceivedUpdate
  <2> HIDE DEF c, r
  <2>3. /\ Table(entries, Conns \cup {Legacy})
        /\ \A d \in DOMAIN entries : Len(entries[d]) \in 1..MAX_HISTORY_ENTRIES
        /\ Table(write_queue, Conns) /\ IsFiniteSet(DOMAIN write_queue)
    BY DEF TypeOK
  <2>4. c \in Conns \cup {Legacy}
    BY <2>2
  <2>5. /\ Table(entries', Conns \cup {Legacy})
        /\ \A d \in DOMAIN entries' : Len(entries'[d]) \in 1..MAX_HISTORY_ENTRIES
    BY <2>1, <2>2, <2>3, <2>4, PushNewestTyped
  <2>6. Table(write_queue', Conns) /\ DOMAIN write_queue' = DOMAIN write_queue \cup {c}
    <3>1. /\ Table(Push(write_queue, c, r), Conns)
          /\ DOMAIN Push(write_queue, c, r) = DOMAIN write_queue \cup {c}
      <4> DEFINE q == write_queue
      <4>1. Table(q, Conns) /\ c \in Conns /\ r \in Record
        BY <2>2, <2>3
      <4> HIDE DEF q
      <4>2. Table(Push(q, c, r), Conns) /\ DOMAIN Push(q, c, r) = DOMAIN q \cup {c}
        BY <4>1, PushTyped
      <4> QED
        BY <4>2 DEF q
    <3> QED
      BY <2>1, <3>1
  <2>7. IsFiniteSet(DOMAIN write_queue')
    BY <2>3, <2>6, FS_AddElement
  <2> QED
    BY <1>1, <2>1, <2>5, <2>6, <2>7
<1>3. CASE ReceiveRemove
  <2>1. /\ Receive("remove") /\ entries' = Drop(entries, c)
        /\ write_queue' = Drop(write_queue, c)
    BY <1>3 DEF ReceiveRemove
  <2> HIDE DEF c
  <2>2. /\ Table(entries', Conns \cup {Legacy})
        /\ DOMAIN entries' \subseteq DOMAIN entries
        /\ \A d \in DOMAIN entries' : entries'[d] = entries[d]
    BY <2>1, DropTyped DEF TypeOK
  <2>3. Table(write_queue', Conns) /\ DOMAIN write_queue' \subseteq DOMAIN write_queue
    BY <2>1, DropTyped DEF TypeOK
  <2>4. IsFiniteSet(DOMAIN write_queue')
    BY <2>3, FS_Subset DEF TypeOK
  <2> QED
    BY <1>1, <2>1, <2>2, <2>3, <2>4 DEF TypeOK
<1> QED
  BY <1>2, <1>3 DEF ReceiveNext

(* A flush takes the records that were queued, each once.                  *)
LEMMA BatchIs ==
  ASSUME TypeOK, QueuesApart, FlushTick
  PROVE  /\ batch' \in Seq(Record) /\ IsInjective(batch')
         /\ ToSet(batch') = Queued
         /\ taken' \in 0..MaxCalls
         /\ write_queue' = [c \in DOMAIN write_queue |-> << >>]
<1>1. PICK order \in SetToSeqs(DOMAIN write_queue) :
        batch' = FlattenSeq([i \in DOMAIN order |-> write_queue[order[i]]])
  BY DEF FlushTick, TakeAll
<1>2. taken' = Len(batch') /\ write_queue' = [c \in DOMAIN write_queue |-> << >>]
  BY DEF FlushTick, TakeAll
<1>3. /\ order \in Seq(DOMAIN write_queue)
      /\ \A i, j \in 1..Len(order) : i # j => order[i] # order[j]
      /\ DOMAIN write_queue = {order[i] : i \in 1..Len(order)}
  <2> DEFINE D == DOMAIN write_queue
  <2>1. IsFiniteSet(D) /\ order \in SetToSeqs(D)
    BY <1>1 DEF TypeOK
  <2> HIDE DEF D
  <2>2. /\ order \in Seq(D)
        /\ \A i, j \in 1..Len(order) : i # j => order[i] # order[j]
        /\ D = {order[i] : i \in 1..Len(order)}
    BY <2>1, OrderIs
  <2> QED
    BY <2>2 DEF D
<1> DEFINE ss == [i \in DOMAIN order |-> write_queue[order[i]]]
<1>4. /\ ss \in Seq(Seq(Record)) /\ Len(ss) = Len(order)
      /\ \A i \in 1..Len(order) : /\ ss[i] = write_queue[order[i]]
                                  /\ order[i] \in DOMAIN write_queue
  <2>1. \A i \in 1..Len(order) : order[i] \in DOMAIN write_queue
    BY <1>3
  <2>2. DOMAIN order = 1..Len(order) /\ Len(order) \in Nat
    BY <1>3
  <2>3. \A c \in DOMAIN write_queue : write_queue[c] \in Seq(Record)
    BY DEF TypeOK, Table
  <2>4. ss \in [1..Len(order) -> Seq(Record)]
    BY <2>1, <2>2, <2>3
  <2> QED
    BY <2>1, <2>2, <2>4
<1> HIDE DEF ss
<1>5. /\ \A i \in 1..Len(ss) : IsInjective(ss[i])
      /\ \A i, j \in 1..Len(ss) : i # j => ToSet(ss[i]) \cap ToSet(ss[j]) = {}
  <2>1. \A c \in DOMAIN write_queue :
          /\ IsInjective(write_queue[c])
          /\ \A d \in DOMAIN write_queue :
               c # d => ToSet(write_queue[c]) \cap ToSet(write_queue[d]) = {}
    BY DEF QueuesApart
  <2>2. ASSUME NEW i \in 1..Len(ss), NEW j \in 1..Len(ss), i # j
        PROVE  ToSet(ss[i]) \cap ToSet(ss[j]) = {}
    <3>1. /\ ss[i] = write_queue[order[i]] /\ order[i] \in DOMAIN write_queue
          /\ ss[j] = write_queue[order[j]] /\ order[j] \in DOMAIN write_queue
          /\ order[i] # order[j]
      BY <1>3, <1>4, <2>2
    <3> QED
      BY <2>1, <3>1
  <2> QED
    BY <1>4, <2>1, <2>2
<1>6. /\ batch' \in Seq(Record) /\ IsInjective(batch')
      /\ ToSet(batch') = UNION {ToSet(ss[i]) : i \in 1..Len(ss)}
  <2>1. batch' = FlattenSeq(ss)
    BY <1>1 DEF ss
  <2> QED
    BY <1>4, <1>5, <2>1, FlattenIs
<1>7. ToSet(batch') = Queued
  <2>1. \A r : r \in ToSet(batch') <=> \E i \in 1..Len(order) : r \in ToSet(ss[i])
    BY <1>4, <1>6
  <2>2. \A r : r \in Queued <=> \E c \in DOMAIN write_queue : r \in ToSet(write_queue[c])
    BY DEF Queued
  <2>3. \A r : r \in ToSet(batch') => r \in Queued
    BY <1>4, <2>1, <2>2
  <2>4. ASSUME NEW r, NEW c \in DOMAIN write_queue, r \in ToSet(write_queue[c])
        PROVE  r \in ToSet(batch')
    <3>1. PICK i \in 1..Len(order) : c = order[i]
      BY <1>3
    <3> QED
      BY <1>4, <2>1, <2>4, <3>1
  <2> QED
    BY <2>2, <2>3, <2>4
<1>8. taken' \in 0..MaxCalls
  BY <1>2, <1>6, InjectiveLen, HistoryAssumption DEF Record
<1> QED
  BY <1>2, <1>6, <1>7, <1>8

(* The flush.                                                              *)
LEMMA FlushTyped == TypeOK /\ QueuesApart /\ FlushTick => TypeOK'
<1> SUFFICES ASSUME TypeOK, QueuesApart, FlushTick PROVE TypeOK'
  OBVIOUS
<1>1. /\ batch' \in Seq(Record) /\ taken' \in 0..MaxCalls
      /\ write_queue' = [c \in DOMAIN write_queue |-> << >>]
  BY BatchIs
<1>2. Table(write_queue', Conns) /\ DOMAIN write_queue' = DOMAIN write_queue
  <2>1. << >> \in Seq(Record)
    OBVIOUS
  <2> QED
    BY <1>1, <2>1 DEF Table, TypeOK
<1>3. /\ UNCHANGED <<channel, entries, write_error, writes_since_check, inflight,
                     disk, bounds>>
      /\ processor' = "opening"
  BY DEF FlushTick, TakeAll
<1> QED
  BY <1>1, <1>2, <1>3 DEF disk, bounds, TypeOK

(* What is left of a step of the task once its own variables are typed.    *)
LEMMA TaskTyped ==
  ASSUME TypeOK, NEW from, NEW to, TaskStep(from, to),
         to \in {"idle", "writing", "reading", "creating", "copying", "renaming"},
         batch' \in Seq(Record), inflight' \subseteq Write,
         taken' = taken, write_error' \in BOOLEAN,
         writes_since_check' \in 0..(ROTATION_CHECK_INTERVAL - 1),
         kept' \in Seq(Record), temp' \in Seq(Record), file' \in Seq(Record),
         faults' \in 0..MaxFaults
  PROVE  TypeOK'
  BY DEF TaskStep, memory, TypeOK

(* The steps of the task: writing the batch, rotating.                     *)
LEMMA FaultTyped == TypeOK /\ Fault => faults' \in 0..MaxFaults
  BY HistoryAssumption DEF Fault, TypeOK

LEMMA WritingTyped ==
  TypeOK /\ (Open \/ OpenFails \/ WriteRecord \/ EndBatch) => TypeOK'
<1> SUFFICES ASSUME TypeOK, Open \/ OpenFails \/ WriteRecord \/ EndBatch
             PROVE  TypeOK'
  OBVIOUS
<1>1. CASE Open
  <2>1. TaskStep("opening", "writing") /\ UNCHANGED <<flush, inflight, disk, faults>>
    BY <1>1 DEF Open
  <2> QED
    BY <2>1, TaskTyped DEF flush, disk, TypeOK
<1>2. CASE OpenFails
  <2>1. /\ TaskStep("opening", "idle") /\ batch' = << >> /\ Fault
        /\ UNCHANGED <<taken, write_error, writes_since_check, inflight, disk>>
    BY <1>2 DEF OpenFails
  <2>2. batch' \in Seq(Record)
    BY <2>1
  <2> QED
    BY <2>1, <2>2, FaultTyped, TaskTyped DEF disk, TypeOK
<1>3. CASE WriteRecord
  <2>1. /\ TaskStep("writing", "writing") /\ batch # << >> /\ batch' = Tail(batch)
        /\ inflight' = IF write_error THEN inflight
                       ELSE inflight \cup {[rec |-> Head(batch), to |-> "open"]}
        /\ write_error' = FALSE
        /\ UNCHANGED <<taken, writes_since_check, disk, faults>>
    BY <1>3 DEF WriteRecord
  <2>2. batch' \in Seq(Record) /\ Head(batch) \in Record
    BY <2>1 DEF TypeOK
  <2>3. inflight' \subseteq Write
    BY <2>1, <2>2 DEF TypeOK, Write
  <2> QED
    BY <2>1, <2>2, <2>3, TaskTyped DEF disk, TypeOK
<1>4. CASE EndBatch
  <2> DEFINE written == writes_since_check + taken
             to == IF written >= ROTATION_CHECK_INTERVAL THEN "reading" ELSE "idle"
  <2>1. /\ TaskStep("writing", to)
        /\ writes_since_check' = IF written >= ROTATION_CHECK_INTERVAL
                                   THEN 0 ELSE written
        /\ inflight' = {IF w.to = "open" THEN [w EXCEPT !.to = "dropped"] ELSE w :
                          w \in inflight}
        /\ write_error' = FALSE
        /\ UNCHANGED <<batch, taken, disk, faults>>
    BY <1>4 DEF EndBatch
  <2>2. writes_since_check' \in 0..(ROTATION_CHECK_INTERVAL - 1)
    <3>1. /\ ROTATION_CHECK_INTERVAL \in Nat \ {0} /\ MaxCalls \in Nat
          /\ writes_since_check \in 0..(ROTATION_CHECK_INTERVAL - 1)
          /\ taken \in 0..MaxCalls
      BY HistoryAssumption DEF TypeOK
    <3>2. written \in Nat
      BY <3>1
    <3> HIDE DEF written
    <3> QED
      BY <2>1, <3>1, <3>2
  <2>3. inflight' \subseteq Write
    BY <2>1 DEF TypeOK, Write
  <2>4. to \in {"idle", "reading"}
    OBVIOUS
  <2> HIDE DEF to, written
  <2> QED
    BY <2>1, <2>2, <2>3, <2>4, TaskTyped DEF disk, TypeOK
<1> QED
  BY <1>1, <1>2, <1>3, <1>4

LEMMA RotateTyped == TypeOK /\ RotateNext => TypeOK'
<1> SUFFICES ASSUME TypeOK, RotateNext PROVE TypeOK'
  OBVIOUS
<1>1. CASE ReadFile
  <2> DEFINE to == IF Len(file) > MAX_DISK_ENTRIES THEN "creating" ELSE "idle"
  <2>1. /\ TaskStep("reading", to) /\ kept' = LastN(file, MAX_DISK_ENTRIES)
        /\ UNCHANGED <<flush, inflight, temp, file, faults>>
    BY <1>1 DEF ReadFile
  <2>2. kept' \in Seq(Record)
    BY <2>1, LastNKeeps, HistoryAssumption DEF TypeOK
  <2>3. to \in {"creating", "idle"}
    OBVIOUS
  <2> HIDE DEF to
  <2> QED
    BY <2>1, <2>2, <2>3, TaskTyped DEF flush, TypeOK
<1>2. CASE CreateTemp
  <2>1. /\ TaskStep("creating", "copying") /\ temp' = << >>
        /\ UNCHANGED <<flush, inflight, kept, file, faults>>
    BY <1>2 DEF CreateTemp
  <2>2. temp' \in Seq(Record)
    BY <2>1
  <2> QED
    BY <2>1, <2>2, TaskTyped DEF flush, TypeOK
<1>3. CASE FinishCopy
  <2>1. /\ TaskStep("copying", "renaming") /\ temp' = kept
        /\ UNCHANGED <<flush, inflight, kept, file, faults>>
    BY <1>3 DEF FinishCopy
  <2> QED
    BY <2>1, TaskTyped DEF flush, TypeOK
<1>4. CASE Rename
  <2>1. /\ TaskStep("renaming", "idle") /\ file' = temp /\ temp' = << >>
        /\ inflight' = {[w EXCEPT !.to = "replaced"] : w \in inflight}
        /\ UNCHANGED <<flush, kept, faults>>
    BY <1>4 DEF Rename
  <2>2. temp' \in Seq(Record)
    BY <2>1
  <2>3. inflight' \subseteq Write
    BY <2>1 DEF TypeOK, Write
  <2> QED
    BY <2>1, <2>2, <2>3, TaskTyped DEF flush, TypeOK
<1>5. CASE RotationFails
  <2>1. PICK from : TaskStep(from, "idle")
    BY <1>5 DEF RotationFails
  <2>2. Fault /\ UNCHANGED <<flush, inflight, disk>>
    BY <1>5 DEF RotationFails
  <2> QED
    BY <2>1, <2>2, FaultTyped, TaskTyped DEF flush, disk, TypeOK
<1> QED
  BY <1>1, <1>2, <1>3, <1>4, <1>5 DEF RotateNext

(* What happens to the task from outside.                                  *)
LEMMA LandTyped == TypeOK /\ LandNext => TypeOK'
<1> SUFFICES ASSUME TypeOK, NEW w \in inflight, WriteLands(w) \/ WriteFails(w)
             PROVE  TypeOK'
  BY DEF LandNext
<1>1. w.rec \in Record
  BY DEF TypeOK, Write
<1>2. /\ inflight' = inflight \ {w}
      /\ UNCHANGED <<memory, processor, batch, taken, writes_since_check, kept, temp,
                     calls, removes, crashes>>
  BY DEF WriteLands, WriteFails, EndWrite
<1>3. /\ file' \in Seq(Record) /\ write_error' \in BOOLEAN
      /\ faults' \in 0..MaxFaults
  <2>1. CASE WriteLands(w)
    <3>1. Append(file, w.rec) \in Seq(Record)
      BY <1>1 DEF TypeOK
    <3> QED
      BY <2>1, <3>1 DEF WriteLands, TypeOK
  <2>2. CASE WriteFails(w)
    <3>1. write_error' \in BOOLEAN
      BY <2>2 DEF WriteFails
    <3> QED
      BY <2>2, <3>1, FaultTyped DEF WriteFails, TypeOK
  <2> QED
    BY <2>1, <2>2
<1> QED
  BY <1>2, <1>3 DEF memory, TypeOK

LEMMA CrashTyped == TypeOK /\ Crash => TypeOK'
<1> SUFFICES ASSUME TypeOK, Crash PROVE TypeOK'
  OBVIOUS
<1>1. Table(Empty, Conns) /\ Table(Empty, Conns \cup {Legacy}) /\ DOMAIN Empty = {}
  BY DEF Empty, Table
<1>2. IsFiniteSet(DOMAIN Empty)
  BY <1>1, FS_EmptySet
<1>3. /\ channel' \in Seq(Update) /\ batch' \in Seq(Record) /\ kept' \in Seq(Record)
      /\ taken' \in 0..MaxCalls /\ crashes' \in 0..MaxCrashes
      /\ writes_since_check' \in 0..(ROTATION_CHECK_INTERVAL - 1)
  BY HistoryAssumption DEF Crash, TypeOK
<1> QED
  BY <1>1, <1>2, <1>3 DEF Crash, TypeOK

LEMMA RestartTyped == TypeOK /\ Restart => TypeOK'
<1> SUFFICES ASSUME TypeOK, Restart PROVE TypeOK'
  OBVIOUS
<1>1. /\ Table(load_from_disk, Conns \cup {Legacy})
      /\ \A c \in DOMAIN load_from_disk :
           Len(load_from_disk[c]) \in 1..MAX_HISTORY_ENTRIES
  <2>1. CASE file = << >>
    BY <2>1 DEF load_from_disk, Empty, Table
  <2>2. CASE file # << >>
    <3> DEFINE newest == LastN(file, MAX_HISTORY_ENTRIES)
    <3>1. Len(file) \in Nat \ {0}
      BY <2>2 DEF TypeOK
    <3>2. newest \in Seq(Record) /\ Len(newest) \in 1..MAX_HISTORY_ENTRIES
      BY <3>1, LastNKeeps, HistoryAssumption DEF TypeOK
    <3>3. load_from_disk = [c \in {Legacy} |-> newest]
      BY <2>2 DEF load_from_disk
    <3> HIDE DEF newest
    <3> QED
      BY <3>2, <3>3 DEF Table
  <2> QED
    BY <2>1, <2>2
<1>2. Table(Empty, Conns \cup {Legacy}) /\ DOMAIN Empty = {}
  BY DEF Empty, Table
<1>3. faults' \in 0..MaxFaults
  BY HistoryAssumption DEF Restart, Fault, TypeOK
<1>4. ASSUME NEW cache \in {load_from_disk, Empty}, RestartOn(cache)
      PROVE  TypeOK'
  BY <1>1, <1>2, <1>3, <1>4 DEF RestartOn, flush, disk, TypeOK
<1> QED
  BY <1>4 DEF Restart

LEMMA NextTyped == TypeOK /\ QueuesApart /\ [Next]_vars => TypeOK'
<1> SUFFICES ASSUME TypeOK, QueuesApart, [Next]_vars PROVE TypeOK'
  OBVIOUS
<1>1. CASE FlushNext
  BY <1>1, FlushTyped, WritingTyped DEF FlushNext
<1>2. CASE UNCHANGED vars
  BY <1>2 DEF vars, memory, flush, disk, bounds, TypeOK
<1> QED
  BY <1>1, <1>2, SendTyped, ReceiveTyped, RotateTyped, LandTyped, CrashTyped,
     RestartTyped DEF Next

-----------------------------------------------------------------------------
(* Places.  Records are numbered in the order of track_call, so that those *)
(* still in the channel are newer than all the task has received; from     *)
(* there a record moves from the queues to the batch, to a write and to    *)
(* the file, and is nowhere twice.                                         *)
Places == WrittenOnce /\ ChannelInOrder /\ InOnePlace

(* Steps that leave the records where they are.                            *)
LEMMA ReceivedStays ==
  UNCHANGED <<write_queue, batch, inflight, file>> =>
    /\ Received' = Received /\ Queued' = Queued /\ InFlight' = InFlight
    /\ InOnePlace /\ calls' = calls => InOnePlace'
    /\ WrittenOnce => WrittenOnce'
  BY DEF Received, Queued, InFlight, InOnePlace, QueuesApart, WrittenOnce

LEMMA OrderStays ==
  ASSUME ChannelInOrder, channel' = channel, calls' = calls, Received' \subseteq Received
  PROVE  ChannelInOrder'
  BY DEF ChannelInOrder

LEMMA PlacesStay ==
  ASSUME Places, UNCHANGED <<channel, calls, write_queue, batch, inflight, file>>
  PROVE  Places'
  BY ReceivedStays, OrderStays DEF Places

(* Records are numbers, which is what puts them in an order.               *)
LEMMA ReceivedTyped ==
  ASSUME TypeOK
  PROVE  /\ Received \subseteq Nat
         /\ calls \in Nat
         /\ \A i \in DOMAIN channel : channel[i].op = "add" => channel[i].rec \in Nat
<1>1. ASSUME NEW s \in Seq(Record) PROVE ToSet(s) \subseteq Nat
  <2>1. \A i \in 1..Len(s) : s[i] \in Nat
    <3>1. \A i \in 1..Len(s) : s[i] \in Record
      OBVIOUS
    <3>2. Record \subseteq Nat
      BY DEF Record
    <3> QED
      BY <3>1, <3>2
  <2>2. DOMAIN s = 1..Len(s)
    OBVIOUS
  <2> QED
    BY <2>1, <2>2 DEF ToSet
<1>2. Queued \subseteq Nat
  BY <1>1 DEF Queued, TypeOK, Table
<1>3. InFlight \subseteq Nat
  BY DEF InFlight, TypeOK, Write, Record
<1>4. ToSet(batch) \subseteq Nat /\ ToSet(file) \subseteq Nat
  BY <1>1 DEF TypeOK
<1>5. calls \in Nat
  BY HistoryAssumption DEF TypeOK
<1>6. ASSUME NEW i \in DOMAIN channel, channel[i].op = "add"
      PROVE  channel[i].rec \in Nat
  <2>1. channel[i] \in Update
    BY DEF TypeOK
  <2> QED
    BY <1>6, <2>1 DEF Update, Record
<1> QED
  BY <1>2, <1>3, <1>4, <1>5, <1>6 DEF Received

(* A new record has a number above all others.                             *)
LEMMA SendPlaces ==
  ASSUME TypeOK, Places, NEW u \in Update, Send(u), calls' \in Nat, calls <= calls',
         u.op = "add" => u.rec = calls + 1 /\ calls' = calls + 1
  PROVE  Places'
<1>1. /\ channel' = Append(channel, u) /\ channel \in Seq(Update)
      /\ UNCHANGED <<write_queue, batch, inflight, file>>
  BY DEF Send, flush, disk, TypeOK
<1>2. Received' = Received /\ Queued' = Queued /\ InFlight' = InFlight
  BY <1>1, ReceivedStays
<1>3. Received \subseteq Nat /\ calls \in Nat
  BY ReceivedTyped
<1>4. /\ Len(channel) \in Nat
      /\ DOMAIN channel = 1..Len(channel)
      /\ DOMAIN channel' = 1..(Len(channel) + 1)
      /\ \A i \in 1..Len(channel) : channel'[i] = channel[i]
      /\ channel'[Len(channel) + 1] = u
  BY <1>1
<1>5. ASSUME NEW i \in DOMAIN channel', channel'[i].op = "add"
      PROVE  /\ channel'[i].rec <= calls'
             /\ \A j \in DOMAIN channel' :
                  channel'[j].op = "add" /\ i < j => channel'[i].rec < channel'[j].rec
             /\ \A r \in Received : r < channel'[i].rec
  <2>1. CASE i \in 1..Len(channel)
    <3>1. /\ channel'[i] = channel[i] /\ channel[i].rec <= calls
          /\ channel[i].rec \in Nat
          /\ \A j \in 1..Len(channel) :
               channel[j].op = "add" /\ i < j => channel[i].rec < channel[j].rec
          /\ \A r \in Received : r < channel[i].rec
      BY <1>4, <1>5, <2>1, ReceivedTyped DEF Places, ChannelInOrder
    <3>2. ASSUME NEW j \in DOMAIN channel', channel'[j].op = "add", i < j
          PROVE  channel'[i].rec < channel'[j].rec
      <4>1. CASE j \in 1..Len(channel)
        BY <1>4, <3>1, <3>2, <4>1
      <4>2. CASE j = Len(channel) + 1
        <5>1. channel'[j].rec = calls + 1
          BY <1>4, <3>2, <4>2
        <5> QED
          BY <1>3, <3>1, <5>1
      <4> QED
        BY <1>4, <4>1, <4>2
    <3>3. channel'[i].rec <= calls'
      BY <1>3, <3>1
    <3> QED
      BY <3>1, <3>2, <3>3
  <2>2. CASE i = Len(channel) + 1
    <3>1. channel'[i].rec = calls + 1 /\ calls' = calls + 1
      BY <1>4, <1>5, <2>2
    <3>2. \A r \in Received : r < calls + 1
      BY <1>3 DEF Places, InOnePlace
    <3>3. \A j \in DOMAIN channel' : ~(i < j)
      BY <1>4, <2>2
    <3> QED
      BY <1>3, <3>1, <3>2, <3>3
  <2> QED
    BY <1>4, <2>1, <2>2
<1>6. ChannelInOrder'
  BY <1>2, <1>5 DEF ChannelInOrder
<1>7. \A r \in Received' : r <= calls'
  <2>1. \A r \in Received : r <= calls
    BY DEF Places, InOnePlace
  <2> QED
    BY <1>2, <1>3, <2>1
<1>8. InOnePlace'
  BY <1>1, <1>2, <1>7 DEF Places, InOnePlace, QueuesApart
<1> QED
  BY <1>1, <1>6, <1>8 DEF Places, WrittenOnce

LEMMA SendNextPlaces == TypeOK /\ Places /\ SendNext => Places'
<1> SUFFICES ASSUME TypeOK, Places, NEW c \in Conns,
                    track_call(c) \/ remove_connection(c)
             PROVE  Places'
  BY DEF SendNext
<1>0. calls \in 0..MaxCalls /\ MaxCalls \in Nat
  BY HistoryAssumption DEF TypeOK
<1>1. CASE track_call(c)
  <2> DEFINE u == [op |-> "add", conn |-> c, rec |-> calls + 1]
  <2>1. Send(u) /\ calls' = calls + 1 /\ calls < MaxCalls
    BY <1>1 DEF track_call
  <2>2. u \in Update
    BY <1>0, <2>1 DEF Update, Record
  <2>3. calls' \in Nat /\ calls <= calls' /\ u.rec = calls + 1
    BY <1>0, <2>1
  <2> HIDE DEF u
  <2> QED
    BY <2>1, <2>2, <2>3, SendPlaces
<1>2. CASE remove_connection(c)
  <2> DEFINE u == [op |-> "remove", conn |-> c]
  <2>1. Send(u) /\ calls' = calls
    BY <1>2 DEF remove_connection
  <2>2. u \in Update /\ u.op # "add"
    BY DEF Update
  <2>3. calls' \in Nat /\ calls <= calls'
    BY <1>0, <2>1
  <2> HIDE DEF u
  <2> QED
    BY <2>1, <2>2, <2>3, SendPlaces
<1> QED
  BY <1>1, <1>2

(* The channel after its oldest update was taken.                          *)
LEMMA TailInOrder ==
  ASSUME TypeOK, Places, NEW op, Receive(op), calls' = calls,
         \A r \in Received' : r \in Received \/ (op = "add" /\ r = Head(channel).rec)
  PROVE  /\ ChannelInOrder'
         /\ \A r \in Received' : r <= calls
<1>1. channel # << >> /\ channel \in Seq(Update) /\ channel' = Tail(channel)
  BY DEF Receive, TypeOK
<1> DEFINE n == Len(channel) - 1
<1>2. /\ n \in Nat /\ DOMAIN channel = 1..(n + 1) /\ DOMAIN channel' = 1..n
      /\ Head(channel) = channel[1]
      /\ \A i \in 1..n : channel'[i] = channel[i + 1]
  BY <1>1
<1>3. Head(channel).op = op
  BY DEF Receive
<1> HIDE DEF n
<1>4. /\ 1 \in 1..(n + 1)
      /\ \A i \in 1..n : i + 1 \in 1..(n + 1) /\ 1 < i + 1
      /\ \A i, j \in 1..n : i < j => i + 1 < j + 1
  BY <1>2
<1>5. ASSUME NEW i \in 1..n, channel'[i].op = "add"
      PROVE  /\ channel'[i].rec <= calls
             /\ \A j \in 1..n :
                  channel'[j].op = "add" /\ i < j => channel'[i].rec < channel'[j].rec
             /\ \A r \in Received' : r < channel'[i].rec
  <2>1. channel[i + 1].op = "add" /\ channel'[i] = channel[i + 1]
    BY <1>2, <1>5
  <2>2. /\ channel[i + 1].rec <= calls
        /\ \A j \in 1..(n + 1) :
             channel[j].op = "add" /\ i + 1 < j => channel[i + 1].rec < channel[j].rec
        /\ \A r \in Received : r < channel[i + 1].rec
    BY <1>2, <1>4, <2>1 DEF Places, ChannelInOrder
  <2>3. op = "add" => Head(channel).rec < channel[i + 1].rec
    BY <1>2, <1>3, <1>4, <2>1 DEF Places, ChannelInOrder
  <2>4. \A r \in Received' : r < channel'[i].rec
    BY <2>1, <2>2, <2>3
  <2>5. ASSUME NEW j \in 1..n, channel'[j].op = "add", i < j
        PROVE  channel'[i].rec < channel'[j].rec
    BY <1>2, <1>4, <2>1, <2>2, <2>5
  <2> QED
    BY <2>1, <2>2, <2>4, <2>5
<1>6. ChannelInOrder'
  BY <1>2, <1>5 DEF ChannelInOrder
<1>7. op = "add" => Head(channel).rec <= calls
  BY <1>2, <1>3, <1>4 DEF Places, ChannelInOrder
<1>8. \A r \in Received : r <= calls
  BY DEF Places, InOnePlace
<1> QED
  BY <1>6, <1>7, <1>8

(* A removal takes records from the queues and adds none.                  *)
LEMMA ReceiveRemovePlaces == TypeOK /\ Places /\ ReceiveRemove => Places'
<1> SUFFICES ASSUME TypeOK, Places, ReceiveRemove PROVE Places'
  OBVIOUS
<1>1. /\ Receive("remove") /\ write_queue' = Drop(write_queue, Head(channel).conn)
      /\ UNCHANGED <<batch, inflight, file, calls>>
  BY DEF ReceiveRemove, Receive, flush, disk, bounds
<1>2. /\ DOMAIN write_queue' \subseteq DOMAIN write_queue
      /\ \A c \in DOMAIN write_queue' : write_queue'[c] = write_queue[c]
  BY <1>1 DEF Drop
<1>3. Queued' \subseteq Queued /\ InFlight' = InFlight
  BY <1>1, <1>2 DEF Queued, InFlight
<1>4. Received' \subseteq Received
  BY <1>1, <1>3 DEF Received
<1>5. ChannelInOrder' /\ \A r \in Received' : r <= calls
  BY <1>1, <1>4, TailInOrder
<1>6. QueuesApart'
  BY <1>2 DEF Places, InOnePlace, QueuesApart
<1>7. InOnePlace'
  BY <1>1, <1>3, <1>5, <1>6 DEF Places, InOnePlace
<1> QED
  BY <1>1, <1>5, <1>7 DEF Places, WrittenOnce

(* The oldest record of the channel is newer than all that was received.   *)
LEMMA ReceiveAddPlaces == TypeOK /\ Places /\ ReceiveAdd => Places'
<1> SUFFICES ASSUME TypeOK, Places, ReceiveAdd PROVE Places'
  OBVIOUS
<1> DEFINE c == Head(channel).conn
           r == Head(channel).rec
           q == write_queue
           s == Of(q, c)
<1>1. /\ Receive("add") /\ write_queue' = Push(q, c, r)
      /\ UNCHANGED <<batch, inflight, file, calls>>
  BY DEF ReceiveAdd, Receive, flush, disk, bounds
<1>2. c \in Conns /\ r \in Record
  BY <1>1, ReceivedUpdate
<1>3. /\ channel # << >> /\ channel \in Seq(Update) /\ Head(channel).op = "add"
  BY <1>1 DEF Receive, TypeOK
<1>4. 1 \in DOMAIN channel /\ Head(channel) = channel[1]
  BY <1>3
<1>5. r \notin Received
  <2>1. \A x \in Received : x < r
    BY <1>3, <1>4 DEF Places, ChannelInOrder
  <2> QED
    BY <1>2, <2>1 DEF Record
<1>6. /\ s \in Seq(Record)
      /\ c \in DOMAIN q => s = q[c]
      /\ c \notin DOMAIN q => s = << >>
  <2>1. << >> \in Seq(Record)
    OBVIOUS
  <2> QED
    BY <2>1 DEF Of, TypeOK, Table
<1>7. /\ DOMAIN write_queue' = DOMAIN q \cup {c}
      /\ write_queue'[c] = Append(s, r)
      /\ \A d \in DOMAIN q : d # c => write_queue'[d] = q[d]
  BY <1>1 DEF Push
<1>8. ToSet(s) \subseteq Queued /\ IsInjective(s)
  <2>1. CASE c \in DOMAIN q
    BY <1>6, <2>1 DEF Queued, Places, InOnePlace, QueuesApart
  <2>2. CASE c \notin DOMAIN q
    BY <1>6, <2>2 DEF ToSet, IsInjective
  <2> QED
    BY <2>1, <2>2
<1>14. InFlight' = InFlight
  BY <1>1 DEF InFlight
<1>16. \A d \in DOMAIN q : ToSet(q[d]) \subseteq Queued
  BY DEF Queued
<1>17. \A d \in DOMAIN q : /\ IsInjective(q[d])
                          /\ \A e \in DOMAIN q : d # e => ToSet(q[d]) \cap ToSet(q[e]) = {}
  BY DEF Places, InOnePlace, QueuesApart
<1>18. c \in DOMAIN q => ToSet(s) = ToSet(q[c])
  BY <1>6
<1>19. c \notin DOMAIN q => ToSet(s) = {}
  BY <1>6 DEF ToSet
<1> HIDE DEF c, r, q, s
<1>9. ToSet(Append(s, r)) = ToSet(s) \cup {r} /\ IsInjective(Append(s, r))
  <2>1. r \notin ToSet(s)
    BY <1>5, <1>8 DEF Received
  <2> QED
    BY <1>2, <1>6, <1>8, <2>1, AppendIs
<1>10. Queued' = Queued \cup {r}
  <2>1. Queued' = UNION {ToSet(write_queue'[d]) : d \in DOMAIN q \cup {c}}
    BY <1>7 DEF Queued
  <2>2. Queued = UNION {ToSet(q[d]) : d \in DOMAIN q}
    BY DEF Queued, q
  <2>3. ASSUME NEW x \in Queued' PROVE x \in Queued \cup {r}
    <3>1. PICK d \in DOMAIN q \cup {c} : x \in ToSet(write_queue'[d])
      BY <2>1, <2>3
    <3> QED
      BY <1>7, <1>8, <1>9, <1>16, <3>1
  <2>4. ASSUME NEW x \in Queued PROVE x \in Queued'
    <3>1. PICK d \in DOMAIN q : x \in ToSet(q[d])
      BY <2>2, <2>4
    <3>2. x \in ToSet(write_queue'[d])
      BY <1>7, <1>9, <1>18, <3>1
    <3> QED
      BY <2>1, <3>2
  <2>5. r \in Queued'
    BY <1>7, <1>9, <2>1
  <2> QED
    BY <2>3, <2>4, <2>5
<1>11. QueuesApart'
  <2>1. ASSUME NEW d \in DOMAIN q, d # c
        PROVE  ToSet(q[d]) \cap ToSet(Append(s, r)) = {}
    <3>1. r \notin ToSet(q[d])
      BY <1>5, <1>16, <2>1 DEF Received
    <3>2. ToSet(q[d]) \cap ToSet(s) = {}
      BY <1>17, <1>18, <1>19, <2>1
    <3> QED
      BY <1>9, <3>1, <3>2
  <2>2. ASSUME NEW d \in DOMAIN q \cup {c}, NEW e \in DOMAIN q \cup {c}, d # e
        PROVE  ToSet(write_queue'[d]) \cap ToSet(write_queue'[e]) = {}
    BY <1>7, <1>17, <2>1, <2>2
  <2>3. \A d \in DOMAIN q \cup {c} : IsInjective(write_queue'[d])
    BY <1>7, <1>9, <1>17
  <2> QED
    BY <1>7, <2>2, <2>3 DEF QueuesApart
<1>12. Received' = Received \cup {r}
  BY <1>1, <1>10, <1>14 DEF Received
<1>13. ChannelInOrder' /\ \A x \in Received' : x <= calls
  BY <1>1, <1>12, TailInOrder DEF r
<1>15. InOnePlace'
  <2>1. r \notin ToSet(batch) \cup InFlight \cup ToSet(file)
    BY <1>5 DEF Received
  <2> QED
    BY <1>1, <1>10, <1>11, <1>13, <1>14, <2>1 DEF Places, InOnePlace
<1> QED
  BY <1>1, <1>13, <1>15 DEF Places, WrittenOnce

(* What was queued is now in the batch.                                    *)
LEMMA FlushPlaces == TypeOK /\ Places /\ FlushTick => Places'
<1> SUFFICES ASSUME TypeOK, Places, FlushTick PROVE Places'
  OBVIOUS
<1>1. UNCHANGED <<channel, calls, inflight, file>>
  BY DEF FlushTick, TakeAll, bounds, disk
<1>2. /\ IsInjective(batch') /\ ToSet(batch') = Queued
      /\ write_queue' = [c \in DOMAIN write_queue |-> << >>]
  BY BatchIs DEF Places, InOnePlace
<1>3. \A c \in DOMAIN write_queue' : /\ ToSet(write_queue'[c]) = {}
                                     /\ IsInjective(write_queue'[c])
  BY <1>2 DEF ToSet, IsInjective
<1>4. Queued' = {} /\ InFlight' = InFlight
  BY <1>1, <1>3 DEF Queued, InFlight
<1>5. Received' \subseteq Received
  BY <1>1, <1>2, <1>4 DEF Received
<1>6. QueuesApart'
  BY <1>3 DEF QueuesApart
<1>7. ChannelInOrder'
  BY <1>1, <1>5, OrderStays DEF Places
<1>8. InOnePlace'
  BY <1>1, <1>2, <1>4, <1>5, <1>6 DEF Places, InOnePlace
<1> QED
  BY <1>1, <1>7, <1>8 DEF Places, WrittenOnce

(* Opening the file moves nothing; failing to loses the batch.             *)
LEMMA OpenPlaces == Places /\ (Open \/ OpenFails) => Places'
<1> SUFFICES ASSUME Places, Open \/ OpenFails PROVE Places'
  OBVIOUS
<1>1. UNCHANGED <<channel, calls, write_queue, inflight, file>>
  BY DEF Open, OpenFails, TaskStep, memory, flush, disk
<1>2. Queued' = Queued /\ InFlight' = InFlight /\ (QueuesApart => QueuesApart')
  BY <1>1 DEF Queued, InFlight, QueuesApart
<1>3. IsInjective(batch') /\ ToSet(batch') \subseteq ToSet(batch)
  <2>1. CASE Open
    BY <2>1 DEF Open, flush, Places, InOnePlace
  <2>2. CASE OpenFails
    BY <2>2 DEF OpenFails, IsInjective, ToSet
  <2> QED
    BY <2>1, <2>2
<1>4. Received' \subseteq Received
  BY <1>1, <1>2, <1>3 DEF Received
<1>5. ChannelInOrder'
  BY <1>1, <1>4, OrderStays DEF Places
<1>6. InOnePlace'
  BY <1>1, <1>2, <1>3, <1>4 DEF Places, InOnePlace
<1> QED
  BY <1>1, <1>5, <1>6 DEF Places, WrittenOnce

(* The first record of the batch becomes a write, or is lost.              *)
LEMMA WriteRecordPlaces == TypeOK /\ Places /\ WriteRecord => Places'
<1> SUFFICES ASSUME TypeOK, Places, WriteRecord PROVE Places'
  OBVIOUS
<1> DEFINE w == [rec |-> Head(batch), to |-> "open"]
<1>1. /\ batch # << >> /\ batch' = Tail(batch)
      /\ inflight' = inflight \/ inflight' = inflight \cup {w}
      /\ UNCHANGED <<channel, calls, write_queue, file>>
  BY DEF WriteRecord, TaskStep, memory, disk
<1>2. w.rec = Head(batch)
  OBVIOUS
<1> HIDE DEF w
<1>3. /\ Head(batch) \in ToSet(batch) /\ ToSet(batch') \subseteq ToSet(batch)
      /\ IsInjective(batch') /\ Head(batch) \notin ToSet(batch')
  BY <1>1, HeadTailIs DEF TypeOK, Places, InOnePlace
<1>4. Queued' = Queued /\ (QueuesApart => QueuesApart')
  BY <1>1 DEF Queued, QueuesApart
<1>5. InFlight' = InFlight \/ InFlight' = InFlight \cup {Head(batch)}
  BY <1>1, <1>2 DEF InFlight
<1>6. Received' \subseteq Received
  BY <1>1, <1>3, <1>4, <1>5 DEF Received
<1>7. ChannelInOrder'
  BY <1>1, <1>6, OrderStays DEF Places
<1>8. \A v, x \in inflight' : v.rec = x.rec => v = x
  <2>1. \A v \in inflight : v.rec # w.rec
    BY <1>2, <1>3 DEF Places, InOnePlace, InFlight
  <2>2. \A v, x \in inflight : v.rec = x.rec => v = x
    BY DEF Places, InOnePlace
  <2> QED
    BY <1>1, <2>1, <2>2
<1>9. InOnePlace'
  BY <1>1, <1>3, <1>4, <1>5, <1>6, <1>8 DEF Places, InOnePlace
<1> QED
  BY <1>1, <1>7, <1>9 DEF Places, WrittenOnce

(* Where a write goes to can change, what it writes does not.              *)
LEMMA RedirectPlaces ==
  ASSUME TypeOK, Places, NEW at, inflight' = {at[w] : w \in inflight},
         \A w \in inflight : at[w].rec = w.rec,
         UNCHANGED <<channel, calls, write_queue, batch>>,
         IsInjective(file'), ToSet(file') \subseteq ToSet(file)
  PROVE  Places'
<1>1. InFlight' = InFlight
  BY DEF InFlight
<1>2. Queued' = Queued /\ (QueuesApart => QueuesApart')
  BY DEF Queued, QueuesApart
<1>3. Received' \subseteq Received
  BY <1>1, <1>2 DEF Received
<1>4. ChannelInOrder'
  BY <1>3, OrderStays DEF Places
<1>5. \A v, x \in inflight' : v.rec = x.rec => v = x
  BY DEF Places, InOnePlace
<1>6. InOnePlace'
  BY <1>1, <1>2, <1>3, <1>5 DEF Places, InOnePlace
<1> QED
  BY <1>4, <1>6 DEF Places, WrittenOnce

(* The File of the batch is dropped.                                       *)
LEMMA EndBatchPlaces == TypeOK /\ Places /\ EndBatch => Places'
<1> SUFFICES ASSUME TypeOK, Places, EndBatch PROVE Places'
  OBVIOUS
<1> DEFINE at == [w \in inflight |->
                  IF w.to = "open" THEN [w EXCEPT !.to = "dropped"] ELSE w]
<1>1. /\ inflight' = {at[w] : w \in inflight}
      /\ UNCHANGED <<channel, calls, write_queue, batch, file>>
  BY DEF EndBatch, TaskStep, memory, disk
<1>2. \A w \in inflight : at[w].rec = w.rec
  BY DEF TypeOK, Write
<1> HIDE DEF at
<1>3. IsInjective(file') /\ ToSet(file') \subseteq ToSet(file)
  BY <1>1 DEF Places, WrittenOnce
<1> QED
  BY <1>1, <1>2, <1>3, RedirectPlaces

(* The file is replaced by a part of it.                                   *)
LEMMA RenamePlaces == TypeOK /\ Places /\ RotationCopies /\ Rename => Places'
<1> SUFFICES ASSUME TypeOK, Places, RotationCopies, Rename PROVE Places'
  OBVIOUS
<1> DEFINE at == [w \in inflight |-> [w EXCEPT !.to = "replaced"]]
<1>1. /\ inflight' = {at[w] : w \in inflight} /\ file' = temp
      /\ processor = "renaming"
      /\ UNCHANGED <<channel, calls, write_queue, batch>>
  BY DEF Rename, TaskStep, memory, flush
<1>2. \A w \in inflight : at[w].rec = w.rec
  BY DEF TypeOK, Write
<1> HIDE DEF at
<1>3. IsInjective(file') /\ ToSet(file') \subseteq ToSet(file)
  BY <1>1 DEF RotationCopies
<1> QED
  BY <1>1, <1>2, <1>3, RedirectPlaces

LEMMA RotatePlaces == TypeOK /\ Places /\ RotationCopies /\ RotateNext => Places'
<1> SUFFICES ASSUME TypeOK, Places, RotationCopies, RotateNext PROVE Places'
  OBVIOUS
<1>1. CASE ReadFile \/ CreateTemp \/ FinishCopy \/ RotationFails
  <2>1. UNCHANGED <<channel, calls, write_queue, batch, inflight, file>>
    BY <1>1 DEF ReadFile, CreateTemp, FinishCopy, RotationFails, TaskStep, memory,
                flush, disk
  <2> QED
    BY <2>1, PlacesStay
<1> QED
  BY <1>1, RenamePlaces DEF RotateNext

(* A write that was under way is now in the file, or lost.                 *)
LEMMA LandPlaces == TypeOK /\ Places /\ LandNext => Places'
<1> SUFFICES ASSUME TypeOK, Places, NEW w \in inflight, WriteLands(w) \/ WriteFails(w)
             PROVE  Places'
  BY DEF LandNext
<1>1. /\ inflight' = inflight \ {w}
      /\ file' = file \/ file' = Append(file, w.rec)
      /\ UNCHANGED <<channel, calls, write_queue, batch>>
  BY DEF WriteLands, WriteFails, EndWrite, memory
<1>2. Queued' = Queued /\ (QueuesApart => QueuesApart')
  BY <1>1 DEF Queued, QueuesApart
<1>3. InFlight' = InFlight \ {w.rec} /\ w.rec \in InFlight
  <2>1. \A v \in inflight : v.rec = w.rec => v = w
    BY DEF Places, InOnePlace
  <2> QED
    BY <1>1, <2>1 DEF InFlight
<1>4. w.rec \in Record /\ w.rec \notin ToSet(file)
  BY <1>3 DEF TypeOK, Write, Places, InOnePlace
<1>5. /\ IsInjective(file')
      /\ ToSet(file') = ToSet(file) \/ ToSet(file') = ToSet(file) \cup {w.rec}
  <2>1. file \in Seq(Record) /\ IsInjective(file)
    BY DEF TypeOK, Places, WrittenOnce
  <2>2. /\ ToSet(Append(file, w.rec)) = ToSet(file) \cup {w.rec}
        /\ IsInjective(Append(file, w.rec))
    BY <1>4, <2>1, AppendIs
  <2> QED
    BY <1>1, <2>1, <2>2
<1>6. Received' \subseteq Received
  BY <1>1, <1>2, <1>3, <1>5 DEF Received
<1>7. ChannelInOrder'
  BY <1>1, <1>6, OrderStays DEF Places
<1>8. InOnePlace'
  BY <1>1, <1>2, <1>3, <1>5, <1>6 DEF Places, InOnePlace
<1> QED
  BY <1>5, <1>7, <1>8 DEF Places, WrittenOnce

(* Only the file survives.                                                 *)
LEMMA CrashPlaces == TypeOK /\ Places /\ Crash => Places'
<1> SUFFICES ASSUME TypeOK, Places, Crash PROVE Places'
  OBVIOUS
<1>1. /\ channel' = << >> /\ write_queue' = Empty /\ batch' = << >> /\ inflight' = {}
      /\ UNCHANGED <<file, calls>>
  BY DEF Crash
<1>2. Queued' = {} /\ InFlight' = {} /\ QueuesApart'
  BY <1>1 DEF Queued, InFlight, QueuesApart, Empty
<1>3. ToSet(batch') = {} /\ IsInjective(batch') /\ DOMAIN channel' = {}
  BY <1>1 DEF ToSet, IsInjective
<1>4. Received' \subseteq Received
  BY <1>1, <1>2, <1>3 DEF Received
<1>5. ChannelInOrder'
  BY <1>3 DEF ChannelInOrder
<1>6. InOnePlace'
  BY <1>1, <1>2, <1>3, <1>4 DEF Places, InOnePlace
<1> QED
  BY <1>1, <1>5, <1>6 DEF Places, WrittenOnce

LEMMA NextPlaces == TypeOK /\ Places /\ RotationCopies /\ [Next]_vars => Places'
<1> SUFFICES ASSUME TypeOK, Places, RotationCopies, [Next]_vars PROVE Places'
  OBVIOUS
<1>1. CASE ReceiveNext
  BY <1>1, ReceiveAddPlaces, ReceiveRemovePlaces DEF ReceiveNext
<1>2. CASE FlushNext
  BY <1>2, FlushPlaces, OpenPlaces, WriteRecordPlaces, EndBatchPlaces DEF FlushNext
<1>3. CASE Restart
  BY <1>3, PlacesStay DEF Restart, RestartOn, flush, disk
<1>4. CASE UNCHANGED vars
  BY <1>4, PlacesStay DEF vars, memory, flush, disk, bounds
<1> QED
  BY <1>1, <1>2, <1>3, <1>4, SendNextPlaces, RotatePlaces, LandPlaces, CrashPlaces
     DEF Next

-----------------------------------------------------------------------------
(* The copy of a rotation.  Only a rename takes records from the file, and *)
(* the copy is then complete; what lands meanwhile is added.               *)
LEMMA LandCopies == TypeOK /\ RotationCopies /\ LandNext => RotationCopies'
<1> SUFFICES ASSUME TypeOK, RotationCopies, NEW w \in inflight,
                    WriteLands(w) \/ WriteFails(w)
             PROVE  RotationCopies'
  BY DEF LandNext
<1>1. /\ UNCHANGED <<processor, kept, temp>>
      /\ file' = file \/ file' = Append(file, w.rec)
  BY DEF WriteLands, WriteFails, EndWrite
<1>2. w.rec \in Record
  BY DEF TypeOK, Write
<1>3. ToSet(file) \subseteq ToSet(file')
  <2>1. file \in Seq(Record)
    BY DEF TypeOK
  <2>2. ToSet(Append(file, w.rec)) = ToSet(file) \cup {w.rec}
    BY <1>2, <2>1, AppendIs
  <2> QED
    BY <1>1, <2>2
<1> QED
  BY <1>1, <1>3 DEF RotationCopies

(* While a copy is made nobody else replaces the file.                     *)
LEMMA NextCopies ==
  TypeOK /\ WrittenOnce /\ RotationCopies /\ [Next]_vars => RotationCopies'
<1> SUFFICES ASSUME TypeOK, WrittenOnce, RotationCopies, [Next]_vars
             PROVE  RotationCopies'
  OBVIOUS
<1>1. CASE SendNext
  BY <1>1 DEF SendNext, track_call, remove_connection, Send, disk, RotationCopies
<1>2. CASE ReceiveNext
  BY <1>2 DEF ReceiveNext, ReceiveAdd, ReceiveRemove, Receive, disk, RotationCopies
<1>3. CASE FlushNext
  <2>1. processor' \in {"opening", "writing", "reading", "idle"}
    BY <1>3 DEF FlushNext, FlushTick, TakeAll, Open, OpenFails, WriteRecord, EndBatch,
                TaskStep
  <2> QED
    BY <2>1 DEF RotationCopies
<1>4. CASE ReadFile
  <2>1. /\ processor' # "renaming" /\ file' = file
        /\ processor' \in {"creating", "copying"} => Len(file) > MAX_DISK_ENTRIES
        /\ kept' = LastN(file, MAX_DISK_ENTRIES)
    BY <1>4 DEF ReadFile, TaskStep
  <2>2. /\ Len(kept') = IF Len(file) > MAX_DISK_ENTRIES THEN MAX_DISK_ENTRIES ELSE Len(file)
        /\ ToSet(kept') \subseteq ToSet(file) /\ IsInjective(kept')
    BY <2>1, LastNKeeps, HistoryAssumption DEF TypeOK, WrittenOnce
  <2> QED
    BY <2>1, <2>2 DEF RotationCopies
<1>5. CASE CreateTemp \/ FinishCopy
  BY <1>5 DEF CreateTemp, FinishCopy, TaskStep, RotationCopies
<1>6. CASE Rename \/ RotationFails \/ Crash \/ Restart
  BY <1>6 DEF Rename, RotationFails, TaskStep, Crash, Restart, RestartOn,
              RotationCopies
<1>7. CASE UNCHANGED vars
  BY <1>7 DEF vars, disk, RotationCopies
<1> QED
  BY <1>1, <1>2, <1>3, <1>4, <1>5, <1>6, <1>7, LandCopies DEF Next, RotateNext

(* A dead process keeps dead state.                                        *)
LEMMA NextDead == TypeOK /\ DeadHasNothing /\ [Next]_vars => DeadHasNothing'
<1> SUFFICES ASSUME TypeOK, DeadHasNothing, [Next]_vars PROVE DeadHasNothing'
  OBVIOUS
<1>1. CASE SendNext \/ ReceiveNext
  BY <1>1 DEF SendNext, track_call, remove_connection, Send, ReceiveNext, ReceiveAdd,
              ReceiveRemove, Receive, DeadHasNothing
<1>2. CASE FlushNext
  <2>1. processor' # "dead"
    BY <1>2 DEF FlushNext, FlushTick, TakeAll, Open, OpenFails, WriteRecord, EndBatch,
                TaskStep
  <2> QED
    BY <2>1 DEF DeadHasNothing
<1>3. CASE RotateNext
  <2>1. processor' # "dead"
    BY <1>3 DEF RotateNext, ReadFile, CreateTemp, FinishCopy, Rename, RotationFails,
                TaskStep
  <2> QED
    BY <2>1 DEF DeadHasNothing
<1>4. CASE LandNext
  BY <1>4 DEF LandNext, WriteLands, WriteFails, EndWrite, memory, DeadHasNothing
<1>5. CASE Crash \/ Restart
  BY <1>5 DEF Crash, Restart, RestartOn, DeadHasNothing
<1>6. CASE UNCHANGED vars
  BY <1>6 DEF vars, memory, DeadHasNothing
<1> QED
  BY <1>1, <1>2, <1>3, <1>4, <1>5, <1>6 DEF Next

-----------------------------------------------------------------------------
LEMMA InitIInv == Init => IInv
<1> SUFFICES ASSUME Init PROVE IInv
  OBVIOUS
<1>1. Table(Empty, Conns) /\ Table(Empty, Conns \cup {Legacy}) /\ DOMAIN Empty = {}
  BY DEF Empty, Table
<1>2. IsFiniteSet(DOMAIN Empty)
  BY <1>1, FS_EmptySet
<1>3. << >> \in Seq(Record) /\ << >> \in Seq(Update) /\ DOMAIN << >> = {}
  OBVIOUS
<1>4. TypeOK
  <2>1. /\ channel \in Seq(Update) /\ batch \in Seq(Record)
        /\ kept \in Seq(Record) /\ temp \in Seq(Record) /\ file \in Seq(Record)
    BY <1>3 DEF Init
  <2>2. /\ taken \in 0..MaxCalls
        /\ writes_since_check \in 0..(ROTATION_CHECK_INTERVAL - 1)
        /\ calls \in 0..MaxCalls /\ removes \in 0..MaxRemoves
        /\ faults \in 0..MaxFaults /\ crashes \in 0..MaxCrashes
    BY HistoryAssumption DEF Init
  <2> QED
    BY <1>1, <1>2, <2>1, <2>2 DEF Init, TypeOK
<1>5. IsInjective(<< >>) /\ ToSet(<< >>) = {}
  BY DEF IsInjective, ToSet
<1>6. Queued = {} /\ InFlight = {} /\ QueuesApart
  BY DEF Init, Empty, Queued, InFlight, QueuesApart
<1>7. Received = {}
  BY <1>5, <1>6 DEF Init, Received
<1>8. InOnePlace
  BY <1>5, <1>6, <1>7 DEF Init, InOnePlace
<1> QED
  BY <1>3, <1>4, <1>5, <1>8, InitTailInv
     DEF Init, IInv, TailInv, WrittenOnce, ChannelInOrder, RotationCopies, DeadHasNothing

(* The invariant above is part of this one.                                *)
LEMMA TypedTail == IInv => TailInv
<1> SUFFICES ASSUME IInv PROVE TailInv
  OBVIOUS
<1>1. << >> \in Seq(Record)
  OBVIOUS
<1>2. \A c \in Conns : /\ Of(entries, c) \in Seq(Record)
                      /\ Of(write_queue, c) \in Seq(Record)
  BY <1>1 DEF IInv, TypeOK, Table, Of
<1> QED
  BY <1>2 DEF TailInv, CacheTyped, IInv, TypeOK, DeadHasNothing

LEMMA NextIInv == IInv /\ [Next]_vars => IInv'
<1> SUFFICES ASSUME IInv, [Next]_vars PROVE IInv'
  OBVIOUS
<1>1. /\ TypeOK /\ Places /\ RotationCopies /\ DeadHasNothing
      /\ QueuesApart /\ WrittenOnce /\ TailInv
  BY TypedTail DEF IInv, Places, InOnePlace
<1> QED
  BY <1>1, NextTyped, NextPlaces, NextCopies, NextDead, NextTailInv
     DEF IInv, Places, TailInv

(* At any time, for any limits and bounds: all variables have their types, *)
(* the cache and the queue agree, every record is in one place at most and *)
(* in the order of its call, a rotation copies records of the file only,   *)
(* and a dead process has nothing.                                         *)
THEOREM Invariance == Spec => []IInv
  BY InitIInv, NextIInv, PTL DEF Spec

(* The types of all variables, in particular the counter of rotation,      *)
(* which is always below the interval, and the cache, which never exceeds  *)
(* its limit.                                                              *)
THEOREM TypeCorrect == Spec => []TypeOK
<1>1. IInv => TypeOK
  BY DEF IInv
<1> QED
  BY <1>1, Invariance, PTL

(* No interleaving of flushes, failures, rotations, crashes and restarts   *)
(* writes a record twice.                                                  *)
THEOREM NoneTwice == Spec => []WrittenOnce
<1>1. IInv => WrittenOnce
  BY DEF IInv
<1> QED
  BY <1>1, Invariance, PTL

(* Only a rename shortens the file, and it has all the limit allows.       *)
LEMMA StepKeepsEnough ==
  IInv /\ [Next]_vars => Len(file') >= Len(file) \/ Len(file') = MAX_DISK_ENTRIES
<1> SUFFICES ASSUME IInv, [Next]_vars
             PROVE  Len(file') >= Len(file) \/ Len(file') = MAX_DISK_ENTRIES
  OBVIOUS
<1>0. Len(file) \in Nat
  BY DEF IInv, TypeOK
<1>1. CASE Rename
  <2>1. file' = temp /\ temp = kept /\ Len(kept) = MAX_DISK_ENTRIES
    BY <1>1 DEF Rename, TaskStep, IInv, RotationCopies
  <2> QED
    BY <2>1
<1>2. CASE LandNext
  <2>1. PICK w \in inflight : file' = file \/ file' = Append(file, w.rec)
    BY <1>2 DEF LandNext, WriteLands, WriteFails
  <2>2. w.rec \in Record /\ file \in Seq(Record)
    BY DEF IInv, TypeOK, Write
  <2> QED
    BY <1>0, <2>1, <2>2
<1>3. CASE ~Rename /\ ~LandNext
  <2>1. CASE SendNext \/ ReceiveNext
    <3>1. file' = file
      BY <2>1 DEF SendNext, track_call, remove_connection, Send, ReceiveNext,
                  ReceiveAdd, ReceiveRemove, Receive, disk
    <3> QED
      BY <1>0, <3>1
  <2>2. CASE FlushNext
    <3>1. file' = file
      BY <2>2 DEF FlushNext, FlushTick, TakeAll, Open, OpenFails, WriteRecord, EndBatch,
                  disk
    <3> QED
      BY <1>0, <3>1
  <2>3. CASE RotateNext
    <3>1. file' = file
      BY <1>3, <2>3 DEF RotateNext, ReadFile, CreateTemp, FinishCopy, RotationFails, disk
    <3> QED
      BY <1>0, <3>1
  <2>4. CASE Crash \/ Restart \/ UNCHANGED vars
    <3>1. file' = file
      BY <2>4 DEF Crash, Restart, RestartOn, vars, disk
    <3> QED
      BY <1>0, <3>1
  <2> QED
    BY <1>3, <2>1, <2>2, <2>3, <2>4 DEF Next
<1> QED
  BY <1>1, <1>2, <1>3

(* The file never shrinks below the number of records a rotation keeps,    *)
(* whatever fails or dies during the rotation.                             *)
THEOREM RotationKeeps == Spec => RotationKeepsEnough
  BY StepKeepsEnough, Invariance, PTL DEF Spec, RotationKeepsEnough

-----------------------------------------------------------------------------
(* Each step of the task is one of the service.                            *)
LEMMA SendMapped ==
  ASSUME TypeOK, NEW u \in Update, channel' = Append(channel, u)
  PROVE  Updates' = Append(Updates, AsUpdate(u))
<1> DEFINE n == Len(channel)
<1>1. /\ channel \in Seq(Update) /\ n \in Nat
      /\ DOMAIN channel = 1..n /\ DOMAIN channel' = 1..(n + 1)
      /\ \A i \in 1..n : channel'[i] = channel[i]
      /\ channel'[n + 1] = u
  BY DEF TypeOK
<1> HIDE DEF n
<1>2. Updates = [i \in 1..n |-> AsUpdate(channel[i])]
  BY <1>1 DEF Updates
<1>3. Updates' = [i \in 1..(n + 1) |-> AsUpdate(channel'[i])]
  BY <1>1 DEF Updates
<1>4. Append(Updates, AsUpdate(u))
        = [i \in 1..(n + 1) |-> IF i = n + 1 THEN AsUpdate(u) ELSE Updates[i]]
  <2>1. Updates \in Seq({AsUpdate(channel[i]) : i \in 1..n}) /\ Len(Updates) = n
    BY <1>1, <1>2
  <2> QED
    BY <1>1, <1>2, <2>1
<1>5. \A i \in 1..(n + 1) : i = n + 1 \/ i \in 1..n
  BY <1>1
<1>6. \A i \in 1..(n + 1) :
        AsUpdate(channel'[i]) = IF i = n + 1 THEN AsUpdate(u) ELSE Updates[i]
  BY <1>1, <1>2, <1>5
<1> QED
  BY <1>3, <1>4, <1>6

(* Taking one from the channel takes one from the mapped channel.          *)
LEMMA ReceiveMapped ==
  ASSUME TypeOK, NEW op, Receive(op)
  PROVE  /\ Updates # << >> /\ Head(Updates) = AsUpdate(Head(channel))
         /\ Updates' = Tail(Updates)
<1> DEFINE n == Len(channel) - 1
<1>1. /\ channel \in Seq(Update) /\ channel # << >> /\ channel' = Tail(channel)
  BY DEF TypeOK, Receive
<1>2. /\ n \in Nat /\ DOMAIN channel = 1..(n + 1) /\ DOMAIN channel' = 1..n
      /\ \A i \in 1..n : channel'[i] = channel[i + 1]
      /\ Head(channel) = channel[1]
  BY <1>1
<1> HIDE DEF n
<1>3. Updates = [i \in 1..(n + 1) |-> AsUpdate(channel[i])]
  BY <1>2 DEF Updates
<1>4. Updates' = [i \in 1..n |-> AsUpdate(channel[i + 1])]
  BY <1>2 DEF Updates
<1>5. Updates \in Seq({AsUpdate(channel[i]) : i \in 1..(n + 1)}) /\ Len(Updates) = n + 1
  BY <1>2, <1>3
<1>6. \A i \in 1..n : i + 1 \in 1..(n + 1)
  BY <1>2
<1>7. Tail(Updates) = [i \in 1..n |-> Updates[i + 1]]
  <2> DEFINE S == {AsUpdate(channel[i]) : i \in 1..(n + 1)}
             t == Tail(Updates)
  <2>1. Updates \in Seq(S) /\ Updates # << >>
    BY <1>2, <1>5
  <2> HIDE DEF S
  <2>2. t \in Seq(S) /\ Len(t) = n /\ \A i \in 1..n : t[i] = Updates[i + 1]
    BY <1>2, <1>5, <2>1
  <2> HIDE DEF t
  <2>3. t = [i \in 1..n |-> t[i]]
    BY <1>2, <2>2
  <2> QED
    BY <2>2, <2>3 DEF t
<1>8. Updates # << >> /\ Head(Updates) = Updates[1]
  BY <1>2, <1>5
<1> QED
  BY <1>2, <1>3, <1>4, <1>6, <1>7, <1>8

(* Steps that the service does not see.                                    *)
LEMMA Stutters ==
  ASSUME UNCHANGED <<channel, entries>>, processor = "dead" <=> processor' = "dead"
  PROVE  UNCHANGED T!servars
  BY DEF T!servars, Updates, Listed, Status

LEMMA InitMapped == Init => T!ServiceInit
<1> SUFFICES ASSUME Init PROVE T!ServiceInit
  OBVIOUS
<1>1. Updates = << >> /\ Listed = {} /\ Status = "up"
  BY DEF Init, Updates, Listed, Status, Empty
<1> QED
  BY <1>1 DEF T!ServiceInit, T!Init

(* Each kind of step, with the step of the service it is.                  *)
LEMMA StepMapped == IInv /\ [Next]_vars => [T!ServiceNext]_T!servars
<1> SUFFICES ASSUME IInv, [Next]_vars PROVE [T!ServiceNext]_T!servars
  OBVIOUS
<1>0. TypeOK
  BY DEF IInv
<1>1. CASE SendNext
  <2>1. PICK c \in Conns : track_call(c) \/ remove_connection(c)
    BY <1>1 DEF SendNext
  <2>2. PICK u : /\ Send(u) /\ u \in Update
                 /\ AsUpdate(u) = [op |-> "add", conn |-> c]
                    \/ AsUpdate(u) = [op |-> "remove", conn |-> c]
    <3>1. CASE track_call(c)
      <4>1. calls + 1 \in Record
        BY <3>1, <1>0, HistoryAssumption DEF track_call, TypeOK, Record
      <4> QED
        BY <3>1, <4>1 DEF track_call, Update, AsUpdate
    <3>2. CASE remove_connection(c)
      BY <3>2 DEF remove_connection, Update, AsUpdate
    <3> QED
      BY <2>1, <3>1, <3>2
  <2>3. /\ Updates' = Append(Updates, AsUpdate(u))
        /\ Listed' = Listed /\ Status = "up" /\ Status' = "up"
    BY <1>0, <2>2, SendMapped DEF Send, Listed, Status
  <2>4. T!Add(c) \/ T!Remove(c)
    BY <2>2, <2>3 DEF T!Add, T!Remove, T!Send
  <2> QED
    BY <2>3, <2>4 DEF T!ServiceNext, T!Serve, T!Up, T!Next
<1>2. CASE ReceiveNext
  <2> DEFINE c == Head(channel).conn
  <2>1. PICK op \in {"add", "remove"} :
          /\ Receive(op)
          /\ op = "add" => DOMAIN entries' = DOMAIN entries \cup {c}
          /\ op = "remove" => DOMAIN entries' = DOMAIN entries \ {c}
    <3>1. CASE ReceiveAdd
      <4>1. Receive("add") /\ DOMAIN entries' = DOMAIN entries \cup {c}
        BY <3>1, PushNewestDomain DEF ReceiveAdd
      <4> QED
        BY <4>1
    <3>2. CASE ReceiveRemove
      <4>1. Receive("remove") /\ DOMAIN entries' = DOMAIN entries \ {c}
        BY <3>2, DropOf DEF ReceiveRemove
      <4> QED
        BY <4>1
    <3> QED
      BY <1>2, <3>1, <3>2 DEF ReceiveNext
  <2>2. c \in Conns /\ Head(channel).op = op
    BY <1>0, <2>1, ReceivedUpdate
  <2>3. c # Legacy
    BY <2>2, HistoryAssumption
  <2>4. /\ Updates # << >> /\ Updates' = Tail(Updates)
        /\ Head(Updates).op = op /\ Head(Updates).conn = c
    <3>1. /\ Updates # << >> /\ Head(Updates) = AsUpdate(Head(channel))
          /\ Updates' = Tail(Updates)
      BY <1>0, <2>1, ReceiveMapped
    <3> QED
      BY <2>2, <3>1 DEF AsUpdate
  <2>5. Status = "up" /\ Status' = "up"
    BY <2>1 DEF Receive, Status
  <2> HIDE DEF c
  <2>6. Listed' = IF op = "add" THEN Listed \cup {c} ELSE Listed \ {c}
    BY <2>1, <2>3 DEF Listed
  <2>7. T!Apply
    BY <2>4, <2>6 DEF T!Apply
  <2> QED
    BY <2>5, <2>7 DEF T!ServiceNext, T!Serve, T!Up, T!Next
<1>3. CASE FlushNext \/ RotateNext
  <2>1. UNCHANGED <<channel, entries>> /\ processor # "dead" /\ processor' # "dead"
    <3>1. CASE FlushNext
      BY <3>1 DEF FlushNext, FlushTick, TakeAll, Open, OpenFails, WriteRecord, EndBatch,
                  TaskStep, memory
    <3>2. CASE RotateNext
      BY <3>2 DEF RotateNext, ReadFile, CreateTemp, FinishCopy, Rename, RotationFails,
                  TaskStep, memory
    <3> QED
      BY <1>3, <3>1, <3>2
  <2> QED
    BY <2>1, Stutters
<1>4. CASE LandNext \/ UNCHANGED vars
  <2>1. UNCHANGED <<channel, entries, processor>>
    BY <1>4 DEF LandNext, WriteLands, WriteFails, EndWrite, vars, memory
  <2> QED
    BY <2>1, Stutters
<1>5. CASE Crash
  <2>1. Updates' = << >> /\ Listed' = {} /\ Status # "down" /\ Status' = "down"
    BY <1>5 DEF Crash, Updates, Listed, Status, Empty
  <2> QED
    BY <2>1 DEF T!ServiceNext, T!Die
<1>6. CASE Restart
  <2>1. Updates' = Updates /\ Status = "down" /\ Status' = "up"
    BY <1>6 DEF Restart, RestartOn, Updates, Status
  <2>2. Listed' = {}
    BY <1>6 DEF Restart, RestartOn, Listed, load_from_disk, Empty
  <2> QED
    BY <2>1, <2>2 DEF T!ServiceNext, T!Revive
<1> QED
  BY <1>1, <1>2, <1>3, <1>4, <1>5, <1>6 DEF Next

(* Every behaviour of the tool history is one of a tracker: each step maps *)
(* to a step of TrackerService or to a stutter. (Its fairness is left to   *)
(* TLC.)                                                                   *)
THEOREM ImplementsService == Spec => T!ServiceInit /\ [][T!ServiceNext]_T!servars
  BY InitMapped, StepMapped, Invariance, PTL DEF Spec

-----------------------------------------------------------------------------
(* Pages.  The window of a page, from and to the records of the filter.    *)
LEMMA FilteredIs ==
  ASSUME NEW s \in Seq(Record), NEW wanted
  PROVE  /\ P!filtered(s, wanted) \in Seq(Record)
         /\ Len(P!filtered(s, wanted)) <= Len(s)
<1>1. P!filtered(s, wanted) = L!Filter(s, wanted)
  BY DEF P!filtered, P!Filter, L!Filter
<1>2. /\ L!Filter(s, wanted) \in Seq(Record \cap wanted)
      /\ Len(L!Filter(s, wanted)) <= Len(s)
  BY L!FilterTyped
<1>3. L!Filter(s, wanted) \in Seq(Record)
  BY <1>2
<1> QED
  BY <1>1, <1>2, <1>3

(* What follows a part of a sequence joins it.                             *)
LEMMA PartsJoin ==
  ASSUME NEW s \in Seq(Record), NEW a \in 0..Len(s), NEW b \in a..Len(s)
  PROVE  SubSeq(s, a + 1, b) \o SubSeq(s, b + 1, Len(s)) = SubSeq(s, a + 1, Len(s))
<1> DEFINE n == Len(s)
           x == SubSeq(s, a + 1, b)
           y == SubSeq(s, b + 1, n)
           z == SubSeq(s, a + 1, n)
<1>0. a \in Nat /\ b \in Nat /\ n \in Nat /\ a <= b /\ b <= n
  OBVIOUS
<1>1. x \in Seq(Record) /\ Len(x) = b - a /\ \A i \in 1..(b - a) : x[i] = s[a + i]
  BY <1>0
<1>2. y \in Seq(Record) /\ Len(y) = n - b /\ \A i \in 1..(n - b) : y[i] = s[b + i]
  BY <1>0
<1>3. z \in Seq(Record) /\ Len(z) = n - a /\ \A i \in 1..(n - a) : z[i] = s[a + i]
  BY <1>0
<1> DEFINE u == x \o y
<1> HIDE DEF n, x, y, z
<1>4. /\ u \in Seq(Record) /\ Len(u) = n - a
      /\ \A i \in 1..(n - a) : u[i] = IF i <= b - a THEN x[i] ELSE y[i - (b - a)]
  <2>1. x \in Seq(Record) /\ y \in Seq(Record)
    BY <1>1, <1>2
  <2>2. /\ u \in Seq(Record) /\ Len(u) = Len(x) + Len(y)
        /\ \A i \in 1..(Len(x) + Len(y)) :
             u[i] = IF i <= Len(x) THEN x[i] ELSE y[i - Len(x)]
    BY <2>1
  <2>3. Len(x) + Len(y) = n - a /\ Len(x) = b - a
    BY <1>0, <1>1, <1>2
  <2> QED
    BY <2>2, <2>3
<1> HIDE DEF u
<1>5. ASSUME NEW i \in 1..(n - a) PROVE u[i] = z[i]
  <2>1. CASE i <= b - a
    <3>1. i \in 1..(b - a)
      BY <1>0, <2>1
    <3> QED
      BY <1>1, <1>3, <1>4, <2>1, <3>1
  <2>2. CASE ~(i <= b - a)
    <3>1. i - (b - a) \in 1..(n - b) /\ b + (i - (b - a)) = a + i
      BY <1>0, <2>2
    <3> QED
      BY <1>2, <1>3, <1>4, <2>2, <3>1
  <2> QED
    BY <2>1, <2>2
<1>6. u = z
  BY <1>3, <1>4, <1>5
<1> QED
  BY <1>6 DEF u, x, y, z, n

(* A page is a window of the records that pass the filter.                 *)
LEMMA PageOf ==
  ASSUME NEW s, NEW wanted, NEW m, NEW o
  PROVE  P!Page(s, wanted, m, o) =
           SubSeq(P!filtered(s, wanted), P!start(Len(P!filtered(s, wanted)), o) + 1,
                  P!end(Len(P!filtered(s, wanted)), o, m))
  BY DEF P!Page

(* From an offset that is not negative the window goes to the limit.       *)
LEMMA WindowFrom ==
  ASSUME NEW n \in Nat, NEW o \in Nat, NEW m \in 1..MAX_HISTORY_ENTRIES
  PROVE  /\ P!start(n, o) = P!AtMost(o, n)
         /\ P!end(n, o, m) = P!AtMost(P!AtMost(o, n) + m, n)
<1>1. MAX_HISTORY_ENTRIES \in Nat /\ ~(o < 0)
  BY HistoryAssumption
<1> QED
  BY <1>1 DEF P!start, P!end, P!AtMost, P!OrZero

(* To a negative one belong the newest.                                    *)
LEMMA WindowBack ==
  ASSUME NEW n \in Nat, NEW o \in P!MinInt..-1
  PROVE  /\ P!end(n, o, 0) = n
         /\ P!start(n, o) = IF o = P!MinInt THEN n ELSE n - P!AtMost(-o, n)
<1>1. OffsetLimit \in Nat \ {0} /\ P!MinInt = -OffsetLimit
  BY HistoryAssumption DEF P!MinInt
<1>2. o \in Int /\ o < 0 /\ -o \in Nat /\ P!MinInt < 0
  BY <1>1
<1>3. P!end(n, o, 0) = n
  BY <1>2 DEF P!end
<1>4. P!OrZero(P!Negated(o)) = IF o = P!MinInt THEN 0 ELSE -o
  BY <1>1, <1>2 DEF P!OrZero, P!Negated
<1>5. P!start(n, o) = n - P!AtMost(P!OrZero(P!Negated(o)), n)
  BY <1>2 DEF P!start
<1>6. P!AtMost(0, n) = 0
  BY DEF P!AtMost
<1> QED
  BY <1>3, <1>4, <1>5, <1>6

(* The newest k of the filtered records, from the definition of a window.  *)
LEMMA TailOfCache ==
  ASSUME TypeOK, NEW c \in Conns \cup {Legacy}, NEW wanted
  PROVE  TailIs(c, wanted)
<1> DEFINE s == Of(entries, c)
           all == P!filtered(s, wanted)
           n == Len(all)
<1>1. s \in Seq(Record)
  <2>1. << >> \in Seq(Record)
    OBVIOUS
  <2> QED
    BY <2>1 DEF Of, TypeOK, Table
<1> HIDE DEF s
<1>2. all \in Seq(Record)
  BY <1>1, FilteredIs
<1>3. \A o : get_recent_calls(c, wanted, 0, o)
               = SubSeq(all, P!start(n, o) + 1, P!end(n, o, 0))
  BY PageOf DEF get_recent_calls, s
<1> HIDE DEF all
<1>4. n \in Nat
  BY <1>2
<1>5. ASSUME NEW o \in (P!MinInt + 1)..-1
      PROVE  get_recent_calls(c, wanted, 0, o) = LastN(all, -o)
  <2>0. o \in P!MinInt..-1 /\ o # P!MinInt
    BY HistoryAssumption DEF P!MinInt
  <2>1. P!end(n, o, 0) = n /\ P!start(n, o) = n - P!AtMost(-o, n)
    BY <1>4, <2>0, WindowBack
  <2> DEFINE k == -o
  <2>2. k \in Nat
    BY HistoryAssumption DEF P!MinInt
  <2> HIDE DEF k
  <2>3. CASE n > k
    <3>1. P!AtMost(k, n) = k
      BY <1>4, <2>2, <2>3 DEF P!AtMost
    <3> QED
      BY <1>3, <2>1, <2>3, <3>1 DEF LastN, k
  <2>4. CASE ~(n > k)
    <3>1. P!AtMost(k, n) = n /\ n - n = 0 /\ 0 + 1 = 1
      BY <1>4, <2>2, <2>4 DEF P!AtMost
    <3>2. SubSeq(all, 1, n) = all
      BY <1>2
    <3> QED
      BY <1>3, <2>1, <2>4, <3>1, <3>2 DEF LastN, k
  <2> QED
    BY <2>3, <2>4
<1> QED
  BY <1>5 DEF TailIs, all, s

(* The smallest offset gets an empty page of any cache, in a build that    *)
(* wraps: it asks for more records than any other and gets none.           *)
THEOREM SmallestOffsetGetsNothing ==
  ASSUME NEW s \in Seq(Record), NEW wanted, NEW m \in Nat
  PROVE  P!Page(s, wanted, m, P!MinInt) = << >>
<1> DEFINE all == P!filtered(s, wanted)
           n == Len(all)
<1>1. all \in Seq(Record)
  BY FilteredIs
<1>2. P!Page(s, wanted, m, P!MinInt)
        = SubSeq(all, P!start(n, P!MinInt) + 1, P!end(n, P!MinInt, m))
  BY PageOf
<1> HIDE DEF all
<1>3. n \in Nat /\ P!MinInt \in P!MinInt..-1 /\ P!MinInt < 0
  BY <1>1, HistoryAssumption DEF P!MinInt
<1>4. P!start(n, P!MinInt) = n
  BY <1>3, WindowBack
<1>5. P!end(n, P!MinInt, m) = n
  BY <1>3 DEF P!end
<1>6. SubSeq(all, n + 1, n) = << >>
  BY <1>1
<1> QED
  BY <1>2, <1>4, <1>5, <1>6

(* Two adjacent windows make one.                                          *)
LEMMA PagesOfCache ==
  ASSUME TypeOK, NEW c \in Conns \cup {Legacy}, NEW wanted
  PROVE  PagesJoin(c, wanted)
<1> DEFINE s == Of(entries, c)
           all == P!filtered(s, wanted)
           n == Len(all)
           MAX == MAX_HISTORY_ENTRIES
           From(o, m) == get_recent_calls(c, wanted, m, o)
<1>0. MAX \in Nat \ {0} /\ OffsetLimit \in Nat \ {0}
  BY HistoryAssumption
<1>1. s \in Seq(Record) /\ Len(s) <= MAX
  <2>1. << >> \in Seq(Record) /\ Len(<< >>) = 0
    OBVIOUS
  <2> QED
    BY <1>0, <2>1 DEF Of, TypeOK, Table
<1> HIDE DEF s
<1>2. all \in Seq(Record) /\ n <= MAX
  <2>1. all \in Seq(Record) /\ n <= Len(s)
    BY <1>1, FilteredIs
  <2>2. n \in Nat /\ Len(s) \in Nat
    BY <1>1, <2>1
  <2> QED
    BY <1>0, <1>1, <2>1, <2>2
<1>3. \A o, m : From(o, m) = SubSeq(all, P!start(n, o) + 1, P!end(n, o, m))
  BY PageOf DEF get_recent_calls, s
<1> HIDE DEF all, From
<1>4. n \in Nat
  BY <1>2
<1> HIDE DEF n
<1>5. ASSUME NEW o \in Nat, NEW m \in 1..MAX
      PROVE  From(o, m) = SubSeq(all, P!AtMost(o, n) + 1, P!AtMost(P!AtMost(o, n) + m, n))
  BY <1>3, <1>4, WindowFrom
<1>6. \A o \in Nat : /\ P!AtMost(o, n) \in 0..n
                     /\ P!AtMost(P!AtMost(o, n) + MAX, n) = n
  BY <1>0, <1>2, <1>4 DEF P!AtMost, n
<1>7. ASSUME NEW o \in Nat
      PROVE  From(o, MAX) = SubSeq(all, P!AtMost(o, n) + 1, n)
  BY <1>0, <1>5, <1>6
<1>8. From(0, MAX) = all
  <2>1. P!AtMost(0, n) + 1 = 1
    BY <1>4 DEF P!AtMost
  <2>2. SubSeq(all, 1, n) = all
    BY <1>2 DEF n
  <2> QED
    BY <1>7, <2>1, <2>2
<1>9. ASSUME NEW m \in 1..MAX, NEW o \in 0..(P!MaxInt - MAX)
      PROVE  From(o, m) \o From(o + m, MAX) = From(o, MAX)
  <2> DEFINE a == P!AtMost(o, n)
             b == P!AtMost(o + m, n)
  <2>1. o \in Nat /\ m \in Nat /\ o + m \in Nat
    BY <1>0 DEF P!MaxInt
  <2>2. a \in 0..n /\ b \in a..n /\ P!AtMost(a + m, n) = b
    BY <1>4, <2>1 DEF P!AtMost
  <2> HIDE DEF a, b
  <2>3. From(o, m) = SubSeq(all, a + 1, b)
    BY <1>5, <2>1, <2>2 DEF a
  <2>4. From(o + m, MAX) = SubSeq(all, b + 1, n)
    BY <1>7, <2>1 DEF b
  <2>5. From(o, MAX) = SubSeq(all, a + 1, n)
    BY <1>7, <2>1 DEF a
  <2>6. SubSeq(all, a + 1, b) \o SubSeq(all, b + 1, n) = SubSeq(all, a + 1, n)
    BY <1>2, <2>2, PartsJoin DEF n
  <2> QED
    BY <2>3, <2>4, <2>5, <2>6
<1> QED
  BY <1>8, <1>9 DEF PagesJoin, From, all, s

(* Of every cache, whichever of its records a caller wants.                *)
AllPages ==
  \A c \in Conns \cup {Legacy} : \A wanted :
    TailIs(c, wanted) /\ PagesJoin(c, wanted)

LEMMA CachePages == TypeOK => AllPages
  BY TailOfCache, PagesOfCache DEF AllPages

(* In every state, so after every change of a cache, and for any filter:   *)
(* negative offsets give the newest records, and pages join.               *)
THEOREM EveryPage == Spec => []AllPages /\ PagesAreWindows
<1>1. AllPages' => [\A c \in Conns \cup {Legacy} :
                      Of(entries', c) # Of(entries, c) => PagesOf(c)']_vars
  BY DEF AllPages, PagesOf
<1>2. IInv => TypeOK
  BY DEF IInv
<1>3. Spec => []AllPages
  BY <1>2, CachePages, Invariance, PTL
<1>4. []AllPages => [][AllPages']_vars
  BY PTL
<1> QED
  BY <1>1, <1>3, <1>4, PTL DEF PagesAreWindows
=============================================================================
