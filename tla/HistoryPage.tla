---------------------------- MODULE HistoryPage -----------------------------
(***************************************************************************)
(* get_recent_calls_for_connection (src/src/tool_history.rs): which of the *)
(* cached records of a connection a caller gets for an offset and a limit. *)
(*                                                                         *)
(* offset is an i64.  The filters by name and by time are a set of the     *)
(* records wanted.                                                         *)
(***************************************************************************)
EXTENDS Integers, Sequences, Filter

CONSTANTS
  OffsetLimit,          \* half the range of the offset: 2^63
  MAX_HISTORY_ENTRIES   \* the most records a page may hold

MinInt == -OffsetLimit
MaxInt == OffsetLimit - 1
Offset == MinInt..MaxInt

AtMost(a, b) == IF a <= b THEN a ELSE b

(* -offset in a release build, where the smallest integer is its own       *)
(* negation.  A build with overflow checks panics on it instead, so that   *)
(* in no build the smallest offset gets the tail it asks for.              *)
Negated(n) == IF n = MinInt THEN MinInt ELSE -n

(* usize::try_from(n).unwrap_or(0)                                         *)
OrZero(n) == IF n < 0 THEN 0 ELSE n

(* The ends of the window, with indices from 0 as in the code.             *)
start(total, offset) ==
  IF offset < 0 THEN total - AtMost(OrZero(Negated(offset)), total)
                ELSE AtMost(OrZero(offset), total)

end_FromZero(total, offset, max_results) ==
  IF offset < 0 THEN total ELSE AtMost(AtMost(max_results, MAX_HISTORY_ENTRIES), total)

end(total, offset, max_results) ==
  IF offset < 0 THEN total
  ELSE AtMost(start(total, offset) + AtMost(max_results, MAX_HISTORY_ENTRIES), total)

filtered(entries, wanted) == Filter(entries, wanted)

Page(entries, wanted, max_results, offset) ==
  LET all == filtered(entries, wanted) IN
    SubSeq(all, start(Len(all), offset) + 1, end(Len(all), offset, max_results))
=============================================================================
