------------------------------- MODULE Filter --------------------------------
(***************************************************************************)
(* The elements of a sequence that are wanted, in their order.  This is    *)
(* SelectSeq with a set for a test, as a recursive function that a proof   *)
(* can expand.                                                             *)
(***************************************************************************)
EXTENDS Integers, Sequences

Filter(s, wanted) ==
  LET kept[i \in 0..Len(s)] ==
        IF i = 0 THEN << >>
        ELSE IF s[i] \in wanted THEN Append(kept[i - 1], s[i])
        ELSE kept[i - 1]
  IN kept[Len(s)]
=============================================================================
