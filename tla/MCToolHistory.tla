--------------------------- MODULE MCToolHistory ----------------------------
(* ToolHistory with limits of one or two; the bounds are constants.        *)
EXTENDS ToolHistory
=============================================================================
