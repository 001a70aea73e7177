--------------------------- MODULE MCSlateCredit ----------------------------
(***************************************************************************)
(* A group of six samples with scores 0, 1/2 and 1, under the settings of  *)
(* the hybrid_slate profile but for the clip: its 1/2 is out of reach of   *)
(* groups that small.                                                      *)
(***************************************************************************)
EXTENDS SlateCredit

Half == [num |-> 1, den |-> 2]
Third == [num |-> 1, den |-> 3]
FourReads == {{}, {"oracle"}, {"oracle", "misleading"}, {"relevant"}}
=============================================================================
