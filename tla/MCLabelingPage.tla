--------------------------- MODULE MCLabelingPage ---------------------------
(* LabelingPage for TLC: clips whose names differ by more than their suffix. *)
EXTENDS LabelingPage

OwnStem == [c \in Clips |-> c]
=============================================================================
