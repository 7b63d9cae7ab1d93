---------------------------- MODULE MCLabelStore ----------------------------
(* LabelStore for TLC: clips whose names differ by more than their suffix,   *)
(* unlike a camera's .MP4 beside its .LRF preview (see OneFilePerClip).      *)
EXTENDS LabelStore, TLC

OwnStem == [c \in Clips |-> c]

\* Sound with OwnStem, which no permutation of the clips changes.
Symmetry == Permutations(Requests) \cup Permutations(Clips)
=============================================================================
