---------------------------- MODULE ClipDelivery ----------------------------
(***************************************************************************)
(* What the edge agent's Uploader contract promises the operator who fires *)
(* a trigger, whichever transport carries the bytes                        *)
(* (edge-agent/cmd/main.go, "Uploader"):                                   *)
(*                                                                         *)
(*   - delivery is at least once: one trigger may leave several clips, at  *)
(*     most one per attempt, and one the operator was told had failed may  *)
(*     still have left a clip, now or later;                               *)
(*   - every clip left holds exactly the window frozen by the trigger;     *)
(*   - a clip id is reported only for a clip that was recorded;            *)
(*   - what was recorded can become unavailable (the gateway keeps its     *)
(*     metadata in memory) but never changes.                              *)
(***************************************************************************)
EXTENDS Naturals

CONSTANTS Triggers,           \* the triggers fired at the edge agent
          MaxUploadAttempts,  \* attempts per trigger
          MaxWindow           \* windows are the numbers 1..MaxWindow

NoWindow == 0
Windows  == 1..MaxWindow
Slots    == Triggers \X (1..MaxUploadAttempts)

VARIABLES
  window,     \* window[t]: the window trigger t froze, or NoWindow
  recorded,   \* recorded[s]: the content recorded for attempt s, or NoWindow
  available,  \* the recorded clips the gateway can still serve
  answer,     \* answer[t]: what the operator has been told
  reported    \* reported[t]: the attempt whose clip id the operator was given

vars == <<window, recorded, available, answer, reported>>

Init ==
  /\ window = [t \in Triggers |-> NoWindow]
  /\ recorded = [s \in Slots |-> NoWindow]
  /\ available = {}
  /\ answer = [t \in Triggers |-> "pending"]
  /\ reported = [t \in Triggers |-> 0]

\* The trigger freezes the window that is buffered at that moment.
Freeze(t) ==
  /\ window[t] = NoWindow
  /\ answer[t] = "pending"
  /\ \E w \in Windows : window' = [window EXCEPT ![t] = w]
  /\ UNCHANGED <<recorded, available, answer, reported>>

\* An attempt leaves its clip; the operator may have given up long before.
Record(t, n) ==
  /\ window[t] # NoWindow
  /\ recorded[<<t, n>>] = NoWindow
  /\ recorded' = [recorded EXCEPT ![<<t, n>>] = window[t]]
  /\ available' = available \cup {<<t, n>>}
  /\ UNCHANGED <<window, answer, reported>>

Confirm(t, n) ==
  /\ answer[t] = "pending"
  /\ recorded[<<t, n>>] # NoWindow
  /\ answer' = [answer EXCEPT ![t] = "confirmed"]
  /\ reported' = [reported EXCEPT ![t] = n]
  /\ UNCHANGED <<window, recorded, available>>

\* A crash of the agent gives up every trigger it was serving at once.
GiveUp(gone) ==
  /\ \A t \in gone : answer[t] = "pending"
  /\ answer' = [t \in Triggers |-> IF t \in gone THEN "failed" ELSE answer[t]]
  /\ UNCHANGED <<window, recorded, available, reported>>

Forget ==
  /\ available' \in SUBSET available
  /\ UNCHANGED <<window, recorded, answer, reported>>

Next ==
  \/ \E t \in Triggers : Freeze(t)
  \/ \E gone \in SUBSET Triggers : GiveUp(gone)
  \/ \E t \in Triggers, n \in 1..MaxUploadAttempts : Record(t, n) \/ Confirm(t, n)
  \/ Forget

Spec == Init /\ [][Next]_vars

-----------------------------------------------------------------------------
TypeOK ==
  /\ window \in [Triggers -> Windows \cup {NoWindow}]
  /\ recorded \in [Slots -> Windows \cup {NoWindow}]
  /\ available \in SUBSET Slots
  /\ answer \in [Triggers -> {"pending", "confirmed", "failed"}]
  /\ reported \in [Triggers -> {0} \cup (1..MaxUploadAttempts)]

\* Every clip ever recorded holds the window its trigger froze.
RecordedIsFrozen ==
  \A t \in Triggers, n \in 1..MaxUploadAttempts :
    recorded[<<t, n>>] # NoWindow => recorded[<<t, n>>] = window[t]

\* An operator who holds a clip id holds the id of a clip of that trigger
\* that was recorded with the frozen window.
ConfirmedIsRecorded ==
  \A t \in Triggers :
    answer[t] = "confirmed" =>
      /\ reported[t] \in 1..MaxUploadAttempts
      /\ window[t] # NoWindow
      /\ recorded[<<t, reported[t]>>] = window[t]
=============================================================================
