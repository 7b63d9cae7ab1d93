---------------------------- MODULE EdgeTrigger ----------------------------
(***************************************************************************)
(* The edge agent's side of an upload, whichever transport is configured:  *)
(* POST /trigger (handleTrigger) freezes the buffered window and           *)
(* uploadWithRetry pushes the encoded bytes through an Uploader            *)
(* (edge-agent/cmd/main.go).  A transport module starts the attempts and   *)
(* says which of the three outcomes below each one has.                    *)
(***************************************************************************)
EXTENDS MediaIngest

NoStatus == 0

VARIABLES
  ring,       \* the window now in the ring buffer
  pc,         \* pc[t]: handleTrigger's progress
  clip,       \* clip[t]: the window it froze
  attempt,    \* attempt[t]: the loop variable of uploadWithRetry
  answer      \* answer[t]: the HTTP status /trigger answered with

edgeVars == <<ring, pc, clip, attempt, answer>>

EdgeInit ==
  /\ ring = NoWindow
  /\ pc = [t \in Triggers |-> "idle"]
  /\ clip = [t \in Triggers |-> NoWindow]
  /\ attempt = [t \in Triggers |-> 0]
  /\ answer = [t \in Triggers |-> NoStatus]

\* captureLoop keeps the window rolling while uploads are in progress.
Capture ==
  /\ ring < MaxWindow
  /\ ring' = ring + 1
  /\ UNCHANGED <<pc, clip, attempt, answer>>

\* handleTrigger up to its call of uploadWithRetry.
Trigger(t) ==
  /\ pc[t] = "idle"
  /\ \/ /\ ring = NoWindow
        /\ pc' = [pc EXCEPT ![t] = "done"]
        /\ answer' = [answer EXCEPT ![t] = 503]
        /\ UNCHANGED clip
     \/ /\ ring # NoWindow
        /\ pc' = [pc EXCEPT ![t] = "send"]
        /\ clip' = [clip EXCEPT ![t] = ring]
        /\ UNCHANGED answer
  /\ UNCHANGED <<ring, attempt>>

\* The attempt trigger t is making, or made last.
Current(t) == <<t, attempt[t]>>

\* uploadWithRetry calls Upload once more; before a retry the agent has been
\* in "send" for the backoff.
BeginAttempt(t) ==
  /\ pc[t] = "send"
  /\ pc' = [pc EXCEPT ![t] = "wait"]
  /\ attempt' = [attempt EXCEPT ![t] = @ + 1]
  /\ UNCHANGED <<ring, clip, answer>>

Finish(t, code) ==
  /\ pc' = [pc EXCEPT ![t] = "done"]
  /\ answer' = [answer EXCEPT ![t] = code]
  /\ UNCHANGED <<ring, clip, attempt>>

\* Upload returned a clip id.
UploadSucceeded(t) == pc[t] = "wait" /\ Finish(t, 200)

\* Upload returned a RejectedError: not retried, and only a 4xx is passed on.
UploadRejected(t, code) ==
  pc[t] = "wait" /\ Finish(t, IF code \in 400..499 THEN code ELSE 502)

\* Mutation: the loop condition allows one attempt too many.
RetryOnceTooOften(t) ==
  /\ pc[t] = "wait"
  /\ IF attempt[t] <= MaxUploadAttempts
     THEN pc' = [pc EXCEPT ![t] = "send"] /\ UNCHANGED <<ring, clip, attempt, answer>>
     ELSE Finish(t, 502)

\* Upload returned any other error: retry until the attempts are used up.
UploadFailed(t) ==
  /\ pc[t] = "wait"
  /\ IF attempt[t] < MaxUploadAttempts
     THEN pc' = [pc EXCEPT ![t] = "send"] /\ UNCHANGED <<ring, clip, attempt, answer>>
     ELSE Finish(t, 502)

\* The agent restarts: it loses the ring and the triggers it was serving, and
\* the operator's connections break without an answer.
ResetEdge ==
  /\ ring' = NoWindow
  /\ pc' = [t \in Triggers |-> IF pc[t] = "idle" THEN "idle" ELSE "done"]
  /\ UNCHANGED <<clip, attempt, answer>>

-----------------------------------------------------------------------------
EdgeTypeOK ==
  /\ ring \in Contents
  /\ pc \in [Triggers -> {"idle", "send", "wait", "done"}]
  /\ clip \in [Triggers -> Contents]
  /\ attempt \in [Triggers -> 0..MaxUploadAttempts]
  /\ answer \in [Triggers -> {NoStatus, 200, 503} \cup (400..499) \cup {502}]

\* However often the ring has moved on, and whichever attempt got through, the
\* object a trigger left holds the window that trigger froze: a retry resends
\* what was triggered.
ObjectIsFrozenWindow ==
  \A t \in Triggers, n \in Attempts :
    objects[<<t, n>>] # NoWindow => objects[<<t, n>>] = clip[t]

\* A trigger answered 200 handed out the id of a clip that was recorded, and
\* the gateway still serves it unless something has been restarted.
AnsweredClipWasRecorded ==
  \A t \in Triggers :
    answer[t] = 200 =>
      /\ Current(t) \in Requests
      /\ clip[t] # NoWindow
      /\ ledger[Current(t)] = clip[t]
      /\ restarts = 0 => clips[Current(t)] = clip[t]

\* A trigger that was fired is answered (or its process restarted).
EveryTriggerAnswered ==
  \A t \in Triggers : pc[t] \in {"send", "wait"} ~> pc[t] = "done"

-----------------------------------------------------------------------------
(* Refinement: the upload path implements the delivery contract. *)

Told(t) ==
  IF pc[t] # "done" THEN "pending"
  ELSE IF answer[t] = 200 THEN "confirmed" ELSE "failed"

Delivery == INSTANCE ClipDelivery WITH
  window    <- clip,
  recorded  <- ledger,
  available <- {r \in Requests : clips[r] # NoWindow},
  answer    <- [t \in Triggers |-> Told(t)],
  reported  <- [t \in Triggers |-> IF answer[t] = 200 THEN attempt[t] ELSE 0]

\* Retries, lost replies, timeouts and restarts never break the at-least-once
\* contract of the Uploader interface.
ImplementsDelivery == Delivery!Spec
=============================================================================
