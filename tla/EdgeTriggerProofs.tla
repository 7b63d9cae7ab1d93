-------------------------- MODULE EdgeTriggerProofs --------------------------
(***************************************************************************)
(* What both transports share, proved once: what the retry loop of the     *)
(* edge agent keeps, what a step of UploadClip leaves of the request it    *)
(* serves, which steps of theirs the delivery contract sees, and what that *)
(* contract is worth.  ClipUploadProofs and WebRTCUploadProofs build on    *)
(* it.                                                                     *)
(***************************************************************************)
EXTENDS EdgeTrigger, TLAPS

-----------------------------------------------------------------------------
(* The edge agent: uploadWithRetry and handleTrigger.                        *)

\* The loop of uploadWithRetry: a trigger that will send again has an attempt
\* left, and one that waits has made one.
AttemptInv ==
  \A t \in Triggers :
    /\ pc[t] = "idle" => attempt[t] = 0
    /\ pc[t] = "send" => attempt[t] < MaxUploadAttempts
    /\ pc[t] = "wait" => attempt[t] >= 1

\* A trigger has its window from the moment it is fired, and not before, and is
\* answered when it is over.
Frozen(t) ==
  /\ pc[t] = "idle" => clip[t] = NoWindow
  /\ attempt[t] >= 1 \/ pc[t] \in {"send", "wait"} => clip[t] # NoWindow
  /\ pc[t] # "done" => answer[t] = NoStatus

EdgeInv == EdgeTypeOK /\ AttemptInv /\ (\A t \in Triggers : Frozen(t))

\* The statuses with which an attempt can end a trigger.
Codes == {200, 502} \cup (400..499)

LEMMA EdgeInitInv == EdgeInit => EdgeInv
  BY UploadConstants
  DEF UploadConstants, EdgeInit, EdgeInv, EdgeTypeOK, AttemptInv, Frozen, Contents, NoWindow, NoStatus

LEMMA CaptureInv == ASSUME EdgeInv, Capture PROVE EdgeInv'
  BY UploadConstants
  DEF UploadConstants, Capture, EdgeInv, EdgeTypeOK, AttemptInv, Frozen, Contents, Windows, NoWindow

LEMMA TriggerEdgeInv == ASSUME EdgeInv, NEW t \in Triggers, Trigger(t) PROVE EdgeInv'
  <1>1. EdgeTypeOK'
    BY DEF Trigger, EdgeInv, EdgeTypeOK
  <1>2. AttemptInv'
    BY UploadConstants DEF UploadConstants, Trigger, EdgeInv, EdgeTypeOK, AttemptInv
  <1>3. ASSUME NEW u \in Triggers PROVE Frozen(u)'
    BY <1>3 DEF Trigger, EdgeInv, EdgeTypeOK, AttemptInv, Frozen, NoStatus
  <1> QED BY <1>1, <1>2, <1>3 DEF EdgeInv

\* The next attempt is one of the attempts there are.
LEMMA BeginAttemptInv ==
  ASSUME EdgeInv, NEW t \in Triggers, BeginAttempt(t)
  PROVE  EdgeInv' /\ attempt'[t] = attempt[t] + 1 /\ attempt'[t] \in Attempts
  <1>1. EdgeTypeOK' /\ AttemptInv' /\ attempt'[t] = attempt[t] + 1 /\ attempt'[t] \in Attempts
    BY UploadConstants
    DEF UploadConstants, BeginAttempt, EdgeInv, EdgeTypeOK, AttemptInv, Attempts
  <1>2. ASSUME NEW u \in Triggers PROVE Frozen(u)'
    BY <1>2 DEF BeginAttempt, EdgeInv, EdgeTypeOK, Frozen
  <1> QED BY <1>1, <1>2 DEF EdgeInv

LEMMA FinishInv ==
  ASSUME EdgeInv, NEW t \in Triggers, NEW code \in Codes, pc[t] = "wait", Finish(t, code)
  PROVE  EdgeInv'
  <1>1. EdgeTypeOK' /\ AttemptInv'
    BY DEF Codes, Finish, EdgeInv, EdgeTypeOK, AttemptInv
  <1>2. ASSUME NEW u \in Triggers PROVE Frozen(u)'
    BY <1>2 DEF Finish, EdgeInv, EdgeTypeOK, Frozen
  <1> QED BY <1>1, <1>2 DEF EdgeInv

\* Upload returned an error that is not a rejection: the trigger sends again, or
\* this was its last attempt.
LEMMA UploadFailedInv == ASSUME EdgeInv, NEW t \in Triggers, UploadFailed(t) PROVE EdgeInv'
  <1>1. CASE Finish(t, 502)
    BY <1>1, FinishInv DEF UploadFailed, Codes
  <1>2. CASE attempt[t] < MaxUploadAttempts /\ pc' = [pc EXCEPT ![t] = "send"]
             /\ UNCHANGED <<ring, clip, attempt, answer>>
    BY <1>2 DEF UploadFailed, EdgeInv, EdgeTypeOK, AttemptInv, Frozen
  <1> QED BY <1>1, <1>2 DEF UploadFailed

LEMMA ResetEdgeInv == ASSUME EdgeInv, ResetEdge PROVE EdgeInv'
  BY DEF ResetEdge, EdgeInv, EdgeTypeOK, AttemptInv, Frozen, Contents

LEMMA EdgeUnchanged == EdgeInv /\ UNCHANGED edgeVars => EdgeInv'
  BY DEF EdgeInv, EdgeTypeOK, AttemptInv, Frozen, edgeVars

LEMMA RequestParts ==
  ASSUME NEW r \in Requests
  PROVE  r[1] \in Triggers /\ r[2] \in Attempts /\ r[2] \in Nat /\ r[2] >= 1
         /\ r = <<r[1], r[2]>>
  BY UploadConstants DEF UploadConstants, Requests, Attempts

LEMMA CurrentIsRequest ==
  ASSUME EdgeInv, NEW t \in Triggers, attempt[t] >= 1
  PROVE  Current(t) \in Requests /\ attempt[t] \in Attempts
  <1>1. attempt[t] \in 0..MaxUploadAttempts
    BY DEF EdgeInv, EdgeTypeOK
  <1>2. attempt[t] \in Attempts
    BY <1>1, UploadConstants DEF UploadConstants, Attempts
  <1> QED BY <1>2 DEF Current, Requests

-----------------------------------------------------------------------------
(* The gateway: UploadClip and its stores.                                   *)

LEMMA IngestInitTypes == IngestInit => IngestTypeOK
  <1> SUFFICES ASSUME IngestInit PROVE IngestTypeOK
    OBVIOUS
  <1>1. /\ call \in [Requests -> {"none"} \cup Running \cup Results]
        /\ body \in [Requests -> Contents]
        /\ objects \in [Requests -> Contents]
        /\ clips \in [Requests -> Contents]
        /\ ledger \in [Requests -> Contents]
    BY DEF IngestInit, Contents
  <1>2. /\ store \in {"memory", "s3"} /\ caller \in Callers
        /\ restarts \in 0..MaxRestarts
    BY UploadConstants DEF UploadConstants, IngestInit
  <1>3. /\ tokenLive \in BOOLEAN /\ registered \in BOOLEAN
        /\ wasRegistered \in BOOLEAN
    BY DEF IngestInit
  <1> QED BY <1>1, <1>2, <1>3, Zenon DEF IngestTypeOK

LEMMA IngestUnchanged == IngestTypeOK /\ UNCHANGED ingestVars => IngestTypeOK'
  BY Zenon DEF IngestTypeOK, ingestVars, dataVars, worldVars

\* One step of the service call keeps the types of what it writes.
LEMMA UploadClipTypes ==
  ASSUME IngestTypeOK, NEW r \in Requests, UploadClip(r), UNCHANGED <<body, worldVars>>
  PROVE  IngestTypeOK'
  <1>1. /\ call' \in [Requests -> {"none"} \cup Running \cup Results]
        /\ objects' \in [Requests -> Contents]
        /\ clips' \in [Requests -> Contents]
        /\ ledger' \in [Requests -> Contents]
    <2>1. CASE Authorize(r)
      BY <2>1 DEF Authorize, IngestTypeOK, dataVars, Running, Results, Errors
    <2>2. CASE CheckCamera(r)
      BY <2>2 DEF CheckCamera, IngestTypeOK, dataVars, Running, Results, Errors
    <2>3. CASE ReadBody(r)
      BY <2>3 DEF ReadBody, IngestTypeOK, dataVars, Running, Results, Errors
    <2>4. CASE PutObject(r)
      BY <2>4 DEF PutObject, IngestTypeOK, dataVars, Running, Results, Errors
    <2>5. CASE RecordClip(r)
      BY <2>5 DEF RecordClip, IngestTypeOK, dataVars, Running, Results, Errors
    <2> QED BY <2>1, <2>2, <2>3, <2>4, <2>5 DEF UploadClip
  <1> QED BY <1>1, Zenon DEF IngestTypeOK, worldVars

LEMMA CountRestartTypes ==
  restarts \in 0..MaxRestarts /\ CountRestart => restarts' \in 0..MaxRestarts /\ restarts' # 0
  BY UploadConstants DEF UploadConstants, CountRestart

LEMMA WorldTypes ==
  ASSUME IngestTypeOK, ExpireToken \/ RestartCalibration, UNCHANGED body
  PROVE  IngestTypeOK'
  <1>1. CASE ExpireToken
    BY <1>1, Zenon DEF ExpireToken, IngestTypeOK, dataVars
  <1>2. CASE RestartCalibration
    BY <1>2, CountRestartTypes, Zenon DEF RestartCalibration, IngestTypeOK, dataVars
  <1> QED BY <1>1, <1>2

LEMMA RestartGatewayTypes ==
  ASSUME IngestTypeOK, RestartGateway, UNCHANGED body PROVE IngestTypeOK'
  <1>1. /\ call' \in [Requests -> {"none"} \cup Running \cup Results]
        /\ objects' \in [Requests -> Contents]
        /\ clips' \in [Requests -> Contents]
    BY DEF RestartGateway, CutCalls, IngestTypeOK, Contents
  <1>2. restarts' \in 0..MaxRestarts
    BY CountRestartTypes DEF RestartGateway, IngestTypeOK
  <1> QED BY <1>1, <1>2, Zenon DEF RestartGateway, IngestTypeOK

RefusedBefore == {"ErrCrossTenantAccess", "ErrPermissionDenied", "ErrCameraNotRegistered"}

Empty(r) == objects[r] = NoWindow /\ ledger[r] = NoWindow

\* What a request has stored at each stage of UploadClip: its body, the object
\* before the metadata, and the metadata once.
StoreInv(r) ==
  /\ objects[r] # NoWindow => objects[r] = body[r]
  /\ ledger[r] # NoWindow => ledger[r] = body[r]
  /\ clips[r] # NoWindow => call[r] = "ok" /\ objects[r] = clips[r]
  /\ call[r] = "record" => objects[r] = body[r] /\ ledger[r] = NoWindow
  /\ call[r] = "ok" => ledger[r] = body[r] /\ (restarts = 0 => clips[r] = body[r])
  /\ call[r] \in {"enter", "registry", "body", "put"} \cup RefusedBefore => Empty(r)
  /\ store = "memory" /\ objects[r] # NoWindow /\ clips[r] = NoWindow => call[r] = "record"

\* Who got past the checks of UploadClip.
GateInv(r) ==
  /\ call[r] \in {"registry", "body", "put", "record"} => caller = "organizer_admin"
  /\ call[r] \in {"body", "put", "record"} => wasRegistered
  /\ ~Empty(r) => wasRegistered /\ caller = "organizer_admin"

\* A step that does not touch a request keeps what is known of it.
LEMMA SameStores ==
  ASSUME NEW r, StoreInv(r) /\ GateInv(r),
         call'[r] = call[r], body'[r] = body[r], objects'[r] = objects[r],
         clips'[r] = clips[r], ledger'[r] = ledger[r],
         UNCHANGED <<store, caller>>,
         restarts' = 0 => restarts = 0, wasRegistered => wasRegistered'
  PROVE  StoreInv(r)' /\ GateInv(r)'
  BY DEF StoreInv, GateInv, Empty

\* What one step of UploadClip leaves of the request it serves.
LEMMA UploadClipInv ==
  ASSUME NEW r \in Requests, IngestTypeOK, StoreInv(r), GateInv(r), UploadClip(r),
         registered => wasRegistered, UNCHANGED <<body, worldVars>>
  PROVE  StoreInv(r)' /\ GateInv(r)'
  <1>1. /\ body' = body /\ store' = store /\ caller' = caller /\ restarts' = restarts
        /\ wasRegistered' = wasRegistered
    BY DEF worldVars
  <1>3. CASE Authorize(r)
    <2>1. /\ call[r] = "enter" /\ objects' = objects /\ clips' = clips /\ ledger' = ledger
          /\ call'[r] \in {"registry"} \cup RefusedBefore
          /\ call'[r] = "registry" => caller = "organizer_admin"
      BY <1>3, UploadConstants
      DEF UploadConstants, Authorize, dataVars, RefusedBefore, IngestTypeOK
    <2>2. Empty(r) /\ clips[r] = NoWindow
      BY <2>1 DEF StoreInv
    <2> QED BY <1>1, <2>1, <2>2 DEF StoreInv, GateInv, Empty, RefusedBefore
  <1>4. CASE CheckCamera(r)
    <2>1. /\ call[r] = "registry" /\ objects' = objects /\ clips' = clips /\ ledger' = ledger
          /\ call'[r] \in {"body", "ErrCameraNotRegistered", "unmapped"}
          /\ call'[r] = "body" => wasRegistered
      BY <1>4 DEF CheckCamera, IsRegistered, dataVars, IngestTypeOK
    <2>2. Empty(r) /\ clips[r] = NoWindow
      BY <2>1 DEF StoreInv
    <2> QED BY <1>1, <2>1, <2>2 DEF StoreInv, GateInv, Empty, RefusedBefore
  <1>5. CASE ReadBody(r)
    <2>1. /\ call[r] = "body" /\ objects' = objects /\ clips' = clips /\ ledger' = ledger
          /\ call'[r] = "put"
      BY <1>5 DEF ReadBody, dataVars, IngestTypeOK
    <2>2. Empty(r) /\ clips[r] = NoWindow
      BY <2>1 DEF StoreInv
    <2> QED BY <1>1, <2>1, <2>2 DEF StoreInv, GateInv, Empty, RefusedBefore
  <1>6. CASE PutObject(r)
    <2>1. /\ call[r] = "put" /\ clips' = clips /\ ledger' = ledger
          /\ \/ objects'[r] = body[r] /\ call'[r] = "record"
             \/ /\ objects'[r] \in {objects[r], body[r]}
                /\ call'[r] = "unmapped" /\ store = "s3"
      BY <1>6 DEF PutObject, IngestTypeOK
    <2>2. Empty(r) /\ clips[r] = NoWindow
      BY <2>1 DEF StoreInv
    <2> QED BY <1>1, <2>1, <2>2 DEF StoreInv, GateInv, Empty, RefusedBefore
  <1>7. CASE RecordClip(r)
    <2>1. /\ call[r] = "record" /\ objects' = objects /\ call'[r] = "ok"
          /\ clips'[r] = body[r] /\ ledger'[r] = body[r]
      BY <1>7 DEF RecordClip, IngestTypeOK
    <2>2. objects[r] = body[r]
      BY <2>1 DEF StoreInv
    <2> QED BY <1>1, <2>1, <2>2 DEF StoreInv, GateInv, Empty, RefusedBefore
  <1> QED BY <1>3, <1>4, <1>5, <1>6, <1>7 DEF UploadClip

\* A step of UploadClip for one request leaves every other alone.
LEMMA UploadClipFrame ==
  ASSUME IngestTypeOK, NEW s \in Requests, UploadClip(s), NEW r \in Requests, r # s
  PROVE  call'[r] = call[r] /\ objects'[r] = objects[r] /\ clips'[r] = clips[r]
         /\ ledger'[r] = ledger[r]
  BY DEF UploadClip, Authorize, CheckCamera, ReadBody, PutObject, RecordClip, dataVars, IngestTypeOK

\* A restart of the gateway empties the in-memory stores together, and calls
\* that were running are not answered.
LEMMA RestartGatewayInv ==
  ASSUME IngestTypeOK, NEW r \in Requests, StoreInv(r), GateInv(r), RestartGateway, UNCHANGED body
  PROVE  StoreInv(r)' /\ GateInv(r)'
  <1>1. /\ clips'[r] = NoWindow
        /\ objects'[r] = IF store = "s3" THEN objects[r] ELSE NoWindow
        /\ call'[r] = IF call[r] \in Running THEN "none" ELSE call[r]
    BY DEF RestartGateway, CutCalls
  <1>2. UNCHANGED <<body, ledger, store, caller, registered, wasRegistered>> /\ restarts' # 0
    BY CountRestartTypes DEF RestartGateway, IngestTypeOK
  <1>3. StoreInv(r)'
    BY <1>1, <1>2 DEF StoreInv, Empty, Running, RefusedBefore
  <1>4. GateInv(r)'
    BY <1>1, <1>2 DEF GateInv, Empty, Running
  <1> QED BY <1>3, <1>4

-----------------------------------------------------------------------------
(* Refinement: what the delivery contract sees of a step, under the mapping  *)
(* of EdgeTrigger.                                                           *)

LEMMA InitRefines == EdgeInit /\ IngestInit => Delivery!Init
  BY DEF EdgeInit, IngestInit, Delivery!Init, Told, Requests, Attempts, NoWindow, NoStatus,
    Delivery!NoWindow, Delivery!Slots

\* A step that stores, records and answers nothing is invisible to the contract.
LEMMA Invisible ==
  ASSUME UNCHANGED <<clip, ledger, clips, answer>>,
         \A t \in Triggers : pc'[t] = "done" <=> pc[t] = "done",
         \A t \in Triggers : answer[t] = 200 => attempt'[t] = attempt[t]
  PROVE  UNCHANGED Delivery!vars
  <1>1. {r \in Requests : clips[r] # NoWindow}' = {r \in Requests : clips[r] # NoWindow}
    BY DEF Requests
  <1>2. [t \in Triggers |-> Told(t)]' = [t \in Triggers |-> Told(t)]
    BY DEF Told
  <1>3. [t \in Triggers |-> IF answer[t] = 200 THEN attempt[t] ELSE 0]' =
        [t \in Triggers |-> IF answer[t] = 200 THEN attempt[t] ELSE 0]
    OBVIOUS
  <1> QED BY <1>1, <1>2, <1>3 DEF Delivery!vars

LEMMA SameEdgeInvisible ==
  UNCHANGED <<pc, clip, attempt, answer, ledger, clips>> => UNCHANGED Delivery!vars
  BY Invisible

\* A step that ends triggers without an answer, or with any but 200.
LEMMA GivesUp ==
  ASSUME EdgeInv, EdgeInv', NEW gone \in SUBSET Triggers,
         UNCHANGED <<clip, ledger, clips, attempt>>,
         \A t \in gone : pc[t] # "done" /\ pc'[t] = "done" /\ answer'[t] # 200,
         \A t \in Triggers \ gone :
           answer'[t] = answer[t] /\ (pc'[t] = "done" <=> pc[t] = "done")
  PROVE  Delivery!GiveUp(gone)
  <1>1. \A t \in gone : answer[t] = NoStatus
    BY DEF EdgeInv, Frozen
  <1>2. \A t \in gone : [u \in Triggers |-> Told(u)][t] = "pending"
    BY DEF Told
  <1>3. [t \in Triggers |-> Told(t)]' =
        [t \in Triggers |-> IF t \in gone THEN "failed" ELSE [u \in Triggers |-> Told(u)][t]]
    BY DEF Told
  <1>4. [t \in Triggers |-> IF answer[t] = 200 THEN attempt[t] ELSE 0]' =
        [t \in Triggers |-> IF answer[t] = 200 THEN attempt[t] ELSE 0]
    BY <1>1 DEF NoStatus
  <1>5. {r \in Requests : clips[r] # NoWindow}' = {r \in Requests : clips[r] # NoWindow}
    BY DEF Requests
  <1> QED BY <1>2, <1>3, <1>4, <1>5 DEF Delivery!GiveUp

LEMMA TriggerRefines ==
  ASSUME EdgeInv, NEW t \in Triggers, Capture \/ Trigger(t), UNCHANGED <<ledger, clips>>
  PROVE  Delivery!Next \/ UNCHANGED Delivery!vars
  <1>0. /\ Frozen(t)
        /\ pc \in [Triggers -> {"idle", "send", "wait", "done"}]
        /\ answer \in [Triggers -> {NoStatus, 200, 503} \cup (400..499) \cup {502}]
        /\ clip \in [Triggers -> Contents] /\ ring \in Contents
        /\ UNCHANGED attempt
    BY DEF EdgeInv, EdgeTypeOK, Capture, Trigger
  <1>1. CASE Capture
    BY <1>0, <1>1, Invisible DEF Capture
  <1>2. CASE Trigger(t) /\ ring = NoWindow
    <2>1. EdgeInv'
      BY <1>2, TriggerEdgeInv
    <2>2. /\ pc[t] # "done" /\ pc'[t] = "done" /\ answer'[t] # 200 /\ UNCHANGED clip
          /\ \A u \in Triggers \ {t} : answer'[u] = answer[u] /\ pc'[u] = pc[u]
      BY <1>0, <1>2 DEF Trigger
    <2>3. Delivery!GiveUp({t})
      BY <1>0, <2>1, <2>2, GivesUp
    <2> QED BY <2>3 DEF Delivery!Next
  <1>3. CASE Trigger(t) /\ ring # NoWindow
    <2>1. /\ clip[t] = NoWindow /\ ring \in Windows /\ clip' = [clip EXCEPT ![t] = ring]
          /\ answer' = answer /\ pc[t] = "idle"
          /\ \A u \in Triggers : pc'[u] = "done" <=> pc[u] = "done"
      BY <1>0, <1>3 DEF Trigger, Frozen, Contents
    <2>2. [u \in Triggers |-> Told(u)]' = [u \in Triggers |-> Told(u)]
      BY <2>1 DEF Told
    <2>3. [u \in Triggers |-> IF answer[u] = 200 THEN attempt[u] ELSE 0]' =
          [u \in Triggers |-> IF answer[u] = 200 THEN attempt[u] ELSE 0]
      BY <1>0, <2>1
    <2>4. {r \in Requests : clips[r] # NoWindow}' = {r \in Requests : clips[r] # NoWindow}
      BY DEF Requests
    <2>5. [u \in Triggers |-> Told(u)][t] = "pending"
      BY <2>1 DEF Told
    <2>6. \E w \in Delivery!Windows : clip' = [clip EXCEPT ![t] = w]
      BY <2>1 DEF Windows, Delivery!Windows
    <2>7. Delivery!Freeze(t)
      BY <2>1, <2>2, <2>3, <2>4, <2>5, <2>6
      DEF Delivery!Freeze, Delivery!NoWindow, NoWindow
    <2> QED BY <2>7 DEF Delivery!Next
  <1> QED BY <1>1, <1>2, <1>3

LEMMA BeginAttemptRefines ==
  ASSUME EdgeInv, NEW t \in Triggers, BeginAttempt(t), UNCHANGED <<ledger, clips>>
  PROVE  UNCHANGED Delivery!vars
  <1>1. \A u \in Triggers : pc'[u] = "done" <=> pc[u] = "done"
    BY DEF BeginAttempt, EdgeInv, EdgeTypeOK
  <1>2. \A u \in Triggers : answer[u] = 200 => attempt'[u] = attempt[u]
    BY DEF BeginAttempt, EdgeInv, EdgeTypeOK, Frozen, NoStatus
  <1> QED BY <1>1, <1>2, Invisible DEF BeginAttempt

\* A trigger that ends with any status but 200 is given up.
LEMMA FinishRefines ==
  ASSUME EdgeInv, NEW t \in Triggers, NEW code \in Codes, code # 200,
         pc[t] = "wait", Finish(t, code), UNCHANGED <<ledger, clips>>
  PROVE  Delivery!Next
  <1>1. EdgeInv'
    BY FinishInv
  <1>2. /\ pc'[t] = "done" /\ answer'[t] # 200 /\ UNCHANGED <<clip, attempt>>
        /\ \A u \in Triggers \ {t} : answer'[u] = answer[u] /\ pc'[u] = pc[u]
    BY DEF Finish, EdgeInv, EdgeTypeOK
  <1>3. Delivery!GiveUp({t})
    BY <1>1, <1>2, GivesUp
  <1> QED BY <1>3 DEF Delivery!Next

LEMMA RejectedRefines ==
  ASSUME EdgeInv, NEW t \in Triggers, NEW code, UploadRejected(t, code), UNCHANGED <<ledger, clips>>
  PROVE  Delivery!Next
  <1>1. (IF code \in 400..499 THEN code ELSE 502) \in Codes \ {200}
    BY DEF Codes
  <1> QED BY <1>1, FinishRefines DEF UploadRejected

LEMMA UploadFailedRefines ==
  ASSUME EdgeInv, NEW t \in Triggers, UploadFailed(t), UNCHANGED <<ledger, clips>>
  PROVE  Delivery!Next \/ UNCHANGED Delivery!vars
  <1>1. CASE Finish(t, 502)
    BY <1>1, FinishRefines DEF UploadFailed, Codes
  <1>2. CASE pc' = [pc EXCEPT ![t] = "send"] /\ UNCHANGED <<ring, clip, attempt, answer>>
    <2>1. \A u \in Triggers : pc'[u] = "done" <=> pc[u] = "done"
      BY <1>2 DEF UploadFailed, EdgeInv, EdgeTypeOK
    <2> QED BY <1>2, <2>1, Invisible
  <1> QED BY <1>1, <1>2 DEF UploadFailed

\* An id is reported: the clip of the current attempt must have been recorded.
LEMMA SucceededRefines ==
  ASSUME EdgeInv, NEW t \in Triggers, UploadSucceeded(t), ledger[Current(t)] # NoWindow,
         UNCHANGED <<ledger, clips>>
  PROVE  Delivery!Next
  <1>0. /\ pc[t] = "wait" /\ answer[t] = NoStatus /\ attempt[t] >= 1
        /\ pc \in [Triggers -> {"idle", "send", "wait", "done"}]
        /\ answer \in [Triggers -> {NoStatus, 200, 503} \cup (400..499) \cup {502}]
        /\ UNCHANGED <<clip, attempt>>
    BY DEF EdgeInv, EdgeTypeOK, AttemptInv, Frozen, UploadSucceeded, Finish
  <1>1. /\ answer' = [answer EXCEPT ![t] = 200] /\ pc' = [pc EXCEPT ![t] = "done"]
    BY DEF UploadSucceeded, Finish
  <1>2. [u \in Triggers |-> Told(u)]' = [[u \in Triggers |-> Told(u)] EXCEPT ![t] = "confirmed"]
    BY <1>0, <1>1 DEF Told
  <1>3. [u \in Triggers |-> IF answer[u] = 200 THEN attempt[u] ELSE 0]' =
        [[u \in Triggers |-> IF answer[u] = 200 THEN attempt[u] ELSE 0] EXCEPT ![t] = attempt[t]]
    BY <1>0, <1>1
  <1>4. {r \in Requests : clips[r] # NoWindow}' = {r \in Requests : clips[r] # NoWindow}
    BY DEF Requests
  <1>5. [u \in Triggers |-> Told(u)][t] = "pending"
    BY <1>0 DEF Told
  <1>6. PICK n \in 1..MaxUploadAttempts : n = attempt[t]
    BY <1>0, CurrentIsRequest DEF Attempts
  <1>7. Delivery!Confirm(t, n)
    BY <1>0, <1>2, <1>3, <1>4, <1>5, <1>6
    DEF Delivery!Confirm, Delivery!NoWindow, NoWindow, Current
  <1> QED BY <1>7 DEF Delivery!Next

\* Of the steps of UploadClip only RecordClip shows: once, and with the window
\* that the trigger froze.
LEMMA UploadClipRefines ==
  ASSUME EdgeInv, IngestTypeOK, NEW r \in Requests, UploadClip(r), StoreInv(r),
         call[r] = "record" => body[r] = clip[r[1]] /\ clip[r[1]] # NoWindow,
         UNCHANGED edgeVars
  PROVE  Delivery!Next \/ UNCHANGED Delivery!vars
  <1>0. UNCHANGED <<pc, clip, attempt, answer>>
    BY DEF edgeVars
  <1>1. CASE Authorize(r) \/ CheckCamera(r) \/ ReadBody(r) \/ PutObject(r)
    <2>1. UNCHANGED <<ledger, clips>>
      BY <1>1 DEF Authorize, CheckCamera, ReadBody, PutObject, dataVars
    <2> QED BY <1>0, <2>1, SameEdgeInvisible
  <1>2. CASE RecordClip(r)
    <2>1. PICK t \in Triggers, n \in 1..MaxUploadAttempts : r = <<t, n>> /\ r[1] = t
      BY RequestParts DEF Attempts
    <2>2. body[r] = clip[t] /\ clip[t] # NoWindow /\ ledger[r] = NoWindow
      BY <1>2, <2>1 DEF RecordClip, StoreInv
    <2>3. ledger' = [ledger EXCEPT ![<<t, n>>] = clip[t]]
      BY <1>2, <2>1, <2>2 DEF RecordClip
    <2>4. {s \in Requests : clips[s] # NoWindow}' =
          {s \in Requests : clips[s] # NoWindow} \cup {<<t, n>>}
      <3>1. clips' = [clips EXCEPT ![r] = clip[t]] /\ Requests' = Requests
        BY <1>2, <2>2 DEF RecordClip, Requests
      <3>2. \A s \in Requests : clips'[s] # NoWindow <=> (clips[s] # NoWindow \/ s = r)
        BY <2>2, <3>1 DEF IngestTypeOK
      <3> QED BY <2>1, <3>1, <3>2
    <2>5. [u \in Triggers |-> Told(u)]' = [u \in Triggers |-> Told(u)]
      BY <1>0 DEF Told
    <2>6. [u \in Triggers |-> IF answer[u] = 200 THEN attempt[u] ELSE 0]' =
          [u \in Triggers |-> IF answer[u] = 200 THEN attempt[u] ELSE 0]
      BY <1>0
    <2>7. ledger[<<t, n>>] = NoWindow
      BY <2>1, <2>2
    <2>8. Delivery!Record(t, n)
      BY <1>0, <2>2, <2>3, <2>4, <2>5, <2>6, <2>7
      DEF Delivery!Record, Delivery!NoWindow, NoWindow
    <2> QED BY <2>8 DEF Delivery!Next
  <1> QED BY <1>1, <1>2 DEF UploadClip

LEMMA RestartGatewayRefines ==
  ASSUME RestartGateway, UNCHANGED edgeVars PROVE Delivery!Next
  <1>1. UNCHANGED <<pc, clip, attempt, answer, ledger>>
    BY DEF RestartGateway, edgeVars
  <1>2. {r \in Requests : clips[r] # NoWindow}' \in SUBSET {r \in Requests : clips[r] # NoWindow}
    BY DEF RestartGateway, Requests
  <1>3. [u \in Triggers |-> Told(u)]' = [u \in Triggers |-> Told(u)]
    BY <1>1 DEF Told
  <1>4. [u \in Triggers |-> IF answer[u] = 200 THEN attempt[u] ELSE 0]' =
        [u \in Triggers |-> IF answer[u] = 200 THEN attempt[u] ELSE 0]
    BY <1>1
  <1> QED BY <1>1, <1>2, <1>3, <1>4 DEF Delivery!Next, Delivery!Forget

LEMMA ResetEdgeRefines ==
  ASSUME EdgeInv, ResetEdge, UNCHANGED <<ledger, clips>> PROVE Delivery!Next
  <1> DEFINE gone == {t \in Triggers : pc[t] \in {"send", "wait"}}
  <1>1. /\ UNCHANGED <<clip, attempt, answer>>
        /\ pc' = [t \in Triggers |-> IF pc[t] = "idle" THEN "idle" ELSE "done"]
    BY DEF ResetEdge
  <1>2. /\ pc \in [Triggers -> {"idle", "send", "wait", "done"}]
        /\ \A t \in Triggers : pc[t] # "done" => answer[t] = NoStatus
    BY DEF EdgeInv, EdgeTypeOK, Frozen
  <1>3. \A t \in gone : pc[t] # "done" /\ pc'[t] = "done" /\ answer'[t] # 200
    BY <1>1, <1>2 DEF NoStatus
  <1>4. \A t \in Triggers \ gone :
          answer'[t] = answer[t] /\ (pc'[t] = "done" <=> pc[t] = "done")
    BY <1>1, <1>2
  <1>5. gone \in SUBSET Triggers /\ EdgeInv'
    BY ResetEdgeInv
  <1> HIDE DEF gone
  <1>6. Delivery!GiveUp(gone)
    BY <1>1, <1>3, <1>4, <1>5, GivesUp
  <1> QED BY <1>5, <1>6 DEF Delivery!Next

-----------------------------------------------------------------------------
(* The contract by itself, for every number of triggers, attempts and        *)
(* windows: over variables of its own, whatever implements it.               *)

VARIABLES window, recorded, available, told, reported

Contract == INSTANCE ClipDelivery WITH answer <- told

DInv == Contract!TypeOK /\ Contract!RecordedIsFrozen /\ Contract!ConfirmedIsRecorded

LEMMA InitDInv == Contract!Init => DInv
  BY DEF Contract!Init, DInv, Contract!TypeOK, Contract!RecordedIsFrozen,
    Contract!ConfirmedIsRecorded, Contract!Slots, Contract!NoWindow

LEMMA FreezeDInv == ASSUME DInv, NEW t \in Triggers, Contract!Freeze(t) PROVE DInv'
  <1>1. PICK w \in Contract!Windows : window' = [window EXCEPT ![t] = w]
    BY DEF Contract!Freeze
  <1>2. UNCHANGED <<recorded, available, told, reported>> /\ told[t] = "pending"
        /\ window[t] = Contract!NoWindow
    BY DEF Contract!Freeze
  <1>3. Contract!TypeOK'
    BY <1>1, <1>2 DEF DInv, Contract!TypeOK
  <1>4. Contract!RecordedIsFrozen'
    BY <1>1, <1>2 DEF DInv, Contract!TypeOK, Contract!RecordedIsFrozen
  <1>5. Contract!ConfirmedIsRecorded'
    BY <1>1, <1>2 DEF DInv, Contract!TypeOK, Contract!ConfirmedIsRecorded
  <1> QED BY <1>3, <1>4, <1>5 DEF DInv

LEMMA RecordDInv ==
  ASSUME DInv, NEW t \in Triggers, NEW n \in 1..MaxUploadAttempts, Contract!Record(t, n)
  PROVE  DInv'
  <1>1. <<t, n>> \in Contract!Slots
    BY DEF Contract!Slots
  <1>2. Contract!TypeOK'
    BY <1>1 DEF Contract!Record, DInv, Contract!TypeOK
  <1>3. Contract!RecordedIsFrozen'
    BY <1>1
    DEF Contract!Record, DInv, Contract!TypeOK, Contract!RecordedIsFrozen, Contract!Slots
  <1>4. Contract!ConfirmedIsRecorded'
    BY <1>1
    DEF Contract!Record, DInv, Contract!TypeOK, Contract!ConfirmedIsRecorded, Contract!Slots
  <1> QED BY <1>2, <1>3, <1>4 DEF DInv

LEMMA ConfirmDInv ==
  ASSUME DInv, NEW t \in Triggers, NEW n \in 1..MaxUploadAttempts, Contract!Confirm(t, n)
  PROVE  DInv'
  <1>1. Contract!TypeOK'
    BY DEF Contract!Confirm, DInv, Contract!TypeOK
  <1>2. Contract!RecordedIsFrozen'
    BY DEF Contract!Confirm, DInv, Contract!RecordedIsFrozen
  <1>3. recorded[<<t, n>>] = window[t]
    BY DEF Contract!Confirm, DInv, Contract!RecordedIsFrozen
  <1>4. Contract!ConfirmedIsRecorded'
    BY <1>3 DEF Contract!Confirm, DInv, Contract!TypeOK, Contract!ConfirmedIsRecorded
  <1> QED BY <1>1, <1>2, <1>4 DEF DInv

LEMMA GiveUpDInv == ASSUME DInv, NEW gone \in SUBSET Triggers, Contract!GiveUp(gone) PROVE DInv'
  BY DEF Contract!GiveUp, DInv, Contract!TypeOK, Contract!RecordedIsFrozen,
    Contract!ConfirmedIsRecorded

LEMMA ForgetDInv == ASSUME DInv, Contract!Forget PROVE DInv'
  BY DEF Contract!Forget, DInv, Contract!TypeOK, Contract!RecordedIsFrozen,
    Contract!ConfirmedIsRecorded

LEMMA NextDInv == DInv /\ [Contract!Next]_(Contract!vars) => DInv'
  <1> SUFFICES ASSUME DInv, [Contract!Next]_(Contract!vars) PROVE DInv'
    OBVIOUS
  <1>1. CASE UNCHANGED Contract!vars
    BY <1>1 DEF Contract!vars, DInv, Contract!TypeOK, Contract!RecordedIsFrozen,
    Contract!ConfirmedIsRecorded
  <1>2. CASE Contract!Next
    BY <1>2, FreezeDInv, RecordDInv, ConfirmDInv, GiveUpDInv, ForgetDInv DEF Contract!Next
  <1> QED BY <1>1, <1>2

\* The contract of the Uploader interface in edge-agent/cmd/main.go keeps the
\* operator's view and the stored clips together: a clip that was recorded holds
\* the window its trigger froze, and a clip id that was handed out is the id of
\* such a clip.
THEOREM ContractIsSafe ==
  Contract!Spec => [](Contract!RecordedIsFrozen /\ Contract!ConfirmedIsRecorded)
  <1>1. DInv => Contract!RecordedIsFrozen /\ Contract!ConfirmedIsRecorded
    BY DEF DInv
  <1> QED BY <1>1, InitDInv, NextDInv, PTL DEF Contract!Spec
=============================================================================
