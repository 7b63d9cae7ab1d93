-------------------------- MODULE ClipUploadProofs --------------------------
(***************************************************************************)
(* Proofs about ClipUpload for every set of triggers and every bound: its  *)
(* types, its safety invariants, and that it implements ClipDelivery.      *)
(*                                                                         *)
(* One inductive invariant follows a request <<t, n>> from the moment it   *)
(* is nothing but a number above the attempts made so far, through the     *)
(* handler, to the reply, and says at each stage what it can have left in  *)
(* the stores.                                                             *)
(***************************************************************************)
EXTENDS ClipUpload, EdgeTriggerProofs

HttpTypeOK ==
  /\ stage \in [Requests -> {"idle", "sent", "handler", "replied", "answered", "gone"}]
  /\ status \in [Requests -> Statuses \cup {NoStatus}]

\* A request not made yet, or not arrived yet, has left nothing.
FreshInv(r) ==
  /\ r[2] > attempt[r[1]] => stage[r] = "idle"
  /\ stage[r] \in {"idle", "sent"} => call[r] = "none" /\ Empty(r)

\* What a request carries is what its trigger froze.
CarryInv(r) == r[2] <= attempt[r[1]] => body[r] = clip[r[1]]

\* What a reply says about the call that produced it.
ReplyInv(r) ==
  stage[r] \in {"replied", "answered"} =>
    /\ status[r] = 201 => call[r] = "ok"
    /\ status[r] \in 400..499 => Empty(r) /\ call[r] \in {"none"} \cup RefusedBefore

\* What a finished trigger was told is the reply to its current attempt.
ToldInv(t) ==
  /\ answer[t] = 200 =>
       attempt[t] >= 1 /\ stage[Current(t)] = "answered" /\ status[Current(t)] = 201
  /\ answer[t] \in 400..499 =>
       attempt[t] >= 1 /\ stage[Current(t)] = "answered" /\ status[Current(t)] = answer[t]

ReqInv(r) == FreshInv(r) /\ CarryInv(r) /\ StoreInv(r) /\ GateInv(r) /\ ReplyInv(r)

TInv        == IngestTypeOK /\ EdgeInv /\ HttpTypeOK /\ (registered => wasRegistered)
RequestInv  == \A r \in Requests : ReqInv(r)
TriggersInv == \A t \in Triggers : ToldInv(t)

IInv == TInv /\ RequestInv /\ TriggersInv

LEMMA InitIInv == Init => IInv
  <1> SUFFICES ASSUME Init PROVE IInv
    OBVIOUS
  <1>1. TInv
    BY EdgeInitInv, IngestInitTypes DEF Init, IngestInit, TInv, HttpTypeOK
  <1>2. ASSUME NEW r \in Requests PROVE ReqInv(r)
    BY <1>2, RequestParts
    DEF ReqInv, Init, EdgeInit, IngestInit, FreshInv, CarryInv, StoreInv, GateInv, ReplyInv, Empty,
        NoWindow, RefusedBefore
  <1>3. ASSUME NEW t \in Triggers PROVE ToldInv(t)
    BY <1>3 DEF Init, EdgeInit, ToldInv, NoStatus
  <1> QED BY <1>1, <1>2, <1>3 DEF IInv, RequestInv, TriggersInv

\* A step that does not touch a request keeps what is known of it.
LEMMA SameRequest ==
  ASSUME NEW r, ReqInv(r),
         clip'[r[1]] = clip[r[1]], attempt'[r[1]] = attempt[r[1]],
         call'[r] = call[r], body'[r] = body[r], objects'[r] = objects[r],
         clips'[r] = clips[r], ledger'[r] = ledger[r],
         stage'[r] = stage[r], status'[r] = status[r],
         UNCHANGED <<store, caller>>,
         restarts' = 0 => restarts = 0, wasRegistered => wasRegistered'
  PROVE  ReqInv(r)'
  <1>1. StoreInv(r)' /\ GateInv(r)'
    BY SameStores DEF ReqInv
  <1>2. FreshInv(r)' /\ CarryInv(r)'
    BY DEF ReqInv, FreshInv, CarryInv, Empty
  <1>3. ReplyInv(r)'
    BY DEF ReqInv, ReplyInv, Empty
  <1> QED BY <1>1, <1>2, <1>3 DEF ReqInv

\* A request can only be on its way if it was sent.
LEMMA Begun ==
  ASSUME NEW r \in Requests, ReqInv(r), stage[r] # "idle", TInv
  PROVE  r[2] <= attempt[r[1]] /\ ~(r[2] > attempt[r[1]])
  <1>1. r[2] \in Nat /\ attempt[r[1]] \in Nat
    BY RequestParts, UploadConstants DEF UploadConstants, TInv, EdgeInv, EdgeTypeOK
  <1> QED BY <1>1 DEF ReqInv, FreshInv

-----------------------------------------------------------------------------
(* Steps of the agent.                                                       *)

LEMMA AgentIInv == ASSUME IInv, NEW t \in Triggers, Agent(t) PROVE IInv'
  <1>0. UNCHANGED <<attempt, call, body, objects, clips, ledger, store, caller, restarts,
                    registered, wasRegistered, stage, status>>
    BY DEF Agent, Capture, Trigger, httpVars, ingestVars, dataVars, worldVars
  <1>1. TInv'
    <2>1. EdgeInv'
      BY CaptureInv, TriggerEdgeInv DEF Agent, IInv, TInv
    <2>2. IngestTypeOK'
      BY IngestUnchanged DEF Agent, IInv, TInv
    <2> QED BY <1>0, <2>1, <2>2 DEF IInv, TInv, HttpTypeOK
  <1>2. ASSUME NEW r \in Requests PROVE ReqInv(r)'
    <2>1. CASE clip'[r[1]] = clip[r[1]]
      BY <1>0, <2>1, SameRequest DEF IInv, RequestInv
    <2>2. CASE clip'[r[1]] # clip[r[1]]
      <3>1. Trigger(t) /\ r[1] = t
        BY <2>2, RequestParts DEF Agent, Capture, Trigger, IInv, TInv, EdgeInv, EdgeTypeOK
      <3>2. ~(r[2] <= attempt[r[1]])
        BY <3>1, RequestParts DEF Trigger, IInv, TInv, EdgeInv, AttemptInv
      <3>3. CarryInv(r)'
        BY <1>0, <3>2 DEF CarryInv
      <3>4. StoreInv(r)' /\ GateInv(r)'
        BY <1>0, SameStores DEF IInv, RequestInv, ReqInv
      <3> QED BY <1>0, <3>3, <3>4 DEF FreshInv, ReplyInv, Empty, IInv, RequestInv, ReqInv
    <2> QED BY <2>1, <2>2
  <1>3. ASSUME NEW u \in Triggers PROVE ToldInv(u)'
    <2>1. answer'[u] = answer[u] \/ answer'[u] = 503
      BY DEF Agent, Capture, Trigger, IInv, TInv, EdgeInv, EdgeTypeOK
    <2> QED BY <1>0, <2>1 DEF IInv, TriggersInv, ToldInv, Current
  <1> QED BY <1>1, <1>2, <1>3 DEF IInv, RequestInv, TriggersInv

LEMMA SendIInv == ASSUME IInv, NEW t \in Triggers, Send(t) PROVE IInv'
  <1>0. BeginAttempt(t) /\ UNCHANGED <<clip, answer, status, call, objects, clips, ledger, store,
                                       caller, restarts, registered, wasRegistered>>
    BY DEF Send, Post, BeginAttempt, dataVars, worldVars
  <1>1. TInv'
    <2>1. EdgeInv'
      BY <1>0, BeginAttemptInv DEF IInv, TInv
    <2>2. body' \in [Requests -> Contents]
      <3>1. clip[t] \in Contents /\ body \in [Requests -> Contents]
        BY DEF IInv, TInv, IngestTypeOK, EdgeInv, EdgeTypeOK
      <3> QED BY <3>1 DEF Send, Post
    <2>3. IngestTypeOK'
      BY <2>2, Zenon DEF Send, Post, IInv, TInv, IngestTypeOK, dataVars, worldVars
    <2>4. HttpTypeOK'
      BY DEF Send, Post, IInv, TInv, HttpTypeOK
    <2> QED BY <1>0, <2>1, <2>3, <2>4 DEF IInv, TInv
  <1>2. ASSUME NEW r \in Requests PROVE ReqInv(r)'
    <2> DEFINE n == attempt[t] + 1
    <2>1. /\ attempt' = [attempt EXCEPT ![t] = n]
          /\ stage' = [stage EXCEPT ![<<t, n>>] = "sent"]
          /\ body' = [body EXCEPT ![<<t, n>>] = clip[t]]
          /\ attempt[t] \in Nat /\ n \in Nat /\ n >= 1
      BY UploadConstants
      DEF UploadConstants, Send, Post, BeginAttempt, IInv, TInv, EdgeInv, EdgeTypeOK
    <2>2. /\ attempt \in [Triggers -> 0..MaxUploadAttempts]
          /\ stage \in [Requests -> {"idle", "sent", "handler", "replied", "answered", "gone"}]
          /\ body \in [Requests -> Contents]
      BY DEF IInv, TInv, EdgeInv, EdgeTypeOK, IngestTypeOK, HttpTypeOK
    <2>3. ReqInv(r) /\ r[1] \in Triggers /\ r[2] \in Nat /\ r = <<r[1], r[2]>>
      BY RequestParts DEF IInv, RequestInv
    <2> HIDE DEF n
    <2>4. CASE r = <<t, n>>
      <3>1. r[1] = t /\ r[2] = n /\ attempt[t] < n
        BY <2>1, <2>4 DEF n
      <3>2. stage[r] = "idle" /\ attempt'[t] = n /\ stage'[r] = "sent" /\ body'[r] = clip[t]
        BY <2>1, <2>2, <2>3, <2>4, <3>1 DEF ReqInv, FreshInv
      <3>3. call[r] = "none" /\ Empty(r)
        BY <2>3, <3>2 DEF ReqInv, FreshInv
      <3>4. FreshInv(r)' /\ CarryInv(r)' /\ GateInv(r)' /\ ReplyInv(r)'
        BY <1>0, <3>1, <3>2, <3>3, <2>1 DEF FreshInv, CarryInv, GateInv, ReplyInv, Empty
      <3>5. StoreInv(r)'
        BY <1>0, <2>3, <3>3 DEF StoreInv, Empty, ReqInv, RefusedBefore, NoWindow
      <3> QED BY <3>4, <3>5 DEF ReqInv
    <2>5. CASE r # <<t, n>>
      <3>1. stage'[r] = stage[r] /\ body'[r] = body[r]
        BY <2>1, <2>2, <2>5
      <3>2. CASE r[1] # t
        <4>1. attempt'[r[1]] = attempt[r[1]]
          BY <2>1, <2>2, <2>3, <3>2
        <4> QED BY <1>0, <2>3, <3>1, <4>1, SameRequest
      <3>3. CASE r[1] = t
        <4>1. r[2] # n /\ attempt'[t] = n
          BY <2>1, <2>2, <2>3, <2>5, <3>3
        <4>2. (r[2] > n) = (r[2] > attempt[t]) /\ (r[2] <= n) = (r[2] <= attempt[t])
          BY <4>1, <2>1, <2>3 DEF n
        <4>3. FreshInv(r)' /\ CarryInv(r)' /\ ReplyInv(r)'
          BY <1>0, <2>3, <3>1, <3>3, <4>1, <4>2 DEF ReqInv, FreshInv, CarryInv, ReplyInv, Empty
        <4>4. StoreInv(r)' /\ GateInv(r)'
          BY <1>0, <2>3, <3>1, SameStores DEF ReqInv
        <4> QED BY <4>3, <4>4 DEF ReqInv
      <3> QED BY <3>2, <3>3
    <2> QED BY <2>4, <2>5
  <1>3. ASSUME NEW u \in Triggers PROVE ToldInv(u)'
    <2>1. ToldInv(u)
      BY DEF IInv, TriggersInv
    <2>2. CASE u = t
      BY <1>0, <2>2 DEF BeginAttempt, ToldInv, IInv, TInv, EdgeInv, EdgeTypeOK, Frozen, NoStatus
    <2>3. CASE u # t
      <3>1. attempt'[u] = attempt[u]
        BY <1>0, <2>3 DEF BeginAttempt, IInv, TInv, EdgeInv, EdgeTypeOK
      <3>2. attempt[u] >= 1 => stage'[Current(u)] = stage[Current(u)]
        BY <2>3, CurrentIsRequest DEF Current, Send, Post, BeginAttempt, IInv, TInv, HttpTypeOK
      <3> QED BY <1>0, <2>1, <3>1, <3>2 DEF ToldInv, Current
    <2> QED BY <2>2, <2>3
  <1> QED BY <1>1, <1>2, <1>3 DEF IInv, RequestInv, TriggersInv

\* How an attempt that the agent waits for can end.
LEMMA EndAttemptEdge ==
  ASSUME NEW t \in Triggers, EndAttempt(t)
  PROVE  /\ pc[t] = "wait"
         /\ UploadFailed(t) \/ \E code \in Codes : Finish(t, code)
         /\ UNCHANGED <<clip, attempt, status, ingestVars>>
  BY DEF EndAttempt, ReceiveReply, Replied, AttemptFails, UploadSucceeded, UploadRejected,
    UploadFailed, Finish, Codes

LEMMA EndAttemptIInv == ASSUME IInv, NEW t \in Triggers, EndAttempt(t) PROVE IInv'
  <1> DEFINE c == Current(t)
  <1>1. TInv'
    <2>1. EdgeInv'
      BY EndAttemptEdge, FinishInv, UploadFailedInv DEF IInv, TInv
    <2>2. IngestTypeOK' /\ (registered' => wasRegistered')
      BY EndAttemptEdge, IngestUnchanged DEF IInv, TInv, ingestVars, worldVars
    <2>3. HttpTypeOK'
      BY DEF EndAttempt, ReceiveReply, AttemptFails, Unread, IInv, TInv, HttpTypeOK
    <2> QED BY <2>1, <2>2, <2>3 DEF TInv
  <1>2. UNCHANGED <<clip, attempt, status, call, body, objects, clips, ledger, store, caller,
                    restarts, registered, wasRegistered>>
    BY EndAttemptEdge DEF ingestVars, dataVars, worldVars
  <1>3. /\ \A r \in Requests : r # c => stage'[r] = stage[r]
        /\ c \in Requests /\ stage[c] # "answered"
           => \/ stage'[c] = stage[c]
              \/ stage[c] = "replied" /\ stage'[c] \in {"answered", "gone"}
        /\ c \in Requests /\ stage[c] = "answered" => stage'[c] = stage[c]
    BY DEF EndAttempt, ReceiveReply, Replied, AttemptFails, Unread, IInv, TInv, HttpTypeOK
  <1>4. ASSUME NEW r \in Requests PROVE ReqInv(r)'
    <2>1. ReqInv(r)
      BY DEF IInv, RequestInv
    <2>2. CASE stage'[r] = stage[r]
      BY <1>2, <2>1, <2>2, SameRequest
    <2>3. CASE stage[r] = "replied" /\ stage'[r] \in {"answered", "gone"}
      <3>1. FreshInv(r)' /\ CarryInv(r)'
        BY <1>2, <2>1, <2>3 DEF ReqInv, FreshInv, CarryInv
      <3>2. StoreInv(r)' /\ GateInv(r)'
        BY <1>2, <2>1, SameStores DEF ReqInv
      <3>3. ReplyInv(r)'
        BY <1>2, <2>1, <2>3 DEF ReqInv, ReplyInv, Empty
      <3> QED BY <3>1, <3>2, <3>3 DEF ReqInv
    <2> QED BY <1>3, <2>2, <2>3
  <1>5. ASSUME NEW u \in Triggers PROVE ToldInv(u)'
    <2>1. ToldInv(u)
      BY DEF IInv, TriggersInv
    <2>2. CASE u # t
      <3>1. answer'[u] = answer[u]
        BY <2>2 DEF EndAttempt, ReceiveReply, AttemptFails, UploadSucceeded, UploadRejected,
           UploadFailed, Finish, IInv, TInv, EdgeInv, EdgeTypeOK
      <3>2. attempt[u] >= 1 => stage'[Current(u)] = stage[Current(u)]
        <4> SUFFICES ASSUME attempt[u] >= 1 PROVE stage'[Current(u)] = stage[Current(u)]
          OBVIOUS
        <4>1. Current(u) \in Requests /\ Current(u) # c
          BY <2>2, CurrentIsRequest DEF IInv, TInv, Current
        <4> QED BY <4>1, <1>3
      <3> QED BY <1>2, <2>1, <3>1, <3>2 DEF ToldInv, Current
    <2>3. CASE u = t /\ AttemptFails(t)
      BY <1>2, <2>1, <2>3 DEF AttemptFails, UploadFailed, Finish, ToldInv, NoStatus,
         IInv, TInv, EdgeInv, EdgeTypeOK, Frozen
    <2>4. CASE u = t /\ ReceiveReply(t)
      <3>1. pc[t] = "wait" /\ attempt[t] >= 1
        BY <2>4 DEF ReceiveReply, Replied, IInv, TInv, EdgeInv, AttemptInv
      <3>2. c \in Requests
        BY <3>1, CurrentIsRequest DEF IInv, TInv
      <3>3. stage'[c] = "answered" /\ Current(t)' = c
        BY <1>2, <2>4, <3>2 DEF ReceiveReply, IInv, TInv, HttpTypeOK, Current
      <3>4. CASE status[c] = 201
        <4>1. answer'[t] = 200
          BY <2>4, <3>4 DEF ReceiveReply, UploadSucceeded, Finish, IInv, TInv, EdgeInv, EdgeTypeOK
        <4> QED BY <1>2, <2>4, <3>1, <3>3, <3>4, <4>1 DEF ToldInv
      <3>5. CASE status[c] # 201
        <4>1. answer'[t] = IF status[c] \in 400..499 THEN status[c] ELSE 502
          BY <2>4, <3>5 DEF ReceiveReply, UploadRejected, Finish, IInv, TInv, EdgeInv, EdgeTypeOK
        <4> QED BY <1>2, <2>4, <3>1, <3>3, <4>1 DEF ToldInv
      <3> QED BY <3>4, <3>5
    <2> QED BY <2>2, <2>3, <2>4 DEF EndAttempt
  <1> QED BY <1>1, <1>2, <1>4, <1>5 DEF IInv, RequestInv, TriggersInv

-----------------------------------------------------------------------------
(* Steps of the gateway.                                                     *)

\* A reply that arrived is not taken back by the gateway, and the gateway does
\* not touch the triggers.
LEMMA GatewayTriggers ==
  ASSUME IInv, UNCHANGED <<edgeVars>>,
         \A r \in Requests : stage[r] = "answered" =>
           stage'[r] = "answered" /\ status'[r] = status[r]
  PROVE  TriggersInv'
  <1> SUFFICES ASSUME NEW t \in Triggers PROVE ToldInv(t)'
    BY DEF TriggersInv
  <1>1. UNCHANGED <<attempt, answer>> /\ ToldInv(t)
    BY DEF edgeVars, IInv, TriggersInv
  <1>2. attempt[t] >= 1 /\ stage[Current(t)] = "answered" =>
          stage'[Current(t)] = "answered" /\ status'[Current(t)] = status[Current(t)]
    BY CurrentIsRequest DEF IInv, TInv
  <1> QED BY <1>1, <1>2 DEF ToldInv, Current

LEMMA ReplyStage ==
  ASSUME NEW s \in Requests, NEW code \in Statuses, Reply(s, code), TInv
  PROVE  /\ HttpTypeOK'
         /\ \A r \in Requests : r # s => stage'[r] = stage[r] /\ status'[r] = status[r]
         /\ \/ stage'[s] = "gone"
            \/ stage'[s] = "replied" /\ status'[s] = code
  BY DEF Reply, TInv, HttpTypeOK

LEMMA ReceiveIInv == ASSUME IInv, NEW s \in Requests, Receive(s) PROVE IInv'
  <1>1. UNCHANGED <<clip, attempt, body, objects, clips, ledger, store, caller, restarts,
                    registered, wasRegistered>> /\ UNCHANGED edgeVars
    BY DEF Receive, edgeVars, dataVars, worldVars
  <1>2. /\ HttpTypeOK' /\ stage[s] = "sent"
        /\ \A r \in Requests : r # s =>
             stage'[r] = stage[r] /\ status'[r] = status[r] /\ call'[r] = call[r]
        /\ \/ stage'[s] = "handler" /\ call'[s] = "enter"
           \/ stage'[s] = "gone" /\ call'[s] = call[s]
           \/ stage'[s] = "replied" /\ status'[s] = 401 /\ call'[s] = call[s]
    <2>1. CASE tokenLive
      BY <2>1 DEF Receive, IInv, TInv, IngestTypeOK, HttpTypeOK
    <2>2. CASE ~tokenLive
      BY <2>2, ReplyStage DEF Receive, Statuses, IInv
    <2> QED BY <2>1, <2>2
  <1>3. TInv'
    <2>1. call' \in [Requests -> {"none"} \cup Running \cup Results]
      BY DEF Receive, IInv, TInv, IngestTypeOK, Running
    <2>2. IngestTypeOK'
      BY <2>1, Zenon DEF Receive, IInv, TInv, IngestTypeOK, dataVars, worldVars
    <2> QED BY <1>1, <1>2, <2>2, EdgeUnchanged DEF IInv, TInv
  <1>4. ASSUME NEW r \in Requests PROVE ReqInv(r)'
    <2>1. ReqInv(r)
      BY DEF IInv, RequestInv
    <2>2. CASE r # s
      BY <1>1, <1>2, <2>1, <2>2, SameRequest
    <2>3. CASE r = s
      <3>1. call[r] = "none" /\ Empty(r) /\ ~(r[2] > attempt[r[1]])
        BY <1>2, <2>1, <2>3, Begun DEF ReqInv, FreshInv, IInv
      <3>2. FreshInv(r)' /\ CarryInv(r)' /\ GateInv(r)' /\ ReplyInv(r)'
        BY <1>1, <1>2, <2>1, <2>3, <3>1
        DEF ReqInv, FreshInv, CarryInv, GateInv, ReplyInv, Empty
      <3>3. StoreInv(r)'
        BY <1>1, <1>2, <2>1, <2>3, <3>1 DEF ReqInv, StoreInv, Empty, RefusedBefore
      <3> QED BY <3>2, <3>3 DEF ReqInv
    <2> QED BY <2>2, <2>3
  <1>5. TriggersInv'
    BY <1>1, <1>2, GatewayTriggers
  <1> QED BY <1>3, <1>4, <1>5 DEF IInv, RequestInv

LEMMA ServeIInv == ASSUME IInv, NEW s \in Requests, Serve(s) PROVE IInv'
  <1>1. UNCHANGED <<clip, attempt, body, store, caller, restarts, registered, wasRegistered>>
        /\ UNCHANGED edgeVars /\ UNCHANGED worldVars
    BY DEF Serve, edgeVars, worldVars
  <1>2. /\ HttpTypeOK' /\ stage[s] = "handler"
        /\ \A r \in Requests : r # s => stage'[r] = stage[r] /\ status'[r] = status[r]
        /\ \/ stage'[s] = "handler"
           \/ stage'[s] = "gone"
           \/ stage'[s] = "replied" /\ status'[s] = 201 /\ call'[s] = "ok"
           \/ stage'[s] = "replied" /\ status'[s] = 500
           \/ /\ stage'[s] = "replied" /\ status'[s] \in {400, 403}
              /\ call'[s] \in RefusedBefore
    <2>1. CASE UNCHANGED httpVars
      BY <2>1 DEF Serve, httpVars, IInv, TInv, HttpTypeOK
    <2>2. CASE call'[s] = "ok" /\ Reply(s, 201)
      BY <2>2, ReplyStage DEF Serve, IInv, Statuses
    <2>3. CASE call'[s] \in Errors /\ Reply(s, ServiceStatus(call'[s]))
      <3>1. ServiceStatus(call'[s]) \in Statuses
        BY DEF ServiceStatus, Statuses
      <3>2. ServiceStatus(call'[s]) = 500 \/
              (call'[s] \in RefusedBefore /\ ServiceStatus(call'[s]) \in {400, 403})
        BY DEF ServiceStatus, RefusedBefore
      <3> QED BY <2>3, <3>1, <3>2, ReplyStage DEF Serve, IInv
    <2> QED BY <2>1, <2>2, <2>3 DEF Serve
  <1>3. TInv'
    BY <1>1, <1>2, UploadClipTypes, EdgeUnchanged DEF Serve, IInv, TInv
  <1>4. ASSUME NEW r \in Requests PROVE ReqInv(r)'
    <2>1. ReqInv(r)
      BY DEF IInv, RequestInv
    <2>2. CASE r # s
      <3>1. call'[r] = call[r] /\ objects'[r] = objects[r] /\ clips'[r] = clips[r]
            /\ ledger'[r] = ledger[r]
        BY <2>2, UploadClipFrame DEF Serve, IInv, TInv
      <3> QED BY <1>1, <1>2, <2>1, <2>2, <3>1, SameRequest
    <2>3. CASE r = s
      <3>1. StoreInv(r)' /\ GateInv(r)'
        BY <1>1, <2>1, <2>3, UploadClipInv DEF Serve, ReqInv, IInv, TInv
      <3>2. FreshInv(r)' /\ CarryInv(r)'
        BY <1>1, <1>2, <2>1, <2>3, Begun DEF FreshInv, CarryInv, IInv, ReqInv
      <3>3. ReplyInv(r)'
        BY <1>2, <2>3, <3>1 DEF ReplyInv, StoreInv, RefusedBefore
      <3> QED BY <3>1, <3>2, <3>3 DEF ReqInv
    <2> QED BY <2>2, <2>3
  <1>5. TriggersInv'
    BY <1>1, <1>2, GatewayTriggers
  <1> QED BY <1>3, <1>4, <1>5 DEF IInv, RequestInv

LEMMA LostIInv ==
  ASSUME IInv, NEW s \in Requests, BreakBody(s) \/ LoseRequest(s) PROVE IInv'
  <1>1. UNCHANGED <<clip, attempt, body, objects, clips, ledger, store, caller, restarts,
                    registered, wasRegistered, status>> /\ UNCHANGED edgeVars
    BY DEF BreakBody, LoseRequest, edgeVars, ingestVars, dataVars, worldVars
  <1>2. /\ HttpTypeOK'
        /\ \A r \in Requests : r # s => stage'[r] = stage[r] /\ call'[r] = call[r]
        /\ stage[s] \in {"handler", "sent"} /\ stage'[s] = "gone"
        /\ \/ call'[s] = call[s]
           \/ call[s] = "body" /\ call'[s] = "unmapped"
    BY DEF BreakBody, LoseRequest, ingestVars, IInv, TInv, IngestTypeOK, HttpTypeOK
  <1>3. TInv'
    <2>1. CASE BreakBody(s)
      <3>1. call' \in [Requests -> {"none"} \cup Running \cup Results]
        BY <2>1 DEF BreakBody, IInv, TInv, IngestTypeOK, Results, Errors
      <3>2. IngestTypeOK'
        BY <2>1, <3>1, Zenon DEF BreakBody, IInv, TInv, IngestTypeOK, dataVars, worldVars
      <3> QED BY <1>1, <1>2, <3>2, EdgeUnchanged DEF IInv, TInv
    <2>2. CASE LoseRequest(s)
      BY <1>1, <1>2, <2>2, EdgeUnchanged, IngestUnchanged DEF LoseRequest, IInv, TInv
    <2> QED BY <2>1, <2>2
  <1>4. ASSUME NEW r \in Requests PROVE ReqInv(r)'
    <2>1. ReqInv(r)
      BY DEF IInv, RequestInv
    <2>2. CASE r # s
      BY <1>1, <1>2, <2>1, <2>2, SameRequest
    <2>3. CASE r = s
      <3>1. ~(r[2] > attempt[r[1]])
        BY <1>2, <2>1, <2>3, Begun DEF IInv
      <3>2. FreshInv(r)' /\ CarryInv(r)'
        BY <1>1, <1>2, <2>1, <2>3, <3>1 DEF ReqInv, FreshInv, CarryInv
      <3>3. StoreInv(r)'
        BY <1>1, <1>2, <2>1, <2>3 DEF ReqInv, StoreInv, Empty, RefusedBefore
      <3>4. GateInv(r)' /\ ReplyInv(r)'
        BY <1>1, <1>2, <2>1, <2>3 DEF ReqInv, GateInv, ReplyInv, Empty
      <3> QED BY <3>2, <3>3, <3>4 DEF ReqInv
    <2> QED BY <2>2, <2>3
  <1>5. TriggersInv'
    BY <1>1, <1>2, GatewayTriggers
  <1> QED BY <1>3, <1>4, <1>5 DEF IInv, RequestInv

-----------------------------------------------------------------------------
(* Time and restarts.                                                        *)

LEMMA WorldIInv == ASSUME IInv, World PROVE IInv'
  <1>1. /\ UNCHANGED <<clip, attempt, call, body, objects, clips, ledger, store, caller, stage,
                       status>>
        /\ UNCHANGED edgeVars
    BY DEF World, ExpireToken, RestartCalibration, edgeVars, httpVars, dataVars
  <1>2. /\ restarts' = 0 => restarts = 0
        /\ wasRegistered' = wasRegistered
        /\ (registered => wasRegistered) => (registered' => wasRegistered')
    BY DEF World, ExpireToken, RestartCalibration, CountRestart, IInv, TInv, IngestTypeOK
  <1>3. TInv'
    BY <1>1, <1>2, WorldTypes, EdgeUnchanged DEF World, IInv, TInv, HttpTypeOK
  <1>4. RequestInv'
    BY <1>1, <1>2, SameRequest DEF IInv, RequestInv
  <1>5. TriggersInv'
    BY <1>1 DEF edgeVars, IInv, TriggersInv, ToldInv, Current
  <1> QED BY <1>3, <1>4, <1>5 DEF IInv

LEMMA GatewayRestartsIInv == ASSUME IInv, GatewayRestarts PROVE IInv'
  <1>1. UNCHANGED <<clip, attempt, body, registered, wasRegistered, status>>
        /\ UNCHANGED edgeVars /\ UNCHANGED <<ledger>>
    BY DEF GatewayRestarts, RestartGateway, edgeVars
  <1>2. ASSUME NEW r \in Requests
        PROVE  /\ objects'[r] = NoWindow \/ objects'[r] = objects[r]
               /\ call'[r] = IF call[r] \in Running THEN "none" ELSE call[r]
               /\ stage'[r] = IF stage[r] \in {"handler", "replied"} THEN "gone" ELSE stage[r]
    BY <1>2 DEF GatewayRestarts, RestartGateway, CutCalls
  <1>3. TInv'
    BY <1>1, RestartGatewayTypes, EdgeUnchanged DEF GatewayRestarts, IInv, TInv, HttpTypeOK
  <1>4. ASSUME NEW r \in Requests PROVE ReqInv(r)'
    <2>1. ReqInv(r)
      BY DEF IInv, RequestInv
    <2>2. StoreInv(r)' /\ GateInv(r)'
      BY <2>1, RestartGatewayInv DEF GatewayRestarts, ReqInv, IInv, TInv
    <2>3. FreshInv(r)' /\ CarryInv(r)'
      BY <1>1, <1>2, <2>1 DEF ReqInv, FreshInv, CarryInv, Empty, Running
    <2>4. ReplyInv(r)'
      BY <1>1, <1>2, <2>1 DEF ReqInv, ReplyInv, Empty, Running, RefusedBefore
    <2> QED BY <2>2, <2>3, <2>4 DEF ReqInv
  <1>5. TriggersInv'
    BY <1>1, <1>2, GatewayTriggers
  <1> QED BY <1>3, <1>4, <1>5 DEF IInv, RequestInv

LEMMA EdgeRestartsIInv == ASSUME IInv, EdgeRestarts PROVE IInv'
  <1>1. UNCHANGED <<clip, attempt, answer, call, body, objects, clips, ledger, store, caller,
                    registered, wasRegistered, status>> /\ restarts' # 0
        /\ restarts' \in 0..MaxRestarts
    BY CountRestartTypes DEF EdgeRestarts, ResetEdge, dataVars, IInv, TInv, IngestTypeOK
  <1>2. \A r \in Requests : stage'[r] = Unread(r)
    BY DEF EdgeRestarts
  <1>3. TInv'
    <2>1. IngestTypeOK'
      BY <1>1, Zenon DEF EdgeRestarts, IInv, TInv, IngestTypeOK
    <2>2. HttpTypeOK'
      BY <1>1 DEF EdgeRestarts, Unread, IInv, TInv, HttpTypeOK
    <2> QED BY <1>1, <2>1, <2>2, ResetEdgeInv DEF EdgeRestarts, IInv, TInv
  <1>4. ASSUME NEW r \in Requests PROVE ReqInv(r)'
    <2>1. ReqInv(r)
      BY DEF IInv, RequestInv
    <2>2. FreshInv(r)' /\ CarryInv(r)'
      BY <1>1, <1>2, <2>1 DEF ReqInv, FreshInv, CarryInv, Empty, Unread
    <2>3. StoreInv(r)' /\ GateInv(r)'
      BY <1>1, <2>1, SameStores DEF ReqInv
    <2>4. ReplyInv(r)'
      BY <1>1, <1>2, <2>1 DEF ReqInv, ReplyInv, Empty, Unread
    <2> QED BY <2>2, <2>3, <2>4 DEF ReqInv
  <1>5. ASSUME NEW t \in Triggers PROVE ToldInv(t)'
    <2>1. ToldInv(t)
      BY DEF IInv, TriggersInv
    <2>2. attempt[t] >= 1 /\ stage[Current(t)] = "answered" => stage'[Current(t)] = "answered"
      BY <1>2, CurrentIsRequest DEF IInv, TInv, Unread
    <2> QED BY <1>1, <2>1, <2>2 DEF ToldInv, Current
  <1> QED BY <1>3, <1>4, <1>5 DEF IInv, RequestInv, TriggersInv

LEMMA UnchangedIInv == ASSUME IInv, UNCHANGED vars PROVE IInv'
  <1>1. UNCHANGED <<clip, attempt, answer, pc, stage, status, call, body, objects, clips, ledger,
                    store, caller, restarts, registered, wasRegistered>>
    BY DEF vars, edgeVars, httpVars, ingestVars, dataVars, worldVars
  <1>2. TInv'
    BY <1>1, IngestUnchanged, EdgeUnchanged DEF vars, IInv, TInv, HttpTypeOK
  <1>3. RequestInv'
    BY <1>1, SameRequest DEF IInv, RequestInv
  <1>4. TriggersInv'
    BY <1>1 DEF IInv, TriggersInv, ToldInv, Current
  <1> QED BY <1>2, <1>3, <1>4 DEF IInv

LEMMA NextIInv == IInv /\ [Next]_vars => IInv'
  <1> SUFFICES ASSUME IInv, [Next]_vars PROVE IInv'
    OBVIOUS
  <1>1. CASE UNCHANGED vars
    BY <1>1, UnchangedIInv
  <1>2. CASE \E t \in Triggers : Agent(t) \/ Send(t) \/ EndAttempt(t)
    BY <1>2, AgentIInv, SendIInv, EndAttemptIInv
  <1>3. CASE \E r \in Requests : Receive(r) \/ Serve(r) \/ BreakBody(r) \/ LoseRequest(r)
    BY <1>3, ReceiveIInv, ServeIInv, LostIInv
  <1>4. CASE World \/ GatewayRestarts \/ EdgeRestarts
    BY <1>4, WorldIInv, GatewayRestartsIInv, EdgeRestartsIInv
  <1> QED BY <1>1, <1>2, <1>3, <1>4 DEF Next, Finished

LEMMA InvariantHolds == Spec => []IInv
  BY InitIInv, NextIInv, PTL DEF Spec

-----------------------------------------------------------------------------
(* What the invariant is for.                                                *)

\* The types of every variable, for any number of triggers, attempts, windows
\* and restarts: uploadWithRetry never counts past its last attempt.
THEOREM TypeCorrect == Spec => []TypeOK
  <1>1. IInv => TypeOK
    BY DEF IInv, TInv, EdgeInv, HttpTypeOK, TypeOK
  <1> QED BY <1>1, InvariantHolds, PTL

\* Clip metadata never points to a missing or different object, for any number
\* of triggers, attempts and restarts: the order of Put and Create in
\* UploadClip and the two stores' lifetimes are enough.
THEOREM MetadataAlwaysHasItsObject == Spec => []MetadataHasItsObject
  <1>1. IInv => MetadataHasItsObject
    BY DEF IInv, RequestInv, ReqInv, StoreInv, MetadataHasItsObject
  <1> QED BY <1>1, InvariantHolds, PTL

\* With the in-memory object store no upload leaves an orphan, whatever fails.
THEOREM MemoryStoreNeverHasOrphans == Spec => []MemoryStoreHasNoOrphans
  <1>1. IInv => MemoryStoreHasNoOrphans
    BY DEF IInv, RequestInv, ReqInv, StoreInv, MemoryStoreHasNoOrphans
  <1> QED BY <1>1, InvariantHolds, PTL

\* UploadClip fails closed: an unreachable registry, an expired token or a
\* caller who may not upload never leaves an object or a record.
THEOREM UploadFailsClosed == Spec => []FailClosed
  <1>1. IInv => FailClosed
    BY DEF IInv, RequestInv, ReqInv, GateInv, Empty, FailClosed
  <1> QED BY <1>1, InvariantHolds, PTL

\* A request that stored something carries the window of its trigger.
LEMMA StoredIsCarried ==
  ASSUME IInv, NEW r \in Requests, ~Empty(r) \/ call[r] # "none"
  PROVE  body[r] = clip[r[1]] /\ attempt[r[1]] >= 1
  <1>1. ReqInv(r) /\ r[1] \in Triggers /\ r[2] \in Nat /\ r[2] >= 1
    BY RequestParts DEF IInv, RequestInv
  <1>2. r[2] <= attempt[r[1]] /\ attempt[r[1]] \in Nat
    BY <1>1, Begun, UploadConstants
    DEF UploadConstants, ReqInv, FreshInv, IInv, TInv, EdgeInv, EdgeTypeOK
  <1> QED BY <1>1, <1>2 DEF ReqInv, CarryInv

\* Every attempt of uploadWithRetry sends what its trigger froze, however far
\* the ring has rolled meanwhile and however late the handler stores it.
THEOREM ObjectIsAlwaysFrozenWindow == Spec => []ObjectIsFrozenWindow
  <1>1. IInv => ObjectIsFrozenWindow
    <2> SUFFICES ASSUME IInv, NEW t \in Triggers, NEW n \in Attempts,
                        objects[<<t, n>>] # NoWindow
                 PROVE  objects[<<t, n>>] = clip[t]
      BY DEF ObjectIsFrozenWindow
    <2>1. <<t, n>> \in Requests /\ ReqInv(<<t, n>>)
      BY DEF IInv, RequestInv, Requests
    <2> QED BY <2>1, StoredIsCarried DEF ReqInv, StoreInv, Empty
  <1> QED BY <1>1, InvariantHolds, PTL

\* The reply 201 to the current attempt is worth a recorded clip.
LEMMA OkIsRecorded ==
  ASSUME IInv, NEW t \in Triggers, attempt[t] >= 1, call[Current(t)] = "ok"
  PROVE  /\ Current(t) \in Requests
         /\ clip[t] # NoWindow
         /\ ledger[Current(t)] = clip[t]
         /\ restarts = 0 => clips[Current(t)] = clip[t]
  <1>1. Current(t) \in Requests /\ ReqInv(Current(t)) /\ clip[t] # NoWindow
    BY CurrentIsRequest DEF IInv, TInv, RequestInv, EdgeInv, Frozen
  <1>2. body[Current(t)] = clip[t]
    BY <1>1, StoredIsCarried DEF Current
  <1> QED BY <1>1, <1>2 DEF ReqInv, StoreInv

\* A trigger answered 200 names a clip that was recorded with the frozen
\* window; without a restart the gateway still serves it.
THEOREM AnsweredClipWasAlwaysRecorded == Spec => []AnsweredClipWasRecorded
  <1>1. IInv => AnsweredClipWasRecorded
    <2> SUFFICES ASSUME IInv, NEW t \in Triggers, answer[t] = 200
                 PROVE  attempt[t] >= 1 /\ call[Current(t)] = "ok"
      BY OkIsRecorded DEF AnsweredClipWasRecorded
    <2>1. attempt[t] >= 1 /\ stage[Current(t)] = "answered" /\ status[Current(t)] = 201
      BY DEF IInv, TriggersInv, ToldInv
    <2> QED BY <2>1, CurrentIsRequest DEF IInv, TInv, RequestInv, ReqInv, ReplyInv
  <1> QED BY <1>1, InvariantHolds, PTL

\* A client error passed through to the operator means that the attempt it
\* ended left neither metadata nor an orphaned object.
THEOREM RejectionAlwaysLeavesNothing == Spec => []RejectionLeavesNothing
  <1>1. IInv => RejectionLeavesNothing
    <2> SUFFICES ASSUME IInv, NEW t \in Triggers, answer[t] \in 400..499
                 PROVE  Empty(Current(t))
      BY DEF RejectionLeavesNothing, Empty
    <2>1. /\ attempt[t] >= 1 /\ stage[Current(t)] = "answered"
          /\ status[Current(t)] = answer[t]
      BY DEF IInv, TriggersInv, ToldInv
    <2>2. ReqInv(Current(t))
      BY <2>1, CurrentIsRequest DEF IInv, TInv, RequestInv
    <2> QED BY <2>1, <2>2 DEF ReqInv, ReplyInv
  <1> QED BY <1>1, InvariantHolds, PTL

-----------------------------------------------------------------------------
(* The HTTP upload path implements the delivery contract.                    *)

LEMMA EndAttemptRefines ==
  ASSUME IInv, NEW t \in Triggers, EndAttempt(t) PROVE Delivery!Next \/ UNCHANGED Delivery!vars
  <1>1. EdgeInv /\ UNCHANGED <<ledger, clips>>
    BY EndAttemptEdge DEF IInv, TInv, ingestVars, dataVars
  <1>2. CASE Replied(t) /\ UploadSucceeded(t) /\ status[Current(t)] = 201
    <2>1. attempt[t] >= 1
      BY <1>1, <1>2 DEF Replied, EdgeInv, AttemptInv
    <2>2. call[Current(t)] = "ok"
      BY <1>1, <1>2, <2>1, CurrentIsRequest DEF Replied, IInv, RequestInv, ReqInv, ReplyInv
    <2> QED BY <1>1, <1>2, <2>1, <2>2, OkIsRecorded, SucceededRefines
  <1>3. CASE UploadRejected(t, status[Current(t)])
    BY <1>1, <1>3, RejectedRefines
  <1>4. CASE UploadFailed(t)
    BY <1>1, <1>4, UploadFailedRefines
  <1> QED BY <1>2, <1>3, <1>4 DEF EndAttempt, ReceiveReply, AttemptFails

LEMMA ServeRefines ==
  ASSUME IInv, NEW r \in Requests, Serve(r) PROVE Delivery!Next \/ UNCHANGED Delivery!vars
  <1>1. call[r] # "none" => body[r] = clip[r[1]] /\ clip[r[1]] # NoWindow
    BY StoredIsCarried, RequestParts DEF IInv, TInv, EdgeInv, Frozen
  <1> QED BY <1>1, UploadClipRefines DEF Serve, IInv, TInv, RequestInv, ReqInv

LEMMA StepRefines == IInv /\ [Next]_vars => [Delivery!Next]_(Delivery!vars)
  <1> SUFFICES ASSUME IInv, [Next]_vars PROVE Delivery!Next \/ UNCHANGED Delivery!vars
    OBVIOUS
  <1>0. EdgeInv
    BY DEF IInv, TInv
  <1>1. CASE UNCHANGED vars
    BY <1>1, SameEdgeInvisible DEF vars, edgeVars, ingestVars, dataVars
  <1>2. ASSUME NEW t \in Triggers, Agent(t) \/ Send(t)
        PROVE  Delivery!Next \/ UNCHANGED Delivery!vars
    BY <1>0, <1>2, TriggerRefines, BeginAttemptRefines DEF Agent, Send, Post, ingestVars, dataVars
  <1>3. ASSUME NEW r \in Requests, Receive(r) \/ BreakBody(r) \/ LoseRequest(r)
        PROVE  UNCHANGED Delivery!vars
    BY <1>3, SameEdgeInvisible
    DEF Receive, BreakBody, LoseRequest, edgeVars, ingestVars, dataVars
  <1>4. CASE World
    BY <1>4, SameEdgeInvisible DEF World, ExpireToken, RestartCalibration, edgeVars, dataVars
  <1>5. CASE GatewayRestarts
    BY <1>5, RestartGatewayRefines DEF GatewayRestarts
  <1>6. CASE EdgeRestarts
    BY <1>0, <1>6, ResetEdgeRefines DEF EdgeRestarts, dataVars
  <1> QED BY <1>1, <1>2, <1>3, <1>4, <1>5, <1>6, EndAttemptRefines, ServeRefines DEF Next, Finished

\* The HTTP upload path keeps the at-least-once contract of the Uploader
\* interface for any triggers, attempts and restarts.
THEOREM UploadImplementsDelivery == Spec => ImplementsDelivery
  BY InvariantHolds, InitRefines, StepRefines, PTL
  DEF Spec, Init, ImplementsDelivery, Delivery!Spec
=============================================================================
