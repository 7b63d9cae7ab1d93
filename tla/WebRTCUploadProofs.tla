------------------------- MODULE WebRTCUploadProofs -------------------------
(***************************************************************************)
(* Proofs about WebRTCUpload for every set of triggers, every bound and    *)
(* any number of chunks: its types, the safety of a lossy transfer and of  *)
(* the acknowledgement, what the stores hold, and that this transport too  *)
(* implements ClipDelivery.                                                *)
(*                                                                         *)
(* The heart of the inductive invariant is what handleClipDataChannel has  *)
(* accumulated: chunks are dropped only before its handler is registered,  *)
(* so buf[r] is a run of consecutive chunks that ends with the last one    *)
(* read, and one long enough to be complete is the whole clip.             *)
(***************************************************************************)
EXTENDS WebRTCUpload, EdgeTriggerProofs

RtcTypeOK ==
  /\ offer \in [Requests -> {"none", "sent", "answered", "unauthorized", "invalid",
                             "failed", "lost"}]
  /\ link \in [Requests -> {"none", "signal", "opening", "open", "closed"}]
  /\ peer \in [Requests -> {"none", "signaled", "channel", "receiving", "serving",
                            "acked", "closed"}]
  /\ sent \in [Requests -> 0..Chunks]
  /\ read \in [Requests -> 0..Chunks]
  /\ buf \in [Requests -> Seq(1..Chunks)]
  /\ ack \in [Requests -> {"none", "ok", "error"}]

\* An attempt not begun has made no offer, and an offer not handled has no peer.
FreshInv(r) ==
  /\ r[2] > attempt[r[1]] => offer[r] = "none"
  /\ offer[r] \in {"none", "sent"} => peer[r] = "none"

\* Until the transfer is complete nothing of the clip exists at the gateway.
EarlyInv(r) ==
  peer[r] \in {"none", "signaled", "channel", "receiving"} => body[r] = NoWindow

\* What UploadClip works on is the window the trigger froze, all of it.
CarryInv(r) ==
  /\ body[r] = NoWindow => call[r] = "none" /\ Empty(r)
  /\ body[r] # NoWindow => body[r] = clip[r[1]] /\ Complete(r)

\* The accumulated chunks end with the last one read and leave none out.
BufInv(r) ==
  /\ peer[r] \in {"none", "signaled", "channel"} => buf[r] = <<>>
  /\ Len(buf[r]) <= read[r]
  /\ \A i \in 1..Len(buf[r]) : buf[r][i] = (read[r] - Len(buf[r])) + i

AckInv(r) == ack[r] = "ok" => call[r] = "ok"

\* A trigger that was told of a clip has the clip of its current attempt.
ToldInv(t) == answer[t] = 200 => attempt[t] >= 1 /\ call[Current(t)] = "ok"

ConnInv(r) == FreshInv(r) /\ EarlyInv(r) /\ CarryInv(r) /\ BufInv(r) /\ AckInv(r)
ReqInv(r)  == ConnInv(r) /\ StoreInv(r) /\ GateInv(r)

TInv        == IngestTypeOK /\ EdgeInv /\ RtcTypeOK /\ (registered => wasRegistered)
RequestInv  == \A r \in Requests : ReqInv(r)
TriggersInv == \A t \in Triggers : ToldInv(t)

IInv == TInv /\ RequestInv /\ TriggersInv

LEMMA InitIInv == Init => IInv
  <1> SUFFICES ASSUME Init PROVE IInv
    OBVIOUS
  <1>1. RtcTypeOK
    BY ChunkConstants DEF ChunkConstants, Init, RtcTypeOK
  <1>2. TInv
    BY <1>1, EdgeInitInv, IngestInitTypes DEF Init, IngestInit, TInv
  <1>3. ASSUME NEW r \in Requests PROVE ReqInv(r)
    <2>1. ConnInv(r)
      BY DEF Init, EdgeInit, IngestInit, ConnInv, FreshInv, EarlyInv, CarryInv, BufInv, AckInv, Empty
    <2>2. StoreInv(r) /\ GateInv(r)
      BY DEF Init, IngestInit, StoreInv, GateInv, Empty, NoWindow, RefusedBefore
    <2> QED BY <2>1, <2>2 DEF ReqInv
  <1>4. ASSUME NEW t \in Triggers PROVE ToldInv(t)
    BY <1>4 DEF Init, EdgeInit, ToldInv, NoStatus
  <1> QED BY <1>2, <1>3, <1>4 DEF IInv, RequestInv, TriggersInv

\* A step that does not touch a request keeps what is known of it.
LEMMA SameConn ==
  ASSUME NEW r, ConnInv(r),
         clip'[r[1]] = clip[r[1]], attempt'[r[1]] = attempt[r[1]],
         call'[r] = call[r], body'[r] = body[r], objects'[r] = objects[r], ledger'[r] = ledger[r],
         offer'[r] = offer[r], peer'[r] = peer[r], read'[r] = read[r], buf'[r] = buf[r],
         ack'[r] = ack[r]
  PROVE  ConnInv(r)'
  BY DEF ConnInv, FreshInv, EarlyInv, CarryInv, BufInv, AckInv, Empty, Complete

LEMMA SameRequest ==
  ASSUME NEW r, ReqInv(r),
         clip'[r[1]] = clip[r[1]], attempt'[r[1]] = attempt[r[1]],
         call'[r] = call[r], body'[r] = body[r], objects'[r] = objects[r],
         clips'[r] = clips[r], ledger'[r] = ledger[r],
         offer'[r] = offer[r], peer'[r] = peer[r], read'[r] = read[r], buf'[r] = buf[r],
         ack'[r] = ack[r],
         UNCHANGED <<store, caller>>,
         restarts' = 0 => restarts = 0, wasRegistered => wasRegistered'
  PROVE  ReqInv(r)'
  BY SameConn, SameStores DEF ReqInv

\* A trigger whose current attempt got through keeps its clip.
LEMMA TriggersKept ==
  ASSUME IInv, UNCHANGED <<attempt, answer>>,
         \A r \in Requests : call[r] = "ok" => call'[r] = "ok"
  PROVE  TriggersInv'
  <1> SUFFICES ASSUME NEW t \in Triggers PROVE ToldInv(t)'
    BY DEF TriggersInv
  <1>1. attempt[t] >= 1 => Current(t) \in Requests
    BY CurrentIsRequest DEF IInv, TInv
  <1> QED BY <1>1 DEF IInv, TriggersInv, ToldInv, Current

-----------------------------------------------------------------------------
(* Steps of the agent.                                                       *)

LEMMA AgentIInv == ASSUME IInv, NEW t \in Triggers, Agent(t) PROVE IInv'
  <1>0. UNCHANGED <<attempt, call, body, objects, clips, ledger, store, caller, restarts,
                    registered, wasRegistered, offer, link, peer, sent, read, buf, ack>>
    BY DEF Agent, Capture, Trigger, rtcVars, ingestVars, dataVars, worldVars
  <1>1. TInv'
    <2>1. EdgeInv'
      BY CaptureInv, TriggerEdgeInv DEF Agent, IInv, TInv
    <2>2. IngestTypeOK'
      BY IngestUnchanged DEF Agent, IInv, TInv
    <2> QED BY <1>0, <2>1, <2>2 DEF IInv, TInv, RtcTypeOK
  <1>2. ASSUME NEW r \in Requests PROVE ReqInv(r)'
    <2>1. CASE clip'[r[1]] = clip[r[1]]
      BY <1>0, <2>1, SameRequest DEF IInv, RequestInv
    <2>2. CASE clip'[r[1]] # clip[r[1]]
      <3>1. Trigger(t) /\ r[1] = t
        BY <2>2, RequestParts DEF Agent, Capture, Trigger, IInv, TInv, EdgeInv, EdgeTypeOK
      <3>2. r[2] > attempt[r[1]]
        BY <3>1, RequestParts DEF Trigger, IInv, TInv, EdgeInv, AttemptInv
      <3>3. ConnInv(r) /\ body[r] = NoWindow
        BY <3>2 DEF IInv, RequestInv, ReqInv, ConnInv, FreshInv, EarlyInv
      <3>4. ConnInv(r)'
        BY <1>0, <3>3 DEF ConnInv, FreshInv, EarlyInv, CarryInv, BufInv, AckInv, Empty
      <3>5. StoreInv(r)' /\ GateInv(r)'
        BY <1>0, SameStores DEF IInv, RequestInv, ReqInv
      <3> QED BY <3>4, <3>5 DEF ReqInv
    <2> QED BY <2>1, <2>2
  <1>3. ASSUME NEW u \in Triggers PROVE ToldInv(u)'
    <2>1. answer'[u] = answer[u] \/ answer'[u] = 503
      BY DEF Agent, Capture, Trigger, IInv, TInv, EdgeInv, EdgeTypeOK
    <2> QED BY <1>0, <2>1 DEF IInv, TriggersInv, ToldInv, Current
  <1> QED BY <1>1, <1>2, <1>3 DEF IInv, RequestInv, TriggersInv

LEMMA SendOfferIInv == ASSUME IInv, NEW t \in Triggers, SendOffer(t) PROVE IInv'
  <1> DEFINE n == attempt[t] + 1
  <1>0. /\ BeginAttempt(t) /\ UNCHANGED ingestVars
        /\ UNCHANGED <<clip, answer, peer, sent, read, buf, ack, call, body, objects, clips, ledger,
                       store, caller, restarts, registered, wasRegistered>>
        /\ offer' = [offer EXCEPT ![<<t, n>>] = "sent"]
        /\ link' = [link EXCEPT ![<<t, n>>] = "signal"]
    BY DEF SendOffer, BeginAttempt, ingestVars, dataVars, worldVars
  <1>1. EdgeInv' /\ attempt'[t] = n /\ \A u \in Triggers : u # t => attempt'[u] = attempt[u]
    <2>1. EdgeInv' /\ attempt'[t] = n
      BY <1>0, BeginAttemptInv DEF IInv, TInv
    <2>2. \A u \in Triggers : u # t => attempt'[u] = attempt[u]
      BY <1>0 DEF BeginAttempt, IInv, TInv, EdgeInv, EdgeTypeOK
    <2> QED BY <2>1, <2>2
  <1>2. TInv'
    <2>1. RtcTypeOK'
      BY <1>0 DEF IInv, TInv, RtcTypeOK
    <2> QED BY <1>0, <1>1, <2>1, IngestUnchanged DEF IInv, TInv
  <1>3. ASSUME NEW r \in Requests PROVE ReqInv(r)'
    <2>1. ReqInv(r) /\ r[1] \in Triggers /\ r[2] \in Nat /\ r = <<r[1], r[2]>>
          /\ attempt[r[1]] \in Nat
      BY RequestParts, UploadConstants
      DEF UploadConstants, IInv, RequestInv, TInv, EdgeInv, EdgeTypeOK
    <2>2. offer'[r] = IF r = <<t, n>> THEN "sent" ELSE offer[r]
      BY <1>0 DEF IInv, TInv, RtcTypeOK
    <2>3. r = <<t, n>> => r[1] = t /\ r[2] = n
      OBVIOUS
    <2>4. r = <<t, n>> => r[2] > attempt[r[1]]
      BY <2>1, <2>3
    <2>8. r[2] > attempt'[r[1]] => r # <<t, n>> /\ r[2] > attempt[r[1]]
      BY <1>1, <2>1, <2>3
    <2> HIDE DEF n
    <2>5. FreshInv(r)'
      BY <1>0, <2>1, <2>2, <2>4, <2>8 DEF ReqInv, ConnInv, FreshInv
    <2>6. EarlyInv(r)' /\ CarryInv(r)' /\ BufInv(r)' /\ AckInv(r)'
      BY <1>0, <2>1 DEF ReqInv, ConnInv, EarlyInv, CarryInv, BufInv, AckInv, Empty, Complete
    <2>7. StoreInv(r)' /\ GateInv(r)'
      BY <1>0, <2>1, SameStores DEF ReqInv
    <2> QED BY <2>5, <2>6, <2>7 DEF ReqInv, ConnInv
  <1>4. ASSUME NEW u \in Triggers PROVE ToldInv(u)'
    <2>1. CASE u = t
      BY <1>0, <2>1 DEF BeginAttempt, ToldInv, IInv, TInv, EdgeInv, Frozen, NoStatus
    <2>2. CASE u # t
      BY <1>0, <1>1, <2>2 DEF IInv, TriggersInv, ToldInv, Current
    <2> QED BY <2>1, <2>2
  <1> QED BY <1>2, <1>3, <1>4 DEF IInv, RequestInv, TriggersInv

\* The agent's own view of a connection is nothing the invariant relies on.
LEMMA LinkStep ==
  ASSUME IInv, EdgeInv', RtcTypeOK', UNCHANGED <<clip, attempt, offer, peer, read, buf, ack, ingestVars>>
  PROVE  TInv' /\ RequestInv'
  <1>1. UNCHANGED <<call, body, objects, clips, ledger, store, caller, restarts, registered,
                    wasRegistered>>
    BY DEF ingestVars, dataVars, worldVars
  <1>2. TInv'
    BY <1>1, IngestUnchanged DEF IInv, TInv
  <1> QED BY <1>1, <1>2, SameRequest DEF IInv, RequestInv

LEMMA OpeningIInv ==
  ASSUME IInv, NEW t \in Triggers, ChannelOpens(t) \/ SendChunk(t) PROVE IInv'
  <1>1. EdgeInv' /\ UNCHANGED <<clip, attempt, answer, offer, peer, read, buf, ack, ingestVars>>
    BY EdgeUnchanged DEF ChannelOpens, SendChunk, edgeVars, IInv, TInv
  <1>2. RtcTypeOK'
    <2>1. CASE ChannelOpens(t)
      BY <2>1 DEF ChannelOpens, IInv, TInv, RtcTypeOK
    <2>2. CASE SendChunk(t)
      <3> DEFINE c == Current(t)
      <3>1. /\ sent \in [Requests -> 0..Chunks] /\ c \in Requests
            /\ sent' = [sent EXCEPT ![c] = sent[c] + 1]
            /\ sent[c] < Chunks
        BY <2>2, CurrentIsRequest
        DEF SendChunk, Link, IInv, TInv, EdgeInv, AttemptInv, RtcTypeOK
      <3> HIDE DEF c
      <3>2. sent' \in [Requests -> 0..Chunks]
        <4>1. sent[c] + 1 \in 0..Chunks
          BY <3>1, ChunkConstants DEF ChunkConstants
        <4> QED BY <3>1, <4>1
      <3>3. UNCHANGED <<offer, link, peer, read, buf, ack>>
        BY <2>2 DEF SendChunk
      <3> QED BY <3>2, <3>3 DEF IInv, TInv, RtcTypeOK
    <2> QED BY <2>1, <2>2
  <1>3. TriggersInv'
    BY <1>1, TriggersKept DEF ingestVars
  <1> QED BY <1>1, <1>2, <1>3, LinkStep DEF IInv

\* How Upload can return.
LEMMA UploadReturns ==
  ASSUME IInv, NEW t \in Triggers, ReceiveAnswer(t) \/ EndAttempt(t)
  PROVE  /\ RtcTypeOK' /\ UNCHANGED <<clip, attempt, offer, peer, read, buf, ack, ingestVars>>
         /\ \/ UNCHANGED edgeVars
            \/ UploadFailed(t)
            \/ \E code \in {400, 401, 500, NoStatus} : UploadRejected(t, code)
            \/ pc[t] = "wait" /\ UploadSucceeded(t) /\ ack[Current(t)] = "ok"
  <1>1. RtcTypeOK'
    BY DEF ReceiveAnswer, EndAttempt, ReceiveAck, AttemptFails, Hangup, IInv, TInv, RtcTypeOK
  <1> QED BY <1>1
      DEF ReceiveAnswer, EndAttempt, ReceiveAck, AttemptFails, Link, edgeVars, UploadRejected,
          UploadFailed, UploadSucceeded, Finish

LEMMA UploadReturnsIInv ==
  ASSUME IInv, NEW t \in Triggers, ReceiveAnswer(t) \/ EndAttempt(t) PROVE IInv'
  <1>1. RtcTypeOK' /\ UNCHANGED <<clip, attempt, offer, peer, read, buf, ack, ingestVars>>
        /\ UNCHANGED call
    BY UploadReturns DEF ingestVars
  <1>2. CASE UNCHANGED edgeVars
    BY <1>1, <1>2, EdgeUnchanged, LinkStep, TriggersKept DEF edgeVars, IInv, TInv
  <1>3. ASSUME NEW code \in Codes, pc[t] = "wait", Finish(t, code),
               code = 200 => ack[Current(t)] = "ok"
        PROVE  IInv'
    <2>1. EdgeInv'
      BY <1>3, FinishInv DEF IInv, TInv
    <2>2. answer' = [answer EXCEPT ![t] = code]
      BY <1>3 DEF Finish
    <2>3. attempt[t] >= 1 /\ Current(t) \in Requests
      BY <1>3, CurrentIsRequest DEF IInv, TInv, EdgeInv, AttemptInv
    <2>4. code = 200 => call[Current(t)] = "ok"
      BY <1>3, <2>3 DEF IInv, RequestInv, ReqInv, ConnInv, AckInv
    <2>5. ASSUME NEW u \in Triggers PROVE ToldInv(u)'
      BY <1>1, <2>2, <2>3, <2>4
      DEF IInv, TriggersInv, TInv, EdgeInv, EdgeTypeOK, ToldInv, Current
    <2> QED BY <1>1, <2>1, <2>5, LinkStep DEF IInv, TriggersInv
  <1>4. CASE \E code \in {400, 401, 500, NoStatus} : UploadRejected(t, code)
    BY <1>3, <1>4 DEF UploadRejected, Codes, NoStatus
  <1>5. CASE UploadSucceeded(t) /\ ack[Current(t)] = "ok"
    BY <1>3, <1>5 DEF UploadSucceeded, Codes
  <1>6. CASE UploadFailed(t)
    <2>1. CASE Finish(t, 502)
      BY <1>3, <1>6, <2>1 DEF UploadFailed, Codes
    <2>2. CASE UNCHANGED <<ring, clip, attempt, answer>>
      BY <1>1, <1>6, <2>2, UploadFailedInv, LinkStep, TriggersKept DEF IInv, TInv
    <2> QED BY <1>6, <2>1, <2>2 DEF UploadFailed
  <1> QED BY <1>2, <1>4, <1>5, <1>6, UploadReturns

-----------------------------------------------------------------------------
(* Steps of the gateway before and after the service call.                   *)

\* A step of one connection that leaves the stores and the triggers alone.
LEMMA TransferStep ==
  ASSUME IInv, NEW s \in Requests, UNCHANGED <<edgeVars, ingestVars>>, RtcTypeOK',
         \A r \in Requests : r # s =>
           /\ offer'[r] = offer[r] /\ peer'[r] = peer[r] /\ read'[r] = read[r]
           /\ buf'[r] = buf[r] /\ ack'[r] = ack[r],
         FreshInv(s)', EarlyInv(s)', BufInv(s)', AckInv(s)',
         buf'[s] = buf[s] \/ body[s] = NoWindow
  PROVE  IInv'
  <1>1. UNCHANGED <<clip, attempt, answer, call, body, objects, clips, ledger, store, caller,
                    restarts, registered, wasRegistered>>
    BY DEF edgeVars, ingestVars, dataVars, worldVars
  <1>2. TInv'
    BY <1>1, EdgeUnchanged, IngestUnchanged DEF IInv, TInv
  <1>3. ASSUME NEW r \in Requests PROVE ReqInv(r)'
    <2>1. ReqInv(r)
      BY DEF IInv, RequestInv
    <2>2. CASE r # s
      BY <1>1, <2>1, <2>2, SameRequest
    <2>3. CASE r = s
      <3>1. CarryInv(r)'
        BY <1>1, <2>1, <2>3 DEF ReqInv, ConnInv, CarryInv, Empty, Complete
      <3>2. StoreInv(r)' /\ GateInv(r)'
        BY <1>1, <2>1, SameStores DEF ReqInv
      <3> QED BY <2>3, <3>1, <3>2 DEF ReqInv, ConnInv
    <2> QED BY <2>2, <2>3
  <1>4. TriggersInv'
    BY <1>1, TriggersKept
  <1> QED BY <1>2, <1>3, <1>4 DEF IInv, RequestInv

\* Steps that touch neither the chunks nor the acknowledgement.
LEMMA SignalingIInv ==
  ASSUME IInv, NEW s \in Requests,
         HandleOffer(s) \/ LoseOffer(s) \/ OnDataChannel(s) \/ RegisterHandler(s)
           \/ ChannelTimeout(s)
  PROVE  IInv'
  <1>1. UNCHANGED <<edgeVars, ingestVars, read, buf, ack>> /\ UNCHANGED <<attempt, call, body>>
    BY DEF HandleOffer, LoseOffer, OnDataChannel, RegisterHandler, ChannelTimeout, SetPeer,
      edgeVars, ingestVars
  <1>2. RtcTypeOK'
    BY DEF HandleOffer, LoseOffer, OnDataChannel, RegisterHandler, ChannelTimeout, SetPeer, IInv,
      TInv, RtcTypeOK
  <1>3. /\ \A r \in Requests : r # s => offer'[r] = offer[r] /\ peer'[r] = peer[r]
        /\ \/ offer[s] = "sent" /\ offer'[s] = "answered" /\ peer'[s] = "signaled"
           \/ offer[s] = "sent" /\ offer'[s] \in {"invalid", "failed", "unauthorized", "lost"}
              /\ peer'[s] = peer[s]
           \/ peer[s] = "signaled" /\ peer'[s] = "channel" /\ offer'[s] = offer[s]
           \/ peer[s] = "channel" /\ peer'[s] = "receiving" /\ offer'[s] = offer[s]
           \/ peer[s] = "receiving" /\ peer'[s] = "closed" /\ offer'[s] = offer[s]
    BY DEF HandleOffer, LoseOffer, OnDataChannel, RegisterHandler, ChannelTimeout, SetPeer, IInv,
      TInv, RtcTypeOK
  <1>4. ConnInv(s)
    BY DEF IInv, RequestInv, ReqInv
  <1>5. FreshInv(s)' /\ EarlyInv(s)' /\ AckInv(s)'
    BY <1>1, <1>3, <1>4 DEF ConnInv, FreshInv, EarlyInv, AckInv
  <1>6. BufInv(s)'
    BY <1>1, <1>3, <1>4 DEF ConnInv, FreshInv, BufInv
  <1> QED BY <1>1, <1>2, <1>3, <1>5, <1>6, TransferStep

\* The next chunk is dropped, or it continues the run that was accumulated.
LEMMA DeliverIInv == ASSUME IInv, NEW s \in Requests, Deliver(s) PROVE IInv'
  <1>1. UNCHANGED <<edgeVars, ingestVars, offer, link, peer, sent, ack>>
        /\ UNCHANGED <<attempt, call, body>>
    BY DEF Deliver, edgeVars, ingestVars
  <1>2. /\ read \in [Requests -> 0..Chunks] /\ sent \in [Requests -> 0..Chunks]
        /\ buf \in [Requests -> Seq(1..Chunks)]
        /\ read[s] \in 0..Chunks /\ sent[s] \in 0..Chunks /\ buf[s] \in Seq(1..Chunks)
        /\ read[s] < sent[s] /\ peer[s] \in {"channel", "receiving"}
    BY DEF Deliver, IInv, TInv, RtcTypeOK
  <1>3. read[s] + 1 \in 0..Chunks /\ read[s] + 1 \in 1..Chunks
    BY <1>2, ChunkConstants DEF ChunkConstants
  <1>4. read' = [read EXCEPT ![s] = read[s] + 1] /\ read'[s] = read[s] + 1
        /\ \A r \in Requests : r # s => read'[r] = read[r]
    BY <1>2 DEF Deliver
  <1>5. ConnInv(s)
    BY DEF IInv, RequestInv, ReqInv
  <1>6. body[s] = NoWindow /\ Len(buf[s]) \in Nat
    BY <1>2, <1>5 DEF ConnInv, EarlyInv
  <1>7. CASE peer[s] = "channel"
    <2>1. buf' = buf /\ buf[s] = <<>>
      BY <1>5, <1>7 DEF Deliver, ConnInv, BufInv
    <2>2. RtcTypeOK'
      BY <1>1, <1>3, <1>4, <2>1 DEF IInv, TInv, RtcTypeOK
    <2>3. BufInv(s)'
      BY <1>2, <1>4, <2>1 DEF BufInv
    <2> QED BY <1>1, <1>4, <1>5, <2>1, <2>2, <2>3, TransferStep
        DEF ConnInv, FreshInv, EarlyInv, AckInv
  <1>8. CASE peer[s] = "receiving"
    <2>1. /\ buf' = [buf EXCEPT ![s] = Append(buf[s], read[s] + 1)]
          /\ buf'[s] = Append(buf[s], read[s] + 1)
          /\ \A r \in Requests : r # s => buf'[r] = buf[r]
      BY <1>2, <1>8 DEF Deliver
    <2>2. Append(buf[s], read[s] + 1) \in Seq(1..Chunks)
      BY <1>2, <1>3
    <2>3. RtcTypeOK'
      BY <1>1, <1>3, <1>4, <2>1, <2>2 DEF IInv, TInv, RtcTypeOK
    <2>4. /\ Len(buf'[s]) = Len(buf[s]) + 1
          /\ \A i \in 1..Len(buf[s]) : buf'[s][i] = buf[s][i]
          /\ buf'[s][Len(buf[s]) + 1] = read[s] + 1
      BY <1>2, <1>3, <2>1
    <2>5. BufInv(s)'
      <3>1. Len(buf[s]) <= read[s]
            /\ \A i \in 1..Len(buf[s]) : buf[s][i] = (read[s] - Len(buf[s])) + i
        BY <1>5 DEF ConnInv, BufInv
      <3>2. Len(buf[s])' <= read'[s]
        BY <1>2, <1>4, <1>6, <2>4, <3>1
      <3>3. ASSUME NEW i \in 1..Len(buf[s])'
            PROVE  buf'[s][i] = (read'[s] - Len(buf[s])') + i
        <4>1. i \in 1..Len(buf[s]) \/ i = Len(buf[s]) + 1
          BY <1>6, <2>4, <3>3
        <4> QED BY <1>2, <1>4, <1>6, <2>4, <3>1, <4>1
      <3> QED BY <1>1, <1>8, <3>2, <3>3 DEF BufInv
    <2> QED BY <1>1, <1>4, <1>5, <1>6, <2>1, <2>3, <2>5, TransferStep
        DEF ConnInv, FreshInv, EarlyInv, AckInv
  <1> QED BY <1>2, <1>7, <1>8

LEMMA CloseAfterAckIInv == ASSUME IInv, NEW s \in Requests, CloseAfterAck(s) PROVE IInv'
  <1>1. /\ UNCHANGED <<edgeVars, ingestVars, offer, link, sent, read, buf>>
        /\ UNCHANGED <<attempt, call, body>>
    BY DEF CloseAfterAck, SetPeer, edgeVars, ingestVars
  <1>2. RtcTypeOK'
    BY DEF CloseAfterAck, SetPeer, IInv, TInv, RtcTypeOK
  <1>3. /\ \A r \in Requests : r # s => ack'[r] = ack[r] /\ peer'[r] = peer[r]
        /\ ack'[s] \in {"none", ack[s]} /\ peer[s] = "acked" /\ peer'[s] = "closed"
    BY DEF CloseAfterAck, SetPeer, IInv, TInv, RtcTypeOK
  <1>4. ConnInv(s)
    BY DEF IInv, RequestInv, ReqInv
  <1>5. FreshInv(s)' /\ EarlyInv(s)' /\ AckInv(s)' /\ BufInv(s)'
    BY <1>1, <1>3, <1>4 DEF ConnInv, FreshInv, EarlyInv, AckInv, BufInv
  <1> QED BY <1>1, <1>2, <1>3, <1>5, TransferStep

-----------------------------------------------------------------------------
(* The service call.                                                         *)

\* A complete transfer is the clip: enough consecutive chunks are all of them.
LEMMA CompleteIsWhole ==
  ASSUME IInv, NEW s \in Requests, Complete(s)
  PROVE  buf[s] = [i \in 1..Chunks |-> i]
  <1>1. /\ buf[s] \in Seq(1..Chunks) /\ read[s] \in 0..Chunks /\ Len(buf[s]) \in Nat
        /\ Len(buf[s]) >= Chunks /\ Len(buf[s]) <= read[s]
        /\ \A i \in 1..Len(buf[s]) : buf[s][i] = (read[s] - Len(buf[s])) + i
    BY DEF IInv, TInv, RtcTypeOK, RequestInv, ReqInv, ConnInv, BufInv, Complete
  <1>2. Len(buf[s]) = Chunks /\ read[s] = Chunks
    BY <1>1, ChunkConstants DEF ChunkConstants
  <1>3. \A i \in 1..Chunks : buf[s][i] = i
    BY <1>1, <1>2, ChunkConstants DEF ChunkConstants
  <1>4. buf[s] = [i \in 1..Chunks |-> buf[s][i]]
    BY <1>1, <1>2
  <1> QED BY <1>3, <1>4

LEMMA StartUploadIInv == ASSUME IInv, NEW s \in Requests, StartUpload(s) PROVE IInv'
  <1>1. /\ UNCHANGED <<edgeVars, offer, link, sent, read, buf, ack, dataVars, worldVars>>
        /\ UNCHANGED <<clip, attempt, answer, objects, clips, ledger, store, caller, restarts,
                       registered, wasRegistered>>
    BY DEF StartUpload, SetPeer, edgeVars, dataVars, worldVars
  <1>2. ReqInv(s) /\ s[1] \in Triggers /\ s[2] \in Nat /\ s[2] >= 1
    BY RequestParts DEF IInv, RequestInv
  <1>3. /\ body[s] = NoWindow /\ call[s] = "none" /\ Empty(s) /\ clips[s] = NoWindow
        /\ peer[s] = "receiving" /\ Complete(s) /\ ack[s] # "ok" /\ offer[s] \notin {"none", "sent"}
    BY <1>2
    DEF StartUpload, ReqInv, ConnInv, FreshInv, EarlyInv, CarryInv, AckInv, StoreInv
  <1>4. Assembled(s) = clip[s[1]]
    BY <1>3, CompleteIsWhole DEF Assembled
  <1>5. clip[s[1]] \in Contents /\ clip[s[1]] # NoWindow
    <2>1. attempt[s[1]] \in Nat /\ ~(s[2] > attempt[s[1]])
      BY <1>2, <1>3, UploadConstants
      DEF UploadConstants, ReqInv, ConnInv, FreshInv, IInv, TInv, EdgeInv, EdgeTypeOK
    <2>2. attempt[s[1]] >= 1
      BY <1>2, <2>1
    <2> QED BY <1>2, <2>2 DEF IInv, TInv, EdgeInv, EdgeTypeOK, Frozen
  <1>6. /\ body' = [body EXCEPT ![s] = clip[s[1]]] /\ call' = [call EXCEPT ![s] = "enter"]
        /\ peer' = [peer EXCEPT ![s] = "serving"]
    BY <1>4 DEF StartUpload, SetPeer
  <1>7. body \in [Requests -> Contents] /\ call \in [Requests -> {"none"} \cup Running \cup Results]
    BY DEF IInv, TInv, IngestTypeOK
  <1>8. TInv'
    <2>1. body' \in [Requests -> Contents]
      BY <1>5, <1>6, <1>7
    <2>2. call' \in [Requests -> {"none"} \cup Running \cup Results]
      BY <1>6, <1>7 DEF Running
    <2>3. IngestTypeOK'
      BY <1>1, <2>1, <2>2, Zenon DEF IInv, TInv, IngestTypeOK, dataVars, worldVars
    <2>4. RtcTypeOK'
      BY <1>1, <1>6 DEF IInv, TInv, RtcTypeOK
    <2> QED BY <1>1, <2>3, <2>4, EdgeUnchanged DEF IInv, TInv
  <1>9. ASSUME NEW r \in Requests PROVE ReqInv(r)'
    <2>1. CASE r # s
      <3>1. body'[r] = body[r] /\ call'[r] = call[r] /\ peer'[r] = peer[r]
        BY <1>6, <1>7, <2>1 DEF IInv, TInv, RtcTypeOK
      <3> QED BY <1>1, <3>1, SameRequest DEF IInv, RequestInv
    <2>2. CASE r = s
      <3>1. body'[r] = clip[r[1]] /\ call'[r] = "enter" /\ peer'[r] = "serving"
        BY <1>6, <1>7, <2>2 DEF IInv, TInv, RtcTypeOK
      <3>2. FreshInv(r)' /\ EarlyInv(r)' /\ CarryInv(r)' /\ BufInv(r)' /\ AckInv(r)'
        BY <1>1, <1>2, <1>3, <1>5, <2>2, <3>1
        DEF ReqInv, ConnInv, FreshInv, EarlyInv, CarryInv, BufInv, AckInv, Complete
      <3>3. StoreInv(r)' /\ GateInv(r)'
        BY <1>1, <1>3, <2>2, <3>1 DEF StoreInv, GateInv, Empty, RefusedBefore
      <3> QED BY <3>2, <3>3 DEF ReqInv, ConnInv
    <2> QED BY <2>1, <2>2
  <1>10. TriggersInv'
    BY <1>1, <1>3, <1>6, <1>7, TriggersKept
  <1> QED BY <1>8, <1>9, <1>10 DEF IInv, RequestInv

LEMMA ServeIInv == ASSUME IInv, NEW s \in Requests, Serve(s) PROVE IInv'
  <1>1. /\ UNCHANGED <<edgeVars, worldVars, offer, link, sent, read, buf, body>>
        /\ UNCHANGED <<clip, attempt, answer, store, caller, restarts, registered, wasRegistered>>
    BY DEF Serve, SendAck, SetPeer, edgeVars, worldVars
  <1>2. /\ RtcTypeOK'
        /\ \A r \in Requests : r # s => peer'[r] = peer[r] /\ ack'[r] = ack[r]
        /\ peer[s] = "serving" /\ peer'[s] \in {"serving", "acked", "closed"}
        /\ ack'[s] = "ok" => call'[s] = "ok" \/ ack[s] = "ok"
    BY DEF Serve, SendAck, SetPeer, IInv, TInv, RtcTypeOK
  <1>3. UploadClip(s) /\ call[s] \in Running
    BY DEF Serve, UploadClip, Authorize, CheckCamera, ReadBody, PutObject, RecordClip, Running
  <1>4. TInv'
    BY <1>1, <1>2, <1>3, UploadClipTypes, EdgeUnchanged DEF IInv, TInv
  <1>5. \A r \in Requests : r # s =>
          /\ call'[r] = call[r] /\ objects'[r] = objects[r] /\ clips'[r] = clips[r]
          /\ ledger'[r] = ledger[r]
    BY <1>3, UploadClipFrame DEF IInv, TInv
  <1>6. ASSUME NEW r \in Requests PROVE ReqInv(r)'
    <2>1. ReqInv(r)
      BY DEF IInv, RequestInv
    <2>2. CASE r # s
      BY <1>1, <1>2, <1>5, <2>1, <2>2, SameRequest
    <2>3. CASE r = s
      <3>1. StoreInv(r)' /\ GateInv(r)'
        BY <1>1, <1>3, <2>1, <2>3, UploadClipInv DEF ReqInv, IInv, TInv
      <3>2. body[r] # NoWindow
        BY <1>3, <2>1, <2>3 DEF ReqInv, ConnInv, CarryInv, Running
      <3>3. FreshInv(r)' /\ EarlyInv(r)' /\ CarryInv(r)' /\ BufInv(r)'
        BY <1>1, <1>2, <2>1, <2>3, <3>2
        DEF ReqInv, ConnInv, FreshInv, EarlyInv, CarryInv, BufInv, Complete
      <3>4. AckInv(r)'
        BY <1>2, <1>3, <2>1, <2>3 DEF ReqInv, ConnInv, AckInv, Running
      <3> QED BY <3>1, <3>3, <3>4 DEF ReqInv, ConnInv
    <2> QED BY <2>2, <2>3
  <1>7. TriggersInv'
    BY <1>1, <1>3, <1>5, TriggersKept DEF Running
  <1> QED BY <1>4, <1>6, <1>7 DEF IInv, RequestInv

-----------------------------------------------------------------------------
(* Time and restarts.                                                        *)

LEMMA WorldIInv == ASSUME IInv, World PROVE IInv'
  <1>1. UNCHANGED <<call, body, objects, clips, ledger, store, caller, clip, attempt, answer, offer,
                    link, peer, sent, read, buf, ack>> /\ UNCHANGED edgeVars
    BY DEF World, ExpireToken, RestartCalibration, edgeVars, rtcVars, dataVars
  <1>2. /\ restarts' = 0 => restarts = 0
        /\ wasRegistered' = wasRegistered
        /\ (registered => wasRegistered) => (registered' => wasRegistered')
    BY DEF World, ExpireToken, RestartCalibration, CountRestart, IInv, TInv, IngestTypeOK
  <1>3. TInv'
    BY <1>1, <1>2, WorldTypes, EdgeUnchanged DEF World, IInv, TInv, RtcTypeOK
  <1>4. RequestInv'
    BY <1>1, <1>2, SameRequest DEF IInv, RequestInv
  <1> QED BY <1>1, <1>3, <1>4, TriggersKept DEF IInv

LEMMA GatewayRestartsIInv == ASSUME IInv, GatewayRestarts PROVE IInv'
  <1>1. UNCHANGED <<edgeVars, link, sent, read, buf, body, ledger, registered, wasRegistered>>
        /\ UNCHANGED <<clip, attempt, answer>>
    BY DEF GatewayRestarts, RestartGateway, edgeVars
  <1>2. ASSUME NEW r \in Requests
        PROVE  /\ objects'[r] = NoWindow \/ objects'[r] = objects[r]
               /\ call'[r] = (IF call[r] \in Running THEN "none" ELSE call[r])
               /\ peer'[r] = (IF peer[r] = "none" THEN "none" ELSE "closed")
               /\ ack'[r] = "none"
               /\ \/ offer'[r] = offer[r]
                  \/ offer[r] \notin {"none", "sent"} /\ offer'[r] = "lost"
    BY <1>2 DEF GatewayRestarts, RestartGateway, CutCalls
  <1>3. TInv'
    <2>1. RtcTypeOK'
      BY <1>1 DEF GatewayRestarts, IInv, TInv, RtcTypeOK
    <2> QED BY <1>1, <2>1, RestartGatewayTypes, EdgeUnchanged DEF GatewayRestarts, IInv, TInv
  <1>4. ASSUME NEW r \in Requests PROVE ReqInv(r)'
    <2>1. ReqInv(r)
      BY DEF IInv, RequestInv
    <2>2. StoreInv(r)' /\ GateInv(r)'
      BY <1>1, <2>1, RestartGatewayInv DEF GatewayRestarts, ReqInv, IInv, TInv
    <2>3. FreshInv(r)' /\ EarlyInv(r)' /\ BufInv(r)' /\ AckInv(r)'
      BY <1>1, <1>2, <2>1 DEF ReqInv, ConnInv, FreshInv, EarlyInv, BufInv, AckInv
    <2>4. CarryInv(r)'
      BY <1>1, <1>2, <2>1 DEF ReqInv, ConnInv, CarryInv, Empty, Complete, Running
    <2> QED BY <2>2, <2>3, <2>4 DEF ReqInv, ConnInv
  <1>5. TriggersInv'
    BY <1>1, <1>2, TriggersKept DEF Running
  <1> QED BY <1>3, <1>4, <1>5 DEF IInv, RequestInv

LEMMA EdgeRestartsIInv == ASSUME IInv, EdgeRestarts PROVE IInv'
  <1>1. UNCHANGED <<clip, attempt, answer, offer, peer, sent, read, buf, ack, call, body, objects,
                    clips, ledger, store, caller, registered, wasRegistered>> /\ restarts' # 0
        /\ restarts' \in 0..MaxRestarts
    BY CountRestartTypes DEF EdgeRestarts, ResetEdge, dataVars, IInv, TInv, IngestTypeOK
  <1>2. TInv'
    <2>1. IngestTypeOK'
      BY <1>1, Zenon DEF EdgeRestarts, IInv, TInv, IngestTypeOK
    <2>2. RtcTypeOK'
      BY <1>1 DEF EdgeRestarts, IInv, TInv, RtcTypeOK
    <2> QED BY <1>1, <2>1, <2>2, ResetEdgeInv DEF EdgeRestarts, IInv, TInv
  <1>3. RequestInv'
    BY <1>1, SameRequest DEF IInv, RequestInv
  <1> QED BY <1>1, <1>2, <1>3, TriggersKept DEF IInv

LEMMA UnchangedIInv == ASSUME IInv, UNCHANGED vars PROVE IInv'
  <1>1. UNCHANGED <<clip, attempt, answer, pc, offer, link, peer, sent, read, buf, ack, call, body,
                    objects, clips, ledger, store, caller, restarts, registered, wasRegistered>>
    BY DEF vars, edgeVars, rtcVars, ingestVars, dataVars, worldVars
  <1>2. TInv'
    BY <1>1, IngestUnchanged, EdgeUnchanged DEF vars, IInv, TInv, RtcTypeOK
  <1>3. RequestInv'
    BY <1>1, SameRequest DEF IInv, RequestInv
  <1> QED BY <1>1, <1>2, <1>3, TriggersKept DEF IInv

LEMMA NextIInv == IInv /\ [Next]_vars => IInv'
  <1> SUFFICES ASSUME IInv, [Next]_vars PROVE IInv'
    OBVIOUS
  <1>1. CASE UNCHANGED vars
    BY <1>1, UnchangedIInv
  <1>2. CASE \E t \in Triggers : Agent(t) \/ SendOffer(t) \/ ReceiveAnswer(t)
                                 \/ ChannelOpens(t) \/ SendChunk(t) \/ EndAttempt(t)
    BY <1>2, AgentIInv, SendOfferIInv, OpeningIInv, UploadReturnsIInv
  <1>3. CASE \E r \in Requests : HandleOffer(r) \/ LoseOffer(r) \/ OnDataChannel(r)
                                 \/ Deliver(r) \/ Gateway(r)
    BY <1>3, SignalingIInv, DeliverIInv, StartUploadIInv, ServeIInv, CloseAfterAckIInv DEF Gateway
  <1>4. CASE World \/ GatewayRestarts \/ EdgeRestarts
    BY <1>4, WorldIInv, GatewayRestartsIInv, EdgeRestartsIInv
  <1> QED BY <1>1, <1>2, <1>3, <1>4 DEF Next, Finished

LEMMA InvariantHolds == Spec => []IInv
  BY InitIInv, NextIInv, PTL DEF Spec

-----------------------------------------------------------------------------
(* What the invariant is for.                                                *)

\* The types of every variable: the agent never sends, and the gateway never
\* reads or keeps, more chunks than a clip has.
THEOREM TypeCorrect == Spec => []TypeOK
  <1>1. IInv => TypeOK
    BY DEF IInv, TInv, EdgeInv, RtcTypeOK, TypeOK
  <1> QED BY <1>1, InvariantHolds, PTL

\* A chunk that arrives before OnMessage has its handler is lost, and with it
\* the transfer: UploadClip never sees a clip with a hole, for any number of
\* chunks.
THEOREM LossyTransferAlwaysStoresNothing == Spec => []LossyTransferStoresNothing
  <1>1. IInv => LossyTransferStoresNothing
    <2> SUFFICES ASSUME IInv, NEW r \in Requests, call[r] # "none"
                 PROVE  ~(Len(buf[r]) < read[r])
      BY DEF LossyTransferStoresNothing
    <2>1. Len(buf[r]) >= Chunks
      BY DEF IInv, RequestInv, ReqInv, ConnInv, CarryInv, Complete
    <2>2. read[r] \in 0..Chunks /\ buf[r] \in Seq(1..Chunks) /\ Len(buf[r]) \in Nat
      BY DEF IInv, TInv, RtcTypeOK
    <2> QED BY <2>1, <2>2, ChunkConstants DEF ChunkConstants
  <1> QED BY <1>1, InvariantHolds, PTL

\* A request whose service call has begun carries the window of its trigger.
LEMMA StartedIsCarried ==
  ASSUME IInv, NEW r \in Requests, call[r] # "none" \/ ~Empty(r)
  PROVE  body[r] = clip[r[1]] /\ clip[r[1]] # NoWindow
  BY DEF IInv, RequestInv, ReqInv, ConnInv, CarryInv

\* A clip whose service call returned ok was recorded as it was frozen.
LEMMA OkIsRecorded ==
  ASSUME IInv, NEW r \in Requests, call[r] = "ok"
  PROVE  /\ clip[r[1]] # NoWindow
         /\ ledger[r] = clip[r[1]]
         /\ restarts = 0 => clips[r] = clip[r[1]]
  BY StartedIsCarried DEF IInv, RequestInv, ReqInv, StoreInv

\* The acknowledgement the gateway sends is a promise kept: the clip it is for
\* is recorded, and is the frozen window.
THEOREM AckAlwaysMeansRecorded == Spec => []AckMeansRecorded
  <1>1. IInv => AckMeansRecorded
    <2> SUFFICES ASSUME IInv, NEW t \in Triggers, NEW n \in Attempts, ack[<<t, n>>] = "ok"
                 PROVE  clip[t] # NoWindow /\ ledger[<<t, n>>] = clip[t]
      BY DEF AckMeansRecorded
    <2>1. <<t, n>> \in Requests /\ call[<<t, n>>] = "ok"
      BY DEF Requests, IInv, RequestInv, ReqInv, ConnInv, AckInv
    <2> QED BY <2>1, OkIsRecorded
  <1> QED BY <1>1, InvariantHolds, PTL

\* The chunks put together again are the bytes of the window the trigger froze.
THEOREM ObjectIsAlwaysFrozenWindow == Spec => []ObjectIsFrozenWindow
  <1>1. IInv => ObjectIsFrozenWindow
    <2> SUFFICES ASSUME IInv, NEW t \in Triggers, NEW n \in Attempts,
                        objects[<<t, n>>] # NoWindow
                 PROVE  objects[<<t, n>>] = clip[t]
      BY DEF ObjectIsFrozenWindow
    <2>1. <<t, n>> \in Requests /\ ReqInv(<<t, n>>)
      BY DEF IInv, RequestInv, Requests
    <2> QED BY <2>1, StartedIsCarried DEF ReqInv, StoreInv, Empty
  <1> QED BY <1>1, InvariantHolds, PTL

\* A trigger answered 200 over WebRTC names a clip that was recorded with the
\* frozen window; without a restart the gateway still serves it.
THEOREM AnsweredClipWasAlwaysRecorded == Spec => []AnsweredClipWasRecorded
  <1>1. IInv => AnsweredClipWasRecorded
    <2> SUFFICES ASSUME IInv, NEW t \in Triggers, answer[t] = 200
                 PROVE  /\ Current(t) \in Requests
                        /\ clip[t] # NoWindow
                        /\ ledger[Current(t)] = clip[t]
                        /\ restarts = 0 => clips[Current(t)] = clip[t]
      BY DEF AnsweredClipWasRecorded
    <2>1. call[Current(t)] = "ok" /\ Current(t) \in Requests
      BY CurrentIsRequest DEF IInv, TInv, TriggersInv, ToldInv
    <2>2. Current(t)[1] = t
      BY DEF Current
    <2> QED BY <2>1, <2>2, OkIsRecorded
  <1> QED BY <1>1, InvariantHolds, PTL

\* The service call fails closed and its stores stay in step over this
\* transport too.
THEOREM StoresStayInStep ==
  Spec => [](FailClosed /\ MetadataHasItsObject /\ MemoryStoreHasNoOrphans)
  <1>1. IInv => FailClosed /\ MetadataHasItsObject /\ MemoryStoreHasNoOrphans
    BY DEF IInv, RequestInv, ReqInv, StoreInv, GateInv, Empty, FailClosed, MetadataHasItsObject,
      MemoryStoreHasNoOrphans
  <1> QED BY <1>1, InvariantHolds, PTL

-----------------------------------------------------------------------------
(* The WebRTC upload path implements the delivery contract.                  *)

LEMMA UploadReturnsRefines ==
  ASSUME IInv, NEW t \in Triggers, ReceiveAnswer(t) \/ EndAttempt(t)
  PROVE  Delivery!Next \/ UNCHANGED Delivery!vars
  <1>1. EdgeInv /\ UNCHANGED <<ledger, clips>>
    BY UploadReturns DEF IInv, TInv, ingestVars, dataVars
  <1>2. CASE UNCHANGED edgeVars
    BY <1>1, <1>2, SameEdgeInvisible DEF edgeVars
  <1>3. CASE UploadFailed(t)
    BY <1>1, <1>3, UploadFailedRefines
  <1>4. CASE \E code \in {400, 401, 500, NoStatus} : UploadRejected(t, code)
    BY <1>1, <1>4, RejectedRefines
  <1>5. CASE pc[t] = "wait" /\ UploadSucceeded(t) /\ ack[Current(t)] = "ok"
    <2>1. Current(t) \in Requests /\ Current(t)[1] = t
      BY <1>1, <1>5, CurrentIsRequest DEF EdgeInv, AttemptInv, Current
    <2>2. call[Current(t)] = "ok"
      BY <1>5, <2>1 DEF IInv, RequestInv, ReqInv, ConnInv, AckInv
    <2> QED BY <1>1, <1>5, <2>1, <2>2, OkIsRecorded, SucceededRefines
  <1> QED BY <1>2, <1>3, <1>4, <1>5, UploadReturns

LEMMA ServeRefines ==
  ASSUME IInv, NEW r \in Requests, Serve(r) PROVE Delivery!Next \/ UNCHANGED Delivery!vars
  <1>1. UNCHANGED edgeVars
    BY DEF Serve, SendAck, SetPeer
  <1> QED BY <1>1, StartedIsCarried, UploadClipRefines DEF Serve, IInv, TInv, RequestInv, ReqInv

LEMMA QuietRefines ==
  ASSUME NEW r \in Requests,
         HandleOffer(r) \/ LoseOffer(r) \/ OnDataChannel(r) \/ Deliver(r) \/ RegisterHandler(r)
           \/ StartUpload(r) \/ ChannelTimeout(r) \/ CloseAfterAck(r)
  PROVE  UNCHANGED Delivery!vars
  BY SameEdgeInvisible
  DEF HandleOffer, LoseOffer, OnDataChannel, Deliver, RegisterHandler, StartUpload, ChannelTimeout,
      CloseAfterAck, SetPeer, edgeVars, ingestVars, dataVars

LEMMA StepRefines == IInv /\ [Next]_vars => [Delivery!Next]_(Delivery!vars)
  <1> SUFFICES ASSUME IInv, [Next]_vars PROVE Delivery!Next \/ UNCHANGED Delivery!vars
    OBVIOUS
  <1>0. EdgeInv
    BY DEF IInv, TInv
  <1>1. CASE UNCHANGED vars
    BY <1>1, SameEdgeInvisible DEF vars, edgeVars, ingestVars, dataVars
  <1>2. ASSUME NEW t \in Triggers, Agent(t) \/ SendOffer(t)
        PROVE  Delivery!Next \/ UNCHANGED Delivery!vars
    BY <1>0, <1>2, TriggerRefines, BeginAttemptRefines DEF Agent, SendOffer, ingestVars, dataVars
  <1>3. ASSUME NEW t \in Triggers, ChannelOpens(t) \/ SendChunk(t)
        PROVE  UNCHANGED Delivery!vars
    BY <1>3, SameEdgeInvisible DEF ChannelOpens, SendChunk, edgeVars, ingestVars, dataVars
  <1>4. CASE World
    BY <1>4, SameEdgeInvisible DEF World, ExpireToken, RestartCalibration, edgeVars, dataVars
  <1>5. CASE GatewayRestarts
    BY <1>5, RestartGatewayRefines DEF GatewayRestarts
  <1>6. CASE EdgeRestarts
    BY <1>0, <1>6, ResetEdgeRefines DEF EdgeRestarts, dataVars
  <1> QED BY <1>1, <1>2, <1>3, <1>4, <1>5, <1>6, UploadReturnsRefines, ServeRefines, QuietRefines
          DEF Next, Finished, Gateway

\* The data channel with its acknowledgement keeps the same at-least-once
\* contract as plain HTTP, for any triggers, attempts, chunks and restarts.
THEOREM WebRTCImplementsDelivery == Spec => ImplementsDelivery
  BY InvariantHolds, InitRefines, StepRefines, PTL
  DEF Spec, Init, ImplementsDelivery, Delivery!Spec
=============================================================================
