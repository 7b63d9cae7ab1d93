---------------------------- MODULE WebRTCUpload ----------------------------
(***************************************************************************)
(* The alternative transport (UPLOAD_TRANSPORT=webrtc, docs/adr/0009): one *)
(* HTTP round-trip exchanges the session descriptions, the clip's bytes    *)
(* flow in chunks over a reliable, ordered data channel, and the gateway   *)
(* acknowledges over the same channel what UploadClip returned             *)
(* (edge-agent/internal/webrtcupload/client.go and                         *)
(* media-ingest-gateway/internal/httpapi/webrtc.go).                       *)
(*                                                                         *)
(* The library (pion) is external.  What matters of it: messages arrive in *)
(* the order sent or not at all; a message that arrives while OnMessage    *)
(* has no handler is dropped; the two ends learn that the channel is open  *)
(* independently; closing one end loses what is still in flight.           *)
(***************************************************************************)
EXTENDS EdgeTrigger, Sequences

CONSTANT Chunks   \* bound: chunks per clip (chunkSize bytes, the last shorter)

ASSUME ChunkConstants == Chunks \in Nat /\ Chunks >= 1

Mangled == MaxWindow + 1    \* bytes that are no window's encoding

VARIABLES
  offer,  \* offer[r]: the signaling round-trip
  link,   \* link[r]: the agent's peer connection
  peer,   \* peer[r]: the gateway's peer connection and its goroutine
  sent,   \* sent[r]: chunks the agent has sent
  read,   \* read[r]: chunks the gateway's end has read from the channel
  buf,    \* buf[r]: the chunks handleClipDataChannel has accumulated
  ack     \* ack[r]: the acknowledgement on its way to the agent

rtcVars == <<offer, link, peer, sent, read, buf, ack>>
vars    == <<edgeVars, rtcVars, ingestVars>>

Init ==
  /\ EdgeInit
  /\ IngestInit
  /\ offer = [r \in Requests |-> "none"]
  /\ link = [r \in Requests |-> "none"]
  /\ peer = [r \in Requests |-> "none"]
  /\ sent = [r \in Requests |-> 0]
  /\ read = [r \in Requests |-> 0]
  /\ buf = [r \in Requests |-> <<>>]
  /\ ack = [r \in Requests |-> "none"]

-----------------------------------------------------------------------------
(* The agent's end: Client.Upload. *)

Agent(t) ==
  /\ Capture \/ Trigger(t)
  /\ UNCHANGED <<rtcVars, ingestVars>>

\* A complete offer (gathering done) goes to the signaling endpoint.
SendOffer(t) ==
  LET r == <<t, attempt[t] + 1>> IN
  /\ BeginAttempt(t)
  /\ offer' = [offer EXCEPT ![r] = "sent"]
  /\ link' = [link EXCEPT ![r] = "signal"]
  /\ UNCHANGED <<peer, sent, read, buf, ack, ingestVars>>

\* The current attempt of t has its peer connection in state s.
Link(t, s) == pc[t] = "wait" /\ link[Current(t)] = s

\* Upload returns; the deferred Close tears the agent's end down.
Hangup(t) == link' = [link EXCEPT ![Current(t)] = "closed"]

\* signal(): a 200 carries the answer, any other status is a RejectedError.
ReceiveAnswer(t) ==
  /\ Link(t, "signal")
  /\ \/ /\ offer[Current(t)] = "answered"
        /\ link' = [link EXCEPT ![Current(t)] = "opening"]
        /\ UNCHANGED edgeVars
     \/ /\ offer[Current(t)] = "unauthorized"
        /\ UploadRejected(t, 401)
        /\ Hangup(t)
     \/ /\ offer[Current(t)] = "invalid"
        /\ UploadRejected(t, 400)
        /\ Hangup(t)
     \/ /\ offer[Current(t)] = "failed"
        /\ UploadRejected(t, 500)
        /\ Hangup(t)
  /\ UNCHANGED <<offer, peer, sent, read, buf, ack, ingestVars>>

\* OnOpen; the handler for the ack is registered before the first chunk.  The
\* gateway's end may have seen the channel before.
ChannelOpens(t) ==
  /\ Link(t, "opening")
  /\ peer[Current(t)] \in {"signaled", "channel", "receiving"}
  /\ link' = [link EXCEPT ![Current(t)] = "open"]
  /\ UNCHANGED <<edgeVars, offer, peer, sent, read, buf, ack, ingestVars>>

SendChunk(t) ==
  /\ Link(t, "open")
  /\ sent[Current(t)] < Chunks
  /\ sent' = [sent EXCEPT ![Current(t)] = @ + 1]
  /\ UNCHANGED <<edgeVars, offer, link, peer, read, buf, ack, ingestVars>>

\* Mutation: Upload returns as soon as the last chunk is handed to the stack.
SucceedWithoutAck(t) ==
  /\ Link(t, "open")
  /\ sent[Current(t)] = Chunks
  /\ UploadSucceeded(t)
  /\ Hangup(t)
  /\ UNCHANGED <<offer, peer, sent, read, buf, ack, ingestVars>>

\* The ack decides; an error in it is a RejectedError with no status.
ReceiveAck(t) ==
  /\ Link(t, "open")
  /\ sent[Current(t)] = Chunks
  /\ \/ ack[Current(t)] = "ok" /\ UploadSucceeded(t)
     \/ ack[Current(t)] = "error" /\ UploadRejected(t, NoStatus)
  /\ Hangup(t)
  /\ UNCHANGED <<offer, peer, sent, read, buf, ack, ingestVars>>

\* Gathering, the round-trip, opening or the ack ran into its timeout, or the
\* connection broke.
AttemptFails(t) ==
  /\ UploadFailed(t)
  /\ Hangup(t)
  /\ UNCHANGED <<offer, peer, sent, read, buf, ack, ingestVars>>

EndAttempt(t) == ReceiveAck(t) \/ AttemptFails(t)

-----------------------------------------------------------------------------
(* The gateway's end. *)

\* requireAuth and handleWebRTCOffer: a peer connection is created and its
\* answer returned.  Nothing of the service is consulted yet.  A description the
\* stack does not take is a 400 and any other failure of it a 500; the
\* connection is closed then.
HandleOffer(r) ==
  /\ offer[r] = "sent"
  /\ \/ /\ tokenLive
        /\ offer' = [offer EXCEPT ![r] = "answered"]
        /\ peer' = [peer EXCEPT ![r] = "signaled"]
     \/ /\ \E reply \in IF tokenLive THEN {"invalid", "failed"} ELSE {"unauthorized"} :
             offer' = [offer EXCEPT ![r] = reply]
        /\ UNCHANGED peer
  /\ UNCHANGED <<edgeVars, link, sent, read, buf, ack, ingestVars>>

LoseOffer(r) ==
  /\ offer[r] = "sent"
  /\ offer' = [offer EXCEPT ![r] = "lost"]
  /\ UNCHANGED <<edgeVars, link, peer, sent, read, buf, ack, ingestVars>>

SetPeer(r, s) ==
  /\ peer' = [peer EXCEPT ![r] = s]
  /\ UNCHANGED <<edgeVars, offer, link, sent, read>>

\* OnDataChannel starts the goroutine; its 30 s begin here.  The agent has the
\* answer, but its own end of the channel may not be open yet.
OnDataChannel(r) ==
  /\ peer[r] = "signaled"
  /\ link[r] \in {"opening", "open"}
  /\ SetPeer(r, "channel")
  /\ UNCHANGED <<buf, ack, ingestVars>>

\* The goroutine reaches dc.OnMessage; the channel may have been delivering
\* chunks since before.
RegisterHandler(r) ==
  /\ peer[r] = "channel"
  /\ SetPeer(r, "receiving")
  /\ UNCHANGED <<buf, ack, ingestVars>>

\* The next chunk in order is read; without a handler it is dropped.
Deliver(r) ==
  /\ peer[r] \in {"channel", "receiving"}
  /\ link[r] = "open"
  /\ read[r] < sent[r]
  /\ read' = [read EXCEPT ![r] = @ + 1]
  /\ buf' = IF peer[r] = "receiving"
            THEN [buf EXCEPT ![r] = Append(@, read[r] + 1)]
            ELSE buf
  /\ UNCHANGED <<edgeVars, offer, link, peer, sent, ack, ingestVars>>

\* Mutation: the last chunk ends the transfer, however many bytes came.
CompleteOnLastChunk(r) == buf[r] # <<>> /\ buf[r][Len(buf[r])] = Chunks

\* len(buf) >= size: every chunk has at least one byte, so the declared size
\* is reached exactly when no chunk is missing.
Complete(r) == Len(buf[r]) >= Chunks

\* buf[:size], as bytes.
Assembled(r) ==
  IF buf[r] = [i \in 1..Chunks |-> i] THEN clip[r[1]] ELSE Mangled

\* done is closed: the same UploadClip as for plain HTTP.
StartUpload(r) ==
  /\ peer[r] = "receiving"
  /\ Complete(r)
  /\ SetPeer(r, "serving")
  /\ body' = [body EXCEPT ![r] = Assembled(r)]
  /\ call' = [call EXCEPT ![r] = "enter"]
  /\ UNCHANGED <<buf, ack, dataVars, worldVars>>

\* Mutation: the wait for the clip's bytes has no deadline.
NoChannelTimeout(r) == FALSE /\ UNCHANGED vars

\* dataChannelTimeout passes before the bytes are complete, or with them: the
\* select takes either channel when both are ready.
ChannelTimeout(r) ==
  /\ peer[r] = "receiving"
  /\ SetPeer(r, "closed")
  /\ UNCHANGED <<buf, ack, ingestVars>>

\* UploadClip returned: the result is sent if the agent is still there, and
\* the 500 ms flush begins; if Send fails the connection is closed at once.
SendAck(r, message) ==
  IF link[r] = "open"
  THEN SetPeer(r, "acked") /\ ack' = [ack EXCEPT ![r] = message]
  ELSE SetPeer(r, "closed") /\ UNCHANGED ack

\* Mutation: the ack goes out when the bytes are complete.
AckEarly(r) ==
  /\ peer[r] = "serving"
  /\ UploadClip(r)
  /\ IF call[r] = "enter" /\ link[r] = "open"
     THEN ack' = [ack EXCEPT ![r] = "ok"]
     ELSE UNCHANGED ack
  /\ SetPeer(r, IF call'[r] \in Running THEN "serving" ELSE "acked")
  /\ UNCHANGED <<body, buf, worldVars>>

Serve(r) ==
  /\ peer[r] = "serving"
  /\ UploadClip(r)
  /\ \/ call'[r] \in Running /\ SetPeer(r, "serving") /\ UNCHANGED ack
     \/ call'[r] = "ok" /\ SendAck(r, "ok")
     \/ call'[r] \in Errors /\ SendAck(r, "error")
  /\ UNCHANGED <<body, buf, worldVars>>

\* pc.Close after the flush window: best effort, the ack may be lost.
CloseAfterAck(r) ==
  /\ peer[r] = "acked"
  /\ SetPeer(r, "closed")
  /\ ack' \in {ack, [ack EXCEPT ![r] = "none"]}
  /\ UNCHANGED <<buf, ingestVars>>

Gateway(r) ==
  \/ RegisterHandler(r) \/ StartUpload(r) \/ ChannelTimeout(r)
  \/ Serve(r) \/ CloseAfterAck(r)

-----------------------------------------------------------------------------
World ==
  /\ ExpireToken \/ RestartCalibration
  /\ UNCHANGED <<edgeVars, rtcVars, body>>

\* Peer connections, and acks and answers not yet read, go with the process.
GatewayRestarts ==
  /\ RestartGateway
  /\ peer' = [r \in Requests |-> IF peer[r] = "none" THEN "none" ELSE "closed"]
  /\ ack' = [r \in Requests |-> "none"]
  /\ offer' = [r \in Requests |-> IF offer[r] \in {"answered", "unauthorized", "invalid", "failed"}
                                     THEN "lost" ELSE offer[r]]
  /\ UNCHANGED <<edgeVars, link, sent, read, buf, body>>

EdgeRestarts ==
  /\ CountRestart
  /\ ResetEdge
  /\ link' = [r \in Requests |-> IF link[r] = "none" THEN "none" ELSE "closed"]
  /\ UNCHANGED <<offer, peer, sent, read, buf, ack, call, body, dataVars, store,
                 caller, tokenLive, registered, wasRegistered>>

\* Every trigger is over, and every peer connection is closed or will never
\* see its channel open.
Finished ==
  /\ \A t \in Triggers : pc[t] = "done"
  /\ \A r \in Requests : offer[r] # "sent" /\ peer[r] \in {"none", "signaled", "closed"}
  /\ UNCHANGED vars

Next ==
  \/ \E t \in Triggers : Agent(t) \/ SendOffer(t) \/ ReceiveAnswer(t)
                         \/ ChannelOpens(t) \/ SendChunk(t) \/ EndAttempt(t)
  \/ \E r \in Requests : HandleOffer(r) \/ LoseOffer(r) \/ OnDataChannel(r)
                         \/ Deliver(r) \/ Gateway(r)
  \/ World \/ GatewayRestarts \/ EdgeRestarts
  \/ Finished

Spec == Init /\ [][Next]_vars

\* The agent's timeouts end every attempt; the gateway's goroutine runs, its
\* wait has a deadline, and so has every call UploadClip makes.  Whether the
\* network ever opens the channel or delivers is left open.
Fairness ==
  /\ \A t \in Triggers : WF_vars(SendOffer(t)) /\ WF_vars(EndAttempt(t))
  /\ \A r \in Requests : WF_vars(Gateway(r))

FairSpec == Spec /\ Fairness

-----------------------------------------------------------------------------
TypeOK ==
  /\ IngestTypeOK
  /\ EdgeTypeOK
  /\ offer \in [Requests -> {"none", "sent", "answered", "unauthorized", "invalid",
                             "failed", "lost"}]
  /\ link \in [Requests -> {"none", "signal", "opening", "open", "closed"}]
  /\ peer \in [Requests -> {"none", "signaled", "channel", "receiving", "serving",
                            "acked", "closed"}]
  /\ sent \in [Requests -> 0..Chunks]
  /\ read \in [Requests -> 0..Chunks]
  /\ buf \in [Requests -> Seq(1..Chunks)]
  /\ ack \in [Requests -> {"none", "ok", "error"}]

\* A chunk dropped because the handler was not registered yet costs the
\* transfer, never its integrity: UploadClip is not called for that attempt.
LossyTransferStoresNothing ==
  \A r \in Requests : Len(buf[r]) < read[r] => call[r] = "none"

\* An ok ack on its way means the clip is recorded: the agent closes its end
\* only after the gateway has stored everything.
AckMeansRecorded ==
  \A t \in Triggers, n \in Attempts :
    ack[<<t, n>>] = "ok" => clip[t] # NoWindow /\ ledger[<<t, n>>] = clip[t]

\* Once the gateway has seen the data channel, its peer connection is closed
\* whatever the agent does.
OpenedConnectionCloses ==
  \A r \in Requests :
    peer[r] \in {"channel", "receiving", "serving", "acked"} ~> peer[r] = "closed"

\* What webrtc.go says of dataChannelTimeout: an abandoned connection doesn't
\* hang around forever, from the moment it is signaled.
SignaledConnectionCloses ==
  \A r \in Requests : peer[r] = "signaled" ~> peer[r] = "closed"
=============================================================================
