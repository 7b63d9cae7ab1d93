----------------------------- MODULE ClipUpload -----------------------------
(***************************************************************************)
(* The clip upload path over plain HTTP (the default transport), end to    *)
(* end: the edge agent of EdgeTrigger with internal/uploader, the network, *)
(* and the gateway's requireAuth and handleUploadClip around the service   *)
(* call of MediaIngest.                                                    *)
(***************************************************************************)
EXTENDS EdgeTrigger

Statuses == {201, 400, 401, 403, 500}       \* what the gateway can reply

VARIABLES
  stage,      \* stage[r]: how far the HTTP exchange of r has come
  status      \* status[r]: the reply the agent can still read

httpVars == <<stage, status>>
vars     == <<edgeVars, httpVars, ingestVars>>

Init ==
  /\ EdgeInit
  /\ IngestInit
  /\ stage = [r \in Requests |-> "idle"]
  /\ status = [r \in Requests |-> NoStatus]

-----------------------------------------------------------------------------
(* The edge agent. *)

Agent(t) ==
  /\ Capture \/ Trigger(t)
  /\ UNCHANGED <<httpVars, ingestVars>>

\* Put the next request of t on the wire.
Post(t, bytes) ==
  /\ BeginAttempt(t)
  /\ stage' = [stage EXCEPT ![<<t, attempt'[t]>>] = "sent"]
  /\ body' = [body EXCEPT ![<<t, attempt'[t]>>] = bytes]
  /\ UNCHANGED <<status, call, dataVars, worldVars>>

\* Mutation: every attempt encodes the window buffered at that moment.
SendBufferedWindow(t) == Post(t, ring)

\* Upload posts the encoded bytes of the frozen window.
Send(t) == Post(t, clip[t])

Replied(t) == pc[t] = "wait" /\ stage[Current(t)] = "replied"

\* Mutation: any reply of the gateway counts as success.
AnswerIgnoringStatus(t) ==
  /\ Replied(t)
  /\ UploadSucceeded(t)
  /\ stage' = [stage EXCEPT ![Current(t)] = "answered"]
  /\ UNCHANGED <<status, ingestVars>>

\* Upload returns: a 201 is a clip id, every other status is a RejectedError.
ReceiveReply(t) ==
  /\ Replied(t)
  /\ IF status[Current(t)] = 201
     THEN UploadSucceeded(t)
     ELSE UploadRejected(t, status[Current(t)])
  /\ stage' = [stage EXCEPT ![Current(t)] = "answered"]
  /\ UNCHANGED <<status, ingestVars>>

\* A reply that was on its way to the agent is never read.
Unread(r) == IF stage[r] = "replied" THEN "gone" ELSE stage[r]

\* Mutation: no deadline per attempt, only a broken connection ends it.
FailOnlyWhenGone(t) ==
  /\ pc[t] = "wait" /\ stage[Current(t)] = "gone"
  /\ UploadFailed(t)
  /\ UNCHANGED <<httpVars, ingestVars>>

\* Upload fails: the connection is refused or broken, the reply is lost or the
\* attempt's 30 s deadline passes.  The gateway may be working on the request
\* and go on: at most it finds its context cancelled in the call it is making.
AttemptFails(t) ==
  /\ UploadFailed(t)
  /\ stage' = [stage EXCEPT ![Current(t)] = Unread(Current(t))]
  /\ UNCHANGED <<status, ingestVars>>

EndAttempt(t) == ReceiveReply(t) \/ AttemptFails(t)

-----------------------------------------------------------------------------
(* The gateway's HTTP layer. *)

\* Mutation: an error with no mapping is reported as a bad request.
UnmappedIsBadRequest(err) ==
  IF err \in {"ErrCrossTenantAccess", "ErrPermissionDenied"} THEN 403 ELSE 400

\* writeServiceError: an error that is no domain sentinel is a 500.
ServiceStatus(err) ==
  CASE err \in {"ErrCrossTenantAccess", "ErrPermissionDenied"} -> 403
    [] err = "ErrCameraNotRegistered" -> 400
    [] OTHER -> 500

\* The handler of r returns.  Its reply matters only while the agent still
\* waits for this very attempt.
Reply(r, code) ==
  IF pc[r[1]] = "wait" /\ attempt[r[1]] = r[2]
  THEN /\ stage' = [stage EXCEPT ![r] = "replied"]
       /\ status' = [status EXCEPT ![r] = code]
  ELSE /\ stage' = [stage EXCEPT ![r] = "gone"]
       /\ UNCHANGED status

\* requireAuth: the token is verified on arrival.
Receive(r) ==
  /\ stage[r] = "sent"
  /\ \/ /\ tokenLive
        /\ stage' = [stage EXCEPT ![r] = "handler"]
        /\ call' = [call EXCEPT ![r] = "enter"]
        /\ UNCHANGED status
     \/ /\ ~tokenLive
        /\ Reply(r, 401)
        /\ UNCHANGED call
  /\ UNCHANGED <<edgeVars, body, dataVars, worldVars>>

\* handleUploadClip: run the service call, write what it returned.
Serve(r) ==
  /\ stage[r] = "handler"
  /\ UploadClip(r)
  /\ \/ call'[r] \in Running /\ UNCHANGED httpVars
     \/ call'[r] = "ok" /\ Reply(r, 201)
     \/ call'[r] \in Errors /\ Reply(r, ServiceStatus(call'[r]))
  /\ UNCHANGED <<edgeVars, body, worldVars>>

\* io.ReadAll fails only with the connection, so nobody reads the 500.
BreakBody(r) ==
  /\ stage[r] = "handler"
  /\ call[r] = "body"
  /\ call' = [call EXCEPT ![r] = "unmapped"]
  /\ stage' = [stage EXCEPT ![r] = "gone"]
  /\ UNCHANGED <<edgeVars, body, status, dataVars, worldVars>>

\* The request never reaches the gateway.
LoseRequest(r) ==
  /\ stage[r] = "sent"
  /\ stage' = [stage EXCEPT ![r] = "gone"]
  /\ UNCHANGED <<edgeVars, status, ingestVars>>

-----------------------------------------------------------------------------
(* Time, the registry's own life, and restarts. *)

World ==
  /\ ExpireToken \/ RestartCalibration
  /\ UNCHANGED <<edgeVars, httpVars, body>>

\* Replies not yet read are lost with the connections.
GatewayRestarts ==
  /\ RestartGateway
  /\ stage' = [r \in Requests |->
                 IF stage[r] \in {"handler", "replied"} THEN "gone" ELSE stage[r]]
  /\ UNCHANGED <<edgeVars, status, body>>

EdgeRestarts ==
  /\ CountRestart
  /\ ResetEdge
  /\ stage' = [r \in Requests |-> Unread(r)]
  /\ UNCHANGED <<status, call, body, dataVars, store, caller, tokenLive,
                 registered, wasRegistered>>

\* Every trigger is over and every request has run its course.
Finished ==
  /\ \A t \in Triggers : pc[t] = "done"
  /\ \A r \in Requests : stage[r] \in {"idle", "answered", "gone"}
  /\ UNCHANGED vars

Next ==
  \/ \E t \in Triggers : Agent(t) \/ Send(t) \/ EndAttempt(t)
  \/ \E r \in Requests : Receive(r) \/ Serve(r) \/ BreakBody(r) \/ LoseRequest(r)
  \/ World \/ GatewayRestarts \/ EdgeRestarts
  \/ Finished

Spec == Init /\ [][Next]_vars

\* The 30 s deadline ends every attempt, the loop goes on after its sleep, and
\* a handler the gateway has started runs to its end: the registry call has a
\* 5 s timeout, and a body that stops arriving ends with the connection.
Fairness ==
  /\ \A t \in Triggers : WF_vars(Send(t)) /\ WF_vars(EndAttempt(t))
  /\ \A r \in Requests : WF_vars(Serve(r) \/ BreakBody(r))

FairSpec == Spec /\ Fairness

-----------------------------------------------------------------------------
TypeOK ==
  /\ IngestTypeOK
  /\ EdgeTypeOK
  /\ stage \in [Requests -> {"idle", "sent", "handler", "replied", "answered", "gone"}]
  /\ status \in [Requests -> Statuses \cup {NoStatus}]

\* A 4xx passed through to the operator means the rejected attempt left
\* nothing behind, neither metadata nor an orphaned object.
RejectionLeavesNothing ==
  \A t \in Triggers :
    answer[t] \in 400..499 =>
      ledger[Current(t)] = NoWindow /\ objects[Current(t)] = NoWindow

\* What edge-agent/README.md and internal/transport say of a rejection: it is
\* definitive, as opposed to a transient failure.  A trigger ended by a reply
\* other than 201 ended with a client error.
RejectionIsDefinitive ==
  \A t \in Triggers, n \in Attempts :
    stage[<<t, n>>] = "answered" => status[<<t, n>>] \in {201} \cup (400..499)
=============================================================================
