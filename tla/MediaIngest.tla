---------------------------- MODULE MediaIngest ----------------------------
(***************************************************************************)
(* UploadClip of services/media-ingest-gateway with everything it calls:   *)
(* the camera registry (the camera-calibration service behind its HTTP     *)
(* client), the object store and the metadata store.  Both transports,     *)
(* plain HTTP and WebRTC, deliver bytes to this one service method: the    *)
(* modules ClipUpload and WebRTCUpload extend this one.                    *)
(*                                                                         *)
(* A request <<t, n>> is the n-th attempt to upload the window of trigger  *)
(* t.  Each call of UploadClip draws a fresh random clip id and derives    *)
(* the storage key from it, so the request also names the clip and the     *)
(* object it makes.  A window of frames, its encoding and its SHA-256 are  *)
(* one number: windows differ iff their bytes and their hashes differ.     *)
(***************************************************************************)
EXTENDS Naturals

CONSTANTS Triggers,           \* calls of POST /trigger at the edge agent
          MaxUploadAttempts,  \* maxUploadAttempts in edge-agent/cmd/main.go
          MaxWindow,          \* bound: how often the buffered window moves on
          MaxRestarts,        \* bound: process restarts in one behaviour
          Callers             \* the kinds of user the agent's token may speak for

ASSUME UploadConstants ==
  /\ MaxUploadAttempts \in Nat /\ MaxUploadAttempts >= 1
  /\ MaxWindow \in Nat
  /\ MaxRestarts \in Nat
  /\ Callers \subseteq {"organizer_admin", "other_role", "other_org"}

NoWindow == 0                               \* an empty ring, or no content
Windows  == 1..MaxWindow
Contents == Windows \cup {NoWindow}
Attempts == 1..MaxUploadAttempts
Requests == Triggers \X Attempts

Errors  == {"ErrCrossTenantAccess", "ErrPermissionDenied",
            "ErrCameraNotRegistered", "unmapped"}
Results == Errors \cup {"ok"}
Running == {"enter", "registry", "body", "put", "record"}

VARIABLES
  call,       \* call[r]: how far UploadClip has come with r, or what it returned
  body,       \* body[r]: the bytes r carries
  objects,    \* the ObjectStore
  clips,      \* the ClipStore (metadata; here the content hash)
  store,      \* which ObjectStore buildObjectStore chose
  caller,     \* whom the agent's fixed bearer token speaks for
  tokenLive,  \* the token has not expired
  registered, \* camera-calibration holds the configured camera now
  restarts,   \* restarts so far
  \* history, read by the properties only
  ledger,         \* ledger[r]: what was ever recorded for r
  wasRegistered   \* the configured camera id was once given out

dataVars   == <<objects, clips, ledger>>
worldVars  == <<store, caller, tokenLive, registered, restarts, wasRegistered>>
ingestVars == <<call, body, dataVars, worldVars>>

IngestInit ==
  /\ call = [r \in Requests |-> "none"]
  /\ body = [r \in Requests |-> NoWindow]
  /\ objects = [r \in Requests |-> NoWindow]
  /\ clips = [r \in Requests |-> NoWindow]
  /\ ledger = [r \in Requests |-> NoWindow]
  /\ store \in {"memory", "s3"}
  /\ caller \in Callers
  /\ tokenLive = TRUE
  /\ registered \in BOOLEAN
  /\ wasRegistered = registered
  /\ restarts = 0

-----------------------------------------------------------------------------
(* The steps of UploadClip.  They leave body and worldVars alone. *)

\* The tenant check, then CanUploadClips: only organizer_admin may upload.
Authorize(r) ==
  /\ call[r] = "enter"
  /\ call' = [call EXCEPT ![r] =
                CASE caller = "other_org"  -> "ErrCrossTenantAccess"
                  [] caller = "other_role" -> "ErrPermissionDenied"
                  [] OTHER -> "registry"]
  /\ UNCHANGED dataVars

\* Mutation: the client maps every failure of the check to "registered".
IsRegisteredFailOpen ==
  {"yes"} \cup (IF tokenLive /\ ~registered THEN {"no"} ELSE {})

\* The registry client forwards the caller's token: 200 is yes and 404 is no.
\* Any other status (the token may have expired on the way), a broken
\* connection and the 5 s timeout are errors.
IsRegistered ==
  {"error"} \cup
  (IF tokenLive THEN {IF registered THEN "yes" ELSE "no"} ELSE {})

CheckCamera(r) ==
  /\ call[r] = "registry"
  /\ \E verdict \in IsRegistered :
       call' = [call EXCEPT ![r] =
                  CASE verdict = "yes" -> "body"
                    [] verdict = "no"  -> "ErrCameraNotRegistered"
                    [] OTHER           -> "unmapped"]
  /\ UNCHANGED dataVars

\* io.ReadAll, the hash, the fresh id and NewClip.  The agent's encoding is
\* never empty and it does not start without a match id and a camera id, so
\* NewClip accepts.
ReadBody(r) ==
  /\ call[r] = "body"
  /\ call' = [call EXCEPT ![r] = "put"]
  /\ UNCHANGED dataVars

\* Mutation: UploadClip goes on when the object store reports an error.
PutIgnoringError(r) ==
  /\ call[r] = "put"
  /\ \/ objects' = [objects EXCEPT ![r] = body[r]]
     \/ store = "s3" /\ UNCHANGED objects
  /\ call' = [call EXCEPT ![r] = "record"]
  /\ UNCHANGED <<clips, ledger>>

\* objects.Put under the fresh key.  The memory store cannot fail on bytes
\* already read; S3 can report an error with the object stored or not.
PutObject(r) ==
  /\ call[r] = "put"
  /\ \/ /\ objects' = [objects EXCEPT ![r] = body[r]]
        /\ call' = [call EXCEPT ![r] = "record"]
     \/ /\ store = "s3"
        /\ objects' \in {objects, [objects EXCEPT ![r] = body[r]]}
        /\ call' = [call EXCEPT ![r] = "unmapped"]
  /\ UNCHANGED <<clips, ledger>>

\* clips.Create; the in-memory store cannot fail.
RecordClip(r) ==
  /\ call[r] = "record"
  /\ clips' = [clips EXCEPT ![r] = body[r]]
  /\ ledger' = [ledger EXCEPT ![r] = body[r]]
  /\ call' = [call EXCEPT ![r] = "ok"]
  /\ UNCHANGED objects

UploadClip(r) ==
  \/ Authorize(r) \/ CheckCamera(r) \/ ReadBody(r) \/ PutObject(r) \/ RecordClip(r)

-----------------------------------------------------------------------------
(* What happens around UploadClip.  A transport says what becomes of its own *)
(* variables; these leave body alone.                                        *)

\* Access tokens live 15 minutes, and the agent's is fixed for its lifetime.
ExpireToken ==
  /\ tokenLive
  /\ tokenLive' = FALSE
  /\ UNCHANGED <<call, dataVars, store, caller, registered, restarts, wasRegistered>>

CountRestart == restarts < MaxRestarts /\ restarts' = restarts + 1

\* camera-calibration keeps its cameras in memory only, and RegisterCamera draws
\* a random id: a camera id that is configured and not registered never will be.
RestartCalibration ==
  /\ CountRestart
  /\ registered' = FALSE
  /\ UNCHANGED <<call, dataVars, store, caller, tokenLive, wasRegistered>>

CutCalls == call' = [r \in Requests |-> IF call[r] \in Running THEN "none" ELSE call[r]]

\* Mutation: the in-memory objects survive, the metadata does not.
RestartKeepingObjects ==
  /\ CountRestart
  /\ CutCalls
  /\ clips' = [r \in Requests |-> NoWindow]
  /\ UNCHANGED <<objects, ledger, store, caller, tokenLive, registered, wasRegistered>>

\* Calls in progress die with the process.  Clip metadata is always in memory;
\* objects are too unless buildObjectStore found a bucket.
RestartGateway ==
  /\ CountRestart
  /\ CutCalls
  /\ clips' = [r \in Requests |-> NoWindow]
  /\ objects' = IF store = "s3" THEN objects ELSE [r \in Requests |-> NoWindow]
  /\ UNCHANGED <<ledger, store, caller, tokenLive, registered, wasRegistered>>

-----------------------------------------------------------------------------
IngestTypeOK ==
  /\ call \in [Requests -> {"none"} \cup Running \cup Results]
  /\ body \in [Requests -> Contents]
  /\ objects \in [Requests -> Contents]
  /\ clips \in [Requests -> Contents]
  /\ ledger \in [Requests -> Contents]
  /\ store \in {"memory", "s3"}
  /\ caller \in Callers
  /\ tokenLive \in BOOLEAN
  /\ registered \in BOOLEAN
  /\ wasRegistered \in BOOLEAN
  /\ restarts \in 0..MaxRestarts

\* Whatever metadata the gateway serves, the object it points to is stored and
\* has the recorded hash: UploadClip puts the object first, never records after
\* a failed Put, and no restart forgets an object before its metadata.
MetadataHasItsObject ==
  \A r \in Requests : clips[r] # NoWindow => objects[r] = clips[r]

\* With the in-memory store an object without metadata belongs to a call that
\* is about to record it: only S3 accumulates orphans.
MemoryStoreHasNoOrphans ==
  store = "memory" =>
    \A r \in Requests :
      objects[r] # NoWindow /\ clips[r] = NoWindow => call[r] = "record"

\* Nothing is stored for a camera that was never registered, nor for a caller
\* who may not upload: an unreachable registry rejects (it fails closed).
FailClosed ==
  \A r \in Requests :
    objects[r] # NoWindow \/ ledger[r] # NoWindow =>
      wasRegistered /\ caller = "organizer_admin"
=============================================================================
