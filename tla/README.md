# A verification development for cricket-drs-system

TLA+ modules that model the part of the system that is built (the edge agent,
media-ingest-gateway, identity-access, match-tournament, camera-calibration, the
camera page of the web app, the labeling tool, time-sync), the TLC configurations
that check them, and theorems about them that TLAPS proves.
Paths below are relative to the repository.

## The system

    camera, microphone                umpire / operator
          |                                 | POST /trigger
     [edge-agent: capture loops -> ring buffers -> handleTrigger]
          |  HTTP POST, or WebRTC data channel (UPLOAD_TRANSPORT)
     [media-ingest-gateway: auth -> UploadClip] --HTTP--> [camera-calibration] <--HTTP-- [web app]
          |                \      SubmitSyncOffset
     object store (S3/memory)  metadata (memory)      [time-sync: find_offset]  (its result is submitted)

     [match-tournament: AddPlayerToRoster] --HTTP--> [identity-access: consent]
     every service verifies tokens with services/platformauth

     [labeling tool: page] --HTTP, localhost--> [its server: label files, frame cache]

| Component | State | Operations | What is hard | What makes it correct |
|---|---|---|---|---|
| edge agent: capture, buffers | two ring buffers, samples read | capture loops, Add, Snapshot | audio arrives in bursts; pruning boundary | a snapshot is exactly the window |
| edge agent: trigger, retries | a window, an attempt counter per trigger | `handleTrigger`, `uploadWithRetry` | the ring rolls on; deadline against late answer; agent restart | retries resend the frozen window; every trigger ends; 200 only for a recorded clip |
| upload transports | HTTP exchange; peer connections | `uploader.Upload`, `webrtcupload.Upload`, `handleUploadClip`, `handleWebRTCOffer` | lost requests, replies and acks; chunks before their handler; two-sided timeouts | both implement one at-least-once contract; connections close |
| media-ingest-gateway | objects, clip metadata | `UploadClip`, `SubmitSyncOffset`, reads | two stores without a transaction; remote check; restart loses metadata only | metadata implies object; fails closed |
| identity-access: consent | consent records | `CaptureConsent`, `GetConsent` | unlocked read-modify-write | revocation holds; nobody is recorded as a minor without a guardian |
| identity-access: users, tokens | organizations, users, tokens held outside | `CreateOrganization`, `InviteUser`, `AssignRole`, `Login`, `Verify` | check-then-create; partial failure; a role lost in the middle of a login | emails unique; organizations have an admin; stale roles last for a token's life and a login |
| match-tournament: roster | entries per match | `AddPlayerToRoster`, `RemovePlayerFromRoster` | check in one service, add in another | only consenting players; one team per player |
| match-tournament: the rest | teams, tournaments, matches | create, get, list | ids of other tenants; inherited playing conditions | references and reads stay in the tenant; conditions were validated |
| camera-calibration | cameras, profiles | register, submit, get, list | overlapping submissions; in memory, random ids | ready only for the submission that stands |
| web app: session, CamerasPage | stored session, list, flags, calls under way | login, logout, `refresh`, `handleRegister` | answers out of order, lost, or after a change of account or page; two logins at once | of overlapping refreshes and accounts the last one's list stays; the button comes back |
| labeling tool | label files, frame cache; the page's labels and frame | save, read, extract; click, keys, open | file operations without a lock, pictures half written, crashes; handlers around awaits, loads that replace one another | the file holds what was saved; a picture is never another frame's; a label is on the frame the user saw |
| time-sync | two signals | `find_offset` | circular correlation, signed lags | the lag found aligns best |
| clip container | bytes | `Encode`, `Decode` | cut or changed bytes | round trip; damage is contained |
| observability, placeholders | | | | not modelled |

`PROJECT.json` lists every component with its sources, and under "hazards" what
is hard to test in this code, line by line, with the properties that cover it.

## The modules

| Module | Models |
|---|---|
| `ClipDelivery` | the contract of the `Uploader` interface (abstract): at least once, frozen window, a reported clip was recorded |
| `MediaIngest` | `Service.UploadClip` step by step, object and metadata store, camera registry, token expiry, restarts |
| `EdgeTrigger` | `handleTrigger` and `uploadWithRetry` over any transport; the refinement mapping to `ClipDelivery` |
| `ClipUpload` | `EdgeTrigger` and `MediaIngest` joined by HTTP: `internal/uploader`, `requireAuth`, `handleUploadClip`, `writeServiceError` |
| `WebRTCUpload` | the same joined by WebRTC: `internal/webrtcupload` and `httpapi/webrtc.go` |
| `Consent` | `CaptureConsent` as read and write, with overlapping requests |
| `Roster` | `AddPlayerToRoster` as begin, remote check, add, composed with `Consent` |
| `IdentityAccess` | organizations, users, roles, tokens and `platformauth` |
| `EdgeCapture` | both capture loops and both ring buffers, failed audio reads included |
| `ClipSync` | clips after their upload and `SubmitSyncOffset` as read and write |
| `CameraCalibration` | cameras and calibration profiles |
| `CamerasPage` | the web app's session and camera page, extending `CameraCalibration` by the browser |
| `MatchTournament` | teams, tournaments, matches, rosters: every handler, several tenants |
| `LabelStore` | the labeling server and ffmpeg by file operations |
| `LabelingPage` | its page, extending `LabelStore` by the browser |
| `ClipFormat` | `Encode` and `Decode` of the clip container |
| `TimeSync` | `find_offset` |
| `MCRoster`, `MCIdentityAccess`, `MCLabelStore` | symmetry for TLC |
| `MCLabelingPage` | the names of the clips for TLC |
| `MCServices` | `CameraCalibration`, `ClipSync`, `MatchTournament` side by side |
| `MCSignals` | `TimeSync`, `ClipFormat` side by side |
| `EdgeTriggerProofs` | what both transports share: the retry loop, the steps of `UploadClip`, the steps the contract sees; what the contract is worth |
| `ClipUploadProofs`, `WebRTCUploadProofs` | safety of each transport, and that it implements `ClipDelivery` |
| `RosterProofs`, `IdentityAccessProofs` | consent and the roster gate; users, roles and tokens |
| `ServicesProofs` | sync offsets, calibrations, matches; the camera page |
| `LabelingPageProofs` | the label files and the frame cache; the labeling page |
| `SignalProofs` | lags of signals of one length; the capture buffers; the clip container |

How state and actions correspond to the code is under "map" in `PROJECT.json`,
definition by definition. The choices that matter:

- **Requests are attempts.** `<<t, n>>` is the n-th attempt of trigger t.
  `UploadClip` draws a fresh random clip id and derives the storage key from it, so
  the pair also names the clip and the object; ids never collide.
- **A window is a number**, and so are its encoding and its hash: the code compares
  windows by nothing but their bytes. `ring` moves through 1, 2, ... as `captureLoop`
  rolls the buffer; `EdgeCapture` says what is in it.
- **A handler is as many steps as it makes calls.** `Authorize`, `CheckCamera`,
  `ReadBody`, `PutObject` and `RecordClip` are the points of `UploadClip` between
  which other actors move; what lies between two of them is one action.
- **An abandoned attempt goes on at the gateway.** `AttemptFails` leaves the request
  where it is; the handler may still store and record. When the server notices the
  closed connection it cancels the request's context, which only makes the registry
  call or the S3 call in progress fail: both can fail at any time in the model.
- **The world.** The agent's token is fixed and expires (15 minutes);
  camera-calibration keeps cameras in memory and gives out random ids, so a restart
  unregisters the configured camera for good: from then on every upload is rejected
  with 400. (For the same reason the id in edge-agent/README.md's example,
  `dji-action5-01`, is never registered.) The model covers both: `registered` is
  any value at the start and only ever becomes false.
- **Restarts** lose what is in memory and nothing else: `RestartGateway` keeps S3
  objects, `ResetEdge` loses the ring and the triggers in progress, the stores of the
  services are emptied, tokens survive.
- **Cancelled operator requests.** If the operator disconnects from `/trigger`, the
  context of every later attempt is cancelled, while the loop sleeps through its
  backoffs all the same: those attempts fail, which `AttemptFails` covers.
- **Requests that cannot be overtaken are one step.** What `MatchTournament` has looked
  up is only ever added to, so nothing can change between a look-up and the write; the
  consent check, which can, is `Roster`'s. `SubmitSyncOffset` and
  `StoreCalibrationProfile` write what they have read before, so they are two steps.
- **The browser.** A fetch is sent, served and applied in three steps, may fail at
  each, and nothing orders two of them. What a handler does after an `await` is a step
  of its own: in React with the values of the render that started it (`CamerasPage`),
  in the labeling page with global variables as they are by then (`LabelingPage`).
  No user of either page waits for anything that the code does not make him wait for.
  Where a user in a hurry really gets a wrong result, a history variable says where and
  no more: `disordered` (one mount of the camera page), `hasty` (one frame), `disturbed`
  (one clip), `spoiled` (one clip's pictures); the properties hold everywhere else.
- **A login takes time.** `BeginLogin` reads the user, bcrypt runs, and `FinishLogin`
  issues the token with the role that was read; a role may be lost in between. `MaxLogin`
  bounds the ticks that a login of the model takes.
- **Files.** FastAPI runs requests in threads, so in `LabelStore` each file operation is a
  step: `write_text` empties the file and then writes it, ffmpeg creates the file of a
  frame, fills it and goes on to the next, and a picture is read when it is sent. Two
  writes at once may leave a document that cannot be parsed, and whoever looks at a file
  before it is filled, or after ffmpeg was killed, finds a cut picture (`Blank`).
- **Numbers.** `TimeSync` takes integer samples and scales by the length instead of
  dividing by it, which changes no comparison; argmax among equal correlations is left
  open, since rounding decides it. `ClipFormat` keeps order and framing of every field
  at smaller widths.
- **Lost audio.** A failed read in `EdgeCapture` loses the samples recorded meanwhile; the
  timeline counts the samples that were read, as the code does.
- **History variables** (`ledger`, `wasRegistered`, `overtaken`, `revoked`, `seen`,
  `raced`, `added`, `before`, `live`, `uploaded`, `mine`, `newest`,
  `disordered`, `saved`, `spoiled`, `disturbed`, `hasty`, `given`, the `lapse` and `spent` of
  a login and its token) are read by properties only; `given` also keeps random ids from coming again.
- **One organization** in `Consent` and `Roster`: every store key starts with the
  organization, and calls of other organizations are refused before any effect.

## What the runs show

| Run | Module, instance | Shows |
|---|---|---|
| `clip_upload` | `ClipUpload`, 1 trigger, 3 attempts (the code's number), 2 windows, three kinds of caller, one restart of any process | stored objects hold the frozen window, 200 means recorded, 4xx means nothing left, failing closed; the two stores agree through crashes; the path implements `ClipDelivery`; every trigger ends |
| `webrtc_upload` | `WebRTCUpload`, 2 attempts, 2 chunks, one restart | lossy transfers store nothing, an ok ack means recorded, implements `ClipDelivery`, connections with a channel close |
| `roster` | 2 adds, 2 captures, 2 teams, 1 player, restarts | whoever enters a roster was eligible during the request; entries never move; a capture that is not overtaken is exact |
| `revocation_lost` | violation | an overlapping capture undoes an acknowledged revocation |
| `identity` | 1 organization, 4 users, 2 emails, 2 calls, 1 client, TTL 2, a login of up to 2 ticks | a role that was lost, even during the login, is honoured for less than the token's life and the login together; duplicates come from overlapping invitations only |
| `edge_capture` | window 2, 6 ticks, 6 frames, one failed audio read | both buffers hold exactly the window of their timeline, bursts or not |
| `services` | `MCServices`, 2 organizations, 3 clips, 2 matches, 2 cameras, 2 teams, 2 overlapping submissions, one restart | a clip that is synced is neither lost nor altered, offsets refer to clips that are there, the later submission stands (clips and cameras alike), tenants stay apart, conditions were validated |
| `cameras_page` | `CamerasPage`, 2 accounts, 1 camera, 2 overlapping logins, 2 overlapping fetches, 2 mounts, one restart, any user | at rest the list is complete and of this account unless an earlier refresh of this mount came after its newest, or the session changed during a registration; the register button comes back |
| `label_store` | 2 clips of 2 frames, any 2 requests at once, one crash or ffmpeg failure | a file holds what was saved unless saves overlap or a crash cuts one; the picture served is the frame asked for, a cut one or none only for a clip whose extraction was cut short or looked in upon |
| `labeling_page` | 2 clips of 2 frames, 2 requests at once, 4 actions of any user, a server that does not die | a label made when nothing was outstanding is on its frame; page and file agree on the clips that the user did not act on while an answer was due; the last of several loads has the last word |
| `signals` | every pair of signals of up to 4 samples over 3 values; every container of up to 2 frames, cut anywhere or with one byte changed | signals of one length align best at the lag found; round trip; damage is contained |
| `time_sync_lengths` | violation | with signals of different lengths the lags looked at are the wrong ones |

The violations are the entries of "findings", each with the line it contradicts.
`MCServices` and `MCSignals` check modules side by side: they share no state, so a
behavior of several is a behavior of each, and running one at a time loses nothing.

**Statements that the code does not keep.** Modelling showed more of them than the two
runs. Each is a property in its module; added to the instance named here, TLC answers
with a short counterexample.

| Property | Stated at | What happens | Instance |
|---|---|---|---|
| `ClipUpload!RejectionIsDefinitive` | `edge-agent/internal/transport/errors.go:9` | a 500 is taken for a definitive rejection and not retried | `ClipUpload.cfg` |
| `WebRTCUpload!SignaledConnectionCloses` | `media-ingest-gateway/internal/httpapi/webrtc.go:26` | a connection whose channel never opens is never closed | `WebRTCUpload.cfg` |
| `Roster!ConsentAtAdd` | `match-tournament/internal/service/ports.go:59` | consent is revoked between the check and the add | `MCRoster.cfg` |
| `IdentityAccess!EmailNamesOneUser` | `identity-access/internal/service/service_test.go:97` | two overlapping invitations, one email | `MCIdentityAccess.cfg` |
| `IdentityAccess!RoleLagIsTokenTTL` | none; it is what reading the role when the token is issued would give (`identity-access/internal/service/user.go:91`) | the role is lost while the password is compared | `MCIdentityAccess.cfg` |
| `IdentityAccess!OrganizationHasMembers` | `identity-access/internal/service/organization.go:17` | an organization whose administrator could not be stored | `MCIdentityAccess.cfg` |
| `EdgeCapture!ChunksCarryTheirTime` | `edge-agent/internal/capture/capture.go:136` | after a failed read every chunk is stamped too early | `EdgeCapture.cfg` |
| `MatchTournament!CameraTierIsInSchema` | `match-tournament/openapi.yaml:317` | a match given no conditions has the empty camera tier | `MatchTournament` alone |
| `LabelStore!CacheIsComplete` | `ml-pipeline/tools/labeling/server.py:78` | a partly extracted clip is taken for all of it | `LabelStore.cfg` |
| `LabelStore!OneFilePerClip` | `ml-pipeline/tools/labeling/README.md:41` | clips with one stem share a file | `Stem` constant |
| `LabelingPage!EveryLabelIsOnItsFrame` | `ml-pipeline/tools/labeling/README.md:55` | a click before the picture has come labels a frame that the user has not seen | `LabelingPage.cfg` |
| `LabelingPage!LabeledIsSaved` | `ml-pipeline/tools/labeling/README.md:56` | an answer that comes after the user went on is entered under the frame he went to | `LabelingPage.cfg` |
| `CamerasPage!EverythingOfOursIsShown` | `apps/web-app/src/routes/CamerasPage.tsx:10` and `lib/cameraCalibrationClient.ts:39` | an older list, or another account's, arrives last | `CamerasPage.cfg` |

**Bounds.** `MaxUploadAttempts` is the code's constant, 3, over HTTP; two are
enough over WebRTC for an abandoned attempt to overlap its retry. `MaxWindow` = 2 lets
the ring move on once under a trigger, which is what tells the frozen window from the
buffered one. `MaxRestarts` = 1 puts one restart between any two steps; restarts
commute with everything that has already been lost. One trigger is enough for TLC, since
a second shares nothing with it but the ring, which moves anyway; the theorems hold for
any number. Two chunks tell a dropped first chunk from a complete transfer. `Captures`,
`Adds`, `Submissions` and the labeling server's `Requests` = 2: every race here is between
a read and a write of one pair. Three clips give a submission, its reference and
another clip; two teams, matches and organizations let every id be another tenant's.
`MaxMounts` = 2 gives a handler of the mount before, `Fetches` and `Logins` = 2 an older answer that comes last. `MaxActions` = 4 lets the user
open a clip, label it, move on and open the other; two request slots let him do so before
the answers come. Two frames are one with a next and a last one. `TokenTTL` = 2 gives an age at which a token is neither fresh nor
expired, `MaxLogin` = 2 a login as long as a token lives. `MaxTime` = 6
fills a window of 2 ticks and turns it over twice. Four samples are enough for signals that are periodic, silent, shifted either way or of different
lengths. Symmetry is used in safety runs only, over sets whose members the modules never
tell apart.

**Deadlock** is checked in every run but three. `services`, `signals` and `labeling_page`
say `CHECK_DEADLOCK FALSE`: their instances end when every submission is used up, every
input has been read and the user has done all he does. Elsewhere the
`Finished` disjuncts are the states in which a bounded instance has nothing left to do.

**Fairness.** `FairSpec` of the two transports: an attempt that can be started is started
(the loop sleeps a fixed backoff), and one that waits ends, by an answer or by its
deadline (`context.WithTimeout`). The gateway: a handler that runs goes on (the registry
client has a 5 s timeout; reading the body ends with the connection), and the
data-channel goroutine has its deadline. Nothing is assumed of the network, of the
clock, of the triggers or of restarts: a request may stay on its way for ever, a channel
may never open. `FairPageSpec` of the camera page: a fetch is answered or fails, since a
browser reports a connection that breaks; which of the two, and when, is open. `FairSpec`
of the labeling page: the threads of its local server run, and the browser goes on with
what is answered; nothing is assumed of the user.

## What is proved

Every safety property of the passing runs is a theorem, for every value of the constants,
sets and bounds alike, from named assumptions only, which TLC evaluates in the runs:

| Assumption | Says |
|---|---|
| `UploadConstants`, `ChunkConstants` | bounds are numbers, at least one attempt and one chunk; the kinds of caller are the three there are |
| `IdentityConstants` | a token lives a positive number of ticks; a forgotten record is none of the others |
| `CalibrationConstants`, `SyncConstants`, `PageConstants` | bounds are numbers; `None` is no call, clip, offset, session or error |
| `LabelConstants`, `StoreNames`, `PageNames` | clips have stems, frames are counted from 1, no more are made of a clip than announced; `None` is no clip, request or document, a cut picture is none of a clip, and no document is unreadable |
| `CaptureConstants`, `TimeSyncConstants` | bounds are numbers, samples are integers; `None` is no outcome |
| `FormatConstants` | a count and a time fit their fields; `None` is no error |

`Roster` needs none. Each module proves one inductive invariant and reads the theorems
off it.

- `EdgeTriggerProofs`. `EdgeInv`: an attempt number stays within `MaxUploadAttempts`
  because a trigger in "send" has an attempt left (`AttemptInv`), and a trigger has its
  window from the moment it fires, and not before (`Frozen`). `StoreInv` and `GateInv`: what
  a request may have stored at each stage of `UploadClip`, which is its body, and which
  gates it has passed. `ContractIsSafe`: the contract is worth implementing, since it
  implies that recorded clips hold the frozen window and confirmed clips were recorded.
- `ClipUploadProofs`. `IInv` adds to those what is known on the way: a request not made or
  not arrived has left nothing (`FreshInv`), it carries what its trigger froze (`CarryInv`),
  a reply that is still readable is the one for what the call returned (`ReplyInv`), and a
  finished trigger was told the outcome of its current attempt (`ToldInv`). It is needed
  because each property relates two ends of an exchange: that a 4xx leaves nothing follows
  only from what the handler had done when it replied, which no state after the answer
  shows. `UploadImplementsDelivery` then takes the steps one by one: each is a step of
  the contract under the mapping of `EdgeTrigger`, or a stutter.
- `WebRTCUploadProofs`: the same argument over the data channel, for any number of
  chunks, by the same lemmas. What is new is `BufInv`: chunks are dropped only before
  `OnMessage` has its handler, so what `handleClipDataChannel` has accumulated is a run of
  consecutive chunks that ends with the last one read. A run as long as the clip is the
  whole clip (`CompleteIsWhole`), so `UploadClip` never sees one with a hole, and an
  acknowledgement stands for a call that has returned (`AckInv`).
- `RosterProofs`: type correctness, which includes that no order of captures leaves a
  minor without a guardian; `WhoEntersWasEligible`, `EntriesNeverMove` and
  `UncontendedCapturesAreExact`. The invariant `GInv` says that a request past the check
  has seen its player eligible, and that what a capture will write differs from
  the stored record in its own grant only, as long as nobody overtook it. Neither is
  visible in the stores, and both are what a write depends on.
- `IdentityAccessProofs`: type correctness; `StaleRolesEnd`, because the lapse of a role
  that a login has read never exceeds the time of the login, nor that of a token's claim the
  token's age and its login's time together (`LapseInv`), through logins that overlap role
  changes, removals and restarts; `OnlyRacesDuplicate`, whose
  invariant `EInv` says that the email of an invitation in progress is free or raced
  for, and that nobody can be in an organization whose creator has not finished: that
  is why the first administrator, whose email nobody looks up, duplicates none.
- `ServicesProofs`, clips (`SInv`): the clip that a running submission read is, up to its
  offset, the clip that was uploaded, and clip and reference are both still there
  (`SubmissionInv`), because only a restart takes a clip away and that ends the submission
  too. Then the record that `Create` replaces has the key of the one it writes
  (`KeyOfId`). A writer is in nobody's `before`, which holds answered submissions only
  (`BeforeInv`): so what it overwrites is never a later result.
- `ServicesProofs`, calibrations (`CInv`): a profile is the work of an accepted submission,
  and no accepted one for the camera began after that one was answered (`ProfilesStand`).
  What a reader is told is deserved because this is so at the moment of the read.
- `ServicesProofs`, matches (`MInv`): teams, tournaments and matches are never removed one
  by one, so only new records have to be looked at (`GrowT`), and those were checked under
  the caller's organization; what a match inherits was validated when its tournament
  was made (`Resolved`).
- `ServicesProofs`, the camera page (`PInv`), for any user. The newest refresh that a
  mount has sent is the session's and was sent after whatever this mount was told is
  registered, so its answer has all of that and nothing of another account; once it is
  answered the list is that answer (`ListInv`), because earlier ones of the same mount came
  before it or the mount counts as `disordered`. What the mount registers it registers
  under the session (`PostInv`), and calls of earlier mounts go on and change nothing. A
  camera created by somebody else while the answer is on its way has a new id, so it is
  not one that the user was told of (`GivenInv`).
- `LabelingPageProofs`, the server (`StoreInv`), whoever asks for what: while the saves of a
  stem have not overlapped there is at most one, which holds the labels saved so far with
  its own (`SavesOK`). Every cached picture is cut short or was made of a clip of its stem
  (`CacheOK`), and where no extraction was cut short or looked in upon, one extraction at
  most has made the files up to the one it is at, and files are served only when all are
  made (`ExtractionOK`).
- `LabelingPageProofs`, the page (`PageInv`), for any user, clips of any names and lengths and
  a server that may fail at any step. On a clip that the user did not go on from, to or in
  while an answer was due, one thing is done at a time (`Sole`), so each answer finds the
  page where its request left it, and what the page holds differs from the file by that
  request only (`ClipOK`, `Waiting`). The canvas shows the current frame or waits for
  it (`CanvasOK`), because only the last load may draw; so a label made when nothing was
  outstanding is of the frame it is posted for, and a save carries it there unchanged
  (`LabelsOK`, `SaveOK`), whatever the user does meanwhile.
- `SignalProofs!EqualLengthsAlwaysAlign`: on two signals of one length, whatever the
  length and the samples, the lag returned is a best one. It rests on `LagsDoNotAlias`: in
  a ring of at least the sum of both lengths less one, the value read at a lag's index is
  the linear correlation at that lag.
- `SignalProofs!VideoWindowIsAlwaysExact`, `AudioWindowIsAlwaysExact`: each ring is a
  suffix of everything added, and which suffix is said by the stamps: they do not
  decrease, so the stamps within the window of the newest are the last ones
  (`KeptIsSuffix`; that there is a first one to keep is `LeastExists`), and pruning the
  pruned ring is pruning all that was added (`SuffixMoves`). A chunk's stamp is
  its position, so the audio ring needs no search.
- `SignalProofs!ClipsRoundTrip`, `DamageIsAlwaysContained`: a window of any length and any
  times comes back from the container; a cut anywhere is refused; a changed byte shows in
  no frame before it. `FormatInv` is plain (what is stored is the encoding, its beginning,
  or it with one byte changed), the work is in what the two recursions compute. Where
  each byte stands is `EncodedBytes`; what a turn of `Decode`'s loop does on a whole entry,
  on less than one and on anything else, `ReadsAnEntry`, `ReadsShortEntry` and
  `ReadsOneMore`; then as many turns as there are whole entries restore their frames
  (`TurnsRestore`), an error stays (`ErrorsStick`) and frames once read are kept
  (`FramesAreKept`). Induction theorems that take a predicate are out of reach, so each of
  these takes the set of the numbers it holds for: `EveryNatural` shows that it is all of
  them, because the others would have a least member (`LeastExists`).

Only model-checked:

- Liveness (`EveryTriggerAnswered`, `OpenedConnectionCloses`, `SubmittingEnds`,
  `PictureCatchesUp`): fairness and ENABLED are out of the prover's reach.

The type invariants of the modules without a type run (`PageTypeOK`, `StoreTypeOK`, those
of `LabelingPage`, `WebRTCUpload` and `ClipSync`) are parts of the inductive invariants.

## Not modelled

Reads that change nothing, where no property is about them; `handleTrigger`'s 500
(`clipformat.Encode` refuses only images larger than a JPEG can be); the WAV header (a
fixed layout that nothing in this repository reads); JSON, SDP, layout and logging;
sizes and memory limits; passwords and signatures beyond their verdict; the scale, the
norm and the sample rate of a correlation; the labeling tool's box geometry;
`GetLensProfile` (a constant table); the floating-point geometry of camera calibration and
ML packages that are still placeholders; review-orchestration and analytics-reporting
(health checks only); observability; infrastructure; umpire console and mobile app
(placeholders).

## Plan

1. **Done**: the upload path over HTTP and WebRTC, the delivery contract, consent and
   the roster gate, identity and tokens, the capture buffers; safety and refinement of
   the HTTP path, the roster gate and identity proved.
2. **Done**: sync offsets, calibrations, matches, the camera page, the labeling tool, the
   clip container and time-sync; sync offsets and equal-length lags proved.
3. **Done**: every safety property of the passing runs proved; both transports implement
   `ClipDelivery`.
4. Proofs: of two runs of `TimeSync` with the signals swapped, that the lags are
   opposite; that `Roster` refines a roster gate that checks and adds in one step, up to
   the revocations it overlaps.
