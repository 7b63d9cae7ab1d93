------------------------- MODULE CameraCalibration -------------------------
(***************************************************************************)
(* The camera-calibration service: cameras registered to an organization's *)
(* venues and one calibration profile per camera (internal/httpapi,        *)
(* internal/service, internal/domain, internal/memstore).                  *)
(*                                                                         *)
(* Registering and reading are one step.  StoreCalibrationProfile is two,  *)
(* looking the camera up and storing the profile, since two submissions    *)
(* for a camera may overlap.  A body that is not JSON is refused before    *)
(* any of this.  GetLensProfile reads a constant table and has no state.   *)
(***************************************************************************)
EXTENDS Integers

CONSTANTS Orgs, CameraIds,     \* newID draws from CameraIds
          Submissions,         \* calls of PUT .../calibration
          MaxRestarts,         \* bound
          None                 \* not there

\* CanManageCalibration: an organizer_admin, nobody else.
Callers == [org : Orgs, role : {"organizer_admin", "other"}]

\* Reprojection errors in pixels: refused, the largest valid one, too large.
Pixels == {-1, 2, 3}
MaxReprojectionErrorPx == 2

VARIABLES
  cameras,     \* CameraStore, keyed by org and id
  profiles,    \* ProfileStore, keyed by org and id
  submission,  \* submission[s]: None, or the call: its camera, error and status (0: running)
  restarts,
  reply,       \* what the last step answered, if it was a read that found a record
  \* history, read by the properties only
  given,       \* camera ids given out, which are random and never come again
  before       \* before[s]: submissions already answered 200 when s looked up its camera

storeVars == <<cameras, restarts, given>>
vars == <<storeVars, profiles, submission, reply, before>>

StoreInit == cameras = {} /\ restarts = 0 /\ given = {}

Init ==
  /\ StoreInit
  /\ profiles = {}
  /\ submission = [s \in Submissions |-> None]
  /\ reply = None
  /\ before = [s \in Submissions |-> {}]

-----------------------------------------------------------------------------
Find(table, o, id) == {x \in table : x.org = o /\ x.id = id}

\* ListByOrganization
Owned(table, o) == {x \in table : x.org = o}

\* The tenant check and CanManageCalibration.
MayManage(c, o) == c.org = o /\ c.role = "organizer_admin"

\* RegisterCamera past its checks: a fresh id, NewCamera, Create.
CreateCamera(o) ==
  \E id \in CameraIds \ given :
    /\ cameras' = cameras \cup {[org |-> o, id |-> id]}
    /\ given' = given \cup {id}
    /\ UNCHANGED restarts

\* NewCamera refuses an empty venue or model; a refusal changes nothing.
RegisterCamera(c, o, complete) ==
  /\ MayManage(c, o) /\ complete
  /\ CreateCamera(o)
  /\ reply' = None
  /\ UNCHANGED <<profiles, submission, before>>

\* NewCalibrationProfile
Accepts(px) == px >= 0

Answered(s, status) == submission[s] # None /\ submission[s].status = status

\* StoreCalibrationProfile up to the profile it is about to store.
LookUpCamera(s, c, o, id, px) ==
  /\ submission[s] = None
  /\ submission' = [submission EXCEPT ![s] =
       [org |-> o, id |-> id, px |-> px,
        status |-> IF ~MayManage(c, o) THEN 403
                   ELSE IF Find(cameras, o, id) = {} THEN 404
                   ELSE IF ~Accepts(px) THEN 400
                   ELSE 0]]
  /\ before' = [before EXCEPT ![s] = {r \in Submissions : Answered(r, 200)}]
  /\ reply' = None
  /\ UNCHANGED <<storeVars, profiles>>

\* Mutation: Create, which keeps the profile that is there.
StoreProfileOnce(s) ==
  /\ Answered(s, 0)
  /\ LET q == submission[s] IN
       profiles' = IF Find(profiles, q.org, q.id) # {} THEN profiles
                   ELSE profiles \cup {[org |-> q.org, id |-> q.id, px |-> q.px, by |-> s]}
  /\ submission' = [submission EXCEPT ![s].status = 200]
  /\ reply' = None
  /\ UNCHANGED <<storeVars, before>>

\* ProfileStore.Store replaces the profile of the camera.
StoreProfile(s) ==
  /\ Answered(s, 0)
  /\ LET q == submission[s] IN
       profiles' = (profiles \ Find(profiles, q.org, q.id))
                     \cup {[org |-> q.org, id |-> q.id, px |-> q.px, by |-> s]}
  /\ submission' = [submission EXCEPT ![s].status = 200]
  /\ reply' = None
  /\ UNCHANGED <<storeVars, before>>

\* CalibrationProfile.Valid
Valid(p) == p.px <= MaxReprojectionErrorPx

\* GetCalibrationStatus: any member of the organization may read it, and 404 it
\* is while there is no profile.
GetCalibrationStatus(c, o, id) ==
  LET found == IF c.org = o THEN Find(profiles, o, id) ELSE {} IN
  /\ IF found = {} THEN reply' = None
     ELSE \E p \in found : reply' = [org |-> o, id |-> id, valid |-> Valid(p)]
  /\ UNCHANGED <<storeVars, profiles, submission, before>>

\* Everything is in memory, and the calls in progress die.
LoseCameras ==
  /\ restarts < MaxRestarts
  /\ restarts' = restarts + 1
  /\ cameras' = {}
  /\ UNCHANGED given

Restart ==
  /\ LoseCameras
  /\ profiles' = {}
  /\ submission' = [s \in Submissions |->
       IF Answered(s, 0) THEN [submission[s] EXCEPT !.status = 502] ELSE submission[s]]
  /\ reply' = None
  /\ UNCHANGED before

Next ==
  \/ \E c \in Callers, o \in Orgs :
       \/ \E complete \in BOOLEAN : RegisterCamera(c, o, complete)
       \/ \E id \in CameraIds :
            \/ \E s \in Submissions, px \in Pixels : LookUpCamera(s, c, o, id, px)
            \/ GetCalibrationStatus(c, o, id)
  \/ \E s \in Submissions : StoreProfile(s)
  \/ Restart

Spec == Init /\ [][Next]_vars

-----------------------------------------------------------------------------
\* What a call of PUT .../calibration holds once it has begun.
Calls == [org : Orgs, id : CameraIds, px : Pixels, status : {0, 200, 400, 403, 404, 502}]

\* Such a call is not mistaken for one that has not begun.
ASSUME CalibrationConstants == MaxRestarts \in Nat /\ None \notin Calls

TypeOK ==
  /\ cameras \subseteq [org : Orgs, id : CameraIds]
  /\ profiles \subseteq [org : Orgs, id : CameraIds, px : Pixels \cap Nat, by : Submissions]
  /\ submission \in [Submissions -> {None} \cup Calls]
  /\ restarts \in 0..MaxRestarts
  /\ reply \in {None} \cup [org : Orgs, id : CameraIds, valid : BOOLEAN]
  /\ given \subseteq CameraIds
  /\ before \in [Submissions -> SUBSET Submissions]

\* s was accepted, and for this camera.
AcceptedFor(s, o, id) == Answered(s, 200) /\ submission[s].org = o /\ submission[s].id = id

\* A recalibration supersedes the profile before it: the health check calls a
\* camera ready only if a submission within the threshold stands for it, that
\* is, none was accepted that began after its answer.
ReadyIsDeserved ==
  reply # None /\ reply.valid =>
    \E s \in Submissions :
      /\ AcceptedFor(s, reply.org, reply.id) /\ submission[s].px <= 2
      /\ \A r \in Submissions : AcceptedFor(r, reply.org, reply.id) => s \notin before[r]
=============================================================================
