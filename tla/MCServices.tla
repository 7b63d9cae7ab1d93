----------------------------- MODULE MCServices -----------------------------
(***************************************************************************)
(* Three services for TLC, side by side: camera-calibration, the clips of  *)
(* media-ingest-gateway (ClipSync) and match-tournament.  They share no    *)
(* state and make no calls to one another, so a behavior of them all is a  *)
(* behavior of each, and one at a time is enough.  Organizations and       *)
(* submissions are interchangeable.                                        *)
(***************************************************************************)
EXTENDS CameraCalibration, TLC

CONSTANTS Matches, ClipIds, Contents,                 \* of ClipSync
          Users, TeamIds, TournamentIds, MatchIds     \* of MatchTournament

VARIABLES
  service,   \* the one that runs
  clips, objects, store, syncing, clipRestarts, uploaded, live, syncedBefore,
  teams, tournaments, matches, rosters, matchRestarts, response, matchIdsGiven

clipVars       == <<clips, objects, store, syncing, clipRestarts, uploaded, live, syncedBefore>>
tournamentVars == <<teams, tournaments, matches, rosters, matchRestarts, response, matchIdsGiven>>

Sync == INSTANCE ClipSync WITH
  submission <- syncing, restarts <- clipRestarts, before <- syncedBefore

Tournament == INSTANCE MatchTournament WITH
  restarts <- matchRestarts, reply <- response, given <- matchIdsGiven

\* What is missing is neither an offset nor a clip.
ASSUME SyncConstants == None \notin Sync!Offsets /\ None \notin Sync!Clips

ServicesInit ==
  /\ service \in {"media-ingest-gateway", "camera-calibration", "match-tournament"}
  /\ Init /\ Sync!Init /\ Tournament!Init

ServicesNext ==
  /\ UNCHANGED service
  /\ \/ /\ service = "media-ingest-gateway" /\ Sync!Next
        /\ UNCHANGED <<vars, tournamentVars>>
     \/ /\ service = "camera-calibration" /\ Next
        /\ UNCHANGED <<clipVars, tournamentVars>>
     \/ /\ service = "match-tournament" /\ Tournament!Next
        /\ UNCHANGED <<vars, clipVars>>

ServicesSpec == ServicesInit /\ [][ServicesNext]_<<service, vars, clipVars, tournamentVars>>

Symmetry == Permutations(Orgs) \cup Permutations(Submissions)

-----------------------------------------------------------------------------
\* Every variable of the three services has its type; no offset is stored with
\* a score that ApplySyncOffset refuses, and no negative reprojection error.
ServicesTypeOK == TypeOK /\ Sync!TypeOK /\ Tournament!TypeOK

\* media-ingest-gateway: writing a clip back never loses or alters one.
SyncLosesNothing == Sync!SyncLosesNothing

\* media-ingest-gateway: an offset is relative to another clip that is there.
ReferencesResolve == Sync!ReferencesResolve

\* media-ingest-gateway: the later of two submissions in turn is the one kept.
LaterSyncWins == Sync!LaterSyncWins

\* match-tournament keeps the records of its tenants apart.
TenantsStayApart == Tournament!TenantsStayApart

\* match-tournament: playing conditions reach a match through their validation.
ConditionsWereValidated == Tournament!ConditionsWereValidated
=============================================================================
