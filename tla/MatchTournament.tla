-------------------------- MODULE MatchTournament --------------------------
(***************************************************************************)
(* The match-tournament service as its HTTP clients see it: teams,         *)
(* tournaments, matches and rosters of several organizations, and the      *)
(* handlers that create, read and list them (internal/httpapi,             *)
(* internal/service, internal/domain, internal/memstore).                  *)
(*                                                                         *)
(* A request is one step here.  Teams, tournaments and matches are only    *)
(* ever added, so what a request has looked up is still there when it      *)
(* writes, unless the process has died and the request with it.  What may  *)
(* change under AddPlayerToRoster is the consent, in another service: that *)
(* is module Roster, and here the answer of the check is any of three.     *)
(***************************************************************************)
EXTENDS Integers, FiniteSets

CONSTANTS Orgs, Users,
          TeamIds, TournamentIds, MatchIds,   \* newID draws from these
          MaxRestarts,                        \* bound
          None                                \* field not given

\* An organizer_admin may manage matches, nobody else.
Callers == [org : Orgs, role : {"organizer_admin", "other"}]

\* PlayingConditionsInput, as far as NewPlayingConditions tells inputs apart.
Conditions == [quota : {-1, 0}, types : {{}, {"lbw"}, {"unknown"}}, tier : {"accessible", "broadcast", ""}]
Zero       == [quota |-> 0, types |-> {}, tier |-> ""]

VARIABLES
  teams, tournaments, matches,  \* the stores: sets of records keyed by org and id
  rosters,                      \* keyed by org, match and user
  restarts,
  reply,     \* the last response: to whom, its status, whose records it shows
  \* history, read by the properties only
  given      \* ids given out, which are random and never come again

vars == <<teams, tournaments, matches, rosters, restarts, reply, given>>

Init ==
  /\ teams = {} /\ tournaments = {} /\ matches = {} /\ rosters = {}
  /\ restarts = 0
  /\ reply = None
  /\ given = {}

-----------------------------------------------------------------------------
\* Mutation: the store is keyed by the id alone.
FindAnywhere(table, o, id) == {x \in table : x.id = id}

\* Get of the three stores.
Find(table, o, id) == {x \in table : x.org = o /\ x.id = id}

\* The tenant check and CanManageMatches.
MayManage(c, o) == c.org = o /\ c.role = "organizer_admin"

ValidQuota(in) == in.quota >= 0
ValidTier(in)  == in.tier \in {"accessible", "broadcast"}
ValidTypes(in) == in.types \subseteq {"lbw", "edge", "run_out", "stumping"}

\* NewPlayingConditions accepts the input.
ValidConditions(in) == ValidQuota(in) /\ ValidTier(in) /\ ValidTypes(in)

\* writeJSON, or writeServiceError with what it maps the error to.
Respond(c, status, shown) ==
  reply' = [to |-> c.org, status |-> status, owners |-> {x.org : x \in shown}]

Fresh(ids) == ids \ given
Stores     == <<teams, tournaments, matches, rosters>>

\* A create that ends with this status: 201 stores the record, all else nothing.
Created(c, status, record, table, others) ==
  /\ IF status = 201
     THEN /\ table' = table \cup {record}
          /\ given' = given \cup {record.id}
          /\ Respond(c, status, {record})
     ELSE UNCHANGED <<table, given>> /\ Respond(c, status, {})
  /\ UNCHANGED <<others, restarts>>

-----------------------------------------------------------------------------
\* handleCreateTeam; named: the name is not empty.
CreateTeam(c, o, named) ==
  \E id \in Fresh(TeamIds) :
    LET status == IF ~MayManage(c, o) THEN 403 ELSE IF ~named THEN 400 ELSE 201 IN
      Created(c, status, [org |-> o, id |-> id], teams, <<tournaments, matches, rosters>>)

\* handleCreateTournament: conditions are looked at after the permission.
CreateTournament(c, o, named, defaults) ==
  \E id \in Fresh(TournamentIds) :
    LET status == IF ~MayManage(c, o) THEN 403
                  ELSE IF ~ValidConditions(defaults) \/ ~named THEN 400 ELSE 201
    IN Created(c, status, [org |-> o, id |-> id, defaults |-> defaults],
               tournaments, <<teams, matches, rosters>>)

\* The tournament's conditions are copied unless the request has its own.
ResolvedConditions(o, q) ==
  IF q.conditions # None THEN q.conditions
  ELSE IF q.tournament # None THEN (CHOOSE x \in Find(tournaments, o, q.tournament) : TRUE).defaults
  ELSE Zero

\* Mutation: the conditions of the request are taken as they are.
MatchStatusUnvalidated(c, o, q) ==
  IF ~MayManage(c, o) THEN 403
  ELSE IF \E t \in {q.home, q.away} : Find(teams, o, t) = {} THEN 404
  ELSE IF q.tournament # None /\ Find(tournaments, o, q.tournament) = {} THEN 404
  ELSE IF ~q.venue \/ q.home = q.away THEN 400
  ELSE 201

\* CreateMatch and NewMatch, in the order of their checks.
MatchStatus(c, o, q) ==
  IF ~MayManage(c, o) THEN 403
  ELSE IF \E t \in {q.home, q.away} : Find(teams, o, t) = {} THEN 404
  ELSE IF q.tournament # None /\ Find(tournaments, o, q.tournament) = {} THEN 404
  ELSE IF q.conditions # None /\ ~ValidConditions(q.conditions) THEN 400
  ELSE IF ~q.venue \/ q.home = q.away THEN 400
  ELSE 201

MatchRequests ==
  [tournament : TournamentIds \cup {None}, home : TeamIds, away : TeamIds, venue : BOOLEAN,
   conditions : Conditions \cup {None}]

CreateMatch(c, o, q) ==
  \E id \in Fresh(MatchIds) :
    LET status == MatchStatus(c, o, q) IN
      Created(c, status,
              [org |-> o, id |-> id, tournament |-> q.tournament, home |-> q.home, away |-> q.away,
               conditions |-> IF status = 201 THEN ResolvedConditions(o, q) ELSE Zero],
              matches, <<teams, tournaments, rosters>>)

-----------------------------------------------------------------------------
\* RosterStore.Get
OnRoster(o, m, u) == {e \in rosters : e.org = o /\ e.match = m /\ e.user = u}

\* handleAddRosterEntry with what the consent checker answered: the team is any
\* of the organization's, and one entry per match and player.
AddPlayerToRoster(c, o, m, t, u, verdict) ==
  LET status == IF ~MayManage(c, o) THEN 403
                ELSE IF Find(matches, o, m) = {} \/ Find(teams, o, t) = {} THEN 404
                ELSE IF verdict = "error" THEN 500
                ELSE IF verdict = "no" THEN 403
                ELSE IF OnRoster(o, m, u) # {} THEN 409
                ELSE 201
      entry  == [org |-> o, match |-> m, team |-> t, user |-> u]
  IN /\ rosters' = IF status = 201 THEN rosters \cup {entry} ELSE rosters
     /\ Respond(c, status, IF status = 201 THEN {entry} ELSE {})
     /\ UNCHANGED <<teams, tournaments, matches, restarts, given>>

\* handleRemoveRosterEntry
RemovePlayerFromRoster(c, o, m, u) ==
  LET status == IF ~MayManage(c, o) THEN 403 ELSE IF OnRoster(o, m, u) = {} THEN 404 ELSE 204
  IN /\ rosters' = IF status = 204 THEN rosters \ OnRoster(o, m, u) ELSE rosters
     /\ Respond(c, status, {})
     /\ UNCHANGED <<teams, tournaments, matches, restarts, given>>

\* ListByOrganization and ListByMatch.
Owned(table, o) == {x \in table : x.org = o}

\* The list handlers and the get handlers: any member of the organization may read.
List(c, o) ==
  /\ \E table \in {teams, tournaments, matches, rosters} :
       IF c.org # o THEN Respond(c, 403, {}) ELSE Respond(c, 200, Owned(table, o))
  /\ UNCHANGED <<Stores, restarts, given>>

Get(c, o, id) ==
  /\ \E table \in {teams, tournaments, matches} :
       IF c.org # o THEN Respond(c, 403, {})
       ELSE Respond(c, IF Find(table, o, id) = {} THEN 404 ELSE 200, Find(table, o, id))
  /\ UNCHANGED <<Stores, restarts, given>>

\* Everything is in memory.
Restart ==
  /\ restarts < MaxRestarts
  /\ restarts' = restarts + 1
  /\ teams' = {} /\ tournaments' = {} /\ matches' = {} /\ rosters' = {}
  /\ reply' = None
  /\ UNCHANGED given

Next ==
  \/ \E c \in Callers, o \in Orgs :
       \/ \E named \in BOOLEAN : CreateTeam(c, o, named)
       \/ \E named \in BOOLEAN, in \in Conditions : CreateTournament(c, o, named, in)
       \/ \E q \in MatchRequests : CreateMatch(c, o, q)
       \/ \E m \in MatchIds, u \in Users :
            \/ \E t \in TeamIds, verdict \in {"yes", "no", "error"} :
                 AddPlayerToRoster(c, o, m, t, u, verdict)
            \/ RemovePlayerFromRoster(c, o, m, u)
       \/ List(c, o)
       \/ \E id \in TeamIds \cup TournamentIds \cup MatchIds : Get(c, o, id)
  \/ Restart

Spec == Init /\ [][Next]_vars

-----------------------------------------------------------------------------
TypeOK ==
  /\ teams \subseteq [org : Orgs, id : TeamIds]
  /\ tournaments \subseteq [org : Orgs, id : TournamentIds, defaults : Conditions]
  /\ matches \subseteq [org : Orgs, id : MatchIds, tournament : TournamentIds \cup {None},
                        home : TeamIds, away : TeamIds, conditions : Conditions]
  /\ rosters \subseteq [org : Orgs, match : MatchIds, team : TeamIds, user : Users]
  /\ given \subseteq TeamIds \cup TournamentIds \cup MatchIds
  /\ restarts \in 0..MaxRestarts

Kept(table, o, id) == \E x \in table : x.org = o /\ x.id = id

\* Tenants stay apart, even if they know each other's ids: a match never refers
\* to another tenant's team or tournament, nor to one that a restart has lost,
\* a roster entry belongs to a match and a team of its own organization, and
\* nobody is shown a record of an organization other than the caller's.
TenantsStayApart ==
  /\ \A m \in matches :
       /\ Kept(teams, m.org, m.home) /\ Kept(teams, m.org, m.away)
       /\ m.tournament # None => Kept(tournaments, m.org, m.tournament)
  /\ \A e \in rosters : Kept(matches, e.org, e.match) /\ Kept(teams, e.org, e.team)
  /\ reply # None => reply.owners \subseteq {reply.to}

\* Conditions reach a match through NewPlayingConditions, whether they are its
\* own or copied; only a match that was given neither has the zero value.
ConditionsWereValidated ==
  /\ \A t \in tournaments : ValidConditions(t.defaults)
  /\ \A m \in matches :
       ValidConditions(m.conditions) \/ (m.tournament = None /\ m.conditions = Zero)

\* What openapi.yaml says of a match's conditions: camera_tier is one of two.
CameraTierIsInSchema == \A m \in matches : m.conditions.tier \in {"accessible", "broadcast"}
=============================================================================
