------------------------------- MODULE Roster -------------------------------
(***************************************************************************)
(* The consent gate: AddPlayerToRoster of the match-tournament service     *)
(* (internal/service/roster.go) asks identity-access over HTTP whether the *)
(* player is eligible and then adds the entry, while consent is captured   *)
(* and revoked on the other side (module Consent) and other requests add   *)
(* and remove entries.  Nothing spans the two services.                    *)
(*                                                                         *)
(* One organization and one match that exists.  Requests of callers of     *)
(* another organization, without CanManageMatches or naming a match or     *)
(* team that does not exist are refused before the consent check and leave *)
(* no trace; matches and teams are never deleted.                          *)
(***************************************************************************)
EXTENDS Consent

CONSTANTS Teams,   \* teams of the organization, in the match or not
          Adds     \* AddPlayerToRoster requests that may be in progress at once

VARIABLES
  roster,   \* roster[p]: the team p is on the match's roster for, or None
  add,      \* add[a]: the request a is serving, or None
  \* history, read by the properties only
  seen      \* the requests during which their player was eligible at some time

rosterVars == <<roster, add, seen>>
vars       == <<consentVars, rosterVars>>

Init ==
  /\ ConsentInit
  /\ roster = [p \in Players |-> None]
  /\ add = [a \in Adds |-> None]
  /\ seen = {}

\* The precondition of docs/prd.md 5.6.2, for the history.
Consents(rec) == {"video_capture", "ai_analysis"} \subseteq GrantsOf(rec)

-----------------------------------------------------------------------------
\* AddPlayerToRoster up to its call of the consent checker.
BeginAdd(a) ==
  /\ add[a] = None
  /\ \E p \in Players, t \in Teams :
       /\ add' = [add EXCEPT ![a] = [player |-> p, team |-> t, phase |-> "checking"]]
       /\ seen' = IF Consents(consent[p]) THEN seen \cup {a} ELSE seen
  /\ UNCHANGED <<roster, consentVars>>

EndAdd(a) ==
  /\ add' = [add EXCEPT ![a] = None]
  /\ seen' = seen \ {a}

\* Mutation: the client takes an unexpected status for a yes.
IsEligibleFailOpen(p) == {"yes"} \cup (IF Eligible(p) THEN {} ELSE {"no"})

\* IsEligibleForDRS reads the record as it is now: 200 with the grants, 404
\* for none.  Any other status (the caller's token may have expired), a broken
\* connection and the 5 s timeout are errors.
IsEligibleForDRS(p) == {"error", IF Eligible(p) THEN "yes" ELSE "no"}

\* Neither an error nor a no adds anything.
CheckConsent(a) ==
  /\ add[a] # None /\ add[a].phase = "checking"
  /\ \E verdict \in IsEligibleForDRS(add[a].player) :
       IF verdict = "yes"
       THEN add' = [add EXCEPT ![a].phase = "adding"] /\ UNCHANGED seen
       ELSE EndAdd(a)
  /\ UNCHANGED <<roster, consentVars>>

\* Mutation: the store replaces the entry that is already there.
AddReplacing(a) ==
  /\ add[a] # None /\ add[a].phase = "adding"
  /\ roster' = [roster EXCEPT ![add[a].player] = add[a].team]
  /\ EndAdd(a)
  /\ UNCHANGED consentVars

\* NewRosterEntry and RosterStore.Add: a second entry for the player is 409.
AddEntry(a) ==
  /\ add[a] # None /\ add[a].phase = "adding"
  /\ roster' = IF roster[add[a].player] = None
               THEN [roster EXCEPT ![add[a].player] = add[a].team]
               ELSE roster
  /\ EndAdd(a)
  /\ UNCHANGED consentVars

RemovePlayerFromRoster(p) ==
  /\ roster[p] # None
  /\ roster' = [roster EXCEPT ![p] = None]
  /\ UNCHANGED <<add, seen, consentVars>>

-----------------------------------------------------------------------------
\* match-tournament keeps its rosters in memory and restarts on its own.
MatchTournamentRestarts ==
  /\ roster # [p \in Players |-> None] \/ add # [a \in Adds |-> None]
  /\ roster' = [p \in Players |-> None]
  /\ add' = [a \in Adds |-> None]
  /\ seen' = {}
  /\ UNCHANGED consentVars

\* A step of identity-access; the requests in progress see its outcome.
IdentityAccess ==
  /\ ConsentStep \/ IdentityRestarts
  /\ seen' = seen \cup {a \in Adds : add[a] # None /\ Consents(consent'[add[a].player])}
  /\ UNCHANGED <<roster, add>>

Next ==
  \/ \E a \in Adds : BeginAdd(a) \/ CheckConsent(a) \/ AddEntry(a)
  \/ \E p \in Players : RemovePlayerFromRoster(p)
  \/ MatchTournamentRestarts \/ IdentityAccess

Spec == Init /\ [][Next]_vars

-----------------------------------------------------------------------------
TypeOK ==
  /\ ConsentTypeOK
  /\ roster \in [Players -> Teams \cup {None}]
  /\ add \in [Adds -> {None} \cup [player : Players, team : Teams,
                                   phase : {"checking", "adding"}]]
  /\ seen \subseteq Adds

\* The gate, as far as two services without a common transaction can promise
\* it: a player enters the roster only through a request during which the
\* player was eligible at some time.  An unreachable identity-access adds
\* nobody (it fails closed).
EntryWasEligible ==
  [][\A p \in Players :
       roster[p] = None /\ roster'[p] # None =>
         \E a \in seen : add[a] # None /\ add[a].player = p /\ add[a].team = roster'[p]
    ]_vars

\* Of two requests that put one player on two teams one wins: an entry never
\* moves to another team unless it was removed in between.
EntryKeepsItsTeam ==
  [][\A p \in Players : roster[p] # None => roster'[p] \in {None, roster[p]}]_vars

\* What ports.go says of the gate: a non-consenting player must never appear on
\* a match roster.  At the moment an entry is added its player is eligible.
ConsentAtAdd ==
  [][\A p \in Players : roster[p] = None /\ roster'[p] # None => Consents(consent[p])]_vars
=============================================================================
