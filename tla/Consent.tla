------------------------------ MODULE Consent ------------------------------
(***************************************************************************)
(* Consent records of the identity-access service                          *)
(* (internal/service/consent.go, internal/domain/consent.go, memstore).    *)
(* CaptureConsent reads a copy of the record, changes one grant and writes *)
(* the copy back; the store locks each access, nothing locks the pair, so  *)
(* two captures for one player may overlap.                                *)
(*                                                                         *)
(* Every operation is keyed by one organization and refuses callers of any *)
(* other, so one organization is modelled.  Of a record's guardian only     *)
(* this is kept: whether a minor's record has one.  A consent type outside  *)
(* ConsentTypes is stored like any other and never read.                    *)
(***************************************************************************)
EXTENDS Naturals

CONSTANTS Players,    \* the users whose consent is captured
          Captures,   \* CaptureConsent requests that may be in progress at once
          None        \* no record, no request

ConsentTypes == {"video_capture", "ai_analysis", "footage_reuse"}

\* An adult, a minor with a guardian on file, a minor without.
Kinds   == {"adult", "ward", "unguarded"}
Records == [grants : SUBSET ConsentTypes, kind : Kinds \ {"unguarded"}]

\* What a capture asks for; guardian: the request names a guardian.
Inputs == [player : Players, type : ConsentTypes, grant : BOOLEAN,
           minor : BOOLEAN, guardian : BOOLEAN]

\* Who asks: the player, an organizer_admin, the guardian the request names,
\* or anybody else.
Capturers == {"self", "organizer_admin", "named_guardian", "unrelated"}

VARIABLES
  consent,    \* consent[p]: the ConsentStore
  capture,    \* capture[c]: what c asks for and the copy it will write back
  \* history, read by the properties only
  overtaken,  \* captures whose player was written by another since they read
  revoked     \* revoked[p]: types whose revocation was acknowledged and which
              \* nobody has asked to grant since

consentVars == <<consent, capture, overtaken, revoked>>

ConsentInit ==
  /\ consent = [p \in Players |-> None]
  /\ capture = [c \in Captures |-> None]
  /\ overtaken = {}
  /\ revoked = [p \in Players |-> {}]

Authorized(by, in) ==
  \/ by \in {"self", "organizer_admin"}
  \/ by = "named_guardian" /\ in.guardian

KindOf(in) ==
  IF ~in.minor THEN "adult" ELSE IF in.guardian THEN "ward" ELSE "unguarded"

\* Mutation: the guardian is not asked for.
NewRecordUnchecked(in) == {[grants |-> {}, kind |-> KindOf(in)]}

\* NewConsentRecord refuses a minor without a guardian.
NewConsentRecord(in) ==
  IF KindOf(in) = "unguarded" THEN {} ELSE {[grants |-> {}, kind |-> KindOf(in)]}

\* The stored record, or a new one: only then does isMinor count.
RecordFor(in) ==
  IF consent[in.player] = None THEN NewConsentRecord(in) ELSE {consent[in.player]}

\* Mutation: a capture starts from an empty set of grants.
OnlyThisGrant(rec, in) ==
  [rec EXCEPT !.grants = IF in.grant THEN {in.type} ELSE {}]

\* Grant or Revoke.
Changed(rec, in) ==
  [rec EXCEPT !.grants = IF in.grant THEN @ \cup {in.type} ELSE @ \ {in.type}]

\* CaptureConsent up to the change of its copy.  A caller who is refused, and
\* a minor's record without a guardian, leave no trace.
BeginCapture(c) ==
  /\ capture[c] = None
  /\ \E in \in Inputs, by \in Capturers :
       /\ Authorized(by, in)
       /\ \E rec \in RecordFor(in) :
            capture' = [capture EXCEPT ![c] =
                          [player |-> in.player, type |-> in.type,
                           grant |-> in.grant, copy |-> Changed(rec, in)]]
       /\ revoked' = IF in.grant
                     THEN [revoked EXCEPT ![in.player] = @ \ {in.type}]
                     ELSE revoked
  /\ overtaken' = overtaken \ {c}
  /\ UNCHANGED consent

InProgress(p) == {c \in Captures : capture[c] # None /\ capture[c].player = p}

\* Upsert of the copy, and the acknowledgement.
EndCapture(c) ==
  /\ capture[c] # None
  /\ LET own == capture[c]
         p   == own.player
         granting == {d \in InProgress(p) : capture[d].grant /\ capture[d].type = own.type}
     IN
     /\ consent' = [consent EXCEPT ![p] = own.copy]
     /\ capture' = [capture EXCEPT ![c] = None]
     /\ overtaken' = (overtaken \cup InProgress(p)) \ {c}
     /\ revoked' = IF ~own.grant /\ granting = {}
                   THEN [revoked EXCEPT ![p] = @ \cup {own.type}]
                   ELSE revoked

\* The store is in memory: a restart forgets the records and cuts the requests.
IdentityRestarts ==
  /\ consent' = [p \in Players |-> None]
  /\ capture' = [c \in Captures |-> None]
  /\ overtaken' = {}
  /\ revoked' = [p \in Players |-> {}]

ConsentStep == \E c \in Captures : BeginCapture(c) \/ EndCapture(c)

GrantsOf(rec) == IF rec = None THEN {} ELSE rec.grants
Granted(p)    == GrantsOf(consent[p])

\* EligibleForDRS: footage reuse is no precondition.
Eligible(p) == {"video_capture", "ai_analysis"} \subseteq Granted(p)

-----------------------------------------------------------------------------
\* Includes that no minor's record exists without a guardian, whatever the
\* order of the captures for one player.
ConsentTypeOK ==
  /\ consent \in [Players -> {None} \cup Records]
  /\ capture \in [Captures -> {None} \cup [player : Players, type : ConsentTypes,
                                           grant : BOOLEAN, copy : Records]]
  /\ overtaken \subseteq Captures
  /\ revoked \in [Players -> SUBSET ConsentTypes]

\* A capture that nobody overtook changes the grant it was asked to change and
\* nothing else: not another grant, and not whether the player is a minor.
UncontendedCaptureIsExact ==
  [][\A c \in Captures :
       LET own == capture[c] IN
       (own # None /\ c \notin overtaken /\ EndCapture(c)) =>
         LET p == own.player IN
         /\ consent'[p].grants = (IF own.grant THEN Granted(p) \cup {own.type}
                                  ELSE Granted(p) \ {own.type})
         /\ consent[p] # None => consent'[p].kind = consent[p].kind
    ]_consentVars

\* A revocation that was acknowledged holds until somebody asks to grant the
\* same type again (docs/prd.md 5.6: players can revoke consent at any time).
RevocationSticks ==
  \A p \in Players : revoked[p] \cap Granted(p) = {}
=============================================================================
