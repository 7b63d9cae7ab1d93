---------------------------- MODULE RosterProofs ----------------------------
(***************************************************************************)
(* The consent gate, proved for any players, teams and numbers of requests *)
(* in progress.                                                            *)
(***************************************************************************)
EXTENDS Roster, TLAPS

CaptureRequests == [player : Players, type : ConsentTypes, grant : BOOLEAN, copy : Records]
AddRequests     == [player : Players, team : Teams, phase : {"checking", "adding"}]

LEMMA InitTypeOK == Init => TypeOK
  BY DEF Init, ConsentInit, TypeOK, ConsentTypeOK

LEMMA NewRecordType ==
  ASSUME NEW in \in Inputs, NEW rec \in NewConsentRecord(in)
  PROVE  rec \in Records /\ rec.grants = {}
  BY DEF NewConsentRecord, KindOf, Records, Kinds, Inputs

LEMMA ChangedType ==
  ASSUME NEW in \in Inputs, NEW rec \in Records
  PROVE  /\ Changed(rec, in) \in Records
         /\ Changed(rec, in).grants = (IF in.grant THEN rec.grants \cup {in.type}
                                       ELSE rec.grants \ {in.type})
         /\ Changed(rec, in).kind = rec.kind
  BY DEF Changed, Records, Inputs

\* What a capture that begins will write back.
LEMMA BeginCaptureCopy ==
  ASSUME TypeOK, NEW c \in Captures, BeginCapture(c)
  PROVE  /\ capture'[c] \in CaptureRequests
         /\ LET p == capture'[c].player IN
            /\ capture'[c].copy.grants = (IF capture'[c].grant
                                          THEN Granted(p) \cup {capture'[c].type}
                                          ELSE Granted(p) \ {capture'[c].type})
            /\ consent[p] # None => capture'[c].copy.kind = consent[p].kind
  <1> DEFINE request(in, rec) == [player |-> in.player, type |-> in.type,
                                  grant |-> in.grant, copy |-> Changed(rec, in)]
  <1>1. PICK in \in Inputs : \E rec \in RecordFor(in) :
          capture' = [capture EXCEPT ![c] = request(in, rec)]
    BY DEF BeginCapture
  <1>2. PICK rec \in RecordFor(in) : capture'[c] = request(in, rec)
    BY <1>1 DEF TypeOK, ConsentTypeOK
  <1>3. /\ in.player \in Players
        /\ consent[in.player] = None \/ consent[in.player] \in Records
    BY DEF Inputs, TypeOK, ConsentTypeOK
  <1>4. /\ rec \in Records
        /\ rec.grants = Granted(in.player)
        /\ consent[in.player] # None => rec.kind = consent[in.player].kind
    <2>1. CASE consent[in.player] = None
      BY <2>1, NewRecordType DEF RecordFor, Granted, GrantsOf
    <2>2. CASE consent[in.player] # None
      BY <1>3, <2>2 DEF RecordFor, Granted, GrantsOf
    <2> QED BY <2>1, <2>2
  <1>5. /\ request(in, rec) \in CaptureRequests
        /\ Changed(rec, in).grants = (IF in.grant THEN rec.grants \cup {in.type}
                                      ELSE rec.grants \ {in.type})
        /\ Changed(rec, in).kind = rec.kind
    BY <1>4, ChangedType DEF CaptureRequests, Inputs
  <1> QED BY <1>2, <1>4, <1>5

LEMMA ConsentStepTypeOK ==
  ASSUME TypeOK, ConsentStep \/ IdentityRestarts PROVE ConsentTypeOK'
  <1>1. ASSUME NEW c \in Captures, BeginCapture(c) PROVE ConsentTypeOK'
    <2>1. capture'[c] \in CaptureRequests
      BY <1>1, BeginCaptureCopy
    <2>2. \E x : capture' = [capture EXCEPT ![c] = x]
      BY <1>1 DEF BeginCapture
    <2>3. capture' \in [Captures -> {None} \cup CaptureRequests]
      BY <2>1, <2>2 DEF TypeOK, ConsentTypeOK, CaptureRequests
    <2>4. revoked' \in [Players -> SUBSET ConsentTypes]
      BY <1>1 DEF BeginCapture, TypeOK, ConsentTypeOK, Inputs
    <2> QED BY <1>1, <2>3, <2>4 DEF BeginCapture, TypeOK, ConsentTypeOK, CaptureRequests
  <1>2. ASSUME NEW c \in Captures, EndCapture(c) PROVE ConsentTypeOK'
    <2>1. capture[c] \in CaptureRequests
      BY <1>2 DEF EndCapture, TypeOK, ConsentTypeOK, CaptureRequests
    <2>2. consent' \in [Players -> {None} \cup Records]
      BY <1>2, <2>1 DEF EndCapture, TypeOK, ConsentTypeOK, CaptureRequests
    <2>3. capture' \in [Captures -> {None} \cup CaptureRequests]
      BY <1>2 DEF EndCapture, TypeOK, ConsentTypeOK, CaptureRequests
    <2>4. overtaken' \subseteq Captures
      BY <1>2 DEF EndCapture, TypeOK, ConsentTypeOK, InProgress
    <2>5. revoked' \in [Players -> SUBSET ConsentTypes]
      BY <1>2, <2>1 DEF EndCapture, TypeOK, ConsentTypeOK, CaptureRequests
    <2> QED BY <2>2, <2>3, <2>4, <2>5 DEF ConsentTypeOK, CaptureRequests
  <1>3. CASE IdentityRestarts
    BY <1>3 DEF IdentityRestarts, ConsentTypeOK
  <1> QED BY <1>1, <1>2, <1>3 DEF ConsentStep

LEMMA NextTypeOK == ASSUME TypeOK, [Next]_vars PROVE TypeOK'
  <1>1. CASE UNCHANGED vars
    BY <1>1 DEF vars, rosterVars, consentVars, TypeOK, ConsentTypeOK
  <1>2. ASSUME NEW a \in Adds, BeginAdd(a) PROVE TypeOK'
    BY <1>2 DEF BeginAdd, consentVars, TypeOK, ConsentTypeOK
  <1>3. ASSUME NEW a \in Adds, CheckConsent(a) PROVE TypeOK'
    <2>1. add[a] \in AddRequests
      BY <1>3 DEF CheckConsent, TypeOK, AddRequests
    <2>2. add' \in [Adds -> {None} \cup AddRequests] /\ seen' \subseteq Adds
      BY <1>3, <2>1 DEF CheckConsent, EndAdd, TypeOK, AddRequests
    <2> QED BY <1>3, <2>2 DEF CheckConsent, consentVars, TypeOK, ConsentTypeOK, AddRequests
  <1>4. ASSUME NEW a \in Adds, AddEntry(a) PROVE TypeOK'
    <2>1. add[a] \in AddRequests
      BY <1>4 DEF AddEntry, TypeOK, AddRequests
    <2> QED BY <1>4, <2>1 DEF AddEntry, EndAdd, consentVars, TypeOK, ConsentTypeOK, AddRequests
  <1>5. ASSUME NEW p \in Players, RemovePlayerFromRoster(p) PROVE TypeOK'
    BY <1>5 DEF RemovePlayerFromRoster, consentVars, TypeOK, ConsentTypeOK
  <1>6. CASE MatchTournamentRestarts
    BY <1>6 DEF MatchTournamentRestarts, consentVars, TypeOK, ConsentTypeOK
  <1>7. CASE IdentityAccess
    BY <1>7, ConsentStepTypeOK DEF IdentityAccess, TypeOK
  <1> QED BY <1>1, <1>2, <1>3, <1>4, <1>5, <1>6, <1>7 DEF Next

\* No order of captures, adds and restarts takes the stores out of their types;
\* in particular no minor's record is ever without a guardian.
THEOREM RosterTypeCorrect == Spec => []TypeOK
  BY InitTypeOK, NextTypeOK, PTL DEF Spec

-----------------------------------------------------------------------------
\* What an uncontended capture will write is the stored record but for its grant.
ExactCopy(c) ==
  capture[c] # None /\ c \notin overtaken =>
    LET own == capture[c]
        p   == own.player
    IN
    /\ own.copy.grants = (IF own.grant THEN Granted(p) \cup {own.type}
                          ELSE Granted(p) \ {own.type})
    /\ consent[p] # None => own.copy.kind = consent[p].kind

\* A request remembers that its player was eligible, and the gate asks for it.
SeenEligible(a) ==
  add[a] # None /\ (add[a].phase = "adding" \/ Consents(consent[add[a].player])) => a \in seen

GInv == TypeOK /\ (\A c \in Captures : ExactCopy(c)) /\ (\A a \in Adds : SeenEligible(a))

LEMMA InitGInv == Init => GInv
  BY InitTypeOK DEF Init, ConsentInit, GInv, ExactCopy, SeenEligible

LEMMA ConsentStepExactCopy ==
  ASSUME GInv, ConsentStep \/ IdentityRestarts, NEW d \in Captures PROVE ExactCopy(d)'
  <1>1. ASSUME NEW c \in Captures, BeginCapture(c) PROVE ExactCopy(d)'
    <2>1. \A p : Granted(p)' = Granted(p)
      BY <1>1 DEF BeginCapture, Granted, GrantsOf
    <2>2. CASE d = c
      BY <1>1, <2>1, <2>2, BeginCaptureCopy DEF GInv, ExactCopy, BeginCapture
    <2>3. CASE d # c
      <3>1. capture'[d] = capture[d] /\ consent' = consent
            /\ (d \in overtaken' <=> d \in overtaken)
        BY <1>1, <2>3 DEF BeginCapture, GInv, TypeOK, ConsentTypeOK
      <3> QED BY <2>1, <3>1 DEF GInv, ExactCopy
    <2> QED BY <2>2, <2>3
  <1>2. ASSUME NEW c \in Captures, EndCapture(c) PROVE ExactCopy(d)'
    <2>1. CASE d = c
      BY <1>2, <2>1 DEF EndCapture, ExactCopy, GInv, TypeOK, ConsentTypeOK
    <2>2. CASE d # c /\ capture[d] # None /\ capture[d].player = capture[c].player
      BY <1>2, <2>2 DEF EndCapture, ExactCopy, InProgress
    <2>3. CASE d # c /\ capture[d] # None /\ capture[d].player # capture[c].player
      <3>1. /\ capture'[d] = capture[d]
            /\ consent'[capture[d].player] = consent[capture[d].player]
            /\ d \notin overtaken' => d \notin overtaken
        BY <1>2, <2>3 DEF EndCapture, GInv, TypeOK, ConsentTypeOK
      <3> QED BY <3>1 DEF GInv, ExactCopy, Granted
    <2>4. CASE d # c /\ capture[d] = None
      BY <1>2, <2>4 DEF EndCapture, ExactCopy
    <2> QED BY <2>1, <2>2, <2>3, <2>4
  <1>3. CASE IdentityRestarts
    BY <1>3 DEF IdentityRestarts, ExactCopy
  <1> QED BY <1>1, <1>2, <1>3 DEF ConsentStep

LEMMA NextGInv == ASSUME GInv, [Next]_vars PROVE GInv'
  <1>1. TypeOK'
    BY NextTypeOK DEF GInv
  <1>2. ASSUME NEW c \in Captures PROVE ExactCopy(c)'
    <2>1. CASE UNCHANGED consentVars
      BY <2>1 DEF consentVars, GInv, ExactCopy, Granted, GrantsOf
    <2>2. CASE IdentityAccess
      BY <2>2, ConsentStepExactCopy DEF IdentityAccess
    <2> QED BY <2>1, <2>2 DEF Next, vars, BeginAdd, CheckConsent, AddEntry, RemovePlayerFromRoster,
          MatchTournamentRestarts
  <1>3. ASSUME NEW a \in Adds PROVE SeenEligible(a)'
    <2>0. SeenEligible(a) /\ add \in [Adds -> {None} \cup AddRequests]
      BY DEF GInv, TypeOK, AddRequests
    <2>1. CASE UNCHANGED vars
      BY <2>0, <2>1 DEF vars, rosterVars, consentVars, SeenEligible
    <2>2. ASSUME NEW b \in Adds, BeginAdd(b) PROVE SeenEligible(a)'
      BY <2>0, <2>2 DEF BeginAdd, consentVars, SeenEligible
    <2>3. ASSUME NEW b \in Adds, CheckConsent(b) PROVE SeenEligible(a)'
      <3>0. SeenEligible(b)
        BY DEF GInv
      <3>1. CASE EndAdd(b)
        BY <2>0, <2>3, <3>1 DEF CheckConsent, EndAdd, consentVars, SeenEligible
      <3>2. CASE Eligible(add[b].player) /\ seen' = seen
                 /\ add' = [add EXCEPT ![b].phase = "adding"]
        <4>1. b \in seen
          BY <2>3, <3>0, <3>2 DEF CheckConsent, Eligible, Granted, Consents, SeenEligible
        <4> QED BY <2>0, <2>3, <3>2, <4>1 DEF CheckConsent, consentVars, SeenEligible, AddRequests
      <3> QED BY <2>3, <3>1, <3>2 DEF CheckConsent, IsEligibleForDRS
    <2>4. ASSUME NEW b \in Adds, AddEntry(b) PROVE SeenEligible(a)'
      BY <2>0, <2>4 DEF AddEntry, EndAdd, consentVars, SeenEligible
    <2>5. ASSUME NEW p \in Players, RemovePlayerFromRoster(p) PROVE SeenEligible(a)'
      BY <2>0, <2>5 DEF RemovePlayerFromRoster, consentVars, SeenEligible
    <2>6. CASE MatchTournamentRestarts
      BY <2>6 DEF MatchTournamentRestarts, SeenEligible
    <2>7. CASE IdentityAccess
      BY <2>0, <2>7 DEF IdentityAccess, SeenEligible
    <2> QED BY <2>1, <2>2, <2>3, <2>4, <2>5, <2>6, <2>7 DEF Next
  <1> QED BY <1>1, <1>2, <1>3 DEF GInv

LEMMA GateInvariant == Spec => []GInv
  BY InitGInv, NextGInv, PTL DEF Spec

-----------------------------------------------------------------------------
\* Who enters a roster was eligible at some time during the request that put
\* them there: AddEntry follows a yes of IsEligibleForDRS, and nothing else adds.
THEOREM WhoEntersWasEligible == Spec => EntryWasEligible
  <1>1. ASSUME GInv, [Next]_vars, NEW p \in Players, roster[p] = None, roster'[p] # None
        PROVE  \E a \in seen : add[a] # None /\ add[a].player = p /\ add[a].team = roster'[p]
    <2>1. PICK a \in Adds : AddEntry(a)
      BY <1>1 DEF Next, vars, rosterVars, BeginAdd, CheckConsent, RemovePlayerFromRoster,
        MatchTournamentRestarts, IdentityAccess, GInv, TypeOK
    <2>2. a \in seen
      BY <1>1, <2>1 DEF AddEntry, GInv, SeenEligible
    <2>3. add[a].player = p /\ add[a].team = roster'[p]
      BY <1>1, <2>1 DEF AddEntry, GInv, TypeOK
    <2> QED BY <2>1, <2>2, <2>3 DEF AddEntry
  <1>2. GInv /\ [Next]_vars =>
          [\A p \in Players : roster[p] = None /\ roster'[p] # None =>
             \E a \in seen : add[a] # None /\ add[a].player = p /\ add[a].team = roster'[p]]_vars
    BY <1>1
  <1> QED BY <1>2, GateInvariant, PTL DEF Spec, EntryWasEligible

\* Of two requests that put a player on two teams one wins: RosterStore.Add
\* refuses the other, and an entry only ever leaves the roster.
THEOREM EntriesNeverMove == Spec => EntryKeepsItsTeam
  <1>1. ASSUME TypeOK, [Next]_vars, NEW p \in Players, roster[p] # None
        PROVE  roster'[p] \in {None, roster[p]}
    BY <1>1 DEF Next, vars, rosterVars, BeginAdd, CheckConsent, AddEntry, RemovePlayerFromRoster,
      MatchTournamentRestarts, IdentityAccess, TypeOK
  <1>2. TypeOK /\ [Next]_vars =>
          [\A p \in Players : roster[p] # None => roster'[p] \in {None, roster[p]}]_vars
    BY <1>1
  <1> QED BY <1>2, RosterTypeCorrect, PTL DEF Spec, EntryKeepsItsTeam

\* A capture that no other overtook changes its own grant and nothing else of
\* the stored record, whatever happened before it read and after it wrote.
THEOREM UncontendedCapturesAreExact == Spec => UncontendedCaptureIsExact
  <1> DEFINE exact(c) ==
        LET own == capture[c] IN
        (own # None /\ c \notin overtaken /\ EndCapture(c)) =>
          LET p == own.player IN
          /\ consent'[p].grants = (IF own.grant THEN Granted(p) \cup {own.type}
                                   ELSE Granted(p) \ {own.type})
          /\ consent[p] # None => consent'[p].kind = consent[p].kind
  <1>1. ASSUME GInv, NEW c \in Captures PROVE exact(c)
    <2> SUFFICES ASSUME capture[c] # None, c \notin overtaken, EndCapture(c)
                 PROVE  exact(c)
      OBVIOUS
    <2>1. ExactCopy(c) /\ capture[c].player \in Players
      BY <1>1 DEF GInv, TypeOK, ConsentTypeOK
    <2>2. consent'[capture[c].player] = capture[c].copy
      BY <1>1, <2>1 DEF EndCapture, GInv, TypeOK, ConsentTypeOK
    <2> QED BY <2>1, <2>2 DEF ExactCopy
  <1>2. GInv => [\A c \in Captures : exact(c)]_consentVars
    BY <1>1
  <1> QED BY <1>2, GateInvariant, PTL DEF UncontendedCaptureIsExact
=============================================================================
