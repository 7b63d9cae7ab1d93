------------------------ MODULE IdentityAccessProofs ------------------------
(***************************************************************************)
(* Users, invitations and tokens of identity-access, proved for any number *)
(* of organizations, users, calls in progress and clients.                 *)
(***************************************************************************)
EXTENDS IdentityAccess, TLAPS

CallRecords  == [op : {"create", "invite"}, org : OrgIds, email : Emails,
                 role : Roles \cup {"invalid"}]
TokenRecords == [user : UserIds, org : OrgIds, role : Roles,
                 age : 0..TokenTTL, lapse : 0..MaxLapse, spent : 0..MaxLogin]
LoginRecords == [user : UserIds, org : OrgIds, role : Roles,
                 lapse : 0..MaxLapse, spent : 0..MaxLogin]

\* CreateOrganization asks for a role of its own choice only.
AdminCalls ==
  \A c \in Calls : calls[c] # None /\ calls[c].op = "create" => calls[c].role = "organizer_admin"

LEMMA InitTypeOK == Init => TypeOK /\ AdminCalls
  BY DEF Init, TypeOK, AdminCalls

LEMMA AddUserType ==
  ASSUME TypeOK, NEW o \in OrgIds, NEW email \in Emails, NEW role \in Roles,
         AddUser(o, email, role)
  PROVE  users' \in [UserIds -> {None, Gone} \cup Users]
  BY DEF AddUser, TypeOK, Users

LEMMA OneMoreType ==
  ASSUME NEW max \in Nat, NEW n \in 0..max PROVE OneMore(n, max) \in 0..max
  BY DEF OneMore

LEMMA MaxLapseType == MaxLapse \in Nat /\ 0 \in 0..MaxLapse
  BY IdentityConstants DEF IdentityConstants, MaxLapse

LEMMA LongerLapseType ==
  ASSUME NEW claim, claim.lapse \in 0..MaxLapse PROVE LongerLapse(claim) \in 0..MaxLapse
  BY OneMoreType, MaxLapseType DEF LongerLapse

LEMMA AgedType ==
  ASSUME NEW token \in {None} \cup TokenRecords PROVE Aged(token) \in {None} \cup TokenRecords
  <1>1. CASE token = None
    BY <1>1 DEF Aged
  <1>2. CASE token # None
    <2>1. OneMore(token.age, TokenTTL) \in 0..TokenTTL
      BY <1>2, OneMoreType, IdentityConstants DEF IdentityConstants, TokenRecords
    <2>2. LongerLapse(token) \in 0..MaxLapse
      BY <1>2, LongerLapseType DEF TokenRecords
    <2> QED BY <1>2, <2>1, <2>2 DEF Aged, TokenRecords
  <1> QED BY <1>1, <1>2

LEMMA WaitedType ==
  ASSUME NEW login \in {None} \cup LoginRecords, login # None => login.spent < MaxLogin
  PROVE  Waited(login) \in {None} \cup LoginRecords
  <1>1. CASE login = None
    BY <1>1 DEF Waited
  <1>2. CASE login # None
    <2>1. login.spent + 1 \in 0..MaxLogin
      BY <1>2, IdentityConstants DEF IdentityConstants, LoginRecords
    <2>2. LongerLapse(login) \in 0..MaxLapse
      BY <1>2, LongerLapseType DEF LoginRecords
    <2> QED BY <1>2, <2>1, <2>2 DEF Waited, LoginRecords
  <1> QED BY <1>1, <1>2

LEMMA NextTypeOK == ASSUME TypeOK, AdminCalls, [Next]_vars PROVE TypeOK'
  <1>1. CASE UNCHANGED vars
    BY <1>1 DEF vars, TypeOK
  <1>2. ASSUME NEW c \in Calls, BeginCreateOrganization(c) PROVE TypeOK'
    BY <1>2 DEF BeginCreateOrganization, TypeOK, Roles
  <1>3. ASSUME NEW c \in Calls, FinishCreateOrganization(c) PROVE TypeOK'
    <2>1. calls[c].org \in OrgIds /\ calls[c].email \in Emails /\ calls[c].role \in Roles
      BY <1>3 DEF FinishCreateOrganization, TypeOK, AdminCalls, Roles
    <2>2. users' \in [UserIds -> {None, Gone} \cup Users]
      BY <1>3, <2>1, AddUserType DEF FinishCreateOrganization, TypeOK
    <2> QED BY <1>3, <2>2 DEF FinishCreateOrganization, EndCall, TypeOK
  <1>4. ASSUME NEW c \in Calls, BeginInvite(c) PROVE TypeOK'
    BY <1>4 DEF BeginInvite, TypeOK
  <1>5. ASSUME NEW c \in Calls, FinishInvite(c) PROVE TypeOK'
    <2>1. calls[c].org \in OrgIds /\ calls[c].email \in Emails
      BY <1>5 DEF FinishInvite, TypeOK
    <2>2. users' \in [UserIds -> {None, Gone} \cup Users]
      BY <1>5, <2>1, AddUserType DEF FinishInvite, TypeOK
    <2> QED BY <1>5, <2>2 DEF FinishInvite, EndCall, TypeOK
  <1>6. ASSUME NEW k \in Clients, NEW u \in UserIds, BeginLogin(k, u) PROVE TypeOK'
    <2>1. users[u] \in Users /\ 0 \in 0..MaxLapse /\ 0 \in 0..MaxLogin
      BY <1>6, MaxLapseType, IdentityConstants DEF IdentityConstants, BeginLogin, Live, TypeOK
    <2> QED BY <1>6, <2>1 DEF BeginLogin, TypeOK, Users
  <1>10. ASSUME NEW k \in Clients, FinishLogin(k) PROVE TypeOK'
    <2>1. logins[k] \in LoginRecords /\ 0 \in 0..TokenTTL
      BY <1>10, IdentityConstants DEF IdentityConstants, FinishLogin, TypeOK, LoginRecords
    <2>2. tokens' \in [Clients -> {None} \cup TokenRecords]
      BY <1>10, <2>1 DEF FinishLogin, TypeOK, TokenRecords, LoginRecords
    <2> QED BY <1>10, <2>2 DEF FinishLogin, TypeOK, TokenRecords
  <1>7. ASSUME NEW k \in Clients, NEW u \in UserIds, NEW role \in Roles, AssignRole(k, u, role)
        PROVE  TypeOK'
    BY <1>7 DEF AssignRole, Live, TypeOK, Users
  <1>8. CASE Tick
    <2>1. tokens' \in [Clients -> {None} \cup TokenRecords]
      BY <1>8, AgedType DEF Tick, TypeOK, TokenRecords
    <2>2. logins' \in [Clients -> {None} \cup LoginRecords]
      BY <1>8, WaitedType DEF Tick, TypeOK, LoginRecords
    <2> QED BY <1>8, <2>1, <2>2 DEF Tick, TypeOK, TokenRecords, LoginRecords
  <1>9. CASE Restart
    BY <1>9 DEF Restart, TypeOK
  <1> QED BY <1>1, <1>2, <1>3, <1>4, <1>5, <1>6, <1>7, <1>8, <1>9, <1>10 DEF Next

LEMMA NextAdminCalls == ASSUME TypeOK, AdminCalls, [Next]_vars PROVE AdminCalls'
  BY DEF Next, vars, BeginCreateOrganization, FinishCreateOrganization, BeginInvite, FinishInvite,
    EndCall, BeginLogin, FinishLogin, AssignRole, Tick, Restart, TypeOK, AdminCalls

\* Every store and every token keeps its type: no invitation, failed call or
\* restart leaves a user with a role that is none.
THEOREM IdentityTypeCorrect == Spec => []TypeOK
  <1>1. Spec => [](TypeOK /\ AdminCalls)
    BY InitTypeOK, NextTypeOK, NextAdminCalls, PTL DEF Spec
  <1> QED BY <1>1, PTL

-----------------------------------------------------------------------------
\* The lapse of a role that a login has read is no longer than the login, and
\* that of a token's claim no longer than the token's age and its login together,
\* up to the expiry of the token.
LapseInv ==
  /\ \A k \in Clients : logins[k] # None => logins[k].lapse <= logins[k].spent
  /\ \A k \in Clients : tokens[k] # None /\ tokens[k].age < TokenTTL =>
                          tokens[k].lapse <= tokens[k].age + tokens[k].spent

LEMMA LongerLapseBound ==
  ASSUME NEW claim, claim.lapse \in 0..MaxLapse, NEW n \in Nat, claim.lapse <= n
  PROVE  LongerLapse(claim) <= n + 1
  <1>1. OneMore(claim.lapse, MaxLapse) \in {claim.lapse, claim.lapse + 1}
    BY DEF OneMore
  <1>2. LongerLapse(claim) \in {0, claim.lapse, claim.lapse + 1}
    BY <1>1 DEF LongerLapse
  <1> QED BY <1>2, MaxLapseType

LEMMA TickLapseInv == ASSUME TypeOK, LapseInv, Tick PROVE LapseInv'
  <1>1. ASSUME NEW k \in Clients, logins'[k] # None
        PROVE  logins'[k].lapse <= logins'[k].spent
    <2>1. logins'[k] = Waited(logins[k])
      BY DEF Tick
    <2>2. logins[k] # None /\ logins[k] \in LoginRecords
      BY <1>1, <2>1 DEF Waited, TypeOK, LoginRecords
    <2>3. /\ logins'[k].lapse = LongerLapse(logins[k])
          /\ logins'[k].spent = logins[k].spent + 1
      BY <2>1, <2>2 DEF Waited, LoginRecords
    <2>4. /\ logins[k].lapse \in 0..MaxLapse /\ logins[k].spent \in Nat
          /\ logins[k].lapse <= logins[k].spent
      BY <2>2, IdentityConstants DEF IdentityConstants, LoginRecords, LapseInv
    <2> QED BY <2>3, <2>4, LongerLapseBound
  <1>2. ASSUME NEW k \in Clients, tokens'[k] # None, tokens'[k].age < TokenTTL
        PROVE  tokens'[k].lapse <= tokens'[k].age + tokens'[k].spent
    <2>1. tokens'[k] = Aged(tokens[k])
      BY DEF Tick
    <2>2. tokens[k] # None /\ tokens[k] \in TokenRecords
      BY <1>2, <2>1 DEF Aged, TypeOK, TokenRecords
    <2>3. /\ tokens'[k].lapse = LongerLapse(tokens[k])
          /\ tokens'[k].age = OneMore(tokens[k].age, TokenTTL)
          /\ tokens'[k].spent = tokens[k].spent
      BY <2>1, <2>2 DEF Aged, TokenRecords
    <2>4. /\ tokens[k].age \in 0..TokenTTL /\ tokens[k].lapse \in 0..MaxLapse
          /\ tokens[k].spent \in 0..MaxLogin
      BY <2>2 DEF TokenRecords
    <2>5. tokens[k].age < TokenTTL /\ tokens'[k].age = tokens[k].age + 1
      BY <1>2, <2>3, <2>4, IdentityConstants DEF IdentityConstants, OneMore
    <2>6. tokens[k].lapse <= tokens[k].age + tokens[k].spent
      BY <2>2, <2>5 DEF LapseInv
    <2>7. LongerLapse(tokens[k]) <= tokens[k].age + tokens[k].spent + 1
      BY <2>4, <2>6, LongerLapseBound, IdentityConstants DEF IdentityConstants
    <2> QED BY <2>3, <2>4, <2>5, <2>7, IdentityConstants DEF IdentityConstants
  <1> QED BY <1>1, <1>2 DEF LapseInv

LEMMA NextLapseInv == ASSUME TypeOK, LapseInv, [Next]_vars PROVE LapseInv'
  <1>1. CASE UNCHANGED <<logins, tokens>>
    BY <1>1 DEF LapseInv
  <1>2. ASSUME NEW k \in Clients, NEW u \in UserIds, BeginLogin(k, u) PROVE LapseInv'
    BY <1>2 DEF BeginLogin, LapseInv, TypeOK
  <1>3. ASSUME NEW k \in Clients, FinishLogin(k) PROVE LapseInv'
    <2>1. /\ logins[k] \in LoginRecords /\ logins[k].lapse <= logins[k].spent
          /\ \A j \in Clients : logins'[j] # None => logins'[j] = logins[j]
      BY <1>3 DEF FinishLogin, LapseInv, TypeOK, LoginRecords
    <2>2. CASE UNCHANGED tokens
      BY <2>1, <2>2 DEF LapseInv
    <2>3. CASE tokens' = [tokens EXCEPT ![k] =
                 [user |-> logins[k].user, org |-> logins[k].org, role |-> logins[k].role,
                  age |-> 0, lapse |-> logins[k].lapse, spent |-> logins[k].spent]]
      <3>1. /\ tokens'[k].age = 0 /\ tokens'[k].lapse = logins[k].lapse
            /\ tokens'[k].spent = logins[k].spent
            /\ \A j \in Clients : j # k => tokens'[j] = tokens[j]
        BY <2>3 DEF TypeOK
      <3>2. tokens'[k].lapse <= tokens'[k].age + tokens'[k].spent
        BY <2>1, <3>1, IdentityConstants DEF IdentityConstants, LoginRecords
      <3> QED BY <2>1, <3>1, <3>2 DEF LapseInv
    <2> QED BY <1>3, <2>2, <2>3 DEF FinishLogin
  <1>4. CASE Tick
    BY <1>4, TickLapseInv
  <1>5. CASE Restart
    BY <1>5 DEF Restart, LapseInv
  <1> QED BY <1>1, <1>2, <1>3, <1>4, <1>5 DEF Next, vars, BeginCreateOrganization,
        FinishCreateOrganization, BeginInvite, FinishInvite, AssignRole

\* A service acts on a role that was taken away, or whose user a restart forgot,
\* even in the middle of the login that claims it, for less than the lifetime of
\* a token and the time that login took.
THEOREM StaleRolesEnd == Spec => []RoleLagIsBounded
  <1>1. Init => LapseInv
    BY DEF Init, LapseInv
  <1>2. Spec => []LapseInv
    BY <1>1, IdentityTypeCorrect, NextLapseInv, PTL DEF Spec
  <1>3. TypeOK /\ LapseInv => RoleLagIsBounded
    <2> SUFFICES ASSUME TypeOK, LapseInv, NEW k \in Clients, Verify(tokens[k])
                 PROVE  tokens[k].lapse < TokenTTL + tokens[k].spent
      BY DEF RoleLagIsBounded
    <2>1. /\ tokens[k] \in TokenRecords /\ tokens[k].age < TokenTTL
          /\ tokens[k].lapse <= tokens[k].age + tokens[k].spent
      BY DEF Verify, TypeOK, TokenRecords, LapseInv
    <2> QED BY <2>1, IdentityConstants, MaxLapseType DEF IdentityConstants, TokenRecords
  <1> QED BY <1>2, <1>3, IdentityTypeCorrect, PTL

-----------------------------------------------------------------------------
Pending(c, op) == calls[c] # None /\ calls[c].op = op

\* Nobody belongs to organization o, speaks for it or is invited into it, and
\* no call but those of creators creates it.
Untouched(o, creators) ==
  /\ \A u \in UserIds : Live(u) => users[u].org # o
  /\ \A k \in Clients : /\ logins[k] # None => logins[k].org # o
                        /\ tokens[k] # None => tokens[k].org # o
  /\ \A c \in Calls \ creators : calls[c] # None => calls[c].org # o

\* An id not given out yet is untouched, and an organization stays so until its
\* creator has stored the administrator.
OrgInv ==
  /\ \A o \in OrgIds : orgs[o] = "free" => Untouched(o, {})
  /\ \A c \in Calls : Pending(c, "create") => Untouched(calls[c].org, {c})

\* The email of an invitation in progress is raced for, or is nobody else's.
InviteInv ==
  \A c \in Calls :
    Pending(c, "invite") /\ <<calls[c].org, calls[c].email>> \notin raced =>
      /\ \A u \in UserIds :
           Live(u) /\ users[u].org = calls[c].org => users[u].email # calls[c].email
      /\ \A d \in Calls :
           Pending(d, "invite") /\ d # c /\ calls[d].org = calls[c].org =>
             calls[d].email # calls[c].email

EInv == TypeOK /\ AdminCalls /\ OrgInv /\ InviteInv /\ DuplicatesOnlyFromRaces

LEMMA InitEInv == Init => EInv
  BY InitTypeOK
  DEF Init, EInv, OrgInv, InviteInv, Untouched, Pending, DuplicatesOnlyFromRaces, SameEmail, Live

\* The user a call adds is the only one that changes.
LEMMA AddUserOnly ==
  ASSUME TypeOK, NEW o, NEW email, NEW role, AddUser(o, email, role)
  PROVE  \E u \in UserIds :
           /\ ~Live(u) /\ users'[u].org = o /\ users'[u].email = email
           /\ \A v \in UserIds : v # u => users'[v] = users[v]
  BY DEF AddUser, TypeOK, Live

LEMMA BeginCreateEInv ==
  ASSUME EInv, NEW c \in Calls, BeginCreateOrganization(c) PROVE EInv'
  <1>1. TypeOK' /\ AdminCalls'
    BY NextTypeOK, NextAdminCalls DEF EInv, Next
  <1>2. PICK o \in OrgIds, email \in Emails :
          /\ orgs[o] = "free"
          /\ orgs' = [orgs EXCEPT ![o] = "live"]
          /\ calls' = [calls EXCEPT ![c] =
                         [op |-> "create", org |-> o, email |-> email,
                          role |-> "organizer_admin"]]
    BY DEF BeginCreateOrganization
  <1>3. /\ orgs[o] = "free" /\ orgs' = [orgs EXCEPT ![o] = "live"]
        /\ calls'[c].org = o /\ calls'[c].op = "create"
        /\ \A d \in Calls : d # c => calls'[d] = calls[d]
    BY <1>2 DEF EInv, TypeOK
  <1>4. UNCHANGED <<users, logins, tokens, raced>> /\ calls[c] = None
    BY DEF BeginCreateOrganization
  <1>5. Untouched(o, {})
    BY <1>3 DEF EInv, OrgInv
  <1>6. OrgInv'
    <2>1. ASSUME NEW p \in OrgIds, orgs'[p] = "free" PROVE Untouched(p, {})'
      <3>1. p # o /\ orgs[p] = "free"
        BY <1>3, <2>1 DEF EInv, TypeOK
      <3>2. Untouched(p, {})
        BY <3>1 DEF EInv, OrgInv
      <3> QED BY <1>3, <1>4, <3>1, <3>2 DEF Untouched, Live
    <2>2. ASSUME NEW d \in Calls, Pending(d, "create")' PROVE Untouched(calls[d].org, {d})'
      <3>1. CASE d = c
        BY <1>3, <1>4, <1>5, <3>1 DEF Untouched, Live
      <3>2. CASE d # c
        <4>1. calls'[d] = calls[d] /\ Untouched(calls[d].org, {d})
          BY <1>3, <2>2, <3>2 DEF EInv, OrgInv, Pending
        <4>2. calls[d].org # o
          BY <1>5, <2>2, <4>1 DEF Untouched, Pending
        <4> QED BY <1>3, <1>4, <4>1, <4>2 DEF Untouched, Live
      <3> QED BY <3>1, <3>2
    <2> QED BY <2>1, <2>2 DEF OrgInv
  <1>7. InviteInv'
    BY <1>3, <1>4 DEF EInv, InviteInv, Pending, Live
  <1>8. DuplicatesOnlyFromRaces'
    BY <1>4 DEF EInv, DuplicatesOnlyFromRaces, SameEmail, Live
  <1> QED BY <1>1, <1>6, <1>7, <1>8 DEF EInv

LEMMA EndCallEInv ==
  ASSUME EInv, NEW c \in Calls, EndCall(c), UNCHANGED <<orgs, users, logins, tokens, raced>>
  PROVE  OrgInv' /\ InviteInv' /\ DuplicatesOnlyFromRaces'
  <1>1. calls'[c] = None /\ \A d \in Calls : d # c => calls'[d] = calls[d]
    BY DEF EndCall, EInv, TypeOK
  <1>2. OrgInv'
    BY <1>1 DEF EInv, OrgInv, Untouched, Pending, Live
  <1>3. InviteInv'
    BY <1>1 DEF EInv, InviteInv, Pending, Live
  <1>4. DuplicatesOnlyFromRaces'
    BY DEF EInv, DuplicatesOnlyFromRaces, SameEmail, Live
  <1> QED BY <1>2, <1>3, <1>4

LEMMA FinishCreateEInv ==
  ASSUME EInv, NEW c \in Calls, FinishCreateOrganization(c) PROVE EInv'
  <1>1. TypeOK' /\ AdminCalls'
    BY NextTypeOK, NextAdminCalls DEF EInv, Next
  <1>2. CASE UNCHANGED users
    BY <1>1, <1>2, EndCallEInv DEF FinishCreateOrganization, EInv
  <1>3. CASE AddUser(calls[c].org, calls[c].email, calls[c].role)
    <2> DEFINE o == calls[c].org
    <2>1. PICK u \in UserIds :
            /\ ~Live(u) /\ users'[u].org = o
            /\ \A v \in UserIds : v # u => users'[v] = users[v]
      BY <1>3, AddUserOnly DEF EInv
    <2>2. /\ UNCHANGED <<orgs, logins, tokens, raced>>
          /\ calls'[c] = None /\ \A d \in Calls : d # c => calls'[d] = calls[d]
      BY DEF FinishCreateOrganization, EndCall, EInv, TypeOK
    <2>3. Untouched(o, {c}) /\ o \in OrgIds /\ orgs[o] # "free"
      BY DEF FinishCreateOrganization, EInv, OrgInv, Untouched, Pending, TypeOK
    <2> HIDE DEF o
    <2>4. OrgInv'
      BY <2>1, <2>2, <2>3 DEF EInv, OrgInv, Untouched, Pending, Live
    <2>5. InviteInv'
      BY <2>1, <2>2, <2>3 DEF EInv, InviteInv, Untouched, Pending, Live
    <2>6. DuplicatesOnlyFromRaces'
      BY <2>1, <2>2, <2>3 DEF EInv, DuplicatesOnlyFromRaces, SameEmail, Untouched, Live
    <2> QED BY <1>1, <2>4, <2>5, <2>6 DEF EInv
  <1> QED BY <1>2, <1>3 DEF FinishCreateOrganization

LEMMA BeginInviteEInv ==
  ASSUME EInv, NEW c \in Calls, BeginInvite(c) PROVE EInv'
  <1>1. TypeOK' /\ AdminCalls'
    BY NextTypeOK, NextAdminCalls DEF EInv, Next
  <1>2. PICK k \in Clients, o \in OrgIds, email \in Emails :
          /\ tokens[k] # None /\ tokens[k].org = o /\ orgs[o] = "live" /\ EmailIsFree(o, email)
          /\ calls'[c].org = o /\ calls'[c].email = email /\ calls'[c].op = "invite"
          /\ \A d \in Calls : d # c => calls'[d] = calls[d]
          /\ \/ raced' = raced \cup {<<o, email>>}
             \/ /\ raced' = raced
                /\ \A d \in Calls : ~(Pending(d, "invite") /\ calls[d].org = o
                                      /\ calls[d].email = email)
    BY DEF BeginInvite, MayManageUsers, Verify, Pending, EInv, TypeOK
  <1>3. UNCHANGED <<users, logins, tokens, orgs>> /\ calls[c] = None
    BY DEF BeginInvite
  <1>4. OrgInv'
    <2>1. /\ c \notin {d \in Calls : Pending(d, "create")}
          /\ \A d \in Calls : Pending(d, "create")' <=> Pending(d, "create")
      BY <1>2, <1>3 DEF Pending
    <2>2. ASSUME NEW p \in OrgIds, NEW creators, p # o, Untouched(p, creators)
          PROVE  Untouched(p, creators)'
      BY <1>2, <1>3, <2>2 DEF Untouched, Live
    <2>3. \A p \in OrgIds : orgs[p] = "free" => p # o
      BY <1>2
    <2>4. \A d \in Calls : Pending(d, "create") => calls[d].org # o
      <3> SUFFICES ASSUME NEW d \in Calls, Pending(d, "create") PROVE calls[d].org # o
        OBVIOUS
      <3>1. Untouched(calls[d].org, {d})
        BY DEF EInv, OrgInv
      <3>2. \A j \in Clients : tokens[j] # None => tokens[j].org # calls[d].org
        BY <3>1 DEF Untouched
      <3> QED BY <1>2, <3>2
    <2>5. \A p \in OrgIds : orgs'[p] = "free" => Untouched(p, {})'
      BY <1>3, <2>2, <2>3 DEF EInv, OrgInv
    <2>6. ASSUME NEW d \in Calls, Pending(d, "create")' PROVE Untouched(calls[d].org, {d})'
      <3>1. Pending(d, "create") /\ calls'[d] = calls[d] /\ d # c
        BY <1>2, <2>1, <2>6
      <3>2. Untouched(calls[d].org, {d}) /\ calls[d].org # o /\ calls[d].org \in OrgIds
        BY <2>4, <3>1 DEF EInv, OrgInv, TypeOK, Pending
      <3>3. \A p \in OrgIds : p = calls[d].org => Untouched(p, {d})'
        BY <2>2, <3>2
      <3> QED BY <3>1, <3>2, <3>3 DEF Untouched
    <2> QED BY <2>5, <2>6 DEF OrgInv
  <1>5. \A u \in UserIds : Live(u) /\ users[u].org = o => users[u].email # email
    BY <1>2 DEF EmailIsFree, Members
  <1>6. InviteInv'
    BY <1>2, <1>3, <1>5 DEF EInv, InviteInv, Pending, Live
  <1>7. DuplicatesOnlyFromRaces'
    BY <1>2, <1>3 DEF EInv, DuplicatesOnlyFromRaces, SameEmail, Live
  <1> QED BY <1>1, <1>4, <1>6, <1>7 DEF EInv

LEMMA FinishInviteEInv ==
  ASSUME EInv, NEW c \in Calls, FinishInvite(c) PROVE EInv'
  <1>1. TypeOK' /\ AdminCalls'
    BY NextTypeOK, NextAdminCalls DEF EInv, Next
  <1>2. CASE UNCHANGED users
    BY <1>1, <1>2, EndCallEInv DEF FinishInvite, EInv
  <1>3. CASE AddUser(calls[c].org, calls[c].email, calls[c].role)
    <2> DEFINE o     == calls[c].org
               email == calls[c].email
    <2>1. PICK u \in UserIds :
            /\ ~Live(u) /\ users'[u].org = o /\ users'[u].email = email
            /\ \A v \in UserIds : v # u => users'[v] = users[v]
      BY <1>3, AddUserOnly DEF EInv
    <2>2. /\ UNCHANGED <<orgs, logins, tokens, raced>>
          /\ calls'[c] = None /\ \A d \in Calls : d # c => calls'[d] = calls[d]
      BY DEF FinishInvite, EndCall, EInv, TypeOK
    <2>3. /\ \A p \in OrgIds : orgs[p] = "free" => p # o
          /\ \A d \in Calls : Pending(d, "create") => calls[d].org # o
      BY DEF FinishInvite, EInv, OrgInv, Untouched, Pending
    <2>4. \/ <<o, email>> \in raced
          \/ /\ \A v \in UserIds : Live(v) /\ users[v].org = o => users[v].email # email
             /\ \A d \in Calls : Pending(d, "invite") /\ d # c /\ calls[d].org = o =>
                                   calls[d].email # email
      BY DEF FinishInvite, EInv, InviteInv, Pending
    <2> HIDE DEF o, email
    <2>5. OrgInv'
      BY <2>1, <2>2, <2>3 DEF EInv, OrgInv, Untouched, Pending, Live
    <2>6. InviteInv'
      BY <2>1, <2>2, <2>4 DEF EInv, InviteInv, Pending, Live
    <2>7. DuplicatesOnlyFromRaces'
      BY <2>1, <2>2, <2>4 DEF EInv, DuplicatesOnlyFromRaces, SameEmail, Live
    <2> QED BY <1>1, <2>5, <2>6, <2>7 DEF EInv
  <1> QED BY <1>2, <1>3 DEF FinishInvite

\* A step that gives tokens and logins only to users there are, and only of the
\* organizations they belong to, leaves the untouched organizations alone.
LEMMA SpeakersOrgInv ==
  ASSUME OrgInv, UNCHANGED <<orgs, calls>>,
         \A u \in UserIds : Live(u)' => Live(u) /\ users'[u].org = users[u].org,
         \A k \in Clients : logins'[k] # None =>
           \/ logins[k] # None /\ logins'[k].org = logins[k].org
           \/ \E u \in UserIds : Live(u) /\ logins'[k].org = users[u].org,
         \A k \in Clients : tokens'[k] # None =>
           \/ tokens[k] # None /\ tokens'[k].org = tokens[k].org
           \/ logins[k] # None /\ tokens'[k].org = logins[k].org
  PROVE  OrgInv'
  <1>1. ASSUME NEW o, NEW creators, Untouched(o, creators) PROVE Untouched(o, creators)'
    <2>1. \A u \in UserIds : Live(u)' => users'[u].org # o
      BY <1>1 DEF Untouched
    <2>2. ASSUME NEW k \in Clients PROVE logins'[k] # None => logins'[k].org # o
      <3>1. \A u \in UserIds : Live(u) => users[u].org # o
        BY <1>1 DEF Untouched
      <3>2. logins[k] # None => logins[k].org # o
        BY <1>1 DEF Untouched
      <3> QED BY <3>1, <3>2
    <2>3. ASSUME NEW k \in Clients PROVE tokens'[k] # None => tokens'[k].org # o
      <3>1. (logins[k] # None => logins[k].org # o) /\ (tokens[k] # None => tokens[k].org # o)
        BY <1>1 DEF Untouched
      <3> QED BY <3>1
    <2> QED BY <1>1, <2>1, <2>2, <2>3 DEF Untouched
  <1>2. \A o \in OrgIds : orgs'[o] = "free" => Untouched(o, {})'
    BY <1>1 DEF OrgInv
  <1>3. ASSUME NEW c \in Calls, Pending(c, "create")' PROVE Untouched(calls[c].org, {c})'
    <2>1. calls'[c] = calls[c] /\ Untouched(calls[c].org, {c})
      BY <1>3 DEF OrgInv, Pending
    <2>2. \A o : o = calls[c].org => Untouched(o, {c})'
      BY <1>1, <2>1
    <2> QED BY <2>1, <2>2 DEF Untouched
  <1> QED BY <1>2, <1>3 DEF OrgInv

LEMMA OtherEInv ==
  ASSUME EInv, \/ UNCHANGED vars
               \/ \E k \in Clients :
                    \/ FinishLogin(k)
                    \/ \E u \in UserIds :
                         BeginLogin(k, u) \/ \E role \in Roles : AssignRole(k, u, role)
               \/ Tick \/ Restart
  PROVE  EInv'
  <1>1. TypeOK' /\ AdminCalls'
    BY NextTypeOK, NextAdminCalls DEF EInv, Next
  <1>2. CASE UNCHANGED vars
    BY <1>2 DEF vars, EInv, TypeOK, AdminCalls, OrgInv, InviteInv, Untouched, Pending,
      DuplicatesOnlyFromRaces, SameEmail, Live
  <1>3. ASSUME NEW k \in Clients, NEW u \in UserIds, BeginLogin(k, u) PROVE EInv'
    <2>1. /\ UNCHANGED <<orgs, users, calls, tokens, raced>> /\ Live(u)
          /\ logins'[k].org = users[u].org
          /\ \A j \in Clients : j # k => logins'[j] = logins[j]
      BY <1>3 DEF BeginLogin, EInv, TypeOK
    <2>2. OrgInv'
      BY <2>1, SpeakersOrgInv DEF EInv, Live
    <2>3. InviteInv'
      BY <2>1 DEF EInv, InviteInv, Pending, Live
    <2>4. DuplicatesOnlyFromRaces'
      BY <2>1 DEF EInv, DuplicatesOnlyFromRaces, SameEmail, Live
    <2> QED BY <1>1, <2>2, <2>3, <2>4 DEF EInv
  <1>7. ASSUME NEW k \in Clients, FinishLogin(k) PROVE EInv'
    <2>1. /\ UNCHANGED <<orgs, users, calls, raced>> /\ logins[k] # None
          /\ \A j \in Clients : logins'[j] # None => logins'[j] = logins[j]
          /\ \A j \in Clients : \/ tokens'[j] = tokens[j]
                                \/ j = k /\ tokens'[j].org = logins[k].org
      BY <1>7 DEF FinishLogin, EInv, TypeOK
    <2>2. OrgInv'
      BY <2>1, SpeakersOrgInv DEF EInv, Live
    <2>3. InviteInv'
      BY <2>1 DEF EInv, InviteInv, Pending, Live
    <2>4. DuplicatesOnlyFromRaces'
      BY <2>1 DEF EInv, DuplicatesOnlyFromRaces, SameEmail, Live
    <2> QED BY <1>1, <2>2, <2>3, <2>4 DEF EInv
  <1>4. ASSUME NEW k \in Clients, NEW u \in UserIds, NEW role \in Roles, AssignRole(k, u, role)
        PROVE  EInv'
    <2>1. /\ UNCHANGED <<orgs, tokens, calls, raced>> /\ Live(u)
          /\ users'[u].org = users[u].org /\ users'[u].email = users[u].email
          /\ logins' = logins
          /\ \A v \in UserIds : v # u => users'[v] = users[v]
      BY <1>4 DEF AssignRole, Live, EInv, TypeOK, Users
    <2>2. OrgInv'
      BY <2>1, SpeakersOrgInv DEF EInv, Live
    <2>3. InviteInv'
      BY <2>1 DEF EInv, InviteInv, Pending, Live
    <2>4. DuplicatesOnlyFromRaces'
      BY <2>1 DEF EInv, DuplicatesOnlyFromRaces, SameEmail, Live
    <2> QED BY <1>1, <2>2, <2>3, <2>4 DEF EInv
  <1>5. CASE Tick
    <2>1. /\ UNCHANGED <<orgs, users, calls, raced>>
          /\ \A k \in Clients : tokens'[k] # None =>
               tokens[k] # None /\ tokens'[k].org = tokens[k].org
          /\ \A k \in Clients : logins'[k] # None =>
               logins[k] # None /\ logins'[k].org = logins[k].org
      BY <1>5 DEF Tick, Aged, Waited, EInv, TypeOK
    <2>2. OrgInv'
      BY <2>1, SpeakersOrgInv DEF EInv, Live
    <2>3. InviteInv'
      BY <2>1 DEF EInv, InviteInv, Pending, Live
    <2>4. DuplicatesOnlyFromRaces'
      BY <2>1 DEF EInv, DuplicatesOnlyFromRaces, SameEmail, Live
    <2> QED BY <1>1, <2>2, <2>3, <2>4 DEF EInv
  <1>6. CASE Restart
    <2>1. /\ tokens' = tokens /\ (\A k \in Clients : logins'[k] = None)
          /\ (\A u \in UserIds : ~Live(u)') /\ (\A c \in Calls : calls'[c] = None)
          /\ \A o \in OrgIds : orgs'[o] = "free" => orgs[o] = "free"
      BY <1>6, IdentityConstants DEF IdentityConstants, Restart, Live
    <2>2. \A o \in OrgIds : orgs'[o] = "free" => Untouched(o, {})'
      BY <2>1 DEF EInv, OrgInv, Untouched, Live
    <2>5. OrgInv'
      BY <2>1, <2>2 DEF OrgInv, Pending
    <2>3. InviteInv'
      BY <2>1 DEF InviteInv, Pending
    <2>4. DuplicatesOnlyFromRaces'
      BY <2>1 DEF DuplicatesOnlyFromRaces, SameEmail
    <2> QED BY <1>1, <2>3, <2>4, <2>5 DEF EInv
  <1> QED BY <1>2, <1>3, <1>4, <1>5, <1>6, <1>7

\* Two users of one organization share an email only if two invitations for it
\* overlapped: whatever else overlaps or restarts, InviteUser's check suffices.
THEOREM OnlyRacesDuplicate == Spec => []DuplicatesOnlyFromRaces
  <1>1. EInv /\ [Next]_vars => EInv'
    BY BeginCreateEInv, FinishCreateEInv, BeginInviteEInv, FinishInviteEInv, OtherEInv DEF Next
  <1>2. EInv => DuplicatesOnlyFromRaces
    BY DEF EInv
  <1> QED BY <1>1, <1>2, InitEInv, PTL DEF Spec
=============================================================================
