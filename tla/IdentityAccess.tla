--------------------------- MODULE IdentityAccess ---------------------------
(***************************************************************************)
(* Organizations, users, roles and access tokens of the identity-access    *)
(* service (internal/service/{organization,user}.go, internal/domain,      *)
(* memstore, and services/platformauth, which every service verifies       *)
(* tokens with).  Each store locks its own calls and nothing locks a       *)
(* sequence of them.  A token says what its holder was when the login read *)
(* the user, which is before the password is compared and the token        *)
(* issued; nothing revokes it before it expires.                           *)
(*                                                                         *)
(* Passwords are not kept: a login of any user may succeed or fail, and    *)
(* every refused call leaves no trace.                                     *)
(***************************************************************************)
EXTENDS Naturals

CONSTANTS OrgIds,     \* bound: ids that organizations can get
          UserIds,    \* bound: ids that users can get
          Emails,
          Calls,      \* CreateOrganization and InviteUser calls in progress
          Clients,    \* bound: each holds the token it was issued last
          TokenTTL,   \* token lifetime in ticks of the clock
          MaxLogin,   \* bound: ticks between a login's read and its token
          None,       \* no user, no call, no token
          Gone        \* an id whose holder a restart forgot

ASSUME IdentityConstants ==
  /\ TokenTTL \in Nat \ {0} /\ MaxLogin \in Nat
  /\ Gone \notin {None, "free", "live"}

\* "player" stands for every role without PermissionManageUsers.
Roles    == {"organizer_admin", "board_admin", "player"}
Managers == {"organizer_admin", "board_admin"}
Users    == [org : OrgIds, email : Emails, role : Roles]

VARIABLES
  orgs,     \* orgs[o]: "free", "live" or gone
  users,    \* users[u]: the user, None or gone
  calls,    \* calls[c]: a call between its two writes, or its check and write
  logins,   \* logins[k]: the claims a login has read and not yet issued a token for
  tokens,   \* tokens[k]: claims and age
            \* history, of both: lapse, the ticks since the user last held the
            \* claimed role, and spent, the ticks the login took
  raced     \* history: <<org, email>> that overlapping invitations asked for

vars == <<orgs, users, calls, logins, tokens, raced>>

Init ==
  /\ orgs = [o \in OrgIds |-> "free"]
  /\ users = [u \in UserIds |-> None]
  /\ calls = [c \in Calls |-> None]
  /\ logins = [k \in Clients |-> None]
  /\ tokens = [k \in Clients |-> None]
  /\ raced = {}

Live(u)    == users[u] \notin {None, Gone}
Members(o) == {u \in UserIds : Live(u) /\ users[u].org = o}

\* Mutation: the expiry is not verified.
VerifyIgnoringExpiry(token) == token # None

Verify(token) == token # None /\ token.age < TokenTTL

\* Authenticate, the tenant check and HasPermission(PermissionManageUsers).
MayManageUsers(k, o) ==
  Verify(tokens[k]) /\ tokens[k].org = o /\ tokens[k].role \in Managers

EndCall(c) == calls' = [calls EXCEPT ![c] = None]

\* NewUser and UserStore.Create, under a fresh id.
AddUser(o, email, role) ==
  \E u \in UserIds :
    /\ users[u] = None
    /\ users' = [users EXCEPT ![u] = [org |-> o, email |-> email, role |-> role]]

-----------------------------------------------------------------------------
\* CreateOrganization, which needs no token, stores the organization first.
BeginCreateOrganization(c) ==
  /\ calls[c] = None
  /\ \E o \in OrgIds, email \in Emails :
       /\ orgs[o] = "free"
       /\ orgs' = [orgs EXCEPT ![o] = "live"]
       /\ calls' = [calls EXCEPT ![c] =
                      [op |-> "create", org |-> o, email |-> email,
                       role |-> "organizer_admin"]]
  /\ UNCHANGED <<users, logins, tokens, raced>>

\* The hash can fail (bcrypt takes 72 bytes at most), and so can NewUser on an
\* empty email; nothing undoes the organization.
FinishCreateOrganization(c) ==
  /\ calls[c] # None /\ calls[c].op = "create"
  /\ AddUser(calls[c].org, calls[c].email, calls[c].role) \/ UNCHANGED users
  /\ EndCall(c)
  /\ UNCHANGED <<orgs, logins, tokens, raced>>

\* Mutation: the lookup is skipped.
EmailAlwaysFree(o, email) == TRUE

\* GetByEmail finds nobody.
EmailIsFree(o, email) == \A u \in Members(o) : users[u].email # email

\* InviteUser up to the hash, which takes a while.
BeginInvite(c) ==
  /\ calls[c] = None
  /\ \E k \in Clients, o \in OrgIds, email \in Emails, role \in Roles \cup {"invalid"} :
       LET request == [op |-> "invite", org |-> o, email |-> email, role |-> role]
           rivals  == {d \in Calls : calls[d] # None /\ calls[d].op = "invite"
                                     /\ calls[d].org = o /\ calls[d].email = email}
       IN
       /\ MayManageUsers(k, o)
       /\ orgs[o] = "live"
       /\ EmailIsFree(o, email)
       /\ calls' = [calls EXCEPT ![c] = request]
       /\ raced' = IF rivals = {} THEN raced ELSE raced \cup {<<o, email>>}
  /\ UNCHANGED <<orgs, users, logins, tokens>>

\* Mutation: NewUser takes any role.
FinishInviteAnyRole(c) ==
  /\ calls[c] # None /\ calls[c].op = "invite"
  /\ AddUser(calls[c].org, calls[c].email, calls[c].role) \/ UNCHANGED users
  /\ EndCall(c)
  /\ UNCHANGED <<orgs, logins, tokens, raced>>

\* The hash may fail, NewUser refuses an invalid role; otherwise the user is
\* stored.  Create looks at the id only, never at the email.
FinishInvite(c) ==
  /\ calls[c] # None /\ calls[c].op = "invite"
  /\ \/ calls[c].role \in Roles /\ AddUser(calls[c].org, calls[c].email, calls[c].role)
     \/ UNCHANGED users
  /\ EndCall(c)
  /\ UNCHANGED <<orgs, logins, tokens, raced>>

\* AssignRole changes only the role of a user who is never removed, so its
\* read and its Update are one step.
AssignRole(k, u, role) ==
  /\ Live(u)
  /\ MayManageUsers(k, users[u].org)
  /\ users' = [users EXCEPT ![u].role = role]
  /\ UNCHANGED <<orgs, calls, logins, tokens, raced>>

\* Login up to the comparison with the password's hash, which takes a while:
\* the user is found by organization and email, and what the token will claim is
\* what the user is now.
BeginLogin(k, u) ==
  /\ logins[k] = None
  /\ Live(u)
  /\ logins' = [logins EXCEPT ![k] =
                  [user |-> u, org |-> users[u].org, role |-> users[u].role,
                   lapse |-> 0, spent |-> 0]]
  /\ UNCHANGED <<orgs, users, calls, tokens, raced>>

\* The password is wrong, or a token is issued for the claims read before it was
\* compared: the user is not read again.
FinishLogin(k) ==
  /\ logins[k] # None
  /\ \/ tokens' = [tokens EXCEPT ![k] =
                     [user |-> logins[k].user, org |-> logins[k].org, role |-> logins[k].role,
                      age |-> 0, lapse |-> logins[k].lapse, spent |-> logins[k].spent]]
     \/ UNCHANGED tokens
  /\ logins' = [logins EXCEPT ![k] = None]
  /\ UNCHANGED <<orgs, users, calls, raced>>

-----------------------------------------------------------------------------
\* The user a token or login speaks for has the role it claims.
Holds(claim) == Live(claim.user) /\ users[claim.user].role = claim.role

\* The counters stop where nothing distinguishes their values any more.
MaxLapse == TokenTTL + MaxLogin
OneMore(n, max) == IF n < max THEN n + 1 ELSE n
LongerLapse(claim) == IF Holds(claim) THEN 0 ELSE OneMore(claim.lapse, MaxLapse)

Aged(token) ==
  IF token = None THEN None
  ELSE [token EXCEPT !.age = OneMore(@, TokenTTL), !.lapse = LongerLapse(token)]

Waited(login) ==
  IF login = None THEN None
  ELSE [login EXCEPT !.spent = @ + 1, !.lapse = LongerLapse(login)]

Tick ==
  /\ \E k \in Clients : tokens[k] # None \/ logins[k] # None
  /\ \A k \in Clients : logins[k] # None => logins[k].spent < MaxLogin
  /\ tokens' = [k \in Clients |-> Aged(tokens[k])]
  /\ logins' = [k \in Clients |-> Waited(logins[k])]
  /\ UNCHANGED <<orgs, users, calls, raced>>

\* Every store is in memory.  The signing key is not: tokens outlive the users
\* they speak for, logins in progress do not.
Restart ==
  /\ orgs' = [o \in OrgIds |-> IF orgs[o] = "free" THEN "free" ELSE Gone]
  /\ users' = [u \in UserIds |-> IF users[u] = None THEN None ELSE Gone]
  /\ calls' = [c \in Calls |-> None]
  /\ logins' = [k \in Clients |-> None]
  /\ raced' = {}
  /\ UNCHANGED tokens

Next ==
  \/ \E c \in Calls : \/ BeginCreateOrganization(c) \/ FinishCreateOrganization(c)
                      \/ BeginInvite(c) \/ FinishInvite(c)
  \/ \E k \in Clients :
       \/ FinishLogin(k)
       \/ \E u \in UserIds : BeginLogin(k, u) \/ \E role \in Roles : AssignRole(k, u, role)
  \/ Tick \/ Restart

Spec == Init /\ [][Next]_vars

-----------------------------------------------------------------------------
TypeOK ==
  /\ orgs \in [OrgIds -> {"free", "live", Gone}]
  /\ users \in [UserIds -> {None, Gone} \cup Users]
  /\ calls \in [Calls -> {None} \cup [op : {"create", "invite"}, org : OrgIds, email : Emails,
                                      role : Roles \cup {"invalid"}]]
  /\ logins \in [Clients -> {None} \cup [user : UserIds, org : OrgIds, role : Roles,
                                         lapse : 0..MaxLapse, spent : 0..MaxLogin]]
  /\ tokens \in [Clients -> {None} \cup [user : UserIds, org : OrgIds, role : Roles,
                                         age : 0..TokenTTL,
                                         lapse : 0..MaxLapse, spent : 0..MaxLogin]]
  /\ raced \subseteq OrgIds \X Emails

\* A role taken away, a user forgotten by a restart, while a token claims the
\* role or while the login for it is comparing the password: no service acts on
\* the old claim for longer than a token's lifetime and the login that got it.
RoleLagIsBounded ==
  \A k \in Clients :
    Verify(tokens[k]) => tokens[k].lapse < TokenTTL + tokens[k].spent

\* What would hold if the user were read when the token is issued: a role is
\* honoured for less than a token's lifetime after it was lost.
RoleLagIsTokenTTL == \A k \in Clients : Verify(tokens[k]) => tokens[k].lapse < TokenTTL

SameEmail(u, v) ==
  u # v /\ Live(u) /\ Live(v)
        /\ users[u].org = users[v].org /\ users[u].email = users[v].email

\* Only invitations that overlap can leave two users with one email.
DuplicatesOnlyFromRaces ==
  \A u, v \in UserIds :
    SameEmail(u, v) => <<users[u].org, users[u].email>> \in raced

\* What TestInviteUser_DuplicateEmailRejected says of InviteUser: within an
\* organization an email names one user.
EmailNamesOneUser == \A u, v \in UserIds : ~SameEmail(u, v)

\* What CreateOrganization's comment says: the admin is created atomically with
\* the organization, so none is ever without anybody to invite its members.
OrganizationHasMembers ==
  \A o \in OrgIds :
    orgs[o] = "live" =>
      \/ Members(o) # {}
      \/ \E c \in Calls : calls[c] # None /\ calls[c].op = "create" /\ calls[c].org = o
=============================================================================
