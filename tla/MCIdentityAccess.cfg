\* One organization of up to four users with two emails, one client.
SPECIFICATION Spec
CONSTANTS
  OrgIds = {o1}
  UserIds = {u1, u2, u3, u4}
  Emails = {e1, e2}
  Calls = {c1, c2}
  Clients = {k1}
  TokenTTL = 2
  MaxLogin = 2
  None = None
  Gone = Gone
INVARIANTS
  TypeOK
  RoleLagIsBounded
  DuplicatesOnlyFromRaces
SYMMETRY Symmetry
