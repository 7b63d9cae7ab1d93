\* Overlapping submissions, two organizations that name each other's records, a restart.
SPECIFICATION ServicesSpec
CONSTANTS
  Orgs = {x, y}
  Matches = {m1, m2}
  ClipIds = {i1, i2, i3}
  Contents = {b1, b2}
  Submissions = {s1, s2}
  CameraIds = {k1, k2}
  Users = {u1}
  TeamIds = {t1, t2}
  TournamentIds = {c1}
  MatchIds = {g1}
  MaxRestarts = 1
  None = None
INVARIANTS
  SyncLosesNothing
  ReferencesResolve
  LaterSyncWins
  ServicesTypeOK
  ReadyIsDeserved
  TenantsStayApart
  ConditionsWereValidated
SYMMETRY Symmetry
CHECK_DEADLOCK FALSE
