\* Overlapping refreshes, logins and registrations, on a network that loses replies.
SPECIFICATION FairPageSpec
CONSTANTS
  Orgs = {x, y}
  CameraIds = {k1}
  Submissions = {}
  MaxRestarts = 1
  None = None
  Fetches = {f1, f2}
  Logins = {l1, l2}
  MaxMounts = 2
INVARIANTS
  OwnCamerasShown
  ShownCamerasAreOurs
PROPERTY SubmittingEnds
