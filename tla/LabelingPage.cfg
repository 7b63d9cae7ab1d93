\* A user in a hurry, over a server that does not fail.
SPECIFICATION FairSpec
CONSTANTS
  Clips = {a, b}
  Stem <- OwnStem
  NumFrames = 2
  FrameCount = 2
  Requests = {r1, r2}
  MaxFaults = 0
  MaxActions = 4
  None = None
  Blank = Blank
  Empty = Empty
  Torn = Torn
INVARIANTS
  LabelIsOnItsFrame
  PageAgreesWithFile
PROPERTY PictureCatchesUp
CHECK_DEADLOCK FALSE
