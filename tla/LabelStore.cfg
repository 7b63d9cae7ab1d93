\* Any two requests to the labeling server at once, with a crash.
SPECIFICATION StoreSpec
CONSTANTS
  Clips = {a, b}
  Stem <- OwnStem
  NumFrames = 2
  FrameCount = 2
  Requests = {r1, r2}
  MaxFaults = 1
  None = None
  Blank = Blank
  Empty = Empty
  Torn = Torn
INVARIANTS
  FileHoldsWhatWasSaved
  ServedPictureIsTheFrame
SYMMETRY Symmetry
