\* Every pair of signals of up to four samples; windows of up to two frames, cut
\* anywhere or with any one byte changed.
SPECIFICATION SignalsSpec
CONSTANTS
  Samples = {0, 1, 2}
  MaxLength = 4
  Byte = 4
  ClipFrames = 2
  ClipTime = 5
  None = None
INVARIANTS
  EqualLengthsAlign
  RoundTrip
  DamageIsContained
CHECK_DEADLOCK FALSE
