\* A window of 2 ticks, twice over, up to six frames, one audio read that fails.
SPECIFICATION Spec
CONSTANTS
  Window = 2
  MaxTime = 6
  MaxFrames = 6
  MaxLost = 1
INVARIANTS
  VideoWindowIsExact
  AudioWindowIsExact
