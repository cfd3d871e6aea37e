SPECIFICATION FairSpec
CONSTANTS
  Streams = {r1, r2}
  NoStream = none
  FramesPerBurst = 2
  GapBoundary = 1
  AudioCap = 5
  StreamTimeout = 3
  MaxDelayed = 2
  MaxLost = 2
  MaxBursts = 3
  MaxStarved = 4
  MayCancel = TRUE
INVARIANT AheadOnlyOfSilence
INVARIANT CallsKeptApart
PROPERTY NoDrift
PROPERTY Stops
