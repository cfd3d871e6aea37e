SPECIFICATION FairSpec
CONSTANTS
  Dirs = {fmToDmr, dmrToFm}
  Cap = 2
  SkipIdle = TRUE
  MaxEvents = 6
INVARIANT CountsTrue
PROPERTY SummariesAddUp
PROPERTY Drained
