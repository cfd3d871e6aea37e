SPECIFICATION FairSpec
CHECK_DEADLOCK FALSE
CONSTANTS
  None = None
  Features = {"thumbdv", "neural", "dynarmic"}
  Talkgroups = {91, 3100}
  Assigned <- SomeStatics
  MaxFailures = 1
  MaxEdits = 1
  Ids = {7, 8, 16777216}
  Files <- SomeFiles
  MaxUpdates = 2
  MaxReadErrors = 1
  Launches <- AllLaunches
INVARIANT StartsSound
INVARIANT StaysUp
PROPERTY NeverWorse
PROPERTY Converges
PROPERTY TableCatchesUp
PROPERTY Settles
