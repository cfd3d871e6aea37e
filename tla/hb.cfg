SPECIFICATION FairSpec
CONSTANTS
  Keepalive = 2
  MissedLimit = 3
  AuthDeadline = 2
  BackoffInit = 1
  BackoffMax = 3
  InCap = 1
  ControlCap = 1
  SocketCap = 2
  Faults = {"lose", "dup", "stray", "close", "reject", "forget", "resolve", "down"}
  MaxFaults = 3
  Stalls = FALSE
  MayCancel = TRUE
INVARIANT AuthedMeansAccepted
INVARIANT DeadNoticedInTime
PROPERTY LostOnlyWhenSilent
PROPERTY ImplementsLink
PROPERTY Recovers
PROPERTY Stops
