SPECIFICATION Spec
CONSTANTS
  Calls <- MCCalls
  Voice <- MCVoice
  Superframes = 3
  MaxFade = 8

INVARIANT CallSurvives
INVARIANT AliasNeverGarbled
INVARIANT LabelsNeverMisread
CHECK_DEADLOCK FALSE
