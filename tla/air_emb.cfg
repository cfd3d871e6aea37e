SPECIFICATION Spec
CONSTANTS
  Calls <- MCCalls
  Voice <- MCVoice
  Superframes = 3
  MaxFade = 8
INVARIANT EmbCorrectable
CHECK_DEADLOCK FALSE
