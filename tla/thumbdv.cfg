SPECIFICATION Spec
CONSTANTS
  Ready = 3
  MaxOpens = 3
  MaxCalls = 2
  MaxTimeouts = 2
  Gains = {100}
PROPERTY OpenedInStep
INVARIANT BehindByFailures
