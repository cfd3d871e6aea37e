SPECIFICATION FairSpec
CONSTANTS
  Peers = {p1, p2}
  Tools = {p2}
  Nobody = nobody
  Backends = {"soft", "chip"}
  Hold = 1
  Timeout = 2
  Faults = {"lose", "mute", "crash"}
  MaxFaults = 1
CHECK_DEADLOCK FALSE
INVARIANT OneVoiceStream
INVARIANT ServedAtOwnRate
PROPERTY AnswersMatch
PROPERTY NoWedge
