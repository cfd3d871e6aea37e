SPECIFICATION FairSpec
CONSTANTS
  Gateway = "Both"
  RxStreams = {r1}
  TxStreams = {t1}
  NoStream = none
  NetKinds = {"header", "term", "voice"}
  Drops = TRUE
  SeqMod = 4
  GapBoundary = 0
  FramesPerBurst = 2
  AudioCap = 2
  VoiceCap = 1
  ControlCap = 1
  CtlBound = 2
  StreamTimeout = 1
  HangTime = 1
  TxTimeout = 2
INVARIANT TypeOK
INVARIANT CadenceFollowsSeq
INVARIANT TxAccounted
PROPERTY CallControlFramed
PROPERTY VoiceAnnounced
PROPERTY TxEnds
PROPERTY ShutdownEnds
