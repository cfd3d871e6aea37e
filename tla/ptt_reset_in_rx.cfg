SPECIFICATION Spec
CONSTANTS
  Gateway = "DmrToFm"
  RxStreams = {r1}
  TxStreams = {t1}
  NoStream = none
  NetKinds = {"header", "term", "voice"}
  Drops = TRUE
  SeqMod = 2
  GapBoundary = 0
  FramesPerBurst = 2
  AudioCap = 3
  VoiceCap = 1
  ControlCap = 1
  CtlBound = 2
  StreamTimeout = 1
  HangTime = 1
  TxTimeout = 1
INVARIANT FmKeyedOnlyInRx
