SPECIFICATION FairSpec
CONSTANTS
  Gateway = "Both"
  RxStreams = {r1, r2}
  TxStreams = {t1}
  NoStream = none
  NetKinds = {"header", "term", "voice"}
  Drops = FALSE
  SeqMod = 2
  GapBoundary = 0
  FramesPerBurst = 2
  AudioCap = 3
  VoiceCap = 1
  ControlCap = 1
  CtlBound = 2
  StreamTimeout = 1
  HangTime = 1
  TxTimeout = 1
INVARIANT FmKeyedOnlyInRx
INVARIANT RxAccounted
INVARIANT MetaFollowsCall
PROPERTY ImplementsHalfDuplex
PROPERTY SilenceUnkeys
