SPECIFICATION Spec
CONSTANTS
  BICTCP_HZ = 3
  U64Bits = 30
  HZ = 2
  Word = 1048576
  HystartLowWindow = 5
  HystartMinSamples = 2
  HystartAckDelta = 0
  Clamp = 7
  ParamVectors <- Vectors
  InitCwnds = {6}
  InitSsthreshs = {1000}
  Rtts <- Samples
  AckCounts = {2}
  IdleTimes = {2}
  MaxTime = 3
  MaxCount = 6
  MaxLosses = 2
INVARIANTS TypeOK CurveOfOneScale EpochNotAhead CntUsable CurrRttOfRound
PROPERTIES OnePerTwoAcked
CHECK_DEADLOCK TRUE
