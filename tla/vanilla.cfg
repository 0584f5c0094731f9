SPECIFICATION Spec
CONSTANTS
  Scale = 4
  SlowStartGain = 2
  MaxDecrease = 2
  FloorCwnd = 4
  LossCwnd = 2
  Clamp = 8
  Word = 64
  NoRtt = 12
  DefaultParams <- Defaults
  ParamVectors <- Vectors
  InitCwnds = {2, 4}
  InitSsthreshs = {6, 1000}
  Rtts = {0, 3, 10, 20}
  AckCounts = {1, 5}
INVARIANTS TypeOK CntBounded CwndInRange
PROPERTIES  LossNeverWidens
CHECK_DEADLOCK TRUE
