SPECIFICATION Spec
CONSTANTS
    RateMin = 2
    InitRate = 4
    MaxPacing = 15
    Scale = 4
    Increase = 5
    Decrease = 3
    CwndGain = 5
    LossKept = 3
    LossScale = 4
    Mtu = 1
    Mss = 1
    Second = 4
    Clamp = 10
    Word = 64
    CwndWord = 12
    Rtts = {0, 1, 2, 8}
    DefaultRtt = 1
    PacketsOut = {0, 5}
    TimeoutWindows = {1, 3}
    ParamVectors <- Vectors
INVARIANT RateInForce
PROPERTY OneStepPerInterval
