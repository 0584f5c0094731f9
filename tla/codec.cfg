\* All three modules; two messages, ids and ports around the limits of a byte.
SPECIFICATION Spec
CONSTANTS
    Algs = {"vanilla", "scubic", "neo"}
    Values <- SomeValues
    RequestIds <- SomeIds
    Measurements <- SomeMeasurements
    ConnSids <- SomeSids
    Ports <- SomePorts
    None = None
    MaxSends = 2
INVARIANTS
    ParametersReachTheirField
    ReadBack
CHECK_DEADLOCK TRUE
