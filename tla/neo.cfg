\* A ring of four: it wraps, it gets full, and segments are counted twice.
SPECIFICATION Spec
CONSTANTS
    NumIntervals = 4
    Ignore = 1
    MaxSegs = 4
    MaxDoubles = 2
    MaxIntervals = 6
INVARIANTS
    TypeOK
    RingAgrees
    Contiguous
    MeasuresClosed
