\* Staging against invoke, release and reuse: one socket at a time, two
\* registers and parameters, two messages of the controller.
SPECIFICATION FairSpec
CONSTANTS
    Socks = {s1}
    MaxConnections = 2
    PrivStates = {o1, o2}
    NumRegs = 2
    NumParams = 2
    FieldLists <- AnyOrder
    MaxMsgs = 2
    Null = Null
    FreeSlot = FreeSlot
    LostSlot = LostSlot
INVARIANTS
    RepliedOnce
PROPERTIES
    ControlAfterCreate
    HandedOverOnce
    CreateIsSent
