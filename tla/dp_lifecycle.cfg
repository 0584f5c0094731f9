\* Life cycle of connections: three sockets, two usable slots of three; the
\* reader stays silent (dp_staging has it).
SPECIFICATION Spec
CONSTANTS
    Socks = {s1, s2, s3}
    MaxConnections = 3
    PrivStates = {o1, o2, o3}
    NumRegs = 1
    NumParams = 1
    FieldLists <- OneRegister
    MaxMsgs = 0
    Null = Null
    FreeSlot = FreeSlot
    LostSlot = LostSlot
INVARIANTS
    TypeOK
    SlotOwnership
    PrivStateOwnership
    OnlyFailedStartsLoseSlots
PROPERTIES
    ImplementsSlotTable
SYMMETRY Symmetry
