\* Three environments: descriptors are given out again, also those of closed
\* sockets that still have an action.
SPECIFICATION FairSpec
CONSTANTS
    Clients = {c1, c2, c3}
    Sids = {1}
    NetlinkSock = NetlinkSock
    UnixSock = UnixSock
    None = None
INVARIANTS
    RegisteredHasAction
    RemovalsRegistered
    ClientsKept
PROPERTIES
    DeadClientsRemoved
