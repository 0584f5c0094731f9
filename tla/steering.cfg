\* Two environments, two ports, one reused sid; the controller restarts at any time.
SPECIFICATION SteeringSpec
CONSTANTS
    Envs = {e1, e2}
    Ports = {p1, p2}
    FlowIds = {f1, f2}
    Sids = {1}
    None = None
    MaxQueue = 1
INVARIANTS
    TypeOK
    AssociationsAgree
    BoundToRegistered
    MisdirectedOnlyIfAbandoned
    SocketKept
PROPERTIES
    OthersPortsKept
    RepliesReachAsker
SYMMETRY Symmetry
