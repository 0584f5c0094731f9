\* One environment, two ports, one sid; a CREATE may wait behind another message.
SPECIFICATION SteeringSpec
CONSTANTS
    Envs = {e1}
    Ports = {p1, p2}
    FlowIds = {f1, f2}
    Sids = {1}
    None = None
    MaxQueue = 2
PROPERTIES
    CreateAssociates
