SPECIFICATION Spec
CONSTANTS
    Layers = {"netx"}
    Base = 2
    LengthBytes = 2
    Lengths = {0, 1, 3}
    MaxPackets = 2
    MaxWrites = 0
    MaxConnections = 2
INVARIANT
    HeaderHasType
CHECK_DEADLOCK FALSE
