SPECIFICATION Spec
CONSTANTS
    Layers = {"tls"}
    Base = 2
    LengthBytes = 2
    Lengths = {0, 1, 3}
    MaxPackets = 1
    MaxWrites = 2
    MaxConnections = 1
INVARIANT
    SuccessMeansSent
CHECK_DEADLOCK FALSE
