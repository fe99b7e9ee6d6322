SPECIFICATION Spec
CONSTANTS
    Layers = {"w5500", "tls", "netx"}
    Base = 2
    LengthBytes = 2
    Lengths = {0, 1, 2, 3}
    MaxPackets = 2
    MaxWrites = 2
    MaxConnections = 2
INVARIANTS
    TypeOK
    FramingKept
    CutsExplained
    AcceptedWhole
    WrittenInOrder
    LossNeedsStall
CHECK_DEADLOCK FALSE
