SPECIFICATION FairSpec
CONSTANTS
    Ports = {"mbed", "arduino"}
    RETRY_CNT = 3
    HeapRoom = 5
    Failures = {"setup", "connect", "mqtt", "subscribe", "size", "write", "ack", "link", "rc"}
    MaxFaults = 8
    MaxNesting = 3
INVARIANTS
    TypeOK
    AtMostOneConnection
    StrandedHasCause
    CrashHasCause
    ReconnectByAccident
PROPERTY
    Recovers
CHECK_DEADLOCK FALSE
