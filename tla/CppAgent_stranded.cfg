SPECIFICATION FairSpec
CONSTANTS
    Ports = {"mbed"}
    RETRY_CNT = 3
    HeapRoom = 4
    Failures = {"ack"}
    MaxFaults = 1
    MaxNesting = 2
PROPERTY
    ReconnectWhenDisconnected
CHECK_DEADLOCK FALSE
