SPECIFICATION FairSpec
CONSTANTS
    PoolSize = 3
    SockNum = 4
    NULL = NULL
    RETRY_CNT = 3
    Failures = {"handshake"}
    MaxFaults = 6
PROPERTY
    ReconnectWhenDisconnected
CHECK_DEADLOCK FALSE
