SPECIFICATION FairSpec
CONSTANTS
    PoolSize = 3
    SockNum = 4
    NULL = NULL
    RETRY_CNT = 3
    Failures = {"dhcp", "ntp", "dnsMalformed", "dnsError", "dnsLost", "connect", "handshake", "mqtt", "subscribe", "publish", "link"}
    MaxFaults = 7
INVARIANTS
    TypeOK
    PoolInStep
    ConnectionOwned
    PoolSuffices
    NothingLeft
    RecoveryThroughMain
PROPERTY
    Recovers
CHECK_DEADLOCK FALSE
