SPECIFICATION Spec
CONSTANTS
    Half = 8
    Second = 2
    Timeout = 4
    NTP_RETRY = 2
    Boot = {1, 28}
    MaxSkew = 8
    MaxTime = 6
INVARIANTS
    TypeOK
    OffsetRight
CHECK_DEADLOCK FALSE
