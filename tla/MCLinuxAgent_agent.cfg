CONSTANTS
    h1 = h1
    h2 = h2
    off = off
    red = red
    green = green
    NULL = NULL
    NoColor = NoColor
    Off = off
    Handles <- MCHandles
    Colors <- MCColors
    SyncErrors <- AllErrors
SPECIFICATION FairSpec
INVARIANTS TypeOK OneClient UseAfterDestroyHasCause StatusTracksClient RestartRunsAlone
           ReplyIsTruthful PlatformInSync
PROPERTIES ReconnectWhenDisconnected AttemptResolves TelemetryFlows SessionContract
