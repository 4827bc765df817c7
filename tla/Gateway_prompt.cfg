SPECIFICATION FairSpec
CONSTANTS
    s1 = s1
    s2 = s2
    None = None
    Sockets <- TwoSockets
    LateClose = FALSE
CHECK_DEADLOCK FALSE
INVARIANT ConnectionSound
PROPERTIES DisconnectIsFinal SessionKept KeepsAlive
