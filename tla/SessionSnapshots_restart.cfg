SPECIFICATION SnapshotFairSpec
CONSTANTS
    c1 = c1
    c2 = c2
    Nothing = Nothing
    VoiceChannels <- OneChannel
    MaxContent = 2
    MaxMoves = 3
    MaxStarts = 2
    MaxWrites = 2
    MaxFails = 1
    QuietEnd = TRUE
INVARIANTS RestartBringsBack DestroyedStaysGone
PROPERTY PlaybackIsStored
CHECK_DEADLOCK FALSE
