SPECIFICATION Spec
CONSTANTS
    yt = yt
    http = http
    p1 = p1
    p2 = p2
    p3 = p3
    None = None
    Songs = {yt, http}
    YouTube = {yt}
    Seekable = {yt}
    Plays = {p1, p2, p3}
    MaxQueue = 1
    MaxHistory = 1
    FailLimit = 2
    QueueBound = 1
    ReuseAfterStop = FALSE
SYMMETRY PlaySymmetry
CHECK_DEADLOCK FALSE
INVARIANTS NeverStuck PlaybackIsOwned
PROPERTIES QueueEmptyMeansIdle EndsAreAnnounced
