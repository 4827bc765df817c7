SPECIFICATION FairSpec
CONSTANTS
    yt = yt
    http = http
    p1 = p1
    p2 = p2
    p3 = p3
    None = None
    Songs = {yt}
    YouTube = {yt}
    Seekable = {yt}
    Plays = {p1, p2}
    MaxQueue = 2
    MaxHistory = 0
    FailLimit = 2
    QueueBound = 2
    ReuseAfterStop = FALSE
PROPERTIES StartupSettles
CHECK_DEADLOCK FALSE
