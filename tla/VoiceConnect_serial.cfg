SPECIFICATION FairSpec
CONSTANTS
    v1 = v1
    v2 = v2
    x = x
    y = y
    c1 = c1
    c2 = c2
    c3 = c3
    t1 = t1
    t2 = t2
    None = None
    Conns <- TwoConns
    Channels <- TwoChannels
    Home <- HomeOf
    Calls <- ThreeCalls
    Tracks <- TwoTracks
    Overlap = FALSE
INVARIANT RoomsAccounted
PROPERTY CallsReturn
