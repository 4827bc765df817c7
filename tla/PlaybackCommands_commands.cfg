SPECIFICATION Spec
CONSTANTS
    Users = {u1, u2}
    Songs = {song, live}
    LiveSongs = {live}
    Calls = {c1, c2}
    None = None
    Window = 2
    UserMax = 2
    GuildMax = 2
    PickTtl = 1
    LockTtl = 1
    PageTtl = 1
    MaxClock = 2
    MaxBegun = 3
    Mixes <- MCMixes
    MaxQueue = 2
    MaxTracks = 3
SYMMETRY Symmetric
INVARIANTS RateHeld LocksFollowOps SelectionUsedOnce
 
CHECK_DEADLOCK FALSE
