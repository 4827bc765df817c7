SPECIFICATION LibrarySpec
CONSTANTS
    Names = {p1, p2, p3}
    Songs = {s1, s2}
    Keys = {k1}
    Values = {v1}
    Calls = {c1, c2}
    None = None
    MaxPlaylists = 1
    MaxTracks = 2
    MaxSaved = 1
    MaxFavorites = 1
    MaxHistory = 2
    PageSize = 1
    MaxBegun = 3
SYMMETRY Symmetry
CHECK_DEADLOCK FALSE
INVARIANT ExcessBounded
PROPERTIES AloneIsExact 
