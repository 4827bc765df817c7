SPECIFICATION FairSpec
CONSTANTS
    a = a
    b = b
    None = None
    Pumps <- TwoPumps
    FrameUnits = 2
    Target = 1
    ChunkSizes = {0, 1, 2, 5}
    StreamUnits = 7
    Failures = TRUE
INVARIANT PumpSound
PROPERTIES OnlyCurrentIsHeard PumpsEndRightly
