SPECIFICATION FairSpec
CONSTANTS
    s1 = s1
    s2 = s2
    x = x
    y = y
    o1 = o1
    o2 = o2
    None = None
    Sessions <- TwoSessions
    Channels <- OneChannel
    Ops <- OneOp
    MaxVoice = 1
    Overlap = TRUE
    Failures = FALSE
 
PROPERTIES TimerSparesOthers StayIsHeeded
