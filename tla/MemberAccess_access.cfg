SPECIFICATION Spec
CONSTANTS
    p = p
    q = q
    x = x
    y = y
    Rooms <- MCRooms
    Slots <- MCSlots
    Reads <- MCReads
    Posts <- MCPosts
    Told <- MCTold
    Mixes <- MCMixes
    Grants <- MCGrants
    Overs <- MCOvers
    Fails <- MCFails
    MaxRetries = 2
    Backoff = 1
    None = None
    Roles = {r1}
    Channels = {a}
    TTL = 2
    MaxChanges = 2
    MaxEvents = 3
    MaxChecks = 3
    StableCap = 4
SYMMETRY MCSymmetry
CHECK_DEADLOCK FALSE
INVARIANTS PostedOnce 
PROPERTIES LimitRespected GrantsAreFounded BotVerdictSettles
