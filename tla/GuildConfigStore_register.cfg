SPECIFICATION FairSpec
CONSTANTS
    g1 = g1
    g2 = g2
    prefix = prefix
    volume = volume
    c1 = c1
    c2 = c2
    Nil = Nil
    Guilds <- TwoGuilds
    Settings <- TwoFields
    SettingValues = {0, 1}
    Default <- Defaults
    Callers <- TwoCalls
    MaxCache = 1
INVARIANT StoreSound
PROPERTIES IsRegister CallsReturn
