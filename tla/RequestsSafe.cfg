SPECIFICATION FairSpec
CONSTANTS
    Clients = {c1, c2}
    Second = 2
    Cost = 1
    Kinds <- AllShapes
    Files = {1, 3}
    Threshold = 2
    Chunk = 2
    Timeout = 2
    Punishments = {1, 2}
    Faults = TRUE
    MaxPunish = 2
    MaxWindow = 1
INVARIANTS
    TypeOK
    FreePerPunishment
PROPERTIES
    ApiIsBucket
    BandwidthIsBucket
    LockHonoured
    RequestEnds
