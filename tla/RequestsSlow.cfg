SPECIFICATION FairSpec
CONSTANTS
    Clients = {c1}
    Second = 2
    Cost = 1
    Kinds <- Uploads
    Files = {1, 3, 7}
    Threshold = 4
    Chunk = 2
    Timeout = 3
    Punishments = {}
    Faults = FALSE
    MaxPunish = 0
    MaxWindow = 2
PROPERTIES
    SlowUploadIsStored
