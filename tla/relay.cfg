SPECIFICATION RelayFairSpec
CONSTANTS
    c1 = c1
    e1 = e1
    e2 = e2
    NoExt = NoExt
    Clients = {c1}
    Entities = {e1, e2}
    MaxId = 3
    PageSize = 2
    ChunkSize = 2
    NudgeCap = 1
    MaxBuffer = 1
    MaxTasks = 1
    Commands = {}
    Events = {"team", "fault", "restart"}
INVARIANT RelayTypeOK
INVARIANT CursorCovers
PROPERTY CursorGrows
PROPERTY OutboxDrains
