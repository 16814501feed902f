SPECIFICATION FairSpec
CONSTANTS
    c1 = c1
    e1 = e1
    e2 = e2
    NoExt = NoExt
    Clients = {c1}
    Entities = {e1, e2}
    MaxId = 4
    PageSize = 1
    ChunkSize = 2
    Commands = {"sync"}
    Events = {"team", "fault", "archive", "tombstone"}
INVARIANT TypeOK
INVARIANT CaughtUp
INVARIANT RepushIsAccepted
PROPERTY EventuallyPushed
