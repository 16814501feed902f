SPECIFICATION Spec
CONSTANTS
    c1 = c1
    e1 = e1
    e2 = e2
    NoExt = NoExt
    Clients = {c1}
    Entities = {e1, e2}
    MaxId = 4
    PageSize = 2
    ChunkSize = 2
    Commands = {"sync", "push", "force"}
    Events = {"team", "archive", "remove", "reset", "restore"}
SYMMETRY Symmetry
INVARIANT StampIsTrue
INVARIANT RestoreComplete
PROPERTY IdsKeepEntity
