SPECIFICATION FairSpec
CONSTANTS
    q1 = q1
    Requests = {q1}
    MaxRow = 2
    PageSize = 2
    MaxCrashes = 1
    Events = {"supersede", "batch", "sweep"}
INVARIANTS TypeOK NoOrphanVector Owed
PROPERTIES EventuallyEmbedded WorkerParks
CHECK_DEADLOCK FALSE
