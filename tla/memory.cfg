SPECIFICATION Spec
CONSTANTS
    e1 = e1
    e2 = e2
    NoEntity = NoEntity
    Entities = {e1, e2}
    TeamLines <- Team
    Unmerged <- OnBranch
    ServerNotes <- Served
    LocalEntities = {e1, e2}
    Exposures <- OneExposure
    MaxLocal = 1
INVARIANT TypeOK
INVARIANT MarkerIsTrue
INVARIANT FetchedIsRead
INVARIANT ReconcileCompletes
PROPERTY ArchiveSticks
