SPECIFICATION FairSpec
CONSTANTS
    p1 = p1  p2 = p2  f1 = f1  f2 = f2  None = None
    Procs = {p1, p2}
    Files = {f1, f2}
    DocFiles = {f2}
    PartsOf <- MCParts
    Modes <- MCModes
    InitTree <- MCTree
    Changes <- MCChanges
    BigRun = 1
    MaxBatch = 2
    MaxConnect = 1
    MaxBusy = 1
    MaxEdits = 1
    MaxFaults = 1
INVARIANTS TypeOK OneWriter VectorsBelong RefinedVectors
PROPERTIES OwedUntilDone HandoverIsTrue CatchesUp
