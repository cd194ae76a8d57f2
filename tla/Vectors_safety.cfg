SPECIFICATION VectorsSpec
CONSTANTS
    Ids = {1, 2, 3, 4}
    NoId = NoId
    MaxLayer = 1
    M = 2
    Mmax = 2
    TopK = 2
    Dist <- MCTiedDist
    Modes = {TRUE, FALSE}
    gateway = gateway
    handler1 = handler1
    handler2 = handler2
    dream = dream
    Procs = {gateway}
    Threads = {handler1, handler2, dream}
    Home <- MCHome
    Workload <- HandlersAndDream
    Memories = {i1, i2, i3}
    MaxTries = 2
    NoThread = NoThread
    NoMemory = NoMemory
SYMMETRY MemorySymmetry
INVARIANTS
    TypeOKVectors
    EntryPointValid
    DanglingOnlyAboveLevel
    DurableVectors
PROPERTIES
    InsertLeavesInboundLink
    DegreeGrowsOnlyOnLoad
    OperationAdvances
    AppendOnlyIsExact
