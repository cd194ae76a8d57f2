SPECIFICATION FairSpecStore
CONSTANTS
    gateway = gateway
    command = command
    handler1 = handler1
    main = main
    Procs = {gateway, command}
    Threads = {handler1, main}
    Home <- MCHome
    Workload <- HandlerAndCommand
    Memories = {i1, i2}
    MaxTries = 2
    NoThread = NoThread
    NoMemory = NoMemory
INVARIANTS
    VectorsHaveRows
PROPERTIES
    MergeKeepsFile
    LockIsReleased
    RequestsEnd
