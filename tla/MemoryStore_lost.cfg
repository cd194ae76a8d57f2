SPECIFICATION SpecStore
CONSTANTS
    gateway = gateway
    command = command
    handler1 = handler1
    main = main
    Procs = {gateway, command}
    Threads = {handler1, main}
    Home <- MCHome
    Workload <- StoreAndReindex
    Memories = {i1, i2}
    MaxTries = 1
    NoThread = NoThread
    NoMemory = NoMemory
PROPERTIES
    VectorsAreNotLost
