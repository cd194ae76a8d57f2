SPECIFICATION Spec
CONSTANTS
    e1 = e1
    e2 = e2
    e3 = e3
    e4 = e4
    n1 = n1
    Entities = {e1, e2, e3, e4}
    Notes = {n1}
    Possible <- MCPossible
    Typed <- MCTyped
    Mentioned <- MCMentioned
    MaxSeeds = 2
    Depths = {0, 1}
    DefaultDepth = 3
    Limits = {0}
    DefaultLimit = 1
    Unit = 96
    MaxChanges = 1
    Nowhere = Nowhere
    MaxTurns = 3
    Utterances <- MCUtterances
    Settings <- MCSettings
    DefaultKeep = 1
    DefaultSize = 2
    DefaultOverlap = 1
    Requests = {r1, r2}
    NoRequest = NoRequest
    Collections = {k1}
    AnyName = AnyName
    Files <- MCFiles
    Sizes = {3}
    DefaultChunk = 5
    Jobs = {j1, j2}
    MaxDocs = 2
    MaxIds = 2
    MaxAsked = 3
    MaxFaults = 1
    MaxHits = 2
    TopK = 1
    bge = bge
    ollama = ollama
    api = api
    Embedders = {bge, ollama, api}
    Width <- MCWidth
    Local = {bge}
    Api = {api}
    Chains <- MCChains
    Callers = {h1}
    Health = Health
    None = None
    Tools = {"embedders"}
INVARIANTS
    RecallFallsBack
CHECK_DEADLOCK FALSE
