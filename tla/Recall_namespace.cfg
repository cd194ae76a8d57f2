SPECIFICATION Spec
CONSTANTS
    m1 = m1
    m2 = m2
    x1 = x1
    h1 = h1
    h2 = h2
    home = home
    work = work
    note = note
    rule = rule
    fact = fact
    both = both
    one = one
    time = time
    t = t
    Memories = {m1, m2}
    Initial = {m2}
    Chunks = {x1}
    Namespace <- MCNamespace
    Kinds <- MCKinds
    Kind <- MCKind
    Parts <- MCParts
    Digits <- MCDigits
    Stamp <- MCStamp
    Created <- MCCreated
    Boost <- MCBoost
    Texts = {t}
    Matches <- MCMatches
    Nearest <- MCNearest
    Linked <- MCLinked
    Queries <- MCHomeQuery
    AnyNs = AnyNs
    NoTime = NoTime
    Handlers = {h1, h2}
    Counters = {c1}
    Makers = {h1, h2, gc}
    CacheMaker = gc
    MaxObjects = 4
    CacheCap = 1
    Candidates = 2
    Widening = 1
    K = 5
    VectorWeight = 1
    FTSWeight = 3
    OverlapPercent = 10
    InjectPercent = 10
    Unit = 100
    Loads <- MCHomeLoads
    Forgettable = {m1}
    None = None
INVARIANTS
    NamespacesAreIsolated
