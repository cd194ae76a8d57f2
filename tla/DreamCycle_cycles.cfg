SPECIFICATION FairSpec
CONSTANTS
    m1 = m1
    m2 = m2
    m3 = m3
    s1 = s1
    w1 = w1
    w2 = w2
    w3 = w3
    w4 = w4
    Arrivals <- MCArrivals
    Snapshots = {s1, s2, s3}
    Words = {w1, w2, w3, w4}
    Says <- MCSays
    Accessed <- MCAccessed
    Pinned = {}
    Contradictory <- MCContradictory
    Forgettable = {m1, m3}
    MaxAge <- MCMaxAge
    Dreamers = {p1, p2}
    Manual = {p2}
    SnapshotLimit = 2
    DedupThreshold = 60
    ContradictLimit = 1
    DedupLimit = 2
    MaxFaults = 1
    None = None
INVARIANTS
    TypeOK
    RepresentativeRemains
    SnapshotKeepsHeads
PROPERTIES
    OldAreCondensed
CHECK_DEADLOCK FALSE
