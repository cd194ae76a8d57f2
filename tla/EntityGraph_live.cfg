SPECIFICATION FairSpec
CONSTANTS
    a = a
    b = b
    Memories = {m1, m2}
    Entities = {a, b}
    Mentions <- AllMentioned
    Claims <- SameClaim
    Handlers = {h1}
    Dreamers = {d1}
    MaxCount = 3
    NoMemory = NoMemory
PROPERTIES
    EntitiesAreBackfilled
    SharedEntitiesAreRelated
