SPECIFICATION Spec
CONSTANTS
    a = a
    b = b
    Memories = {m1, m2}
    Entities = {a, b}
    Mentions <- AllMentioned
    Claims <- SameClaim
    Handlers = {h1, h2}
    Dreamers = {d1, d2}
    MaxCount = 3
    NoMemory = NoMemory
SYMMETRY StoreSymmetry
INVARIANTS
    TypeOK
    CountsAreCooccurrences
    CountedTwiceIsRelated
