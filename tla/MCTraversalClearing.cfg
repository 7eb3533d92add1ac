CONSTANTS
    s1 = s1
    s2 = s2
    s3 = s3
    u = u
    o = o
    Name <- MCName
    MaxInt = 1
    Hash <- MCHash
    Vals = {u, o}
    Collectable = {o}
    Stores <- OneValueEach
    Nil = nil
    InvalidKey = invalid
    InitSizes <- NewTables
    PreSizes = {}
    Staged = FALSE
    MaxArraySize = 16
    GenSize = 1
    ClearsControl = TRUE
SPECIFICATION LoopSpec
INVARIANT TraversalSurvivesClearing
