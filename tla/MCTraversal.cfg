CONSTANTS
    s1 = s1
    s2 = s2
    s3 = s3
    u = u
    o = o
    Name <- MCName
    MaxInt = 2
    Hash <- MCHash
    Vals = {u, o}
    Collectable = {o}
    Stores <- OneValueEach
    Nil = nil
    InvalidKey = invalid
    InitSizes <- NewTables
    PreSizes = {2}
    Staged = FALSE
    MaxArraySize = 16
    GenSize = 64
    ClearsControl = FALSE
SPECIFICATION LoopSpec
VIEW Shape
INVARIANTS LayoutSound VisitsEachKeyOnce
PROPERTIES KeepsPromise GenContract
