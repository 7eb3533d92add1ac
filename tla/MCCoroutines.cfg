CONSTANTS
    Refs = {r1, r2}
    Null = null
    MaxCos = 2
    MaxCCalls = 3
    Room = 2
SPECIFICATION Spec
SYMMETRY AnyRef
INVARIANTS StatusesMatchChain DepthsMatchActivations YieldsOnlyToResume
    HandlesResolve DepthIsBounded DeathLinesKept
PROPERTY KeepsPromise
