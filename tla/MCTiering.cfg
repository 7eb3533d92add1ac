SPECIFICATION Spec
CONSTANTS
    Protos = {p}
    Shapes <- MCShapes
    HotEntry = 2
    HotBackEdge = 2
    RetryWindow = 3
    MaxCount = 3
    ReentryCap = 3
    MaxCCalls = 6
    MaxDepth = 5
INVARIANTS TypeOK TiersAgree FramesSound ReentryBounded
PROPERTIES SwitchDrains MilestoneDecides HotIsDecided
