CONSTANTS
    ClassWords <- SmallClasses
    NumLarge = 3
    InitialCap = 8
    MaxCap = 26
    MinCap = 4
    Requests = {3, 5, 7}
    Targets = {0, 12}
SPECIFICATION Spec
INVARIANTS TypeOK NoOverlap IndexAgrees FreeSpaceKept ZeroAboveBump SizesRight
PROPERTY KeepsPromise
CHECK_DEADLOCK FALSE
