CONSTANTS
    Addr = {a1, a2, a3}
    Scalar = scalar
    OTypes = {"table", "closure", "userdata"}
    Contents = {"hello", "world", "again"}
    Hash <- StringHash
    FirstBuckets = 1
    Modes = {"", "k", "v", "kv"}
    MaxEntries = 1
    MaxTables = 1
    Finalizers = "quiet"
SPECIFICATION Spec
SYMMETRY AddrSymmetry
INVARIANTS StringsInternedOnce NoDangling MarkIsExact NewbornsAreCandidates FinalizerOwedOnce
PROPERTY SweepSpares
CHECK_DEADLOCK FALSE
