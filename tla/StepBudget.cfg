CONSTANTS
    Thresholds = {1}
    MaxSince = 1
    Quantum = 2
    Unlimited = 3
    FuelMod = 4
    BytesPerStep = 2
    Pieces = {1}
    Budgets = {0, 2}
    Tiers = {"wasm", "native"}
    Contexts = {f, g}
    Callers = {f}
    FuelWord = word
    ReplaceUnderWasm = FALSE
    Paced = {"wasm"}
    MaxDepth = 3
    MaxSegDepth = 1
    MaxGen = 2
SPECIFICATION FairSpec
INVARIANTS BillingAddsUp PendingAgrees
 
