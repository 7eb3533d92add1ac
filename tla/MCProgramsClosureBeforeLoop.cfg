SPECIFICATION Spec
CONSTANTS
  Programs <- ClosureBeforeLoop
  Build <- CompileSource
  Promotions <- SomePromotions
  MaxCompilableInsns = 100
  MaxCompilableRegs = 24
  MaxClosureDepth = 3
  MaxUpvalCount = 4
  StackSize = 64
  InitialStack = 8
  StackSlack = 2
  MaxReturnFast = 2
  DensityFloor = 1
  SegToSegDepthCap = 2
  CallSpacing = 4
  HostFnID <- FnID
  StraightLineMin = 2
  MaxK = 4
  FieldsPerFlush = 2
  MaxBC = 1
  StepLimit = 600
INVARIANT RunsAsWritten
