SPECIFICATION FairSpec
CONSTANTS
  None = None
  Guests <- MmioAndIrq
  Dev <- Devices
  Window <- TrapWindow
  Unmapped <- Holes
  Budgets <- RunBudgets
  Wrap = 5
INVARIANT ValuesAreRight
INVARIANT AskedOnce
 
PROPERTY InstructionCompletes
PROPERTY RunReturns
PROPERTY ShadowHolds
PROPERTY NothingHalfDone
 
 
