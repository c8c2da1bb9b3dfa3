SPECIFICATION FairSpec
CONSTANTS
  v1 = v1
  a = a
  Vcpus = {v1}
  Keys = {a}
  Region <- OwnPage
  Loop <- NoLoop
  Caps = FALSE
  Thr = 1
  T2 = 1
  QueueCap = 1
  MaxWrites = 2
  None = None
PROPERTIES WaitIdleReturns DropReturns HotTiersUp
