SPECIFICATION Spec
CONSTANTS
  v1 = v1
  v2 = v2
  a = a
  Vcpus = {v1, v2}
  Keys = {a}
  Region <- OwnPage
  Loop <- LoopUntilWritten
  Caps = TRUE
  Thr = 1
  T2 = 2
  QueueCap = 1
  MaxWrites = 1
  None = None
SYMMETRY VcpuSymmetry
INVARIANTS OutstandingIsExact NoStuckMarker CachedIsFresh
