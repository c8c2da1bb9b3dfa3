SPECIFICATION Spec
CONSTANTS
  Size = 16
  Width <- Widths
  Insns <- AllInsns
  Memories <- Contents
  Pointers <- Starts
  Counts = {0, 1, 3, 6}
  PageSize = 4
  Top = 14
  RawSpan = TRUE
INVARIANTS
  ProgressIsExact
  StoresAreNoted
PROPERTY KeepsPromise
