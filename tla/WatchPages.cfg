SPECIFICATION WatchSpec
CONSTANTS
  Embedders = {e1}
  Writers = {t1, t2}
  Pages = {0, 1, 2}
  WordSize = 2
  Stores = {{0, 1}, {2}}
  MaxStores = 2
  Nothing = Nothing
INVARIANTS
  NoPageLost
  DrainIsComplete
PROPERTIES
  RangesAreExact
