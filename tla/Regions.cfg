SPECIFICATION Spec
CONSTANTS
  Span = 6
  Base = 1
  Cap = 5
  PageSize = 2
  Starts = {0, 1, 2, 4}
  Sizes = {1, 2, 3}
  Kinds = {"Ram", "Trap"}
  Keys = {2, 4}
  BlockLen = 2
  MaxAccess = 2
  MaxChanges = 4
  None = None
INVARIANTS
  GuardsAreExact
  UnitsAreMapped
  BackendsAgree
CHECK_DEADLOCK FALSE
