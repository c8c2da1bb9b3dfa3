SPECIFICATION Spec
CONSTANTS
  Programs <- AllInsns
  Places <- AllPlaces
  Known = {"trap", "precopy", "lanes", "rip", "probe", "note", "upper", "backends"}
INVARIANTS
  FaultLeavesNoTrace
  FaultIsExact
  FinishesRight
  BackendsAgree
  UpperIsRight
  StoresAreNoted
  DeviceAskedOnce
PROPERTY Completes
