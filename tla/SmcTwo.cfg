SPECIFICATION Spec
CONSTANTS
  Vcpus = {v1, v2}
  Embedders = {}
  Pages = {1}
  Keys = {"a"}
  Home <- HomeOne
  Shape <- ShapeOne
  Storers = {v1, v2}
  Stores <- StoresOne
  MaxWrites = 2
  Tiering = TRUE
  Cap = 1
  None = None
SYMMETRY VcpuSymmetry
INVARIANTS
  DirtyIsAnnounced
  TagsCoverUnits
  OutOfDateIsPending
  LinksAreCurrent
  FastIsCurrent
