SPECIFICATION Spec
CONSTANTS
  Vcpus = {v1, v2}
  Embedders = {}
  Pages = {1}
  Keys = {"a"}
  Home <- HomeOne
  Shape <- ShapeOne
  Storers = {v1, v2}
  Stores <- StoresOne
  MaxWrites = 1
  Tiering = FALSE
  Cap = 1
  None = None
INVARIANTS
  IbtcIsCurrent
