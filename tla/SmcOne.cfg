SPECIFICATION FairSpec
CONSTANTS
  Vcpus = {v1}
  Embedders = {}
  Pages = {1, 2}
  Keys = {"a", "b"}
  Home <- HomeTwo
  Shape <- ShapeTwo
  Storers = {v1}
  Stores <- StoresTwo
  MaxWrites = 2
  Tiering = TRUE
  Cap = 1
  None = None
PROPERTIES
  EntersFresh
