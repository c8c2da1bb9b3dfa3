SPECIFICATION FairSpec
CONSTANTS
  Vcpus = {v1}
  Embedders = {e}
  Pages = {1, 2}
  Keys = {"a", "b"}
  Home <- HomeTwo
  Shape <- ShapeTwo
  Storers = {v1}
  Stores <- StoresTwo
  MaxWrites = 1
  Tiering = TRUE
  Cap = 1
  None = None
PROPERTIES
  OutOfDateIsDropped
