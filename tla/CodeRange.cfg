SPECIFICATION RangeSpec
CONSTANTS
  NPages = 4
  FieldSize = 8
  Markers = {m1, m2}
  NoPage = NoPage
INVARIANTS
  CodePagesCovered
