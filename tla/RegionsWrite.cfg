SPECIFICATION Spec
CONSTANTS
  a = a
  b = b
  h1 = h1
  h2 = h2
  None = None
  MaxOff = 4
  Bytes = {a, b}
  Handles = {h1, h2}
  Overwrites = {TRUE, FALSE}
  FillAnywhere = FALSE
  Assertions = FALSE
SYMMETRY Symmetry
INVARIANTS NoOverlap ReadsAgree
PROPERTY IsByteMap
