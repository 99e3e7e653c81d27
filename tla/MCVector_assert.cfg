CONSTANTS
  Block = {b1}
  NULL = NULL
  HeapMax = 6
  SizeOf = 2
  SizeMod = 32
  Capacity = 9
  Vec = {v}
  Value = {x}
  Count = {0, 1, 2}
  OwnIndex = {}
  CopyMayThrow = FALSE
SPECIFICATION Spec
SYMMETRY Symmetric
CHECK_DEADLOCK FALSE
PROPERTIES
  NewCapNotZero
