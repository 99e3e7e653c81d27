CONSTANTS
  Block = {b1, b2}
  NULL = NULL
  HeapMax = 6
  SizeOf = 2
  SizeMod = 32
  Capacity = 9
  Vec = {v}
  Value = {x, y}
  Count = {0, 1, 2, 3, 4}
  OwnIndex = {}
  CopyMayThrow = FALSE
SPECIFICATION Spec
SYMMETRY Symmetric
CHECK_DEADLOCK FALSE
INVARIANTS
  AllInitialised
PROPERTIES
  CapacityKept
  OverrunOnlyByAssign
  IsSequence
