CONSTANTS
  Block = {b1, b2, b3}
  NULL = NULL
  HeapMax = 4
  SizeOf = 2
  SizeMod = 32
  Capacity = 7
  Vec = {v, w}
  Value = {x}
  Count = {0, 1, 2}
  OwnIndex = {}
  CopyMayThrow = FALSE
SPECIFICATION Spec
SYMMETRY Symmetric
CHECK_DEADLOCK FALSE
INVARIANTS
  TypeOK
  BufferFits
  BuffersDisjoint
PROPERTIES
  RefusalChangesNothing
  BufferNeverLost
  IsSequence
