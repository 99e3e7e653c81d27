CONSTANTS
  Block = {b1, b2, b3}
  NULL = NULL
  HeapMax = 4
  SizeOf = 2
  SizeMod = 16
  Capacity = 9
  Alloc = {a1, a2}
  Count = {0, 1, 2, 7}
  MaxAllocs = 3
  Reuses = TRUE
  Moves = TRUE
SPECIFICATION Spec
SYMMETRY Symmetric
INVARIANTS
  TypeOK
  WithinCapacity
  NeverUndercounts
  CountersCoverBlocks
  HeldBlocksFit
PROPERTIES
  RefusalKeepsBlocks
  DriftOnlyByReallocation
