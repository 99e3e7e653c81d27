CONSTANTS
  Block = {b1, b2}
  NULL = NULL
  HeapMax = 4
  SizeOf = 4
  SizeMod = 16
  Capacity = 8
  Alloc = {a1}
  Count = {0, 1, 4}
  MaxAllocs = 3
  Reuses = FALSE
  Moves = FALSE
SPECIFICATION Spec
SYMMETRY Symmetric
INVARIANTS
  NothingPastMaximum
