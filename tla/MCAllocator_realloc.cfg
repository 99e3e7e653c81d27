CONSTANTS
  Block = {b1, b2}
  NULL = NULL
  HeapMax = 4
  SizeOf = 2
  SizeMod = 16
  Capacity = 9
  Alloc = {a1}
  Count = {1, 2}
  MaxAllocs = 3
  Reuses = TRUE
  Moves = FALSE
SPECIFICATION Spec
SYMMETRY Symmetric
INVARIANTS
  AllFreedAllAvailable
