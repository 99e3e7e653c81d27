CONSTANTS
  Ptr = {p, q}
  Object = {o1, o2}
  Deleter = {d1, d2}
  NULL = NULL
  Depth = 1
  Careful = FALSE
SPECIFICATION Spec
SYMMETRY Symmetric
INVARIANTS
  DeletedOnce
CHECK_DEADLOCK FALSE
