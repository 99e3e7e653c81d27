CONSTANTS
  Ptr = {p, q, r}
  Object = {o1, o2, o3}
  Deleter = {d1, d2}
  NULL = NULL
  Depth = 3
  Careful = TRUE
SPECIFICATION Spec
SYMMETRY Symmetric
INVARIANTS
  TypeOK
  SoleOwner
  NoDangling
PROPERTIES
  DeletedTwiceOnlyReentrant
  LostOnlyWhenReplaced
  ReturnedIsDeleted
  MispairedOnlyByFailedSwap
CHECK_DEADLOCK FALSE
