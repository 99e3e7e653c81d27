CONSTANTS
  Block = {b1, b2}
  NULL = NULL
  HeapMax = 6
  SizeOf = 2
  SizeMod = 32
  Capacity = 10
  Vec = {v}
  Value = {x, y}
  Count = {0, 2, 3}
  OwnIndex = {0, 2}
  CopyMayThrow = TRUE
SPECIFICATION Spec
SYMMETRY Symmetric
CHECK_DEADLOCK FALSE
PROPERTIES
  ThrowLeavesNoGap
  OwnElementCopied
  ForgottenOnlyByPopBack
