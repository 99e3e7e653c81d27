CONSTANTS
  Block = {b1, b2}
  NULL = NULL
  HeapMax = 3
  SizeOf = 1
  SizeMod = 16
  Capacity = 4
  Vec = {v}
  Value = {x, y}
  Count = {0, 1, 2}
  OwnIndex = {}
  CopyMayThrow = TRUE
  SizeBound = 4
SPECIFICATION IterSpec
SYMMETRY Symmetric
CHECK_DEADLOCK FALSE
INVARIANTS
  IteratorOK
PROPERTIES
  InsertRepeats
  RangeLosesTail
  EraseRemoves
  RangeEraseErasesNothing
  EditKeepsFront
  
  OutOfRangeOnlyByRangeErase
  ThrowsBeforeItWrites
