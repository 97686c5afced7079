SPECIFICATION Spec
CONSTANTS
  Frame = {f1, f2}
  None = None
  Down = Down
  MaxTries = 2
  MaxRecords = 5
  MaxSeq = 2
  MaxAcks = 4
SYMMETRY FrameSymmetry
INVARIANTS
  TypeOK
  JournalReloads
  MemoryIsDurable
PROPERTIES
  QuarantineIsFinal
  ImplementsDispatchLog
CHECK_DEADLOCK FALSE
