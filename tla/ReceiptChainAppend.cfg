SPECIFICATION Spec
CONSTANTS
  a1 = a1
  a2 = a2
  a3 = a3
  x1 = x1
  Receipts = {a1, a2, a3}
  Exports = {x1}
  MaxAttempts = 2
  ExportLimit = 2
  NoCheckpoint = NoCheckpoint
SYMMETRY Interchangeable
INVARIANTS
  TypeOK
  ChainIsSound
  GapsAreUnfinishedAppends
  CheckpointsStayTrue
PROPERTIES
  ChainIsALog
CHECK_DEADLOCK FALSE
