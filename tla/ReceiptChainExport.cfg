SPECIFICATION Spec
CONSTANTS
  a1 = a1
  a2 = a2
  a3 = a3
  x1 = x1
  x2 = x2
  Receipts = {a1, a2, a3}
  Exports = {x1, x2}
  MaxAttempts = 1
  ExportLimit = 3
  NoCheckpoint = NoCheckpoint
SYMMETRY Interchangeable
INVARIANTS
  ExportsVerify
CHECK_DEADLOCK FALSE
