SPECIFICATION AccessSpec
CONSTANTS
  k1 = k1
  c1 = c1
  d1 = d1
  NoKey = NoKey
  Keys = {k1}
  Checks = {c1}
  Deletions = {d1}
  CheckLimit = 2
INVARIANTS
  NothingActsAfterDeletion
CHECK_DEADLOCK FALSE
