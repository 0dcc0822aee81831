SPECIFICATION ClientsSpec
CONSTANTS
  c1 = c1
  c2 = c2
  c3 = c3
  k1 = k1
  k2 = k2
  b1 = b1
  b2 = b2
  x1 = x1
  x2 = x2
  NoRow = NoRow
  NoReply = NoReply
  Refused = Refused
  Conflict = Conflict
  Calls = {c1, c2, c3}
  Keys = {k1, k2}
  Bodies = {b1, b2}
  Clients = {x1, x2}
  MaxRetries = 3
SYMMETRY Interchangeable
INVARIANTS
  RepliesMatchRequests
  NoSecondRunWhileKept
  RetriesAreSafe
CHECK_DEADLOCK FALSE
