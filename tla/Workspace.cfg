SPECIFICATION Spec
CONSTANTS
  b1 = b1
  b2 = b2
  b3 = b3
  t1 = t1
  t2 = t2
  s1 = s1
  s2 = s2
  m1 = m1
  m2 = m2
  k1 = k1
  k2 = k2
  c1 = c1
  c2 = c2
  d1 = d1
  w1 = w1
  w2 = w2
  Nobody = Nobody
  NoKey = NoKey
  NoTenant = NoTenant
  NoE2BKey = NoE2BKey
  Transactions = {t1, t2}
  Callbacks = {b1, b2, b3}
  Subjects = {s1, s2}
  Emails = {m1, m2}
  SigningKeys = {k1}
  Verifications = {b1, b2, b3}
  CacheTtl = 3
  FetchTimeout = 1
  LastTime = 5
  Keys = {k1, k2}
  Checks = {c1, c2}
  Deletions = {d1}
  CheckLimit = 2
  RunnerTokenIds = {t1, t2}
  Consumers = {b1, b2, b3}
  Tenants = {w1, w2}
  E2BKeys = {k1}
  SandboxCalls = {c1, c2}
  RunLimit = 2
  PanelTenant = w1
  Callers = {b1, b2, b3}
  RequestLimit = 2
  WindowLength = 2
  MaxTracked = 2
  MaxNow = 4
SYMMETRY Interchangeable
INVARIANTS
  TypeOK
  SessionsAreSound
  SigningKeysAreCurrent
  KeysHaveAnEnd
  TokenSpentOnce
  
  LimitsAreFair
  
PROPERTIES
  WorkspaceStays
CHECK_DEADLOCK FALSE
