SPECIFICATION Spec
CONSTANTS
  Absent = Absent
  Empty = Empty
  Invalid = Invalid
  NoPolicy = NoPolicy
  i1 = i1
  i2 = i2
  q1 = q1
  w1 = w1
  w2 = w2
  PolicyIds = {i1, i2}
  Requests = {q1}
  PolicyWorkspaces = {w1, w2}
  Projects = {"p1"}
  CheckWorkspace = w1
  CheckProject = "p1"
  PolicyBodies <- MCBodies
  Proposals <- MCProposals
  ToolCallInputs <- MCToolCalls
  MaxCreated = 2
  NoPreset = NoPreset
  Letters = {"a", "b"}
  MaxPattern = 4
  MaxWildcards = 2
  MaxSubject = 4
  MaxText = 5
  SafeWords = {"ls"}
  OtherWords = {"rm"}
  MaxSubstitutions = 3
  CommandLines <- MCCommandLines
  NoLine = NoLine
  k1 = k1
  k2 = k2
  r1 = r1
  c1 = c1
  c2 = c2
  All = All
  NoRow = NoRow
  ListProjects = {"p1", "p2"}
  FirstProject = "p1"
  KeyRows = {k1, k2}
  PolicyRows = {r1}
  ProjectRows = {k1, k2}
  Members = {"admin", "approver"}
  PanelCalls = {c1, c2}
SYMMETRY Interchangeable
INVARIANTS
  TypeOK
  DecisionsKeepTheFloor
  
  ScanIsRight
  
  PagesTellTheTruth
PROPERTIES
  PrecedenceDecides
CHECK_DEADLOCK FALSE
