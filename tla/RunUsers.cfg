SPECIFICATION UsersSpec
CONSTANTS
  q1 = q1
  q2 = q2
  q3 = q3
  r1 = r1
  t1 = t1
  NoAction = NoAction
  Requests = {q1, q2, q3}
  Runs = {r1}
  Tabs = {t1}
  Actions = {"npm_install", "deploy"}
  ShellActions = {"npm_install"}
  ReadActions = {}
  CommandActions = {"npm_install"}
  SandboxLimit = 4
SYMMETRY Interchangeable
INVARIANTS
  UsersTypeOK
  LocalRunsAreReleased
  
  ApprovalButtonsAreTrue
CHECK_DEADLOCK FALSE
