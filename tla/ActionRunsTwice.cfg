SPECIFICATION Spec
CONSTANTS
  q1 = q1
  q2 = q2
  q3 = q3
  r1 = r1
  Requests = {q1, q2, q3}
  Runs = {r1}
  Actions = {"npm_install"}
  ShellActions = {"npm_install"}
  ReadActions = {}
  CommandActions = {"npm_install"}
  NoAction = NoAction
  SandboxLimit = 4
INVARIANTS
  OneExecutionPerApproval
