SPECIFICATION Spec
CONSTANTS
  q1 = q1
  q2 = q2
  q3 = q3
  r1 = r1
  Requests = {q1, q2, q3}
  Runs = {r1}
  Actions = {"npm_install", "shell_without_command", "select", "deploy"}
  ShellActions = {"npm_install", "shell_without_command"}
  ReadActions = {"select"}
  CommandActions = {"npm_install", "deploy"}
  NoAction = NoAction
  SandboxLimit = 3
SYMMETRY Interchangeable
INVARIANTS
  TypeOK
  EffectsAreReleased
  ApprovalPrecedesExecution
  CompletedHasReceipt
  SandboxQuota
PROPERTIES
  RejectionStands
  GateRefined
