SPECIFICATION FairSpec
CONSTANTS
  q1 = q1
  q2 = q2
  r1 = r1
  r2 = r2
  Requests = {q1, q2}
  Runs = {r1, r2}
  Actions = {"npm_install", "deploy"}
  ShellActions = {"npm_install"}
  ReadActions = {}
  CommandActions = {"npm_install"}
  NoAction = NoAction
  SandboxLimit = 3
PROPERTIES
  StuckRunsAreReaped
