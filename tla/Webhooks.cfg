SPECIFICATION FairWebhooksSpec
CONSTANTS
  e1 = e1
  v1 = v1
  v2 = v2
  d1 = d1
  d2 = d2
  Nothing = Nothing
  Endpoints = {e1}
  Events = {v1, v2}
  Deliverers = {d1, d2}
  MaxAttempts = 2
  DeadLimit = 2
  Limit = 1
  MaxCrashes = 1
INVARIANTS
  StatusesAreTruthful
PROPERTIES
  PromiseKept
  NothingIsLost
CHECK_DEADLOCK FALSE
