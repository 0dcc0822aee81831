SPECIFICATION FairWebhooksSpec
CONSTANTS
  e1 = e1
  v1 = v1
  Nothing = Nothing
  Endpoints = {e1}
  Events = {v1}
  Deliverers = {}
  MaxAttempts = 2
  DeadLimit = 1
  Limit = 1
  MaxCrashes = 0
PROPERTIES
  NothingIsLost
CHECK_DEADLOCK FALSE
