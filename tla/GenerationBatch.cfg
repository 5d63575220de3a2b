SPECIFICATION Spec
CONSTANTS
  s1 = s1
  s2 = s2
  campaign = campaign
  own = own
  Shots = {s1, s2}
  Batch <- OneBatch
  Policies = {campaign, own}
  Scopes <- SharedAndOwn
  Limit <- OneJob
  Estimate = 2
  Costs = {1, 2}
  MaxAttempts = 2
  MaxTries = 2
  CallsFail = FALSE
  Slots = 1
  MaxCrashes = 1
INVARIANTS ClosedWhenDone WithinCaps
CHECK_DEADLOCK FALSE
