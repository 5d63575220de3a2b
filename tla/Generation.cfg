SPECIFICATION FairSpec
CONSTANTS
  s1 = s1
  s2 = s2
  campaign = campaign
  own = own
  Shots = {s1}
  Batch <- OneBatch
  Policies = {campaign, own}
  Scopes <- SharedAndOwn
  Limit <- Ample
  Estimate = 2
  Costs = {1}
  MaxAttempts = 2
  MaxTries = 2
  CallsFail = TRUE
  Slots = 2
  MaxCrashes = 0
INVARIANTS TypeOK SettledAtCost OneJobAtATime PaidOnce CountsNoReplay
PROPERTIES ShotsEnd
CHECK_DEADLOCK FALSE
