CONSTANTS
  NumDurations = 1
  MaxVisits = 2
  MaxAttempts = 1
  MaxTries = 1
  MaxStrays = 0
  SlowOps = {}
  JobEndings = {"SUCCEEDED"}
SPECIFICATION Spec
INVARIANTS RepairedGoesOn
CHECK_DEADLOCK FALSE
