CONSTANTS
  NumDurations = 1
  MaxVisits = 2
  MaxAttempts = 2
  MaxTries = 2
  MaxStrays = 1
  SlowOps = {"CUT", "POLL", "QA"}
  JobEndings = {"SUCCEEDED", "FAILED"}
SPECIFICATION Spec
INVARIANTS ReadyIsEarned
PROPERTIES FrozenStays
CHECK_DEADLOCK FALSE
