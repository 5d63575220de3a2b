CONSTANTS
  concept = concept
  vision = vision
  Invocations = {concept, vision}
  Implemented = {concept}
  Policies = {1, 2}
  Scopes <- ScopesOfTwo
  Limit <- RoomForOne
  Estimate = 2
  Costs = {1, 3}
  MaxTries <- TriesOfTwo
  MaxTransactions = 2
SPECIFICATION Spec
INVARIANTS WithinCaps AllOrNothing SettledBeforeRecorded
CHECK_DEADLOCK FALSE
