CONSTANTS
  t1 = t1
  t2 = t2
  Tries = {t1, t2}
  StartStages = {"STRATEGY_REVIEW", "VISUAL_QA", "VARIANT_QA", "READY_FOR_DISTRIBUTION"}
  Learnable <- AroundTheGate
  Rivals <- Exclusive
  MaxTries = 2
  MaxAsks = 3
  MaxRuns = 1
SPECIFICATION FairSpec
INVARIANTS TypeOK AppliedRowsAreMoves
PROPERTIES ImplementsStageMachine GoesOnOnlyWhenMoved AskEnds
CHECK_DEADLOCK FALSE
