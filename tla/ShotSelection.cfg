CONSTANTS
  r1 = r1
  r2 = r2
  Reviewers = {r1, r2}
  Positions = {1}
  MaxCandidates = 2
  Generations <- TwiceAndOnce
  MaxScripts = 2
  MaxSets = 2
  MaxRevisions = 2
SPECIFICATION Spec
SYMMETRY ReviewersAreAlike
INVARIANTS FrozenAsSeen OneEditPerRevision OnlyPassedAreNamed CrossesAsFrozen
CHECK_DEADLOCK FALSE
