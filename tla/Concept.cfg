SPECIFICATION Spec
CONSTANTS
  u1 = u1
  u2 = u2
  r1 = r1
  r2 = r2
  l1 = l1
  Late = {l1}
  LateFrom = {"STRATEGY_REVIEW","CONCEPT_REVIEW"}
  MaxTries = 2
  Users = {u1, u2}
  Requests = {r1, r2}
  UserOf <- TwoReviewers
  Decisions = {"APPROVED", "REJECTED"}
  MaxRevisionsPerGate = 2
  MaxVariantRepairs = 1
  MaxAttempts = 1
  FindingSets = {}
  Outcomes = {"ok", "fail"}
  Verdicts = {"PASS"}
  Elsewhere = {}
  Horizon <- ConceptStages
  DecideAt <- AtConcept
  MaxApprovals = 2
  MaxSignals = 1
  MaxRuns = 2
  MaxSets = 0
  MaxEdits = 0
INVARIANTS TypeOK RevisionsBounded WaitsAtItsGate
PROPERTIES OnlyDecisionsCross KeepsGateProtocol
SYMMETRY Reviewers
CHECK_DEADLOCK FALSE
