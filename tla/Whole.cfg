SPECIFICATION FairSpec
CONSTANTS
  u1 = u1
  u2 = u2
  r1 = r1
  r2 = r2
  l1 = l1
  Late = {l1}
  LateFrom = {"HUMAN_SHOT_SELECTION","FINAL_APPROVAL"}
  MaxTries = 2
  Users = {u1, u2}
  Requests = {r1}
  UserOf <- OneReviewer
  Decisions = {"APPROVED", "REJECTED"}
  MaxRevisionsPerGate = 1
  MaxVariantRepairs = 1
  MaxAttempts = 2
  FindingSets <- AudioOrPicture
  Outcomes = {"ok", "fail"}
  Verdicts = {"PASS", "FAIL"}
  Elsewhere = {}
  Horizon <- Stages
  DecideAt <- AroundGates
  MaxApprovals = 3
  MaxSignals = 1
  MaxRuns = 1
  MaxSets = 1
  MaxEdits = 1
INVARIANTS StagesBuildOnArtefacts RevisionsBounded
PROPERTIES KeepsGateProtocol DecisionTakenUp RunSettles
CHECK_DEADLOCK FALSE
