SPECIFICATION Spec
CONSTANTS
  Scenes = {1, 2}
  Manual = {2}
  SoundHands = {2}
  Drafts <- FirstEdited
  Intents = {"PRODUCTION_MASTER", "FULL_LENGTH_REVIEW_CANDIDATE"}
  Ceiling = 1
  MaxRuns = 3
  MaxClips = 2
  MaxDecisions = 3
CONSTRAINT Few
INVARIANTS RenderedAsApproved CutFitsItsScene ApprovedStays SpentAsPriced BoughtAgainOnlyWhenAsked
CHECK_DEADLOCK FALSE
