CONSTANTS
  t1 = t1
  t2 = t2
  NStages = 2
  NDirectives = 1
  Operations = {"RETIME"}
  Terminals = {t1, t2}
  MaxCommands = 6
  MaxEdits = 1
SYMMETRY TerminalSymmetry
SPECIFICATION Spec
INVARIANTS SelectedWasWatched OneChangePerStage PremiumIsEarned
CONSTRAINT Intact
CHECK_DEADLOCK FALSE
