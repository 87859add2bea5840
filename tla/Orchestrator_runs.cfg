SPECIFICATION Spec
CONSTANTS
  MaxEvals = 4
  MaxRuns = 2
  MaxKills = 0
  MaxVersions = 2
  MaxCases = 2
  SeedCases = 1
  Scores = {50, 70, 90}
  Costs = {1}
  IterationArgs = {3}
  BudgetFlag = NoLimit
  UsdPerRun = 4
  MaxIterations = 50
  AnchorThreshold = 30
  Window = 2
  Threshold = 5
  MayFail = FALSE
  NoLimit = NoLimit
  NoReport = NoReport
  Torn = Torn
  NoReason = NoReason
INVARIANT TypeOK
INVARIANT BudgetHalts
INVARIANT AnchorHalts
INVARIANT FinalReport
INVARIANT ConvergenceGenuine
INVARIANT ReportsHermetic
CHECK_DEADLOCK FALSE
