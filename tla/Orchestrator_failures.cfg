SPECIFICATION FairSpec
CONSTANTS
  MaxEvals = 4
  MaxRuns = 2
  MaxKills = 1
  MaxVersions = 2
  MaxCases = 2
  SeedCases = 0
  Scores = {90}
  Costs = {1}
  IterationArgs = {0, 2}
  BudgetFlag = 1
  UsdPerRun = 0
  MaxIterations = 50
  AnchorThreshold = 30
  Window = 2
  Threshold = 5
  MayFail = TRUE
  NoLimit = NoLimit
  NoReport = NoReport
  Torn = Torn
  NoReason = NoReason
PROPERTY Terminates
CHECK_DEADLOCK FALSE
