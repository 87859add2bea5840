SPECIFICATION GradingSpec
CONSTANTS
  a = a
  b = b
  t1 = t1
  t2 = t2
  Case = {a, b}
  Seeds = {a}
  Order <- MCOrder
  TopK = {5, 9}
  DefaultK = 5
  Sources <- MCSources
  Retrieved <- MCRetrieved
  World = {"steady", "shifts"}
  Says <- MCSays
  Text = {t1, t2}
  NoText = NoText
  Garbage = Garbage
  Bare = Bare
  NoScore = NoScore
  Eval = {e1, e2}
  Options <- MCOptions
  NoLimit = NoLimit
  Weights <- MCWeights
  Samples = 1
  Times = {0, 2}
  MaxVersion = 1
  MaxRuns = 2
  MaxFaults = 1
SYMMETRY Symmetry
INVARIANT VerdictsGenuine
INVARIANT BudgetHolds
INVARIANT DriftGenuine
CHECK_DEADLOCK FALSE
