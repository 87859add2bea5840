SPECIFICATION Spec
CONSTANTS
  Key = {k}
  Value = {Off, v}
  Off = Off
  Absent = Absent
  Torn = Torn
  MaxScore = 1
  NoReport = NoReport
  MaxSweeps = 2
  MaxTrials = 2
  MaxForeign = 1
  MaxKills = 1
  MaxCuts = 1
INVARIANT ConfigRestored
PROPERTY AdoptedIsBetter
CHECK_DEADLOCK FALSE
