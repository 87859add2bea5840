SPECIFICATION Spec
CONSTANTS
  Reasons = {convergence, budget}
  Budget = budget
  Manual = Manual
  NoReason = NoReason
  Missing = Missing
  Torn = Torn
  MayDie = TRUE
  ClockTicks = TRUE
  MaxEvals = 2
  MaxReloads = 1
  MaxVisits = 2
CHECK_DEADLOCK FALSE
INVARIANT TypeOK
INVARIANT UpToDate
PROPERTY StopNoticed
