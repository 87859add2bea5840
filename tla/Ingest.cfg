SPECIFICATION IngestSpec
CONSTANTS
  Task = {t1, t2}
  Starters = {c1}
  Pollers = {c1}
  NoTask = NoTask
  NoClient = NoClient
  NoFile = NoFile
  NFiles = 2
  MaxReloads = 0
  MaxResets = 0
  Recovers = FALSE
  MayDie = TRUE
  MayStall = FALSE
  MayFail = FALSE
SYMMETRY Symmetry
INVARIANT IngestTypeOK
INVARIANT OneWriter
PROPERTY StatusMonotone
INVARIANT ExitMeansTerminal
INVARIANT SuccessMeansStored
