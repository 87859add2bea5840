SPECIFICATION IngestFairSpec
CONSTANTS
  Task = {t1}
  Starters = {c1}
  Pollers = {c1}
  NoTask = NoTask
  NoClient = NoClient
  NoFile = NoFile
  NFiles = 2
  MaxReloads = 1
  MaxResets = 1
  Recovers = TRUE
  MayDie = TRUE
  MayStall = TRUE
  MayFail = TRUE
PROPERTY Resolves
