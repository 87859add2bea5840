SPECIFICATION Spec
CONSTANTS
  Client = {c1, c2}
  NoClient = NoClient
  Steps = {6, 8}
  UserValues = {v1, v2}
  Default = Default
  AgentValue = AgentValue
  Missing = Missing
  Torn = Torn
  MaxReloads = 1
  MaxAgents = 2
  MaxKills = 1
  Overlap = FALSE
  AgentCreates = FALSE
SYMMETRY Symmetry
INVARIANT TypeOK
INVARIANT SettingsKept
INVARIANT StepsKept
INVARIANT StepsBacked
