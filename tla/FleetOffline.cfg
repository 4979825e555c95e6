SPECIFICATION Spec
CONSTANTS
  w = w
  s = s
  Engines <- BothEngines
  Wardrive = w
  Skyspy = s
  N = 1
  Offline = TRUE
  MaxCommands = 1
  MaxConnects = 2
  MaxLoss = 2
  MaxRestarts = 1
  Faults <- AllFaults
PROPERTIES PhoneOwnsNode OfflineKeepsTargets FleetFollows
