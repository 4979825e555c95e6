SPECIFICATION Spec
CONSTANTS
  w = w
  s = s
  Engines <- BothEngines
  Wardrive = w
  Skyspy = s
  N = 2
  Offline = FALSE
  MaxCommands = 2
  MaxConnects = 1
  MaxLoss = 1
  MaxRestarts = 0
  Faults <- NoFaults
PROPERTY FleetObeys
