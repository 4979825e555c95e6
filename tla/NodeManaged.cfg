SPECIFICATION ManagedSpec
CONSTANTS
  k1 = k1
  k2 = k2
  k3 = k3
  k4 = k4
  Keys <- ThreeKeys
  Cap = 2
  HitLimit = 2
  MaxEvents = 6
  Faults <- CrashOnly
  Nodes = {n1}
  IgnoreLists <- ShortIgnored
  WatchLists <- AnyWatched
  WireMax = 2
  OneSync = TRUE
  LocalEdits <- AtNodes
  MaxEdits = 2
  MaxConnects = 2
  MaxLocal = 1
  MaxRestarts = 1
  Nets <- TwoNets
  MeshRuns = TRUE
  Impatient = FALSE
  MaxWrites = 4
  MaxScans = 2
  MaxJoins = 2
  MaxDrops = 1
  MaxReports = 2
  Own <- OwnImages
  Fleet <- NodeImages
  Size = 2
  MaxAsks = 3
  MaxCrashes = 1
  TornWrites = FALSE
CHECK_DEADLOCK FALSE
INVARIANTS  CleanMeansSaved
INVARIANTS ManagerListTrue StationTrue SlotsSound
PROPERTIES KeepsLatest  WantedComesUp OkMeansRuns ComesBack
