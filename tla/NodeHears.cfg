SPECIFICATION HearSpec
CONSTANTS
  Capacity = 2
  MaxFrames = 6
  MaxStarts = 2
  MaxDrops = 1
  Faults <- NoMemory
  u1 = u1
  u2 = u2
  m1 = m1
  m2 = m2
  m3 = m3
  Uavs <- TwoUavs
  BleFrom <- Changing
  WifiFrom <- Fixed
  BleSends <- AnyParts
  Interleaved = FALSE
  MaxUavs = 2
  RediscoverAfter = 2
  Expiry = 1
  MaxClock = 4
  MaxRuns = 2
  MaxTaken = 0
  cam = cam
  tag = tag
  Scenes <- TwoScenes
  FlockMacs <- OneMac
  Watched <- Nobody
  AxonMacs <- Nobody
  Fleet <- Nobody
  Target = NoMac
  Active <- ThreeEngines
  SigMask <- Signs
  IgnoreLists <- TwoLists
  RingSize = 4
  Rediscover = 2
  NotifyCooldown = 2
  ChimeGap = 2
  StormCooldown = 2
  StormFrames = 2
  TagSlots = 1
  TagHits = 2
  TagPersist = 1
  TagStale = 1
  QueueDepth = 4
  IsrReserve = 1
  Boot = 3
  MaxTime = 7
  MaxWrites = 2
CHECK_DEADLOCK FALSE
INVARIANTS BuffersOwned 
INVARIANTS  HeardIsReported
INVARIANTS KeptInView OncePerCooldown 
PROPERTY CaptureDrains
