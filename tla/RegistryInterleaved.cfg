SPECIFICATION Spec
CONSTANTS
  Engines <- TwoEngines
  Events <- AllEvents
  DenyMasks <- OneMask
  Serialised = FALSE
INVARIANTS
  TypeOK
  PausedOnlyWhilePending
  RequestMeetsNoCapture

  
