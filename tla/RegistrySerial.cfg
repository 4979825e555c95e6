SPECIFICATION FairSpec
CONSTANTS
  Engines <- ScanEngines
  Events <- AppCommands
  DenyMasks <- HopperMasks
  Serialised = TRUE
INVARIANTS
  CaptureOwnsRadio
  
PROPERTY
  CaptureGivesBack
