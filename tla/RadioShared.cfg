SPECIFICATION Spec
CONSTANTS
  Engines = {"DETECTOR", "FLOCK_BLE", "FLOCK_WIFI", "FOXHUNTER", "SKYSPY", "WARDRIVE", "PCAP"}
  MeshOn = TRUE
  Changes = {"DETECTOR", "FLOCK_BLE", "FLOCK_WIFI", "SKYSPY", "WARDRIVE", "PCAP"}
  WardriveMasks <- WithOrWithoutBle
  MaxConfigured = 1
  Remode = FALSE
  Serialised = TRUE
INVARIANT RadiosFollowEngines
PROPERTY ScanComesBack
