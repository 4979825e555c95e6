SPECIFICATION Spec
CONSTANTS
  MaxIds = 4
  MaxInbox = 3
  MaxLost = 1
  Faults <- NoFaults
PROPERTIES ClearOnlyCommitted SyncRunsThrough
