SPECIFICATION Spec
CONSTANTS
  MaxIds = 3
  MaxInbox = 2
  MaxLost = 0
  Faults <- MidImport
PROPERTIES
  ClearOnlyCommitted
