SPECIFICATION Spec
CONSTANTS
  n1 = n1
  n2 = n2
  Nodes <- TwoNodes
  Chunks = 2
  BeginCopies = 3
  Rounds = 3
  RxDepth = 8
  Table = 2
  MaxRelays = 1
  MaxLoss = 2
  Faults <- NoFaults
CHECK_DEADLOCK FALSE
PROPERTY FleetUpdated
 
