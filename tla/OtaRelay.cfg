SPECIFICATION Spec
CONSTANTS
  n1 = n1
  n2 = n2
  Nodes <- OneNode
  Chunks = 3
  BeginCopies = 1
  Rounds = 2
  RxDepth = 2
  Table = 1
  MaxRelays = 2
  MaxLoss = 2
  Faults <- EveryFault
CHECK_DEADLOCK FALSE
INVARIANT CountMeansWritten
PROPERTY ResendCoversMissing
