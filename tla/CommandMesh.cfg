SPECIFICATION Spec
CONSTANTS
  n1 = n1
  n2 = n2
  gatt = gatt
  heartbeat = heartbeat
  Nodes <- TwoNodes
  Callers <- OneCaller
  Slots = 2
  Retries = 1
  AckRing = 8
  CmdRing = 32
  DeafAt = 1
  MaxCmds = 3
  Burst = 1
  Switches <- OneThree
  MaxLoss = 1
  Faults <- UsualFaults
CHECK_DEADLOCK FALSE
INVARIANTS TakenOnce SwitchesInOrder
PROPERTY RetriesSuffice
