\* No fault is needed.
SPECIFICATION Spec
CONSTANTS
  Workers = {w1}
  NumPieces = 2
  NumBlocks = 1
  QueueSize = 1
  MaxPeers = 1
  Faults = {}
  MaxFaults = 0
  MaxDeficit = 0
PROPERTY LeftIsUpdated
