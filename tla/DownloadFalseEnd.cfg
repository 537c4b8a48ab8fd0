\* Two threads, of which one pops the empty deque.
SPECIFICATION Spec
CONSTANTS
  Workers = {w1, w2}
  NumPieces = 2
  NumBlocks = 1
  QueueSize = 1
  MaxPeers = 2
  Faults = {"garbled"}
  MaxFaults = 1
  MaxDeficit = 1
INVARIANT EmptyAndFullIsComplete
