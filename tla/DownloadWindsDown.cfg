\* Two threads around the only piece: one waits, pops an empty deque or
\* leaves while the other has it.
SPECIFICATION FairSpec
CONSTANTS
  Workers = {w1, w2}
  NumPieces = 1
  NumBlocks = 1
  QueueSize = 1
  MaxPeers = 1
  Faults = {"choke", "garbled"}
  MaxFaults = 1
  MaxDeficit = 1
INVARIANT BitfieldFollowsCount
PROPERTIES WindsDown FarewellTellsAll
