\* Two threads, and a peer that lacks a piece.
SPECIFICATION FairSpec
CONSTANTS
  Workers = {w1, w2}
  NumPieces = 2
  NumBlocks = 1
  QueueSize = 1
  MaxPeers = 2
  Faults = {"lacks"}
  MaxFaults = 1
  MaxDeficit = 0
PROPERTY HaveReachesEveryPeer
