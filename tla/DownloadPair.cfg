\* Two threads, two pieces of one block: each way a session can end while
\* the other thread is anywhere, REQUESTs on the shared stream included.
SPECIFICATION Spec
CONSTANTS
  Workers = {w1, w2}
  NumPieces = 2
  NumBlocks = 1
  QueueSize = 1
  MaxPeers = 1
  Faults = {"send", "garbled", "choke", "lacks", "request"}
  MaxFaults = 1
  MaxDeficit = 0
SYMMETRY ThreadSymmetry
INVARIANTS NoPieceLost NoPieceTwice Accounts CompleteMeansAll StoredUnlessDisturbed
PROPERTY KeepsLedger
