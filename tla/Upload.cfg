\* One upload beside one downloading thread with two pieces of one block: either
\* piece can be counted, marked, written or read on either side of each step of
\* the upload.
SPECIFICATION UploadSpec
CONSTANTS
  Workers = {w1}
  NumPieces = 2
  NumBlocks = 1
  QueueSize = 1
  MaxPeers = 1
  Faults = {}
  MaxFaults = 0
  MaxDeficit = 0
  Talks <- MCTalks
INVARIANTS PeerLearnsAll BitfieldReadAsMeant BlockServed
PROPERTY UploadEnds
