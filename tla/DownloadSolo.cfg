\* One thread, three pieces of two blocks in two batches, every fault that
\* neither touches the file stream nor lasts: what a session does with its
\* piece on each of its ways out, over as many sessions as it takes.
SPECIFICATION FairSpec
CONSTANTS
  Workers = {w1}
  NumPieces = 3
  NumBlocks = 2
  QueueSize = 1
  MaxPeers = 1
  Faults = {"connect", "hangup", "send", "garbled", "late", "slow", "choke", "stray", "pause", "notracker"}
  MaxFaults = 2
  MaxDeficit = 1
INVARIANTS TypeOK CountedStored
PROPERTY Completes
