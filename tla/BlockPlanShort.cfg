\* The instance of BlockPlan.cfg, in which every length of the last piece occurs.
SPECIFICATION Spec
CONSTANTS
  BlockSize = 2
  NumsOfBlocks = {5}
  HardBlocks = 5
  QueueSize = 2
  MaxPieces = 2
  MaxAttempts = 2
INVARIANT WholePieceIsWritten
