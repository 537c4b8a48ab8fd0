\* Blocks of two bytes, so that a short block exists; batches of two, so that
\* the last batch is smaller where the blocks are odd in number; six or seven
\* become five when another thread writes; every length up to two pieces.
SPECIFICATION Spec
CONSTANTS
  BlockSize = 2
  NumsOfBlocks = {3, 5, 6, 7}
  HardBlocks = 5
  QueueSize = 2
  MaxPieces = 2
  MaxAttempts = 2
INVARIANTS TypeOK CoversPiece WrittenIfFinishable SixteenBlocks
