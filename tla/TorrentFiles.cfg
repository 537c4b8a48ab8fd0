\* Blocks of two bytes, pieces of two blocks, and an int of four bits: every
\* torrent of up to three files of four bytes, where a piece can run over two
\* ends of files and a file can be empty, and files of up to twenty bytes,
\* where the offsets of the third and the fifth piece do not fit.
SPECIFICATION FairSpec
CONSTANTS
  BlockSize = 2
  HardBlocks = 2
  IntLimit = 8
  OldSizes = {0, 1, 6}
  Depth = 5
  KeyOrder <- MCKeyOrder
  Sources <- MCSources
INVARIANTS TypesOK DecodesAsWritten InfoHashKept TorrentAsWritten
INVARIANTS NothingMisplaced PiecesStored BlockSent
PROPERTY LoopsEnd
