\* A filtered MOVE VERTEX, run again after its verification failed; nothing else fails.
SPECIFICATION FairSpec
CONSTANTS
  rebuild = rebuild  trim = trim  retag = retag  tidy = tidy
  File = {retag}
  CopyKind <- KindOf
  Rows <- RowsOf
  Selects <- SelectsLessMoved
  NSwap <- SwapsOf
  DropAt <- DropOf
  Loud <- AllLoud
  MaxFaults = 0
INVARIANTS NoRowLost
\* Nothing is left to do when the override is recorded.
CHECK_DEADLOCK FALSE
