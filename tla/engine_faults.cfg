\* Two INSERTs (one with a WHERE), a MOVE and a file without copy; any three
\* faults and any number of retries.
SPECIFICATION FairSpec
CONSTANTS
  rebuild = rebuild  trim = trim  retag = retag  tidy = tidy
  File = {rebuild, trim, retag, tidy}
  CopyKind <- KindOf
  Rows <- RowsOf
  Selects <- SelectsOf
  NSwap <- SwapsOf
  DropAt <- DropOf
  Loud <- TidySilent
  MaxFaults = 3
INVARIANTS TypeOK NoRowLost NoRowTwice RecordedMeansDone
PROPERTIES MarkedSwapNotRepeated ContractSpec Resumes
