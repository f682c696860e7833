\* Two releases of one schema; the second adds an override.
SPECIFICATION RSpec
CONSTANTS
  rebuild = rebuild  shift = shift  tidy = tidy
  File = {rebuild, shift, tidy}
  CopyKind <- KindOf
  Rows <- RowsOf
  Selects <- RowsOf
  NSwap <- SwapsOf
  DropAt <- DropOf
  Loud <- AllLoud
  MaxFaults = 0
  Dir <- TwoReleases
  Place <- ByName
  Sum <- OneSum
\* The system stops when no rollout is left to write or to apply.
CHECK_DEADLOCK FALSE
INVARIANTS PassedOverIsRecorded
