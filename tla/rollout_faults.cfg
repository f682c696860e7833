\* Three rollouts, one of an override only, applied as the tool selects them, again
\* after any failure.
SPECIFICATION RSpec
CONSTANTS
  rebuild = rebuild  shift = shift  tidy = tidy
  File = {rebuild, shift, tidy}
  CopyKind <- KindOf
  Rows <- RowsOf
  Selects <- RowsOf
  NSwap <- SwapsOf
  DropAt <- DropOf
  Loud <- AllLoud
  MaxFaults = 3
  Dir <- ThreeReleases
  Place <- ByName
  Sum <- SchemaSums
\* The system stops when no rollout is left to write or to apply.
CHECK_DEADLOCK FALSE
INVARIANTS AppliedSumIsDone
