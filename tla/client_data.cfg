\* Two clients, any one lost, late or repeated request; five record types, three
\* sets of statements, one cache key, a buffer of five
\* statements, two processes with three tasks and two slots, one trouble.
\* Two retrying transactions and a guard, any two faults.
SPECIFICATION ClientSpec
CONSTANTS
  Client = {c1, c2}
  Scenarios <- AllScenarios
  EncodePart <- EncodeNested
  DecodePart <- DecodeNested
  DefaultPart <- DefaultNested
  SamePart <- SameNested
  ShuffledPart <- ShuffledNested
  MaxWrites = 2
  MaxFaults = 1
  Half8 = 2  Half16 = 4  Half32 = 8  Half64 = 16
  Exact32 = 8
  Updater = {c1, c2}
  Menus <- Disjoint
  Start <- StartRow
  MaxStatements = 3
  MaxLosses = 1
  CacheClient = {c1, c2}
  Key = {k}
  NoTtl = NoTtl
  Ttls = {0, 1, NoTtl}
  Skew = 1
  MaxSeconds = 1
  MaxSets = 2
  Forever = 3
  Statements = 5
  FlushAt = 2
  MaxErrors = 2
  Runner = {a, b}
  Guard = {g}
  Retries = 2
  MaxTxFaults = 2
  p1 = p1  p2 = p2
  t1 = t1  t2 = t2  t3 = t3
  Process = {p1, p2}
  Task = {t1, t2, t3}
  TasksOf <- TwoAndOne
  NoSlot = NoSlot
  Size = 2
  MaxTroubles = 1
SYMMETRY Exchanged
INVARIANTS ReadersAgree ReportsWhatItWrites StatementMeansItsCalls AppendOnce AnswersAreTimely AllRunOrReported AtMostOnce NoEffectOnError EnoughRetries Exclusive CheckoutSucceeds FreshDatabases
PROPERTIES WritesMeanTheirTypes
