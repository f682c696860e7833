\* Lock: one claim per Migrator, clocks up to a tick apart, leases that may run out.
\* Registry: any changes of the directory except to interrupted files; runs that fail.
\* Files: every file of up to four statements out of twelve.
\* Diff: five sources, with edits, a change by hand and a failed run.
SPECIFICATION PartsSpec
CONSTANTS
  r1 = r1  r2 = r2  r3 = r3
  Runner = {r1, r2, r3}
  Holder = {r1, r2, r3}
  HolderOf <- OwnMigrator
  NoHolder = NoHolder
  Lease = 2
  Ahead <- OneAhead
  MaxAhead = 1
  MaxClaims = 1
  rebuild = rebuild  purge = purge  mixed = mixed
  NName = 3
  Content = {rebuild, purge, mixed}
  NoFile = NoFile
  Statements <- StatementsOf
  Interleaved = {mixed}
  Careful = TRUE
  MaxDirEdits = 4
  MaxRunFaults = 2
  item = item  note = note  fresh = fresh
  Type = {item, note, fresh}
  Base <- BaseRows
  Missing = Missing
  Statement <- Mixture
  MaxLen = 4
  name = name
  int = int  str = str
  notnull = notnull
  low = low  high = high
  one = one  two = two
  now = now  uuid = uuid
  ix = ix
  ts1 = ts1  ts2 = ts2
  shownOne = shownOne  shownTwo = shownTwo  shownNow = shownNow  shownUuid = shownUuid
  none = none
  None = none
  NType = 3
  Prop = {name}
  DataType = {int, str}
  Flag = {notnull}
  Limit = {low, high}
  Literal = {one, two}
  Call = {now, uuid}
  Index = {ix}
  TsSpec = {ts1, ts2}
  Shown <- Texts
  Sources <- Five
  Owned = {}
  Strategy = "Explicit"
  MaxEdits = 2
  MaxDrift = 1
  MaxFaults = 1
INVARIANTS AtMostOneLiveRun OnceEach RecordedMeansExecuted OrderKept LeftBehindIsOwned Settles SourceWins
PROPERTIES FreshClaimKept CrashedLockTakenOver AcceptedIsApplied
