\* An edit is taken back after a run that failed.
SPECIFICATION Spec
CONSTANTS
  name = name
  int = int
  str = str
  notnull = notnull
  low = low
  high = high
  one = one
  two = two
  now = now
  uuid = uuid
  ix = ix
  ts1 = ts1
  ts2 = ts2
  shownOne = shownOne
  shownTwo = shownTwo
  shownNow = shownNow
  shownUuid = shownUuid
  none = none
  None = none
  NType = 3
  Prop = {name}
  DataType = {int, str}
  Flag = {notnull}
  Limit = {low, high}
  Literal = {one, two}
  Call = {now, uuid}
  Index = {ix}
  TsSpec = {ts1, ts2}
  Shown <- Texts
  Sources <- Five
  Owned = {}
  Strategy = "Never"
  MaxEdits = 2
  MaxDrift = 0
  MaxFaults = 1
CHECK_DEADLOCK FALSE
INVARIANTS CallsApplied
