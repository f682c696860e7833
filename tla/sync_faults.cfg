\* Runs that may drop and runs that may not, failures and a change by hand; a
\* release may come early.
SPECIFICATION FairSpec
CONSTANTS
  user = user  tag = tag  note = note  log = log
  v1 = v1  v2 = v2  Absent = Absent
  Type = {user, tag, note, log}
  Shape = {v1, v2}
  Desired <- MCDesired
  NFile = 2
  Since <- MCSince
  Effect <- MCEffect
  Needs <- MCNeeds
  Strategies = {"Never", "Explicit"}
  MaxFaults = 2
  MaxDrift = 1
INVARIANTS TypeOK NoOpMeansDone
PROPERTIES SyncIsFixpoint HistoryNotReplayed OwnedTypesKept EventuallySynced
