\* A run that may drop, after one of the same release that may not.
SPECIFICATION Spec
CONSTANTS
  user = user  tag = tag  note = note  log = log
  v1 = v1  v2 = v2  Absent = Absent
  Type = {user, note}
  Shape = {v1, v2}
  Desired <- Dropped
  NFile = 0
  Since <- NoFiles
  Effect <- NoFiles
  Needs <- NoFiles
  Strategies = {"Never", "Explicit"}
  MaxFaults = 0
  MaxDrift = 0
CHECK_DEADLOCK FALSE
PROPERTIES ExplicitDropsLeftovers
