\* A run that fails behind the snapshot, and the run after it.
SPECIFICATION Spec
CONSTANTS
  user = user  tag = tag  note = note  log = log
  v1 = v1  v2 = v2  Absent = Absent
  Type = {user, note}
  Shape = {v1, v2}
  Desired <- Retyped
  NFile = 0
  Since <- NoFiles
  Effect <- NoFiles
  Needs <- NoFiles
  Strategies = {"Never"}
  MaxFaults = 1
  MaxDrift = 0
CHECK_DEADLOCK FALSE
PROPERTIES DriftReported
