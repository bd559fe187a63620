CONSTANTS
  p1 = p1
  p2 = p2
  a = a
  b = b
  r1 = r1
  r2 = r2
  None = None
  Procs = {p1, p2}
  Plans = {a}
  Requests = {r1}
  HasSnapshotItems = TRUE
  MaxFaults = 1
SPECIFICATION FairSpec
PROPERTY ExecutionIsRecorded
