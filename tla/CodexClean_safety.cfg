CONSTANTS
  p1 = p1
  p2 = p2
  a = a
  b = b
  r1 = r1
  r2 = r2
  None = None
  Procs = {p1, p2}
  Plans = {a, b}
  Requests = {r1, r2}
  HasSnapshotItems = TRUE
  MaxFaults = 2
SPECIFICATION Spec
SYMMETRY Symmetric
INVARIANTS InFlightOwnsEpoch OneCommitPerPlan AppliedHasEvidence ScheduleFollowsReceipts
