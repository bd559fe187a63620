CONSTANTS
  p1 = p1
  p2 = p2
  p3 = p3
  a = a
  b = b
  None = None
  Procs = {p1, p2, p3}
  Plans = {a}
  ExternalCli = FALSE
  MaxRuns = 1
  MaxFaults = 0
SPECIFICATION Spec
INVARIANTS CancelledIsNotExecuted
