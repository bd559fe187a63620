CONSTANTS
  p1 = p1
  p2 = p2
  a = a
  b = b
  one = one
  None = None
  Procs = {p1, p2}
  Plans = {a}
  ExternalCli = TRUE
  MaxRuns = 2
  MaxFaults = 1
  ClNone = None
  ClClients = {p1, p2}
  ClPlans = {a}
  ClMaxFaults = 2
  OcNone = None
  OcPlans = {a, b}
  OcMaxRevision = 2
  OcMaxFaults = 2
  CanTasks = {a}
  CanMaxTurns = 3
  CanMaxFaults = 1
  OeTasks = {a}
  OeMaxTurns = 2
  OeBatch = 1
  OeHotTail = 0
  OeClients = {p1, p2}
  OeMaxFaults = 1
  Hosts = {"dsh", "claude", "openclaw", "canonical", "estimator"}
SPECIFICATION HostFairSpec
PROPERTIES ClaimsAreResolved ClaudeSchedulesEnd OpenClawPointersEnd FinishedTurnsLeave BatchesAreEstimated
