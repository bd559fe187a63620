CONSTANTS
  p1 = p1
  p2 = p2
  a = a
  b = b
  m1 = m1
  m2 = m2
  f1 = f1
  f2 = f2
  l1 = l1
  s = s
  u = u
  None = None
  Procs = {p1, p2}
  Tasks = {a, b}
  MaxTurn = 7
  Past = 5
  PastPath <- TwoBranches
  PastCalls = {1, 2}
  BatchTurns = 1
  SemNone = None
  SemClients = {p1, p2}
  SemMessages = {m1, m2}
  SemMaxTurn = 3
  SemBatch = 1
  SemMaxUnread = 1
  PlanClients = {p1, p2}
  PlanForms = {f1, f2}
  PlanHeuristic = {f1}
  PlanLifecycle = {l1}
  PlanOperations <- OneOperation
  PlanStrings = {s}
  PlanNone = None
  PlanBad = Bad
  PlanMaxRequests = 4
  PlanMaxCorrupt = 1
  CanTasks = {a, b}
  CanMaxTurns = 3
  CanMaxFaults = 1
  MqClients = {p1, p2}
  MqEntries = {a, b}
  MqOfSession <- EachItsSession
  MqBatch = 2
  MqMaxFaults = 1
SPECIFICATION HostSpec
SYMMETRY Symmetric
CHECK_DEADLOCK FALSE
INVARIANTS TurnsAnalysedOnce SemanticRegistryTells PlanHasOneStatus StubsAreRecoverable EvictsFinishedTurns EvictionsStay MemoryQueueTells
PROPERTIES RemovedIsFinished
