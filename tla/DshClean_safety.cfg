CONSTANTS
  p1 = p1
  p2 = p2
  a = a
  b = b
  one = one
  None = None
  Procs = {p1, p2}
  Plans = {a, b}
  ExternalCli = TRUE
  MaxRuns = 2
  MaxFaults = 2
  ClNone = None
  ClClients = {p1, p2}
  ClPlans = {a, b}
  ClMaxFaults = 2
  OcNone = None
  OcPlans = {a, b}
  OcMaxRevision = 3
  OcMaxFaults = 3
  CanTasks = {one}
  CanMaxTurns = 1
  CanMaxFaults = 0
  OeTasks = {a, b}
  OeMaxTurns = 2
  OeBatch = 1
  OeHotTail = 1
  OeClients = {one}
  OeMaxFaults = 1
  Hosts = {"dsh", "claude", "openclaw", "eviction"}
SPECIFICATION HostSpec
SYMMETRY Symmetric
INVARIANTS
  ClaimIsHeld RewrittenOnce AppliedIsComplete PointerNeverOverstates ScheduledHasPointer
  ClaudeJournalFollowsReceipts ClaudeOneStory
  OpenClawReceiptsTell OpenClawIntentIsPointed
  LeftIsArchived EvictsTurnsOfTheTask
PROPERTY HostsExecute
