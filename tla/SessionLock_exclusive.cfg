SPECIFICATION FileSpec
CONSTANTS
  p1 = p1
  p2 = p2
  p3 = p3
  c1 = c1
  c2 = c2
  a = a
  b = b
  Procs = {p1, p2, p3}
  JlProcs = {p1, p2, p3}
  JlNobody = JlNobody
  JlLeft = JlLeft
  JlDead = JlDead
  JrClients = {c1, c2}
  JrTexts = {a, b}
  JrNone = None
  JrMaxSent = 3
  JrMaxAnswers = 3
  JrMaxFaults = 1
SYMMETRY Symmetric
INVARIANTS OnlyMissingVerdictsRace JournalLockExclusive HistoryIsWhatWasSent JournaledTurnsAreFound
