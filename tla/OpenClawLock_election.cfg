SPECIFICATION FileSpec
CONSTANTS
  Procs = {1, 2, 3}
  MaxTicket = 3
  MaxCrashes = 2
  p1 = p1
  p2 = p2
  s1 = s1
  d1 = d1
  proxy = proxy
  ArProcs = {p1, p2}
  ArSessions = {s1, proxy}
  ArProxy = proxy
  ArDirs = {s1, d1, proxy}
  ArSafe <- Directory
  ArAside = Aside
  ArItems <- Texts
  ArMaxFaults = 1
  ArNone = None
  ArEmpty = Empty
  ArGarbled = Garbled
SYMMETRY Symmetric
INVARIANTS OwnerExclusive OmittedIsRecovered
