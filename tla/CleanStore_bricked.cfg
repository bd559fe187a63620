SPECIFICATION Spec
CONSTANTS
  p1 = p1
  p2 = p2
  a = a
  b = b
  Procs = {p1, p2}
  Tasks = {a, b}
  Requests <- MCRequests
  Times = {1, 2}
  TwoPhase = TRUE
SYMMETRY MCSymmetry
INVARIANT PendingIntentNeverBricks
