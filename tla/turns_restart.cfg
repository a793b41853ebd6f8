CONSTANTS
  c1 = c1
  c2 = c2
  p1 = p1
  p2 = p2
  Commands = {c1, c2}
  Notes = {}
  Posts = {p1, p2}
  Tools = {"plain", "takeover"}
  Outcomes = {"completed", "failed", "unknown"}
  Faults = {"overlap"}
  MaxInbox = 2
  MaxRuns = 3
  MaxStops = 0
  MaxCrashes = 2
SPECIFICATION Spec
SYMMETRY Sym
INVARIANTS RunningHasDriver OneLiveTurn
CHECK_DEADLOCK FALSE
