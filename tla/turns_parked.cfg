CONSTANTS
  c1 = c1
  c2 = c2
  p1 = p1
  Commands = {c1, c2}
  Notes = {}
  Posts = {p1}
  Tools = {"options", "ask", "consent"}
  Outcomes = {"completed"}
  Faults = {"overlap"}
  MaxInbox = 2
  MaxRuns = 3
  MaxStops = 0
  MaxCrashes = 1
SPECIFICATION Spec
SYMMETRY Sym
INVARIANTS HandedOnce 
PROPERTIES InboxGoesToLiveTurn NoLateCompletion
CHECK_DEADLOCK FALSE
