CONSTANTS
  c1 = c1
  n1 = n1
  p1 = p1
  Commands = {c1}
  Notes = {n1}
  Posts = {p1}
  Tools = {"ask", "consent"}
  Outcomes = {"completed", "unknown"}
  Faults = {"agent", "midtool", "overlap", "shutdown"}
  MaxInbox = 1
  MaxRuns = 2
  MaxStops = 1
  MaxCrashes = 1
SPECIFICATION Spec
INVARIANTS  BotStatusAgrees 
PROPERTY StopIsFinal
CHECK_DEADLOCK FALSE
