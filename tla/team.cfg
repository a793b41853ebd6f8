CONSTANTS
  Parts = {"owner", "workers", "asks", "computer"}
  w1 = w1  w2 = w2  w3 = w3
  Windows = {w1, w2, w3}
  OldWindows = {w3}
  Callers = {"lead", "worker"}
  Kinds = {"ask", "auto", "read"}
  MaxJobs = 1
  MaxOpens = 3
  MaxRestarts = 1
  s1 = s1
  Subagents = {s1}
  MaxSubagents = 1
  MaxRuns = 2
  MaxActivity = 2
  MaxHostRestarts = 1
  a1 = a1  a2 = a2
  AskBots = {a1, a2}
  MaxAsks = 2
  MaxTurns = 3
  Bots = {a1, a2}
  MaxLeases = 2
  MaxBoxes = 2
  MaxCalls = 3
  MaxEvents = 1
SPECIFICATION TeamSpec
SYMMETRY TeamSym
CHECK_DEADLOCK FALSE
INVARIANTS TeamTypeOK WorkDoneOnce ReplyKeptOnce HelperYields
PROPERTIES EndedJobIsFinal  EndedLeaseStaysEnded
