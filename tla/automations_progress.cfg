CONSTANTS
  w1 = w1
  w2 = w2
  k1 = k1
  Workers = {w1, w2}
  Clicks = {}
  Approvals = {FALSE}
  Faults = {"error"}
  MaxAttempts = 2
  MaxFires = 2
  MaxSlots = 1
  MaxCrashes = 1
SPECIFICATION FairSpec
INVARIANTS FireKept PromptOnce
PROPERTY JobSettles
CHECK_DEADLOCK FALSE
