CONSTANTS
  w1 = w1
  w2 = w2
  k1 = k1
  Workers = {w1}
  Clicks = {k1}
  Approvals = {TRUE, FALSE}
  Faults = {"error", "lost", "stall"}
  MaxAttempts = 2
  MaxFires = 2
  MaxSlots = 1
  MaxCrashes = 1
SPECIFICATION Spec
INVARIANT PromptNeedsApproval
CHECK_DEADLOCK FALSE
