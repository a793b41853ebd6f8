CONSTANTS
  w1 = w1
  w2 = w2
  k1 = k1
  Workers = {w1}
  Clicks = {k1}
  Approvals = {TRUE}
  Faults = {}
  MaxAttempts = 2
  MaxFires = 1
  MaxSlots = 1
  MaxCrashes = 1
SPECIFICATION Spec
PROPERTY ApprovalResumes
CHECK_DEADLOCK FALSE
