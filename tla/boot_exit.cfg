SPECIFICATION RecoverySpec
CONSTANTS
  Leftovers = {r1}
  MaxBootExits = 1
INVARIANT WaitOrCard
CHECK_DEADLOCK FALSE
