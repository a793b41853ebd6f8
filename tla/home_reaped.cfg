CONSTANTS
  b1 = b1
  RosterBots = {b1}
  MaxTools = 1
  MaxDisturbances = 2
SPECIFICATION RosterSpec
CHECK_DEADLOCK FALSE
PROPERTIES RestartKeepsHomes
