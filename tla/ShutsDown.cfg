SPECIFICATION FairSpec
CONSTANTS
  c1 = c1
  c2 = c2
  c3 = c3
  Client = {c1, c2}
  MaxLines = 2
  MaxClients = 2
  Expected = 2
  Faults = {}
PROPERTIES ShutsDown
CHECK_DEADLOCK FALSE
