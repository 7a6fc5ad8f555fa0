SPECIFICATION Spec
CONSTANTS
  Client = {c1, c2, c3}
  MAX_CLIENTS = 2
  NUM_MSG_PER_CLIENT = 1
  NUM_MSG = 1
  Faults = {"split", "reset", "accept"}
  Free = Free
  Main = Main
INVARIANTS TypeOK ListExact EverythingKept CutOffLate NobodyShort CleanEnd
PROPERTIES Stops
