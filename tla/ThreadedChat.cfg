SPECIFICATION Spec
CONSTANTS
  c1 = c1
  c2 = c2
  c3 = c3
  Client = {c1, c2, c3}
  MaxLines = 2
  MaxClients = 2
  Expected = 2
  Faults = {"accept", "thread", "full", "pipe", "malloc"}
INVARIANTS TypeOK EntryPerThread OneCommit NoGapNoRepeat AwakeAtTheEnd
SYMMETRY Symmetry
CHECK_DEADLOCK FALSE
