SPECIFICATION Spec
CONSTANTS
  short = short
  long = long
  job = job
  amp = amp
  list = list
  leave = leave
  blank = blank
  Program = {"test.c", "test2.c", "sigtest.c"}
  HIST_SIZE = 2
  Command = {short, long, job, amp, list, leave, blank}
  Kind <- MCKind
  NULL = NULL
  Freed = Freed
  Outside = Outside
  Child = {c1, c2}
  MaxCount = 4
  MaxInts = 1
INVARIANTS TypeOK Remembers Recalls LeftBehind
PROPERTIES ZombiesReaped
CHECK_DEADLOCK FALSE
